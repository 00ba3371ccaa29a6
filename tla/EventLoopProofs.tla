--------------------------- MODULE EventLoopProofs ---------------------------
(* The inductive invariant of EventLoop and the safety theorems it gives,  *)
(* for any number of events, nested calls and callbacks per phase.         *)
EXTENDS EventLoop, SequenceTheorems, TLAPS

-----------------------------------------------------------------------------
(* The three ways an action moves the call stack.  Kept(m): the m lowest   *)
(* frames stay calls of the same functions; below the top they are as they *)
(* were.                                                                   *)
Kept(m) ==
  \A i \in 1..m : /\ stack'[i].fn = stack[i].fn
                  /\ stack'[i].pstate = stack[i].pstate
                  /\ i < Len(stack) => stack'[i] = stack[i]

Stays  == Len(stack') = Len(stack) /\ Kept(Len(stack))
Pushes == Len(stack') = Len(stack) + 1 /\ Kept(Len(stack))
Pops   == Len(stack') = Len(stack) - 1 /\ Kept(Len(stack) - 1)

StackInv == WellNested /\ NoReentry /\ PstateMatches /\ RunningMatchesStack

(* Moving on inside the innermost call keeps every frame's function.       *)
LEMMA GotoFacts ==
  ASSUME stack \in Seq(Frame), stack # <<>>,
         NEW pc \in Points, NEW n \in 0..MaxCallbacks
  PROVE  LET s == Goto(pc, n) IN
         /\ s \in Seq(Frame) /\ s # <<>> /\ Len(s) = Len(stack)
         /\ \A i \in 1..Len(stack) : /\ s[i].fn = stack[i].fn
                                     /\ s[i].pstate = stack[i].pstate
                                     /\ i < Len(stack) => s[i] = stack[i]
         /\ s[Len(stack)].pc = pc /\ s[Len(stack)].n = n
<1>1. Len(stack) \in Nat \ {0}
  BY EmptySeq
<1>2. stack[Len(stack)] \in Frame
  BY <1>1, ElementOfSeq
<1>3. [stack[Len(stack)] EXCEPT !.pc = pc, !.n = n] \in Frame
  BY <1>2 DEF Frame
<1>. DEFINE e == [stack[Len(stack)] EXCEPT !.pc = pc, !.n = n]
<1>4. Goto(pc, n) = [stack EXCEPT ![Len(stack)] = e]
  BY DEF Goto
<1>5. e.fn = stack[Len(stack)].fn /\ e.pstate = stack[Len(stack)].pstate
      /\ e.pc = pc /\ e.n = n
  BY <1>2 DEF Frame
<1>6. Len(stack) \in 1..Len(stack)
  BY <1>1
<1>. HIDE DEF e
<1>7. /\ Goto(pc, n) \in Seq(Frame)
      /\ Len(Goto(pc, n)) = Len(stack)
      /\ \A j \in 1..Len(stack) :
           Goto(pc, n)[j] = IF j = Len(stack) THEN e ELSE stack[j]
  BY <1>3, <1>4, <1>6, ExceptSeq DEF e
<1>. QED
  BY <1>1, <1>5, <1>6, <1>7, EmptySeq

(* A call made at this point of the innermost call.                        *)
LEMMA CallFacts ==
  ASSUME stack \in Seq(Frame), stack # <<>>,
         NEW pc \in Points, NEW n \in 0..MaxCallbacks, NEW f \in Frame,
         stack' = Append(Goto(pc, n), f)
  PROVE  /\ stack' \in Seq(Frame) /\ Pushes
         /\ stack'[Len(stack)].n = n /\ stack'[Len(stack)+1] = f
<1>. DEFINE s == Goto(pc, n)
<1>1. /\ s \in Seq(Frame) /\ s # <<>> /\ Len(s) = Len(stack)
      /\ \A i \in 1..Len(stack) : /\ s[i].fn = stack[i].fn
                                  /\ s[i].pstate = stack[i].pstate
                                  /\ i < Len(stack) => s[i] = stack[i]
      /\ s[Len(stack)].n = n
  BY GotoFacts
<1>2. Len(stack) \in Nat \ {0}
  BY EmptySeq
<1>. HIDE DEF s
<1>3. stack' = Append(s, f)
  BY DEF s
<1>4. /\ stack' \in Seq(Frame) /\ Len(stack') = Len(s) + 1 /\ stack'[Len(s)+1] = f
      /\ \A i \in 1..Len(s) : stack'[i] = s[i]
  BY <1>1, <1>2, <1>3
<1>. QED
  BY <1>1, <1>2, <1>4 DEF Pushes, Kept

LEMMA PopFacts ==
  ASSUME stack \in Seq(Frame), stack # <<>>, stack' = Pop
  PROVE  stack' \in Seq(Frame) /\ Pops
<1>. DEFINE n == Len(stack) - 1
            s == SubSeq(stack, 1, n)
<1>1. n \in Nat /\ Len(stack) = n + 1
  BY EmptySeq
<1>2. \A i \in 1..n : stack[i] \in Frame
  BY <1>1, ElementOfSeq
<1>. HIDE DEF n
<1>3. /\ s \in Seq(Frame)
      /\ Len(s) = IF 1 <= n THEN n-1+1 ELSE 0
      /\ \A i \in 1..(n-1+1) : s[i] = stack[1+i-1]
  BY <1>1, <1>2, SubSeqProperties
<1>4. stack' = s
  BY DEF Pop, n
<1>. HIDE DEF s
<1>5. /\ Len(s) = n
      /\ \A i \in 1..n : s[i] = stack[i]
  BY <1>1, <1>3
<1>. QED
  BY <1>1, <1>3, <1>4, <1>5 DEF Pops, Kept

-----------------------------------------------------------------------------
(* What the flag stands for, one frame at a time.                          *)
LEMMA RunningAtStep ==
  ASSUME NEW s, NEW m \in Nat
  PROVE  RunningAt(s, m+1) <=> \/ s[m+1].fn = "prepare_events"
                               \/ s[m+1].fn # "event_cycle_once" /\ RunningAt(s, m)
<1>1. ASSUME RunningAt(s, m+1), s[m+1].fn # "prepare_events"
      PROVE  s[m+1].fn # "event_cycle_once" /\ RunningAt(s, m)
  <2>1. PICK j \in 1..(m+1) :
          /\ s[j].fn = "prepare_events"
          /\ \A k \in (j+1)..(m+1) : s[k].fn # "event_cycle_once"
    BY <1>1 DEF RunningAt
  <2>2. j \in 1..m /\ m+1 \in (j+1)..(m+1)
    BY <1>1, <2>1
  <2>3. \A k \in (j+1)..m : k \in (j+1)..(m+1)
    BY <2>2
  <2>. QED
    BY <2>1, <2>2, <2>3 DEF RunningAt
<1>2. ASSUME s[m+1].fn = "prepare_events"
      PROVE  RunningAt(s, m+1)
  <2>1. m+1 \in 1..(m+1) /\ (m+1+1)..(m+1) = {}
    OBVIOUS
  <2>. QED
    BY <1>2, <2>1 DEF RunningAt
<1>3. ASSUME s[m+1].fn # "event_cycle_once", RunningAt(s, m)
      PROVE  RunningAt(s, m+1)
  <2>1. PICK j \in 1..m :
          /\ s[j].fn = "prepare_events"
          /\ \A k \in (j+1)..m : s[k].fn # "event_cycle_once"
    BY <1>3 DEF RunningAt
  <2>2. \A k \in (j+1)..(m+1) : s[k].fn # "event_cycle_once"
    BY <1>3, <2>1
  <2>. QED
    BY <2>1, <2>2 DEF RunningAt
<1>. QED
  BY <1>1, <1>2, <1>3

(* It depends on the functions of the frames below only.                   *)
LEMMA RunningAtKept ==
  ASSUME NEW m \in Nat, Kept(m), NEW i \in 0..m
  PROVE  RunningAt(stack', i) <=> RunningAt(stack, i)
<1>1. \A j \in 1..i : stack'[j].fn = stack[j].fn
  BY DEF Kept
<1>2. \A j \in 1..i : \A k \in (j+1)..i : k \in 1..i
  OBVIOUS
<1>. QED
  BY <1>1, <1>2 DEF RunningAt

-----------------------------------------------------------------------------
(* Each way of moving the stack preserves what is said of the frames.      *)
LEMMA StayStack ==
  ASSUME TypeOK, StackInv, Stays, stack' \in Seq(Frame), stack' # <<>>,
         running' = running
  PROVE  StackInv'
<1>1. PICK n \in Nat \ {0} : n = Len(stack)
  BY EmptySeq DEF StackInv, WellNested, TypeOK
<1>2. Len(stack') = n /\ Kept(n)
  BY <1>1 DEF Stays
<1>3. \A i \in 0..n : RunningAt(stack', i) <=> RunningAt(stack, i)
  BY <1>2, RunningAtKept
<1>4. \A i \in 1..n : /\ stack'[i].fn = stack[i].fn /\ stack'[i].pstate = stack[i].pstate
                      /\ i > 1 => i-1 \in 1..n /\ stack'[i-1] = stack[i-1]
  BY <1>1, <1>2 DEF Kept
<1>5. WellNested'
  BY <1>1, <1>2, <1>4 DEF StackInv, WellNested, UvRuns, Drains, Untils, Nesting
<1>9. \A i \in 1..n : RunningAt(stack', i-1) <=> RunningAt(stack, i-1)
  <2>1. \A i \in 1..n : i-1 \in 0..n
    BY <1>1
  <2>. QED
    BY <1>3, <2>1
<1>6. NoReentry'
  <2>1. \A i \in 1..n : stack[i].fn = "prepare_events" => ~RunningAt(stack, i-1)
    BY <1>1 DEF StackInv, NoReentry
  <2>. QED
    BY <1>2, <1>4, <1>9, <2>1 DEF NoReentry
<1>7. PstateMatches'
  <2>1. \A i \in 1..n : stack[i].fn = "event_cycle_once"
                           => (stack[i].pstate <=> RunningAt(stack, i-1))
    BY <1>1 DEF StackInv, PstateMatches
  <2>. QED
    BY <1>2, <1>4, <1>9, <2>1 DEF PstateMatches
<1>8. RunningMatchesStack'
  <2>1. (running <=> RunningAt(stack, n)) /\ n \in 0..n
    BY <1>1 DEF StackInv, RunningMatchesStack
  <2>. QED
    BY <1>2, <1>3, <2>1 DEF RunningMatchesStack
<1>. QED
  BY <1>5, <1>6, <1>7, <1>8 DEF StackInv

(* A call: the new frame's caller, its pstate and `running' must fit it.   *)
LEMMA PushStack ==
  ASSUME TypeOK, StackInv, Pushes, stack' \in Seq(Frame), stack' # <<>>,
         NEW f \in Frame, stack'[Len(stack)+1] = f,
         f.fn # "main",
         f.fn \in UvRuns => Top.fn \in Drains \cup {"main"},
         f.fn = "uv_run_once" => Top.fn = "event_cycle_once",
         f.fn = "uv_run_default" => Len(stack) = 1,
         f.fn = "prepare_events" => Top.fn \in UvRuns /\ ~running /\ running',
         f.fn = "until_idle" => Top.fn = "main",
         f.fn \in Nesting => Top.fn = "handler",
         f.fn = "handler" => stack'[Len(stack)].n > 0,
         f.fn = "event_cycle_once" => f.pstate = running /\ ~running',
         f.fn \notin {"prepare_events", "event_cycle_once"} => running' = running
  PROVE  StackInv'
<1>1. PICK n \in Nat \ {0} : n = Len(stack)
  BY EmptySeq DEF StackInv, WellNested, TypeOK
<1>2. Len(stack') = n+1 /\ Kept(n) /\ stack'[n+1] = f
  BY <1>1 DEF Pushes
<1>3. \A i \in 0..n : RunningAt(stack', i) <=> RunningAt(stack, i)
  BY <1>2, RunningAtKept
<1>4. \A i \in 1..n : /\ stack'[i].fn = stack[i].fn /\ stack'[i].pstate = stack[i].pstate
                      /\ i > 1 => i-1 \in 1..n /\ stack'[i-1] = stack[i-1]
  BY <1>1, <1>2 DEF Kept
<1>5. running <=> RunningAt(stack, n)
  BY <1>1 DEF StackInv, RunningMatchesStack
<1>6. RunningAt(stack', n+1)
        <=> (f.fn = "prepare_events") \/ (f.fn # "event_cycle_once" /\ RunningAt(stack', n))
  BY <1>2, RunningAtStep
<1>7. WellNested'
  <2>1. \A i \in 1..n :
       /\ stack'[i].fn = "main" <=> i = 1
       /\ stack'[i].fn \in UvRuns => stack'[i-1].fn \in Drains \cup {"main"}
       /\ stack'[i].fn = "uv_run_once" => stack'[i-1].fn = "event_cycle_once"
       /\ stack'[i].fn = "uv_run_default" => i = 2
       /\ stack'[i].fn = "prepare_events" => stack'[i-1].fn \in UvRuns
       /\ stack'[i].fn = "until_idle" => stack'[i-1].fn = "main"
       /\ stack'[i].fn \in Nesting => stack'[i-1].fn = "handler"
       /\ stack'[i].fn = "handler" => stack'[i-1].n > 0
    BY <1>1, <1>2, <1>4 DEF StackInv, WellNested, UvRuns, Drains, Untils, Nesting
  <2>2. n \in 1..n /\ stack'[n].fn = Top.fn /\ (n+1)-1 = n
    BY <1>1, <1>4 DEF Top
  <2>3. /\ stack'[n+1].fn \in UvRuns => stack'[(n+1)-1].fn \in Drains \cup {"main"}
        /\ stack'[n+1].fn = "uv_run_once" => stack'[(n+1)-1].fn = "event_cycle_once"
        /\ stack'[n+1].fn = "uv_run_default" => n+1 = 2
        /\ stack'[n+1].fn = "prepare_events" => stack'[(n+1)-1].fn \in UvRuns
        /\ stack'[n+1].fn = "until_idle" => stack'[(n+1)-1].fn = "main"
        /\ stack'[n+1].fn \in Nesting => stack'[(n+1)-1].fn = "handler"
        /\ stack'[n+1].fn = "handler" => stack'[(n+1)-1].n > 0
        /\ stack'[n+1].fn # "main" /\ n+1 # 1
    BY <1>1, <1>2, <2>2
  <2>4. \A i \in 1..(n+1) : i \in 1..n \/ i = n+1
    BY <1>1
  <2>. QED
    BY <1>1, <1>2, <2>1, <2>3, <2>4 DEF WellNested
<1>8. NoReentry'
  <2>1. \A i \in 1..n : stack'[i].fn = "prepare_events" => ~RunningAt(stack', i-1)
    BY <1>1, <1>3, <1>4 DEF StackInv, NoReentry
  <2>2. f.fn = "prepare_events" => ~RunningAt(stack', n)
    BY <1>3, <1>5
  <2>. QED
    BY <1>1, <1>2, <2>1, <2>2 DEF NoReentry
<1>9. PstateMatches'
  <2>1. \A i \in 1..n :
          stack'[i].fn = "event_cycle_once" => (stack'[i].pstate <=> RunningAt(stack', i-1))
    BY <1>1, <1>3, <1>4 DEF StackInv, PstateMatches
  <2>2. f.fn = "event_cycle_once" => (f.pstate <=> RunningAt(stack', n))
    BY <1>3, <1>5
  <2>. QED
    BY <1>1, <1>2, <2>1, <2>2 DEF PstateMatches
<1>10. RunningMatchesStack'
  BY <1>1, <1>2, <1>3, <1>5, <1>6 DEF RunningMatchesStack
<1>. QED
  BY <1>7, <1>8, <1>9, <1>10 DEF StackInv

(* A return: `running' must be what the caller's frames stand for.         *)
LEMMA PopStack ==
  ASSUME TypeOK, StackInv, Pops, stack' \in Seq(Frame), Top.fn # "main",
         Top.fn = "prepare_events" => ~running',
         Top.fn = "event_cycle_once" => running' = Top.pstate,
         Top.fn \notin {"prepare_events", "event_cycle_once"} => running' = running
  PROVE  StackInv'
<1>1. PICK m \in Nat : m+1 = Len(stack)
  <2>1. Len(stack) \in Nat \ {0}
    BY EmptySeq DEF StackInv, WellNested, TypeOK
  <2>2. Len(stack) - 1 \in Nat /\ (Len(stack) - 1) + 1 = Len(stack)
    BY <2>1
  <2>. QED
    BY <2>2
<1>2. Len(stack') = m /\ Kept(m)
  BY <1>1 DEF Pops
<1>3. \A i \in 0..m : RunningAt(stack', i) <=> RunningAt(stack, i)
  BY <1>2, RunningAtKept
<1>4. \A i \in 1..m : stack'[i] = stack[i] /\ i \in 1..Len(stack)
                      /\ (i > 1 => i-1 \in 1..m)
  BY <1>1, <1>2 DEF Kept
<1>5. m # 0
  <2>1. m+1 \in 1..Len(stack) /\ Top = stack[m+1]
    BY <1>1 DEF Top
  <2>. QED
    BY <2>1 DEF StackInv, WellNested
<1>6. WellNested'
  <2>1. stack' # <<>>
    BY <1>2, <1>5, EmptySeq
  <2>2. \A i \in 1..m :
       /\ stack[i].fn = "main" <=> i = 1
       /\ stack[i].fn \in UvRuns => stack[i-1].fn \in Drains \cup {"main"}
       /\ stack[i].fn = "uv_run_once" => stack[i-1].fn = "event_cycle_once"
       /\ stack[i].fn = "uv_run_default" => i = 2
       /\ stack[i].fn = "prepare_events" => stack[i-1].fn \in UvRuns
       /\ stack[i].fn = "until_idle" => stack[i-1].fn = "main"
       /\ stack[i].fn \in Nesting => stack[i-1].fn = "handler"
       /\ stack[i].fn = "handler" => stack[i-1].n > 0
    BY <1>4 DEF StackInv, WellNested
  <2>3. stack[1].fn = "main"
    BY <1>5, <2>2
  <2>4. \A i \in 1..m : i = 1 \/ stack'[i-1] = stack[i-1]
    BY <1>4
  <2>5. /\ \A s \in UvRuns : s # "main"
        /\ \A s \in Nesting : s # "main"
    BY DEF UvRuns, Nesting
  <2>. HIDE DEF UvRuns, Drains, Nesting
  <2>. QED
    BY <1>2, <1>4, <2>1, <2>2, <2>4, <2>5 DEF WellNested
<1>7. NoReentry'
  BY <1>1, <1>2, <1>3, <1>4 DEF StackInv, NoReentry
<1>8. PstateMatches'
  BY <1>1, <1>2, <1>3, <1>4 DEF StackInv, PstateMatches
<1>9. RunningMatchesStack'
  <2>1. running <=> RunningAt(stack, m+1)
    BY <1>1 DEF StackInv, RunningMatchesStack
  <2>2. Top = stack[m+1] /\ m+1 \in 1..Len(stack) /\ (m+1)-1 = m
    BY <1>1 DEF Top
  <2>3. RunningAt(stack, m+1)
        <=> (Top.fn = "prepare_events") \/ (Top.fn # "event_cycle_once" /\ RunningAt(stack, m))
    BY <2>2, RunningAtStep
  <2>4. /\ Top.fn = "prepare_events" => ~RunningAt(stack, m)
        /\ Top.fn = "event_cycle_once" => (Top.pstate <=> RunningAt(stack, m))
    BY <2>2 DEF StackInv, NoReentry, PstateMatches
  <2>5. running' <=> RunningAt(stack, m)
    BY <2>1, <2>3, <2>4
  <2>. QED
    BY <1>2, <1>3, <2>5 DEF RunningMatchesStack
<1>. QED
  BY <1>6, <1>7, <1>8, <1>9 DEF StackInv

-----------------------------------------------------------------------------
(* An event_cycle_once called by a handler of prepare_events stays one     *)
(* until it returns itself.                                                *)
LEMMA CycledKept ==
  ASSUME TypeOK, WellNested, CycledFromDrain,
         Stays \/ Pushes \/ (Pops /\ ~(Top.fn = "event_cycle_once" /\ Top.pstate))
  PROVE  CycledFromDrain'
<1>1. PICK i \in 1..Len(stack) : stack[i].fn = "event_cycle_once" /\ stack[i].pstate
  BY DEF CycledFromDrain
<1>2. Len(stack) \in Nat \ {0}
  BY EmptySeq DEF WellNested, TypeOK
<1>3. CASE Stays \/ Pushes
  <2>1. i \in 1..Len(stack') /\ stack'[i].fn = "event_cycle_once" /\ stack'[i].pstate
    BY <1>1, <1>2, <1>3 DEF Stays, Pushes, Kept
  <2>. QED
    BY <2>1 DEF CycledFromDrain
<1>4. CASE Pops /\ ~(Top.fn = "event_cycle_once" /\ Top.pstate)
  <2>1. i \in 1..(Len(stack)-1)
    BY <1>1, <1>2, <1>4 DEF Top
  <2>2. i \in 1..Len(stack') /\ stack'[i].fn = "event_cycle_once" /\ stack'[i].pstate
    BY <1>1, <1>2, <1>4, <2>1 DEF Pops, Kept
  <2>. QED
    BY <2>2 DEF CycledFromDrain
<1>. QED
  BY <1>3, <1>4

(* No return but that of prepare_events uncovers a poll about to block.    *)
LEMMA UncoveredPoll ==
  ASSUME TypeOK, WellNested, Pops, Top.fn \notin {"main", "prepare_events"},
         stack' # <<>>
  PROVE  ~(At(UvRuns, "poll")' /\ stack'[Len(stack')].n = 0)
<1>1. PICK n \in Nat \ {0} : n = Len(stack)
  BY EmptySeq DEF WellNested, TypeOK
<1>2. Len(stack') = n-1 /\ n-1 \in Nat
  BY <1>1 DEF Pops
<1>3. n # 1 /\ n \in 1..n
  BY <1>1 DEF WellNested, Top
<1>4. n-1 \in 1..(n-1) /\ stack'[n-1] = stack[n-1]
  BY <1>1, <1>2, <1>3 DEF Pops, Kept
<1>5. stack[n] \in Frame /\ Top = stack[n]
  BY <1>1, <1>3, ElementOfSeq DEF TypeOK, Top
<1>6. stack[n].fn \in UvRuns \cup {"event_cycle_once"} \cup Untils \cup {"handler"}
  BY <1>5 DEF Frame, Functions, Drains
<1>7. stack[n-1].fn \notin UvRuns \/ stack[n-1].n > 0
  BY <1>1, <1>3, <1>6 DEF WellNested, UvRuns, Drains, Untils, Nesting
<1>8. stack[n-1] \in Frame
  BY <1>1, <1>4, <1>3, ElementOfSeq DEF TypeOK
<1>. QED
  BY <1>2, <1>4, <1>7, <1>8 DEF At, Top, Frame

LEMMA CallFrame ==
  ASSUME NEW fn \in Functions, NEW pc \in Points
  PROVE  /\ Call(fn, pc) \in Frame
         /\ Call(fn, pc).fn = fn /\ Call(fn, pc).pc = pc
  BY BoundsAssumption DEF Call, Frame

(* The frame the stack ends in, and where it stands.                       *)
LEMMA TopFacts ==
  ASSUME TypeOK, WellNested
  PROVE  /\ Len(stack) \in Nat \ {0} /\ stack # <<>> /\ stack \in Seq(Frame)
         /\ Top \in Frame /\ Top = stack[Len(stack)]
  BY EmptySeq, ElementOfSeq DEF TypeOK, WellNested, Top

LEMMA PointFacts ==
  /\ {"start", "drain", "exit", "enter", "timers", "prepare", "poll", "closing",
      "cond", "eventq", "drawq", "check", "once", "ret"} = Points
  /\ 0 \in 0..MaxCallbacks /\ 1 \in 0..MaxCallbacks
  BY BoundsAssumption DEF Points

-----------------------------------------------------------------------------
(* An action that only moves on inside the innermost call.                 *)
LEMMA GotoStep ==
  ASSUME IInv, NEW pc \in Points, NEW n \in 0..MaxCallbacks, stack' = Goto(pc, n),
         pc # "poll", UNCHANGED <<queue, put, running, prepare>>,
         stopFlag' \in BOOLEAN, quit' \in BOOLEAN
  PROVE  IInv'
<1>1. TypeOK /\ WellNested /\ StackInv /\ Awake
  BY DEF IInv, StackInv
<1>2. /\ stack' \in Seq(Frame) /\ stack' # <<>> /\ Len(stack') = Len(stack)
      /\ stack'[Len(stack)].pc = pc /\ Stays
  BY <1>1, TopFacts, GotoFacts DEF Stays, Kept
<1>3. TypeOK'
  BY <1>1, <1>2 DEF TypeOK
<1>4. StackInv'
  BY <1>1, <1>2, StayStack
<1>5. Awake'
  BY <1>1, <1>2, CycledKept DEF Awake, Busy
<1>6. PollIdle'
  BY <1>2 DEF PollIdle, At, Top
<1>. QED
  BY <1>3, <1>4, <1>5, <1>6 DEF IInv, StackInv

(* A call, of anything but prepare_events and event_cycle_once.            *)
LEMMA CallStep ==
  ASSUME IInv, NEW pc \in Points, NEW n \in 0..MaxCallbacks, NEW f \in Frame,
         stack' = Append(Goto(pc, n), f), f.pc # "poll",
         f.fn \notin {"main", "prepare_events", "event_cycle_once"},
         f.fn \in UvRuns => Top.fn \in Drains \cup {"main"},
         f.fn = "uv_run_once" => Top.fn = "event_cycle_once",
         f.fn = "uv_run_default" => Len(stack) = 1,
         f.fn = "until_idle" => Top.fn = "main",
         f.fn \in Nesting => Top.fn = "handler",
         f.fn = "handler" => n > 0,
         UNCHANGED <<put, running, prepare, stopFlag, quit>>,
         queue' \in [Queues -> Seq(Nat)], Busy' => Busy
  PROVE  IInv'
<1>1. TypeOK /\ WellNested /\ StackInv /\ Awake
  BY DEF IInv, StackInv
<1>2. /\ stack' \in Seq(Frame) /\ Pushes
      /\ stack'[Len(stack)].n = n /\ stack'[Len(stack)+1] = f
  BY <1>1, TopFacts, CallFacts
<1>3. Len(stack') = Len(stack) + 1 /\ stack' # <<>>
  BY <1>1, <1>2, TopFacts DEF Pushes
<1>4. TypeOK'
  BY <1>1, <1>2 DEF TypeOK
<1>5. StackInv'
  BY <1>1, <1>2, <1>3, PushStack
<1>6. Awake'
  BY <1>1, <1>2, CycledKept DEF Awake
<1>7. PollIdle'
  BY <1>2, <1>3 DEF PollIdle, At, Top
<1>. QED
  BY <1>4, <1>5, <1>6, <1>7 DEF IInv, StackInv

(* A return, of anything but prepare_events and event_cycle_once.          *)
LEMMA ReturnStep ==
  ASSUME IInv, stack' = Pop, stopFlag' \in BOOLEAN,
         Top.fn \notin {"main", "prepare_events", "event_cycle_once"},
         UNCHANGED <<queue, put, running, prepare, quit>>
  PROVE  IInv'
<1>1. TypeOK /\ WellNested /\ StackInv /\ Awake
  BY DEF IInv, StackInv
<1>2. stack' \in Seq(Frame) /\ Pops
  BY <1>1, TopFacts, PopFacts
<1>3. TypeOK'
  BY <1>1, <1>2 DEF TypeOK
<1>4. StackInv'
  BY <1>1, <1>2, PopStack
<1>5. Awake'
  BY <1>1, <1>2, CycledKept DEF Awake, Busy
<1>6. PollIdle'
  <2>1. stack' # <<>>
    BY <1>4 DEF StackInv, WellNested
  <2>. QED
    BY <1>1, <1>2, <2>1, UncoveredPoll DEF PollIdle, Top
<1>. QED
  BY <1>3, <1>4, <1>5, <1>6 DEF IInv, StackInv

-----------------------------------------------------------------------------
(* Where an action finds the innermost call.                               *)
LEMMA AtFacts ==
  ASSUME IInv, NEW fns, NEW pc, At(fns, pc)
  PROVE  Top.fn \in fns /\ Top.pc = pc /\ stack \in Seq(Frame) /\ stack # <<>>
         /\ Top \in Frame /\ TypeOK /\ WellNested
  BY TopFacts DEF IInv, At

LEMMA MainPreserves == ASSUME IInv, Main PROVE IInv'
<1>1. CASE MainStart
  <2>1. Top.fn = "main" /\ stack[Len(stack)].fn = "main"
    BY <1>1, AtFacts DEF MainStart, Top
  <2>2. Len(stack) \in 1..Len(stack)
    BY TopFacts DEF IInv
  <2>3. Len(stack) = 1
    BY <2>1, <2>2 DEF IInv, WellNested
  <2>4. /\ Call("uv_run_default", "enter") \in Frame
        /\ Call("uv_run_default", "enter").fn = "uv_run_default"
        /\ Call("uv_run_default", "enter").pc = "enter"
    BY CallFrame, PointFacts DEF Functions, UvRuns
  <2>5. "drain" \in Points /\ 0 \in 0..MaxCallbacks
    BY PointFacts
  <2>. QED
    BY <1>1, <2>1, <2>3, <2>4, <2>5, CallStep
       DEF MainStart, IInv, TypeOK, UvRuns, Nesting, Busy
<1>2. CASE MainDrain
  <2>1. Top.fn = "main"
    BY <1>2, AtFacts DEF MainDrain
  <2>2. /\ Call("until_idle", "cond") \in Frame
        /\ Call("until_idle", "cond").fn = "until_idle"
        /\ Call("until_idle", "cond").pc = "cond"
    BY CallFrame, PointFacts DEF Functions, Drains, Untils
  <2>3. "exit" \in Points /\ 0 \in 0..MaxCallbacks
    BY PointFacts
  <2>. QED
    BY <1>2, <2>1, <2>2, <2>3, CallStep
       DEF MainDrain, IInv, TypeOK, UvRuns, Nesting, Busy
<1>3. CASE MainExit
  BY <1>3 DEF MainExit, vars, IInv, TypeOK, WellNested, RunningMatchesStack,
       NoReentry, PstateMatches, Awake, PollIdle, Busy, CycledFromDrain, At, Top,
       RunningAt
<1>. QED
  BY <1>1, <1>2, <1>3 DEF Main

LEMMA UvRunPreserves == ASSUME IInv, UvRun PROVE IInv'
<1>1. CASE RunEnter
  <2>1. Top.fn \in UvRuns
    BY <1>1, AtFacts DEF RunEnter
  <2>2. CASE stopFlag /\ RunReturn
    BY <1>1, <2>1, <2>2, ReturnStep DEF RunEnter, RunReturn, UvRuns
  <2>3. CASE ~stopFlag /\ stack' = Goto("timers", 0) /\ UNCHANGED stopFlag
    BY <1>1, <2>3, GotoStep, PointFacts DEF RunEnter, IInv, TypeOK
  <2>. QED
    BY <1>1, <2>2, <2>3 DEF RunEnter
<1>2. ASSUME NEW phase \in {"timers", "poll", "closing"}, RunCallback(phase)
      PROVE  IInv'
  <2>1. Top \in Frame /\ TypeOK
    BY <1>2, AtFacts DEF RunCallback
  <2>2. Top.n + 1 \in 0..MaxCallbacks /\ Top.n + 1 > 0
    BY <1>2, <2>1, BoundsAssumption DEF Frame, RunCallback
  <2>3. phase \in Points
    BY DEF Points
  <2>4. /\ Call("handler", "start") \in Frame
        /\ Call("handler", "start").fn = "handler"
        /\ Call("handler", "start").pc = "start"
    BY CallFrame, PointFacts DEF Functions
  <2>. QED
    BY <1>2, <2>1, <2>2, <2>3, <2>4, CallStep
       DEF RunCallback, TypeOK, UvRuns, Nesting, Busy
<1>3. CASE RunTimers
  BY <1>3, GotoStep, PointFacts DEF RunTimers, IInv, TypeOK
<1>4. CASE RunPrepare
  <2>1. /\ Top.fn \in UvRuns /\ TypeOK /\ WellNested /\ StackInv /\ Awake
        /\ stack \in Seq(Frame) /\ stack # <<>>
    BY <1>4, AtFacts DEF RunPrepare, IInv, StackInv
  <2>2. CASE /\ prepare /\ MayDrain
             /\ running' = TRUE
             /\ stack' = Append(Goto("poll", 0), Call("prepare_events", "eventq"))
    <3>. DEFINE f == Call("prepare_events", "eventq")
    <3>1. f \in Frame /\ f.fn = "prepare_events" /\ f.pc = "eventq"
      BY CallFrame, PointFacts DEF Functions, Drains
    <3>. HIDE DEF f
    <3>2. stack' \in Seq(Frame) /\ Pushes /\ stack'[Len(stack)+1] = f
      BY <2>1, <2>2, <3>1, CallFacts, PointFacts DEF f
    <3>3. Len(stack') = Len(stack) + 1 /\ stack' # <<>>
      BY <2>1, <3>2, TopFacts DEF Pushes
    <3>4. StackInv'
      BY <2>1, <2>2, <3>1, <3>2, <3>3, PushStack DEF UvRuns, Nesting, MayDrain
    <3>5. TypeOK'
      BY <1>4, <2>1, <2>2, <3>2 DEF RunPrepare, TypeOK
    <3>6. Awake' /\ PollIdle'
      BY <2>2 DEF Awake, PollIdle
    <3>. QED
      BY <3>4, <3>5, <3>6 DEF IInv, StackInv
  <2>3. CASE /\ ~(prepare /\ MayDrain)
             /\ stack' = Goto("poll", 0)
             /\ UNCHANGED running
    <3>0. "poll" \in Points /\ 0 \in 0..MaxCallbacks
      BY PointFacts
    <3>1. stack' \in Seq(Frame) /\ stack' # <<>> /\ Stays
      BY <2>1, <2>3, <3>0, GotoFacts DEF Stays, Kept
    <3>2. StackInv'
      BY <2>1, <2>3, <3>1, StayStack
    <3>3. TypeOK'
      BY <1>4, <2>1, <2>3, <3>1 DEF RunPrepare, TypeOK
    <3>4. Awake' /\ PollIdle'
      BY <1>4, <2>1, <2>3, <3>1, CycledKept DEF RunPrepare, MayDrain, Awake, PollIdle, Busy
    <3>. QED
      BY <3>2, <3>3, <3>4 DEF IInv, StackInv
  <2>. QED
    BY <1>4, <2>2, <2>3 DEF RunPrepare
<1>5. CASE RunPoll
  BY <1>5, GotoStep, PointFacts DEF RunPoll, IInv, TypeOK
<1>6. CASE RunEnd
  <2>1. Top.fn \in UvRuns
    BY <1>6, AtFacts DEF RunEnd
  <2>2. CASE Top.fn = "uv_run_default" /\ stack' = Goto("enter", 0) /\ UNCHANGED stopFlag
    BY <1>6, <2>2, GotoStep, PointFacts DEF RunEnd, IInv, TypeOK
  <2>3. CASE Top.fn # "uv_run_default" /\ RunReturn
    BY <1>6, <2>1, <2>3, ReturnStep DEF RunEnd, RunReturn, UvRuns
  <2>. QED
    BY <1>6, <2>2, <2>3 DEF RunEnd
<1>. QED
  BY <1>1, <1>2, <1>3, <1>4, <1>5, <1>6 DEF UvRun

LEMMA HandlerPreserves == ASSUME IInv, Handler PROVE IInv'
<1>0. TypeOK /\ WellNested /\ StackInv /\ Awake /\ stack \in Seq(Frame) /\ stack # <<>>
  BY TopFacts DEF IInv, StackInv
<1>1. ASSUME NEW k \in Queues, QueuePutEvent(k)
      PROVE  IInv'
  <2>1. Top.fn = "handler"
    BY <1>1, AtFacts DEF QueuePutEvent
  <2>2. queue' \in [Queues -> Seq(Nat)] /\ put' \in [Queues -> Nat]
    <3>1. queue[k] \in Seq(Nat) /\ put[k]+1 \in Nat
      BY <1>0 DEF TypeOK
    <3>2. Append(queue[k], put[k]+1) \in Seq(Nat)
      BY <3>1
    <3>. QED
      BY <1>0, <1>1, <3>1, <3>2 DEF QueuePutEvent, QueuePush, TypeOK
  <2>3. TypeOK'
    BY <1>0, <1>1, <2>2 DEF QueuePutEvent, Wake, TypeOK
  <2>4. StackInv'
    BY <1>0, <1>1, StayStack DEF QueuePutEvent, Stays, Kept
  <2>5. running' \/ prepare'
    BY <1>1 DEF QueuePutEvent, Wake
  <2>6. Awake' /\ PollIdle'
    BY <1>1, <2>1, <2>5 DEF QueuePutEvent, Awake, PollIdle, At, Top, UvRuns
  <2>. QED
    BY <2>3, <2>4, <2>6 DEF IInv, StackInv
<1>2. CASE CallCycle
  <2>. DEFINE f == [Call("event_cycle_once", "eventq") EXCEPT !.pstate = running]
  <2>1. f \in Frame /\ f.fn = "event_cycle_once" /\ f.pc = "eventq" /\ f.pstate = running
    BY <1>0, PointFacts DEF Call, Frame, Functions, Drains, TypeOK
  <2>2. stack' = Append(stack, f) /\ running' = FALSE /\ Top.fn = "handler"
    BY <1>2, AtFacts DEF CallCycle
  <2>. HIDE DEF f
  <2>3. /\ stack' \in Seq(Frame) /\ Len(stack') = Len(stack)+1 /\ stack'[Len(stack)+1] = f
        /\ \A i \in 1..Len(stack) : stack'[i] = stack[i]
    BY <1>0, <2>1, <2>2
  <2>4. Pushes /\ stack' # <<>> /\ Len(stack) \in Nat \ {0}
    BY <1>0, <2>3, TopFacts DEF Pushes, Kept
  <2>5. StackInv'
    BY <1>0, <2>1, <2>2, <2>3, <2>4, PushStack DEF UvRuns
  <2>6. TypeOK'
    BY <1>0, <1>2, <2>2, <2>3 DEF CallCycle, TypeOK
  <2>7. running => CycledFromDrain'
    <3>1. Len(stack)+1 \in 1..Len(stack')
      BY <2>3, <2>4
    <3>. QED
      BY <2>1, <2>3, <3>1 DEF CycledFromDrain
  <2>8. Awake'
    BY <1>0, <1>2, <2>4, <2>7, CycledKept DEF CallCycle, Awake, Busy
  <2>9. PollIdle'
    BY <2>1, <2>3 DEF PollIdle, At, Top
  <2>. QED
    BY <2>5, <2>6, <2>8, <2>9 DEF IInv, StackInv
<1>3. CASE CallUntil
  <2>. DEFINE f == Call("until", "cond")
  <2>1. f \in Frame /\ f.fn = "until" /\ f.pc = "cond"
    BY CallFrame, PointFacts DEF Functions, Drains, Untils
  <2>2. stack' = Append(stack, f) /\ running' = running /\ Top.fn = "handler"
    BY <1>3, AtFacts DEF CallUntil
  <2>. HIDE DEF f
  <2>3. /\ stack' \in Seq(Frame) /\ Len(stack') = Len(stack)+1 /\ stack'[Len(stack)+1] = f
        /\ \A i \in 1..Len(stack) : stack'[i] = stack[i]
    BY <1>0, <2>1, <2>2
  <2>4. Pushes /\ stack' # <<>> /\ Len(stack) \in Nat \ {0}
    BY <1>0, <2>3, TopFacts DEF Pushes, Kept
  <2>5. StackInv'
    BY <1>0, <2>1, <2>2, <2>3, <2>4, PushStack DEF UvRuns
  <2>6. TypeOK'
    BY <1>0, <1>3, <2>3 DEF CallUntil, TypeOK
  <2>7. Awake'
    BY <1>0, <1>3, <2>4, CycledKept DEF CallUntil, Awake, Busy
  <2>8. PollIdle'
    BY <2>1, <2>3 DEF PollIdle, At, Top
  <2>. QED
    BY <2>5, <2>6, <2>7, <2>8 DEF IInv, StackInv
<1>4. CASE StopEventLoop
  BY <1>0, <1>4 DEF StopEventLoop, IInv, TypeOK, WellNested, RunningMatchesStack,
       NoReentry, PstateMatches, Awake, PollIdle, Busy, CycledFromDrain, At, Top,
       RunningAt
<1>5. CASE HandlerReturn
  <2>1. Top.fn = "handler"
    BY <1>5, AtFacts DEF HandlerReturn
  <2>. QED
    BY <1>0, <1>5, <2>1, ReturnStep DEF HandlerReturn, TypeOK
<1>. QED
  BY <1>1, <1>2, <1>3, <1>4, <1>5 DEF Handler

LEMMA DrainPreserves == ASSUME IInv, Drain PROVE IInv'
<1>0. TypeOK /\ WellNested /\ StackInv /\ Awake /\ stack \in Seq(Frame) /\ stack # <<>>
  BY TopFacts DEF IInv, StackInv
<1>1. ASSUME NEW k \in Queues, QueuePop(k)
      PROVE  IInv'
  <2>1. queue[k] \in Seq(Nat) /\ queue[k] # <<>>
    BY <1>0, <1>1 DEF QueuePop, TypeOK
  <2>2. Tail(queue[k]) \in Seq(Nat)
    BY <2>1
  <2>3. queue' \in [Queues -> Seq(Nat)]
    BY <1>0, <1>1, <2>2 DEF QueuePop, TypeOK
  <2>4. Busy
    BY <2>1 DEF Busy
  <2>5. /\ Call("handler", "start") \in Frame
        /\ Call("handler", "start").fn = "handler"
        /\ Call("handler", "start").pc = "start"
    BY CallFrame, PointFacts DEF Functions
  <2>6. k \in Points /\ 1 \in 0..MaxCallbacks
    BY BoundsAssumption DEF Points, Queues
  <2>7. /\ stack' = Append(Goto(k, 1), Call("handler", "start"))
        /\ UNCHANGED <<put, running, prepare, stopFlag, quit>>
    BY <1>1 DEF QueuePop
  <2>. DEFINE f == Call("handler", "start")
  <2>8. f \in Frame /\ f.fn = "handler" /\ f.pc = "start"
    BY <2>5
  <2>9. stack' = Append(Goto(k, 1), f)
    BY <2>7
  <2>. HIDE DEF f
  <2>10. f.fn \notin UvRuns /\ f.fn \notin Nesting
    BY <2>8 DEF UvRuns, Nesting
  <2>. QED
    BY <2>3, <2>4, <2>6, <2>7, <2>8, <2>9, <2>10, CallStep
<1>2. ASSUME NEW k \in Queues, QueueDone(k)
      PROVE  IInv'
  BY <1>0, <1>2, GotoStep, PointFacts DEF QueueDone, TypeOK
<1>3. CASE PrepareCheck
  <2>1. Top.fn = "prepare_events"
    BY <1>3, AtFacts DEF PrepareCheck
  <2>2. CASE DrainAgain /\ stack' = Append(Goto("eventq", 0), Call("uv_run_nowait", "enter"))
             /\ UNCHANGED <<running, prepare>>
    <3>1. /\ Call("uv_run_nowait", "enter") \in Frame
          /\ Call("uv_run_nowait", "enter").fn = "uv_run_nowait"
          /\ Call("uv_run_nowait", "enter").pc = "enter"
      BY CallFrame, PointFacts DEF Functions, UvRuns
    <3>2. "eventq" \in Points /\ 0 \in 0..MaxCallbacks
      BY PointFacts
    <3>3. /\ UNCHANGED <<put, running, prepare, stopFlag, quit>>
          /\ queue' \in [Queues -> Seq(Nat)] /\ (Busy' => Busy)
      BY <1>0, <1>3, <2>2 DEF PrepareCheck, TypeOK, Busy
    <3>4. Top.fn \in Drains \cup {"main"} /\ "uv_run_nowait" \notin Nesting
      BY <2>1 DEF Drains, Nesting
    <3>. QED
      BY <2>2, <3>1, <3>2, <3>3, <3>4, CallStep
  <2>3. CASE ~DrainAgain /\ prepare' = FALSE /\ running' = FALSE /\ stack' = Pop
    <3>1. stack' \in Seq(Frame) /\ Pops
      BY <1>0, <2>3, PopFacts
    <3>2. StackInv'
      BY <1>0, <2>1, <2>3, <3>1, PopStack
    <3>3. TypeOK'
      BY <1>0, <1>3, <2>3, <3>1 DEF PrepareCheck, TypeOK
    <3>4. Awake' /\ PollIdle'
      BY <1>3, <2>3 DEF PrepareCheck, DrainAgain, Awake, PollIdle, Busy
    <3>. QED
      BY <3>2, <3>3, <3>4 DEF IInv, StackInv
  <2>. QED
    BY <1>3, <2>2, <2>3 DEF PrepareCheck
<1>4. CASE CycleRun
  <2>1. Top.fn = "event_cycle_once"
    BY <1>4, AtFacts DEF CycleRun
  <2>2. ASSUME NEW fn \in {"uv_run_nowait", "uv_run_once"}, NEW pc \in {"once", "ret"},
               stack' = Append(Goto(pc, 0), Call(fn, "enter"))
        PROVE  IInv'
    <3>1. Call(fn, "enter") \in Frame /\ Call(fn, "enter").fn = fn
          /\ Call(fn, "enter").pc = "enter"
      BY CallFrame, PointFacts DEF Functions, UvRuns
    <3>2. pc \in Points /\ 0 \in 0..MaxCallbacks
      BY PointFacts
    <3>. QED
      BY <1>0, <1>4, <2>1, <2>2, <3>1, <3>2, CallStep
         DEF CycleRun, Drains, TypeOK, Nesting, Busy
  <2>. QED
    BY <1>4, <2>2 DEF CycleRun
<1>5. CASE CycleReturn
  <2>1. Top.fn = "event_cycle_once" /\ stack' = Pop /\ running' = Top.pstate
        /\ Top \in Frame
    BY <1>5, AtFacts DEF CycleReturn, Restored
  <2>2. stack' \in Seq(Frame) /\ Pops
    BY <1>0, <2>1, PopFacts
  <2>3. StackInv'
    BY <1>0, <2>1, <2>2, PopStack
  <2>4. TypeOK'
    BY <1>0, <1>5, <2>1, <2>2 DEF CycleReturn, TypeOK, Frame
  <2>5. ~running
    <3>1. /\ Len(stack) \in Nat \ {0} /\ Top = stack[Len(stack)]
          /\ (Len(stack) - 1) + 1 = Len(stack)
      BY <1>0, TopFacts
    <3>2. Len(stack) - 1 \in Nat
      BY <3>1
    <3>3. ~RunningAt(stack, Len(stack))
      BY <2>1, <3>1, <3>2, RunningAtStep
    <3>. QED
      BY <1>0, <3>3 DEF StackInv, RunningMatchesStack
  <2>6. Awake'
    <3>1. CASE Top.pstate
      BY <2>1, <3>1 DEF Awake
    <3>2. CASE ~Top.pstate
      BY <1>0, <1>5, <2>2, <2>5, <3>2, CycledKept DEF CycleReturn, Awake, Busy
    <3>. QED
      BY <3>1, <3>2
  <2>7. PollIdle'
    <3>1. stack' # <<>>
      BY <2>3 DEF StackInv, WellNested
    <3>. QED
      BY <1>0, <2>1, <2>2, <3>1, UncoveredPoll DEF PollIdle, Top
  <2>. QED
    BY <2>3, <2>4, <2>6, <2>7 DEF IInv, StackInv
<1>6. CASE UntilCond
  <2>1. Top.fn \in Untils
    BY <1>6, AtFacts DEF UntilCond
  <2>2. CASE stack' = Pop
    BY <1>0, <1>6, <2>1, <2>2, ReturnStep DEF UntilCond, TypeOK, Untils
  <2>3. CASE stack' = Goto("eventq", 0)
    <3>1. "eventq" \in Points /\ 0 \in 0..MaxCallbacks /\ "eventq" # "poll"
      BY PointFacts
    <3>2. /\ UNCHANGED <<queue, put, running, prepare>>
          /\ stopFlag' \in BOOLEAN /\ quit' \in BOOLEAN
      BY <1>0, <1>6 DEF UntilCond, TypeOK
    <3>. QED
      BY <2>3, <3>1, <3>2, GotoStep
  <2>. QED
    BY <1>6, <2>2, <2>3 DEF UntilCond
<1>7. CASE UntilRun
  <2>1. Top.fn \in Untils
    BY <1>7, AtFacts DEF UntilRun
  <2>2. /\ Call("uv_run_nowait", "enter") \in Frame
        /\ Call("uv_run_nowait", "enter").fn = "uv_run_nowait"
        /\ Call("uv_run_nowait", "enter").pc = "enter"
    BY CallFrame, PointFacts DEF Functions, UvRuns
  <2>3. "cond" \in Points /\ 0 \in 0..MaxCallbacks
    BY PointFacts
  <2>. QED
    BY <1>0, <1>7, <2>1, <2>2, <2>3, CallStep
       DEF UntilRun, Drains, TypeOK, Nesting, Busy
<1>. QED
  BY <1>1, <1>2, <1>3, <1>4, <1>5, <1>6, <1>7 DEF Drain

LEMMA InitInv == Init => IInv
<1>. SUFFICES ASSUME Init PROVE IInv
  OBVIOUS
<1>1. /\ Call("main", "start") \in Frame
      /\ Call("main", "start").fn = "main" /\ Call("main", "start").pc = "start"
  BY CallFrame, PointFacts DEF Functions
<1>. DEFINE f == Call("main", "start")
<1>2. stack = <<f>>
  BY DEF Init
<1>. HIDE DEF f
<1>3. stack \in Seq(Frame) /\ Len(stack) = 1 /\ stack[1] = f /\ stack # <<>>
  BY <1>1, <1>2 DEF f
<1>4. f.fn = "main" /\ f.pc = "start"
  BY <1>1 DEF f
<1>5. TypeOK
  <2>1. <<>> \in Seq(Nat)
    OBVIOUS
  <2>. QED
    BY <1>3, <2>1 DEF Init, TypeOK
<1>6. WellNested
  BY <1>3, <1>4 DEF WellNested, UvRuns, Nesting
<1>7. ~RunningAt(stack, 1)
  BY <1>3, <1>4 DEF RunningAt
<1>8. RunningMatchesStack /\ NoReentry /\ PstateMatches
  BY <1>3, <1>4, <1>7 DEF Init, RunningMatchesStack, NoReentry, PstateMatches
<1>9. ~Busy
  BY DEF Init, Busy
<1>. QED
  BY <1>5, <1>6, <1>8, <1>9 DEF IInv, Awake, PollIdle

LEMMA NextInv == IInv /\ [Next]_vars => IInv'
<1>. SUFFICES ASSUME IInv, [Next]_vars PROVE IInv'
  OBVIOUS
<1>1. CASE UNCHANGED vars
  BY <1>1 DEF vars, IInv, TypeOK, WellNested, RunningMatchesStack,
     NoReentry, PstateMatches, Awake, PollIdle, Busy, CycledFromDrain, At, Top
<1>. QED
  BY <1>1, MainPreserves, UvRunPreserves, DrainPreserves, HandlerPreserves DEF Next

(* The inductive invariant holds of every behaviour.                       *)
LEMMA Invariance == Spec => []IInv
  BY InitInv, NextInv, PTL DEF Spec

-----------------------------------------------------------------------------
(* The variables keep their types, for every bound on nesting and events.  *)
THEOREM TypeCorrect == Spec => []TypeOK
<1>1. IInv => TypeOK
  BY DEF IInv
<1>. QED
  BY <1>1, Invariance, PTL

(* However deeply prepare_events, uv_run, event_cycle_once and             *)
(* DO_EVENTS_UNTIL nest, `running' is what the innermost one stands for.   *)
THEOREM RunningCorrect == Spec => []RunningMatchesStack
<1>1. IInv => RunningMatchesStack
  BY DEF IInv
<1>. QED
  BY <1>1, Invariance, PTL

(* prepare_events never drains inside its own drain.                       *)
THEOREM NoReentryCorrect == Spec => []NoReentry
<1>1. IInv => NoReentry
  BY DEF IInv
<1>. QED
  BY <1>1, Invariance, PTL

(* The thread never waits for I/O with events pending, except in an        *)
(* event_cycle_once called by a handler of prepare_events.                 *)
THEOREM NoSleepingCorrect == Spec => []NoSleepingEvents
<1>1. IInv => NoSleepingEvents
  <2>. SUFFICES ASSUME IInv, Blocked, Busy PROVE CycledFromDrain
    BY DEF NoSleepingEvents
  <2>1. Top.fn \in {"uv_run_default", "uv_run_once"} /\ At(UvRuns, "poll") /\ Top.n = 0
    BY DEF Blocked, At, UvRuns
  <2>2. running \/ CycledFromDrain
    BY <2>1 DEF IInv, PollIdle
  <2>3. PICK n \in Nat \ {0} : n = Len(stack) /\ Top = stack[n]
    BY TopFacts DEF IInv
  <2>4. ~RunningAt(stack, n)
    <3>1. n # 1 /\ n-1 \in Nat /\ n-1 \in 1..n /\ (n-1)+1 = n
      BY <2>1, <2>3 DEF IInv, WellNested
    <3>2. CASE Top.fn = "uv_run_once"
      <4>1. stack[n-1].fn = "event_cycle_once"
        BY <2>3, <3>1, <3>2 DEF IInv, WellNested
      <4>2. n-2 \in Nat /\ (n-2)+1 = n-1
        BY <3>1, <2>3, <4>1
      <4>3. ~RunningAt(stack, n-1)
        BY <4>1, <4>2, RunningAtStep
      <4>. QED
        BY <2>3, <3>1, <3>2, <4>3, RunningAtStep
    <3>3. CASE Top.fn = "uv_run_default"
      <4>1. n = 2 /\ stack[1].fn = "main"
        BY <2>3, <3>1, <3>3 DEF IInv, WellNested
      <4>. QED
        BY <2>3, <3>3, <4>1 DEF RunningAt
    <3>. QED
      BY <2>1, <3>2, <3>3
  <2>. QED
    BY <2>2, <2>3, <2>4 DEF IInv, RunningMatchesStack
<1>. QED
  BY <1>1, Invariance, PTL

=============================================================================
