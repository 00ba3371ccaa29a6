-------------------------- MODULE ProcessLifeProofs --------------------------
(* The inductive invariant of ProcessLife, the safety theorems it gives,   *)
(* and the steps of the refinement of Shell, for any set of Shells and any *)
(* number of starts.                                                       *)
EXTENDS ProcessLife, SequenceTheorems, FiniteSetTheorems, TLAPS

-----------------------------------------------------------------------------
(* Types.                                                                  *)
Events == [kind : Kinds, sh : Shells, gen : Nat]

(* One flag or handle of one Shell changes.                                *)
LEMMA ExceptTwice ==
  ASSUME NEW S, NEW R, NEW V, NEW f \in [S -> [R -> V]],
         NEW p \in S, NEW r \in R, NEW v \in V,
         NEW g, g = [f EXCEPT ![p][r] = v]
  PROVE  /\ g \in [S -> [R -> V]]
         /\ \A q \in S, t \in R : g[q][t] = IF q = p /\ t = r THEN v ELSE f[q][t]
         /\ \A q \in S : q # p => g[q] = f[q]
         /\ g[p][r] = v /\ \A t \in R : t # r => g[p][t] = f[p][t]
<1>. DEFINE h == [f[p] EXCEPT ![r] = v]
<1>1. h \in [R -> V] /\ \A t \in R : h[t] = IF t = r THEN v ELSE f[p][t]
  OBVIOUS
<1>2. g = [f EXCEPT ![p] = h]
  OBVIOUS
<1>. HIDE DEF h
<1>. QED
  BY <1>1, <1>2

LEMMA EventTyped ==
  ASSUME TypeOK, NEW kind \in Kinds, NEW p \in Shells
  PROVE  Event(kind, p) \in Events
BY DEF TypeOK, Event, Events

(* A sequence of at most one element.                                      *)
LEMMA AtMostOne ==
  ASSUME NEW S, NEW e \in S, NEW c, NEW s, s = IF c THEN << e >> ELSE <<>>
  PROVE  /\ s \in Seq(S) /\ Len(s) = IF c THEN 1 ELSE 0
         /\ c => s[1] = e
<1>1. CASE c
  BY <1>1
<1>2. CASE ~c
  BY <1>2, EmptySeq
<1>. QED
  BY <1>1, <1>2

(* What a close callback adds to the queue: process_close_event, if at     *)
(* all, in the last place.                                                 *)
LEMMA CloseCbQueues ==
  ASSUME TypeOK, NEW p \in Shells, NEW r \in Resources, CloseCb(p, r)
  PROVE  /\ evq' \in Seq(Events) /\ Len(evq') >= Len(evq)
         /\ \A i \in 1..Len(evq) : evq'[i] = evq[i]
         /\ \A i \in Len(evq)+1..Len(evq') :
              \/ evq'[i] = Event("stream_cleanup_cb", p) /\ (LastRef(p) => i # Len(evq'))
              \/ /\ evq'[i] = Event("process_close_event", p)
                 /\ LastRef(p) /\ i = Len(evq')
         /\ LastRef(p) => /\ Len(evq') > Len(evq)
                          /\ evq'[Len(evq')] = Event("process_close_event", p)
<1>. DEFINE c1 == r \in {"out", "err"}
            e1 == IF c1 THEN << Event("stream_cleanup_cb", p) >> ELSE <<>>
            e2 == IF LastRef(p) THEN << Event("process_close_event", p) >> ELSE <<>>
<1>1. "stream_cleanup_cb" \in Kinds /\ "process_close_event" \in Kinds
  BY DEF Kinds
<1>2. /\ Event("stream_cleanup_cb", p) \in Events
      /\ Event("process_close_event", p) \in Events
  BY <1>1, EventTyped
<1>3. /\ e1 \in Seq(Events) /\ Len(e1) = IF c1 THEN 1 ELSE 0
      /\ c1 => e1[1] = Event("stream_cleanup_cb", p)
  BY <1>2, AtMostOne
<1>4. /\ e2 \in Seq(Events) /\ Len(e2) = IF LastRef(p) THEN 1 ELSE 0
      /\ LastRef(p) => e2[1] = Event("process_close_event", p)
  BY <1>2, AtMostOne
<1>5. evq' = evq \o e1 \o e2
  BY DEF CloseCb
<1>6. evq \in Seq(Events)
  BY DEF TypeOK, Events
<1>. HIDE DEF e1, e2, c1
<1>. DEFINE s == evq \o e1
<1>7. /\ s \in Seq(Events) /\ Len(s) = Len(evq) + Len(e1)
      /\ \A i \in 1..Len(evq) : s[i] = evq[i]
      /\ \A i \in Len(evq)+1..Len(s) : s[i] = Event("stream_cleanup_cb", p)
  BY <1>3, <1>6, ConcatProperties
<1>8. evq' = s \o e2
  BY <1>5
<1>9. /\ Len(evq) \in Nat /\ Len(s) \in Len(evq)..Len(evq)+1
      /\ Len(e2) \in 0..1
  BY <1>3, <1>4, <1>6, <1>7, LenProperties
<1>. HIDE DEF s
<1>10. /\ evq' \in Seq(Events) /\ Len(evq') = Len(s) + Len(e2)
       /\ \A i \in 1..Len(s) : evq'[i] = s[i]
  <2>0. s \in Seq(Events) /\ e2 \in Seq(Events)
    BY <1>4, <1>7
  <2>1. /\ s \o e2 \in Seq(Events) /\ Len(s \o e2) = Len(s) + Len(e2)
        /\ \A i \in 1..Len(s) + Len(e2) : (s \o e2)[i] =
             IF i <= Len(s) THEN s[i] ELSE e2[i - Len(s)]
    BY <2>0, ConcatProperties
  <2>. QED
    BY <1>8, <1>9, <2>1
<1>11. ASSUME LastRef(p) PROVE evq'[Len(evq')] = Event("process_close_event", p)
  <2>1. Len(e2) = 1 /\ e2[1] = Event("process_close_event", p)
    BY <1>4, <1>11
  <2>2. (s \o e2)[Len(s) + 1] = e2[Len(s) + 1 - Len(s)]
    BY <1>4, <1>7, <1>9, <2>1, ConcatProperties
  <2>. QED
    BY <1>8, <1>9, <1>10, <2>1, <2>2
<1>12. \A i \in Len(evq)+1..Len(evq') : i <= Len(s) \/ (i = Len(evq') /\ LastRef(p))
  BY <1>4, <1>9, <1>10
<1>13. \A i \in Len(evq)+1..Len(s) : evq'[i] = Event("stream_cleanup_cb", p)
                                  /\ (LastRef(p) => i # Len(evq'))
  BY <1>4, <1>7, <1>9, <1>10
<1>14. \A i \in 1..Len(evq) : evq'[i] = evq[i]
  BY <1>7, <1>9, <1>10
<1>15. LastRef(p) => Len(evq') > Len(evq)
  BY <1>4, <1>9, <1>10
<1>16. Len(evq') >= Len(evq) /\ Len(s) \in Nat /\ Len(evq') \in Nat
  BY <1>9, <1>10
<1>. QED
  BY <1>9, <1>10, <1>11, <1>12, <1>13, <1>14, <1>15, <1>16

LEMMA SpawnTyped ==
  ASSUME TypeOK, NEW p \in Shells, Spawn(p)
  PROVE  /\ fault' \in {"none", "static_array_freed", "stream_closed"}
         /\ gen' \in [Shells -> Nat]
         /\ handle' \in [Shells -> [Resources -> {"none", "open", "closing"}]]
         /\ closed' \in [Shells -> [Streams -> BOOLEAN]]
         /\ refcount' \in [Shells -> Int]
         /\ pending' \in [Shells -> BOOLEAN]
         /\ os' \in [Shells -> {"none", "alive", "dead", "reaped"}]
         /\ stopped' \in [Shells -> 0..Kill]
         /\ termSent' \in [Shells -> BOOLEAN]
         /\ stopReq' \in [Shells -> BOOLEAN]
         /\ children' \subseteq Shells
         /\ stopRequests' \in Nat
         /\ timer' \in BOOLEAN
         /\ blocking' \in [Shells -> BOOLEAN]
<1>1. CASE SpawnPlain(p)
  BY <1>1 DEF TypeOK, SpawnPlain, Spawned, StreamsInit
<1>2. CASE SpawnUnwritable(p)
  <2>. DEFINE H == [r \in Resources |-> IF r = "in" THEN "closing" ELSE "open"]
              C == [s \in Streams |-> s = "in"]
  <2>1. H \in [Resources -> {"none", "open", "closing"}] /\ C \in [Streams -> BOOLEAN]
    OBVIOUS
  <2>2. \/ StreamsInit(p) /\ stopReq' = [stopReq EXCEPT ![p] = FALSE]
           /\ UNCHANGED <<stopped, stopRequests, timer>>
        \/ /\ handle' = [handle EXCEPT ![p] = H] /\ closed' = [closed EXCEPT ![p] = C]
           /\ stopped' = [stopped EXCEPT ![p] = Young]
           /\ stopReq' = [stopReq EXCEPT ![p] = TRUE]
           /\ stopRequests' = stopRequests + 1 /\ timer' = TRUE
    BY <1>2 DEF SpawnUnwritable
  <2>3. UNCHANGED <<fault, termSent>> /\ Spawned(p) /\ pending' = [pending EXCEPT ![p] = FALSE]
    BY <1>2 DEF SpawnUnwritable
  <2>. HIDE DEF H, C
  <2>. QED
    <3>1. CASE StreamsInit(p) /\ stopReq' = [stopReq EXCEPT ![p] = FALSE]
               /\ UNCHANGED <<stopped, stopRequests, timer>>
      BY <2>3, <3>1 DEF TypeOK, Spawned, StreamsInit
    <3>2. CASE /\ handle' = [handle EXCEPT ![p] = H] /\ closed' = [closed EXCEPT ![p] = C]
               /\ stopped' = [stopped EXCEPT ![p] = Young]
               /\ stopReq' = [stopReq EXCEPT ![p] = TRUE]
               /\ stopRequests' = stopRequests + 1 /\ timer' = TRUE
      BY <2>1, <2>3, <3>2 DEF TypeOK, Spawned, Young, Kill
    <3>. QED
      BY <2>2, <3>1, <3>2
<1>3. CASE SpawnFails(p)
  BY <1>3 DEF TypeOK, SpawnFails, procVars, stopVars
<1>. QED
  BY <1>1, <1>2, <1>3 DEF Spawn

LEMMA TypeStep ==
  ASSUME TypeOK, [Next]_vars
  PROVE  TypeOK'
<1>. USE DEF TypeOK, vars, procVars, stopVars, shellVars
<1>1. ASSUME NextPhase PROVE TypeOK'
  BY <1>1 DEF NextPhase, Phases
<1>2. ASSUME ChildrenKillCb PROVE TypeOK'
  BY <1>2 DEF ChildrenKillCb
<1>3. ASSUME Aborted PROVE TypeOK'
  BY <1>3 DEF Aborted
<1>4. ASSUME NEW p \in Shells, ShellStart(p) PROVE TypeOK'
  <2>1. CASE Blocks(p)
    <3>1. again' \in [Shells -> BOOLEAN]
      BY <1>4, <2>1 DEF ShellStart
    <3>. QED
      BY <1>4, <2>1, <3>1 DEF ShellStart
  <2>2. CASE ~Blocks(p)
    BY <1>4, <2>2, SpawnTyped DEF ShellStart
  <2>. QED
    BY <2>1, <2>2
<1>5. ASSUME NEW p \in Shells, ShellSetInBuffer(p) PROVE TypeOK'
  BY <1>5 DEF ShellSetInBuffer
<1>6. ASSUME NEW p \in Shells, ShellDelete(p) PROVE TypeOK'
  BY <1>6 DEF ShellDelete
<1>7. ASSUME NEW p \in Shells, WriteCb(p) PROVE TypeOK'
  <2>1. "in" \in Resources /\ "in" \in Streams
    BY DEF Resources, Streams
  <2>2. \/ UNCHANGED <<handle, closed>>
        \/ /\ handle' = [handle EXCEPT ![p]["in"] = "closing"]
           /\ closed' = [closed EXCEPT ![p]["in"] = TRUE]
    BY <1>7 DEF WriteCb
  <2>3. /\ handle' \in [Shells -> [Resources -> {"none", "open", "closing"}]]
        /\ closed' \in [Shells -> [Streams -> BOOLEAN]]
    <3>1. CASE UNCHANGED <<handle, closed>>
      BY <3>1
    <3>2. CASE /\ handle' = [handle EXCEPT ![p]["in"] = "closing"]
               /\ closed' = [closed EXCEPT ![p]["in"] = TRUE]
      <4>1. handle' \in [Shells -> [Resources -> {"none", "open", "closing"}]]
        BY <2>1, <3>2, ExceptTwice
      <4>2. closed' \in [Shells -> [Streams -> BOOLEAN]]
        BY <2>1, <3>2, ExceptTwice
      <4>. QED
        BY <4>1, <4>2
    <3>. QED
      BY <2>2, <3>1, <3>2
  <2>4. pending' \in [Shells -> BOOLEAN]
    BY <1>7 DEF WriteCb
  <2>5. fault' \in {fault, "stream_closed"}
    BY <1>7 DEF WriteCb
  <2>6. UNCHANGED <<phase, evq, gen, refcount, os, stopVars, children, shellVars>>
    BY <1>7 DEF WriteCb
  <2>. QED
    BY <2>3, <2>4, <2>5, <2>6
<1>8. ASSUME NEW p \in Shells, Die(p) PROVE TypeOK'
  BY <1>8 DEF Die
<1>9. ASSUME NEW p \in Shells, ExitCb(p) PROVE TypeOK'
  <2>1. Event("process_close_handles", p) \in [kind : Kinds, sh : Shells, gen : Nat]
    BY EventTyped DEF Events, Kinds
  <2>2. stopRequests' \in Nat
    BY <1>9 DEF ExitCb, CountedStop
  <2>3. timer' \in {timer, timer /\ stopRequests > 1}
    BY <1>9 DEF ExitCb
  <2>4. timer' \in BOOLEAN
    BY <2>3
  <2>. QED
    BY <1>9, <2>1, <2>2, <2>4 DEF ExitCb
<1>10. ASSUME NEW p \in Shells, Handle(p) PROVE TypeOK'
  <2>1. evq # <<>> /\ evq' = Tail(evq)
    BY <1>10 DEF Handle, ProcessCloseHandles, StreamCleanup, ProcessExit, Pop
  <2>2. evq' \in Seq([kind : Kinds, sh : Shells, gen : Nat])
    BY <2>1, HeadTailProperties
  <2>3. CASE ProcessCloseHandles(p)
    BY <2>2, <2>3 DEF ProcessCloseHandles, ToClose, Resources, Streams
  <2>4. CASE StreamCleanup(p)
    BY <2>2, <2>4 DEF StreamCleanup
  <2>5. CASE ProcessExit(p)
    <3>1. again' \in [Shells -> BOOLEAN] /\ freed' \in [Shells -> BOOLEAN]
          /\ phase' = phase /\ msg' = msg
      BY <2>5 DEF ProcessExit
    <3>2. CASE StartsAgain(p)
      <4>1. Spawn(p)
        BY <2>5, <3>2 DEF ProcessExit
      <4>. QED
        BY <2>2, <3>1, <4>1, SpawnTyped
    <3>3. CASE ~StartsAgain(p)
      BY <2>2, <2>5, <3>1, <3>3 DEF ProcessExit
    <3>. QED
      BY <3>2, <3>3
  <2>. QED
    BY <1>10, <2>3, <2>4, <2>5 DEF Handle
<1>11. ASSUME NEW p \in Shells, Tick(p) PROVE TypeOK'
  BY <1>11 DEF Tick, Young, Term, Kill
<1>12. ASSUME NEW p \in Shells, NEW r \in Resources, CloseCb(p, r) PROVE TypeOK'
  <2>3. evq' \in Seq([kind : Kinds, sh : Shells, gen : Nat])
    BY <1>12, CloseCbQueues DEF Events
  <2>. QED
    <3>4. handle' = [handle EXCEPT ![p][r] = "none"]
      BY <1>12 DEF CloseCb
    <3>1. handle' \in [Shells -> [Resources -> {"none", "open", "closing"}]]
      BY <3>4, ExceptTwice, Zenon
    <3>2. refcount' \in [Shells -> Int] /\ children' \subseteq Shells
      BY <1>12 DEF CloseCb
    <3>3. UNCHANGED <<phase, fault, gen, closed, pending, os, stopVars, shellVars>>
      BY <1>12 DEF CloseCb
    <3>. QED
      BY <2>3, <3>1, <3>2, <3>3
<1>13. ASSUME UNCHANGED vars PROVE TypeOK'
  BY <1>13
<1>. QED
  BY <1>1, <1>2, <1>3, <1>4, <1>5, <1>6, <1>7, <1>8, <1>9, <1>10, <1>11, <1>12, <1>13
     DEF Next

LEMMA InitTyped ==
  ASSUME Init
  PROVE  TypeOK
<1>1. /\ handle \in [Shells -> [Resources -> {"none", "open", "closing"}]]
      /\ closed \in [Shells -> [Streams -> BOOLEAN]]
  BY Zenon DEF Init
<1>2. evq \in Seq([kind : Kinds, sh : Shells, gen : Nat])
  BY EmptySeq DEF Init
<1>3. /\ pending \in [Shells -> BOOLEAN] /\ termSent \in [Shells -> BOOLEAN]
      /\ stopReq \in [Shells -> BOOLEAN] /\ blocking \in [Shells -> BOOLEAN]
      /\ again \in [Shells -> BOOLEAN] /\ msg \in [Shells -> BOOLEAN]
      /\ freed \in [Shells -> BOOLEAN] /\ timer \in BOOLEAN
  BY Zenon DEF Init
<1>4. /\ gen \in [Shells -> Nat] /\ refcount \in [Shells -> Int]
      /\ os \in [Shells -> {"none", "alive", "dead", "reaped"}]
      /\ stopped \in [Shells -> 0..Kill] /\ stopRequests \in Nat
  BY DEF Init, Kill
<1>5. phase \in Phases /\ fault \in {"none", "static_array_freed", "stream_closed"}
      /\ children \subseteq Shells
  BY DEF Init, Phases
<1>. QED
  BY <1>1, <1>2, <1>3, <1>4, <1>5 DEF TypeOK

(* Handles, references, flags, events and the counter of stop requests     *)
(* keep the types of Process, Stream and Shell.                            *)
THEOREM TypeCorrect == Spec => []TypeOK
<1>1. Init => TypeOK
  BY InitTyped
<1>2. TypeOK /\ [Next]_vars => TypeOK'
  BY TypeStep
<1>. QED
  BY <1>1, <1>2, PTL DEF Spec

-----------------------------------------------------------------------------
(* The inductive invariant, Shell by Shell: what IInv says of one of them  *)
(* and of its events in the queue.                                         *)
Of(p) == {i \in 1..Len(evq) : evq[i].sh = p}

Counted(p) ==
  /\ refcount[p] = One(handle[p]["in"]) + One(handle[p]["out"])
                   + One(handle[p]["err"]) + One(handle[p]["proc"])
  /\ p \in children <=> refcount[p] > 0

Blocked(p) == blocking[p] <=> refcount[p] > 0 \/ Queued("process_close_event", p)

Live(p) ==
  /\ \A i \in Of(p) : evq[i].gen = gen[p] /\ ~freed[p]
  /\ freed[p] => (\A r \in Resources : handle[p][r] = "none") /\ ~pending[p] /\ ~blocking[p]

Ordered(p) ==
  \A i \in Of(p) :
    /\ blocking[p]
    /\ evq[i].kind = "process_close_handles" =>
         /\ handle[p]["proc"] = "open" /\ os[p] = "reaped"
         /\ \A j \in Of(p) : evq[j].kind = "process_close_handles" => j = i
    /\ evq[i].kind = "process_close_event" => refcount[p] = 0 /\ \A j \in Of(p) : j <= i

Matching(p) ==
  /\ \A s \in Streams :
       /\ handle[p][s] = "closing" => closed[p][s]
       /\ ~closed[p][s] /\ handle[p]["proc"] # "none" => handle[p][s] = "open"
  /\ pending[p] => handle[p]["in"] = "open"
  /\ os[p] \in {"alive", "dead"} => handle[p]["proc"] = "open"

Once(p) == (p \in RegShells => ~again[p]) /\ (gen[p] = 0 => ~blocking[p])

ShellInv(p) == /\ Counted(p) /\ Blocked(p) /\ Live(p) /\ Ordered(p) /\ Matching(p) /\ Once(p)

LEMMA ShellByShell ==
  TypeOK => (IInv <=> TimerMatches /\ \A p \in Shells : ShellInv(p))
<1>. SUFFICES ASSUME TypeOK
     PROVE IInv <=> TimerMatches /\ \A p \in Shells : ShellInv(p)
  OBVIOUS
<1>1. \A i \in 1..Len(evq) : evq[i].sh \in Shells
  <2>1. evq \in Seq(Events) /\ \A e \in Events : e.sh \in Shells
    BY DEF TypeOK, Events
  <2>. QED
    BY <2>1, ElementOfSeq
<1>2. Len(evq) \in Nat
  BY LenProperties DEF TypeOK
<1>3. RefcountMatches <=> \A p \in Shells : Counted(p)
  BY DEF RefcountMatches, Counted
<1>4. BlockingMatches <=> \A p \in Shells : Blocked(p)
  BY DEF BlockingMatches, Blocked
<1>5. NoStaleEvents <=> \A p \in Shells : Live(p)
  BY <1>1 DEF NoStaleEvents, Live, Of
<1>6. HandlesMatch <=> \A p \in Shells : Matching(p)
  BY DEF HandlesMatch, Matching
<1>7. StartedOnce <=> \A p \in Shells : Once(p)
  BY DEF StartedOnce, Once
<1>8. EventsInOrder <=> \A p \in Shells : Ordered(p)
  <2>1. ASSUME EventsInOrder, NEW p \in Shells PROVE Ordered(p)
    BY <1>2, <2>1 DEF EventsInOrder, Ordered, Of
  <2>2. ASSUME \A p \in Shells : Ordered(p) PROVE EventsInOrder
    BY <1>1, <1>2, <2>2 DEF EventsInOrder, Ordered, Of
  <2>. QED
    BY <2>1, <2>2
<1>. QED
  BY <1>3, <1>4, <1>5, <1>6, <1>7, <1>8 DEF IInv, ShellInv

-----------------------------------------------------------------------------
(* A step of one Shell leaves the others alone: their fields, and their    *)
(* events, which only move up when an event of p is popped.                *)
Touches(p) ==
  \A q \in Shells \ {p} :
    /\ gen'[q] = gen[q] /\ handle'[q] = handle[q] /\ closed'[q] = closed[q]
    /\ refcount'[q] = refcount[q] /\ pending'[q] = pending[q] /\ os'[q] = os[q]
    /\ q \in children' <=> q \in children
    /\ blocking'[q] = blocking[q] /\ again'[q] = again[q] /\ freed'[q] = freed[q]

QueueMoves(p, k) ==
  /\ k <= Len(evq) /\ Len(evq') >= Len(evq) - k
  /\ \A i \in 1..k : evq[i].sh = p
  /\ \A i \in 1..Len(evq)-k : evq'[i] = evq[i+k]
  /\ \A i \in Len(evq)-k+1..Len(evq') : evq'[i].sh = p

LEMMA Others ==
  ASSUME TypeOK, TypeOK', NEW p \in Shells, Touches(p),
         NEW k \in Nat, QueueMoves(p, k),
         NEW q \in Shells, q # p, ShellInv(q)
  PROVE  ShellInv(q)'
<1>1. Len(evq) \in Nat /\ Len(evq') \in Nat
  BY LenProperties DEF TypeOK
<1>2. \A i \in Of(q)' : i + k \in Of(q) /\ evq'[i] = evq[i+k]
  BY <1>1 DEF Of, QueueMoves
<1>3. \A i \in Of(q) : i - k \in Of(q)' /\ evq'[i-k] = evq[i]
  BY <1>1 DEF Of, QueueMoves
<1>4. Of(q) \subseteq Nat /\ Of(q)' \subseteq Nat
  BY <1>1 DEF Of
<1>5. Counted(q)'
  BY DEF ShellInv, Touches, Counted
<1>6. Queued("process_close_event", q)' <=> Queued("process_close_event", q)
  BY <1>1, <1>2, <1>3 DEF Queued, Of
<1>7. Blocked(q)'
  BY <1>6 DEF ShellInv, Touches, Blocked
<1>8. Live(q)'
  BY <1>2 DEF ShellInv, Touches, Live
<1>9. Ordered(q)'
  BY <1>2, <1>4 DEF ShellInv, Touches, Ordered
<1>10. Matching(q)' /\ Once(q)'
  BY DEF ShellInv, Touches, Matching, Once
<1>. QED
  BY <1>5, <1>7, <1>8, <1>9, <1>10 DEF ShellInv

LEMMA SameQueue ==
  ASSUME TypeOK, UNCHANGED evq, NEW p \in Shells
  PROVE  QueueMoves(p, 0)
<1>1. Len(evq) \in Nat
  BY LenProperties DEF TypeOK
<1>. QED
  BY <1>1 DEF QueueMoves

LEMMA PopMoves ==
  ASSUME TypeOK, NEW kind, NEW p \in Shells, Pop(kind, p)
  PROVE  /\ QueueMoves(p, 1)
         /\ 1 \in Of(p) /\ evq[1].kind = kind
         /\ Len(evq) \in Nat /\ Len(evq') = Len(evq) - 1
         /\ \A i \in Of(p)' : i + 1 \in Of(p) /\ evq'[i] = evq[i+1]
<1>1. /\ Len(evq) \in Nat \ {0} /\ Len(evq') = Len(evq) - 1
      /\ \A i \in 1..Len(evq') : evq'[i] = evq[i+1]
      /\ Head(evq) = evq[1]
  BY EmptySeq, LenProperties, HeadTailProperties DEF TypeOK, Pop
<1>. QED
  BY <1>1 DEF QueueMoves, Pop, Of

-----------------------------------------------------------------------------
(* A Shell with no reference left has no handle, no write and no child;    *)
(* one that does not block has no event either.                            *)
LEMMA NoReference ==
  ASSUME TypeOK, NEW p \in Shells, ShellInv(p), refcount[p] = 0
  PROVE  /\ \A r \in Resources : handle[p][r] = "none"
         /\ ~pending[p] /\ os[p] \in {"none", "reaped"} /\ p \notin children
<1>1. \A r \in Resources : handle[p][r] = "none"
  BY DEF ShellInv, Counted, One, Resources, Streams
<1>2. handle[p]["in"] = "none" /\ handle[p]["proc"] = "none"
  BY <1>1 DEF Resources, Streams
<1>3. os[p] \in {"none", "alive", "dead", "reaped"}
  BY DEF TypeOK
<1>. QED
  BY <1>1, <1>2, <1>3 DEF ShellInv, Counted, Matching

LEMMA NotBlocking ==
  ASSUME TypeOK, NEW p \in Shells, ShellInv(p), ~blocking[p]
  PROVE  refcount[p] = 0 /\ Of(p) = {}
<1>1. refcount[p] \in Nat
  BY DEF ShellInv, Counted, One
<1>2. refcount[p] = 0
  BY <1>1 DEF ShellInv, Blocked
<1>. QED
  BY <1>2 DEF ShellInv, Ordered

(* The references are the handles: adding or closing one.                  *)
LEMMA Referenced ==
  ASSUME TypeOK, NEW p \in Shells, ShellInv(p), NEW r \in Resources, handle[p][r] # "none"
  PROVE  refcount[p] > 0 /\ blocking[p] /\ ~freed[p]
         /\ \A i \in Of(p) : evq[i].kind # "process_close_event"
<1>1. refcount[p] > 0
  BY DEF ShellInv, Counted, One, Resources, Streams
<1>. QED
  BY <1>1 DEF ShellInv, Blocked, Live, Ordered

LEMMA SpawnInv ==
  ASSUME TypeOK, TypeOK', NEW p \in Shells, ShellInv(p), refcount[p] = 0, Spawn(p),
         ~freed'[p], Of(p)' = {}, p \in RegShells => ~again'[p]
  PROVE  ShellInv(p)'
<1>1. /\ \A r \in Resources : handle[p][r] = "none"
      /\ ~pending[p] /\ os[p] \in {"none", "reaped"} /\ p \notin children
  BY NoReference
<1>2. ~Queued("process_close_event", p)'
  BY DEF Queued, Of
<1>3. Live(p)' /\ Ordered(p)'
  BY DEF Live, Ordered
<1>4. CASE SpawnFails(p)
  <2>1. UNCHANGED <<procVars, stopVars, children>> /\ ~blocking'[p]
    BY <1>4 DEF SpawnFails, TypeOK
  <2>2. Counted(p)' /\ Matching(p)'
    BY <2>1 DEF ShellInv, Counted, Matching, procVars
  <2>3. Blocked(p)' /\ Once(p)'
    BY <1>2, <2>1 DEF ShellInv, Blocked, Once, procVars
  <2>. QED
    BY <1>3, <2>2, <2>3 DEF ShellInv
<1>5. CASE Spawned(p) /\ ~SpawnFails(p)
  <2>1. /\ gen'[p] = gen[p] + 1 /\ refcount'[p] = 4 /\ os'[p] = "alive"
        /\ p \in children' /\ blocking'[p]
    BY <1>5 DEF Spawned, TypeOK
  <2>2. \/ StreamsInit(p)
        \/ /\ handle' = [handle EXCEPT ![p] =
                        [r \in Resources |-> IF r = "in" THEN "closing" ELSE "open"]]
           /\ closed' = [closed EXCEPT ![p] = [s \in Streams |-> s = "in"]]
           /\ pending' = [pending EXCEPT ![p] = FALSE]
    BY <1>5 DEF Spawn, SpawnPlain, SpawnUnwritable
  <2>3. \/ /\ \A r \in Resources : handle'[p][r] = "open"
           /\ \A s \in Streams : ~closed'[p][s]
        \/ /\ \A r \in Resources : handle'[p][r] = IF r = "in" THEN "closing" ELSE "open"
           /\ \A s \in Streams : closed'[p][s] = (s = "in")
           /\ ~pending'[p]
    <3>1. CASE StreamsInit(p)
      BY <3>1 DEF StreamsInit, TypeOK
    <3>2. CASE /\ handle' = [handle EXCEPT ![p] =
                        [r \in Resources |-> IF r = "in" THEN "closing" ELSE "open"]]
               /\ closed' = [closed EXCEPT ![p] = [s \in Streams |-> s = "in"]]
               /\ pending' = [pending EXCEPT ![p] = FALSE]
      BY <3>2 DEF TypeOK
    <3>. QED
      BY <2>2, <3>1, <3>2
  <2>4. Counted(p)'
    BY <2>1, <2>3 DEF Counted, One, Resources, Streams
  <2>5. Matching(p)'
    BY <2>3 DEF Matching, Resources, Streams
  <2>6. gen'[p] # 0
    BY <2>1 DEF TypeOK
  <2>7. Blocked(p)' /\ Once(p)'
    BY <2>1, <2>6 DEF Blocked, Once
  <2>. QED
    BY <1>3, <2>4, <2>5, <2>7 DEF ShellInv
<1>. QED
  BY <1>4, <1>5 DEF Spawn, SpawnPlain, SpawnUnwritable

LEMMA SpawnTouches ==
  ASSUME TypeOK, NEW p \in Shells, Spawn(p), \A q \in Shells \ {p} : again'[q] = again[q] /\ freed'[q] = freed[q]
  PROVE  Touches(p)
<1>1. CASE SpawnPlain(p)
  BY <1>1 DEF SpawnPlain, Spawned, StreamsInit, Touches, TypeOK
<1>2. CASE SpawnUnwritable(p)
  <2>1. \/ StreamsInit(p)
        \/ \E H, C : /\ handle' = [handle EXCEPT ![p] = H]
                     /\ closed' = [closed EXCEPT ![p] = C]
    BY <1>2 DEF SpawnUnwritable
  <2>2. \A q \in Shells \ {p} : handle'[q] = handle[q] /\ closed'[q] = closed[q]
    BY <2>1 DEF StreamsInit, TypeOK
  <2>. QED
    BY <1>2, <2>2 DEF SpawnUnwritable, Spawned, Touches, TypeOK
<1>3. CASE SpawnFails(p)
  BY <1>3 DEF SpawnFails, Touches, TypeOK, procVars
<1>. QED
  BY <1>1, <1>2, <1>3 DEF Spawn

-----------------------------------------------------------------------------
(* One lemma for each action that can disturb the Shell it is about.       *)
LEMMA StartInv ==
  ASSUME TypeOK, TypeOK', NEW p \in Shells, \A q \in Shells : ShellInv(q), ShellStart(p)
  PROVE  \A q \in Shells : ShellInv(q)'
<1>1. UNCHANGED evq /\ UNCHANGED freed /\ ~freed[p] /\ QueueMoves(p, 0) /\ Of(p)' = Of(p)
  BY SameQueue DEF ShellStart, Of
<1>2. CASE blocking[p]
  <2>1. p \notin RegShells
    BY <1>2 DEF ShellStart, ShellInv, Once
  <2>2. UNCHANGED <<procVars, children, blocking>> /\ again' = [again EXCEPT ![p] = TRUE]
    BY <1>2 DEF ShellStart, Blocks
  <2>3. Touches(p)
    BY <1>1, <2>2 DEF Touches, TypeOK, procVars
  <2>4. ShellInv(p)'
    BY <1>1, <2>1, <2>2 DEF ShellInv, Counted, Blocked, Queued, Live, Ordered, Matching, Once, procVars
  <2>. QED
    BY <1>1, <2>3, <2>4, Others
<1>3. CASE ~blocking[p]
  <2>1. Spawn(p) /\ UNCHANGED again
    BY <1>3 DEF ShellStart, Blocks
  <2>2. Touches(p)
    BY <1>1, <2>1, SpawnTouches
  <2>3. refcount[p] = 0 /\ Of(p) = {}
    BY <1>3, NotBlocking
  <2>4. p \in RegShells => ~again'[p]
    BY <2>1 DEF ShellInv, Once
  <2>5. ShellInv(p)'
    BY <1>1, <2>1, <2>3, <2>4, SpawnInv
  <2>. QED
    BY <1>1, <2>2, <2>5, Others
<1>. QED
  BY <1>2, <1>3

LEMMA DeleteInv ==
  ASSUME TypeOK, TypeOK', NEW p \in Shells, \A q \in Shells : ShellInv(q), ShellDelete(p)
  PROVE  \A q \in Shells : ShellInv(q)'
<1>1. /\ UNCHANGED <<evq, procVars, children, blocking, again>>
      /\ ~blocking[p] /\ freed' = [freed EXCEPT ![p] = TRUE]
  BY DEF ShellDelete, MayDelete
<1>2. QueueMoves(p, 0) /\ Of(p)' = Of(p)
  BY <1>1, SameQueue DEF Of
<1>3. Touches(p)
  BY <1>1 DEF Touches, TypeOK, procVars
<1>4. refcount[p] = 0 /\ Of(p) = {}
  BY <1>1, NotBlocking
<1>5. (\A r \in Resources : handle[p][r] = "none") /\ ~pending[p]
  BY <1>4, NoReference
<1>6. Live(p)' /\ Ordered(p)'
  BY <1>1, <1>2, <1>4, <1>5 DEF Live, Ordered, procVars
<1>7. ShellInv(p)'
  BY <1>1, <1>6 DEF ShellInv, Counted, Blocked, Queued, Matching, Once, procVars
<1>. QED
  BY <1>2, <1>3, <1>7, Others

LEMMA WriteInv ==
  ASSUME TypeOK, TypeOK', NEW p \in Shells, \A q \in Shells : ShellInv(q), WriteCb(p)
  PROVE  \A q \in Shells : ShellInv(q)'
<1>1. UNCHANGED <<evq, gen, refcount, os, children, blocking, again, freed>>
  BY DEF WriteCb, shellVars
<1>2. QueueMoves(p, 0) /\ Of(p)' = Of(p)
  BY <1>1, SameQueue DEF Of
<1>3. pending[p] /\ handle[p]["in"] = "open" /\ "in" \in Resources /\ "in" \in Streams
  BY DEF WriteCb, ShellInv, Matching, Resources, Streams
<1>4. CASE UNCHANGED <<closed, pending, handle>>
  BY <1>1, <1>4 DEF ShellInv, Counted, Blocked, Queued, Live, Ordered, Of, Matching, Once
<1>5. CASE /\ closed' = [closed EXCEPT ![p]["in"] = TRUE]
           /\ pending' = [pending EXCEPT ![p] = FALSE]
           /\ handle' = [handle EXCEPT ![p]["in"] = "closing"]
  <2>1. \A q \in Shells, r \in Resources :
          handle'[q][r] = IF q = p /\ r = "in" THEN "closing" ELSE handle[q][r]
    BY <1>3, <1>5, ExceptTwice DEF TypeOK
  <2>2. closed'[p]["in"] /\ \A s \in Streams : s # "in" => closed'[p][s] = closed[p][s]
    <3>1. closed \in [Shells -> [Streams -> BOOLEAN]] /\ "in" \in Streams /\ TRUE \in BOOLEAN
          /\ closed' = [closed EXCEPT ![p]["in"] = TRUE]
      BY <1>3, <1>5 DEF TypeOK
    <3>2. closed'[p]["in"] = TRUE
      BY <1>3, <3>1, ExceptTwice
    <3>. QED
      BY <1>3, <3>1, <3>2, ExceptTwice
  <2>3. Touches(p) /\ ~pending'[p]
    <3>1. \A q \in Shells : q # p => handle'[q] = handle[q]
      BY <1>3, <1>5, ExceptTwice DEF TypeOK
    <3>2. \A q \in Shells : q # p => closed'[q] = closed[q]
      BY <1>3, <1>5, ExceptTwice DEF TypeOK
    <3>3. pending' = [pending EXCEPT ![p] = FALSE] /\ pending \in [Shells -> BOOLEAN]
      BY <1>5 DEF TypeOK
    <3>. QED
      BY <1>1, <3>1, <3>2, <3>3 DEF Touches
  <2>4. ~freed[p]
    BY <1>3, Referenced
  <2>5. Counted(p)'
    BY <1>1, <1>3, <2>1 DEF ShellInv, Counted, One, Resources, Streams
  <2>6. Blocked(p)' /\ Once(p)'
    BY <1>1 DEF ShellInv, Blocked, Queued, Once
  <2>7. Live(p)'
    BY <1>1, <1>2, <2>4 DEF ShellInv, Live
  <2>8. handle'[p]["proc"] = handle[p]["proc"]
    BY <2>1 DEF Resources
  <2>9. Ordered(p)'
    BY <1>1, <1>2, <2>8 DEF ShellInv, Ordered
  <2>10. Matching(p)'
    <3>1. closed'[p]["in"] /\ handle'[p]["in"] = "closing"
      BY <1>3, <2>1, <2>2
    <3>2. \A s \in Streams : s # "in" => handle'[p][s] = handle[p][s] /\ closed'[p][s] = closed[p][s]
      BY <2>1, <2>2 DEF Resources
    <3>. QED
      BY <1>1, <2>3, <2>8, <3>1, <3>2 DEF ShellInv, Matching
  <2>11. ShellInv(p)'
    BY <2>5, <2>6, <2>7, <2>9, <2>10 DEF ShellInv
  <2>. QED
    BY <1>2, <2>3, <2>11, Others
<1>. QED
  BY <1>4, <1>5 DEF WriteCb

LEMMA DieInv ==
  ASSUME TypeOK, TypeOK', \A q \in Shells : ShellInv(q),
         UNCHANGED <<evq, gen, handle, closed, refcount, pending, children, shellVars>>,
         \A q \in Shells : os'[q] = os[q] \/ (os[q] = "alive" /\ os'[q] = "dead")
  PROVE  \A q \in Shells : ShellInv(q)'
<1>1. TAKE q \in Shells
<1>2. Of(q)' = Of(q)
  BY DEF Of
<1>3. Counted(q)' /\ Blocked(q)' /\ Live(q)' /\ Once(q)'
  BY <1>2 DEF ShellInv, Counted, Blocked, Queued, Live, Once, shellVars
<1>4. Ordered(q)' /\ Matching(q)'
  BY <1>2 DEF ShellInv, Ordered, Matching, shellVars
<1>. QED
  BY <1>3, <1>4 DEF ShellInv

LEMMA ExitInv ==
  ASSUME TypeOK, TypeOK', NEW p \in Shells, \A q \in Shells : ShellInv(q), ExitCb(p)
  PROVE  \A q \in Shells : ShellInv(q)'
<1>. DEFINE e == Event("process_close_handles", p)
<1>1. /\ UNCHANGED <<gen, handle, closed, refcount, pending, children, blocking, again, freed>>
      /\ os[p] = "dead" /\ os' = [os EXCEPT ![p] = "reaped"] /\ evq' = Append(evq, e)
  BY DEF ExitCb, shellVars
<1>2. e \in Events /\ evq \in Seq(Events)
  BY EventTyped DEF TypeOK, Events, Kinds
<1>3. e.kind = "process_close_handles" /\ e.sh = p /\ e.gen = gen[p]
  BY DEF Event
<1>. HIDE DEF e
<1>4. /\ Len(evq) \in Nat /\ Len(evq') = Len(evq) + 1 /\ evq'[Len(evq)+1] = e
      /\ \A i \in 1..Len(evq) : evq'[i] = evq[i]
  BY <1>1, <1>2, AppendProperties, LenProperties
<1>5. QueueMoves(p, 0)
  BY <1>3, <1>4 DEF QueueMoves
<1>6. /\ \A i \in Of(p)' : (i \in Of(p) /\ evq'[i] = evq[i]) \/ (i = Len(evq)+1 /\ evq'[i] = e)
      /\ \A i \in Of(p) : i \in Of(p)' /\ evq'[i] = evq[i]
  BY <1>4 DEF Of
<1>7. Touches(p)
  BY <1>1 DEF Touches, TypeOK
<1>8. handle[p]["proc"] = "open" /\ "proc" \in Resources
  BY <1>1 DEF ShellInv, Matching, Resources
<1>9. /\ refcount[p] > 0 /\ blocking[p] /\ ~freed[p]
      /\ \A i \in Of(p) : evq[i].kind # "process_close_event"
  BY <1>8, Referenced
<1>10. \A i \in Of(p) : evq[i].kind # "process_close_handles"
  BY <1>1 DEF ShellInv, Ordered
<1>11. os'[p] = "reaped"
  BY <1>1 DEF TypeOK
<1>12. Counted(p)' /\ Once(p)' /\ Matching(p)'
  BY <1>1, <1>11 DEF ShellInv, Counted, Once, Matching
<1>13. Blocked(p)'
  BY <1>1, <1>9 DEF Blocked
<1>14. \A i \in Of(p)' : evq'[i].gen = gen'[p]
  BY <1>1, <1>3, <1>6 DEF ShellInv, Live
<1>15. Live(p)'
  BY <1>1, <1>9, <1>14 DEF Live
<1>16. \A i, j \in Of(p)' : evq'[i].kind = "process_close_handles" /\ evq'[j].kind = "process_close_handles" => i = j
  BY <1>6, <1>10
<1>17. \A i \in Of(p)' : evq'[i].kind # "process_close_event"
  BY <1>3, <1>6, <1>9
<1>18. Ordered(p)'
  BY <1>1, <1>8, <1>9, <1>11, <1>16, <1>17 DEF Ordered
<1>. QED
  BY <1>5, <1>7, <1>12, <1>13, <1>15, <1>18, Others DEF ShellInv

LEMMA CloseInv ==
  ASSUME TypeOK, TypeOK', NEW p \in Shells, \A q \in Shells : ShellInv(q),
         NEW r \in Resources, CloseCb(p, r)
  PROVE  \A q \in Shells : ShellInv(q)'
<1>. DEFINE cleanup == Event("stream_cleanup_cb", p)
            over == Event("process_close_event", p)
<1>1. /\ UNCHANGED <<gen, closed, pending, os, blocking, again, freed>>
      /\ handle[p][r] = "closing" /\ handle' = [handle EXCEPT ![p][r] = "none"]
      /\ refcount' = [refcount EXCEPT ![p] = @ - 1]
      /\ children' = IF LastRef(p) THEN children \ {p} ELSE children
  BY DEF CloseCb, shellVars
<1>2. /\ cleanup.kind = "stream_cleanup_cb" /\ cleanup.sh = p /\ cleanup.gen = gen[p]
      /\ over.kind = "process_close_event" /\ over.sh = p /\ over.gen = gen[p]
  BY DEF Event
<1>3. /\ Len(evq) \in Nat /\ Len(evq') \in Nat /\ Len(evq') >= Len(evq)
      /\ \A i \in 1..Len(evq) : evq'[i] = evq[i]
      /\ \A i \in Len(evq)+1..Len(evq') :
           \/ evq'[i] = cleanup
           \/ evq'[i] = over /\ LastRef(p) /\ i = Len(evq')
      /\ LastRef(p) => Len(evq') > Len(evq) /\ evq'[Len(evq')] = over
  BY CloseCbQueues, LenProperties DEF TypeOK
<1>. HIDE DEF cleanup, over
<1>4. QueueMoves(p, 0)
  BY <1>2, <1>3 DEF QueueMoves
<1>5. /\ \A i \in Of(p)' :
           \/ i \in Of(p) /\ evq'[i] = evq[i]
           \/ evq'[i] = cleanup
           \/ evq'[i] = over /\ LastRef(p) /\ i = Len(evq')
      /\ \A i \in Of(p)' : i <= Len(evq')
      /\ LastRef(p) => Len(evq') \in Of(p)' /\ evq'[Len(evq')] = over
  <2>1. ASSUME LastRef(p) PROVE Len(evq') \in Of(p)' /\ evq'[Len(evq')] = over
    <3>1. Len(evq') \in 1..Len(evq') /\ evq'[Len(evq')] = over
      BY <1>3, <2>1
    <3>. QED
      BY <1>2, <3>1 DEF Of
  <2>2. \A i \in Of(p)' : i \in 1..Len(evq') /\ i <= Len(evq') /\ evq'[i].sh = p
    BY <1>3 DEF Of
  <2>3. ASSUME NEW i \in Of(p)', i <= Len(evq) PROVE i \in Of(p) /\ evq'[i] = evq[i]
    BY <1>3, <2>2, <2>3 DEF Of
  <2>4. ASSUME NEW i \in Of(p)', ~(i <= Len(evq))
        PROVE  evq'[i] = cleanup \/ (evq'[i] = over /\ LastRef(p) /\ i = Len(evq'))
    BY <1>3, <2>2, <2>4
  <2>5. ASSUME NEW i \in Of(p)'
        PROVE  \/ i \in Of(p) /\ evq'[i] = evq[i]
               \/ evq'[i] = cleanup
               \/ evq'[i] = over /\ LastRef(p) /\ i = Len(evq')
    BY <2>3, <2>4
  <2>. QED
    BY <2>1, <2>2, <2>5
<1>6. /\ refcount[p] > 0 /\ blocking[p] /\ ~freed[p]
      /\ \A i \in Of(p) : evq[i].kind # "process_close_event"
  BY <1>1, Referenced
<1>7. /\ \A t \in Resources : t # r => handle'[p][t] = handle[p][t]
      /\ handle'[p][r] = "none" /\ \A q \in Shells : q # p => handle'[q] = handle[q]
  BY <1>1, ExceptTwice DEF TypeOK
<1>8. refcount'[p] = refcount[p] - 1 /\ refcount[p] \in Int
      /\ \A q \in Shells : q # p => refcount'[q] = refcount[q]
  BY <1>1 DEF TypeOK
<1>9. Touches(p)
  BY <1>1, <1>7, <1>8 DEF Touches
<1>10. Counted(p)'
  BY <1>1, <1>6, <1>7, <1>8 DEF ShellInv, Counted, One, LastRef, Resources, Streams
<1>11. Blocked(p)'
  <2>1. CASE LastRef(p)
    BY <1>1, <1>2, <1>3, <1>5, <1>6, <2>1 DEF Blocked, Queued
  <2>2. CASE ~LastRef(p)
    BY <1>1, <1>6, <1>8, <2>2 DEF Blocked, LastRef
  <2>. QED
    BY <2>1, <2>2
<1>12. Live(p)' /\ Once(p)'
  BY <1>1, <1>2, <1>5, <1>6 DEF ShellInv, Live, Once
<1>13. Matching(p)'
  BY <1>1, <1>7 DEF ShellInv, Matching, Resources, Streams
<1>14. Ordered(p)'
  <2>1. SUFFICES ASSUME NEW i \in Of(p)'
        PROVE  /\ blocking'[p]
               /\ evq'[i].kind = "process_close_handles" =>
                    /\ handle'[p]["proc"] = "open" /\ os'[p] = "reaped"
                    /\ \A j \in Of(p)' : evq'[j].kind = "process_close_handles" => j = i
               /\ evq'[i].kind = "process_close_event" =>
                    refcount'[p] = 0 /\ \A j \in Of(p)' : j <= i
    BY DEF Ordered
  <2>2. ASSUME evq'[i].kind = "process_close_handles"
        PROVE  /\ handle'[p]["proc"] = "open" /\ os'[p] = "reaped"
               /\ \A j \in Of(p)' : evq'[j].kind = "process_close_handles" => j = i
    <3>1. \A j \in Of(p)' : evq'[j].kind = "process_close_handles" =>
                             j \in Of(p) /\ evq'[j] = evq[j]
      BY <1>2, <1>5
    <3>2. "proc" \in Resources /\ handle[p]["proc"] = "open" /\ os[p] = "reaped"
      BY <2>2, <3>1 DEF ShellInv, Ordered, Resources
    <3>. QED
      BY <1>1, <1>7, <2>2, <3>1, <3>2 DEF ShellInv, Ordered
  <2>3. ASSUME evq'[i].kind = "process_close_event"
        PROVE  refcount'[p] = 0 /\ \A j \in Of(p)' : j <= i
    BY <1>2, <1>5, <1>6, <1>8, <2>3 DEF LastRef
  <2>. QED
    BY <1>1, <1>6, <2>2, <2>3
<1>. QED
  BY <1>4, <1>9, <1>10, <1>11, <1>12, <1>13, <1>14, Others DEF ShellInv

LEMMA CloseHandlesInv ==
  ASSUME TypeOK, TypeOK', NEW p \in Shells, \A q \in Shells : ShellInv(q),
         ProcessCloseHandles(p)
  PROVE  \A q \in Shells : ShellInv(q)'
<1>1. UNCHANGED <<gen, refcount, pending, os, children, blocking, again, freed>>
  BY DEF ProcessCloseHandles, shellVars
<1>2. /\ QueueMoves(p, 1) /\ 1 \in Of(p) /\ evq[1].kind = "process_close_handles"
      /\ Of(p) \subseteq Nat
      /\ \A i \in Of(p)' : i \in Nat \ {0} /\ i + 1 \in Of(p) /\ evq'[i] = evq[i+1]
  BY PopMoves DEF ProcessCloseHandles, Of
<1>3. handle[p]["proc"] = "open" /\ os[p] = "reaped" /\ "proc" \in Resources
  BY <1>2 DEF ShellInv, Ordered, Resources
<1>4. /\ refcount[p] > 0 /\ blocking[p] /\ ~freed[p]
      /\ \A i \in Of(p) : evq[i].kind # "process_close_event"
  BY <1>3, Referenced
<1>5. \A r \in Resources :
        handle'[p][r] = IF r \in ToClose(p) THEN "closing" ELSE handle[p][r]
  BY DEF ProcessCloseHandles, TypeOK
<1>6. \A s \in Streams : closed'[p][s]
  BY DEF ProcessCloseHandles, TypeOK
<1>7. Touches(p)
  <2>1. \E H, C : handle' = [handle EXCEPT ![p] = H] /\ closed' = [closed EXCEPT ![p] = C]
    BY DEF ProcessCloseHandles
  <2>. QED
    BY <1>1, <2>1 DEF Touches, TypeOK
<1>8. \A r \in ToClose(p) : r \in Resources /\ handle[p][r] # "none"
  BY <1>3 DEF ShellInv, Matching, ToClose, Resources, Streams
<1>9. Counted(p)'
  <2>1. \A r \in Resources : One(handle'[p][r]) = One(handle[p][r])
    BY <1>5, <1>8 DEF One
  <2>. QED
    BY <1>1, <2>1 DEF ShellInv, Counted, Resources, Streams
<1>10. Blocked(p)'
  BY <1>1, <1>4 DEF Blocked
<1>11. Live(p)' /\ Once(p)'
  BY <1>1, <1>2, <1>4 DEF ShellInv, Live, Once
<1>12. \A i \in Of(p) : i # 1 => evq[i].kind # "process_close_handles"
  BY <1>2 DEF ShellInv, Ordered
<1>13. \A i \in Of(p)' : /\ evq'[i].kind # "process_close_handles"
                         /\ evq'[i].kind # "process_close_event"
  BY <1>2, <1>4, <1>12
<1>14. Ordered(p)'
  BY <1>1, <1>4, <1>13 DEF Ordered
<1>15. Matching(p)'
  <2>1. pending[p] => handle'[p]["in"] = "open"
    BY <1>5 DEF ShellInv, Matching, ToClose, Resources, Streams
  <2>. QED
    BY <1>1, <1>3, <1>6, <2>1 DEF Matching
<1>. QED
  BY <1>2, <1>7, <1>9, <1>10, <1>11, <1>14, <1>15, Others DEF ShellInv

LEMMA CleanupInv ==
  ASSUME TypeOK, TypeOK', NEW p \in Shells, \A q \in Shells : ShellInv(q), StreamCleanup(p)
  PROVE  \A q \in Shells : ShellInv(q)'
<1>1. UNCHANGED <<gen, handle, closed, refcount, pending, os, children, blocking, again, freed>>
  BY DEF StreamCleanup, procVars, shellVars
<1>2. /\ QueueMoves(p, 1) /\ 1 \in Of(p) /\ evq[1].kind = "stream_cleanup_cb"
      /\ Len(evq) \in Nat /\ Len(evq') = Len(evq) - 1
      /\ \A i \in Of(p)' : i + 1 \in Of(p) /\ evq'[i] = evq[i+1]
  BY PopMoves DEF StreamCleanup
<1>3. Of(p) \subseteq 1..Len(evq) /\ Of(p)' \subseteq 1..Len(evq')
  BY DEF Of
<1>4. \A i \in Of(p) : i = 1 \/ (i - 1 \in Of(p)' /\ evq'[i-1] = evq[i])
  BY <1>2 DEF QueueMoves, Of
<1>5. Queued("process_close_event", p)' <=> Queued("process_close_event", p)
  <2>1. Queued("process_close_event", p) <=> \E i \in Of(p) : evq[i].kind = "process_close_event"
    BY DEF Queued, Of
  <2>2. Queued("process_close_event", p)'
          <=> \E i \in Of(p)' : evq'[i].kind = "process_close_event"
    BY DEF Queued, Of
  <2>. QED
    BY <1>2, <1>4, <2>1, <2>2
<1>6. Touches(p)
  BY <1>1 DEF Touches
<1>7. Counted(p)' /\ Blocked(p)' /\ Matching(p)' /\ Once(p)'
  BY <1>1, <1>5 DEF ShellInv, Counted, Blocked, Matching, Once
<1>8. Live(p)'
  BY <1>1, <1>2 DEF ShellInv, Live
<1>9. Ordered(p)'
  BY <1>1, <1>2, <1>3 DEF ShellInv, Ordered
<1>. QED
  BY <1>2, <1>6, <1>7, <1>8, <1>9, Others DEF ShellInv

(* process_close_event finds its Shell without reference, handle or other  *)
(* event, so that the next start is clean.                                 *)
LEMMA AtExit ==
  ASSUME TypeOK, NEW p \in Shells, ShellInv(p), ProcessExit(p)
  PROVE  refcount[p] = 0 /\ Of(p)' = {} /\ ~freed[p] /\ blocking[p] /\ QueueMoves(p, 1)
<1>1. /\ QueueMoves(p, 1) /\ 1 \in Of(p) /\ evq[1].kind = "process_close_event"
      /\ \A i \in Of(p)' : i \in Nat \ {0} /\ i + 1 \in Of(p)
  BY PopMoves DEF ProcessExit, Of
<1>2. refcount[p] = 0 /\ ~freed[p] /\ blocking[p] /\ \A i \in Of(p) : i <= 1
  BY <1>1 DEF ShellInv, Ordered, Live
<1>3. \A i \in Of(p)' : FALSE
  BY <1>1, <1>2
<1>. QED
  BY <1>1, <1>2, <1>3

LEMMA ProcessExitInv ==
  ASSUME TypeOK, TypeOK', NEW p \in Shells, \A q \in Shells : ShellInv(q), ProcessExit(p)
  PROVE  \A q \in Shells : ShellInv(q)'
<1>1. refcount[p] = 0 /\ Of(p)' = {} /\ ~freed[p] /\ blocking[p] /\ QueueMoves(p, 1)
  BY AtExit
<1>2. /\ again' = [again EXCEPT ![p] = FALSE]
      /\ freed' = [freed EXCEPT ![p] = @ \/ p \in RegShells]
  BY DEF ProcessExit
<1>3. /\ ~again'[p] /\ (freed'[p] <=> p \in RegShells)
      /\ \A q \in Shells \ {p} : again'[q] = again[q] /\ freed'[q] = freed[q]
  BY <1>1, <1>2 DEF TypeOK
<1>4. CASE StartsAgain(p)
  <2>1. Spawn(p) /\ p \notin RegShells
    BY <1>4 DEF ProcessExit, StartsAgain, ShellInv, Once
  <2>2. Touches(p)
    BY <1>3, <2>1, SpawnTouches
  <2>3. ShellInv(p)'
    BY <1>1, <1>3, <2>1, SpawnInv
  <2>. QED
    BY <1>1, <2>2, <2>3, Others
<1>5. CASE ~StartsAgain(p)
  <2>1. UNCHANGED <<procVars, children>> /\ blocking' = [blocking EXCEPT ![p] = FALSE]
    BY <1>5 DEF ProcessExit
  <2>2. ~blocking'[p] /\ Touches(p)
    BY <1>3, <2>1 DEF Touches, TypeOK, procVars
  <2>3. /\ \A r \in Resources : handle[p][r] = "none"
        /\ ~pending[p]
    BY <1>1, NoReference
  <2>4. Counted(p)' /\ Matching(p)' /\ Once(p)'
    BY <1>3, <2>1, <2>2 DEF ShellInv, Counted, Matching, Once, procVars
  <2>5. ~Queued("process_close_event", p)'
    BY <1>1 DEF Queued, Of
  <2>6. Blocked(p)'
    BY <1>1, <2>1, <2>2, <2>5 DEF Blocked, procVars
  <2>7. Live(p)' /\ Ordered(p)'
    BY <1>1, <2>1, <2>2, <2>3 DEF Live, Ordered, procVars
  <2>. QED
    BY <1>1, <2>2, <2>4, <2>6, <2>7, Others DEF ShellInv
<1>. QED
  BY <1>4, <1>5

-----------------------------------------------------------------------------
(* The timer runs while requests are counted: only the steps that count    *)
(* one or take one back touch it.                                          *)
LEMMA TimerStep ==
  ASSUME TypeOK, TimerMatches, [Next]_vars
  PROVE  TimerMatches'
<1>. USE DEF TimerMatches
<1>1. ASSUME NEW p \in Shells, Spawn(p) PROVE TimerMatches'
  BY <1>1 DEF TypeOK, Spawn, SpawnPlain, SpawnUnwritable, SpawnFails, stopVars
<1>2. ASSUME NEW p \in Shells, ExitCb(p) PROVE TimerMatches'
  <2>1. CASE CountedStop(p)
    <3>1. stopRequests' = stopRequests - 1 /\ timer' = (timer /\ stopRequests > 1)
      BY <1>2, <2>1 DEF ExitCb
    <3>2. timer /\ stopRequests > 0 /\ stopRequests \in Nat
      BY <2>1 DEF TypeOK, CountedStop
    <3>3. timer' <=> stopRequests > 1
      BY <3>1, <3>2
    <3>. QED
      BY <3>1, <3>2, <3>3
  <2>2. CASE ~CountedStop(p)
    BY <1>2, <2>2 DEF ExitCb
  <2>. QED
    BY <2>1, <2>2
<1>3. ASSUME UNCHANGED <<timer, stopRequests>> PROVE TimerMatches'
  BY <1>3
<1>4. ASSUME NEW p \in Shells,
             \/ ShellStart(p) \/ ShellSetInBuffer(p) \/ ShellDelete(p)
             \/ WriteCb(p) \/ Die(p) \/ ExitCb(p) \/ Handle(p) \/ Tick(p)
             \/ \E r \in Resources : CloseCb(p, r)
      PROVE  TimerMatches'
  BY <1>1, <1>2, <1>3, <1>4
     DEF ShellStart, ShellSetInBuffer, ShellDelete, WriteCb, Die, Handle, Tick, CloseCb,
         ProcessCloseHandles, StreamCleanup, ProcessExit, stopVars
<1>5. ASSUME NextPhase \/ ChildrenKillCb \/ Aborted \/ UNCHANGED vars PROVE TimerMatches'
  BY <1>3, <1>5 DEF NextPhase, ChildrenKillCb, Aborted, vars, stopVars
<1>. QED
  BY <1>4, <1>5 DEF Next

LEMMA ShellsStep ==
  ASSUME TypeOK, TypeOK', \A q \in Shells : ShellInv(q), [Next]_vars
  PROVE  \A q \in Shells : ShellInv(q)'
<1>1. ASSUME UNCHANGED <<evq, gen, handle, closed, refcount, pending, os, children,
                         blocking, again, freed>>
      PROVE  \A q \in Shells : ShellInv(q)'
  BY <1>1 DEF ShellInv, Counted, Blocked, Queued, Live, Ordered, Of, Matching, Once
<1>2. ASSUME NextPhase \/ Aborted \/ UNCHANGED vars PROVE \A q \in Shells : ShellInv(q)'
  BY <1>1, <1>2 DEF NextPhase, Aborted, vars, procVars, shellVars
<1>3. ASSUME ChildrenKillCb PROVE \A q \in Shells : ShellInv(q)'
  <2>1. UNCHANGED <<evq, gen, handle, closed, refcount, pending, children, shellVars>>
    BY <1>3 DEF ChildrenKillCb
  <2>2. os' = [p \in Shells |->
                IF p \in children /\ KillDue(p) /\ os[p] = "alive" THEN "dead" ELSE os[p]]
    BY <1>3 DEF ChildrenKillCb
  <2>3. \A q \in Shells : os'[q] = os[q] \/ (os[q] = "alive" /\ os'[q] = "dead")
    BY <2>2
  <2>. QED
    BY <2>1, <2>3, DieInv
<1>4. ASSUME NEW p \in Shells, Die(p) PROVE \A q \in Shells : ShellInv(q)'
  <2>1. UNCHANGED <<evq, gen, handle, closed, refcount, pending, children, shellVars>>
    BY <1>4 DEF Die
  <2>2. \A q \in Shells : os'[q] = os[q] \/ (os[q] = "alive" /\ os'[q] = "dead")
    BY <1>4 DEF Die, TypeOK
  <2>. QED
    BY <2>1, <2>2, DieInv
<1>5. ASSUME NEW p \in Shells, ShellSetInBuffer(p) \/ Tick(p)
      PROVE  \A q \in Shells : ShellInv(q)'
  BY <1>1, <1>5 DEF ShellSetInBuffer, Tick, procVars, shellVars
<1>6. ASSUME NEW p \in Shells, Handle(p) PROVE \A q \in Shells : ShellInv(q)'
  BY <1>6, CloseHandlesInv, CleanupInv, ProcessExitInv DEF Handle
<1>. QED
  BY <1>2, <1>3, <1>4, <1>5, <1>6, StartInv, DeleteInv, WriteInv, ExitInv, CloseInv DEF Next

(* The invariant the theorems on children rest on: at each stage of        *)
(* shell_start, on_process_exit, process_close_handles and process_exit,   *)
(* which handles are open and which events are queued.                     *)
THEOREM InvariantCorrect == Spec => []IInv
<1>1. Init => IInv
  <2>1. ASSUME Init PROVE TypeOK
    BY <2>1, InitTyped
  <2>2. ASSUME Init, NEW p \in Shells PROVE ShellInv(p)
    BY <2>2 DEF Init, ShellInv, Counted, One, Blocked, Queued, Live, Ordered, Of, Matching,
                Once, Resources, Streams
  <2>3. Init => TimerMatches
    BY DEF Init, TimerMatches
  <2>. QED
    BY <2>1, <2>2, <2>3, ShellByShell
<1>2. IInv /\ [Next]_vars => IInv'
  <2>1. SUFFICES ASSUME IInv, [Next]_vars PROVE IInv'
    OBVIOUS
  <2>2. TypeOK /\ TypeOK' /\ TimerMatches /\ \A p \in Shells : ShellInv(p)
    BY <2>1, TypeStep, ShellByShell DEF IInv
  <2>3. TimerMatches' /\ \A p \in Shells : ShellInv(p)'
    BY <2>1, <2>2, TimerStep, ShellsStep
  <2>4. (TypeOK => (IInv <=> TimerMatches /\ \A p \in Shells : ShellInv(p)))'
    BY ShellByShell, PTL
  <2>. QED
    BY <2>2, <2>3, <2>4
<1>. QED
  BY <1>1, <1>2, PTL DEF Spec

(* The references and the list of children agree with the handles.         *)
THEOREM RefcountCorrect == Spec => []RefcountMatches
<1>1. IInv => RefcountMatches
  BY DEF IInv
<1>. QED
  BY <1>1, InvariantCorrect, PTL

(* No event of an earlier run or of a freed Shell is ever in the queue.    *)
THEOREM NoStaleCorrect == Spec => []NoStaleEvents
<1>1. IInv => NoStaleEvents
  BY DEF IInv
<1>. QED
  BY <1>1, InvariantCorrect, PTL

-----------------------------------------------------------------------------
(* A child is spawned from clean streams.                                  *)
LEMMA GenStep ==
  ASSUME TypeOK, [Next]_vars, NEW p \in Shells, gen'[p] # gen[p]
  PROVE  /\ Spawn(p) /\ gen'[p] = gen[p] + 1
         /\ \/ ShellStart(p) /\ ~blocking[p]
            \/ ProcessExit(p) /\ again[p]
<1>1. ASSUME NEW q \in Shells, Spawn(q) PROVE q = p /\ gen'[p] = gen[p] + 1
  BY <1>1 DEF Spawn, SpawnPlain, SpawnUnwritable, SpawnFails, Spawned, procVars, TypeOK
<1>2. ASSUME NEW q \in Shells, ShellStart(q)
      PROVE  q = p /\ Spawn(p) /\ gen'[p] = gen[p] + 1 /\ ~blocking[p]
  <2>1. ~blocking[q] /\ Spawn(q)
    BY <1>2 DEF ShellStart, Blocks, procVars
  <2>. QED
    BY <1>1, <2>1
<1>3. ASSUME NEW q \in Shells, ProcessExit(q)
      PROVE  q = p /\ Spawn(p) /\ gen'[p] = gen[p] + 1 /\ again[p]
  <2>1. again[q] /\ Spawn(q)
    BY <1>3 DEF ProcessExit, StartsAgain, procVars
  <2>. QED
    BY <1>1, <2>1
<1>4. ~ UNCHANGED gen
  OBVIOUS
<1>. QED
  BY <1>2, <1>3, <1>4
     DEF Next, vars, procVars, NextPhase, ChildrenKillCb, Aborted, ShellSetInBuffer,
         ShellDelete, WriteCb, Die, ExitCb, Handle, Tick, CloseCb, ProcessCloseHandles,
         StreamCleanup

(* process_spawn finds every pipe and the handle of the previous run       *)
(* closed, and none of its events in the queue.                            *)
THEOREM SpawnCleanCorrect == Spec => SpawnClean
<1>. DEFINE Clean == \A p \in Shells : gen'[p] # gen[p] =>
                       /\ \A r \in Resources : handle[p][r] = "none"
                       /\ ~pending[p] /\ os[p] \in {"none", "reaped"}
                       /\ \A i \in 1..Len(evq') : evq'[i].sh # p
<1>1. IInv /\ [Next]_vars => [Clean]_vars
  <2>1. SUFFICES ASSUME IInv, [Next]_vars, NEW p \in Shells, gen'[p] # gen[p]
        PROVE  /\ \A r \in Resources : handle[p][r] = "none"
               /\ ~pending[p] /\ os[p] \in {"none", "reaped"}
               /\ \A i \in 1..Len(evq') : evq'[i].sh # p
    OBVIOUS
  <2>2. TypeOK /\ ShellInv(p)
    BY <2>1, ShellByShell DEF IInv
  <2>3. refcount[p] = 0 /\ Of(p)' = {}
    <3>1. CASE ShellStart(p) /\ ~blocking[p]
      BY <2>2, <3>1, NotBlocking DEF ShellStart, Of
    <3>2. CASE ProcessExit(p)
      BY <2>2, <3>2, AtExit
    <3>. QED
      BY <2>1, <2>2, <3>1, <3>2, GenStep
  <2>. QED
    BY <2>2, <2>3, NoReference DEF Of
<1>. QED
  BY <1>1, InvariantCorrect, PTL DEF Spec, SpawnClean

-----------------------------------------------------------------------------
(* Stop requests.  The children counted are those of Stopping.             *)
Stopping == {p \in Shells : stopReq[p] /\ os[p] \in {"alive", "dead"}}

LEMMA StopsMatchStep ==
  ASSUME TypeOK, TypeOK', StopsMatch, [Next]_vars
  PROVE  StopsMatch'
<1>1. ASSUME NEW p \in Shells, Spawn(p) PROVE StopsMatch'
  <2>1. CASE SpawnFails(p)
    BY <1>1, <2>1 DEF StopsMatch, SpawnFails, procVars, stopVars
  <2>2. CASE Spawned(p) /\ ~SpawnFails(p)
    <3>1. gen'[p] = gen[p] + 1 /\ gen[p] \in Nat
      BY <2>2 DEF Spawned, TypeOK
    <3>2. gen[p] = 0 => (stopReq'[p] <=> stopped'[p] # 0)
      BY <1>1, <2>2 DEF Spawn, SpawnPlain, SpawnUnwritable, StopsMatch, Young, TypeOK
    <3>3. \A q \in Shells : q # p => /\ gen'[q] = gen[q] /\ os'[q] = os[q]
                                     /\ stopped'[q] = stopped[q] /\ stopReq'[q] = stopReq[q]
      BY <1>1, <2>2 DEF Spawn, SpawnPlain, SpawnUnwritable, Spawned, TypeOK
    <3>. QED
      BY <3>1, <3>2, <3>3 DEF StopsMatch
  <2>. QED
    BY <1>1, <2>1, <2>2 DEF Spawn, SpawnPlain, SpawnUnwritable
<1>2. ASSUME UNCHANGED <<gen, stopReq>>,
             \A p \in Shells : /\ os[p] = "none" => os'[p] = "none"
                               /\ stopped'[p] # 0 <=> stopped[p] # 0
      PROVE  StopsMatch'
  BY <1>2 DEF StopsMatch
<1>3. ASSUME NEW p \in Shells, Die(p) \/ ExitCb(p) PROVE StopsMatch'
  BY <1>2, <1>3 DEF Die, ExitCb, stopVars, TypeOK
<1>4. ASSUME NEW p \in Shells, Tick(p) PROVE StopsMatch'
  BY <1>2, <1>4 DEF Tick, procVars, TypeOK, Young, Term
<1>5. ASSUME ChildrenKillCb PROVE StopsMatch'
  <2>1. os' = [p \in Shells |->
                IF p \in children /\ KillDue(p) /\ os[p] = "alive" THEN "dead" ELSE os[p]]
    BY <1>5 DEF ChildrenKillCb
  <2>2. \A p \in Shells : os[p] = "none" => os'[p] = "none"
    BY <2>1
  <2>. QED
    BY <1>2, <1>5, <2>2 DEF ChildrenKillCb
<1>6. ASSUME UNCHANGED <<gen, stopReq, os, stopped>> PROVE StopsMatch'
  BY <1>2, <1>6
<1>. QED
  BY <1>1, <1>3, <1>4, <1>5, <1>6
     DEF Next, vars, procVars, stopVars, NextPhase, Aborted, ShellStart, ShellSetInBuffer,
         ShellDelete, WriteCb, Handle, CloseCb, ProcessCloseHandles, StreamCleanup, ProcessExit

Few == \A p \in Shells : gen[p] <= 1

CountInv == IsFiniteSet(Stopping) /\ (Few => stopRequests = Cardinality(Stopping))

LEMMA SpawnCounts ==
  ASSUME TypeOK, TypeOK', StopsMatch, CountInv, NEW p \in Shells, Spawn(p)
  PROVE  CountInv'
<1>1. \A q \in Shells \ {p} : q \in Stopping' <=> q \in Stopping
  <2>1. CASE Spawned(p) /\ ~SpawnFails(p)
    <3>1. \A q \in Shells \ {p} : os'[q] = os[q] /\ stopReq'[q] = stopReq[q]
      BY <2>1 DEF Spawn, SpawnPlain, SpawnUnwritable, Spawned, TypeOK
    <3>. QED
      BY <3>1 DEF Stopping
  <2>2. CASE SpawnFails(p)
    BY <2>2 DEF SpawnFails, procVars, stopVars, Stopping
  <2>. QED
    BY <2>1, <2>2 DEF Spawn, SpawnPlain, SpawnUnwritable
<1>2. Stopping' \subseteq Stopping \cup {p} /\ IsFiniteSet(Stopping')
  <2>1. Stopping' \subseteq Stopping \cup {p}
    BY <1>1 DEF Stopping
  <2>. QED
    BY <2>1, FS_AddElement, FS_Subset DEF CountInv
<1>3. CASE SpawnFails(p)
  BY <1>3 DEF SpawnFails, CountInv, Stopping, Few, procVars, stopVars
<1>4. CASE Spawned(p) /\ ~SpawnFails(p)
  <2>1. SUFFICES ASSUME Few' PROVE stopRequests' = Cardinality(Stopping')
    BY <1>2 DEF CountInv
  <2>2. gen'[p] = gen[p] + 1 /\ gen[p] \in Nat /\ \A q \in Shells \ {p} : gen'[q] = gen[q]
    BY <1>4 DEF Spawned, TypeOK
  <2>3. gen[p] = 0 /\ Few
    BY <2>1, <2>2 DEF Few
  <2>4. stopped[p] = 0 /\ p \notin Stopping
    BY <2>3 DEF StopsMatch, Stopping
  <2>5. CASE SpawnPlain(p)
    <3>1. p \notin Stopping' /\ stopRequests' = stopRequests
      BY <2>5 DEF SpawnPlain, Stopping, TypeOK
    <3>2. Stopping' = Stopping
      BY <1>1, <2>4, <3>1 DEF Stopping
    <3>. QED
      BY <2>3, <3>1, <3>2 DEF CountInv
  <2>6. CASE SpawnUnwritable(p)
    <3>1. /\ stopReq' = [stopReq EXCEPT ![p] = TRUE] /\ stopRequests' = stopRequests + 1
          /\ os' = [os EXCEPT ![p] = "alive"]
      BY <2>4, <2>6 DEF SpawnUnwritable, Spawned
    <3>2. p \in Stopping'
      BY <3>1 DEF Stopping, TypeOK
    <3>3. Stopping' = Stopping \cup {p}
      BY <1>1, <3>2 DEF Stopping
    <3>. QED
      BY <2>3, <2>4, <3>1, <3>3, FS_AddElement DEF CountInv
  <2>. QED
    BY <1>4, <2>5, <2>6 DEF Spawn
<1>. QED
  BY <1>3, <1>4 DEF Spawn, SpawnPlain, SpawnUnwritable

LEMMA ExitCounts ==
  ASSUME TypeOK, TypeOK', StopsMatch, CountInv, NEW p \in Shells, ExitCb(p)
  PROVE  CountInv'
<1>1. /\ os[p] = "dead" /\ os' = [os EXCEPT ![p] = "reaped"]
      /\ UNCHANGED <<gen, stopReq, stopped>>
  BY DEF ExitCb
<1>2. Stopping' = Stopping \ {p}
  BY <1>1 DEF Stopping, TypeOK
<1>3. IsFiniteSet(Stopping')
  BY <1>2, FS_RemoveElement DEF CountInv
<1>4. SUFFICES ASSUME Few PROVE stopRequests' = Cardinality(Stopping')
  BY <1>1, <1>3 DEF CountInv, Few
<1>5. gen[p] = 1
  BY <1>1, <1>4 DEF Few, StopsMatch, TypeOK
<1>6. p \in Stopping <=> stopped[p] # 0
  BY <1>1, <1>5 DEF StopsMatch, Stopping
<1>7. stopRequests = Cardinality(Stopping) /\ IsFiniteSet(Stopping)
  BY <1>4 DEF CountInv
<1>8. CASE p \in Stopping
  <2>1. Cardinality(Stopping') = Cardinality(Stopping) - 1 /\ Cardinality(Stopping) # 0
        /\ Cardinality(Stopping) \in Nat
    BY <1>2, <1>7, <1>8, FS_RemoveElement, FS_EmptySet, FS_CardinalityType
  <2>2. CountedStop(p)
    BY <1>6, <1>7, <1>8, <2>1 DEF CountedStop
  <2>3. stopRequests' = stopRequests - 1
    BY <2>2 DEF ExitCb
  <2>. QED
    BY <1>7, <2>1, <2>3
<1>9. CASE p \notin Stopping
  <2>1. Stopping' = Stopping
    BY <1>2, <1>9
  <2>2. ~CountedStop(p)
    BY <1>6, <1>9 DEF CountedStop
  <2>3. stopRequests' = stopRequests
    BY <2>2 DEF ExitCb
  <2>. QED
    BY <1>7, <2>1, <2>3
<1>. QED
  BY <1>8, <1>9

LEMMA CountStep ==
  ASSUME TypeOK, TypeOK', StopsMatch, CountInv, [Next]_vars
  PROVE  CountInv'
<1>1. ASSUME UNCHANGED <<gen, stopReq, stopRequests>>,
             \A p \in Shells : os'[p] \in {"alive", "dead"} <=> os[p] \in {"alive", "dead"}
      PROVE  CountInv'
  <2>1. Stopping' = Stopping
    BY <1>1 DEF Stopping
  <2>. QED
    BY <1>1, <2>1 DEF CountInv, Few
<1>2. ASSUME NEW p \in Shells, Die(p) PROVE CountInv'
  BY <1>1, <1>2 DEF Die, stopVars, TypeOK
<1>3. ASSUME ChildrenKillCb PROVE CountInv'
  <2>1. os' = [p \in Shells |->
                IF p \in children /\ KillDue(p) /\ os[p] = "alive" THEN "dead" ELSE os[p]]
    BY <1>3 DEF ChildrenKillCb
  <2>2. \A p \in Shells : os'[p] \in {"alive", "dead"} <=> os[p] \in {"alive", "dead"}
    BY <2>1
  <2>. QED
    BY <1>1, <1>3, <2>2 DEF ChildrenKillCb
<1>4. ASSUME UNCHANGED <<gen, stopReq, os, stopRequests>> PROVE CountInv'
  BY <1>1, <1>4
<1>. QED
  BY <1>2, <1>3, <1>4, SpawnCounts, ExitCounts
     DEF Next, vars, procVars, stopVars, NextPhase, Aborted, ShellStart, ShellSetInBuffer,
         ShellDelete, WriteCb, Handle, CloseCb, ProcessCloseHandles, StreamCleanup,
         ProcessExit, Tick

(* The counter of stop requests counts the children that were asked to     *)
(* stop and are not reaped, as long as no Shell was started twice.         *)
THEOREM StopsCountedCorrect == Spec => []StopsCounted
<1>1. Init => StopsMatch /\ CountInv
  <2>1. Init => Stopping = {} /\ StopsMatch /\ stopRequests = 0
    BY DEF Init, Stopping, StopsMatch
  <2>. QED
    BY <2>1, FS_EmptySet DEF CountInv
<1>2. TypeOK /\ TypeOK' /\ StopsMatch /\ CountInv /\ [Next]_vars => StopsMatch' /\ CountInv'
  BY StopsMatchStep, CountStep
<1>3. CountInv => StopsCounted
  BY DEF CountInv, Few, Stopping, StopsCounted
<1>. QED
  BY <1>1, <1>2, <1>3, TypeCorrect, PTL DEF Spec

-----------------------------------------------------------------------------
(* The refinement of Shell, without its fairness: what a step does to the  *)
(* Shells as their users see them.                                         *)
LEMMA AbortsAbstract ==
  ASSUME fault' # "none"
  PROVE  Abstract!Next
<1>1. Abstract!Abort
  BY DEF Abstract!Abort, Running
<1>. QED
  BY <1>1 DEF Abstract!Next

LEMMA SameAbstract ==
  ASSUME UNCHANGED <<fault, again, freed, blocking>>,
         \A p \in Shells : os'[p] = "alive" <=> os[p] = "alive"
  PROVE  UNCHANGED Abstract!vars
BY DEF Abstract!vars, Running

LEMMA EndsAbstract ==
  ASSUME TypeOK, \A p \in Shells : ShellInv(p), UNCHANGED <<fault, again, freed, blocking>>, Running,
         NEW ended \in SUBSET Shells, \A p \in ended : os[p] = "alive" /\ os'[p] # "alive",
         \A p \in Shells \ ended : os'[p] = os[p]
  PROVE  Abstract!Next
<1>1. \A p \in ended : blocking[p]
  BY Referenced DEF ShellInv, Matching, Resources
<1>2. Abstract!End(ended)
  BY <1>1 DEF Abstract!End, Running
<1>. QED
  BY <1>2 DEF Abstract!Next

LEMMA StartAbstract ==
  ASSUME TypeOK, TypeOK', \A q \in Shells : ShellInv(q), NEW p \in Shells, ShellStart(p)
  PROVE  Abstract!Next
<1>1. CASE fault' # "none"
  BY <1>1, AbortsAbstract
<1>2. CASE fault' = "none" /\ blocking[p]
  <2>1. /\ again' = [again EXCEPT ![p] = TRUE] /\ UNCHANGED <<fault, os, blocking, freed>>
        /\ Running
    BY <1>2 DEF ShellStart, Blocks, procVars
  <2>2. p \notin RegShells
    BY <1>2 DEF ShellStart, ShellInv, Once
  <2>3. Abstract!Ask(p)
    BY <1>2, <2>1, <2>2 DEF Abstract!Ask, Running, TypeOK
  <2>. QED
    BY <2>3 DEF Abstract!Next
<1>3. CASE fault' = "none" /\ ~blocking[p]
  <2>1. /\ Spawned(p) /\ UNCHANGED <<again, freed>> /\ ~freed[p] /\ Running
    BY <1>3 DEF ShellStart, Blocks, Spawn, SpawnPlain, SpawnUnwritable, SpawnFails
  <2>2. Abstract!Start(p)
    BY <1>3, <2>1 DEF Abstract!Start, Spawned, Running, TypeOK
  <2>. QED
    BY <2>2 DEF Abstract!Next
<1>. QED
  BY <1>1, <1>2, <1>3

LEMMA DeleteAbstract ==
  ASSUME TypeOK, TypeOK', NEW p \in Shells, ShellDelete(p)
  PROVE  Abstract!Next
<1>1. /\ freed' = [freed EXCEPT ![p] = TRUE] /\ UNCHANGED <<fault, os, blocking, again>>
      /\ ~freed[p] /\ ~blocking[p] /\ Running
  BY DEF ShellDelete, MayDelete, procVars
<1>2. Abstract!Delete(p)
  BY <1>1 DEF Abstract!Delete, Running, TypeOK
<1>. QED
  BY <1>2 DEF Abstract!Next

LEMMA ExitAbstract ==
  ASSUME TypeOK, TypeOK', \A q \in Shells : ShellInv(q), NEW p \in Shells, ProcessExit(p)
  PROVE  Abstract!Next
<1>1. CASE fault' # "none"
  BY <1>1, AbortsAbstract
<1>2. CASE fault' = "none"
  <2>1. refcount[p] = 0 /\ ~freed[p] /\ blocking[p]
    BY AtExit
  <2>2. os[p] # "alive"
    BY <2>1, NoReference
  <2>3. /\ Running /\ again' = [again EXCEPT ![p] = FALSE]
        /\ freed' = [freed EXCEPT ![p] = @ \/ p \in RegShells]
    BY DEF ProcessExit, Pop
  <2>4. IF again[p]
        THEN os' = [os EXCEPT ![p] = "alive"] /\ blocking' = [blocking EXCEPT ![p] = TRUE]
        ELSE os' = os /\ blocking' = [blocking EXCEPT ![p] = FALSE]
    BY <1>2, <2>3 DEF ProcessExit, StartsAgain, Spawn, SpawnPlain, SpawnUnwritable,
                      SpawnFails, Spawned, procVars
  <2>5. Abstract!Settle(p)
    <3>1. \A q \in Shells : q # p => /\ os'[q] = os[q] /\ (blocking'[q] <=> blocking[q])
                                     /\ (again'[q] <=> again[q]) /\ (freed'[q] <=> freed[q])
      BY <2>3, <2>4 DEF TypeOK
    <3>2. /\ ~again'[p] /\ (freed'[p] <=> p \in RegShells)
          /\ IF again[p] THEN os'[p] = "alive" /\ blocking'[p] ELSE ~blocking'[p]
      BY <2>1, <2>3, <2>4 DEF TypeOK
    <3>3. Running /\ Running'
      BY <1>2, <2>3 DEF Running
    <3>. DEFINE R(q) == IF ~Running THEN "lost" ELSE IF ~blocking[q] THEN "idle"
                        ELSE IF os[q] = "alive" THEN "runs" ELSE "over"
                A(q) == Running /\ again[q]
                F(q) == Running /\ freed[q]
    <3>4. \A q \in Shells : R(q)' = IF q = p THEN IF A(p) THEN "runs" ELSE "idle" ELSE R(q)
      BY <3>1, <3>2, <3>3
    <3>5. /\ ~A(p)' /\ (F(p)' <=> p \in RegShells)
          /\ \A q \in Shells : q # p => (A(q)' <=> A(q)) /\ (F(q)' <=> F(q))
      BY <3>1, <3>2, <3>3
    <3>6. R(p) = "over"
      BY <2>1, <2>2, <3>3
    <3>7. \A q \in Shells : A(q) \in BOOLEAN /\ A(q)' \in BOOLEAN /\ F(q) \in BOOLEAN /\ F(q)' \in BOOLEAN
      BY Zenon
    <3>. HIDE DEF R, A, F
    <3>8. [q \in Shells |-> R(q)]' = [[q \in Shells |-> R(q)] EXCEPT ![p] = IF A(p) THEN "runs" ELSE "idle"]
      BY <3>4
    <3>9. [q \in Shells |-> A(q)]' = [[q \in Shells |-> A(q)] EXCEPT ![p] = FALSE]
      BY <3>5, <3>7
    <3>10. [q \in Shells |-> F(q)]' = [[q \in Shells |-> F(q)] EXCEPT ![p] = p \in RegShells]
      <4>. DEFINE v == p \in RegShells
      <4>1. (F(p)' <=> v) /\ v \in BOOLEAN
        BY <3>5
      <4>. HIDE DEF v
      <4>2. [q \in Shells |-> F(q)]' = [[q \in Shells |-> F(q)] EXCEPT ![p] = v]
        BY <3>5, <3>7, <4>1
      <4>. QED
        BY <4>2 DEF v
    <3>. QED
      BY <3>6, <3>8, <3>9, <3>10 DEF Abstract!Settle, R, A, F
  <2>. QED
    BY <2>5 DEF Abstract!Next
<1>. QED
  BY <1>1, <1>2

LEMMA StepAbstract ==
  ASSUME TypeOK, TypeOK', \A q \in Shells : ShellInv(q), [Next]_vars
  PROVE  Abstract!Next \/ UNCHANGED Abstract!vars
<1>1. ASSUME NEW p \in Shells, Die(p) PROVE Abstract!Next
  <2>1. /\ UNCHANGED <<fault, again, freed, blocking>> /\ Running /\ os[p] = "alive"
        /\ os' = [os EXCEPT ![p] = "dead"]
    BY <1>1 DEF Die, shellVars
  <2>2. /\ {p} \in SUBSET Shells /\ \A q \in {p} : os[q] = "alive" /\ os'[q] # "alive"
        /\ \A q \in Shells \ {p} : os'[q] = os[q]
    BY <2>1 DEF TypeOK
  <2>. QED
    BY <2>1, <2>2, EndsAbstract
<1>2. ASSUME ChildrenKillCb PROVE Abstract!Next
  <2>. DEFINE ended == {p \in Shells : p \in children /\ KillDue(p) /\ os[p] = "alive"}
  <2>1. UNCHANGED <<fault, again, freed, blocking>> /\ Running
    BY <1>2 DEF ChildrenKillCb, shellVars
  <2>2. os' = [p \in Shells |->
                IF p \in children /\ KillDue(p) /\ os[p] = "alive" THEN "dead" ELSE os[p]]
    BY <1>2 DEF ChildrenKillCb
  <2>3. /\ ended \in SUBSET Shells /\ \A p \in ended : os[p] = "alive" /\ os'[p] # "alive"
        /\ \A p \in Shells \ ended : os'[p] = os[p]
    BY <2>2
  <2>. QED
    BY <2>1, <2>3, EndsAbstract
<1>3. ASSUME NEW p \in Shells, ExitCb(p) PROVE UNCHANGED Abstract!vars
  <2>1. UNCHANGED <<fault, again, freed, blocking>>
        /\ os[p] = "dead" /\ os' = [os EXCEPT ![p] = "reaped"]
    BY <1>3 DEF ExitCb, shellVars
  <2>2. \A q \in Shells : os'[q] = "alive" <=> os[q] = "alive"
    BY <2>1 DEF TypeOK
  <2>. QED
    BY <2>1, <2>2, SameAbstract
<1>4. ASSUME NEW p \in Shells, WriteCb(p) PROVE Abstract!Next \/ UNCHANGED Abstract!vars
  <2>1. CASE fault' # "none"
    BY <2>1, AbortsAbstract
  <2>2. CASE fault' = "none"
    BY <1>4, <2>2, SameAbstract DEF WriteCb, shellVars
  <2>. QED
    BY <2>1, <2>2
<1>5. ASSUME UNCHANGED <<fault, again, freed, blocking, os>> PROVE UNCHANGED Abstract!vars
  BY <1>5, SameAbstract
<1>. QED
  BY <1>1, <1>2, <1>3, <1>4, <1>5, StartAbstract, DeleteAbstract, ExitAbstract
     DEF Next, vars, procVars, shellVars, NextPhase, Aborted, ShellSetInBuffer, Handle, Tick,
         CloseCb, ProcessCloseHandles, StreamCleanup

(* Every behaviour of ProcessLife is one of Shell, seen through the        *)
(* refinement mapping: initial states and steps.                           *)
THEOREM RefinesShell == Spec => Abstract!Init /\ [][Abstract!Next]_(Abstract!vars)
<1>1. Init => Abstract!Init
  BY DEF Init, Abstract!Init, Running
<1>2. IInv /\ IInv' /\ [Next]_vars => [Abstract!Next]_(Abstract!vars)
  BY ShellByShell, StepAbstract DEF IInv
<1>. QED
  BY <1>1, <1>2, InvariantCorrect, PTL DEF Spec

=============================================================================
