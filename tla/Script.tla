------------------------------- MODULE Script -------------------------------
(***************************************************************************)
(* The command language at work: files are read line by line into the      *)
(* interpreter of Cmd, and between two files lines are typed on the        *)
(* command line, which takes them apart at every key and runs them at the  *)
(* end.  After a file, and after a typed line, everything that is open is  *)
(* dropped; functions and variables stay.                                  *)
(***************************************************************************)
EXTENDS Cmd

CONSTANTS
  FileLines,    \* the lines a file may have
  Units,        \* the units that may be typed
  Defined,      \* the sets of functions there may be from before
  MaxLines,     \* lines read and units typed, in all
  MaxTyped      \* units of a typed line

VARIABLES
  nvs,      \* the interpreter; nvs.out is what ran since the last flush
  hist,     \* the lines read since the last flush
  known,    \* the functions there were then
  odd,      \* the lines with a bar or a module that were ever run
  typed,    \* the line being typed
  spent     \* how much of MaxLines is used

vars == <<nvs, hist, known, odd, typed, spent>>

Has(l, u) == \E i \in DOMAIN l : l[i] = u
Odd(l) == IF Has(l, "|") \/ Has(l, ":") THEN {l} ELSE {}

\* A state after a flush, without what only the checks look at.
Fresh(s) == [s EXCEPT !.gen = 0, !.out = <<>>]

Init ==
  /\ known \in Defined
  /\ nvs = Start(known)
  /\ hist = <<>>
  /\ odd = {}
  /\ typed = <<>>
  /\ spent = 0

\* One turn of config_read's loop.
ReadOne(l) ==
  /\ ~Broken(nvs) /\ typed = <<>> /\ spent < MaxLines
  /\ nvs' = [EvalNull(nvs, l) EXCEPT !.gen = 0]
  /\ hist' = Append(hist, l)
  /\ odd' = odd \cup Odd(l)
  /\ spent' = spent + 1
  /\ UNCHANGED <<known, typed>>

\* The end of config_read and cmd_popfile.
EndOfFile ==
  /\ ~Broken(nvs) /\ hist # <<>>
  /\ nvs' = Fresh(Flush(Flush(nvs)))
  /\ hist' = <<>>
  /\ known' = nvs'.fns
  /\ UNCHANGED <<odd, typed, spent>>

\* A key on the command line: the line is built again, for the completion and
\* the colours.
Type(u) ==
  /\ ~Broken(nvs) /\ hist = <<>> /\ spent < MaxLines /\ Len(typed) < MaxTyped
  /\ typed' = Append(typed, u)
  /\ spent' = spent + 1
  /\ UNCHANGED <<nvs, hist, known, odd>>

\* Enter: the line runs, then stop_ex_cmd flushes.
Flushed(ran) == IF Broken(ran) THEN [ran EXCEPT !.gen = 0] ELSE Fresh(Flush(ran))
Enter ==
  /\ ~Broken(nvs) /\ typed # <<>>
  /\ nvs' = Flushed(EvalNull(nvs, typed))
  /\ hist' = IF Broken(nvs') THEN <<typed>> ELSE <<>>
  /\ known' = nvs'.fns
  /\ odd' = odd \cup Odd(typed)
  /\ typed' = <<>>
  /\ UNCHANGED spent

Next ==
  \/ \E l \in FileLines : ReadOne(l)
  \/ EndOfFile
  \/ \E u \in Units : Type(u)
  \/ Enter

Spec == Init /\ [][Next]_vars

----------------------------------------------------------------------------
(* What the lines of a file say.                                           *)

Kind(l) == LET w == FirstWord(l) IN IF w \in Blocks THEN w ELSE "cmd"
Opens(l) == Kind(l) \in {"if", "function"}

\* The kinds of the blocks that are open after the first n lines, outermost
\* first; "bad" is at the front if a line did not belong there.
Step(st, l) ==
  LET k == Kind(l) IN
  IF st # <<>> /\ Head(st) = "bad" THEN st
  ELSE CASE k = "if" -> Append(st, "if")
         [] k = "function" -> IF st = <<>> THEN <<"function">> ELSE <<"bad">>
         [] k = "end" -> IF st = <<>> THEN <<"bad">> ELSE Front(st)
         [] k = "elseif" -> IF st # <<>> /\ Last(st) = "if" THEN st ELSE <<"bad">>
         [] k = "else" -> IF st # <<>> /\ Last(st) = "if"
                          THEN Append(Front(st), "else") ELSE <<"bad">>
         [] OTHER -> st
Open(ls) == FoldLeft(Step, <<>>, ls)
OpenAt(ls, n) == Open(SubSeq(ls, 1, n))

WellFormed(ls) == Open(ls) = <<>>

RECURSIVE Meaning(_, _)
Meaning(ls, fns) ==
  IF ls = <<>> THEN [out |-> <<>>, brk |-> FALSE]
  ELSE
  LET l == Head(ls)
      level(j) == Cardinality({i \in 2..j : Opens(ls[i])})
                    - Cardinality({i \in 2..(j-1) : Kind(ls[i]) = "end"})
      at(ks) == FirstOf({j \in 2..Len(ls) : Kind(ls[j]) \in ks /\ level(j) = 0})
      stop == at({"elseif", "else", "end"})
      close == at({"end"})
      rest == SubSeq(ls, close + 1, Len(ls))
      after(r, more, fs) ==
        IF r.brk THEN r
        ELSE LET m == Meaning(more, fs) IN [m EXCEPT !.out = r.out \o @]
      nothing == [out |-> <<>>, brk |-> FALSE]
      name == IF Len(l) >= 3 THEN l[3] ELSE ""
      called == {d \in fns : d.fn.name = FirstWord(l)}
  IN  CASE Kind(l) \in {"if", "elseif"} ->
             after(IF Has(l, "1") THEN Meaning(SubSeq(ls, 2, stop - 1), fns)
                   ELSE CASE Kind(ls[stop]) = "elseif" -> Meaning(SubSeq(ls, stop, close), fns)
                          [] Kind(ls[stop]) = "else" -> Meaning(SubSeq(ls, stop + 1, close - 1), fns)
                          [] OTHER -> nothing,
                   rest, fns)
        [] Kind(l) = "function" ->
             LET f == [name |-> l[4], argv |-> <<>>, lines |-> SubSeq(ls, 2, close - 1)]
             IN  after(nothing, rest,
                       {d \in fns : d.fn.name # f.name} \cup {[own |-> "gbl", fn |-> f]})
        [] Kind(l) = "return" -> [nothing EXCEPT !.brk = TRUE]
        [] Kind(l) = "cmd" /\ called # {} ->
             after([Meaning((CHOOSE d \in called : TRUE).fn.lines, fns) EXCEPT !.brk = FALSE],
                   Tail(ls), fns)
        [] OTHER -> after([nothing EXCEPT !.out = IF FirstWord(l) \in Acts THEN <<l>> ELSE <<>>],
                          Tail(ls), fns)

----------------------------------------------------------------------------
(* What the interpreter cannot do, each with the reason.                   *)

\* A condition or an answer that is more than a number.
Asks(l) == Kind(l) \in {"if", "elseif", "return"} /\ (Len(l) > 3 \/ Last(l) \notin DOMAIN Numbers)

\* The ifs of the first level, and the bodies of functions.
Blocks1(ls) == {n \in DOMAIN ls : Kind(ls[n]) = "if" /\ OpenAt(ls, n - 1) = <<>>}
Bodies == {d.fn.lines : d \in nvs.fns \cup known}
Calls(ls) == {n \in DOMAIN ls : Kind(ls[n]) = "cmd" /\ Has(ls[n], "(") /\ Open(SubSeq(ls, 1, n)) # <<"function">>}

\* A block in a block: only an if that is the first of the tape gets its end
\* (tape[root.st].end), so the walk stops, or goes on into an else, at the end of
\* the inner one.
Nested(ls) == \E n \in DOMAIN ls : Kind(ls[n]) = "if"
                 /\ \E i \in DOMAIN OpenAt(ls, n - 1) : OpenAt(ls, n - 1)[i] # "function"

\* A second block on the tape before a flush, the one of a body that is called
\* included: the walk starts at the first child of the root again.
Second(ls) ==
  LET called == IF \E b \in Bodies : Blocks1(b) # {} THEN Cardinality(Calls(ls)) ELSE 0
  IN  Cardinality(Blocks1(ls)) + called > 1

\* A return only ends the loop over the lines of the body, not the walk over a
\* block in it; and outside of a function it is an error nobody is told of.
Returns(ls) == \E n \in DOMAIN ls : Kind(ls[n]) = "return" /\ "function" \notin Range(OpenAt(ls, n - 1))
ReturnsInBlock(ls) == \E n \in DOMAIN ls : Kind(ls[n]) = "return" /\ OpenAt(ls, n - 1) # <<>>

\* A function only sees the functions of its own frame.
CallsIn(b) == Calls(b) # {}

\* Words that begin like a built-in, variables, bars and files.
Plain(ls) == \A n \in DOMAIN ls :
  /\ \A u \in {"|", "$", ":"} : ~Has(ls[n], u)
  /\ FirstWord(ls[n]) \notin Shadowed \cup {"source", "plugin", "let"}
  /\ Kind(ls[n]) \in {"if", "elseif"} => ~Asks(ls[n])

Runnable(ls) == WellFormed(ls) /\ Plain(ls) /\ ~Nested(ls) /\ ~Second(ls) /\ ~Returns(ls)
RunnableBody(b) ==
  /\ WellFormed(b) /\ Plain(b) /\ ~Nested(b) /\ Cardinality(Blocks1(b)) <= 1
  /\ ~ReturnsInBlock(b) /\ ~CallsIn(b)

\* Between two lines, with nothing open, what has run since the last flush is
\* what the file says (cmd.c).
RunsAsWritten ==
  ~Broken(nvs) /\ odd = {} /\ Runnable(hist) /\ (\A b \in Bodies : RunnableBody(b))
    => nvs.out = Meaning(hist, known).out

\* What in the lines that were read may lead to each fault.
Said == odd \cup Range(hist) \cup UNION {Range(b) : b \in Bodies}
          \cup UNION {Range(Files[f]) : f \in DOMAIN Files}
Cause(f) ==
  CASE f = "freed tape" -> \E l \in Said : FirstWord(l) \in {"source", "plugin"} \/ Has(l, "|")
                             \/ ~WellFormed(hist)
    [] f = "unset answer" -> \E l \in Said : Asks(l) \/ Has(l, "(")
    [] f = "no frame" -> \E l \in Said : Has(l, ":")
    [] f = "dead frame" -> \E l \in Said : Has(l, ":")
    [] f = "past the tape" -> ~WellFormed(hist) \/ Nested(hist)
    [] f = "freed definition" -> \E l \in Said : Has(l, "|")
    [] f = "recursion" -> \E l \in Said : Has(l, "|") \/ Has(l, ":")
    [] OTHER -> TRUE

\* The interpreter only loses its footing in the ways that are known: a file read
\* while a block is walked (its flush frees the tape), a condition or a return
\* that asks a command without an answer, a call into a module that was never
\* loaded (the frame of the caller is popped for it), an end that has no block,
\* and a definition or an end behind a bar.
FaultsAreKnown == Cause(nvs.fault)

\* Every word that is typed reaches the command, as an argument or as a variable,
\* unless the line is a syntax error, a list is not closed, a key has no value or
\* is in a list (its pair is looked for in the wrong place), or the line starts
\* with a variable, which is taken for a glued "!" (cmdline_parse).
Words(l) == {u \in DOMAIN l : l[u] \notin Chars \cup {Blank, Backslash, Empty, "."}}
Count(l, u) == Cardinality({i \in DOMAIN l : l[i] = u})
Complete(P) == P.err \/ Words(typed) \subseteq Reached(P)
NoWordLost ==
  LET ts == Tokens(typed)
  IN  \/ ts = <<>> \/ Complete(Parse(typed, FALSE))
      \/ Count(typed, "[") > Count(typed, "]")
      \/ Has(typed, ":") /\ Has(typed, "[")
      \/ \E i \in DOMAIN ts : ts[i].w = ":" /\ (i = Len(ts) \/ ts[i+1].w \in Chars)
      \/ ts[1].w \in {"$", "%"}
=============================================================================
