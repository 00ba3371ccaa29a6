------------------------------- MODULE ExLine -------------------------------
(***************************************************************************)
(* The line being typed and what completes it: the editing functions of    *)
(* src/nav/tui/ex_cmd.c, the stack of contexts of src/nav/compl.c and the  *)
(* menu of src/nav/tui/menu.c.                                             *)
(*                                                                         *)
(* One record e is the state of the three.  A line is a sequence of        *)
(* characters one cell wide, without quotes, backslashes and "@"; offsets  *)
(* count from 0 as in the code.  Every operator takes e to what it is      *)
(* after the function of the same name.                                    *)
(***************************************************************************)
EXTENDS Integers, Sequences, SequencesExt, FiniteSets, FiniteSetsExt

CONSTANTS
  Contexts,    \* for the commands with arguments to complete, and Root: the
               \* parameters, [flag |-> "", "-" or "*", gen |-> a list or "path" or ""]
  Lists,       \* the words of every list but "path"
  Names,       \* the files of every directory: those of Pwd and others
  RowMax,      \* the option menu_rows
  HintKeys     \* the option hintkeys

Root == <<"CMD">>
Bang == <<"!">>
Pwd  == <<".">>
None == <<"none">>      \* no context and no directory
TokenChars == {" ", "|", "!", "/"}

ASSUME ContextsAssumption ==
  /\ {Root, Bang} \subseteq DOMAIN Contexts /\ Pwd \in DOMAIN Names
  /\ Len(HintKeys) >= RowMax /\ RowMax > 0

----------------------------------------------------------------------------
\* The line.
At(l, i) == IF i \in 0..Len(l)-1 THEN l[i+1] ELSE ""      \* "" is the final NUL
Splice(l, ins, pos, ofs) == SubSeq(l, 1, pos) \o ins \o SubSeq(l, pos + ofs + 1, Len(l))
RevPos(l, n, accept) == Max({0} \cup {i \in 1..n-1 : At(l, i) \in accept})
CurCh(e) == At(e.line, Max({e.cur - 1, 0}))

NoTok == [st |-> -1, ed |-> -1, w |-> <<>>]
Word(l, st) ==
  LET ed == IF At(l, st) \in TokenChars THEN st + 1
            ELSE Min({j \in st..Len(l) : At(l, j) \in TokenChars \cup {""}})
  IN  [st |-> st, ed |-> ed, w |-> SubSeq(l, st + 1, ed)]
Tokens(l) ==
  LET starts(i) == l[i] # " " /\ (l[i] \in TokenChars \/ i = 1 \/ l[i-1] \in TokenChars)
      at == SelectSeq([i \in DOMAIN l |-> i], starts)
  IN  [k \in DOMAIN at |-> Word(l, at[k] - 1)]
TokBtwn(l, st, ed) ==
  LET hits == SelectSeq(Tokens(l), LAMBDA t : Min({ed, t.ed}) > Max({st, t.st}))
  IN  IF hits = <<>> THEN NoTok ELSE hits[1]

----------------------------------------------------------------------------
\* The stack of contexts, its top at the right, and the rows they offer.
CurPos(e)  == IF e.stk = <<>> THEN -1 ELSE Last(e.stk).st
Dead(e)    == e.stk = <<>> \/ Last(e.stk).cx = None
IsRoot(e)  == e.stk # <<>> /\ Last(e.stk).cx = Root
IsExec(e)  == Last(e.stk).cx = Bang
Die(e, why) == [e EXCEPT !.fault = IF @ = "" THEN why ELSE @]

CurTok(e) ==
  LET st == CurPos(e) - 1
      from == IF st < 0 THEN RevPos(e.line, e.cur - 1, {" "})
              ELSE IF At(e.line, st) = "|" THEN st + 1 ELSE st
  IN  TokBtwn(e.line, from, e.cur)
CurStr(e) == CurTok(e).w

\* Where the argument under the cursor starts: below entries of the same
\* parameter, one for every "/".
ArgPos(e) ==
  LET top == Last(e.stk)
      same(i) == \A j \in i..Len(e.stk) : e.stk[j].cx = top.cx /\ e.stk[j].argc = top.argc
  IN  e.stk[Min({i \in DOMAIN e.stk : same(i)})].st
RootPos(e) ==
  LET roots == {i \in DOMAIN e.stk : e.stk[i].cx = Root}
  IN  e.stk[IF roots = {} THEN 1 ELSE Max(roots)].st
CurLine(e) ==
  LET pos == ArgPos(e)
      end == Min({i \in pos..Len(e.line) : At(e.line, i) \in {"|", ""}})
  IN  SubSeq(e.line, pos + 1, end)

Push(e, cx, argc, pos) ==
  [e EXCEPT !.stk = Append(@, [cx |-> cx, argc |-> argc, st |-> pos]), !.dirty = TRUE]
Backward(e) == IF Len(e.stk) > 1 THEN [e EXCEPT !.stk = Front(@), !.dirty = TRUE] ELSE e

Clear(e) == [e EXCEPT !.rows = <<>>, !.matches = <<>>, !.esc = {}, !.inv = 0]

\* The characters asked for occur in the row in this order; one of the row
\* may stand for several of them.
Fuzzy(w, asked) ==
  FoldLeft(LAMBDA p, ch : IF \E j \in p..Len(w) : p > 0 /\ w[j] = ch
                          THEN Min({j \in p..Len(w) : w[j] = ch}) ELSE 0,
           1, asked) > 0
Filter(e, src) ==
  IF e.inv # 0 THEN e
  ELSE [e EXCEPT !.matches = SelectSeq(e.rows, LAMBDA r : Fuzzy(r.w, src))]

Add(e, words) ==
  [e EXCEPT !.rows = @ \o [i \in DOMAIN words |-> [w |-> words[i], argc |-> e.arg]]]

\* fs_read: a request is dropped while another one of the menu is running.
Read(e, dir) == IF e.rd # None THEN e ELSE [e EXCEPT !.rd = dir]

\* The path of a line: its first word; a directory if there is one.
FirstWord(path) ==
  LET words == SelectSeq(path, LAMBDA c : c # " ")
      from == Min({i \in DOMAIN path : path[i] # " "})
      to == Min({i \in from..Len(path)+1 : i = Len(path)+1 \/ path[i] = " "})
  IN  IF words = <<>> THEN <<>> ELSE SubSeq(path, from, to - 1)
Resolved(path) ==
  LET w == FirstWord(path)
      last == Max({1} \cup {i \in DOMAIN w : w[i] # "/"})
  IN  SubSeq(w, 1, last)

PathList(e0) ==
  LET e == [e0 EXCEPT !.esc = {"@", "/"}]
      path == CurLine(e)
  IN  IF ArgPos(e) >= e.cur THEN Read(e, Pwd)
      ELSE IF FirstWord(path) = <<>> THEN Die(e, "blank path")
      ELSE IF CurCh(e) # "/" THEN Read(e, Pwd)
      ELSE IF Resolved(path) \in DOMAIN Names THEN Read(e, Resolved(path))
      ELSE e

\* compl_build: the lists of the parameter and, while it is optional, of the
\* next ones.
Build(e) ==
  IF Dead(e) \/ ~e.dirty THEN e
  ELSE LET top == Last(e.stk)
           ps == Contexts[top.cx]
           last == Min({i \in top.argc+1..Len(ps) : ps[i].flag # "-"} \cup {Len(ps)})
           gen(d, i) ==
             CASE ps[i].gen = "path" -> PathList([d EXCEPT !.arg = i - 1])
               [] ps[i].gen = ""     -> [d EXCEPT !.arg = i - 1]
               [] OTHER -> Add([d EXCEPT !.arg = i - 1], Lists[ps[i].gen])
       IN  [FoldLeft(gen, Clear(e), [k \in 1..(last - top.argc) |-> top.argc + k])
              EXCEPT !.dirty = FALSE]

\* The rows for the word under the cursor.
Offered(e) == Filter(Build(e), CurStr(e))
Begin(e, pos) == Filter(Build(Push(e, Root, 0, pos)), <<>>)
End(e) == [Clear(e) EXCEPT !.dirty = @ \/ e.stk # <<>>, !.stk = <<>>]
SetExec(e, pos) == Push(e, Bang, 0, pos)

\* mutant: a step past the last parameter
SearchPastLast(e, cx, key, pos) ==
  LET argc == Last(e.stk).argc
  IN  IF argc + 1 <= Len(Contexts[cx]) THEN Push(e, cx, argc + 1, pos)
      ELSE Die(e, "parameter")

\* compl_search: a word has ended, what may follow it.
Search(e, cx, key, pos) ==
  LET hits == SelectSeq(e.matches, LAMBDA r : r.w = key)
      argc == IF hits = <<>> THEN Last(e.stk).argc ELSE hits[1].argc
      ps == Contexts[cx]
  IN  IF argc + 1 < Len(ps) THEN Push(e, cx, argc + 1, pos)
      ELSE IF argc + 1 > Len(ps) THEN Die(e, "parameter")
      ELSE IF ps[argc+1].flag = "*" THEN Push(e, cx, argc, pos)
      ELSE IF key \in DOMAIN Contexts \ {Root, Bang} THEN Push(e, key, 0, pos)
      ELSE Push(e, None, Last(e.stk).argc, pos)

Update(e, key, pos, ch) ==
  IF Dead(e) \/ key = <<>> THEN e
  ELSE IF ch = " " THEN Search(e, Last(e.stk).cx, key, pos)
  ELSE IF ch \in e.esc
       THEN Push(e, Last(e.stk).cx, Last(e.stk).argc, IF ch = "/" THEN pos + 1 ELSE pos)
  ELSE e

----------------------------------------------------------------------------
\* The menu.
Restart(e) == [Begin(e, e.cur) EXCEPT !.moved = TRUE, !.top = 0, !.key = None]
RestartsOnly(e) == Restart(e)          \* mutant: the contexts stay
MenuClear(e) == Restart(End(e))
MenuRebuild(e) == [MenuClear(e) EXCEPT !.rebuild = TRUE]
KillWord(e) == IF e.active THEN Backward(e) ELSE e

\* The context of the word the cursor is in.
Settled(e) ==
  IF CurPos(e) > e.cur /\ ~IsExec(e) /\ ~IsRoot(e) THEN Backward(e) ELSE e

\* rebuild_contexts: the line is gone through as if it were typed again.
Contextualise(e0) ==
  LET ts == Tokens(e0.line)
      step(acc, i) ==
        LET e == acc.e
            key == ts[i].w
            ed == ts[i].ed + 1
            next == IF i < Len(ts) /\ ts[i+1].w[1] \in TokenChars THEN ts[i+1].w[1] ELSE " "
            to(d, skip) == [e |-> d, skip |-> skip]
        IN  CASE acc.skip -> to(e, FALSE)
              [] ~acc.skip /\ next = "/" ->
                   to(Update([e EXCEPT !.esc = {"/"}], key, ed, "/"), TRUE)
              [] ~acc.skip /\ next = "!" /\ IsRoot(e) -> to(Update(e, key, ed + 1, " "), TRUE)
              [] ~acc.skip /\ next # "/" /\ ~(next = "!" /\ IsRoot(e)) ->
                   to(IF key = <<"|">> THEN Begin(e, ed)
                      ELSE IF key = Bang /\ IsRoot(e) THEN SetExec(e, ed)
                      ELSE Update(e, key, ed, next), FALSE)
      all == FoldLeft(step, [e |-> e0, skip |-> FALSE], [i \in DOMAIN ts |-> i])
  IN  [Offered(Settled(all.e)) EXCEPT !.rebuild = FALSE]

MenuUpdate(e, cycling) ==
  IF e.rebuild THEN Contextualise(e)
  ELSE IF cycling THEN e
  ELSE Offered(Update([e EXCEPT !.top = 0, !.lnum = 0, !.moved = TRUE],
                      CurStr(e), e.cur, CurCh(e)))

\* ROW_MAX is read from the option by the first ":".
RowsOf(e) == IF e.started THEN RowMax ELSE 0

\* mutant: down past the last match
ScrollsOn(e, y) == [e EXCEPT !.top = Max({0, @ + y}), !.lnum = @ - y]

Scroll(e, y) ==
  LET top == Max({0, Min({e.top + y, Len(e.matches) - RowsOf(e)})})
  IN  [e EXCEPT !.top = top, !.lnum = @ + e.top - top]

\* The selection moves by dir, but not from where an update has just put it.
Cycle(e, dir, moved) ==
  LET y == IF e.moved THEN 0 ELSE dir
      d == [e EXCEPT !.lnum = @ + y]
      s == IF (y < 0 /\ 5 * d.lnum < RowsOf(e)) \/ (y > 0 /\ 5 * d.lnum > 4 * RowsOf(e))
           THEN Scroll(d, y) ELSE d
      lnum == Min({RowsOf(e), Max({0, s.lnum})})
      n == Len(e.matches)
  IN  [s EXCEPT !.lnum = IF s.top + lnum > n - 1 THEN n - s.top - 1 ELSE lnum,
                !.moved = moved]
Selected(e) == e.matches[e.top + e.lnum + 1].w

\* menu_next: past the last row comes the first one, and before the first the
\* last.
Wrapped(e) ==
  LET n == Len(e.matches)
  IN  Cycle(IF e.top + e.lnum = 0
            THEN [e EXCEPT !.lnum = n, !.top = Max({0, n - RowsOf(e)})]
            ELSE [e EXCEPT !.lnum = 0, !.top = 0], 0, FALSE)
MenuNext(e, dir) ==
  LET d == Cycle(e, dir, FALSE)
  IN  IF CurStr(e) = Selected(d) /\ ~e.moved THEN Wrapped(d) ELSE d

CanSelect(e) == ~Dead(e) /\ e.matches # <<>>
MenuMv(e, y) == IF CanSelect(e) THEN Cycle([e EXCEPT !.moved = FALSE], y, TRUE) ELSE e
ToggleHints(e) ==
  IF ~e.started THEN Die(e, "hint keys")
  ELSE IF e.matches = <<>> THEN e ELSE [e EXCEPT !.hints = ~@ /\ ~Dead(e)]

Populate(e, line) ==
  [(IF e.mode = "cmd" THEN MenuRebuild(e) ELSE e) EXCEPT !.line = line, !.cur = Len(line)]

\* menu_input: the row a hint key, or the return key, chooses; 0 is none.
HintRow(e, k) ==
  LET hinted == {i \in 1..Min({RowsOf(e), Len(e.matches)}) : HintKeys[i] = k}
      idx == e.top + e.lnum + 1
      row == IF k = "CR" THEN idx ELSE IF hinted = {} THEN 0 ELSE Max(hinted) + e.top
  IN  IF e.active /\ ~Dead(e) /\ row \in DOMAIN e.matches THEN row ELSE 0
MenuInput(e, row) ==
  LET pos == IF CurTok(e) = NoTok THEN e.cur ELSE CurTok(e).st
  IN  ToggleHints(Populate(e, SubSeq(e.line, 1, pos) \o e.matches[row].w))

\* Every row of the menu on the screen is one of the matches.
Drawable(e) ==
  e.active /\ ~Dead(e) /\ e.matches # <<>>
    => e.top + Min({RowsOf(e), Len(e.matches)}) <= Len(e.matches)
=============================================================================
