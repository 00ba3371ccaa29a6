------------------------------ MODULE CmdLine ------------------------------
(***************************************************************************)
(* How a line of the command language is taken apart: src/nav/cmdline.c.   *)
(*                                                                         *)
(* A line is a sequence of units.  A unit is a word, one of the characters *)
(* that are tokens of their own, a blank " " or a final backslash; the     *)
(* characters of a word are never looked at.  The parser keeps a stack     *)
(* whose bottom is the list of arguments, and calls itself for every "(".  *)
(***************************************************************************)
EXTENDS Integers, Sequences, SequencesExt, FiniteSets

CONSTANT Quoted        \* the units that stand for a string in quotes

Chars == {"~", "=", "%", "$", "!", "/", ";", ":", "|", "<", ">", ",",
          "[", "]", "{", "}", "(", ")"}          \* TOKENCHARS but the blank
Blank == " "
Backslash == "\\"
Empty == "''"      \* a string with nothing in it makes no token

\* The tokens of a line: every unit but the blanks, with the unit it is.
Tokens(l) ==
  LET at == SelectSeq([u \in DOMAIN l |-> u], LAMBDA u : l[u] \notin {Blank, Backslash, Empty})
  IN  [i \in DOMAIN at |->
         [t |-> "str", w |-> l[at[i]], u |-> at[i], e |-> at[i],
          q |-> l[at[i]] \in Quoted, symb |-> ""]]

Continues(l) == l # <<>> /\ Last(l) = Backslash

Lst(u) == [t |-> "list", items |-> <<>>, u |-> u, e |-> u, symb |-> ""]
Pair(tok, scope) == [t |-> "pair", key |-> tok, value |-> tok, scope |-> scope,
                     u |-> tok.u, e |-> tok.e, symb |-> ""]

IsList(x) == x.t = "list"
IsStr(x)  == x.t = "str"
IsPair(x) == x.t = "pair"

\* mutant: only a string in quotes is kept.
OnlyQuoted(c, tok) == IF IsStr(tok) /\ tok.q THEN [c EXCEPT !.vars = Append(@, tok)] ELSE c

\* A variable is replaced before the command runs: its place in the line is
\* kept.  The one that is asked about for a pair is the key, or the value of
\* a scope, and a string in quotes is no variable.
PushVar(c, tok) ==
  LET word == IF IsPair(tok) THEN IF tok.scope THEN tok.value ELSE tok.key
              ELSE tok
  IN  IF IsStr(word) /\ ~(IsStr(tok) /\ tok.q)
      THEN [c EXCEPT !.vars = Append(@, tok)] ELSE c

\* The stack c.stk grows to the right.  pop() gives the top to what is below:
\* a list takes it; a pair, looked for in the second place from the BOTTOM,
\* gets its key and its value and goes to the list under it.
Pop(c) ==
  LET n == Len(c.stk)
      tok == c.stk[n]
      below == c.stk[n-1]
      down == SubSeq(c.stk, 1, n-1)
      pair == c.stk[2]
      made == [pair EXCEPT !.key = c.stk[n-1], !.value = tok, !.e = tok.e]
      rest == SubSeq(c.stk, 1, n-3)
  IN  CASE IsList(below) /\ tok.symb # "" ->
             PushVar([c EXCEPT !.stk = down], tok)
        [] IsList(below) /\ tok.symb = "" ->
             [c EXCEPT !.stk = [down EXCEPT ![n-1].items = Append(@, tok),
                                            ![n-1].e = tok.e],
                       !.idx = @ + 1]
        [] ~IsList(below) /\ IsPair(pair) /\ n = 4 /\ made.key.symb # "" ->
             PushVar([c EXCEPT !.stk = rest], made)
        [] ~IsList(below) /\ IsPair(pair) /\ n = 4 /\ made.key.symb = "" ->
             [c EXCEPT !.stk = [rest EXCEPT ![1].items = Append(@, made)],
                       !.idx = @ + 1]
        [] OTHER -> [c EXCEPT !.stk = down, !.idx = @ + 1]

Push(c, tok) == [c EXCEPT !.stk = Append(@, tok)]

Glued(ts, i) == i + 1 \in DOMAIN ts /\ ts[i].u + 1 = ts[i+1].u

\* valid_var: the token a "$" or a "%" belongs to, the next one if it is glued.
VarAt(ts, i) ==
  IF Glued(ts, i) /\ (ts[i+1].w \in {"%", "!", "?", "$"} \/ ts[i+1].w \notin Chars)
  THEN i + 1 ELSE i

\* A word: a ":" behind it makes it the key of a pair, unless the top of the
\* stack is no list.
Word(c, ts, i, symb) ==
  LET tok == [ts[i] EXCEPT !.symb = symb]
      ahead == i + 1 \in DOMAIN ts /\ ts[i+1].w = ":" /\ IsList(Last(c.stk))
      scope == Glued(ts, i) /\ i + 2 \in DOMAIN ts
                 /\ ts[i+2].w = ":" /\ ts[i+2].u = ts[i].u + 2
  IN  IF ahead THEN Push(Push(c, [Pair(tok, scope) EXCEPT !.key.symb = symb]), tok)
      ELSE Pop(Push(c, tok))

\* Which child an opening parenthesis makes: the argument before it, if any,
\* names the function to call.
NewCmd(u, exec) ==
  [stk |-> <<Lst(0)>>, idx |-> 0, chlds |-> <<>>, vars |-> <<>>, arys |-> <<>>,
   err |-> FALSE, lvl |-> 0, bar |-> FALSE, rev |-> FALSE, exec |-> exec,
   st |-> u, ed |-> 0, ix |-> 0]

\* cmdline_parse from token i on: the command and the token it stopped at, 0
\* when the tokens ended.  lvl, err, vars and arys belong to the whole line and
\* are handed on.
RECURSIVE ParseFrom(_, _, _), AfterChild(_, _, _)
ParseFrom(ts, c, i) ==
  IF i > Len(ts) THEN <<c, 0>>
  ELSE LET tok == ts[i] IN
  CASE tok.q -> ParseFrom(ts, Pop(Push(c, tok)), i + 1)
    [] ~tok.q /\ tok.w = "(" ->
         AfterChild(ts, c, ParseFrom(ts, [NewCmd(tok.u, c.exec) EXCEPT
                                            !.lvl = c.lvl + 1, !.err = c.err,
                                            !.vars = c.vars, !.arys = c.arys], i + 1))
    [] ~tok.q /\ tok.w = ")" ->
         IF c.lvl < 1 THEN ParseFrom(ts, c, i + 1)
         ELSE <<[c EXCEPT !.lvl = @ - 1, !.ed = tok.u], i>>
    [] ~tok.q /\ tok.w = "[" -> ParseFrom(ts, Push(c, Lst(tok.u)), i + 1)
    [] ~tok.q /\ tok.w = "]" ->
         IF ~(IsList(Last(c.stk)) /\ Len(c.stk) > 1)
         THEN ParseFrom(ts, [c EXCEPT !.err = TRUE], i + 1)
         ELSE LET closed == [c EXCEPT !.stk[Len(c.stk)].e = tok.u]
                  seen == IF Glued(ts, i) /\ ts[i+1].w = "["
                          THEN [closed EXCEPT !.arys =
                                  Append(@, Len(c.stk[1].items))]
                          ELSE closed
              IN  ParseFrom(ts, Pop(seen), i + 1)
    [] ~tok.q /\ tok.w = "|" /\ c.lvl < 1 ->
         <<[c EXCEPT !.bar = TRUE, !.ed = tok.u], i>>
    [] ~tok.q /\ (tok.w \in {".", ":", ","} \/ (tok.w = "|" /\ c.lvl > 0)) ->
         ParseFrom(ts, c, i + 1)
    [] OTHER ->
         LET isv == tok.w \in {"%", "$"}
             j == IF isv THEN VarAt(ts, i) ELSE i
             rev == j = 2 /\ Glued(ts, 1)
             d == IF isv \/ tok.w = "!" THEN [c EXCEPT !.rev = IF j = 2 THEN rev ELSE @]
                  ELSE c
         IN  IF (isv \/ tok.w = "!") /\ rev THEN ParseFrom(ts, d, j + 1)
             ELSE ParseFrom(ts, Word(d, ts, j, IF j # i THEN tok.w ELSE ""), j + 1)

\* The parent takes the child, with the number of arguments before it, and goes
\* on behind its parenthesis.
AfterChild(ts, c, res) ==
  LET ch == res[1]
      up == [c EXCEPT !.lvl = ch.lvl, !.err = ch.err, !.vars = ch.vars, !.arys = ch.arys,
                      !.chlds = Append(@, [ch EXCEPT !.ix = c.idx])]
  IN  IF res[2] = 0 THEN <<up, 0>> ELSE ParseFrom(ts, up, res[2] + 1)

\* What the rest of the program sees of a parsed command.
Args(c) == c.stk[1].items

\* res is the last command and the bar it ended at.
RECURSIVE Cmds(_, _, _, _)
Cmds(ts, exec, acc, res) ==
  IF res[2] = 0 THEN Append(acc, res[1])
  ELSE Cmds(ts, exec, Append(acc, res[1]),
            ParseFrom(ts, [NewCmd(ts[res[2]].u, exec) EXCEPT
                             !.lvl = res[1].lvl, !.err = res[1].err,
                             !.vars = res[1].vars, !.arys = res[1].arys], res[2] + 1))

Parsed(cs, l) ==
  [cmds |-> cs, lvl |-> Last(cs).lvl, err |-> Last(cs).err, vars |-> Last(cs).vars,
   arys |-> Last(cs).arys, cont |-> Continues(l)]

\* cmdline_build.  A line that starts with "!" is for the shell, except in a
\* condition.
Built(ts, exec, l) == Parsed(Cmds(ts, exec, <<>>, ParseFrom(ts, NewCmd(1, exec), 1)), l)
ForShell(ts, condition) == ts # <<>> /\ ts[1].w = "!" /\ ~condition
Parse(l, condition) ==
  LET ts == Tokens(l) IN Built(ts, ForShell(ts, condition), l)

----------------------------------------------------------------------------
\* All the words of an argument, of the sub-commands included.
RECURSIVE WordsOf(_)
WordsOf(x) ==
  CASE IsStr(x)  -> {x.u}
    [] IsList(x) -> UNION {WordsOf(x.items[i]) : i \in DOMAIN x.items}
    [] IsPair(x) -> WordsOf(x.key) \cup WordsOf(x.value)

RECURSIVE WordsIn(_)
WordsIn(c) == WordsOf(c.stk[1]) \cup UNION {WordsIn(c.chlds[i]) : i \in DOMAIN c.chlds}

\* The words of the line that reach the command, as argument or as variable.
Reached(P) ==
  UNION {WordsIn(P.cmds[i]) : i \in DOMAIN P.cmds}
    \cup UNION {WordsOf(P.vars[i]) : i \in DOMAIN P.vars}
=============================================================================
