-------------------------------- MODULE Cmd --------------------------------
(***************************************************************************)
(* The command language: src/nav/cmd.c, with what it calls of option.c,    *)
(* config.c and cmdline.c.                                                 *)
(*                                                                         *)
(* Lines come from a file (config_read) or from the command line.  Outside *)
(* of a block a line runs at once.  Inside an `if' lines are pushed on a   *)
(* tape until the block of the first level is closed, when the tape is     *)
(* walked; inside a function definition they are kept as its body.  All of *)
(* it is one synchronous evaluation that calls itself, so a state between  *)
(* two lines is the record nvs, and a line is a step.                      *)
(***************************************************************************)
EXTENDS CmdLine, TLC

CONSTANTS
  Acts,        \* the words that are commands with an effect and no answer
  Yield,       \* a command that answers its first argument, as a string
  Shadowed,    \* other words that begin with the name of a built-in
  Alphabet,    \* the words, in the order of strcmp
  Numbers,     \* the words that are numbers, with their value
  Files,       \* the lines of each file there is to read
  Modules,     \* the names of modules
  MaxDeep,     \* calls of cmd_call and cmd_start within each other
  MaxTape      \* lines on the tape

Builtins == {"if", "else", "elseif", "end", "function"}
Blocks == Builtins \cup {"return"}
NoText == <<>>
Unset == [set |-> FALSE, text |-> NoText]
Answer(l) == [set |-> TRUE, text |-> l]
NoFn == [name |-> "", argv |-> <<>>, lines |-> <<>>]

\* Frames of cmd_call are counted from 1; "scope" is the one static frame that
\* a module is loaded with.
Frame(n) == ToString(n)

\* cmd_reset, of a state s: all but the call stack, root.st, the definitions and
\* what was done.  A definition that is open keeps the flag unless an error ended
\* the block, but its memory is gone.
Reset(s) ==
  LET keep == s.opendef /\ ~s.error IN
  [s EXCEPT !.opendef = keep, !.fndead = keep, !.fn = IF keep THEN @ ELSE NoFn,
            !.error = FALSE, !.lncont = FALSE, !.lvlcont = FALSE,
            !.lvl = 0, !.tape = <<>>, !.ends = [i \in 1..MaxTape |-> 0],
            !.cur = 0, !.pend = NoText, !.gen = @ + 1]

Start(fns) ==
  [lvl |-> 0, opendef |-> FALSE, fndead |-> FALSE, fn |-> NoFn, error |-> FALSE,
   lncont |-> FALSE, lvlcont |-> FALSE, pend |-> NoText, condition |-> FALSE,
   tape |-> <<>>, ends |-> [i \in 1..MaxTape |-> 0], rootst |-> 1, cur |-> 0,
   top |-> "none", fr |-> <<>>, scope |-> [par |-> "none", mod |-> "gbl"],
   mods |-> {}, fns |-> fns, vars |-> {}, ret |-> Unset, out |-> <<>>,
   gen |-> 0, deep |-> 0, fault |-> "none"]

Broken(s) == s.fault # "none"
Fault(s, f) == IF Broken(s) THEN s ELSE [s EXCEPT !.fault = f]

Seeking(s) == s.lvl > 0 /\ ~s.opendef
Parsing(s) == s.opendef \/ Seeking(s)

\* cmd_flush
Flush(s) == Reset([s EXCEPT !.error = s.lvl > 0 \/ s.lvlcont])

----------------------------------------------------------------------------
(* The tape.  Node 0 is the root; children are in the order of the tape.   *)

Kids(s, p) == {i \in DOMAIN s.tape : s.tape[i].parent = p}
FirstOf(S) == IF S = {} THEN 0 ELSE CHOOSE i \in S : \A j \in S : i <= j
\* mutant: the line after an if is taken for the first of its block.
NextLine(s, p) == IF p < Len(s.tape) THEN p + 1 ELSE 0

FirstKid(s, p) == FirstOf(Kids(s, p))
EndOf(s, p) == IF p = 0 THEN 0 ELSE s.ends[p]
NextOf(s, n) ==
  LET later == FirstOf({i \in Kids(s, s.tape[n].parent) : i > n})
  IN  IF later # 0 THEN later ELSE EndOf(s, s.tape[n].parent)
ParentOf(s, p) == IF p = 0 THEN 0 ELSE s.tape[p].parent
StOf(s, p) == IF p = 0 THEN s.rootst ELSE s.tape[p].st
SetSt(s, p, st) == IF p = 0 THEN [s EXCEPT !.rootst = st] ELSE [s EXCEPT !.tape[p].st = st]

StackPush(s, type, l) ==
  [s EXCEPT !.tape = Append(@, [type |-> type, line |-> l, parent |-> s.cur, st |-> 1])]

----------------------------------------------------------------------------
(* The call stack and the tables of definitions.                           *)

Live(s, f) == f \in {"none", "scope"} \/ f \in {Frame(n) : n \in DOMAIN s.fr}
FrameNo(s, f) == CHOOSE n \in DOMAIN s.fr : Frame(n) = f
ParOf(s, f) == IF f = "scope" THEN s.scope.par ELSE s.fr[FrameNo(s, f)].par

\* Whose definitions cmd_callstack() names.
Block(s) == CASE s.top = "none" -> "gbl"
              [] s.top = "scope" -> s.scope.mod
              [] OTHER -> s.top

PushScope(s, mod) ==
  [s EXCEPT !.scope = [par |-> IF s.top = "none" THEN "scope" ELSE s.top, mod |-> mod],
            !.top = "scope"]

\* mutant: the frame is linked, but the call stack does not point to it.
Unlinked(s) ==
  [s EXCEPT !.fr = Append(@, [par |-> s.top, brk |-> FALSE, ret |-> Unset])]

PushFrame(s) ==
  LET f == Frame(Len(s.fr) + 1) IN
  [s EXCEPT !.fr = Append(@, [par |-> IF s.top = "none" THEN f ELSE s.top,
                              brk |-> FALSE, ret |-> Unset]),
            !.top = f]

Cleared(s, own) == [s EXCEPT !.fns = {d \in @ : d.own # own},
                             !.vars = {d \in @ : d.own # own}]

PopStack(s) ==
  IF s.top = "none" THEN s
  ELSE IF ~Live(s, s.top) THEN Fault(s, "dead frame")
  ELSE LET par == ParOf(s, s.top)
           t == IF s.top = "scope" THEN s ELSE Cleared(s, s.top)
       IN  [t EXCEPT !.top = IF par = s.top THEN "none" ELSE par]

Load(s, mod) == IF mod \in s.mods THEN PushScope(s, mod) ELSE s

\* opt_func looks in one block only; set_func never replaces, but the newest is
\* the one that is found.
HasFn(s, name) == \E d \in s.fns : d.own = Block(s) /\ d.fn.name = name
FnOf(s, name) == (CHOOSE d \in s.fns : d.own = Block(s) /\ d.fn.name = name).fn
SetFn(s, fn) ==
  [s EXCEPT !.fns = {d \in @ : ~(d.own = Block(s) /\ d.fn.name = fn.name)}
                      \cup {[own |-> Block(s), fn |-> fn]}]

SetVar(s, key, val) ==
  [s EXCEPT !.vars = {d \in @ : ~(d.own = Block(s) /\ d.key = key)}
                       \cup {[own |-> Block(s), key |-> key, val |-> val]}]

\* opt_var: in the block, or the module of a scope, then among the global ones.
VarIn(s, own, key) == {d \in s.vars : d.own = own /\ d.key = key}
Value(S) == (CHOOSE d \in S : TRUE).val
OptVar(s, tok) ==
  LET pair == IsPair(tok)
      scope == pair /\ tok.scope
      name == IF scope THEN tok.value ELSE IF pair THEN tok.key ELSE tok
      blk == IF scope /\ IsStr(tok.key) /\ tok.key.w \in s.mods THEN tok.key.w ELSE Block(s)
      near == VarIn(s, blk, name.w)
  IN  IF near # {} /\ (blk # "gbl" \/ ~pair) THEN Value(near)
      ELSE IF ~pair /\ VarIn(s, "gbl", name.w) # {} THEN Value(VarIn(s, "gbl", name.w))
      ELSE <<Empty>>

----------------------------------------------------------------------------
(* Conditions: cond_do's walk over the arguments of what the line came to. *)

Ops == {"!", "=", "<", ">"}
IsNum(x) == IsStr(x) /\ x.w \in DOMAIN Numbers
Rank(w) == CHOOSE i \in DOMAIN Alphabet : Alphabet[i] = w
IsOp(x) == IsStr(x) /\ ~x.q /\ x.w \in Ops /\ x.u > 1

\* The comparisons look at two characters of an operator, which is one token of
\* one character: only "<" and ">" ever compare.
Compare(op, a, b, cond) ==
  LET l == IF IsNum(a) THEN Numbers[a.w] ELSE Rank(a.w)
      r == IF IsNum(a) THEN Numbers[b.w] ELSE Rank(b.w)
  IN  CASE op = "<" -> l < r
        [] op = ">" -> l > r
        [] OTHER -> cond

RECURSIVE CondFrom(_, _, _)
CondFrom(xs, i, cond) ==
  LET str(j) == j \in DOMAIN xs /\ IsStr(xs[j])
      num(j) == str(j) /\ IsNum(xs[j])
      true(j) == IF num(j) THEN Numbers[xs[j].w] # 0 ELSE TRUE
  IN  IF i > Len(xs) THEN [err |-> FALSE, val |-> cond]
      ELSE IF ~IsOp(xs[i])
      THEN CondFrom(xs, i + 1, str(i) /\ true(i))
      ELSE IF xs[i].w = "!" /\ str(i + 1)
      THEN CondFrom(xs, i + 2, num(i + 1) /\ ~true(i + 1))
      ELSE IF xs[i].w # "!" /\ str(i - 1) /\ str(i + 1) /\ (num(i - 1) <=> num(i + 1))
      THEN [err |-> FALSE, val |-> Compare(xs[i].w, xs[i-1], xs[i+1], cond)]
      ELSE [err |-> TRUE, val |-> cond]

----------------------------------------------------------------------------
(* Evaluation.                                                             *)

FirstWord(l) == LET ts == Tokens(l) IN IF ts = <<>> THEN "" ELSE ts[1].w

\* ctl_cmd compares as many characters as the name of the built-in has.
Control(l) == FirstWord(l) \in Builtins \cup Shadowed

\* cmdline_line_after(0), and cmdline_line_from(i).
After(l) == LET ts == Tokens(l) IN
            IF ts = <<>> THEN NoText ELSE SubSeq(l, ts[1].u + 1, Len(l))
From(l, args, i) == IF i \in DOMAIN args THEN SubSeq(l, args[i].u, Len(l)) ELSE NoText
WordAt(args, i) == IF i \in DOMAIN args /\ IsStr(args[i]) THEN args[i].w ELSE ""

ReadLine(s, l) == IF s.fndead THEN Fault(s, "freed definition")
                  ELSE [s EXCEPT !.fn.lines = Append(@, l)]

RECURSIVE Eval(_, _), Do(_, _), Run(_, _, _, _), Parts(_, _, _, _),
          Subs(_, _, _, _, _), Call(_, _, _), Lines(_, _, _), Walk(_, _, _)

\* cmd_eval: the answer of the line, if it has one, is left in ret.
Eval(s, l) ==
  IF Broken(s) \/ s.error THEN s
  ELSE IF ~Parsing(s) \/ Control(l) THEN Do(s, l)
  ELSE IF s.opendef THEN ReadLine(s, l)
  ELSE StackPush(s, "nop", l)

\* cmd_eval(NULL, line): nobody waits for the answer.
EvalNull(s, l) == [Eval(s, l) EXCEPT !.ret = s.ret]

\* cmd_do: a line that ends inside of a parenthesis or with a backslash waits
\* for the next one, which is put behind it, unit by unit: words that meet at the
\* join stay two.
Joined(s, l) == IF s.lncont THEN s.pend \o l ELSE l
Done(s, P, l) ==
  LET wait == P.lvl > 0 \/ P.cont
      t == [s EXCEPT !.lncont = wait, !.lvlcont = P.lvl > 0]
  IN  IF wait THEN [t EXCEPT !.pend = SelectSeq(l, LAMBDA u : u # Backslash)]
      ELSE IF P.err THEN t
      ELSE IF Len(P.cmds) = 1 THEN Run(t, P.cmds[1], P, l)
      ELSE Parts(t, P.cmds, l, 1)
Do(s, line) ==
  IF Broken(s) THEN s
  ELSE Done(s, Parse(Joined(s, line), s.condition), Joined(s, line))

\* cmdline_req_run: the parts between the bars, one after the other.
Parts(s, cmds, l, k) ==
  IF k > Len(cmds) THEN s
  ELSE LET from == IF k = 1 THEN 1 ELSE cmds[k].st + 1
           to == IF cmds[k].bar THEN cmds[k].ed - 1 ELSE Len(l)
       IN  Parts(EvalNull(s, SubSeq(l, from, to)), cmds, l, k + 1)

\* cmd_sub: every child of m.c is evaluated, handed to the function before it,
\* and its place in the line m.l is taken by the answer.  Then the line is done
\* again.  base is the line up to the child before, prev where the rest begins.
HasAnswer(s) == IF s.ret.set THEN s ELSE [s EXCEPT !.ret = Answer(<<Empty>>)]
Handed(s, name) ==
  IF name # "" /\ HasFn(s, name) THEN HasAnswer(Call(s, FnOf(s, name), s.ret.text)) ELSE s
PopIf(scope, s) == IF scope THEN PopStack(s) ELSE s

Taken(s, ret, m, k, base) ==
  Subs([s EXCEPT !.ret = ret], m, k + 1, base \o s.ret.text, m.c.chlds[k].ed + 1)

SubDone(s, done, m, k, head) ==
  LET ch == m.c.chlds[k]
      arg == IF ch.ix \in DOMAIN m.args THEN m.args[ch.ix] ELSE Lst(0)
      pair == IsPair(arg) /\ IsStr(arg.key) /\ IsStr(arg.value)
      name == IF pair THEN arg.value.w ELSE IF IsStr(arg) THEN arg.w ELSE ""
      cut == (IF name # "" /\ arg.e = ch.st - 1 THEN 1 ELSE 0) + (IF pair THEN 3 ELSE 0)
  IN  IF ~done.ret.set \/ Broken(done) THEN Taken(done, s.ret, m, k, head)
      ELSE Taken(PopIf(pair, Handed(IF pair THEN Load(done, arg.key.w) ELSE done, name)),
                 s.ret, m, k, SubSeq(head, 1, Len(head) - cut))

Subs(s, m, k, base, prev) ==
  LET ch == m.c.chlds[k] IN
  IF Broken(s) THEN s
  ELSE IF k > Len(m.c.chlds) THEN Do(s, base \o SubSeq(m.l, prev, Len(m.l)))
  ELSE SubDone(s, Do([s EXCEPT !.ret = Unset], SubSeq(m.l, ch.st + 1, ch.ed - 1)),
               m, k, base \o SubSeq(m.l, prev, ch.st - 1))

\* cmd_vars: the variables of the line replaced, from the left.
Replaced(s, l, vars) ==
  LET first == [i \in DOMAIN vars |-> IF IsPair(vars[i]) THEN vars[i].u - 1
                                      ELSE vars[i].u - 1]
      piece(i) == SubSeq(l, IF i = 1 THEN 1 ELSE vars[i-1].e + 1, first[i] - 1)
                    \o OptVar(s, vars[i])
  IN  FlattenSeq([i \in DOMAIN vars |-> piece(i)]) \o SubSeq(l, Last(vars).e + 1, Len(l))

\* cmd_call.  A wrong number of arguments is told and no more.
Returned(s, t, counted) ==
  LET ans == IF counted /\ t.top \notin {"none", "scope"} /\ Live(t, t.top)
             THEN t.fr[FrameNo(t, t.top)].ret ELSE Unset
      gone == PopStack([t EXCEPT !.ret = ans, !.deep = s.deep])
  IN  [gone EXCEPT !.fr = SubSeq(@, 1, Len(s.fr))]

Called(s, fn, args) ==
  LET counted == Len(args) = Len(fn.argv)
      f == PushFrame([s EXCEPT !.ret = Unset, !.deep = @ + 1])
      set == FoldLeft(LAMBDA t, i : IF IsStr(args[i])
                                    THEN SetVar(t, fn.argv[i], <<args[i].w>>) ELSE t,
                      f, [i \in DOMAIN args |-> i])
  IN  Returned(s, IF counted THEN Lines(set, fn.lines, 1) ELSE f, counted)

Call(s, fn, argline) ==
  IF s.deep >= MaxDeep THEN Fault(s, "recursion")
  ELSE Called(s, fn, Args(Parse(argline, s.condition).cmds[1]))

\* The body, until a return.  brk is read where the call stack points.
AfterLine(t, ls, i) ==
  CASE Broken(t) -> t
    [] ~Broken(t) /\ t.top = "none" -> Fault(t, "no frame")
    [] ~Broken(t) /\ t.top # "none" /\ ~Live(t, t.top) -> Fault(t, "dead frame")
    [] OTHER -> IF t.top # "scope" /\ t.fr[FrameNo(t, t.top)].brk THEN t
                ELSE Lines(t, ls, i + 1)
Lines(s, ls, i) ==
  IF i > Len(ls) \/ Broken(s) THEN s ELSE AfterLine(EvalNull(s, ls[i]), ls, i)

\* cond_do.  The answer is read even if the line gave none.
Verdict(s, t, res) ==
  [s |-> [t EXCEPT !.ret = s.ret, !.condition = FALSE, !.error = @ \/ res.err],
   val |-> res.val]
Judged(s, t) ==
  IF Broken(t) THEN [s |-> t, val |-> FALSE]
  ELSE IF ~t.ret.set THEN [s |-> Fault(t, "unset answer"), val |-> FALSE]
  ELSE Verdict(s, t, CondFrom(Args(Parse(t.ret.text, TRUE).cmds[1]), 1, FALSE))
CondDo(s, l) == Judged(s, Eval([s EXCEPT !.ret = Unset, !.condition = TRUE], l))

\* cmd_start: the walk, from the first line below the root.  g is the tape it
\* began on; after a line it goes inside or on.
WalkOn(s, n, g, inside) ==
  IF Broken(s) THEN s
  ELSE IF s.gen # g THEN Fault(s, "freed tape")
  ELSE Walk(s, IF inside THEN FirstKid(s, n) ELSE NextOf(s, n), g)
AfterCond(c, n, g) == IF c.s.error THEN c.s ELSE WalkOn(c.s, n, g, c.val)

Walk(s, n, g) ==
  IF Broken(s) \/ n = 0 THEN s
  ELSE IF n \notin DOMAIN s.tape THEN Fault(s, "past the tape")
  ELSE LET node == s.tape[n] IN
  CASE node.type \in {"if", "elseif"} -> AfterCond(CondDo(s, node.line), n, g)
    [] node.type = "else" -> Walk(s, FirstKid(s, n), g)
    [] node.type = "end" -> IF node.parent = 0 THEN s ELSE Walk(s, n + 1, g)
    [] OTHER -> WalkOn([Do(s, node.line) EXCEPT !.ret = s.ret], n, g, FALSE)

----------------------------------------------------------------------------
(* The built-in commands.                                                  *)

CmdIf(s, l) ==
  LET up == [s EXCEPT !.lvl = @ + 1]
      flushed == IF Seeking(up) THEN up ELSE Flush(up)
      node == StackPush(flushed, "if", After(l))
      n == Len(node.tape)
  IN  IF s.opendef THEN ReadLine(up, l)
      ELSE [node EXCEPT !.cur = n, !.tape[n].st = n]

CmdElse(s, type, l) ==
  LET st == StOf(s, s.cur)
      up == SetSt([s EXCEPT !.cur = ParentOf(s, s.cur)], ParentOf(s, s.cur), st)
      node == StackPush(up, type, After(l))
  IN  IF s.opendef THEN ReadLine(s, l) ELSE [node EXCEPT !.cur = Len(node.tape)]

CmdEnd(s, l) ==
  LET down == [s EXCEPT !.lvl = @ - 1]
      up == [down EXCEPT !.cur = ParentOf(s, s.cur)]
      node == StackPush(up, "end", NoText)
      n == Len(node.tape)
      st == StOf(node, node.cur)
      closed == IF st \in DOMAIN node.ends THEN [node EXCEPT !.ends[st] = n] ELSE node
      walked == IF s.deep >= MaxDeep THEN Fault(s, "recursion")
                ELSE Walk([closed EXCEPT !.deep = @ + 1], FirstKid(closed, 0), closed.gen)
  IN  IF s.opendef /\ down.lvl = 0
      THEN IF s.fndead THEN Fault(s, "freed definition")
           ELSE Flush([SetFn(down, s.fn) EXCEPT !.opendef = FALSE])
      ELSE IF s.opendef THEN ReadLine(down, l)
      ELSE IF Seeking(closed) THEN closed
      ELSE [walked EXCEPT !.lvl = 0, !.deep = s.deep]

\* cmd_funcblock; without the "!" it only prints the body.
CmdFunc(s, c, l) ==
  LET args == Args(c)
      name == WordAt(args, 2)
      params == IF c.chlds = <<>> THEN <<>>
                ELSE [i \in DOMAIN Args(c.chlds[1]) |-> WordAt(Args(c.chlds[1]), i)]
  IN  IF name = "" \/ Parsing(s) THEN [s EXCEPT !.error = TRUE]
      ELSE IF c.rev
      THEN [s EXCEPT !.lvl = @ + 1, !.opendef = TRUE, !.fndead = FALSE,
                     !.fn = [name |-> name, argv |-> params, lines |-> <<>>]]
      ELSE s

\* cmd_returnblock: the answer goes to where the call stack points after the
\* line has run.
Kept(s, t) ==
  LET later == [t EXCEPT !.ret = s.ret]
  IN  IF Broken(t) THEN t
      ELSE IF ~t.ret.set THEN Fault(t, "unset answer")
      ELSE IF t.top = "none" THEN Fault(t, "no frame")
      ELSE IF t.top = "scope" \/ ~Live(t, t.top) THEN later
      ELSE [later EXCEPT !.fr[FrameNo(t, t.top)].ret = t.ret]
CmdReturn(s, c, l) ==
  LET brk == IF s.top = "scope" THEN s ELSE [s EXCEPT !.fr[FrameNo(s, s.top)].brk = TRUE]
  IN  IF s.top = "none" THEN [s EXCEPT !.error = TRUE]
      ELSE IF ~Live(s, s.top) THEN Fault(s, "dead frame")
      ELSE IF Len(Args(c)) < 2 THEN brk
      ELSE Kept(s, Eval([brk EXCEPT !.ret = Unset], From(l, Args(c), 2)))

\* conf_variable: let x = text, or let m::x = text.
CmdLet(s, c, l) ==
  LET args == Args(c)
      eq == FirstOf({i \in DOMAIN args : WordAt(args, i) = "="})
      lhs == args[2]
      scope == IsPair(lhs) /\ lhs.scope
      key == IF scope THEN lhs.value.w ELSE WordAt(args, 2)
      in == IF scope THEN Load(s, lhs.key.w) ELSE s
      set == SetVar(in, key, From(l, args, eq + 1))
  IN  IF eq # 3 \/ eq + 1 \notin DOMAIN args \/ key = "" THEN s
      ELSE IF scope THEN PopStack(set) ELSE set

\* config_load: the lines of a file, each with cmd_eval, then a flush, and one
\* more when the file is popped.
ReadFile(s, file) ==
  Flush(Flush(FoldLeft(LAMBDA t, l : EvalNull(t, l), s, Files[file])))

\* conf_source: source file, or plugin file module.
CmdSource(s, c) ==
  LET file == WordAt(Args(c), 2)
      mod == WordAt(Args(c), 3)
      plugin == WordAt(Args(c), 1) = "plugin"
  IN  IF file \notin DOMAIN Files \/ (plugin /\ mod \notin Modules) THEN s
      ELSE PopIf(plugin, ReadFile(IF plugin THEN Load(Cleared([s EXCEPT !.mods = @ \cup {mod}], mod), mod)
                                  ELSE s, file))

\* cmd_run.  Sub-commands and variables are replaced first, except for the
\* built-ins; what is no command is its own answer.
Run(s, c, P, l) ==
  LET args == Args(c)
      word == WordAt(args, 1)
      late == word \notin Builtins
  IN  CASE late /\ c.chlds # <<>> ->
             Subs([s EXCEPT !.condition = FALSE], [c |-> c, l |-> l, args |-> args], 1, NoText, 1)
        [] late /\ c.chlds = <<>> /\ P.vars # <<>> -> Do(s, Replaced(s, l, P.vars))
        [] ~(late /\ (c.chlds # <<>> \/ P.vars # <<>>)) ->
             CASE c.exec /\ word # "" ->
                    [s EXCEPT !.out = Append(@, l), !.ret = Answer(<<"1">>)]
               [] ~(c.exec /\ word # "") ->
                    CASE word = "if" -> CmdIf(s, l)
                      [] word \in {"else", "elseif"} -> CmdElse(s, word, l)
                      [] word = "end" -> CmdEnd(s, l)
                      [] word = "function" -> CmdFunc(s, c, l)
                      [] word = "return" -> CmdReturn(s, c, l)
                      [] word = "let" -> CmdLet(s, c, l)
                      [] word \in {"source", "plugin"} -> CmdSource(s, c)
                      [] word = Yield -> [s EXCEPT !.ret = Answer(<<WordAt(args, 2)>>)]
                      [] word \in Acts -> [s EXCEPT !.out = Append(@, l)]
                      [] OTHER -> [s EXCEPT !.ret = Answer(l)]
=============================================================================
