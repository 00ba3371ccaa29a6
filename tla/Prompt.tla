------------------------------- MODULE Prompt -------------------------------
(***************************************************************************)
(* The command line at work: every key typed at it, the lists of files     *)
(* that arrive while it is used, and the history.                          *)
(*                                                                         *)
(* Keys are handled by ex_input (src/nav/tui/ex_cmd.c) one at a time.  A   *)
(* listing is asked for by the completion of a path and answered in two    *)
(* steps, the stat of the directory and its scan, between any two keys.    *)
(* The line is run by cmd_eval, outside this module.                       *)
(***************************************************************************)
EXTENDS ExLine

CONSTANTS
  Chars,       \* the characters typed
  Keys,        \* the other keys
  Loaded,      \* the histories config_load_info may load
  Limits,      \* the values of the option history
  HistMax,     \* its value before the configuration is read
  MaxKeys      \* keys typed in all

VARIABLES
  ex,      \* the line, the completion and the menu
  hist,    \* the history of the commands and that of the searches
  limit,   \* the option history
  typed,   \* nothing but characters was typed since the line was opened afresh
  left,    \* how the last line was left: "run", "hint", "twice", "esc"; "" is no command
  keys     \* keys typed

vars == <<ex, hist, limit, typed, left, keys>>

Modes == {"cmd", "reg"}

----------------------------------------------------------------------------
\* The history: at is the line shown, 0 when that line was freed.
HistNew(lines) == [items |-> lines, at |-> Len(lines), max |-> HistMax]

\* mutant: the newest line is dropped
DropsNewest(h, opt) ==
  IF Len(h.items) < h.max THEN h
  ELSE IF opt > Len(h.items) THEN [h EXCEPT !.max = opt]
  ELSE [h EXCEPT !.max = opt, !.items = Front(@), !.at = @ - 1]

\* hst_chk_limits, after a line was added.
Checked(h, opt) ==
  IF Len(h.items) < h.max THEN h
  ELSE IF opt > Len(h.items) THEN [h EXCEPT !.max = opt]
  ELSE [h EXCEPT !.max = opt, !.items = Tail(@), !.at = @ - 1]
HistPush(h, opt) ==
  Checked([h EXCEPT !.items = Append(@, <<>>), !.at = Len(h.items) + 1], opt)

\* hist_save: the line is dropped if it was empty or is the previous one.
HistSave(h, line, words) ==
  LET n == Len(h.items)
  IN  IF words = 0 \/ (n > 1 /\ h.items[n-1] = line)
      THEN [h EXCEPT !.items = Front(@)] ELSE [h EXCEPT !.items[n] = line]

----------------------------------------------------------------------------
\* The keys that change the line.
Cut(e, pos, ofs) == [e EXCEPT !.line = Splice(@, <<>>, pos, ofs), !.cur = pos]

\* mutant: at the place where the context began, the context is left
KilledAtStart(e) == IF e.mode = "cmd" /\ e.cur <= CurPos(e) THEN KillWord(e) ELSE e

\* Behind the place where the context began, the context is left.
Killed(e) == IF e.mode = "cmd" /\ e.cur < CurPos(e) THEN KillWord(e) ELSE e

GetChar(e, ch) == [e EXCEPT !.line = Splice(@, <<ch>>, e.cur, 0), !.cur = @ + 1]
BckSpc(e) == Killed(IF e.cur > 0 THEN Cut(e, e.cur - 1, 1) ELSE e)
KillBlanks(e) ==
  LET kept == {i \in 1..e.cur : At(e.line, i - 1) # " "}
      len == IF e.cur > 1 THEN e.cur - Max({0} \cup kept) ELSE 0
  IN  Cut(e, e.cur - len, len)
KillTheWord(e) ==
  LET at == RevPos(e.line, e.cur, TokenChars)
      pos == IF At(e.line, at) \in TokenChars /\ e.cur - at > 1 THEN at + 1 ELSE at
  IN  Cut(e, pos, e.cur - pos)
ExKillWord(e) ==
  IF e.cur < 1 THEN e
  ELSE Killed(IF CurCh(e) = " " THEN KillBlanks(e) ELSE KillTheWord(e))
KillLine(e) ==
  LET d == [e EXCEPT !.line = <<>>, !.cur = 0]
  IN  IF e.mode = "cmd" THEN MenuClear(d) ELSE d

Move(e, dir) ==
  LET d == [e EXCEPT !.cur = Min({@ + dir, Len(e.line)})]
  IN  IF d.cur < 0 THEN e ELSE IF d.cur < CurPos(e) THEN KillWord(d) ELSE d
MoveLine(e, dir) ==
  IF dir > 0 THEN MenuRebuild([e EXCEPT !.cur = Len(e.line)])
  ELSE MenuClear([e EXCEPT !.cur = 0])

\* ex_tab puts the selected word in the place of the argument.
PutWord(d) ==
  LET from == Max({CurPos(d) - 1, 0})
      st == IF At(d.line, from) = " " THEN from + 1 ELSE from
      ed == Min({i \in st..Max({st, Len(d.line)}) : At(d.line, i) \in {" ", "|", ""}})
      word == Selected(d)
  IN  IF st > Len(d.line) THEN Die(d, "cursor")
      ELSE [d EXCEPT !.line = Splice(@, word, st, ed - st), !.cur = st + Len(word)]
Tab(e, dir) == IF CanSelect(e) THEN PutWord(MenuNext(e, dir)) ELSE e

\* ex_cmdinvert puts a "!" behind the command, or takes it away.
Invert(e) ==
  LET st == RootPos(e)
      ed == 1 + Min({i \in st..Max({st, Len(e.line)}) : At(e.line, i) # " "})
      cmd == TokBtwn(e.line, st, ed)
      after == SelectSeq(Tokens(e.line), LAMBDA t : t.st >= cmd.ed)
      turned(d) == [MenuRebuild([d EXCEPT !.cur = 0]) EXCEPT !.cur = d.cur]
  IN  IF e.stk = <<>> THEN Die(e, "no root")
      ELSE IF cmd = NoTok THEN e
      ELSE IF after # <<>> /\ after[1].w = Bang
      THEN IF e.cur = 0 THEN Die(e, "cursor") ELSE turned([e EXCEPT !.line = Splice(@, <<>>, after[1].st, 1), !.cur = @ - 1])
      ELSE turned([e EXCEPT !.line = Splice(@, Bang, cmd.ed, 0), !.cur = @ + 1])

\* ex_update: a bar begins another command, a "!" in place of a command the
\* line of a shell.
ExUpdate(e, st) ==
  LET ch == CurCh(e)
      pos == CurPos(e)
      bar == st # "hist" /\ ch = "|" /\ (pos < e.cur - 1 \/ ~IsRoot(e))
  IN  IF st # "hist" /\ ch = "!" /\ IsRoot(e) /\ pos = e.cur - 1 THEN SetExec(e, e.cur)
      ELSE MenuUpdate(IF bar THEN Restart(e) ELSE e, st = "cycle" /\ ~bar)

\* ex_word: forward to the next of TOKENCHARS, the context following; backward
\* to the last one.
ToTokenChar(e) ==
  [e EXCEPT !.cur = Min({i \in e.cur..Len(e.line) : At(e.line, i) \in TokenChars \cup {""}})]
WordForward(e) ==
  LET d == [e EXCEPT !.cur = Min({@ + 1, Len(e.line)})]
  IN  ToTokenChar(IF At(d.line, d.cur) # "" THEN ExUpdate(d, "") ELSE d)
WordBack(e) ==
  LET d == [e EXCEPT !.cur = RevPos(e.line, e.cur, TokenChars)]
  IN  IF d.cur < CurPos(d) THEN Backward(d) ELSE d

Edited(e, k) ==
  CASE k = "Tab"      -> Tab(e, 1)
    [] k = "STab"     -> Tab(e, -1)
    [] k = "BS"       -> BckSpc(e)
    [] k = "Left"     -> Move(e, -1)
    [] k = "Right"    -> Move(e, 1)
    [] k = "LineEnd"  -> MoveLine(e, 1)
    [] k = "LineHome" -> MoveLine(e, -1)
    [] k = "Word"     -> WordForward(e)
    [] k = "WordBack" -> WordBack(e)
    [] k = "KillWord" -> ExKillWord(e)
    [] k = "KillLine" -> KillLine(e)
    [] k = "Invert"   -> Invert(e)
    [] k = "Hints"    -> ToggleHints(e)
    [] k = "Down"     -> MenuMv(e, 1)
    [] k = "Up"       -> MenuMv(e, -1)
    [] OTHER          -> GetChar(e, k)

\* What ex.state is after the key.
StateOf(e, k) ==
  IF k \in {"Hints", "Down", "Up"} \/ (k \in {"Tab", "STab"} /\ CanSelect(e))
  THEN "cycle" ELSE ""

\* ex_onkey: only a line of commands is completed.
OnKey(e, st) == IF e.mode = "cmd" THEN ExUpdate(e, st) ELSE e
AfterKey(e, k) == OnKey(Edited(e, k), StateOf(e, k))

----------------------------------------------------------------------------
Running == ex.fault = "" /\ keys < MaxKeys
Count == keys' = keys + 1

\* start_ex_cmd; before it win.ex is unset and keys go to the buffers.
Open(mode) ==
  /\ Running /\ ex.mode = "off" /\ Count
  /\ LET e == [ex EXCEPT !.mode = mode, !.line = <<>>, !.cur = 0]
     IN  ex' = IF mode = "cmd"
               THEN Restart([e EXCEPT !.active = TRUE, !.started = TRUE, !.lnum = 0])
               ELSE e
  /\ hist' = [hist EXCEPT ![mode] = HistPush(@, limit)]
  /\ typed' = (ex.stk = <<>>)
  /\ left' = ""
  /\ UNCHANGED limit

\* stop_ex_cmd.
Stopped(e) ==
  LET d == [e EXCEPT !.mode = "off", !.line = <<>>, !.cur = 0]
  IN  IF e.mode = "cmd"
      THEN [End(d) EXCEPT !.key = None, !.active = FALSE, !.hints = FALSE, !.moved = TRUE]
      ELSE d

\* A key that only edits: not the return key, not escape, not the history, and
\* no hint.
Type(k) ==
  /\ Running /\ ex.mode # "off" /\ Count
  /\ ex.hints => HintRow(ex, k) = 0
  /\ ex' = AfterKey(ex, k)
  /\ typed' = (typed /\ k \in Chars)
  /\ UNCHANGED <<hist, limit, left>>

\* ex_car or ex_esc, and the end of the line.  words: how many the line had
\* when it was last taken apart, which is before the key.
Leave(e, h, how) ==
  /\ ex' = IF h.items = <<>> THEN Die(Stopped(e), "history") ELSE Stopped(e)
  /\ hist' = [hist EXCEPT ![e.mode] =
                IF h.items = <<>> THEN h ELSE HistSave(h, e.line, Len(Tokens(ex.line)))]
  /\ left' = IF e.mode = "cmd" /\ Tokens(e.line) # <<>> THEN how ELSE ""
  /\ UNCHANGED <<limit, typed>>

Enter ==
  /\ Running /\ ex.mode # "off" /\ Count
  /\ ex.hints => HintRow(ex, "CR") = 0
  /\ Leave(ex, hist[ex.mode], "run")
Escape ==
  /\ Running /\ ex.mode # "off" /\ Count
  /\ Leave(ex, hist[ex.mode], "esc")

\* A hint key runs the line with the row it stands for and is then typed into
\* it; the return key runs the line a second time.
Hint(k) ==
  LET e == MenuInput(ex, HintRow(ex, k))
      h == hist[ex.mode]
      once == HistSave(h, e.line, Len(Tokens(ex.line)))
  IN  /\ Running /\ ex.mode # "off" /\ Count
      /\ ex.hints /\ HintRow(ex, k) # 0
      /\ IF h.items # <<>> /\ k = "CR" THEN Leave(e, once, "twice")
         ELSE Leave(e, h, "hint")

\* hist_prev and hist_next, which stop at the ends.
Recall(dir) ==
  LET h == hist[ex.mode]
      to == h.at + dir
  IN  /\ Running /\ ex.mode # "off" /\ Count
      /\ IF h.at = 0 THEN ex' = Die(ex, "history") /\ UNCHANGED hist
         ELSE IF to \in DOMAIN h.items
         THEN /\ ex' = OnKey(Populate(ex, h.items[to]), "hist")
              /\ hist' = [hist EXCEPT ![ex.mode].at = to]
         ELSE ex' = OnKey(ex, "") /\ UNCHANGED hist
      /\ typed' = FALSE
      /\ UNCHANGED <<limit, left>>

\* menu_ch_dir: the directory asked for was found, or is none any more.
ChDir(found) ==
  /\ ex.fault = "" /\ ex.rd # None
  /\ LET e == [ex EXCEPT !.rd = None, !.open = None]
     IN  ex' = IF ~ex.active THEN e
               ELSE IF found THEN [e EXCEPT !.key = ex.rd, !.open = ex.rd]
               ELSE [e EXCEPT !.matches = <<>>, !.inv = ex.cur]
  /\ UNCHANGED <<hist, limit, typed, left, keys>>

\* menu_fs_cb: the directory that is open was scanned; an empty one stays open.
Listing ==
  /\ ex.fault = "" /\ ex.open # None /\ ex.active
  /\ LET e == Add(ex, Names[ex.key])
     IN  ex' = IF ex.key = None THEN Die(ex, "no directory")
               ELSE IF Names[ex.key] = <<>> THEN ex
               ELSE Filter([e EXCEPT !.open = None], CurStr(e))
  /\ UNCHANGED <<hist, limit, typed, left, keys>>

\* The program ends after a line was run: the history is written from its first
\* line on.
WriteInfo ==
  /\ ex.fault = "" /\ ex.mode = "off" /\ left \in {"run", "hint", "twice"}
  /\ hist["cmd"].items = <<>>
  /\ ex' = Die(ex, "nothing to write")
  /\ UNCHANGED <<hist, limit, typed, left, keys>>

Init ==
  /\ ex = [mode |-> "off", line |-> <<>>, cur |-> 0, stk |-> <<>>, rows |-> <<>>,
           matches |-> <<>>, esc |-> {}, dirty |-> FALSE, inv |-> 0, arg |-> 0,
           top |-> 0, lnum |-> 0, moved |-> FALSE, rebuild |-> FALSE, hints |-> FALSE,
           active |-> FALSE, started |-> FALSE, key |-> None, rd |-> None,
           open |-> None, fault |-> ""]
  /\ hist \in [Modes -> {HistNew(l) : l \in Loaded}]
  /\ hist["reg"].items = <<>>
  /\ limit \in Limits
  /\ typed = FALSE
  /\ left = ""
  /\ keys = 0

Next ==
  \/ \E m \in Modes : Open(m)
  \/ \E k \in Chars \cup Keys : Type(k)
  \/ Enter
  \/ Escape
  \/ \E k \in Chars \cup {"CR"} : Hint(k)
  \/ \E dir \in {-1, 1} : Recall(dir)
  \/ \E found \in BOOLEAN : ChDir(found)
  \/ Listing
  \/ WriteInfo

Spec == Init /\ [][Next]_vars

----------------------------------------------------------------------------
\* A line rebuild_contexts and the typing take apart alike: no bar, no "!", and
\* "/" only inside an argument.  With others they do not: the context behind a
\* bar or a "!" is put one further to the right, and that of an absolute path
\* is lost.
Plain(l) ==
  /\ \A i \in DOMAIN l : l[i] \notin {"|", "!"}
  /\ \A i \in DOMAIN l : l[i] = "/" =>
       /\ At(l, i) \notin {"", " ", "/"} /\ At(l, i - 2) \notin {" ", "/"}
       /\ \E word, blank \in 1..i : word < blank /\ l[word] # " " /\ l[blank] = " "
PlainTyped == ex.mode = "cmd" /\ ex.fault = "" /\ typed /\ Plain(ex.line)

\* rebuild_contexts goes through the line "to simulate forward compl pushes":
\* what it leaves is what typing the line left, so that the completion of a line
\* from the history is the one of the same line typed.
RebuildAgrees ==
  PlainTyped =>
    LET fresh == MenuRebuild([ex EXCEPT !.cur = 0])
    IN  Contextualise([fresh EXCEPT !.cur = ex.cur]).stk = ex.stk

\* A character typed by mistake and taken back leaves the contexts of before:
\* ex_bckspc pops what compl_update, the bar or the "!" has pushed, and no more.
TakenBack ==
  PlainTyped =>
    LET back(e) == e.fault = "" => AfterKey(e, "BS").stk = ex.stk
    IN  \A ch \in Chars : back(AfterKey(ex, ch))

\* The lines of the history, without the one being typed.
Saved(m) == IF ex.mode = m THEN Front(hist[m].items) ELSE hist[m].items

\* A line of the history stays there: only hst_chk_limits drops one, the oldest, when a
\* line is opened.  Hints break it: the return key saves the line twice, the
\* second time in the place of the line before.
HistoryKept ==
  [][\A m \in Modes :
       \/ hist[m].items = <<>> \/ hist'[m].items = <<>>
       \/ IsPrefix(Saved(m), Saved(m)')
       \/ ex.mode = "off" /\ IsPrefix(Tail(Saved(m)), Saved(m)')
       \/ ex.hints /\ ex.mode = m /\ Tokens(ex.line) = <<>>]_vars

\* draw_matches reads a row of the matches for every row of the menu: no key
\* makes top too large for them.  A listing does, one that comes when the line
\* has gone on: it filters all rows anew and leaves top.
RowsDrawn == [][Drawable(ex) => Drawable(ex') \/ (Listing /\ ex.top > 0)]_vars

\* What ends in a null pointer or outside an array, and the only ways to it: the
\* keys of the menu in a search, the cursor behind a shorter line or before the
\* first column, a path of blanks that was not typed, a directory scanned when
\* the line has been begun anew, and a history emptied by hints or by the
\* option.  No word is taken for a parameter a command does not have.
FaultsAreKnown ==
  CASE ex.fault = "" -> TRUE
    [] ex.fault \in {"hint keys", "no root"} -> ex.mode = "reg"
    [] ex.fault \in {"cursor", "blank path"} -> ~typed
    [] ex.fault = "no directory" -> ex.mode = "cmd" /\ ex.key = None
    [] ex.fault \in {"history", "nothing to write"} -> limit < 2 \/ left \in {"hint", "twice"}
    [] OTHER -> FALSE
=============================================================================
