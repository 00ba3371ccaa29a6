-------------------------------- MODULE Lists --------------------------------
(***************************************************************************)
(* Tables of records (table.c), the models that keep pointers to them as   *)
(* the lines of a window (model.c, filter.c), the cursor and the selection *)
(* on these lines (tui/buffer.c, tui/select.c), and those who fill and     *)
(* empty the tables below them: scans of directories, child processes.     *)
(*                                                                         *)
(* The records are those of a directory, listed by the windows that show   *)
(* it, or those of a table, listed whole by a dt window.  Both are `keys'. *)
(* A record is its key and its name; a pointer to one that was freed is    *)
(* Freed, wherever it is kept.                                             *)
(***************************************************************************)
EXTENDS Integers, FiniteSets, Sequences, SequencesExt, TLC

CONSTANTS Windows, Dirs,
          Dt, Procs,      \* the window that lists a whole table, that table
          Names, FileSets, \* names are numbers; what a scan may find
          Sorts, Rank,    \* Rank[o][n]: what records compare by
          Patterns,       \* a pattern is the set of names that match
          Sizes,          \* lines of a window
          NULL, Freed,
          MaxCommands, MaxScans

VARIABLES tbl,      \* key -> its records, as the list of the value (rlist)
          lis,      \* key -> its listener, or NULL
          m,        \* window -> its model and cursor
          sel,      \* the selection, one for all windows
          ent,      \* directory -> its entry in fs.c
          want,     \* window -> the directory it has asked the stat of, or NULL
          quiet,    \* windows whose lines are not those of the table: freed by
                    \* a scan that did not tell them, or filtered too early
          fault,    \* "none", or what went wrong and in which window
          commands, scans

vars == <<tbl, lis, m, sel, ent, want, quiet, fault, commands, scans>>

NoValue == <<>>    \* the empty string
Keys == Dirs \cup {Procs}
NoFilter == Names
Recs == Keys \X Names

(* What a directory keeps for those who list it: where they were.          *)
LisType ==
  [rec: Recs \cup {NULL, Freed}, top: Int, lnum: Int, fval: Recs \cup {NoValue, Freed}]

(* Finitely many windows, each of them with a line to show at least; ranks *)
(* compare; NULL and Freed are nothing else.                               *)
ASSUME ListsAssumption ==
  /\ IsFiniteSet(Windows) /\ Procs \notin Dirs
  /\ FileSets \subseteq Seq(Names) /\ Patterns \subseteq SUBSET Names
  /\ Sorts # {} /\ \A o \in Sorts, n \in Names : Rank[o][n] \in Int
  /\ Sizes # {} /\ Sizes \subseteq Nat \ {0}
  /\ NULL # Freed /\ {NULL, Freed} \cap (Keys \cup Recs \cup {NoValue}) = {} /\ NULL \notin LisType
  /\ MaxCommands \in Nat /\ MaxScans \in Nat

Minimum(a, b) == IF a < b THEN a ELSE b
Maximum(a, b) == IF a > b THEN a ELSE b

Model(key) ==
  [key |-> key, blocking |-> TRUE, cur |-> NULL, head |-> NULL, lis |-> NULL,
   pfval |-> NULL, ptop |-> 0, plnum |-> 0, lines |-> <<>>,
   sort |-> [o |-> CHOOSE o \in Sorts : TRUE, rev |-> FALSE],
   filter |-> NoFilter, top |-> 0, lnum |-> 0, size |-> CHOOSE s \in Sizes : TRUE]

Selection == [owner |-> NULL, enabled |-> FALSE, active |-> FALSE, aditv |-> FALSE,
              head |-> 0, top |-> 0, lnum |-> 0, lines |-> <<>>]

NewLis(key) ==
  [rec |-> IF tbl[key] = <<>> THEN NULL ELSE Head(tbl[key]), top |-> 0, lnum |-> 0, fval |-> NoValue]
Entry == [state |-> "idle", reopen |-> FALSE, cancel |-> FALSE, cached |-> FALSE, files |-> <<>>]

(* Windows start blocking on directories that are not listed yet.  One     *)
(* that lists a table shares nothing with the others but the selection.    *)
Start == {d \in [Windows -> Keys \cup {NULL}] :
            \/ \A w \in Windows : IF w = Dt THEN d[w] = NULL ELSE d[w] \in Dirs
            \/ \A w \in Windows : IF w = Dt THEN d[w] = Procs ELSE d[w] = NULL}

Init ==
  /\ tbl = [k \in Keys |-> <<>>]
  /\ \E d \in Start :
       /\ m = [w \in Windows |-> Model(d[w])]
       /\ lis = [k \in Keys |-> IF \E w \in Windows : d[w] = k THEN NewLis(k) ELSE NULL]
       /\ ent = [k \in Dirs |-> IF \E w \in Windows : d[w] = k
                                THEN [Entry EXCEPT !.state = "stat"] ELSE Entry]
  /\ sel = Selection
  /\ want = [w \in Windows |-> NULL]
  /\ quiet = {} /\ fault = <<"none", NULL>>
  /\ commands = 0 /\ scans = 0

(* The functions below change models, listeners and the selection one      *)
(* after the other; they work on a record of the three and the fault.      *)
S == [m |-> m, lis |-> lis, sel |-> sel, fault |-> fault]
Become(s) == m' = s.m /\ lis' = s.lis /\ sel' = s.sel /\ fault' = s.fault
Fault(s, what, w) == IF s.fault[1] = "none" THEN [s EXCEPT !.fault = <<what, w>>] ELSE s
Deref(s, recs, w) == IF Freed \in recs THEN Fault(s, "freed", w) ELSE s

Count(s, w) == Len(s.m[w].lines)
Index(s, w) == s.m[w].top + s.m[w].lnum
Line(s, w, i) == IF i \in 0..(Count(s, w) - 1) THEN s.m[w].lines[i + 1] ELSE NULL

-----------------------------------------------------------------------------
(* The selection: a range of lines from the origin to the cursor is added  *)
(* to it or taken from it.  Its array is as long as the window had lines   *)
(* when the first of them was selected.                                    *)
SelectClear(s, w) ==
  IF s.sel.owner # w THEN s
  ELSE [s EXCEPT !.sel.lines = <<>>, !.sel.enabled = FALSE, !.sel.active = FALSE]

Range0(a, b) == Minimum(a, b)..Maximum(a, b)
Origin(s) == s.sel.top + s.sel.lnum

SelectEnter(s, w, idx) ==
  LET was == Range0(s.sel.head, Origin(s))
      now == Range0(idx, Origin(s))
      set == [i \in DOMAIN s.sel.lines |->
                IF i - 1 \in now THEN s.sel.aditv
                ELSE IF i - 1 \in was THEN ~s.sel.aditv ELSE s.sel.lines[i]]
  IN  IF ~(s.sel.enabled /\ s.sel.active /\ s.sel.owner = w) THEN s
      ELSE IF \E i \in now \cup was : i + 1 \notin DOMAIN s.sel.lines THEN Fault(s, "bounds", w)
      ELSE [s EXCEPT !.sel.lines = set, !.sel.head = idx]

SelectToggle(s, w) ==
  LET other == s.sel.active /\ s.sel.owner # w
      s1 == IF other THEN SelectClear(s, s.sel.owner) ELSE s
      lines == IF s1.sel.active THEN s1.sel.lines ELSE [i \in 1..Count(s, w) |-> FALSE]
      idx == Index(s, w)
  IN  IF Count(s, w) < 1 THEN s
      ELSE IF other /\ s.m[s.sel.owner].key = NULL THEN Fault(s, "owner", w)
      ELSE IF s1.sel.enabled THEN [s1 EXCEPT !.sel.owner = w, !.sel.enabled = FALSE]
      ELSE IF idx + 1 \notin DOMAIN lines THEN Fault(s, "bounds", w)
      ELSE [s1 EXCEPT !.sel = [owner |-> w, enabled |-> TRUE, active |-> TRUE,
                               aditv |-> ~lines[idx + 1], head |-> idx,
                               top |-> s.m[w].top, lnum |-> s.m[w].lnum,
                               lines |-> [lines EXCEPT ![idx + 1] = TRUE]]]

SelectAltOrigin(s, w) ==
  IF s.sel.owner # w \/ ~s.sel.active THEN s
  ELSE [s EXCEPT !.m[w].top = s.sel.top, !.m[w].lnum = s.sel.lnum,
                 !.sel.top = s.m[w].top, !.sel.lnum = s.m[w].lnum]

-----------------------------------------------------------------------------
(* The cursor.  buf_curs_move reads the line it is on and makes its record *)
(* the current one, if there is a line.                                    *)
ModelSetCurs(s, w, i) ==
  IF Line(s, w, i) = NULL THEN s ELSE [s EXCEPT !.m[w].cur = Line(s, w, i)]

BufCursMove(s, w) ==
  SelectEnter(ModelSetCurs(Deref(s, {Line(s, w, Index(s, w))}, w), w, Index(s, w)), w, Index(s, w))

BufMoveInvalid(s, w, top, lnum) ==
  BufCursMove([s EXCEPT !.m[w].top = top, !.m[w].lnum = lnum], w)

KeepsSelection(s, w, top, lnum) == BufMoveInvalid(s, w, top, lnum)    \* mutant
BufFullInvalidate(s, w, top, lnum) == BufMoveInvalid(SelectClear(s, w), w, top, lnum)

BufScroll(mw, y, max) ==
  LET top == Maximum(0, IF mw.top + y + mw.size > max THEN max - mw.size ELSE mw.top + y)
  IN  [mw EXCEPT !.top = top, !.lnum = @ + (mw.top - top)]

Clamped(mw, max) == IF mw.lnum + mw.top > max - 1 THEN [mw EXCEPT !.lnum = max - mw.top - 1] ELSE mw

BufMv(s, w, y) ==
  LET max == Count(s, w)
      mw  == [s.m[w] EXCEPT !.lnum = @ + y]
      scr == IF (y < 0 /\ 5 * mw.lnum < mw.size) \/ (y > 0 /\ 5 * mw.lnum > 4 * mw.size)
             THEN BufScroll(mw, y, max) ELSE mw
      cut == [scr EXCEPT !.lnum = Minimum(Maximum(@, 0), scr.size)]
  IN  BufCursMove([s EXCEPT !.m[w] = Clamped(cut, max)], w)

-----------------------------------------------------------------------------
(* Lines.  Matching a line reads its record.                               *)
Keep(s, set) ==
  LET kept[i \in 0..Len(s)] == IF i = 0 THEN <<>>
                               ELSE IF s[i] \in set THEN Append(kept[i - 1], s[i]) ELSE kept[i - 1]
  IN  kept[Len(s)]

Matching(lines, pattern) == Keep(lines, Keys \X pattern)

FilterBuild(s, w, pattern) ==
  LET mw == s.m[w]
      s1 == [s EXCEPT !.m[w].filter = pattern]
  IN  IF mw.head = NULL THEN Fault(s1, "head", w)
      ELSE IF mw.head = Freed THEN Fault(s1, "freed", w)
      ELSE [s1 EXCEPT !.m[w].lines = Matching(tbl[mw.head], pattern)]

FilterApply(s, w) ==
  IF s.m[w].filter = NoFilter THEN s ELSE FilterBuild(s, w, s.m[w].filter)

Before(sort, a, b) ==
  IF sort.rev THEN Rank[sort.o][a[2]] > Rank[sort.o][b[2]]
              ELSE Rank[sort.o][a[2]] < Rank[sort.o][b[2]]

(* qsort_r of glibc is a merge sort: it keeps the order of equals.         *)
Sorted(lines, sort) ==
  LET place(i) == 1 + Cardinality({j \in DOMAIN lines \ {i} :
                        \/ Before(sort, lines[j], lines[i])
                        \/ ~Before(sort, lines[i], lines[j]) /\ j < i})
  IN  [k \in DOMAIN lines |-> lines[CHOOSE i \in DOMAIN lines : place(i) = k]]

(* model_set_prev keeps where the cursor is and the value it is on.        *)
ModelSetPrev(s, w) ==
  LET mw == s.m[w]
      s1 == Deref(s, {mw.cur}, w)
  IN  [s1 EXCEPT !.m[w] = [mw EXCEPT !.pfval = IF mw.cur = NULL THEN @ ELSE mw.cur,
                                     !.ptop = mw.top, !.plnum = mw.lnum]]

(* refind_line: the position of the value, if its record is in the table   *)
(* and a line shows it.                                                    *)
RefindLine(mw) ==
  LET found == {i \in DOMAIN mw.lines : mw.lines[i] = mw.pfval}
      at    == (CHOOSE i \in found : TRUE) - 1
      top   == Maximum(0, mw.ptop + (at - (mw.ptop + mw.plnum)))
  IN  IF found = {} \/ at = mw.ptop + mw.plnum THEN mw
      ELSE [mw EXCEPT !.ptop = top, !.plnum = Maximum(0, at - top)]

RefitLess(mw) == mw    \* mutant: the old position is taken as it is
Refit(mw) ==
  LET count == Len(mw.lines)
      a == IF count - mw.ptop < Minimum(count, mw.size)
           THEN [mw EXCEPT !.ptop = count - mw.size, !.plnum = @ + (mw.ptop - (count - mw.size))]
           ELSE mw
      b == IF a.plnum > mw.size THEN [a EXCEPT !.plnum = mw.size - 1] ELSE a
      c == IF mw.size > count THEN [b EXCEPT !.ptop = 0, !.plnum = @ + b.ptop] ELSE b
  IN  IF c.ptop + c.plnum > count - 1 THEN [c EXCEPT !.plnum = count - c.ptop - 1] ELSE c

(* model_sort.  The value to look for may be NULL: whatever the table      *)
(* holds, of this directory or of others.                                  *)
ModelSort(s, w) ==
  LET s1 == IF s.m[w].blocking THEN s ELSE ModelSetPrev(s, w)
      mw == s1.m[w]
      read == IF Len(mw.lines) > 1 THEN Deref(s1, ToSet(mw.lines), w) ELSE s1
      nullval == mw.pfval = NULL /\ \E k \in (IF w = Dt THEN {Procs} ELSE Dirs) : tbl[k] # <<>>
      fit == Refit(RefindLine([mw EXCEPT !.lines = Sorted(@, mw.sort)]))
  IN  IF read.fault[1] # "none" THEN read
      ELSE IF nullval THEN Fault(s1, "value", w)
      ELSE BufFullInvalidate([s1 EXCEPT !.m[w] = fit], w, fit.ptop, fit.plnum)

-----------------------------------------------------------------------------
(* model_save: the listener of the last directory that had lines keeps the *)
(* position.                                                               *)
ModelSave(s, w) ==
  LET mw == s.m[w]
      s1 == Deref(s, {mw.cur}, w)
  IN  IF mw.cur = NULL THEN s
      ELSE [s1 EXCEPT !.lis[mw.lis].top = mw.top, !.lis[mw.lis].lnum = mw.lnum,
                      !.lis[mw.lis].fval = mw.cur, !.m[w].pfval = NULL]

ModelClose(s, w) ==
  LET s1 == ModelSave(s, w) IN [s1 EXCEPT !.m[w].blocking = TRUE, !.m[w].lines = <<>>]

ModelOpen(s, k) == IF s.lis[k] # NULL THEN s ELSE [s EXCEPT !.lis[k] = NewLis(k)]

KeepsLines(mw) == [mw EXCEPT !.blocking = TRUE]    \* mutant: the lines are left
Flushed(mw) == [mw EXCEPT !.lines = <<>>, !.blocking = TRUE]

ModelFlush(s, w, reopen) ==
  LET s1 == [s EXCEPT !.m[w].pfval = NULL]
      s2 == ModelSetPrev(s1, w)
  IN  IF reopen THEN [s2 EXCEPT !.m[w] = Flushed(@)] ELSE s1

ModelNullEntry(s, w, k) ==
  LET s1 == [s EXCEPT !.m[w].head = NULL, !.m[w].cur = NULL, !.lis[k].top = 0, !.lis[k].lnum = 0]
      s2 == BufFullInvalidate(s1, w, 0, 0)
  IN  [s2 EXCEPT !.m[w].blocking = FALSE]

ModelFullEntry(s, w, k) ==
  LET s1 == FilterApply([s EXCEPT !.m[w].lines = tbl[k] \o @], w)
  IN  [s1 EXCEPT !.m[w].lis = k, !.m[w].blocking = FALSE]

ModelReadEntry(s, w, k) ==
  LET l  == s.lis[k]
      mw == s.m[w]
      at == IF mw.pfval # NULL THEN mw
            ELSE [mw EXCEPT !.pfval = l.fval, !.ptop = l.top, !.plnum = l.lnum]
      in == [at EXCEPT !.head = k, !.cur = Head(tbl[k]), !.lis = k, !.lines = @ \o tbl[k]]
      s1 == ModelSort(FilterApply([s EXCEPT !.m[w] = in], w), w)
  IN  [s1 EXCEPT !.m[w].blocking = FALSE]

(* After a fault the rest of the handler is not modelled.                  *)
ModelRecv(s, w) ==
  LET k == s.m[w].key IN
  IF ~s.m[w].blocking \/ s.fault[1] # "none" THEN s
  ELSE IF s.lis[k].rec = NULL THEN ModelNullEntry(s, w, k)
  ELSE IF w = Dt THEN ModelFullEntry(s, w, k)
  ELSE ModelReadEntry(s, w, k)

-----------------------------------------------------------------------------
(* The tables.  What is freed is Freed for everybody who points to it.     *)
Free(s, gone, keys) ==
  LET F(r) == IF r \in gone THEN Freed ELSE r
      Marks(mw) == [i \in DOMAIN mw.lines |-> F(mw.lines[i])]
  IN  [s EXCEPT
         !.m = [w \in Windows |->
                  [s.m[w] EXCEPT !.lines = Marks(s.m[w]), !.cur = F(s.m[w].cur),
                                 !.head = IF s.m[w].head \in keys THEN Freed ELSE s.m[w].head]],
         !.lis = [k \in Keys |->
                    IF s.lis[k] = NULL THEN NULL
                    ELSE [s.lis[k] EXCEPT !.rec = IF k \in keys THEN NULL ELSE F(s.lis[k].rec)]]]

(* tbl_del_val of a directory: all its records.                            *)
TblDelVal(s, k) == Free(s, ToSet(tbl[k]), {k})

(* commit: a record is inserted, behind those of its value, and its        *)
(* listener gets it if it has none.                                        *)
Commit(k, n) ==
  LET r == <<k, n>> IN
  /\ tbl' = [tbl EXCEPT ![k] = Append(@, r)]
  /\ lis' = IF lis[k] = NULL \/ lis[k].rec # NULL THEN lis ELSE [lis EXCEPT ![k].rec = r]

-----------------------------------------------------------------------------
(* Directories: fs.c as far as it meets the tables and models.             *)
Listeners(d) == {w \in Windows : m[w].key = d}
ForEach(Op(_, _), s, ws) == FoldSet(LAMBDA w, t : Op(t, w), s, ws)

FsFlushStream(s, d) ==
  LET Flush(t, w) == ModelFlush(t, w, ent[d].reopen) IN ForEach(Flush, s, Listeners(d))

StatCb(d) ==
  /\ ent[d].state = "stat"
  /\ \/ /\ ~ent[d].cached \/ scans < MaxScans
        /\ ent' = [ent EXCEPT ![d].state = "scan"]
     \/ /\ ent[d].cached
        /\ ent' = [ent EXCEPT ![d].state = "signal"]
     \/ /\ scans < MaxScans
        /\ ent' = [ent EXCEPT ![d].state = "signal", ![d].cancel = TRUE]
  /\ scans' = IF ent'[d].cancel THEN scans + 1 ELSE scans
  /\ UNCHANGED <<tbl, lis, m, sel, want, quiet, fault, commands>>

ScanCb(d, files) ==
  LET told == IF ent[d].reopen THEN {} ELSE {w \in Listeners(d) : ~m[w].blocking} IN
  /\ ent[d].state = "scan"
  /\ Become(TblDelVal(FsFlushStream(S, d), d))
  /\ tbl' = [tbl EXCEPT ![d] = <<>>]
  /\ quiet' = quiet \cup told
  /\ ent' = [ent EXCEPT ![d].state = "signal", ![d].cached = TRUE,
                        ![d].files = IF ent[d].cancel THEN <<>> ELSE files]
  /\ scans' = Minimum(scans + 1, MaxScans)
  /\ UNCHANGED <<want, commands>>

CommitEvent(d) ==
  /\ ent[d].files # <<>>
  /\ Commit(d, Head(ent[d].files))
  /\ ent' = [ent EXCEPT ![d].files = Tail(@)]
  /\ UNCHANGED <<m, sel, want, quiet, fault, commands, scans>>

FsSignalHandle(d) ==
  LET s    == IF ent[d].cancel THEN TblDelVal(FsFlushStream(S, d), d) ELSE S
      told == IF ent[d].cancel /\ ~ent[d].reopen THEN {w \in Listeners(d) : ~m[w].blocking} ELSE {}
      recv == {w \in Listeners(d) : s.m[w].blocking /\ s.m[w].lines = <<>>}
  IN  /\ ent[d].state = "signal" /\ ent[d].files = <<>>
      /\ Become(ForEach(ModelRecv, s, Listeners(d)))
      /\ tbl' = IF ent[d].cancel THEN [tbl EXCEPT ![d] = <<>>] ELSE tbl
      /\ quiet' = (quiet \cup told) \ (IF fault'[1] = "none" THEN recv ELSE {})
      /\ ent' = [ent EXCEPT ![d].state = "idle", ![d].reopen = FALSE,
                            ![d].cached = @ /\ ~ent[d].cancel,
                            ![d].cancel = @ /\ Listeners(d) # {}]
      /\ UNCHANGED <<want, commands, scans>>

(* fs_reopen, after a change in a directory that is watched.               *)
FsReopen(d) ==
  /\ ent[d].state = "idle" /\ Listeners(d) # {} /\ scans < MaxScans
  /\ ent' = [ent EXCEPT ![d].state = "stat", ![d].reopen = TRUE]
  /\ UNCHANGED <<tbl, lis, m, sel, want, quiet, fault, commands, scans>>

-----------------------------------------------------------------------------
(* Commands of the user.  Keys wait for the model (buf_input), except      *)
(* those typed on the command line.                                        *)
Opened == {w \in Windows : m[w].key # NULL}
Command(w) ==
  /\ w \in Opened /\ fault[1] = "none" /\ commands < MaxCommands
  /\ commands' = commands + 1
Key(w) == Command(w) /\ ~m[w].blocking

Edit(s) == Become(s) /\ UNCHANGED <<tbl, ent, want, quiet, scans>>
Lines(w) == Maximum(1, Count(S, w))

BufMove(w, y)    == Key(w) /\ Edit(BufMv(S, w, y))
BufMvPage(w, dir) == Key(w) /\ Edit(BufMv(S, w, (m[w].size \div 2) * dir))
BufG(w, y)       == Key(w) /\ Edit(BufMv(S, w, y))
BufToggleSel(w)  == Key(w) /\ Edit(SelectToggle(S, w))
BufAltOrigin(w) ==
  LET s == SelectAltOrigin(S, w) IN
  Key(w) /\ sel.owner = w /\ sel.active /\ Edit(BufMoveInvalid(s, w, s.m[w].top, s.m[w].lnum))

(* buf_end_sel, also after a yank and a deletion: back to the origin, if   *)
(* that is above.                                                          *)
BufEndSel(w) ==
  LET s1 == IF Origin(S) > Index(S, w) THEN S ELSE SelectAltOrigin(S, w)
      s2 == SelectClear(s1, w)
  IN  Key(w) /\ Edit(BufMoveInvalid(s2, w, s2.m[w].top, s2.m[w].lnum))

BufSort(w, o, rev) ==
  Key(w) /\ Edit(ModelSort([S EXCEPT !.m[w].sort = [o |-> o, rev |-> rev]], w))

(* A filter that is typed: filter_build, filter_update.  A window that     *)
(* waits for a directory gets lines of the one it has left, and those that *)
(* it waits for behind them.                                               *)
ExFilter(w, pattern) ==
  LET s == FilterBuild(S, w, pattern) IN
  /\ Command(w)
  /\ Become(IF s.fault[1] = "none" THEN ModelSort(s, w) ELSE s)
  /\ quiet' = IF m[w].blocking THEN quiet \cup {w} ELSE quiet
  /\ UNCHANGED <<tbl, ent, want, scans>>

(* buf_set_size_ofs.                                                       *)
Resize(w, size) ==
  LET mw   == m[w]
      grow == size > mw.size /\ mw.top + size > Len(mw.lines)
      top  == Maximum(1 + mw.top + mw.lnum - size, 0)
  IN  /\ Command(w) /\ size # mw.size
      /\ m' = [m EXCEPT ![w] = IF mw.lnum >= size \/ grow
                 THEN [mw EXCEPT !.size = size, !.top = top, !.lnum = @ + mw.top - top]
                 ELSE [mw EXCEPT !.size = size]]
      /\ UNCHANGED <<tbl, lis, sel, ent, want, quiet, fault, scans>>

(* draw_screen reads the lines it shows, and which of them are selected.   *)
Draw(w) ==
  LET shown == {i \in m[w].top..(m[w].top + m[w].size - 1) : Line(S, w, i) # NULL}
      s1 == Deref(S, {Line(S, w, i) : i \in shown}, w)
      s2 == IF sel.active /\ sel.owner = w /\ \E i \in shown : i + 1 \notin DOMAIN sel.lines
            THEN Fault(s1, "bounds", w) ELSE s1
  IN  /\ w \in Opened /\ fault[1] = "none"
      /\ Edit(s2) /\ UNCHANGED commands

-----------------------------------------------------------------------------
(* The file manager.  fm_req_dir waits for the entry of its directory and  *)
(* asks for a stat; the directory is opened by the event of its answer.    *)
FmReqDir(w, d) ==
  /\ Key(w) /\ w # Dt /\ want[w] = NULL
  /\ ent[m[w].key].state = "idle"
  /\ want' = [want EXCEPT ![w] = d]
  /\ UNCHANGED <<tbl, lis, m, sel, ent, quiet, fault, scans>>

FmOpendir(w) ==
  LET d == want[w]
      s == ModelOpen([ModelClose(S, w) EXCEPT !.m[w].key = d], d)
      left == IF Listeners(m[w].key) = {w} /\ ent[m[w].key].state = "idle"
              THEN [ent EXCEPT ![m[w].key].cancel = FALSE] ELSE ent
  IN  /\ d # NULL /\ w \in Opened /\ fault[1] = "none"
      /\ Become(s)
      /\ want' = [want EXCEPT ![w] = NULL]
      /\ ent' = IF left[d].state = "idle" THEN [left EXCEPT ![d].state = "stat"] ELSE left
      /\ quiet' = IF s.fault[1] = "none" THEN quiet \ {w} ELSE quiet
      /\ UNCHANGED <<tbl, commands, scans>>

(* fm_delete, after it has waited for its entry.  The selection keeps its  *)
(* owner.                                                                  *)
FmDelete(w) ==
  LET s == ModelClose(S, w) IN
  /\ Command(w) /\ w # Dt /\ want[w] = NULL /\ ent[m[w].key].state = "idle"
  /\ Become([s EXCEPT !.m[w].key = NULL])
  /\ UNCHANGED <<tbl, ent, want, quiet, scans>>

-----------------------------------------------------------------------------
(* A table that is listed whole.  op.c commits and deletes its records;    *)
(* the window is told when it opens, and when a value is piped to it.      *)
AddPid(n) ==
  /\ Dt \in Opened /\ fault[1] = "none" /\ <<Procs, n>> \notin ToSet(tbl[Procs])
  /\ Commit(Procs, n)
  /\ UNCHANGED <<m, sel, ent, want, quiet, fault, commands, scans>>

RemovePid(n) ==
  LET r == <<Procs, n>> IN
  /\ fault[1] = "none" /\ r \in ToSet(tbl[Procs])
  /\ Become(Free(S, {r}, {}))
  /\ tbl' = [tbl EXCEPT ![Procs] = Keep(@, Recs \ {r})]
  /\ UNCHANGED <<ent, want, quiet, commands, scans>>

DtSignalModel ==
  LET first == IF tbl[Procs] = <<>> THEN NULL ELSE Head(tbl[Procs])
      s1 == ModelFlush(S, Dt, TRUE)
      s2 == ModelRecv([s1 EXCEPT !.lis[Procs].rec = first], Dt)
  IN  Command(Dt) /\ Edit(IF s2.fault[1] = "none" THEN BufMv(s2, Dt, 0) ELSE s2)

User(w) ==
  \/ \E y \in {-1, 1} : BufMove(w, y) \/ BufMvPage(w, y)
  \/ \E y \in {-Lines(w), Lines(w)} : BufG(w, y)
  \/ BufToggleSel(w) \/ BufAltOrigin(w) \/ BufEndSel(w)
  \/ \E o \in Sorts, rev \in BOOLEAN : BufSort(w, o, rev)
  \/ \E p \in Patterns : ExFilter(w, p)
  \/ \E size \in Sizes : Resize(w, size)
  \/ Draw(w)
  \/ \E d \in Dirs : FmReqDir(w, d)
  \/ FmOpendir(w) \/ FmDelete(w)

Next ==
  \/ fault[1] = "none" /\ \E d \in Dirs :
       StatCb(d) \/ CommitEvent(d) \/ FsSignalHandle(d) \/ FsReopen(d)
  \/ fault[1] = "none" /\ \E d \in Dirs, files \in FileSets : ScanCb(d, files)
  \/ \E w \in Windows : User(w)
  \/ \E n \in Names : AddPid(n) \/ RemovePid(n)
  \/ DtSignalModel

Spec == Init /\ [][Next]_vars

-----------------------------------------------------------------------------
(* What a state is made of.                                                *)
ModelType ==
  [key: Keys \cup {NULL}, blocking: BOOLEAN, cur: Recs \cup {NULL, Freed},
   head: Keys \cup {NULL, Freed}, lis: Keys \cup {NULL},
   pfval: Recs \cup {NoValue, NULL, Freed}, ptop: Int, plnum: Int,
   lines: Seq(Recs \cup {Freed}), sort: [o: Sorts, rev: BOOLEAN], filter: SUBSET Names,
   top: Int, lnum: Int, size: Sizes]

SelectionType ==
  [owner: Windows \cup {NULL}, enabled: BOOLEAN, active: BOOLEAN, aditv: BOOLEAN,
   head: Int, top: Int, lnum: Int, lines: Seq(BOOLEAN)]

EntryType ==
  [state: {"idle", "stat", "scan", "signal"}, reopen: BOOLEAN, cancel: BOOLEAN,
   cached: BOOLEAN, files: Seq(Names)]

Faults == {"none", "freed", "head", "value", "bounds", "owner"}
StateType ==
  [m: [Windows -> ModelType], lis: [Keys -> LisType \cup {NULL}], sel: SelectionType,
   fault: Faults \X (Windows \cup {NULL})]

TypeOK ==
  /\ S \in StateType
  /\ DOMAIN tbl = Keys /\ \A k \in Keys : tbl[k] \in Seq({k} \X Names)
  /\ ent \in [Dirs -> EntryType]
  /\ want \in [Windows -> Dirs \cup {NULL}]
  /\ quiet \subseteq Windows
  /\ commands \in Nat /\ scans \in Nat

-----------------------------------------------------------------------------
(* After a filter that matched nothing the cursor is above the first line, *)
(* and stays there when other lines come back (refit does not correct a    *)
(* negative line; lis_save keeps it): the current record is another one    *)
(* than the line drawn as current.                                         *)
Astray(mw) == mw.top = 0 /\ mw.lnum = -1
OnLine(mw) == mw.top >= 0 /\ mw.lnum >= 0 /\ mw.top + mw.lnum < Len(mw.lines)
InOrder(mw) ==
  \A i, j \in DOMAIN mw.lines : i < j => ~Before(mw.sort, mw.lines[j], mw.lines[i])

(* The lines of a window that shows a directory are records of the table,  *)
(* and of its directory, unless a scan was not announced to it: fs_open    *)
(* does not set `reopen', and model_flush keeps the lines of a window that *)
(* lists the same directory already (fs.c, fs_signal_handle and scan_cb);  *)
(* or a filter was typed while it waited.  The current record is that of   *)
(* the line under the cursor.                                              *)
LinesLive ==
  \A w \in Opened \ ({Dt} \cup quiet) :
    fault[1] = "none" =>
      /\ ToSet(m[w].lines) \subseteq ToSet(tbl[m[w].key])
      /\ ~m[w].blocking /\ m[w].lines # <<>> /\ ~Astray(m[w]) => m[w].cur = Line(S, w, Index(S, w))

(* A window that waits for nothing lists what the filter leaves of its     *)
(* directory, whatever the entry of the directory does, in the order asked *)
(* for, with the cursor on one of the lines.  (On the screen it need not   *)
(* be: the origin of a selection, swapped in after the window shrank, may  *)
(* be below what is shown.)                                                *)
Listed ==
  \A w \in Opened \ ({Dt} \cup quiet) :
    fault[1] = "none" /\ ~m[w].blocking =>
      /\ ToSet(m[w].lines) = ToSet(Matching(tbl[m[w].key], m[w].filter))
      /\ InOrder(m[w])
      /\ m[w].lines # <<>> /\ ~Astray(m[w]) => OnLine(m[w])

(* What it takes for a pointer that is not good to be used. Freed: a       *)
(* window that waits for its lines (its current record is gone, and        *)
(* leaving the directory saves it; a filter is typed), one that was not    *)
(* told, or one that lists a whole table. NULL: sorting or filtering an    *)
(* empty directory, or filtering one that waits. Behind the selection:     *)
(* lines that were added to a whole table; before it: a cursor that went   *)
(* astray. A selection whose window is gone.                               *)
Known(s, unsaid) ==
  LET w == s.fault[2] IN
  CASE s.fault[1] = "freed"  -> w = Dt \/ w \in unsaid \/ s.m[w].blocking
    [] s.fault[1] = "head"   -> s.m[w].head = NULL
    [] s.fault[1] = "value"  -> s.m[w].cur = NULL \/ s.m[w].blocking
    [] s.fault[1] = "bounds" -> w = Dt \/ Astray(s.m[w])
    [] s.fault[1] = "owner"  -> s.sel.owner \notin {v \in Windows : s.m[v].key # NULL}
    [] OTHER -> TRUE

FaultsAreKnown == Known(S, quiet)

-----------------------------------------------------------------------------
(* What makes the three inductive, as long as nothing went wrong.          *)

(* Positions that are kept: of a cursor, or where the next listing starts. *)
Sane(top, lnum) == (top >= 0 /\ lnum >= 0) \/ (top = 0 /\ lnum = -1)

(* A window that waits has no lines, but those of a filter typed too       *)
(* early; one that does not lists its directory, if it was told.           *)
InSync(mw, t) ==
  /\ mw.head \in {mw.key, NULL} /\ mw.cur \in ToSet(t[mw.key]) \cup {NULL}
  /\ ToSet(mw.lines) = ToSet(Matching(t[mw.key], mw.filter)) /\ InOrder(mw)

Steady(mw, unsaid, t) ==
  /\ mw.key \in Dirs \cup {NULL} /\ mw.lis \in Dirs \cup {NULL}
  /\ Sane(mw.top, mw.lnum) /\ Sane(mw.ptop, mw.plnum)
  /\ mw.blocking \/ OnLine(mw) \/ Astray(mw) \/ (mw.lines = <<>> /\ mw.top = 0 /\ mw.lnum = 0)
  /\ mw.blocking /\ ~unsaid => mw.lines = <<>>
  /\ ~mw.blocking => mw.key # NULL /\ (unsaid \/ InSync(mw, t))

WindowOK(mw, unsaid, t) ==
  /\ Steady(mw, unsaid, t)
  /\ ~mw.blocking /\ ~unsaid /\ OnLine(mw) => mw.cur = mw.lines[mw.top + mw.lnum + 1]

(* What a model has is of a listener that exists; its own one does.        *)
Tied(mw, l) ==
  /\ mw.key # NULL => l[mw.key] # NULL
  /\ IF mw.lis = NULL THEN mw.cur = NULL /\ mw.head = NULL /\ mw.lines = <<>>
     ELSE l[mw.lis] # NULL

(* The listener of a directory has a record if there is one, of its own.   *)
LisOK(k, l, t) ==
  l[k] # NULL => /\ Sane(l[k].top, l[k].lnum)
                 /\ IF t[k] = <<>> THEN l[k].rec = NULL ELSE l[k].rec \in {k} \X Names

(* The array of a selection has a place for every line of its window, and  *)
(* the ends of the range, and the cursor, are among them.                  *)
SelectionOK(s) ==
  /\ s.sel.enabled => s.sel.active
  /\ s.sel.active => s.sel.owner \in Windows
  /\ s.sel.active /\ s.sel.owner # Dt =>
       LET mw == s.m[s.sel.owner] IN
       IF mw.blocking THEN mw.lines = <<>>
       ELSE /\ Len(s.sel.lines) = Len(mw.lines) /\ OnLine(mw)
            /\ s.sel.head \in 0..(Len(mw.lines) - 1)
            /\ s.sel.top >= 0 /\ s.sel.lnum >= 0 /\ Origin(s) < Len(mw.lines)

(* Records are inserted below nobody: those who list the directory wait,   *)
(* or were not told.                                                       *)
PendingOK(d) ==
  ent[d].files # <<>> =>
    /\ ent[d].state = "signal"
    /\ \A w \in Listeners(d) : m[w].blocking \/ w \in quiet

Safe(s, unsaid, t) ==
  /\ Known(s, unsaid)
  /\ s.fault[1] = "none" =>
       /\ \A w \in Windows : Tied(s.m[w], s.lis) /\ (w # Dt => WindowOK(s.m[w], w \in unsaid, t))
       /\ Dt \in Windows => s.m[Dt].key \in {Procs, NULL}
       /\ SelectionOK(s)

IInv ==
  /\ TypeOK /\ Safe(S, quiet, tbl)
  /\ fault[1] = "none" =>
       /\ Dt \in Windows => want[Dt] = NULL
       /\ \A d \in Dirs : LisOK(d, lis, tbl) /\ PendingOK(d)
=============================================================================
