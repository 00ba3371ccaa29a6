------------------------------- MODULE FsWatch -------------------------------
(***************************************************************************)
(* Directory listings: event/fs.c.  An nv_fs (one of each fm plugin, one   *)
(* of the menu) opens a directory; all that have the same one open share   *)
(* an fentry, which stats and scans it through libuv's thread pool, puts   *)
(* the rows in table fm_files, signals its listeners by an event, and      *)
(* watches the directory to do it again.                                   *)
(*                                                                         *)
(* A directory is its ctime in seconds, all that fs.c compares: 0 is a     *)
(* directory that is not there, changes within a second are one change.    *)
(***************************************************************************)
EXTENDS Integers, Sequences, FiniteSets

CONSTANTS
  Fss,        \* the nv_fs objects
  Menus,      \* those with an open_cb: the menu's
  Dirs,       \* directories
  MaxEnts,    \* bound: fentries made in a behaviour
  MaxTime,    \* bound: seconds in which directories change
  MayCancel,  \* whether the user cancels
  MayVanish   \* whether directories are removed and made again

ASSUME FsAssumption ==
  /\ Menus \subseteq Fss /\ Dirs # {}
  /\ MaxEnts \in Nat /\ MaxTime \in Nat \ {0}
  /\ MayCancel \in BOOLEAN /\ MayVanish \in BOOLEAN

VARIABLES
  disk,      \* ctime of each directory
  now,       \* the present second
  cache,     \* cache_tbl: ctime of the last scan, 0 none
  rows,      \* fm_files: ctime of the rows of each directory, 0 none
  ent,       \* the fentries, dead ones too
  fs,        \* the nv_fs objects
  view,      \* the model of each: what its lines are
  evq,       \* Loop.eventq
  fault      \* undefined behaviour ended the run

vars == <<disk, now, cache, rows, ent, fs, view, evq, fault>>

-----------------------------------------------------------------------------
Ents  == 1..MaxEnts
Times == 0..MaxTime
None  == 0
Fms   == Fss \ Menus

NoEnt == [st |-> "none", dir |-> CHOOSE d \in Dirs : TRUE, running |-> FALSE,
          flush |-> FALSE, cancel |-> FALSE, reopen |-> FALSE, req |-> "none", ctime |-> 0, seen |-> 0,
          watch |-> FALSE, notified |-> FALSE, timer |-> FALSE, lis |-> {}]

Live(e) == ent[e].st = "live"
Event(kind, k, d, t) == [kind |-> kind, of |-> k, dir |-> d, time |-> t]

Init ==
  /\ disk = [d \in Dirs |-> 1]
  /\ now = 1
  /\ cache = [d \in Dirs |-> 0]
  /\ rows = [d \in Dirs |-> 0]
  /\ ent = [e \in Ents |-> NoEnt]
  /\ fs = [f \in Fss |-> [ent |-> None, running |-> FALSE, stat |-> FALSE,
                          dir |-> NoEnt.dir, freed |-> FALSE]]
  /\ view = [f \in Fss |-> [lines |-> "blocking", time |-> 0]]
  /\ evq = <<>>
  /\ fault = "none"

-----------------------------------------------------------------------------
(* fs_demux, of all of fset, and fs_mux, on the entries E.  A stat is       *)
(* started and, if the directory is there, its watch.                      *)
LeaksTheEntry(E, e) == FALSE   \* mutant: an entry without listeners stays
Unused(E, e) == E[e].lis = {}

Demux(E, fset, e) ==
  LET E1 == [E EXCEPT ![e].lis = @ \ fset] IN
  IF e = None \/ fset = {} THEN E
  ELSE IF Unused(E1, e)
  THEN [E1 EXCEPT ![e] = [NoEnt EXCEPT !.st = "closing", !.dir = E[e].dir,
                                          !.cancel = E[e].cancel]]
  ELSE E1

Of(E, d)    == {e \in Ents : E[e].st = "live" /\ E[e].dir = d}
Unmade(E)   == {e \in Ents : E[e].st = "none"}
MuxEnt(E, d) == CHOOSE e \in IF Of(E, d) # {} THEN Of(E, d) ELSE Unmade(E) : TRUE

Mux(E, f, d) ==
  LET e == MuxEnt(E, d)
  IN  [E EXCEPT ![e].st = "live", ![e].dir = d, ![e].lis = @ \cup {f}]

StatStarted(E, e) ==
  [E EXCEPT ![e].running = TRUE, ![e].req = "stat",
            ![e].watch = @ \/ disk[E[e].dir] # 0]

(* fs_open                                                                 *)
OpensRegardless(E, e) == TRUE  \* mutant: a request although one is out
Opens(E, e) == ~E[e].running

Open(E, f, d) ==
  LET E1 == Mux(E, f, d)
      e  == MuxEnt(E, d)
  IN  IF Opens(E1, e) THEN StatStarted(E1, e) ELSE E1

MayOpen(E, d) == Of(E, d) # {} \/ Unmade(E) # {}

(* fs_reopen                                                               *)
Reopen(E, e) ==
  StatStarted([E EXCEPT ![e].timer = FALSE, ![e].watch = FALSE,
                        ![e].notified = FALSE, ![e].reopen = TRUE], e)

-----------------------------------------------------------------------------
(* model_flush, for the listeners of e, and tbl_del_val: the lines of a    *)
(* model that was not flushed are left pointing to freed rows.             *)
Flushed(e, d) ==
  [f \in Fss |->
    IF f \in ent[e].lis \ Menus /\ ent[e].reopen
    THEN [lines |-> "blocking", time |-> 0]
    ELSE IF view[f].lines = "listing" /\ fs[f].ent # None /\ ent[fs[f].ent].dir = d
    THEN [view[f] EXCEPT !.lines = "dangling"]
    ELSE view[f]]

(* model_recv                                                              *)
Received(v, rs, d) ==
  IF v.lines # "blocking" THEN v
  ELSE IF rs[d] = 0 THEN [lines |-> "empty", time |-> 0]
  ELSE [lines |-> "listing", time |-> rs[d]]

-----------------------------------------------------------------------------
Running == fault = "none"
Fails(what) == fault' = what /\ UNCHANGED <<disk, now, cache, rows, ent, fs, view, evq>>

(* The thread pool runs a request: what it sees is handed to its callback. *)
ThreadPool(e) ==
  /\ Running
  /\ \/ /\ ent[e].req = "stat"
        /\ ent' = [ent EXCEPT ![e].req = "statted", ![e].ctime = disk[ent[e].dir]]
     \/ /\ ent[e].req = "scan"
        /\ ent' = [ent EXCEPT ![e].req = "scanned", ![e].seen = disk[ent[e].dir]]
  /\ UNCHANGED <<disk, now, cache, rows, fs, view, evq, fault>>

SignalEvent(e) == Event("fs_signal_handle", e, NoEnt.dir, 0)

(* stat_cb.  A failed stat sets cancel, which nothing clears.              *)
CachedForever(e) == cache[ent[e].dir] # 0     \* mutant: ctimes are not compared
Cached(e) == cache[ent[e].dir] = ent[e].ctime

StatCb(e) ==
  LET gone == ent[e].ctime = 0
      scan == ~gone /\ (ent[e].flush \/ ~Cached(e))
  IN
  /\ Running /\ ent[e].req = "statted"
  /\ \/ scan
        /\ ent' = [ent EXCEPT ![e].req = "scan"]
        /\ UNCHANGED <<disk, now, cache, rows, fs, view, evq, fault>>
     \/ ~scan
        /\ ent' = [ent EXCEPT ![e].req = "none", ![e].ctime = 0, ![e].cancel = @ \/ gone]
        /\ evq' = Append(evq, SignalEvent(e))
        /\ UNCHANGED <<disk, now, cache, rows, fs, view, fault>>

(* scan_cb: flush the listeners, drop the outdated rows, cache the ctime   *)
(* of the stat, queue a commit for the rows and signal.  A failed scan     *)
(* never reaches UV_EOF, and only a cancel ends its loop.                  *)
RowsEvents(e) ==
  IF ent[e].cancel THEN <<>> ELSE << Event("commit", None, ent[e].dir, ent[e].seen) >>
SignalsFirst(e) == << SignalEvent(e) >> \o RowsEvents(e)   \* mutant
ScanEvents(e) == RowsEvents(e) \o << SignalEvent(e) >>

ScanCb(e) ==
  LET d == ent[e].dir IN
  /\ Running /\ ent[e].req = "scanned"
  /\ \/ /\ (ent[e].seen # 0 \/ ent[e].cancel)
        /\ view' = Flushed(e, d)
        /\ rows' = [rows EXCEPT ![d] = 0]
        /\ cache' = [cache EXCEPT ![d] = ent[e].ctime]
        /\ evq' = evq \o ScanEvents(e)
        /\ ent' = [ent EXCEPT ![e].req = "none", ![e].ctime = 0, ![e].seen = 0]
        /\ UNCHANGED <<disk, now, fs, fault>>
     \/ ent[e].seen = 0 /\ ~ent[e].cancel /\ Fails("scan_that_never_ends")

(* del_ent, for both handles.  A number nothing refers to is used again.   *)
Signalled(e) == {i \in DOMAIN evq : evq[i].kind = "fs_signal_handle" /\ evq[i].of = e}

DelEnt(e) ==
  /\ Running /\ ent[e].st = "closing"
  /\ ent' = [ent EXCEPT ![e] = IF Signalled(e) # {} THEN [@ EXCEPT !.st = "freed"] ELSE NoEnt]
  /\ UNCHANGED <<disk, now, cache, rows, fs, view, evq, fault>>

-----------------------------------------------------------------------------
(* The directory changes, and libuv notifies the watches on it.            *)
Change(d) ==
  /\ Running
  /\ \E t \in {now} \cup (IF MayVanish THEN {0} ELSE {}) :
       /\ disk[d] # t
       /\ disk' = [disk EXCEPT ![d] = t]
  /\ ent' = [e \in Ents |-> IF ent[e].dir = d
                           THEN [ent[e] EXCEPT !.notified = @ \/ ent[e].watch] ELSE ent[e]]
  /\ UNCHANGED <<now, cache, rows, fs, view, evq, fault>>

Tick ==
  /\ Running /\ now < MaxTime
  /\ now' = now + 1
  /\ UNCHANGED <<disk, cache, rows, ent, fs, view, evq, fault>>

(* watch_cb: look again when the timer fires, or at once if it is MAX_WAIT *)
(* since the last stat.                                                    *)
NoTimer(E, e) == [E EXCEPT ![e].watch = FALSE, ![e].notified = FALSE]   \* mutant
Noticed(E, e) ==
  [E EXCEPT ![e].watch = FALSE, ![e].notified = FALSE, ![e].timer = TRUE]

WatchCb(e) ==
  /\ Running /\ Live(e) /\ ent[e].notified
  /\ \/ ent' = Noticed(ent, e)
     \/ ~ent[e].running /\ ent' = Reopen(ent, e)
  /\ UNCHANGED <<disk, now, cache, rows, fs, view, evq, fault>>

(* watch_timer_cb; the timer repeats.                                      *)
WatchTimerCb(e) ==
  /\ Running /\ Live(e) /\ ent[e].timer /\ ~ent[e].running
  /\ ent' = Reopen(ent, e)
  /\ UNCHANGED <<disk, now, cache, rows, fs, view, evq, fault>>

(* win_reload: fs_clr_cache and fs_reload.                                 *)
Reload(d) ==
  /\ Running /\ Of(ent, d) # {}
  /\ cache' = [cache EXCEPT ![d] = 0]
  /\ ent' = [e \in Ents |-> IF e \in Of(ent, d)
                           THEN [ent[e] EXCEPT !.flush = TRUE, !.timer = TRUE] ELSE ent[e]]
  /\ UNCHANGED <<disk, now, rows, fs, view, evq, fault>>

-----------------------------------------------------------------------------
(* fm_req_dir, which waits until the entry is idle, and path_list of the   *)
(* menu, which does not: fs_read.                                          *)
Blocking(f) == fs[f].ent # None /\ ent[fs[f].ent].running

FsRead(f, d) ==
  /\ Running /\ ~fs[f].freed /\ ~fs[f].running
  /\ f \in Fms => ~Blocking(f)
  /\ fs' = [fs EXCEPT ![f].running = TRUE, ![f].stat = TRUE, ![f].dir = d]
  /\ UNCHANGED <<disk, now, cache, rows, ent, view, evq, fault>>

(* stat_read_cb: fs->stat_cb and stat_cleanup are queued.                  *)
StatReadCb(f) ==
  /\ Running /\ fs[f].stat
  /\ \/ /\ ~fs[f].freed
        /\ fs' = [fs EXCEPT ![f].stat = FALSE, ![f].dir = NoEnt.dir]
        /\ evq' = evq \o << Event("stat_cb", f, fs[f].dir, disk[fs[f].dir]),
                           Event("stat_cleanup", f, NoEnt.dir, 0) >>
        /\ UNCHANGED <<disk, now, cache, rows, ent, view, fault>>
     \/ fs[f].freed /\ Fails("nv_fs_used_after_fs_cleanup")

(* fs_cancel, by the user's interrupt.  uv_cancel ends a request that the  *)
(* thread pool has not begun, which then fails.                            *)
FsCancel(f) ==
  LET e == fs[f].ent IN
  /\ Running /\ MayCancel /\ f \in Fms /\ ~fs[f].freed
  /\ \/ e # None /\ ent' = [ent EXCEPT ![e].cancel = TRUE] /\ UNCHANGED fault
     \/ /\ e # None /\ ent[e].req = "stat"
        /\ ent' = [ent EXCEPT ![e].cancel = TRUE, ![e].req = "statted", ![e].ctime = 0]
        /\ UNCHANGED fault
     \/ /\ e # None /\ ent[e].req = "scan"
        /\ ent' = [ent EXCEPT ![e].cancel = TRUE, ![e].req = "scanned", ![e].seen = 0]
        /\ UNCHANGED fault
     \/ e = None /\ fault' = "cancel_without_an_entry" /\ UNCHANGED ent
  /\ UNCHANGED <<disk, now, cache, rows, fs, view, evq>>

(* fm_delete, which waits until the entry is idle: fs_cleanup.             *)
FmDelete(f) ==
  /\ Running /\ f \in Fms /\ ~fs[f].freed /\ ~Blocking(f)
  /\ ent' = Demux(ent, {f}, fs[f].ent)
  /\ fs' = [fs EXCEPT ![f].freed = TRUE, ![f].ent = None]
  /\ UNCHANGED <<disk, now, cache, rows, view, evq, fault>>

-----------------------------------------------------------------------------
(* The events, popped in order.                                            *)
Pop(kind) == Running /\ evq # <<>> /\ Head(evq).kind = kind /\ evq' = Tail(evq)

Commit ==
  /\ Pop("commit")
  /\ rows' = [rows EXCEPT ![Head(evq).dir] = Head(evq).time]
  /\ UNCHANGED <<disk, now, cache, ent, fs, view, fault>>

(* fs_signal_handle: after a cancel the rows go; each fm's model receives  *)
(* them, the menu lists them and closes its nv_fs.                         *)
Recv(v, rs, e) ==
  [f \in Fss |-> IF f \in ent[e].lis \ Menus THEN Received(v[f], rs, ent[e].dir) ELSE v[f]]

KeepsRunning(E, e) == E         \* mutant: `running' is not reset
Idle(E, e) == [E EXCEPT ![e].running = FALSE, ![e].flush = FALSE, ![e].reopen = FALSE]

FsSignalHandle ==
  LET e  == Head(evq).of
      d  == ent[e].dir
      rs == IF ent[e].cancel THEN [rows EXCEPT ![d] = 0] ELSE rows
      menus == ent[e].lis \cap Menus
  IN
  /\ Pop("fs_signal_handle")
  /\ \/ /\ ent[e].st # "freed"
        /\ rows' = rs
        /\ cache' = IF ent[e].cancel /\ cache[d] # 0 THEN [cache EXCEPT ![d] = 0] ELSE cache
        /\ view' = Recv(IF ent[e].cancel THEN Flushed(e, d) ELSE view, rs, e)
        /\ \E closes \in (IF rs[d] = 0 THEN {{}} ELSE SUBSET menus) :
             /\ ent' = Demux(Idle(ent, e), closes, e)
             /\ fs' = [f \in Fss |-> IF f \in closes THEN [fs[f] EXCEPT !.ent = None] ELSE fs[f]]
        /\ UNCHANGED <<disk, now, fault>>
     \/ /\ ent[e].st = "freed"
        /\ fault' = "entry_used_after_fs_demux"
        /\ UNCHANGED <<disk, now, cache, rows, ent, fs, view>>

(* fm_ch_dir, which opens a directory, and menu_ch_dir, which closes its   *)
(* nv_fs and, if the menu is still active, opens one.  An entry closed     *)
(* while its request is out is freed before the request's callback.        *)
OutOnClosed(E) == \E e \in Ents : E[e].st = "closing" /\ ent[e].req # "none"

ChDir ==
  LET f     == Head(evq).of
      d     == Head(evq).dir
      there == Head(evq).time # 0
      E1    == Demux(ent, {f}, fs[f].ent)
  IN
  /\ Pop("stat_cb")
  /\ \/ /\ ~fs[f].freed /\ there /\ ~OutOnClosed(E1) /\ MayOpen(E1, d)
        /\ ent' = Open(E1, f, d)
        /\ fs' = [fs EXCEPT ![f].ent = MuxEnt(E1, d)]
        /\ view' = [view EXCEPT ![f] = [lines |-> "blocking", time |-> 0]]
        /\ UNCHANGED fault
     \/ /\ ~fs[f].freed /\ f \in Menus /\ ~OutOnClosed(E1)
        /\ ent' = E1
        /\ fs' = [fs EXCEPT ![f].ent = None]
        /\ UNCHANGED <<view, fault>>
     \/ /\ ~fs[f].freed /\ f \in Fms /\ ~there
        /\ UNCHANGED <<ent, fs, view, fault>>
     \/ /\ ~fs[f].freed /\ (there \/ f \in Menus) /\ OutOnClosed(E1)
        /\ fault' = "entry_used_after_fs_demux"
        /\ UNCHANGED <<ent, fs, view>>
     \/ /\ fs[f].freed
        /\ fault' = "nv_fs_used_after_fs_cleanup"
        /\ UNCHANGED <<ent, fs, view>>
  /\ UNCHANGED <<disk, now, cache, rows>>

StatCleanup ==
  LET f == Head(evq).of IN
  /\ Pop("stat_cleanup")
  /\ \/ /\ ~fs[f].freed
        /\ fs' = [fs EXCEPT ![f].running = FALSE]
        /\ UNCHANGED fault
     \/ /\ fs[f].freed
        /\ fault' = "nv_fs_used_after_fs_cleanup"
        /\ UNCHANGED fs
  /\ UNCHANGED <<disk, now, cache, rows, ent, view>>

Handle == Commit \/ FsSignalHandle \/ ChDir \/ StatCleanup

-----------------------------------------------------------------------------
Callback(e) ==
  ThreadPool(e) \/ StatCb(e) \/ ScanCb(e) \/ DelEnt(e) \/ WatchCb(e) \/ WatchTimerCb(e)

User ==
  \/ \E d \in Dirs : Reload(d)
  \/ \E f \in Fss : \/ \E d \in Dirs : FsRead(f, d)
                    \/ FsCancel(f)
                    \/ FmDelete(f)

Next ==
  \/ \E e \in Ents : Callback(e)
  \/ \E f \in Fss : StatReadCb(f)
  \/ Handle
  \/ User
  \/ Tick
  \/ \E d \in Dirs : Change(d)

Spec == Init /\ [][Next]_vars

(* The loop polls, the thread pool works, timers fire, events are popped.  *)
(* Nobody has to type, and directories need not change.                    *)
FairSpec ==
  /\ Spec
  /\ \A e \in Ents : /\ WF_vars(ThreadPool(e))
                     /\ WF_vars(StatCb(e)) /\ WF_vars(ScanCb(e))
                     /\ WF_vars(DelEnt(e))
                     /\ WF_vars(WatchCb(e)) /\ WF_vars(WatchTimerCb(e))
  /\ \A f \in Fss : WF_vars(StatReadCb(f))
  /\ WF_vars(Handle)

-----------------------------------------------------------------------------
EntType ==
  [st : {"none", "live", "closing", "freed"}, dir : Dirs, running : BOOLEAN, flush : BOOLEAN,
   cancel : BOOLEAN, reopen : BOOLEAN, req : {"none", "stat", "statted", "scan", "scanned"},
   ctime : Times, seen : Times, watch : BOOLEAN, notified : BOOLEAN, timer : BOOLEAN,
   lis : SUBSET Fss]

(* An entry that is closed or not yet made waits for nothing.              *)
Resting(x) == x = [NoEnt EXCEPT !.st = x.st, !.dir = x.dir, !.cancel = x.cancel]

EventType ==
  [kind : {"commit"}, of : {None}, dir : Dirs, time : Times \ {0}]
  \cup [kind : {"fs_signal_handle"}, of : Ents, dir : Dirs, time : {0}]
  \cup [kind : {"stat_cb", "stat_cleanup"}, of : Fss, dir : Dirs, time : Times]

(* Every variable has its type.                                            *)
TypeOK ==
  /\ disk \in [Dirs -> Times] /\ now \in Times \ {0}
  /\ cache \in [Dirs -> Times] /\ rows \in [Dirs -> Times]
  /\ ent \in [Ents -> EntType] /\ \A e \in Ents : Live(e) \/ Resting(ent[e])
  /\ fs \in [Fss -> [ent : {None} \cup Ents, running : BOOLEAN, stat : BOOLEAN,
                     dir : Dirs, freed : BOOLEAN]]
  /\ view \in [Fss -> [lines : {"blocking", "empty", "listing", "dangling"}, time : Times]]
  /\ evq \in Seq(EventType)
  /\ fault \in {"none", "scan_that_never_ends", "nv_fs_used_after_fs_cleanup",
                "cancel_without_an_entry", "entry_used_after_fs_demux"}

(* `running' is the whole protection of an entry's one uv_fs_t and of the  *)
(* rows between their deletion and their commit: it is set exactly from    *)
(* the start of a stat until its fs_signal_handle, and there is one at     *)
(* most of request and signal, so that no request is started in another's  *)
(* uv_fs_t and no scan deletes rows that an earlier one is committing.     *)
RunningMatches ==
  Running => \A e \in Ents : Live(e) =>
    /\ ent[e].running <=> ent[e].req # "none" \/ Signalled(e) # {}
    /\ Cardinality(Signalled(e)) + (IF ent[e].req = "none" THEN 0 ELSE 1) <= 1

(* ent_tbl, the listeners of an entry and fs->ent agree: a directory has   *)
(* one entry, which lives as long as an nv_fs has it open and no longer,   *)
(* so that fs_signal_handle reaches every window on the directory and none *)
(* that left it.                                                           *)
ListenersMatch ==
  Running =>
    /\ \A e \in Ents : Live(e) =>
         /\ Of(ent, ent[e].dir) = {e}
         /\ ent[e].lis # {} /\ ent[e].lis = {f \in Fss : fs[f].ent = e}
    /\ \A f \in Fss : fs[f].ent # None => Live(fs[f].ent)

(* Rows are replaced as a whole: a window that lists a directory lists the *)
(* rows the table has of it, unless another one's scan freed them, and it  *)
(* is never given the rows of half a scan: it is left empty only where a   *)
(* user cancels or a directory is removed.                                 *)
ListingsMatch ==
  \A f \in Fms : ~fs[f].freed =>
    /\ view[f].lines = "listing" => view[f].time = rows[ent[fs[f].ent].dir]
    /\ view[f].lines = "empty"   => MayCancel \/ MayVanish

(* An entry at rest is watched or has its timer running: no change goes    *)
(* unnoticed for good.  Stated of directories that stay: one that is not   *)
(* there when its stat is started cannot be watched, and the stat may find *)
(* it made again.                                                          *)
NeverBlind ==
  ~MayVanish => \A e \in Ents : Live(e) /\ ~ent[e].running /\ ~ent[e].cancel =>
    ent[e].watch \/ ent[e].timer

(* What DO_EVENTS_UNTIL(!fs_blocking()) of fm_req_dir and fm_delete waits  *)
(* for comes: every request ends in its signal.                            *)
TurnsIdle ==
  \A e \in Ents :
    (Live(e) /\ ent[e].running) ~> (~Live(e) \/ ~ent[e].running \/ ~Running)

(* A window that stays in a directory shows what the last change of it     *)
(* made of it, whichever way watch, timer, stat, cache and scan raced.     *)
Shown ==
  \A f \in Fms, d \in Dirs, t \in Times \ {0} :
    <>[](/\ Running /\ fs[f].ent # None /\ disk[d] = t
         /\ ent[fs[f].ent].dir = d /\ ~ent[fs[f].ent].cancel)
      => []<>(view[f] = [lines |-> "listing", time |-> t])

-----------------------------------------------------------------------------
(* The inductive invariant: besides the above, the signal of an entry      *)
(* comes after the commits of its directory's rows, which are all done     *)
(* when the entry is at rest;                                              *)
Commits(d) == {i \in DOMAIN evq : evq[i].kind = "commit" /\ evq[i].dir = d}

SignalsMatch ==
  Running => \A e \in Ents :
    /\ ent[e].st = "none" => Signalled(e) = {}
    /\ Live(e) => /\ ~ent[e].running => Commits(ent[e].dir) = {}
                  /\ \A j \in Signalled(e), i \in Commits(ent[e].dir) : i < j

(* a window lists rows that are there, and no other rows are on their way; *)
ViewsMatch ==
  \A f \in Fms : ~fs[f].freed /\ view[f].lines = "listing" =>
    /\ fs[f].ent # None /\ view[f].time = rows[ent[fs[f].ent].dir]
    /\ Running => Commits(ent[fs[f].ent].dir) = {}

(* directories that stay are watched;                                      *)
WatchMatch ==
  ~MayVanish => /\ \A d \in Dirs : disk[d] # 0
                /\ \A e \in Ents : Live(e) => ent[e].watch \/ ent[e].timer

(* and without cancels a cached directory has its rows, or they come.      *)
Coming(d) == rows[d] # 0 \/ Commits(d) # {}

RowsMatch ==
  ~MayVanish /\ ~MayCancel =>
    /\ \A e \in Ents : ~ent[e].cancel /\ (ent[e].req = "statted" => ent[e].ctime # 0)
    /\ \A f \in Fms : ~fs[f].freed => view[f].lines # "empty"
    /\ Running => /\ \A d \in Dirs : cache[d] # 0 => Coming(d)
                  /\ \A e \in Ents : Live(e) /\ Signalled(e) # {} => Coming(ent[e].dir)

IInv ==
  /\ TypeOK /\ RunningMatches /\ ListenersMatch
  /\ SignalsMatch /\ ViewsMatch /\ WatchMatch /\ RowsMatch
=============================================================================
