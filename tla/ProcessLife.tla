----------------------------- MODULE ProcessLife -----------------------------
(***************************************************************************)
(* The life of child processes in nav: event/shell.c on event/process.c,   *)
(* event/uv_process.c, event/stream.c and event/wstream.c.                 *)
(*                                                                         *)
(* A Shell embeds a Process and its three pipes.  shell_start spawns it    *)
(* (or notes `again' while it still runs), its exit closes the pipes and   *)
(* the handle, the last close callback queues process_close_event, and     *)
(* that calls process_exit, which frees the Shell or starts it again.      *)
(* process_stop asks for termination; a timer shared by all children       *)
(* sends the signals.  What the children write is in module RStream.       *)
(***************************************************************************)
EXTENDS Integers, Sequences, FiniteSets

CONSTANTS
  Shells,      \* all Shell objects
  RegShells,   \* those made by shell_exec: run once, then freed
  MaxStarts    \* bound: times a Shell is started

ASSUME ShellAssumption ==
  /\ RegShells \subseteq Shells
  /\ MaxStarts \in Nat

VARIABLES
  phase,        \* what the loop is running: callbacks of libuv, or eventq
  evq,          \* Loop.eventq, the events about shells
  fault,        \* undefined behaviour or a failed assertion ended the run
  gen,          \* times spawned (history)
  handle,       \* the libuv handles: three pipes and the process
  closed,       \* Stream.closed
  refcount,     \* Process.refcount
  pending,      \* Stream.pending_reqs of stdin: a write_cb is due
  os,           \* the child as the kernel sees it
  stopped,      \* Process.stopped_time: 0 never, else how long ago
  termSent,     \* Process.term_sent
  stopReq,      \* process_stop counted a request for this run (history)
  children,     \* Loop.children
  stopRequests, \* Loop.children_stop_requests
  timer,        \* Loop.children_kill_timer is active
  blocking, again, msg, freed   \* Shell fields; freed: the object is gone

procVars  == <<gen, handle, closed, refcount, pending, os>>
stopVars  == <<stopped, termSent, stopReq, stopRequests, timer>>
shellVars == <<blocking, again, msg, freed>>
vars == <<phase, evq, fault, procVars, stopVars, children, shellVars>>

-----------------------------------------------------------------------------
Streams   == {"in", "out", "err"}
Resources == Streams \cup {"proc"}
Phases    == {"callbacks", "events", "poll", "signals", "closing"}
Kinds     == {"process_close_handles", "stream_cleanup_cb", "process_close_event"}

Young  == 1     \* less than TERM_TIMEOUT ago
Term   == 2     \* at least TERM_TIMEOUT, less than KILL_TIMEOUT
Kill   == 3     \* at least KILL_TIMEOUT

Event(kind, p) == [kind |-> kind, sh |-> p, gen |-> gen[p]]

(* shell_new, shell_exec: process_init                                     *)
Init ==
  /\ phase = "callbacks"
  /\ evq = <<>>
  /\ fault = "none"
  /\ gen = [p \in Shells |-> 0]
  /\ handle = [p \in Shells |-> [r \in Resources |-> "none"]]
  /\ closed = [p \in Shells |-> [s \in Streams |-> FALSE]]
  /\ refcount = [p \in Shells |-> 0]
  /\ pending = [p \in Shells |-> FALSE]
  /\ os = [p \in Shells |-> "none"]
  /\ stopped = [p \in Shells |-> 0]
  /\ termSent = [p \in Shells |-> FALSE]
  /\ stopReq = [p \in Shells |-> FALSE]
  /\ children = {}
  /\ stopRequests = 0
  /\ timer = FALSE
  /\ blocking = [p \in Shells |-> FALSE]
  /\ again = [p \in Shells |-> FALSE]
  /\ msg = [p \in Shells |-> FALSE]
  /\ freed = [p \in Shells |-> FALSE]

-----------------------------------------------------------------------------
(* The loop.  An iteration runs due timers and write callbacks, then the   *)
(* event queue, the poll (signals, SIGCHLD among them, last) and the close *)
(* callbacks; but the drains of module EventLoop also run from a callback  *)
(* of the poll, and iterate from inside the drain.  All due write, exit    *)
(* and close callbacks are run before their phase ends.                    *)
Running == fault = "none"

NextPhase ==
  /\ Running
  /\ \/ /\ phase = "callbacks"
        /\ \A p \in Shells : ~pending[p]
        /\ phase' \in {"events", "poll"}
     \/ phase = "events" /\ phase' \in {"callbacks", "poll"}
     \/ phase = "poll" /\ phase' \in {"events", "signals"}
     \/ /\ phase = "signals"
        /\ \A p \in Shells : os[p] # "dead"
        /\ phase' = "closing"
     \/ /\ phase = "closing"
        /\ \A p \in Shells, r \in Resources : handle[p][r] # "closing"
        /\ phase' \in {"callbacks", "events", "poll"}
  /\ UNCHANGED <<evq, fault, procVars, stopVars, children, shellVars>>

-----------------------------------------------------------------------------
(* process_spawn succeeded: fresh streams, four references.                *)
Spawned(p) ==
  /\ gen' = [gen EXCEPT ![p] = @ + 1]
  /\ refcount' = [refcount EXCEPT ![p] = @ + 4]
  /\ os' = [os EXCEPT ![p] = "alive"]
  /\ children' = children \cup {p}
  /\ blocking' = [blocking EXCEPT ![p] = TRUE]

StreamsInit(p) ==
  /\ handle' = [handle EXCEPT ![p] = [r \in Resources |-> "open"]]
  /\ closed' = [closed EXCEPT ![p] = [s \in Streams |-> FALSE]]

(* ... and there is no input, or uv_write takes it.                        *)
SpawnPlain(p) ==
  /\ Spawned(p)
  /\ StreamsInit(p)
  /\ pending' = [pending EXCEPT ![p] = msg[p]]
  /\ stopReq' = [stopReq EXCEPT ![p] = FALSE]
  /\ UNCHANGED <<fault, stopped, termSent, stopRequests, timer>>

(* ... and uv_write refuses it: shell_write calls process_stop, which does *)
(* nothing if stopped_time is set, else closes stdin and counts a request. *)
SpawnUnwritable(p) ==
  /\ msg[p]
  /\ Spawned(p)
  /\ pending' = [pending EXCEPT ![p] = FALSE]
  /\ \/ /\ stopped[p] # 0
        /\ StreamsInit(p)
        /\ stopReq' = [stopReq EXCEPT ![p] = FALSE]
        /\ UNCHANGED <<stopped, stopRequests, timer>>
     \/ /\ stopped[p] = 0
        /\ handle' = [handle EXCEPT ![p] =
                        [r \in Resources |-> IF r = "in" THEN "closing" ELSE "open"]]
        /\ closed' = [closed EXCEPT ![p] = [s \in Streams |-> s = "in"]]
        /\ stopped' = [stopped EXCEPT ![p] = Young]
        /\ stopReq' = [stopReq EXCEPT ![p] = TRUE]
        /\ stopRequests' = stopRequests + 1
        /\ timer' = TRUE
  /\ UNCHANGED <<fault, termSent>>

(* process_spawn failed: it closes the handles and frees argv, which is a  *)
(* static array for every caller of shell_args.                            *)
SpawnFails(p) ==
  /\ fault' = "static_array_freed"
  /\ blocking' = [blocking EXCEPT ![p] = FALSE]
  /\ UNCHANGED <<procVars, stopVars, children>>

Spawn(p) == SpawnPlain(p) \/ SpawnUnwritable(p) \/ SpawnFails(p)

(* shell_start, from a handler or a callback of the poll.                  *)
NeverBlocks(p) == FALSE        \* mutant: no test of Shell.blocking
Blocks(p) == blocking[p]

ShellStart(p) ==
  /\ Running
  /\ phase \in {"events", "poll"}
  /\ ~freed[p] /\ gen[p] < MaxStarts
  /\ p \in RegShells => gen[p] = 0
  /\ \/ /\ Blocks(p)
        /\ again' = [again EXCEPT ![p] = TRUE]
        /\ UNCHANGED <<fault, procVars, stopVars, children, blocking>>
     \/ /\ ~Blocks(p)
        /\ Spawn(p)
        /\ UNCHANGED again
  /\ UNCHANGED <<phase, evq, msg, freed>>

(* shell_set_in_buffer *)
ShellSetInBuffer(p) ==
  /\ Running
  /\ phase \in {"events", "poll"}
  /\ p \notin RegShells /\ ~freed[p] /\ ~msg[p]
  /\ msg' = [msg EXCEPT ![p] = TRUE]
  /\ UNCHANGED <<phase, evq, fault, procVars, stopVars, children, blocking, again, freed>>

(* shell_delete: img_delete waits until the shell does not block.          *)
MayDeleteAlways(p) == TRUE     \* mutant: img_delete does not wait
MayDelete(p) == ~blocking[p]

ShellDelete(p) ==
  /\ Running
  /\ phase \in {"events", "poll"}
  /\ p \notin RegShells /\ ~freed[p]
  /\ MayDelete(p)
  /\ freed' = [freed EXCEPT ![p] = TRUE]
  /\ UNCHANGED <<phase, evq, fault, procVars, stopVars, children, blocking, again, msg>>

-----------------------------------------------------------------------------
(* What the loop delivers.                                                 *)

(* write_cb and shell_write_cb: everything is written, close stdin.        *)
WriteCb(p) ==
  /\ Running
  /\ phase = "callbacks" /\ pending[p]
  /\ \/ /\ closed[p]["in"]
        /\ fault' = "stream_closed"
        /\ UNCHANGED <<closed, pending, handle>>
     \/ /\ ~closed[p]["in"]
        /\ closed' = [closed EXCEPT ![p]["in"] = TRUE]
        /\ pending' = [pending EXCEPT ![p] = FALSE]
        /\ handle' = [handle EXCEPT ![p]["in"] = "closing"]
        /\ UNCHANGED fault
  /\ UNCHANGED <<phase, evq, gen, refcount, os, stopVars, children, shellVars>>

(* The child ends ...                                                      *)
Die(p) ==
  /\ Running
  /\ os[p] = "alive"
  /\ os' = [os EXCEPT ![p] = "dead"]
  /\ UNCHANGED <<phase, evq, fault, gen, handle, closed, refcount, pending, stopVars,
                 children, shellVars>>

(* ... and exit_cb, on_process_exit: one stop request less, and the        *)
(* handles are closed by an event, after the data that is still read.      *)
CountsEveryExit(p) == stopRequests > 0      \* mutant: stopped_time is not looked at
CountedStop(p) == stopped[p] # 0 /\ stopRequests > 0

ExitCb(p) ==
  /\ Running
  /\ phase = "signals" /\ os[p] = "dead"
  /\ os' = [os EXCEPT ![p] = "reaped"]
  /\ IF CountedStop(p)
     THEN /\ stopRequests' = stopRequests - 1
          /\ timer' = (timer /\ stopRequests > 1)
     ELSE UNCHANGED <<stopRequests, timer>>
  /\ evq' = Append(evq, Event("process_close_handles", p))
  /\ UNCHANGED <<phase, fault, gen, handle, closed, refcount, pending, stopped, termSent,
                 stopReq, children, shellVars>>

(* close_cb of a pipe, its buffer freed by an event, or of the process;    *)
(* decref: the last one unlinks the child and queues process_close_event.  *)
LastRef(p) == refcount[p] = 1

CloseCb(p, r) ==
  /\ Running
  /\ phase = "closing" /\ handle[p][r] = "closing"
  /\ handle' = [handle EXCEPT ![p][r] = "none"]
  /\ refcount' = [refcount EXCEPT ![p] = @ - 1]
  /\ children' = IF LastRef(p) THEN children \ {p} ELSE children
  /\ evq' = evq
       \o (IF r \in {"out", "err"} THEN << Event("stream_cleanup_cb", p) >> ELSE <<>>)
       \o (IF LastRef(p) THEN << Event("process_close_event", p) >> ELSE <<>>)
  /\ UNCHANGED <<phase, fault, gen, closed, pending, os, stopVars, shellVars>>

-----------------------------------------------------------------------------
(* The events, popped in order.                                            *)
Pop(kind, p) ==
  /\ Running
  /\ phase = "events" /\ evq # <<>>
  /\ Head(evq).kind = kind /\ Head(evq).sh = p
  /\ evq' = Tail(evq)

(* process_close_streams and process_close: stdin with a write under way   *)
(* is only marked, its handle is closed by write_cb.                       *)
ToClose(p) == {"proc"} \cup {s \in Streams : ~closed[p][s] /\ (s = "in" => ~pending[p])}

ProcessCloseHandles(p) ==
  /\ Pop("process_close_handles", p)
  /\ closed' = [closed EXCEPT ![p] = [s \in Streams |-> TRUE]]
  /\ handle' = [handle EXCEPT ![p] =
       [r \in Resources |-> IF r \in ToClose(p) THEN "closing" ELSE @[r]]]
  /\ UNCHANGED <<phase, fault, gen, refcount, pending, os, stopVars, children, shellVars>>

StreamCleanup(p) ==
  /\ Pop("stream_cleanup_cb", p)
  /\ UNCHANGED <<phase, fault, procVars, stopVars, children, shellVars>>

(* process_close_event: process_exit, which starts the shell again or      *)
(* frees the one made by shell_exec.                                       *)
ForgetsAgain(p) == FALSE       \* mutant: `again' is not honoured
StartsAgain(p) == again[p]

ProcessExit(p) ==
  /\ Pop("process_close_event", p)
  /\ again' = [again EXCEPT ![p] = FALSE]
  /\ freed' = [freed EXCEPT ![p] = @ \/ p \in RegShells]
  /\ IF StartsAgain(p)
     THEN Spawn(p)
     ELSE /\ blocking' = [blocking EXCEPT ![p] = FALSE]
          /\ UNCHANGED <<fault, procVars, stopVars, children>>
  /\ UNCHANGED <<phase, msg>>

-----------------------------------------------------------------------------
(* Time since process_stop, and the timer that chases stopped children.    *)
Tick(p) ==
  /\ Running
  /\ stopped[p] \in {Young, Term}
  /\ stopped' = [stopped EXCEPT ![p] = @ + 1]
  /\ UNCHANGED <<phase, evq, fault, procVars, termSent, stopReq, stopRequests, timer,
                 children, shellVars>>

(* children_kill_cb: SIGTERM is up to the child, SIGKILL ends it.          *)
TermDue(p) == stopped[p] >= Term /\ ~termSent[p]
KillDueUnsent(p) == stopped[p] = Kill /\ ~termSent[p] /\ ~TermDue(p)  \* mutant
KillDue(p) == stopped[p] = Kill /\ ~TermDue(p)

ChildrenKillCb ==
  /\ Running
  /\ phase = "callbacks" /\ timer
  /\ termSent' = [p \in Shells |-> termSent[p] \/ (p \in children /\ TermDue(p))]
  /\ os' = [p \in Shells |->
       IF p \in children /\ KillDue(p) /\ os[p] = "alive" THEN "dead" ELSE os[p]]
  /\ UNCHANGED <<phase, evq, fault, gen, handle, closed, refcount, pending, stopped,
                 stopReq, stopRequests, timer, children, shellVars>>

(* A failed assertion or a free of a static array aborts nav.              *)
Aborted == ~Running /\ UNCHANGED vars

-----------------------------------------------------------------------------
Handle(p) == ProcessCloseHandles(p) \/ StreamCleanup(p) \/ ProcessExit(p)

Next ==
  \/ NextPhase \/ ChildrenKillCb \/ Aborted
  \/ \E p \in Shells :
       \/ ShellStart(p) \/ ShellSetInBuffer(p) \/ ShellDelete(p)
       \/ WriteCb(p) \/ Die(p) \/ ExitCb(p) \/ Handle(p) \/ Tick(p)
       \/ \E r \in Resources : CloseCb(p, r)

Spec == Init /\ [][Next]_vars

-----------------------------------------------------------------------------
(* Flags, counters and handles of every Shell stay in range: no request    *)
(* to stop is uncounted twice.                                             *)
TypeOK ==
  /\ phase \in Phases
  /\ evq \in Seq([kind : Kinds, sh : Shells, gen : Nat])
  /\ fault \in {"none", "static_array_freed", "stream_closed"}
  /\ gen \in [Shells -> Nat]
  /\ handle \in [Shells -> [Resources -> {"none", "open", "closing"}]]
  /\ closed \in [Shells -> [Streams -> BOOLEAN]]
  /\ refcount \in [Shells -> Int]
  /\ pending \in [Shells -> BOOLEAN]
  /\ os \in [Shells -> {"none", "alive", "dead", "reaped"}]
  /\ stopped \in [Shells -> 0..Kill]
  /\ termSent \in [Shells -> BOOLEAN]
  /\ stopReq \in [Shells -> BOOLEAN]
  /\ children \subseteq Shells
  /\ stopRequests \in Nat
  /\ timer \in BOOLEAN
  /\ blocking \in [Shells -> BOOLEAN]
  /\ again \in [Shells -> BOOLEAN]
  /\ msg \in [Shells -> BOOLEAN]
  /\ freed \in [Shells -> BOOLEAN]

One(h) == IF h = "none" THEN 0 ELSE 1

(* The references of a process are its live handles, and it is on the      *)
(* loop's list of children as long as it has one: decref neither unlinks   *)
(* it early nor is called once too often.                                  *)
RefcountMatches ==
  \A p \in Shells :
    /\ refcount[p] = One(handle[p]["in"]) + One(handle[p]["out"])
                     + One(handle[p]["err"]) + One(handle[p]["proc"])
    /\ p \in children <=> refcount[p] > 0

Queued(kind, p) == \E i \in 1..Len(evq) : evq[i].kind = kind /\ evq[i].sh = p

(* A Shell is blocking from its start until process_exit: it has handles   *)
(* or its process_close_event is queued.                                   *)
BlockingMatches ==
  \A p \in Shells : blocking[p] <=> refcount[p] > 0 \/ Queued("process_close_event", p)

(* Shell objects are reused and freed while events hold pointers to them   *)
(* and to their streams: every queued event is for the present run of a    *)
(* live object, and a freed object has no handle, write or event left.     *)
NoStaleEvents ==
  /\ \A i \in 1..Len(evq) : evq[i].gen = gen[evq[i].sh] /\ ~freed[evq[i].sh]
  /\ \A p \in Shells : freed[p] => /\ \A r \in Resources : handle[p][r] = "none"
                                   /\ ~pending[p] /\ ~blocking[p]

(* The children whose process_stop was counted and that are not reaped are *)
(* those the counter counts, as long as no shell was started twice (the    *)
(* stopped_time of a run is still there in the next one).                  *)
StopsCounted ==
  (\A p \in Shells : gen[p] <= 1) =>
    stopRequests = Cardinality({p \in Shells : stopReq[p] /\ os[p] \in {"alive", "dead"}})

(* A child is spawned from clean streams: all four handles closed, no      *)
(* write under way, the previous child reaped, and no event of the         *)
(* previous run queued behind it.                                          *)
SpawnClean ==
  [][\A p \in Shells : gen'[p] # gen[p] =>
       /\ \A r \in Resources : handle[p][r] = "none"
       /\ ~pending[p] /\ os[p] \in {"none", "reaped"}
       /\ \A i \in 1..Len(evq') : evq'[i].sh # p]_vars

-----------------------------------------------------------------------------
(* The inductive invariant: besides the above,                             *)

(* The kill timer runs as long as a stop request is counted.               *)
TimerMatches == timer <=> stopRequests > 0

(* what each queued event may rely on: process_close_handles comes once,   *)
(* before the process handle is closed; process_close_event comes last;    *)
EventsInOrder ==
  \A i \in 1..Len(evq) : LET p == evq[i].sh IN
    /\ blocking[p]
    /\ evq[i].kind = "process_close_handles" =>
         /\ handle[p]["proc"] = "open" /\ os[p] = "reaped"
         /\ \A j \in 1..Len(evq) : evq[j].kind = evq[i].kind /\ evq[j].sh = p => j = i
    /\ evq[i].kind = "process_close_event" =>
         /\ refcount[p] = 0
         /\ \A j \in (i+1)..Len(evq) : evq[j].sh # p

(* how the flag `closed', the write under way and the child's state go     *)
(* with the handles;                                                       *)
HandlesMatch ==
  \A p \in Shells :
    /\ \A s \in Streams :
         /\ handle[p][s] = "closing" => closed[p][s]
         /\ ~closed[p][s] /\ handle[p]["proc"] # "none" => handle[p][s] = "open"
    /\ pending[p] => handle[p]["in"] = "open"
    /\ os[p] \in {"alive", "dead"} => handle[p]["proc"] = "open"

(* and a Shell of shell_exec is never asked to start again.                *)
StartedOnce ==
  \A p \in Shells : /\ p \in RegShells => ~again[p]
                    /\ gen[p] = 0 => ~blocking[p]

IInv == /\ TypeOK /\ RefcountMatches /\ BlockingMatches /\ NoStaleEvents /\ TimerMatches
        /\ EventsInOrder /\ HandlesMatch /\ StartedOnce

(* For the stop requests: nothing is known of a Shell before its first     *)
(* run, and in its first run stopped_time is set by a request only.        *)
StopsMatch ==
  \A p \in Shells :
    /\ gen[p] = 0 => os[p] = "none" /\ stopped[p] = 0 /\ ~stopReq[p]
    /\ gen[p] = 1 => (stopReq[p] <=> stopped[p] # 0)

-----------------------------------------------------------------------------
(* The phases come round (module EventLoop), what is queued or due is run, *)
(* the clock moves; children need not end by themselves.                   *)
GoTo(ph) == NextPhase /\ phase' = ph
Deliver  == \E p \in Shells : WriteCb(p) \/ ExitCb(p) \/ \E r \in Resources : CloseCb(p, r)

LoopFairness ==
  /\ WF_vars(NextPhase \/ Deliver)
  /\ \A ph \in Phases \ {"closing"} : SF_vars(GoTo(ph))
  /\ SF_vars(\E p \in Shells : Handle(p))
TimerFairness == SF_vars(ChildrenKillCb) /\ \A p \in Shells : WF_vars(Tick(p))

FairSpec == Spec /\ LoopFairness /\ TimerFairness

(* A Shell with all its handles, references and events is the Shell of     *)
(* module Shell: what has ended is always seen through to process_exit,    *)
(* and a start asked for meanwhile is neither lost nor made twice.         *)
Abstract == INSTANCE Shell WITH
  run <- [p \in Shells |->
            IF ~Running THEN "lost" ELSE IF ~blocking[p] THEN "idle"
            ELSE IF os[p] = "alive" THEN "runs" ELSE "over"],
  again <- [p \in Shells |-> Running /\ again[p]],
  freed <- [p \in Shells |-> Running /\ freed[p]]

ImplementsShell == Abstract!Spec

(* A child that ignores its closed stdin and SIGTERM is still got rid of.  *)
StoppedEnds == \A p \in Shells : stopReq[p] ~> os[p] \in {"none", "reaped"} \/ ~Running

=============================================================================
