------------------------------ MODULE EventLoop ------------------------------
(***************************************************************************)
(* The main loop of nav: event/event.c on top of libuv.                    *)
(*                                                                         *)
(* One thread runs everything, but the loop is re-entrant: prepare_events  *)
(* runs uv_run from inside a libuv prepare callback, and a handler may     *)
(* call event_cycle_once (confirm, do_ftw) or DO_EVENTS_UNTIL, which run   *)
(* handlers and uv_run again.  The state is therefore the C call stack,    *)
(* one frame for every active call of these functions, beside the two      *)
(* queues, the `running' flag, whether the prepare handle is started and   *)
(* libuv's stop flag.                                                      *)
(***************************************************************************)
EXTENDS Naturals, Sequences, FiniteSets

CONSTANTS
  MaxEvents,     \* bound: events put on one queue in a behaviour
  MaxNest,       \* bound: nested event_cycle_once / DO_EVENTS_UNTIL calls
  MaxCallbacks   \* bound: callbacks one phase of a libuv iteration delivers

ASSUME BoundsAssumption ==
  /\ MaxEvents \in Nat
  /\ MaxNest \in Nat
  /\ MaxCallbacks \in Nat \ {0}

VARIABLES
  queue,      \* Loop.eventq and Loop.drawq: numbers of the pending events
  put,        \* how many events each queue was given so far
  running,    \* Loop.running
  prepare,    \* Loop.event_prepare is started
  stopFlag,   \* libuv's stop_flag, set by stop_event_loop
  quit,       \* stop_event_loop was called (history)
  stack       \* active calls, the innermost last

vars == <<queue, put, running, prepare, stopFlag, quit, stack>>

-----------------------------------------------------------------------------
Queues  == {"eventq", "drawq"}
UvRuns  == {"uv_run_default", "uv_run_nowait", "uv_run_once"}
Untils  == {"until_idle", "until"}
Drains  == {"prepare_events", "event_cycle_once"} \cup Untils
Nesting == {"event_cycle_once", "until"}

Functions == UvRuns \cup Drains \cup {"main", "handler"}
Points    == {"start", "drain", "exit", "enter", "timers", "prepare", "poll",
              "closing", "cond", "eventq", "drawq", "check", "once", "ret"}

(* A frame: the function, where it stands, what it has delivered in this   *)
(* phase, and event_cycle_once's local `pstate'.                           *)
Frame == [fn : Functions, pc : Points, n : 0..MaxCallbacks, pstate : BOOLEAN]

Call(fn, pc)  == [fn |-> fn, pc |-> pc, n |-> 0, pstate |-> FALSE]
Top           == stack[Len(stack)]
At(fns, pc)   == stack # <<>> /\ Top.fn \in fns /\ Top.pc = pc
Goto(pc, n)   == [stack EXCEPT ![Len(stack)] = [@ EXCEPT !.pc = pc, !.n = n]]
Pop           == SubSeq(stack, 1, Len(stack) - 1)

(* mainloop_busy *)
Busy == \E k \in Queues : queue[k] # <<>>

Init ==
  /\ queue = [k \in Queues |-> <<>>]
  /\ put = [k \in Queues |-> 0]
  /\ running = FALSE
  /\ prepare = FALSE
  /\ stopFlag = FALSE
  /\ quit = FALSE
  /\ stack = << Call("main", "start") >>

-----------------------------------------------------------------------------
(* main: start_event_loop, then DO_EVENTS_UNTIL(!mainloop_busy()).         *)
MainStart ==
  /\ At({"main"}, "start")
  /\ stack' = Append(Goto("drain", 0), Call("uv_run_default", "enter"))
  /\ UNCHANGED <<queue, put, running, prepare, stopFlag, quit>>

MainDrain ==
  /\ At({"main"}, "drain")
  /\ stack' = Append(Goto("exit", 0), Call("until_idle", "cond"))
  /\ UNCHANGED <<queue, put, running, prepare, stopFlag, quit>>

MainExit == At({"main"}, "exit") /\ UNCHANGED vars

-----------------------------------------------------------------------------
(* uv_run: an iteration runs timers and pending callbacks, the prepare     *)
(* handle, the poll, and close callbacks.  The stop flag is tested before  *)
(* an iteration and cleared by whichever uv_run returns.                   *)
RunReturn == stack' = Pop /\ stopFlag' = FALSE

RunEnter ==
  /\ At(UvRuns, "enter")
  /\ \/ stopFlag /\ RunReturn
     \/ ~stopFlag /\ stack' = Goto("timers", 0) /\ UNCHANGED stopFlag
  /\ UNCHANGED <<queue, put, running, prepare, quit>>

RunCallback(phase) ==
  /\ At(UvRuns, phase)
  /\ Top.n < MaxCallbacks
  /\ stack' = Append(Goto(phase, Top.n + 1), Call("handler", "start"))
  /\ UNCHANGED <<queue, put, running, prepare, stopFlag, quit>>

RunTimers ==
  /\ At(UvRuns, "timers")
  /\ stack' = Goto("prepare", 0)
  /\ UNCHANGED <<queue, put, running, prepare, stopFlag, quit>>

(* The prepare phase with the handle started: prepare_events, which        *)
(* returns at once when the loop is already running.                       *)
MayDrainReentrant == TRUE      \* mutant: no test of `running'
MayDrain == ~running

RunPrepare ==
  /\ At(UvRuns, "prepare")
  /\ \/ /\ prepare /\ MayDrain
        /\ running' = TRUE
        /\ stack' = Append(Goto("poll", 0), Call("prepare_events", "eventq"))
     \/ /\ ~(prepare /\ MayDrain)
        /\ stack' = Goto("poll", 0)
        /\ UNCHANGED running
  /\ UNCHANGED <<queue, put, prepare, stopFlag, quit>>

(* The poll blocks until something arrives, unless the mode is NOWAIT or   *)
(* the stop flag is set.                                                   *)
RunPoll ==
  /\ At(UvRuns, "poll")
  /\ Top.fn = "uv_run_nowait" \/ Top.n > 0 \/ stopFlag
  /\ stack' = Goto("closing", 0)
  /\ UNCHANGED <<queue, put, running, prepare, stopFlag, quit>>

RunEnd ==
  /\ At(UvRuns, "closing")
  /\ \/ Top.fn = "uv_run_default" /\ stack' = Goto("enter", 0) /\ UNCHANGED stopFlag
     \/ Top.fn # "uv_run_default" /\ RunReturn
  /\ UNCHANGED <<queue, put, running, prepare, quit>>

-----------------------------------------------------------------------------
(* queue_process_events: pop and run one handler ...                       *)
QueuePop(k) ==
  /\ At(Drains, k)
  /\ queue[k] # <<>>
  /\ queue' = [queue EXCEPT ![k] = Tail(@)]
  /\ stack' = Append(Goto(k, 1), Call("handler", "start"))
  /\ UNCHANGED <<put, running, prepare, stopFlag, quit>>

(* ... until the queue is empty or its time is spent, which the first      *)
(* handler may already do.                                                 *)
QueueDone(k) ==
  /\ At(Drains, k)
  /\ queue[k] = <<>> \/ Top.n > 0
  /\ stack' = Goto(IF k = "eventq" THEN "drawq" ELSE "check", 0)
  /\ UNCHANGED <<queue, put, running, prepare, stopFlag, quit>>

(* prepare_events: after both queues, stop the handle or cycle again.      *)
DrainAgainNever == FALSE       \* mutant: one pass, then stop the handle
DrainAgain == Busy

PrepareCheck ==
  /\ At({"prepare_events"}, "check")
  /\ \/ /\ DrainAgain
        /\ stack' = Append(Goto("eventq", 0), Call("uv_run_nowait", "enter"))
        /\ UNCHANGED <<running, prepare>>
     \/ /\ ~DrainAgain
        /\ prepare' = FALSE
        /\ running' = FALSE
        /\ stack' = Pop
  /\ UNCHANGED <<queue, put, stopFlag, quit>>

(* event_cycle_once: both queues, uv_run NOWAIT, uv_run ONCE, restore.     *)
CycleRun ==
  /\ \/ /\ At({"event_cycle_once"}, "check")
        /\ stack' = Append(Goto("once", 0), Call("uv_run_nowait", "enter"))
     \/ /\ At({"event_cycle_once"}, "once")
        /\ stack' = Append(Goto("ret", 0), Call("uv_run_once", "enter"))
  /\ UNCHANGED <<queue, put, running, prepare, stopFlag, quit>>

Restored == Top.pstate

CycleReturn ==
  /\ At({"event_cycle_once"}, "ret")
  /\ running' = Restored
  /\ stack' = Pop
  /\ UNCHANGED <<queue, put, prepare, stopFlag, quit>>

(* DO_EVENTS_UNTIL(cond): main's waits for empty queues, any other for a   *)
(* condition some handler establishes.                                     *)
UntilCond ==
  /\ At(Untils, "cond")
  /\ \/ (Top.fn = "until_idle" => ~Busy) /\ stack' = Pop
     \/ (Top.fn = "until_idle" => Busy) /\ stack' = Goto("eventq", 0)
  /\ UNCHANGED <<queue, put, running, prepare, stopFlag, quit>>

UntilRun ==
  /\ At(Untils, "check")
  /\ stack' = Append(Goto("cond", 0), Call("uv_run_nowait", "enter"))
  /\ UNCHANGED <<queue, put, running, prepare, stopFlag, quit>>

-----------------------------------------------------------------------------
(* What a handler or a libuv callback may do with the loop.                *)

QueuePush(k, e) == queue' = [queue EXCEPT ![k] = Append(@, e)]

(* queue_put_event starts the prepare handle unless a drain is running,    *)
(* which looks at the queues again before it stops.                        *)
WakeNever == prepare           \* mutant: the handle is not started
Wake == prepare \/ ~running

QueuePutEvent(k) ==
  /\ At({"handler"}, "start")
  /\ put[k] < MaxEvents
  /\ put' = [put EXCEPT ![k] = @ + 1]
  /\ QueuePush(k, put[k] + 1)
  /\ prepare' = Wake
  /\ UNCHANGED <<running, stopFlag, quit, stack>>

CanNest == Cardinality({i \in 1..Len(stack) : stack[i].fn \in Nesting}) < MaxNest

(* event_cycle_once: remember `running' and clear it.                      *)
CallCycle ==
  /\ At({"handler"}, "start")
  /\ CanNest
  /\ running' = FALSE
  /\ stack' = Append(stack, [Call("event_cycle_once", "eventq") EXCEPT !.pstate = running])
  /\ UNCHANGED <<queue, put, prepare, stopFlag, quit>>

CallUntil ==
  /\ At({"handler"}, "start")
  /\ CanNest
  /\ stack' = Append(stack, Call("until", "cond"))
  /\ UNCHANGED <<queue, put, running, prepare, stopFlag, quit>>

(* stop_event_loop, called by :qa                                          *)
StopEventLoop ==
  /\ At({"handler"}, "start")
  /\ ~quit
  /\ stopFlag' = TRUE
  /\ quit' = TRUE
  /\ UNCHANGED <<queue, put, running, prepare, stack>>

HandlerReturn ==
  /\ At({"handler"}, "start")
  /\ stack' = Pop
  /\ UNCHANGED <<queue, put, running, prepare, stopFlag, quit>>

-----------------------------------------------------------------------------
Main    == MainStart \/ MainDrain \/ MainExit
UvRun   == \/ RunEnter \/ RunTimers \/ RunPrepare \/ RunPoll \/ RunEnd
           \/ \E phase \in {"timers", "poll", "closing"} : RunCallback(phase)
Drain   == \/ \E k \in Queues : QueuePop(k) \/ QueueDone(k)
           \/ PrepareCheck \/ CycleRun \/ CycleReturn \/ UntilCond \/ UntilRun
Handler == \/ \E k \in Queues : QueuePutEvent(k)
           \/ CallCycle \/ CallUntil \/ StopEventLoop \/ HandlerReturn

Next == Main \/ UvRun \/ Drain \/ Handler

Spec == Init /\ [][Next]_vars

(* The thread keeps running, what the loop polls for keeps arriving, and   *)
(* handlers return: confirm, the one that may cycle for long, does when    *)
(* the user answers.                                                       *)
FairSpec == Spec /\ WF_vars(Next) /\ SF_vars(HandlerReturn)

-----------------------------------------------------------------------------
(* The queues hold numbers of events, the stack holds calls.               *)
TypeOK ==
  /\ queue \in [Queues -> Seq(Nat)]
  /\ put \in [Queues -> Nat]
  /\ running \in BOOLEAN
  /\ prepare \in BOOLEAN
  /\ stopFlag \in BOOLEAN
  /\ quit \in BOOLEAN
  /\ stack \in Seq(Frame)

(* In the call stack s, a prepare_events call is active at or below frame  *)
(* i and no event_cycle_once call between it and i has lifted it.          *)
RunningAt(s, i) ==
  \E j \in 1..i :
    /\ s[j].fn = "prepare_events"
    /\ \A m \in (j+1)..i : s[m].fn # "event_cycle_once"

(* The flag `running' always says what the call stack says: the innermost  *)
(* of the prepare_events and event_cycle_once calls is a prepare_events.   *)
(* Saving and restoring it around nested calls never leaves it stale.      *)
RunningMatchesStack == running <=> RunningAt(stack, Len(stack))

(* prepare_events is never entered inside itself unless event_cycle_once   *)
(* lifted the guard in between, so a queue has one drain loop per cycle.   *)
NoReentry ==
  \A i \in 1..Len(stack) : stack[i].fn = "prepare_events" => ~RunningAt(stack, i-1)

(* Some event_cycle_once call was made by a handler of prepare_events.     *)
CycledFromDrain ==
  \E i \in 1..Len(stack) : stack[i].fn = "event_cycle_once" /\ stack[i].pstate

Blocked == At({"uv_run_default", "uv_run_once"}, "poll") /\ Top.n = 0 /\ ~stopFlag

(* No event sleeps: when the thread waits in the poll both queues are      *)
(* empty.  The one exception is a wait inside an event_cycle_once called   *)
(* by a handler of prepare_events: its time-limited drain may leave events *)
(* although the prepare handle was stopped by an earlier cycle.            *)
NoSleepingEvents == Blocked /\ Busy => CycledFromDrain

(* The inductive invariant behind these.  Each function is called from     *)
(* where the code calls it; a uv_run waiting below a callback has n > 0.   *)
WellNested ==
  /\ stack # <<>>
  /\ \A i \in 1..Len(stack) :
       /\ stack[i].fn = "main" <=> i = 1
       /\ stack[i].fn \in UvRuns => stack[i-1].fn \in Drains \cup {"main"}
       /\ stack[i].fn = "uv_run_once" => stack[i-1].fn = "event_cycle_once"
       /\ stack[i].fn = "uv_run_default" => i = 2
       /\ stack[i].fn = "prepare_events" => stack[i-1].fn \in UvRuns
       /\ stack[i].fn = "until_idle" => stack[i-1].fn = "main"
       /\ stack[i].fn \in Nesting => stack[i-1].fn = "handler"
       /\ stack[i].fn = "handler" => stack[i-1].n > 0

(* Every event_cycle_once saved the value its callers' frames stand for.   *)
PstateMatches ==
  \A i \in 1..Len(stack) :
    stack[i].fn = "event_cycle_once" => (stack[i].pstate <=> RunningAt(stack, i-1))

(* Pending events keep the loop awake ...                                  *)
Awake == Busy => running \/ prepare \/ CycledFromDrain

(* ... and were drained by the time the poll starts.                       *)
PollIdle ==
  At(UvRuns, "poll") /\ Top.n = 0 /\ Busy => running \/ CycledFromDrain

IInv == /\ TypeOK /\ WellNested /\ RunningMatchesStack /\ NoReentry
        /\ PstateMatches /\ Awake /\ PollIdle

(* Every event put on a queue is eventually handed to its handler.         *)
EventsHandled ==
  \A k \in Queues : \A e \in 1..MaxEvents :
    (put[k] >= e) ~> (put[k] - Len(queue[k]) >= e)

=============================================================================
