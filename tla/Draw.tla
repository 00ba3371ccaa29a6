-------------------------------- MODULE Draw --------------------------------
(***************************************************************************)
(* Drawing: buffers (tui/buffer.c) and their status lines (tui/overlay.c)  *)
(* ask to be drawn by events, the window (tui/window.c) counts the         *)
(* requests, and a timer that runs while it is dirty shows the screen once *)
(* they are all done.  Buffers are deleted while requests for them wait,   *)
(* and signals run the loop inside of whatever runs.                       *)
(***************************************************************************)
EXTENDS Integers, Sequences, FiniteSets, SequencesExt

CONSTANTS Bufs, Ovs,    \* addresses of buffers and overlays
          NoOv,
          MaxHandlers,  \* bound: handlers that change a buffer
          MaxSignals    \* bound: SIGWINCHes

ASSUME DrawAssumption == IsFiniteSet(Bufs) /\ MaxHandlers \in Nat /\ MaxSignals \in Nat

VARIABLES buf,     \* the buffer at each address
          ov,      \* the overlay at each address
          drawq,   \* Loop.drawq: the objects of window_draw events
          win,     \* refs, dirty, and whether draw_timer runs
          todo,    \* what the running handler still does to be drawn
          saved,   \* what the handler that a signal interrupted still does
          waiting, \* whether sigwinch_handler waits for the drawing
          struck,  \* whether a signal came in the middle of a handler
          used     \* bounds: handlers and signals so far

vars == <<buf, ov, drawq, win, todo, saved, waiting, struck, used>>

FreeBuf == [st |-> "free", queued |-> FALSE, ov |-> NoOv]
FreeOv  == [st |-> "free", queued |-> FALSE]

Init ==
  /\ buf = [b \in Bufs |-> FreeBuf]
  /\ ov = [o \in Ovs |-> FreeOv]
  /\ drawq = <<>>
  /\ win = [refs |-> 0, dirty |-> FALSE, timer |-> FALSE, shut |-> FALSE]
  /\ todo = <<>>
  /\ saved = <<>>
  /\ waiting = FALSE
  /\ struck = FALSE
  /\ used = [handlers |-> 0, signals |-> 0]

Reqs  == ({"buf"} \X Bufs) \cup ({"ov"} \X Ovs)
Live  == {b \in Bufs : buf[b].st = "live"}
BufReq(b) == << "buf", b >>
OvReq(b)  == << "ov", buf[b].ov >>
Queued(r) == IF r[1] = "buf" THEN buf[r[2]].queued ELSE ov[r[2]].queued

-----------------------------------------------------------------------------
(* Handlers: each is a list of objects to be drawn, whose requests are     *)
(* made one after the other.                                               *)
Handler(steps) ==
  /\ todo = <<>> /\ used.handlers < MaxHandlers
  /\ todo' = steps
  /\ used' = [used EXCEPT !.handlers = @ + 1]
  /\ UNCHANGED <<drawq, win, saved, waiting, struck>>

BufNew(b, o) ==
  /\ buf[b].st = "free" /\ ov[o].st = "free"
  /\ Handler(<<>>)
  /\ buf' = [buf EXCEPT ![b] = [st |-> "live", queued |-> FALSE, ov |-> o]]
  /\ ov' = [ov EXCEPT ![o] = [st |-> "live", queued |-> FALSE]]

BufRefresh(b)     == b \in Live /\ Handler(<< BufReq(b) >>) /\ UNCHANGED <<buf, ov>>
BufSetPlugin(b)   == b \in Live /\ Handler(<< OvReq(b) >>) /\ UNCHANGED <<buf, ov>>
BufSetSizeOfs(b)  == << OvReq(b), BufReq(b) >>
BufToggleFocus(b) == b \in Live /\ Handler(<< OvReq(b), BufReq(b) >>) /\ UNCHANGED <<buf, ov>>

(* The first half of buf_refresh and overlay_refresh.                      *)
Mark(r) ==
  /\ buf' = IF r[1] = "buf" THEN [buf EXCEPT ![r[2]].queued = TRUE] ELSE buf
  /\ ov'  = IF r[1] = "ov" THEN [ov EXCEPT ![r[2]].queued = TRUE] ELSE ov

(* window_req_draw, in the steps a signal may come between.                *)
Step ==
  /\ todo # <<>>
  /\ LET s == Head(todo) IN
     CASE s[1] \in {"buf", "ov"} /\ Queued(s) ->
            todo' = Tail(todo) /\ UNCHANGED <<buf, ov, win, drawq>>
       [] s[1] \in {"buf", "ov"} /\ ~Queued(s) ->
            /\ Mark(s)
            /\ todo' = << << "start", s >>, << "count", s >>, << "put", s >> >> \o Tail(todo)
            /\ UNCHANGED <<win, drawq>>
       [] s[1] = "start" ->
            /\ win' = [win EXCEPT !.dirty = TRUE]
            /\ todo' = (IF win.dirty THEN <<>> ELSE << << "timer", <<>> >> >>) \o Tail(todo)
            /\ UNCHANGED <<buf, ov, drawq>>
       [] s[1] = "timer" ->
            /\ win' = [win EXCEPT !.timer = TRUE]
            /\ todo' = Tail(todo) /\ UNCHANGED <<buf, ov, drawq>>
       [] s[1] = "count" ->
            /\ win' = [win EXCEPT !.refs = @ + 1]
            /\ todo' = Tail(todo) /\ UNCHANGED <<buf, ov, drawq>>
       [] s[1] = "put" ->
            /\ drawq' = Append(drawq, s[2])
            /\ todo' = Tail(todo) /\ UNCHANGED <<buf, ov, win>>
  /\ UNCHANGED <<saved, waiting, struck, used>>

-----------------------------------------------------------------------------
(* overlay_delete: the overlay waits for its drawing, if one is due.       *)
OverlayDelete(O, o) ==
  IF O[o].st # "live" THEN O
  ELSE IF O[o].queued THEN [O EXCEPT ![o].st = "del"] ELSE [O EXCEPT ![o] = FreeOv]

(* buf_expire.                                                             *)
Expire(b) ==
  /\ ov' = OverlayDelete(ov, buf[b].ov)
  /\ buf' = [buf EXCEPT ![b] = FreeBuf]

NeverQueued(b) == FALSE      \* mutant: a request is not waited for
IsQueued(b) == buf[b].queued

BufDelete(b) ==
  /\ b \in Live /\ Handler(<<>>)
  /\ IF IsQueued(b) THEN buf' = [buf EXCEPT ![b].st = "del"] /\ UNCHANGED ov
                    ELSE Expire(b)

(* buf_draw and overlay_draw.                                              *)
BufDrawn(b) == buf' = [buf EXCEPT ![b].queued = FALSE] /\ UNCHANGED ov

Drawn(o) ==
  /\ ov' = IF ov[o].st = "del" THEN [ov EXCEPT ![o] = FreeOv] ELSE [ov EXCEPT ![o].queued = FALSE]
  /\ UNCHANGED buf

WindowDraw ==
  /\ todo = <<>> /\ drawq # <<>>
  /\ drawq' = Tail(drawq)
  /\ win' = [win EXCEPT !.refs = @ - 1]
  /\ LET k == Head(drawq)[1]
         x == Head(drawq)[2] IN
     CASE k = "ov" -> Drawn(x)
       [] k = "buf" /\ buf[x].st = "del" -> Expire(x)
       [] k = "buf" /\ buf[x].st # "del" -> BufDrawn(x)
  /\ UNCHANGED <<todo, saved, waiting, struck, used>>

(* update_cb.                                                              *)
NeverClean == win.refs < 0   \* mutant: the bound is off by one
Clean == win.refs < 1

UpdateCb ==
  /\ todo = <<>> /\ win.timer
  /\ Clean
  /\ win' = [win EXCEPT !.timer = FALSE, !.dirty = FALSE]
  /\ UNCHANGED <<buf, ov, drawq, todo, saved, waiting, struck, used>>

(* win_shut, from a command; the loop may miss its end (EventLoop).        *)
WinShut ==
  /\ ~win.shut /\ todo = <<>>
  /\ win' = [win EXCEPT !.timer = FALSE, !.shut = TRUE]
  /\ UNCHANGED <<buf, ov, drawq, todo, saved, waiting, struck, used>>

-----------------------------------------------------------------------------
(* sigwinch_handler: every buffer of the layout is resized, and the loop   *)
(* runs in the handler until all is drawn.                                 *)
Resized(S) ==
  LET q == SetToSeq(S) IN
  [i \in 1..2 * Len(q) |-> BufSetSizeOfs(q[(i + 1) \div 2])[2 - (i % 2)]]

Sigwinch ==
  /\ ~waiting /\ used.signals < MaxSignals
  /\ used' = [used EXCEPT !.signals = @ + 1]
  /\ saved' = todo
  /\ struck' = (struck \/ todo # <<>>)
  /\ waiting' = TRUE
  /\ todo' = Resized(Live) \o << << "start", << >> >> >>
  /\ UNCHANGED <<buf, ov, drawq, win>>

SigwinchEnd ==
  /\ waiting /\ todo = <<>> /\ ~win.dirty
  /\ waiting' = FALSE
  /\ todo' = saved
  /\ saved' = <<>>
  /\ UNCHANGED <<buf, ov, drawq, win, struck, used>>

Next ==
  \/ \E b \in Bufs : \/ BufRefresh(b) \/ BufSetPlugin(b) \/ BufToggleFocus(b) \/ BufDelete(b)
                     \/ \E o \in Ovs : BufNew(b, o)
  \/ Step \/ WindowDraw \/ UpdateCb \/ WinShut \/ Sigwinch \/ SigwinchEnd

Spec == Init /\ [][Next]_vars

(* Code runs to its end, the loop takes its events, the timer fires and    *)
(* the handler's loop looks at its condition.                              *)
FairSpec == Spec /\ WF_vars(Step) /\ WF_vars(WindowDraw) /\ WF_vars(UpdateCb) /\ WF_vars(SigwinchEnd)

-----------------------------------------------------------------------------
Steps == Reqs \cup ({"start"} \X (Reqs \cup {<<>>})) \cup ({"timer"} \X {<<>>})
         \cup ({"count", "put"} \X Reqs)

TypeOK ==
  /\ buf \in [Bufs -> [st : {"free", "live", "del"}, queued : BOOLEAN, ov : Ovs \cup {NoOv}]]
  /\ ov \in [Ovs -> [st : {"free", "live", "del"}, queued : BOOLEAN]]
  /\ drawq \in Seq(Reqs) /\ todo \in Seq(Steps) /\ saved \in Seq(Steps)
  /\ win \in [refs : Nat, dirty : BOOLEAN, timer : BOOLEAN, shut : BOOLEAN]
  /\ {waiting, struck} \subseteq BOOLEAN
  /\ used \in [handlers : 0..MaxHandlers, signals : 0..MaxSignals]

(* The request that a handler makes, and whether it has counted it.        *)
Making(r) == << "put", r >> \in ToSet(todo) \cup ToSet(saved)
Counted(steps) == IF steps # <<>> /\ Head(steps)[1] = "put" THEN 1 ELSE 0

(* The count of requests is that of the events that will take it back;     *)
(* a buffer or overlay has one request if it is queued and none otherwise, *)
(* also when it is deleted: none is drawn after it is freed, and none      *)
(* waits for ever to be freed (buf_refresh, overlay_refresh, buf_delete,   *)
(* overlay_delete).  A signal in the middle of a handler may let the       *)
(* handler go on with a buffer that was freed meanwhile.                   *)
RequestsMatch ==
  /\ win.refs = Len(drawq) + Counted(todo) + Counted(saved)
  /\ ~struck =>
       /\ IsInjective(drawq)
       /\ \A i, j \in DOMAIN todo : todo[i][1] = "put" /\ todo[j][1] = "put" => i = j
       /\ \A r \in Reqs : /\ Queued(r) <=> r \in ToSet(drawq) \/ Making(r)
                          /\ ~(r \in ToSet(drawq) /\ Making(r))
       /\ \A b \in Bufs : buf[b].st = "del" => buf[b].queued
       /\ \A o \in Ovs : ov[o].st = "del" => ov[o].queued

(* Whatever is requested is shown: the window does not stay dirty, unless  *)
(* the quit command stopped the timer, or a signal came in the middle of a *)
(* request, after the window was marked or the request counted: the        *)
(* handler then waits for a timer or an event that only the interrupted    *)
(* code will set up (window_req_draw, sigwinch_handler).                   *)
CutShort ==
  /\ waiting /\ saved # <<>>
  /\ \/ Head(saved)[1] = "timer"
     \/ Head(saved)[1] = "put"

Shown == win.dirty ~> (~win.dirty \/ win.shut \/ CutShort)

-----------------------------------------------------------------------------
(* The inductive invariant: a handler makes one request at a time,         *)
Ordered(steps) ==
  \A i \in DOMAIN steps :
    /\ steps[i][1] = "timer" => i = 1
    /\ steps[i][1] = "count" =>
         /\ i < Len(steps) /\ steps[i + 1] = << "put", steps[i][2] >>
         /\ i = 1 \/ (i = 2 /\ steps[1][1] \in {"start", "timer"})
    /\ steps[i][1] = "put" =>
         i = 1 \/ (i \in {2, 3} /\ steps[i - 1] = << "count", steps[i][2] >>)

(* a buffer that is not freed has an overlay of its own,                   *)
OvsMatch ==
  /\ \A b \in Bufs : buf[b].st # "free" => buf[b].ov \in Ovs /\ ov[buf[b].ov].st = "live"
  /\ \A b, c \in Bufs : buf[b].st # "free" /\ buf[c].st # "free" /\ buf[b].ov = buf[c].ov => b = c

(* and unless a signal came in between, handlers work on what is there.    *)
IsLive(r) == IF r[1] = "buf" THEN buf[r[2]].st = "live" ELSE ov[r[2]].st = "live"

HandlersMatch ==
  ~struck =>
    /\ saved = <<>>
    /\ \A r \in ToSet(todo) \cap Reqs : IsLive(r)
    /\ \A b \in Bufs : buf[b].st = "free" => ~buf[b].queued
    /\ \A o \in Ovs : ov[o].st = "free" => ~ov[o].queued

IInv == /\ TypeOK /\ RequestsMatch /\ OvsMatch /\ HandlersMatch
        /\ Ordered(todo) /\ Ordered(saved) /\ (waiting \/ saved = <<>>)
=============================================================================
