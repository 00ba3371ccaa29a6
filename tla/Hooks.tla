-------------------------------- MODULE Hooks --------------------------------
(***************************************************************************)
(* Hooks (event/hook.c) and the tables they depend on: buffer ids and      *)
(* plugins (plugins/plugin.c).  A hook is a callback of a plugin, called   *)
(* for its host, or a command the user gave to `autocmd'.  The arrays of   *)
(* hooks are changed while they are called: a command hook runs any        *)
(* command, so that calls of hooks are nested.                             *)
(*                                                                         *)
(* Two kinds of plugins stand for all: "fm", which hooks itself on open,   *)
(* and "img", which hooks itself on pipe and piperemove and is put on the  *)
(* cursorchange of the fm that is piped to it.  Op is the file opener,     *)
(* whose hooks are made temporary: they are called for every host.         *)
(***************************************************************************)
EXTENDS Integers, Sequences, FiniteSets, SequencesExt

CONSTANTS Bufs, Plugs,        \* addresses of buffers and plugins
          NoBuf, NoPlug, Op,
          Groups, Augs, NoAug, \* names of groups, addresses of Augroups
          CmdEvents,          \* bound: the events autocmds are made for
          MaxCmds,            \* bound: hooks that are commands
          MaxHooks,           \* bound: hooks of plugins
          MaxDepth,           \* bound: nested calls of hooks
          MaxCommands         \* bound: commands and events of a behaviour

VARIABLES hooks,   \* default_events[ev].hooks
          aug_tbl, \* group name -> Augroup
          ids,     \* id_table, id_pool and max_id
          bufs,    \* state, id and plugin of each buffer
          plugs,   \* the plugin at each address
          frames,  \* the calls of call_hooks that run, innermost first
          fault,   \* the first undefined behaviour
          commands \* how many commands and events came

vars == <<hooks, aug_tbl, ids, bufs, plugs, frames, fault, commands>>

Events == {"cursorchange", "open", "pipe", "piperemove", "execopen"}
FirstEvent == "cursorchange"    \* default_events[0]
Anyone == -1                    \* the bufno of an autocmd without one
MaxId == 10

ASSUME HooksAssumption ==
  /\ Op # NoPlug /\ {Op, NoPlug} \cap Plugs = {}
  /\ CmdEvents \subseteq Events
  /\ {MaxCmds, MaxHooks, MaxDepth, MaxCommands} \subseteq Nat

NoPlugin == [live |-> FALSE, kind |-> "none", buf |-> NoBuf]

Hook(bufno, type, aug, host, caller) ==
  [bufno |-> bufno, type |-> type, aug |-> aug, host |-> host, caller |-> caller]

(* hook_init and plugin_init: the opener is opened without a buffer.       *)
Init ==
  /\ hooks = [ev \in Events |->
                IF ev = "execopen" THEN << Hook(Anyone, "tmp", NoAug, Op, Op) >> ELSE <<>>]
  /\ aug_tbl = [g \in Groups |-> NoAug]
  /\ ids = [table |-> [i \in {} |-> NoBuf], pool |-> <<>>, max |-> 0]
  /\ bufs = [b \in Bufs |-> [st |-> "free", id |-> 0, plug |-> NoPlug]]
  /\ plugs = [p \in Plugs |-> NoPlugin]
  /\ frames = <<>>
  /\ fault = "none"
  /\ commands = 0

LivePlugs == {p \in Plugs : plugs[p].live} \cup {Op}
LiveBufs  == {b \in Bufs : bufs[b].st = "live"}

(* Commands and handlers run when no hooks are called, or from a hook.     *)
Ready == fault = "none" /\ (frames # <<>> => Head(frames).pc = "in")

Command == Ready /\ commands < MaxCommands /\ commands' = commands + 1

(* Every call that runs now may find its array or its host changed.        *)
Touch(F) == [k \in DOMAIN F |-> [F[k] EXCEPT !.touched = TRUE]]

-----------------------------------------------------------------------------
(* What is at the places S of the array s, in its order.                   *)
Nth(S, n) == CHOOSE k \in S : Cardinality({j \in S : j < k}) = n - 1
Restricted(s, S) == [n \in 1..Cardinality(S) |-> s[Nth(S, n)]]

(* utarray_erase in a loop that counts on: what follows an erased element  *)
(* takes its index and is not looked at.                                   *)
EraseLoop(s, unwanted) ==
  LET Gone[k \in 0..Len(s)] == k > 0 /\ s[k] \in unwanted /\ ~Gone[k - 1]
  IN  Restricted(s, {k \in DOMAIN s : ~Gone[k]})

HookDelete(H, ev, a) ==
  [H EXCEPT ![ev] = EraseLoop(@, {h \in ToSet(@) : h.type = "cmd" /\ h.aug = a})]

(* hh.next of the entries of default_events is NULL: the loop ends after   *)
(* the first.                                                              *)
HookClearHost(H, id) == [H EXCEPT ![FirstEvent] = EraseLoop(@, {h \in ToSet(@) : h.bufno = id})]

HookRmIntl(H, host, caller, ev) ==
  [H EXCEPT ![ev] = EraseLoop(@, {h \in ToSet(@) : h.host = host /\ h.caller = caller})]

OfType(H, type) == UNION {{<<ev, k>> : k \in {n \in DOMAIN H[ev] : H[ev][n].type = type}} : ev \in Events}
Intls(H) == Cardinality(OfType(H, "intl"))

HookAdd(H, ev, h) == [H EXCEPT ![ev] = Append(@, h)]

-----------------------------------------------------------------------------
(* plugin.c: ids.                                                          *)
ObtainKey == IF ids.pool # <<>> THEN Head(ids.pool) ELSE ids.max + 1

ObtainId(b) ==
  [table |-> [i \in DOMAIN ids.table \cup {ObtainKey} |-> IF i = ObtainKey THEN b ELSE ids.table[i]],
   pool  |-> IF ids.pool # <<>> THEN Tail(ids.pool) ELSE <<>>,
   max   |-> IF ids.pool # <<>> THEN ids.max ELSE ids.max + 1]

\* mutant: the key stays in the table.
KeepsKey(I, key) == [I EXCEPT !.pool = << key >> \o @]

ForefitId(I, key) ==
  [table |-> [i \in DOMAIN I.table \ {key} |-> I.table[i]],
   pool  |-> << key >> \o I.pool,
   max   |-> I.max]

BufNew(b) ==
  /\ Command /\ bufs[b].st = "free" /\ ObtainKey <= MaxId
  /\ ids' = ObtainId(b)
  /\ bufs' = [bufs EXCEPT ![b] = [st |-> "live", id |-> ObtainKey, plug |-> NoPlug]]
  /\ UNCHANGED <<hooks, aug_tbl, plugs, frames, fault>>

(* The hooks each kind adds when it is opened, with the caller it gives.   *)
Registers(kind) == IF kind = "fm" THEN {"open"} ELSE {"pipe", "piperemove"}
SelfCaller(kind, p) == IF kind = "fm" THEN p ELSE NoPlug

(* plugin_open: calloc returns any free address, one of a closed plugin    *)
(* too.                                                                    *)
PluginOpen(b, p, kind) ==
  /\ Command /\ b \in LiveBufs /\ bufs[b].plug = NoPlug /\ ~plugs[p].live
  /\ Intls(hooks) + Cardinality(Registers(kind)) <= MaxHooks
  /\ plugs' = [plugs EXCEPT ![p] = [live |-> TRUE, kind |-> kind, buf |-> b]]
  /\ bufs' = [bufs EXCEPT ![b].plug = p]
  /\ hooks' = [ev \in Events |->
       IF ev \in Registers(kind)
       THEN Append(hooks[ev], Hook(bufs[b].id, "intl", NoAug, p, SelfCaller(kind, p)))
       ELSE hooks[ev]]
  /\ UNCHANGED <<aug_tbl, ids, frames, fault>>

(* plugin_close frees the plugin; its hooks stay for buf_delete or         *)
(* buf_detach.                                                             *)
PluginClose(p) == IF p = NoPlug THEN plugs ELSE [plugs EXCEPT ![p] = NoPlugin]

(* buf_expire, at once or, if a drawing is due, when it is drawn.          *)
Expire(b) ==
  /\ hooks' = HookClearHost(hooks, bufs[b].id)
  /\ ids' = ForefitId(ids, bufs[b].id)
  /\ bufs' = [bufs EXCEPT ![b] = [st |-> "free", id |-> 0, plug |-> NoPlug]]

(* win_close, window_close_focus.                                          *)
WinClose(b, queued) ==
  /\ Command /\ b \in LiveBufs
  /\ plugs' = PluginClose(bufs[b].plug)
  /\ frames' = Touch(frames)
  /\ IF queued THEN /\ bufs' = [bufs EXCEPT ![b].st = "deleted"]
                    /\ UNCHANGED <<hooks, ids>>
               ELSE Expire(b)
  /\ UNCHANGED <<aug_tbl, fault>>

BufDraw(b) ==
  /\ Ready /\ bufs[b].st = "deleted"
  /\ Expire(b)
  /\ frames' = Touch(frames)
  /\ UNCHANGED <<aug_tbl, plugs, fault, commands>>

(* win_bdel, and win_buf before it opens the new plugin.                   *)
WinBdel(b) ==
  /\ Command /\ b \in LiveBufs /\ bufs[b].plug # NoPlug
  /\ plugs' = PluginClose(bufs[b].plug)
  /\ bufs' = [bufs EXCEPT ![b].plug = NoPlug]
  /\ hooks' = HookClearHost(hooks, bufs[b].id)
  /\ frames' = Touch(frames)
  /\ UNCHANGED <<aug_tbl, ids, fault>>

-----------------------------------------------------------------------------
(* augroup: the new group is allocated before the old one of the name is   *)
(* freed; hooks keep their pointer to the old one.                         *)
AugroupAdd(g, a) ==
  /\ Command /\ \A x \in Groups : aug_tbl[x] # a
  /\ aug_tbl' = [aug_tbl EXCEPT ![g] = a]
  /\ UNCHANGED <<hooks, ids, bufs, plugs, frames, fault>>

AugroupRemove(g) ==
  /\ Command /\ aug_tbl[g] # NoAug
  /\ aug_tbl' = [aug_tbl EXCEPT ![g] = NoAug]
  /\ UNCHANGED <<hooks, ids, bufs, plugs, frames, fault>>

(* conf_autocmd, hook_add: the number of a buffer is not looked up.        *)
Autocmd(a, ev, bufno) ==
  /\ Command /\ Cardinality(OfType(hooks, "cmd")) < MaxCmds
  /\ a = NoAug \/ \E g \in Groups : aug_tbl[g] = a
  /\ hooks' = HookAdd(hooks, ev, Hook(bufno, "cmd", a, NoPlug, NoPlug))
  /\ UNCHANGED <<aug_tbl, ids, bufs, plugs, frames, fault>>

(* `autocmd!' with an event; without one the loop of hook_remove ends      *)
(* after the first event, as that of hook_clear_host.                      *)
AutocmdRemove(a, ev) ==
  /\ Command /\ (a = NoAug \/ \E g \in Groups : aug_tbl[g] = a)
  /\ HookDelete(hooks, ev, a) # hooks
  /\ hooks' = HookDelete(hooks, ev, a)
  /\ frames' = Touch(frames)
  /\ UNCHANGED <<aug_tbl, ids, bufs, plugs, fault>>

-----------------------------------------------------------------------------
\* mutant: the last hook is counted twice.
CountsOneMore(ev, host, caller) ==
  [ev |-> ev, host |-> host, caller |-> caller, i |-> 1,
   count |-> Len(hooks[ev]) + 1, pc |-> "loop", touched |-> FALSE]

(* call_hooks.  The hooks are counted once.                                *)
Frame(ev, host, caller) ==
  [ev |-> ev, host |-> host, caller |-> caller, i |-> 1,
   count |-> Len(hooks[ev]), pc |-> "loop", touched |-> FALSE]

SendHookMsg(ev, host, caller) ==
  /\ Command /\ Len(frames) < MaxDepth
  /\ \/ ev = "execopen" /\ host = NoPlug /\ caller = NoPlug
     \/ ev \in {"cursorchange", "open"} /\ host \in LivePlugs \ {Op} /\ caller = NoPlug
     \/ ev \in {"pipe", "piperemove"} /\ {host, caller} \subseteq LivePlugs \ {Op}
  /\ frames' = << Frame(ev, host, caller) >> \o frames
  /\ UNCHANGED <<hooks, aug_tbl, ids, bufs, plugs, fault>>

Goes(F, i, pc) == [F EXCEPT ![1].i = i, ![1].pc = pc]

Fault(what) == fault' = what /\ UNCHANGED <<hooks, aug_tbl, ids, bufs, plugs, frames, commands>>

(* id_from_plugin(host) is taken before host is tested for NULL.           *)
CmdHook(fr, h) ==
  IF fr.host = NoPlug THEN Fault("no_host")
  ELSE IF fr.host \notin LivePlugs THEN Fault("stale_host")
  ELSE /\ frames' = IF h.bufno \in {Anyone, bufs[plugs[fr.host].buf].id}
                    THEN Goes(frames, fr.i, "in") ELSE Goes(frames, fr.i + 1, "loop")
       /\ UNCHANGED <<hooks, aug_tbl, ids, bufs, plugs, fault, commands>>

(* What the callbacks do to hooks: img's pipe_cb and pipe_remove_cb.       *)
IntlEffect(fr, host, caller) ==
  CASE fr.ev = "pipe" /\ plugs[caller].kind = "fm" ->
         HookAdd(hooks, "cursorchange",
                 Hook(bufs[plugs[host].buf].id, "intl", NoAug, caller, host))
    [] fr.ev = "piperemove" -> HookRmIntl(hooks, caller, host, "cursorchange")
    [] OTHER -> hooks

(* fm's callback runs the loop (fm_req_dir); the others return at once.    *)
IntlHook(fr, h) ==
  LET caller == IF fr.caller # NoPlug THEN fr.caller ELSE h.caller
      H == IntlEffect(fr, fr.host, caller)
  IN  IF h.host # fr.host /\ h.type # "tmp"
      THEN frames' = Goes(frames, fr.i + 1, "loop") /\ UNCHANGED <<hooks, aug_tbl, ids, bufs, plugs, fault, commands>>
      ELSE IF h.type # "tmp" /\ fr.host \notin LivePlugs THEN Fault("stale_host")
      ELSE IF caller # NoPlug /\ caller \notin LivePlugs THEN Fault("stale_caller")
      ELSE /\ Intls(H) <= MaxHooks
           /\ hooks' = H
           /\ frames' = IF fr.ev = "open" THEN Goes(frames, fr.i, "in")
                        ELSE IF fr.ev = "piperemove" THEN Goes(Touch(frames), fr.i + 1, "loop")
                        ELSE Goes(frames, fr.i + 1, "loop")
           /\ UNCHANGED <<aug_tbl, ids, bufs, plugs, fault, commands>>

CallHooks ==
  /\ fault = "none" /\ frames # <<>> /\ Head(frames).pc = "loop"
  /\ LET fr == Head(frames) IN
     IF fr.i > fr.count
     THEN frames' = Tail(frames) /\ UNCHANGED <<hooks, aug_tbl, ids, bufs, plugs, fault, commands>>
     ELSE IF fr.i > Len(hooks[fr.ev]) THEN Fault("past_end")
     ELSE IF hooks[fr.ev][fr.i].type = "cmd" THEN CmdHook(fr, hooks[fr.ev][fr.i])
     ELSE IntlHook(fr, hooks[fr.ev][fr.i])

(* The hook returns.                                                       *)
Return ==
  /\ Ready /\ frames # <<>>
  /\ frames' = Goes(frames, Head(frames).i + 1, "loop")
  /\ UNCHANGED <<hooks, aug_tbl, ids, bufs, plugs, fault, commands>>

Next ==
  \/ \E b \in Bufs : BufNew(b) \/ BufDraw(b) \/ WinBdel(b)
                     \/ (\E q \in BOOLEAN : WinClose(b, q))
                     \/ \E p \in Plugs, kind \in {"fm", "img"} : PluginOpen(b, p, kind)
  \/ \E g \in Groups : AugroupRemove(g) \/ \E a \in Augs : AugroupAdd(g, a)
  \/ \E ev \in CmdEvents, a \in Augs \cup {NoAug} :
        AutocmdRemove(a, ev) \/ \E id \in {Anyone} \cup DOMAIN ids.table : Autocmd(a, ev, id)
  \/ \E ev \in Events, host \in LivePlugs \cup {NoPlug}, caller \in LivePlugs \cup {NoPlug} :
        SendHookMsg(ev, host, caller)
  \/ CallHooks \/ Return

Spec == Init /\ [][Next]_vars

-----------------------------------------------------------------------------
(* The hooks, ids, buffers, plugins and calls are of the types of hook.h   *)
(* and plugin.h, and ids stay below the bound MaxId.                       *)
AnyPlug == Plugs \cup {Op, NoPlug}

HookType ==
  [bufno : Int, type : {"cmd", "intl", "tmp"}, aug : Augs \cup {NoAug},
   host : AnyPlug, caller : AnyPlug]

FrameType ==
  [ev : Events, host : AnyPlug, caller : AnyPlug, i : Nat \ {0}, count : Nat,
   pc : {"loop", "in"}, touched : BOOLEAN]

TypeOK ==
  /\ hooks \in [Events -> Seq(HookType)]
  /\ aug_tbl \in [Groups -> Augs \cup {NoAug}]
  /\ ids.max \in 0..MaxId /\ ids.pool \in Seq(1..MaxId)
  /\ ids.table \in [DOMAIN ids.table -> Bufs] /\ DOMAIN ids.table \subseteq 1..MaxId
  /\ bufs \in [Bufs -> [st : {"free", "live", "deleted"}, id : 0..MaxId,
                        plug : Plugs \cup {NoPlug}]]
  /\ plugs \in [Plugs -> [live : BOOLEAN, kind : {"none", "fm", "img"}, buf : Bufs \cup {NoBuf}]]
  /\ frames \in Seq(FrameType)
  /\ fault \in {"none", "past_end", "no_host", "stale_host", "stale_caller"}
  /\ commands \in Nat

(* The ids given out are those in the table and those in the pool, no id   *)
(* is in both or twice in one, and a buffer that is deleted but waits for  *)
(* its drawing still holds its own: nobody is given the id of another      *)
(* (obtain_id, forefit_id and the order of buf_expire).                    *)
IdsPartition ==
  /\ DOMAIN ids.table \cup ToSet(ids.pool) = 1..ids.max
  /\ DOMAIN ids.table \cap ToSet(ids.pool) = {}
  /\ IsInjective(ids.pool)
  /\ \A b \in Bufs : bufs[b].st # "free" => bufs[b].id \in DOMAIN ids.table /\ ids.table[bufs[b].id] = b
  /\ \A i \in DOMAIN ids.table : bufs[ids.table[i]].st # "free"

(* What it takes for call_hooks to go wrong: the array is read past its    *)
(* end, or a freed host is used, only if a hook of this very call removed  *)
(* hooks or closed a plugin; a NULL host is used only for the events of    *)
(* processes (execopen) with an autocmd on them; a hook is called with a   *)
(* freed caller only for the event on which one plugin hooks another, or   *)
(* if it was closed during the call.                                       *)
DispatchFaults ==
  LET fr == Head(frames) IN
  /\ fault \in {"past_end", "stale_host"} => fr.touched
  /\ fault = "no_host" => fr.ev = "execopen"
  /\ fault = "stale_caller" => fr.touched \/ fr.ev = FirstEvent

-----------------------------------------------------------------------------
(* The inductive invariant: besides the above, an id is that of the buffer *)
(* it stands for, a plugin has a buffer,                                   *)
IdsMatch ==
  /\ \A i \in DOMAIN ids.table : bufs[ids.table[i]].id = i
  /\ \A p \in Plugs : plugs[p].live => plugs[p].buf \in Bufs

(* the hooks of a kind are where that kind is used: HK_TMP on execopen; a  *)
(* plugin hooks another one on the first event only;                       *)
HooksMatch ==
  \A ev \in Events : \A k \in DOMAIN hooks[ev] : LET h == hooks[ev][k] IN
    /\ h.type = "tmp" => ev = "execopen" /\ h.caller = Op
    /\ h.type = "intl" => /\ ev # "execopen" /\ h.host \in Plugs
                          /\ ev # FirstEvent => h.caller \in {NoPlug, h.host}

(* and a call knows how many hooks there are, and plugins that live, until *)
(* a hook called from it removes some.                                     *)
CallsMatch ==
  \A k \in DOMAIN frames : LET fr == frames[k] IN
    /\ fr.host \in Plugs \/ (fr.ev = "execopen" /\ fr.host = NoPlug)
    /\ fr.caller \in IF fr.ev \in {"pipe", "piperemove"} THEN Plugs ELSE {NoPlug}
    /\ ~fr.touched => /\ fr.count <= Len(hooks[fr.ev])
                      /\ {fr.host, fr.caller} \subseteq LivePlugs \cup {NoPlug}

IInv == TypeOK /\ IdsPartition /\ IdsMatch /\ HooksMatch /\ CallsMatch /\ DispatchFaults
=============================================================================
