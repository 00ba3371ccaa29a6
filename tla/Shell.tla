-------------------------------- MODULE Shell --------------------------------
(***************************************************************************)
(* What a Shell promises the plugins that use it (event/shell.h): it runs  *)
(* one child at a time, a start asked for meanwhile is made up for when    *)
(* the child has ended, and its object is freed between runs only.  Module *)
(* ProcessLife implements it with handles, references and events.          *)
(***************************************************************************)
CONSTANTS
  Shells,      \* all Shell objects
  RegShells    \* those made by shell_exec: run once, then freed

VARIABLES
  run,     \* "idle"; "runs"; "over", the child has ended and nobody knows; and
           \* "lost", nav itself was aborted
  again,   \* a start was asked for while it was not idle
  freed

vars == <<run, again, freed>>

Init ==
  /\ run = [p \in Shells |-> "idle"]
  /\ again = [p \in Shells |-> FALSE]
  /\ freed = [p \in Shells |-> FALSE]

Start(p) ==
  /\ run[p] = "idle" /\ ~freed[p]
  /\ run' = [run EXCEPT ![p] = "runs"]
  /\ UNCHANGED <<again, freed>>

Ask(p) ==
  /\ run[p] \in {"runs", "over"} /\ p \notin RegShells
  /\ again' = [again EXCEPT ![p] = TRUE]
  /\ UNCHANGED <<run, freed>>

\* Children end one by one, or several at once: the timer kills all that are due.
End(ended) ==
  /\ \A p \in ended : run[p] = "runs"
  /\ run' = [p \in Shells |-> IF p \in ended THEN "over" ELSE run[p]]
  /\ UNCHANGED <<again, freed>>

\* The end of the child is handled: the next one, or none.
Settle(p) ==
  /\ run[p] = "over"
  /\ run' = [run EXCEPT ![p] = IF again[p] THEN "runs" ELSE "idle"]
  /\ again' = [again EXCEPT ![p] = FALSE]
  /\ freed' = [freed EXCEPT ![p] = p \in RegShells]

Delete(p) ==
  /\ run[p] = "idle" /\ ~freed[p]
  /\ freed' = [freed EXCEPT ![p] = TRUE]
  /\ UNCHANGED <<run, again>>

\* A child that cannot be spawned, or not be written to, takes nav down.
Abort ==
  /\ run' = [p \in Shells |-> "lost"]
  /\ again' = [p \in Shells |-> FALSE]
  /\ freed' = [p \in Shells |-> FALSE]

Next ==
  \/ Abort
  \/ \E ended \in SUBSET Shells : End(ended)
  \/ \E p \in Shells : Start(p) \/ Ask(p) \/ Settle(p) \/ Delete(p)

Spec == Init /\ [][Next]_vars /\ \A p \in Shells : WF_vars(Settle(p))
=============================================================================
