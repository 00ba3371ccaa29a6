------------------------------- MODULE Channel -------------------------------
(***************************************************************************)
(* What shell.h promises a plugin that reads the output of a child: it is  *)
(* handed on in the order in which it was written, in chunks, each of them *)
(* whole.  A chunk is lost, whole too, if the child had written its first  *)
(* byte when the one before was handed on: the plugin that keeps up loses  *)
(* nothing.  Module RStream implements it with a ring and events.          *)
(***************************************************************************)
EXTENDS Integers, Sequences

VARIABLES
  sent,     \* bytes the child has written, numbered from 1
  taken,    \* bytes that were handed on or lost
  handed,   \* the bytes the plugin got
  torn      \* the next chunk will be lost

vars == <<sent, taken, handed, torn>>

Init == sent = 0 /\ taken = 0 /\ handed = <<>> /\ torn = FALSE

Send ==
  /\ sent' \in Nat /\ sent' > sent
  /\ UNCHANGED <<taken, handed, torn>>

Take ==
  /\ taken' \in (taken + 1)..sent
  /\ handed' = IF torn THEN handed ELSE handed \o [i \in 1..(taken' - taken) |-> taken + i]
  /\ torn' \in {FALSE, taken' < sent}
  /\ UNCHANGED sent

Next == Send \/ Take

Spec == Init /\ [][Next]_vars
=============================================================================
