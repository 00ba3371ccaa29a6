---------------------------- MODULE MCProcessLife ----------------------------
(* ProcessLife with a small number of Shell objects.                       *)
EXTENDS ProcessLife

CONSTANTS p1, p2    \* Shell objects, as model values
=============================================================================
