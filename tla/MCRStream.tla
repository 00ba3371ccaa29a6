----------------------------- MODULE MCRStream -----------------------------
(* RStream with a ring of a few places and a child that writes more.       *)
EXTENDS RStream
=============================================================================
