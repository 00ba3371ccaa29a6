------------------------------ MODULE MCFileOps ------------------------------
EXTENDS FileOps, TLC
CONSTANTS f, d, a, e

(* A file f, and a directory d with the file a and the link e.             *)
FileTree == f :> NoNode @@ d :> NoNode @@ a :> d @@ e :> d
=============================================================================
