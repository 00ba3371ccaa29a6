------------------------------ MODULE MCFsWatch ------------------------------
EXTENDS FsWatch
CONSTANTS f1, f2, m1, d1, d2
=============================================================================
