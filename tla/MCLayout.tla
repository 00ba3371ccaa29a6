------------------------------- MODULE MCLayout -------------------------------
EXTENDS Layout, TLC
CONSTANTS b1, b2, b3, b4
MCScreens == {[lnum |-> 5, col |-> 7], [lnum |-> 3, col |-> 4]}
Symmetry == Permutations({b1, b2, b3, b4})
=============================================================================
