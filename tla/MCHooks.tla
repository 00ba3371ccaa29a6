------------------------------- MODULE MCHooks -------------------------------
EXTENDS Hooks, TLC
CONSTANTS b1, b2, p1, p2
Symmetry == Permutations({b1, b2}) \cup Permutations({p1, p2})
=============================================================================
