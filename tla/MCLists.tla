------------------------------- MODULE MCLists -------------------------------
EXTENDS Lists
CONSTANTS w1, w2, d1, d2
MCRank == [name |-> <<1, 2, 3>>, size |-> <<2, 1, 2>>]
MCFileSets == {<<>>, <<3, 1, 2>>}
MCPatterns == {{1, 2, 3}, {2, 3}, {}}
Symmetry == Permutations({d1, d2}) \cup Permutations({w1, w2})
=============================================================================
