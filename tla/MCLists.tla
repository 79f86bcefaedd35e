------------------------------ MODULE MCLists ------------------------------
EXTENDS Lists, TLC
Symmetry == Permutations(Slots)
=============================================================================
