----------------------------- MODULE MCMembers -----------------------------
EXTENDS Members, TLC
Interchangeable == Permutations(Requests)
=============================================================================
