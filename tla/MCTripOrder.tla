---------------------------- MODULE MCTripOrder ----------------------------
EXTENDS TripOrder, TLC
MCStopIds == 1 .. 3
MCDayIds == 11 .. 13
Interchangeable == Permutations(Editors)
=============================================================================
