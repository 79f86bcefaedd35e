------------------------------ MODULE MCBoard ------------------------------
(* Small instances of Board for TLC.                                       *)
EXTENDS Board

CONSTANTS s1, s2, d1, d2, h1, h2

InOrder == <<s1, s2>>
Plan(days, day) == [days |-> days, day |-> day, pos |-> [s \in Stops |-> None]]
First ==
  {Plan(<<>>, [s \in Stops |-> Unscheduled]),
   Plan(<<d1>>, [s \in Stops |-> d1])}
AnySlot == Permutations(Slots)
=============================================================================
