--------------------------- MODULE MCTripEditing ---------------------------
(* Small instances of TripEditing for TLC.                                 *)
EXTENDS TripEditing

CONSTANTS a, b
=============================================================================
