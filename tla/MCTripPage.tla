----------------------------- MODULE MCTripPage -----------------------------
(* Small instances of TripPage for TLC.                                    *)
EXTENDS TripPage

CONSTANTS s1, s2

One == <<s1>>
=============================================================================
