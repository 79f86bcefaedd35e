---------------------------- MODULE MCDiscovery ----------------------------
EXTENDS Discovery, TLC

CONSTANTS p1, c1, c2

(* Trips of the wrong mode or without a route do not get past the mount.   *)
Pages == {h \in Homes : h.fits /\ h.routed /\ h.shared}
Opened == Pages \cup {h \in Homes : h.role = "editor" /\ h.shared /\ (h.fits => ~h.routed /\ h.page = "corridor")}
Symmetry == Permutations({c1, c2})
=============================================================================
