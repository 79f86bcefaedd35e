---------------------------- MODULE MCApiBudget ----------------------------
(* A small instance of ApiBudget for TLC: the two discoveries share two    *)
(* SKUs and count against the user's quotas, a geocoding counts against    *)
(* nobody's.  Only one SKU of the discoveries has a budget.                *)
EXTENDS ApiBudget

CONSTANTS r1, r2, ann

MCKinds == {"radius_discover", "corridor_discover", "geocode"}
MCGated == MCKinds \ {"geocode"}
MCSkus == {"nearby", "matrix", "geocode"}
MCBudgeted == {"nearby", "geocode"}
MCOrder == [k \in MCKinds |-> IF k = "geocode" THEN <<"geocode">> ELSE <<"nearby", "matrix">>]
MCUnits == [k \in MCKinds |-> [s \in MCSkus |->
  IF \E i \in DOMAIN MCOrder[k] : MCOrder[k][i] = s THEN 1 ELSE 0]]
MCDayCap == [s \in MCBudgeted |-> IF s = "nearby" THEN 2 ELSE 1]
MCMonthCap == [s \in MCBudgeted |-> IF s = "nearby" THEN 3 ELSE 1]
MCQuota == [k \in MCGated |-> 1]
=============================================================================
