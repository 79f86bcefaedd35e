------------------------------ MODULE ApiMeter ------------------------------
(***************************************************************************)
(* What the budget ledger promises: a charge is counted in one step, all   *)
(* of it or nothing, and only if no daily quota and no daily budget is     *)
(* exceeded by it.                                                         *)
(***************************************************************************)
EXTENDS Naturals

CONSTANTS
  Days,      \* UTC days, numbered
  Users,
  Skus,      \* the metered upstream products
  Budgeted,  \* those with a configured budget
  Kinds,     \* the kinds of user actions that cost something
  Gated,     \* those with a daily quota per user
  Units,     \* Units[k][s]: what an action of kind k reserves of s
  DayCap,    \* DayCap[s]: the daily budget
  Quota      \* Quota[k]: how often a day one user may take action k

VARIABLES
  usage,     \* usage[d][s]: units counted (api_usage_daily)
  used       \* used[d][u][k]: actions counted (user_action_daily)

Init ==
  /\ usage = [d \in Days |-> [s \in Skus |-> 0]]
  /\ used = [d \in Days |-> [u \in Users |-> [k \in Kinds |-> 0]]]

(* One charge: every SKU it needs is counted on one day, within that day's *)
(* budget; around midnight the SKUs may fall on different days.            *)
CountSkus(k) ==
  \E on \in [Skus -> Days] :
    /\ usage' = [d \in Days |-> [s \in Skus |->
                   IF on[s] = d THEN usage[d][s] + Units[k][s] ELSE usage[d][s]]]
    /\ \A s \in Budgeted : Units[k][s] > 0 => usage'[on[s]][s] <= DayCap[s]

CountAction(u, k) ==
  IF k \in Gated
  THEN \E on \in Days :
         /\ used' = [d \in Days |-> [v \in Users |-> [j \in Kinds |->
                       used[d][v][j] + IF d = on /\ v = u /\ j = k THEN 1 ELSE 0]]]
         /\ used'[on][u][k] <= Quota[k]
  ELSE UNCHANGED used

Charge(u, k) == CountSkus(k) /\ CountAction(u, k)

Next == \E u \in Users, k \in Kinds : Charge(u, k)

Spec == Init /\ [][Next]_<<usage, used>>
=============================================================================
