----------------------------- MODULE ApiBudget -----------------------------
(***************************************************************************)
(* core/budget.py: requests that charge the shared ledger concurrently.    *)
(*                                                                         *)
(* charge() runs one transaction: an upsert that counts the user's action, *)
(* one upsert per SKU in the order of the caller's dict, and a commit.     *)
(* Every statement reads the clock for its own "today" before it runs. An  *)
(* upsert waits while another transaction holds its row and then adds to   *)
(* the total committed last; but the sum over the month's earlier days is  *)
(* part of the same statement and was taken when the statement started.    *)
(* A refusal rolls the whole transaction back.                             *)
(***************************************************************************)
EXTENDS Naturals, Sequences, FiniteSetsExt

CONSTANTS
  Requests,     \* requests that may be in flight at once
  Users, Skus, Budgeted, Kinds, Gated, Units, DayCap, Quota,   \* as in ApiMeter
  Order,        \* Order[k]: the SKUs of a charge, in the order of the dict
  MonthCap,     \* MonthCap[s]: the monthly budget
  MonthLength,  \* days in a month
  LastDay       \* bound: the last day of the model

Days == 0 .. LastDay

ASSUME BudgetAssumption ==
  /\ Users # {} /\ Kinds # {}
  /\ LastDay \in Nat /\ MonthLength \in Nat \ {0}
  /\ Budgeted \subseteq Skus /\ Gated \subseteq Kinds
  /\ Units \in [Kinds -> [Skus -> Nat]]
  /\ DayCap \in [Budgeted -> Nat] /\ MonthCap \in [Budgeted -> Nat]
  /\ Quota \in [Gated -> Nat]
  /\ Order \in [Kinds -> Seq(Skus)]
  /\ \A k \in Kinds :   \* a dict has every key once; no estimate is zero
       /\ \A i, j \in DOMAIN Order[k] : i # j => Order[k][i] # Order[k][j]
       /\ \A s \in Skus : Units[k][s] > 0 <=> \E i \in DOMAIN Order[k] : Order[k][i] = s

VARIABLES
  day,    \* today
  usage,  \* committed units, by day and SKU
  used,   \* committed actions, by day, user and kind
  tx      \* the transaction of each request

vars == <<day, usage, used, tx>>

Txs == [
  at : {"idle", "open", "consume", "upsert"},  \* no request, between statements, in one
  user : Users, kind : Kinds,
  next : Nat \ {0},                \* the SKU in turn, as an index into Order
  on : Days,                       \* the "today" of the statement that runs
  seen : [Days -> [Skus -> Nat]],  \* the snapshot of that statement
  rows : SUBSET (Days \X Skus),    \* the usage rows it has updated, and holds
  quotaDays : SUBSET Days]         \* the day its user's action is counted on, if it is

NoUsage == [d \in Days |-> [s \in Skus |-> 0]]
Begun(u, k) == [at |-> "open", user |-> u, kind |-> k, next |-> 1, on |-> 0, seen |-> NoUsage,
                rows |-> {}, quotaDays |-> {}]
NoTx == [Begun(CHOOSE u \in Users : TRUE, CHOOSE k \in Kinds : TRUE) EXCEPT !.at = "idle"]

At(r, here) == tx[r].at = here
Sku(r) == Order[tx[r].kind][tx[r].next]
Amount(r) == Units[tx[r].kind][Sku(r)]
QuotaDue(r) == tx[r].kind \in Gated /\ tx[r].quotaDays = {}
SkusDue(r) == tx[r].next <= Len(Order[tx[r].kind])

Becomes(r, t) == tx' = [tx EXCEPT ![r] = t]

(* Must not be: an upsert that does not wait for its row.                  *)
UsageRowUnlocked(r, d, s) == TRUE

UsageRowFree(r, d, s) == \A q \in Requests \ {r} : <<d, s>> \notin tx[q].rows
QuotaRowFree(r, d) ==
  \A q \in Requests \ {r} :
    ~(d \in tx[q].quotaDays /\ tx[q].user = tx[r].user /\ tx[q].kind = tx[r].kind)

SameMonth(d, e) == d \div MonthLength = e \div MonthLength
EarlierInMonth(counted, d, s) ==
  MapThenSumSet(LAMBDA e : counted[e][s], {e \in Days : e < d /\ SameMonth(d, e)})

Init ==
  /\ day = 0
  /\ usage = NoUsage
  /\ used = [d \in Days |-> [u \in Users |-> [k \in Kinds |-> 0]]]
  /\ tx = [r \in Requests |-> NoTx]

-----------------------------------------------------------------------------
(* Mistakes the properties must notice.                                    *)

(* A refusal that commits what the charge has counted so far ...           *)
BudgetExceededCommitted(r) ==
  /\ At(r, "upsert") /\ UsageRowFree(r, tx[r].on, Sku(r))
  /\ usage' = [d \in Days |-> [s \in Skus |->
                 usage[d][s] + IF <<d, s>> \in tx[r].rows THEN Units[tx[r].kind][s] ELSE 0]]
  /\ Becomes(r, NoTx)
  /\ UNCHANGED <<day, used>>

(* ... or that leaves the transaction open.                                *)
BudgetExceededOpen(r) ==
  /\ At(r, "upsert") /\ UsageRowFree(r, tx[r].on, Sku(r))
  /\ Becomes(r, [tx[r] EXCEPT !.at = "idle"])
  /\ UNCHANGED <<day, usage, used>>

(* A failure that takes back what the rollback takes back too.             *)
FailRefunded(r) ==
  /\ ~At(r, "idle")
  /\ usage' = [d \in Days |-> [s \in Skus |->
                 usage[d][s] - IF <<d, s>> \in tx[r].rows THEN Units[tx[r].kind][s] ELSE 0]]
  /\ Becomes(r, NoTx)
  /\ UNCHANGED <<day, used>>

-----------------------------------------------------------------------------
Begin(r) ==
  /\ At(r, "idle")
  /\ \E u \in Users, k \in Kinds : Becomes(r, Begun(u, k))
  /\ UNCHANGED <<day, usage, used>>

(* consume_user_action: utc_today(), and the statement is sent.            *)
StartConsume(r) ==
  /\ At(r, "open") /\ QuotaDue(r)
  /\ Becomes(r, [tx[r] EXCEPT !.at = "consume", !.on = day])
  /\ UNCHANGED <<day, usage, used>>

(* ... the row is ours, with a count that does not pass the limit.         *)
Consume(r) ==
  /\ At(r, "consume") /\ QuotaRowFree(r, tx[r].on)
  /\ used[tx[r].on][tx[r].user][tx[r].kind] + 1 <= Quota[tx[r].kind]
  /\ Becomes(r, [tx[r] EXCEPT !.at = "open", !.on = 0, !.quotaDays = {tx[r].on}])
  /\ UNCHANGED <<day, usage, used>>

(* UserQuotaExceeded, after the rollback.                                  *)
QuotaExceeded(r) ==
  /\ At(r, "consume") /\ QuotaRowFree(r, tx[r].on)
  /\ used[tx[r].on][tx[r].user][tx[r].kind] + 1 > Quota[tx[r].kind]
  /\ Becomes(r, NoTx)
  /\ UNCHANGED <<day, usage, used>>

(* reserve: utc_today(), and the statement starts with its snapshot.       *)
StartReserve(r) ==
  /\ At(r, "open") /\ ~QuotaDue(r) /\ SkusDue(r)
  /\ Becomes(r, [tx[r] EXCEPT !.at = "upsert", !.on = day,
                              !.seen = usage])
  /\ UNCHANGED <<day, usage, used>>

DayUnits(r) == usage[tx[r].on][Sku(r)] + Amount(r)
WithinBudget(r) ==
  Sku(r) \in Budgeted =>
    /\ DayUnits(r) <= DayCap[Sku(r)]
    /\ DayUnits(r) + EarlierInMonth(tx[r].seen, tx[r].on, Sku(r)) <= MonthCap[Sku(r)]

Reserve(r) ==
  /\ At(r, "upsert") /\ UsageRowFree(r, tx[r].on, Sku(r))
  /\ WithinBudget(r)
  /\ Becomes(r, [tx[r] EXCEPT !.at = "open", !.next = @ + 1, !.on = 0, !.seen = NoUsage,
                              !.rows = @ \cup {<<tx[r].on, Sku(r)>>}])
  /\ UNCHANGED <<day, usage, used>>

(* BudgetExceeded, after the rollback.                                     *)
BudgetExceeded(r) ==
  /\ At(r, "upsert") /\ UsageRowFree(r, tx[r].on, Sku(r))
  /\ ~WithinBudget(r)
  /\ Becomes(r, NoTx)
  /\ UNCHANGED <<day, usage, used>>

(* The counters persist before the upstream call starts.                   *)
Commit(r) ==
  /\ At(r, "open") /\ ~QuotaDue(r) /\ ~SkusDue(r)
  /\ usage' = [d \in Days |-> [s \in Skus |->
                 usage[d][s] + IF <<d, s>> \in tx[r].rows THEN Units[tx[r].kind][s] ELSE 0]]
  /\ used' = [d \in Days |-> [u \in Users |-> [k \in Kinds |->
                used[d][u][k] + IF d \in tx[r].quotaDays /\ u = tx[r].user /\ k = tx[r].kind
                                THEN 1 ELSE 0]]]
  /\ Becomes(r, NoTx)
  /\ UNCHANGED day

(* A lost connection or a crash: PostgreSQL rolls back.                    *)
Fail(r) ==
  /\ ~At(r, "idle")
  /\ Becomes(r, NoTx)
  /\ UNCHANGED <<day, usage, used>>

Midnight ==
  /\ day < LastDay
  /\ day' = day + 1
  /\ UNCHANGED <<usage, used, tx>>

Charge(r) ==
  \/ StartConsume(r) \/ Consume(r) \/ QuotaExceeded(r)
  \/ StartReserve(r) \/ Reserve(r) \/ BudgetExceeded(r)
  \/ Commit(r)

Next == Midnight \/ \E r \in Requests : Begin(r) \/ Charge(r) \/ Fail(r)

Spec == Init /\ [][Next]_vars

(* A transaction that keeps waiting for a row gets it (PostgreSQL queues   *)
(* the waiters), and the server runs what it has started.                  *)
FairSpec == Spec /\ \A r \in Requests : SF_vars(Charge(r))

-----------------------------------------------------------------------------
TypeOK ==
  /\ day \in Days
  /\ usage \in [Days -> [Skus -> Nat]]
  /\ used \in [Days -> [Users -> [Kinds -> Nat]]]
  /\ tx \in [Requests -> Txs]
  /\ \A r \in Requests : At(r, "upsert") => SkusDue(r)

(* The daily budget of a SKU holds whatever the interleaving of charges    *)
(* (budget.py:1, test_concurrent_reservations_never_exceed_budget).        *)
DayBudget == \A d \in Days, s \in Budgeted : usage[d][s] <= DayCap[s]

(* The ledger implements ApiMeter: the counters change by whole charges    *)
(* only, each within the day's budgets and quotas (budget.py:182).         *)
Meter == INSTANCE ApiMeter WITH usage <- usage, used <- used
AllOrNothing == Meter!Spec

(* The monthly budget as budget.py:1 states it: no month ever counts more. *)
(* It does not hold: a charge after midnight misses what a charge of the   *)
(* day before has yet to commit.  No run checks it.                        *)
HardMonthBudget ==
  \A d \in Days, s \in Budgeted : EarlierInMonth(usage, d, s) + usage[d][s] <= MonthCap[s]

(* No two charges wait for each other's rows for ever: every charge ends.  *)
ChargesEnd == \A r \in Requests : ~At(r, "idle") ~> At(r, "idle")
=============================================================================
