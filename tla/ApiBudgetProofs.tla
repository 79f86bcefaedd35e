-------------------------- MODULE ApiBudgetProofs --------------------------
(***************************************************************************)
(* Proofs about ApiBudget, for any number of requests, users, SKUs, kinds  *)
(* of actions, days, and any budgets and quotas.                           *)
(***************************************************************************)
EXTENDS ApiBudget, TLAPS

LEMMA NoTxOK ==
  /\ NoTx \in Txs /\ NoTx.at = "idle" /\ NoTx.rows = {} /\ NoTx.quotaDays = {} /\ NoTx.next = 1
  /\ \A u \in Users, k \in Kinds : Begun(u, k) \in Txs
<1>1. (CHOOSE u \in Users : TRUE) \in Users /\ (CHOOSE k \in Kinds : TRUE) \in Kinds
  BY BudgetAssumption
<1>2. 0 \in Days /\ NoUsage \in [Days -> [Skus -> Nat]]
  BY BudgetAssumption DEF Days, NoUsage
<1>3. \A u \in Users, k \in Kinds : Begun(u, k) \in Txs
  BY <1>2 DEF Begun, Txs
<1> QED
  BY <1>1, <1>2, <1>3 DEF NoTx, Begun, Txs

(* The SKU in turn.                                                        *)
LEMMA SkuInTurn ==
  ASSUME TypeOK, NEW r \in Requests, SkusDue(r)
  PROVE  /\ tx[r].next \in DOMAIN Order[tx[r].kind]
         /\ Sku(r) \in Skus /\ Amount(r) \in Nat \ {0}
<1>1. tx[r].kind \in Kinds /\ tx[r].next \in Nat \ {0}
  BY DEF TypeOK, Txs
<1>2. Order[tx[r].kind] \in Seq(Skus)
  BY <1>1, BudgetAssumption
<1>3. tx[r].next \in 1 .. Len(Order[tx[r].kind])
  BY <1>1, <1>2 DEF SkusDue
<1>4. tx[r].next \in DOMAIN Order[tx[r].kind] /\ Sku(r) \in Skus
  BY <1>2, <1>3 DEF Sku
<1>5. Units[tx[r].kind][Sku(r)] \in Nat /\ Units[tx[r].kind][Sku(r)] > 0
  BY <1>1, <1>4, BudgetAssumption DEF Sku
<1> QED  BY <1>4, <1>5 DEF Amount

(* What a transaction record becomes is well typed.                        *)
LEMMA TxTyped ==
  ASSUME TypeOK, NEW r \in Requests, NEW t \in Txs, Becomes(r, t)
  PROVE  tx' \in [Requests -> Txs] /\ tx'[r] = t /\ \A q \in Requests \ {r} : tx'[q] = tx[q]
BY DEF TypeOK, Becomes

LEMMA CountedTyped ==
  ASSUME NEW t \in Txs, NEW row \in Days \X Skus, 0 \in Days, NoUsage \in [Days -> [Skus -> Nat]]
  PROVE  LET n == [t EXCEPT !.at = "open", !.next = @ + 1, !.on = 0, !.seen = NoUsage,
                            !.rows = @ \cup {row}]
         IN  n \in Txs /\ n.at = "open"
<1>1. t.rows \cup {row} \in SUBSET (Days \X Skus)
  BY DEF Txs
<1>2. t.next + 1 \in Nat \ {0}
  BY DEF Txs
<1> QED  BY <1>1, <1>2 DEF Txs

(* Every reachable state is well typed.                                    *)
THEOREM LedgerTyped == Spec => []TypeOK
<1>1. Init => TypeOK
  BY NoTxOK, BudgetAssumption DEF Init, TypeOK, Days, NoUsage, At
<1>2. TypeOK /\ [Next]_vars => TypeOK'
  <2> SUFFICES ASSUME TypeOK, [Next]_vars PROVE TypeOK'
    OBVIOUS
  <2>1. CASE Midnight
    BY <2>1, BudgetAssumption DEF Midnight, TypeOK, Days, At, SkusDue
  <2>2. ASSUME NEW r \in Requests, Begin(r) \/ Charge(r) \/ Fail(r) PROVE TypeOK'
    <3> DEFINE t == tx[r]
    <3>0. t \in Txs /\ 0 \in Days /\ NoUsage \in [Days -> [Skus -> Nat]]
      BY BudgetAssumption DEF TypeOK, Days, NoUsage
    <3>a. ASSUME NEW n \in Txs, Becomes(r, n), UNCHANGED <<day, usage, used>>,
                 n.at = "upsert" => n.next <= Len(Order[n.kind])
          PROVE TypeOK'
      BY <3>a, TxTyped DEF TypeOK, At, SkusDue
    <3>1. CASE Begin(r)
      <4>1. PICK u \in Users, k \in Kinds : Becomes(r, Begun(u, k))
        BY <3>1 DEF Begin
      <4>2. Begun(u, k) \in Txs /\ Begun(u, k).at # "upsert"
        BY NoTxOK DEF Begun
      <4> QED  BY <4>1, <4>2, <3>a, <3>1 DEF Begin
    <3>2. CASE StartConsume(r)
      <4> DEFINE n == [t EXCEPT !.at = "consume", !.on = day]
      <4>1. n \in Txs /\ n.at # "upsert"
        BY <3>0 DEF TypeOK, Txs
      <4> QED  BY <3>2, <4>1, <3>a DEF StartConsume
    <3>3. CASE Consume(r)
      <4> DEFINE n == [t EXCEPT !.at = "open", !.on = 0, !.quotaDays = {t.on}]
      <4>1. n \in Txs /\ n.at # "upsert"
        BY <3>0 DEF Txs
      <4> QED  BY <3>3, <4>1, <3>a DEF Consume
    <3>4. CASE QuotaExceeded(r)
      BY <3>4, NoTxOK, <3>a DEF QuotaExceeded
    <3>5. CASE StartReserve(r)
      <4> DEFINE n == [t EXCEPT !.at = "upsert", !.on = day, !.seen = usage]
      <4>1. n \in Txs /\ n.next = t.next /\ n.kind = t.kind
        BY <3>0 DEF TypeOK, Txs
      <4>2. t.next <= Len(Order[t.kind])
        BY <3>5 DEF StartReserve, SkusDue
      <4> QED  BY <3>5, <4>1, <4>2, <3>a DEF StartReserve
    <3>6. CASE Reserve(r)
      <4> DEFINE n == [t EXCEPT !.at = "open", !.next = @ + 1, !.on = 0, !.seen = NoUsage,
                                !.rows = @ \cup {<<t.on, Sku(r)>>}]
      <4>1. Sku(r) \in Skus
        BY <3>6, SkuInTurn DEF Reserve, TypeOK
      <4>2. <<t.on, Sku(r)>> \in Days \X Skus
        BY <4>1, <3>0 DEF Txs
      <4>3. n \in Txs /\ n.at # "upsert"
        BY <4>2, <3>0, CountedTyped
      <4> QED  BY <3>6, <4>3, <3>a DEF Reserve
    <3>7. CASE BudgetExceeded(r)
      BY <3>7, NoTxOK, <3>a DEF BudgetExceeded
    <3>8. CASE Commit(r)
      <4>0. ASSUME NEW d \in Days, NEW s \in Skus
            PROVE  usage[d][s] + (IF <<d, s>> \in t.rows THEN Units[t.kind][s] ELSE 0) \in Nat
        <5>1. usage[d][s] \in Nat /\ t.kind \in Kinds
          BY <3>0 DEF TypeOK, Txs
        <5>2. Units[t.kind][s] \in Nat
          BY <5>1, BudgetAssumption
        <5> QED  BY <5>1, <5>2
      <4>1. usage' \in [Days -> [Skus -> Nat]]
        BY <3>8, <4>0 DEF Commit
      <4>2. used' \in [Days -> [Users -> [Kinds -> Nat]]]
        BY <3>8, <3>0 DEF Commit, TypeOK, Txs
      <4>3. tx' \in [Requests -> Txs] /\ tx'[r] = NoTx
            /\ \A q \in Requests \ {r} : tx'[q] = tx[q]
        BY <3>8, NoTxOK, TxTyped DEF Commit
      <4>4. \A q \in Requests : At(q, "upsert")' => SkusDue(q)'
        BY <4>3, NoTxOK DEF TypeOK, At, SkusDue
      <4>5. day' \in Days
        BY <3>8 DEF Commit, TypeOK
      <4> QED  BY <4>1, <4>2, <4>3, <4>4, <4>5 DEF TypeOK
    <3>9. CASE Fail(r)
      BY <3>9, NoTxOK, <3>a DEF Fail
    <3> QED  BY <2>2, <3>1, <3>2, <3>3, <3>4, <3>5, <3>6, <3>7, <3>8, <3>9 DEF Charge
  <2>3. CASE UNCHANGED vars
    BY <2>3 DEF vars, TypeOK, At, SkusDue
  <2> QED  BY <2>1, <2>2, <2>3 DEF Next
<1> QED  BY <1>1, <1>2, PTL DEF Spec

-----------------------------------------------------------------------------
(* The invariant behind the budgets: who holds a usage row holds it alone, *)
(* has found room in it for what it will add, holds one row for each SKU   *)
(* it has reserved and no other; the same for the row of a quota.          *)
Holds(r, d, s) == <<d, s>> \in tx[r].rows
Reserved(r, s) ==
  \E i \in DOMAIN Order[tx[r].kind] : i < tx[r].next /\ Order[tx[r].kind][i] = s

RowOK(r, d, s) ==
  /\ \A q \in Requests : Holds(q, d, s) => q = r
  /\ \A e \in Days : Holds(r, e, s) => e = d
  /\ s \in Budgeted => usage[d][s] + Units[tx[r].kind][s] <= DayCap[s]
  /\ Reserved(r, s)

QuotaRowOK(r, d) ==
  /\ tx[r].quotaDays = {d} /\ tx[r].kind \in Gated
  /\ used[d][tx[r].user][tx[r].kind] + 1 <= Quota[tx[r].kind]
  /\ \A q \in Requests : d \in tx[q].quotaDays /\ tx[q].user = tx[r].user
                         /\ tx[q].kind = tx[r].kind => q = r

RowsInv == \A r \in Requests, d \in Days, s \in Skus : Holds(r, d, s) => RowOK(r, d, s)
ReservedInv ==
  \A r \in Requests, s \in Skus : Reserved(r, s) => \E d \in Days : Holds(r, d, s)
QuotaInv ==
  \A r \in Requests :
    /\ At(r, "consume") => tx[r].kind \in Gated /\ tx[r].quotaDays = {}
    /\ \A d \in Days : d \in tx[r].quotaDays => QuotaRowOK(r, d)

LedgerInv == TypeOK /\ RowsInv /\ ReservedInv /\ QuotaInv /\ DayBudget

(* A transaction that ends, or starts, without touching the ledger.        *)
LEMMA Dropped ==
  ASSUME LedgerInv, TypeOK', NEW r \in Requests, NEW t \in Txs, Becomes(r, t),
         t.rows = {}, t.quotaDays = {}, t.next = 1, t.at # "consume",
         usage' = usage, used' = used
  PROVE  LedgerInv'
<1>1. tx'[r] = t /\ \A q \in Requests \ {r} : tx'[q] = tx[q]
  BY TxTyped DEF LedgerInv
<1>2. \A d \in Days, s \in Skus : ~Holds(r, d, s)'
  BY <1>1 DEF Holds
<1>3. \A i \in DOMAIN Order[t.kind] : ~(i < 1)
  <2>1. Order[t.kind] \in Seq(Skus)
    BY BudgetAssumption DEF Txs
  <2> QED  BY <2>1
<1>4. RowsInv'
  <2> SUFFICES ASSUME NEW q \in Requests, NEW d \in Days, NEW s \in Skus, Holds(q, d, s)'
               PROVE  RowOK(q, d, s)'
    BY DEF RowsInv
  <2>1. tx'[q] = tx[q]
    BY <1>1, <1>2
  <2>2. RowOK(q, d, s)
    BY <2>1 DEF LedgerInv, RowsInv, Holds
  <2>3. \A p \in Requests, e \in Days : Holds(p, e, s)' => Holds(p, e, s)
    BY <1>1, <1>2 DEF Holds
  <2>4. Reserved(q, s)'
    BY <2>1, <2>2 DEF RowOK, Reserved
  <2> QED  BY <2>1, <2>2, <2>3, <2>4 DEF RowOK
<1>5. ReservedInv'
  BY <1>1, <1>3 DEF LedgerInv, ReservedInv, Holds, Reserved
<1>6. QuotaInv'
  <2> SUFFICES ASSUME NEW q \in Requests
               PROVE  /\ At(q, "consume")' => tx'[q].kind \in Gated /\ tx'[q].quotaDays = {}
                      /\ \A d \in Days : d \in tx'[q].quotaDays => QuotaRowOK(q, d)'
    BY DEF QuotaInv
  <2>1. CASE q = r
    BY <2>1, <1>1 DEF At
  <2>2. CASE q # r
    <3>1. tx'[q] = tx[q]
      BY <2>2, <1>1
    <3>2. ASSUME NEW d \in Days, d \in tx[q].quotaDays PROVE QuotaRowOK(q, d)'
      <4>1. QuotaRowOK(q, d)
        BY <3>2 DEF LedgerInv, QuotaInv
      <4> QED  BY <4>1, <3>1, <1>1 DEF QuotaRowOK
    <3> QED  BY <3>1, <3>2 DEF LedgerInv, QuotaInv, At
  <2> QED  BY <2>1, <2>2
<1> QED  BY <1>4, <1>5, <1>6 DEF LedgerInv, DayBudget

(* A statement that starts.                                                *)
LEMMA Started ==
  ASSUME LedgerInv, TypeOK', NEW r \in Requests, NEW t \in Txs, Becomes(r, t),
         t.rows = tx[r].rows, t.quotaDays = tx[r].quotaDays, t.next = tx[r].next,
         t.kind = tx[r].kind, t.user = tx[r].user,
         t.at = "consume" => t.kind \in Gated /\ t.quotaDays = {},
         usage' = usage, used' = used
  PROVE  LedgerInv'
<1>1. tx'[r] = t /\ \A q \in Requests \ {r} : tx'[q] = tx[q]
  BY TxTyped DEF LedgerInv
<1>2. \A q \in Requests : /\ tx'[q].rows = tx[q].rows /\ tx'[q].quotaDays = tx[q].quotaDays
                           /\ tx'[q].next = tx[q].next /\ tx'[q].kind = tx[q].kind
                           /\ tx'[q].user = tx[q].user
  BY <1>1
<1>4. RowsInv'
  <2> SUFFICES ASSUME NEW q \in Requests, NEW d \in Days, NEW s \in Skus, Holds(q, d, s)'
               PROVE  RowOK(q, d, s)'
    BY DEF RowsInv
  <2>1. \A p \in Requests, e \in Days : Holds(p, e, s)' <=> Holds(p, e, s)
    BY <1>2 DEF Holds
  <2>2. RowOK(q, d, s)
    BY <2>1 DEF LedgerInv, RowsInv
  <2>3. Reserved(q, s)'
    BY <1>2, <2>2 DEF RowOK, Reserved
  <2> QED  BY <1>2, <2>1, <2>2, <2>3 DEF RowOK
<1>5. ReservedInv'
  BY <1>2 DEF LedgerInv, ReservedInv, Holds, Reserved
<1>6. QuotaInv'
  <2> SUFFICES ASSUME NEW q \in Requests
               PROVE  /\ At(q, "consume")' => tx'[q].kind \in Gated /\ tx'[q].quotaDays = {}
                      /\ \A d \in Days : d \in tx'[q].quotaDays => QuotaRowOK(q, d)'
    BY DEF QuotaInv
  <2>1. At(q, "consume")' => tx'[q].kind \in Gated /\ tx'[q].quotaDays = {}
    BY <1>1 DEF LedgerInv, QuotaInv, At
  <2>2. ASSUME NEW d \in Days, d \in tx'[q].quotaDays PROVE QuotaRowOK(q, d)'
    <3>1. QuotaRowOK(q, d)
      BY <2>2, <1>2 DEF LedgerInv, QuotaInv
    <3> QED  BY <3>1, <1>2 DEF QuotaRowOK
  <2> QED  BY <2>1, <2>2
<1> QED  BY <1>4, <1>5, <1>6 DEF LedgerInv, DayBudget

LEMMA ConsumeKeeps ==
  ASSUME LedgerInv, TypeOK', NEW r \in Requests, Consume(r)
  PROVE  LedgerInv'
<1> DEFINE on == tx[r].on
           t == [tx[r] EXCEPT !.at = "open", !.on = 0, !.quotaDays = {on}]
<1>0. tx[r] \in Txs /\ tx' = [tx EXCEPT ![r] = t] /\ usage' = usage /\ used' = used
  BY DEF LedgerInv, TypeOK, Consume, Becomes
<1>1. /\ tx'[r].rows = tx[r].rows /\ tx'[r].next = tx[r].next /\ tx'[r].kind = tx[r].kind
      /\ tx'[r].user = tx[r].user /\ tx'[r].quotaDays = {on} /\ tx'[r].at = "open"
      /\ \A q \in Requests \ {r} : tx'[q] = tx[q]
  BY <1>0 DEF LedgerInv, TypeOK, Txs
<1>2. RowsInv' /\ ReservedInv'
  <2>1. \A q \in Requests : /\ tx'[q].rows = tx[q].rows /\ tx'[q].next = tx[q].next
                             /\ tx'[q].kind = tx[q].kind
    BY <1>1
  <2>2. ASSUME NEW q \in Requests, NEW d \in Days, NEW s \in Skus, Holds(q, d, s)'
        PROVE  RowOK(q, d, s)'
    <3>1. \A p \in Requests, e \in Days : Holds(p, e, s)' <=> Holds(p, e, s)
      BY <2>1 DEF Holds
    <3>2. RowOK(q, d, s)
      BY <2>2, <3>1 DEF LedgerInv, RowsInv
    <3>3. Reserved(q, s)'
      BY <2>1, <3>2 DEF RowOK, Reserved
    <3> QED  BY <1>0, <2>1, <3>1, <3>2, <3>3 DEF RowOK
  <2> QED  BY <2>1, <2>2 DEF LedgerInv, RowsInv, ReservedInv, Holds, Reserved
<1>3. QuotaInv'
  <2> SUFFICES ASSUME NEW q \in Requests
               PROVE  /\ At(q, "consume")' => tx'[q].kind \in Gated /\ tx'[q].quotaDays = {}
                      /\ \A d \in Days : d \in tx'[q].quotaDays => QuotaRowOK(q, d)'
    BY DEF QuotaInv
  <2>1. CASE q = r
    <3>1. ASSUME NEW d \in Days, d \in tx'[r].quotaDays PROVE QuotaRowOK(r, d)'
      <4>1. d = on
        BY <3>1, <1>1
      <4>2. tx[r].kind \in Gated
        BY DEF LedgerInv, QuotaInv, Consume
      <4>3. used[d][tx[r].user][tx[r].kind] + 1 <= Quota[tx[r].kind]
        BY <4>1 DEF Consume
      <4>4. \A p \in Requests \ {r} :
              ~(d \in tx'[p].quotaDays /\ tx'[p].user = tx[r].user /\ tx'[p].kind = tx[r].kind)
        BY <4>1, <1>1 DEF Consume, QuotaRowFree
      <4> QED  BY <4>1, <4>2, <4>3, <4>4, <1>0, <1>1 DEF QuotaRowOK
    <3> QED  BY <2>1, <3>1, <1>1 DEF At
  <2>2. CASE q # r
    <3>1. ASSUME NEW d \in Days, d \in tx[q].quotaDays PROVE QuotaRowOK(q, d)'
      <4>1. QuotaRowOK(q, d)
        BY <3>1 DEF LedgerInv, QuotaInv
      <4>2. ~(d = on /\ tx[q].user = tx[r].user /\ tx[q].kind = tx[r].kind)
        BY <3>1, <2>2 DEF Consume, QuotaRowFree
      <4>3. \A p \in Requests : d \in tx'[p].quotaDays /\ tx'[p].user = tx[q].user
                                /\ tx'[p].kind = tx[q].kind => p = q
        BY <4>1, <4>2, <1>1 DEF QuotaRowOK
      <4> QED  BY <4>1, <4>3, <1>0, <1>1, <2>2 DEF QuotaRowOK
    <3> QED  BY <3>1, <2>2, <1>1 DEF LedgerInv, QuotaInv, At
  <2> QED  BY <2>1, <2>2
<1> QED  BY <1>0, <1>2, <1>3 DEF LedgerInv, DayBudget

LEMMA ReserveKeeps ==
  ASSUME LedgerInv, TypeOK', NEW r \in Requests, Reserve(r)
  PROVE  LedgerInv'
<1> DEFINE on == tx[r].on
           sku == Sku(r)
           next == tx[r].next
           t == [tx[r] EXCEPT !.at = "open", !.next = @ + 1, !.on = 0, !.seen = NoUsage,
                              !.rows = @ \cup {<<on, sku>>}]
<1>0. /\ tx[r] \in Txs /\ tx' = [tx EXCEPT ![r] = t] /\ usage' = usage /\ used' = used
      /\ next \in Nat \ {0}
  BY DEF LedgerInv, TypeOK, Reserve, Becomes, Txs
<1>1. /\ tx'[r].rows = tx[r].rows \cup {<<on, sku>>} /\ tx'[r].next = next + 1
      /\ tx'[r].kind = tx[r].kind /\ tx'[r].user = tx[r].user
      /\ tx'[r].quotaDays = tx[r].quotaDays /\ tx'[r].at = "open"
      /\ \A q \in Requests \ {r} : tx'[q] = tx[q]
  BY <1>0 DEF LedgerInv, TypeOK, Txs
<1>2. /\ next \in DOMAIN Order[tx[r].kind] /\ sku \in Skus /\ sku = Order[tx[r].kind][next]
      /\ on \in Days /\ tx[r].kind \in Kinds
  BY SkuInTurn, <1>0 DEF LedgerInv, TypeOK, Reserve, Sku, Txs
<1>3. ~Reserved(r, sku)
  <2>1. \A i \in DOMAIN Order[tx[r].kind] : i # next => Order[tx[r].kind][i] # sku
    BY <1>2, BudgetAssumption
  <2>2. Order[tx[r].kind] \in Seq(Skus)
    BY <1>2, BudgetAssumption
  <2> QED  BY <1>0, <2>1, <2>2 DEF Reserved
<1>4. \A e \in Days : ~Holds(r, e, sku)
  BY <1>2, <1>3 DEF LedgerInv, RowsInv, RowOK
<1>5. \A p \in Requests, e \in Days, s \in Skus :
        Holds(p, e, s)' <=> Holds(p, e, s) \/ (p = r /\ e = on /\ s = sku)
  BY <1>1, <1>2 DEF Holds
<1>6. \A q \in Requests, s \in Skus : Reserved(q, s)' <=> Reserved(q, s) \/ (q = r /\ s = sku)
  <2>1. ASSUME NEW s \in Skus PROVE Reserved(r, s)' <=> Reserved(r, s) \/ s = sku
    <3>1. Order[tx[r].kind] \in Seq(Skus)
      BY <1>2, BudgetAssumption
    <3>2. \A i \in DOMAIN Order[tx[r].kind] : i < next + 1 <=> i < next \/ i = next
      BY <3>1, <1>0
    <3> QED  BY <3>2, <1>1, <1>2 DEF Reserved
  <2> QED  BY <2>1, <1>1 DEF Reserved
<1>7. RowsInv'
  <2> SUFFICES ASSUME NEW q \in Requests, NEW d \in Days, NEW s \in Skus, Holds(q, d, s)'
               PROVE  RowOK(q, d, s)'
    BY DEF RowsInv
  <2>1. CASE q = r /\ d = on /\ s = sku
    <3>1. \A p \in Requests : Holds(p, d, s)' => p = r
      BY <2>1, <1>5 DEF Reserve, UsageRowFree, Holds
    <3>2. \A e \in Days : Holds(r, e, s)' => e = d
      BY <2>1, <1>4, <1>5
    <3>3. s \in Budgeted => usage[d][s] + Units[tx[r].kind][s] <= DayCap[s]
      BY <2>1 DEF Reserve, WithinBudget, DayUnits, Amount
    <3> QED  BY <3>1, <3>2, <3>3, <2>1, <1>0, <1>1, <1>6 DEF RowOK
  <2>2. CASE Holds(q, d, s) /\ ~(q = r /\ d = on /\ s = sku)
    <3>1. RowOK(q, d, s)
      BY <2>2 DEF LedgerInv, RowsInv
    <3>2. ~(d = on /\ s = sku)
      BY <2>2 DEF Reserve, UsageRowFree, Holds
    <3>3. \A p \in Requests : Holds(p, d, s)' => p = q
      BY <3>1, <3>2, <1>5 DEF RowOK
    <3>4. \A e \in Days : Holds(q, e, s)' => e = d
      BY <2>2, <3>1, <1>4, <1>5 DEF RowOK
    <3>5. tx'[q].kind = tx[q].kind
      BY <1>1
    <3> QED  BY <3>1, <3>3, <3>4, <3>5, <1>0, <1>6 DEF RowOK
  <2> QED  BY <2>1, <2>2, <1>5
<1>8. ReservedInv'
  BY <1>2, <1>5, <1>6 DEF LedgerInv, ReservedInv
<1>9. QuotaInv'
  <2>1. \A q \in Requests : /\ tx'[q].quotaDays = tx[q].quotaDays /\ tx'[q].kind = tx[q].kind
                             /\ tx'[q].user = tx[q].user
    BY <1>1
  <2>2. \A q \in Requests : At(q, "consume")' => At(q, "consume")
    BY <1>1 DEF At
  <2>3. ASSUME NEW q \in Requests, NEW d \in Days, d \in tx'[q].quotaDays PROVE QuotaRowOK(q, d)'
    <3>1. QuotaRowOK(q, d)
      BY <2>1, <2>3 DEF LedgerInv, QuotaInv
    <3> QED  BY <3>1, <2>1, <1>0 DEF QuotaRowOK
  <2> QED  BY <2>1, <2>2, <2>3 DEF LedgerInv, QuotaInv
<1> QED  BY <1>0, <1>7, <1>8, <1>9 DEF LedgerInv, DayBudget

(* What a commit adds: for a row it holds, what it has reserved there.     *)
LEMMA Committed ==
  ASSUME LedgerInv, NEW r \in Requests, Commit(r), NEW d \in Days, NEW s \in Skus
  PROVE  usage'[d][s] = IF Holds(r, d, s) THEN usage[d][s] + Units[tx[r].kind][s] ELSE usage[d][s]
<1>1. usage[d][s] \in Nat /\ tx[r].kind \in Kinds
  BY DEF LedgerInv, TypeOK, Txs
<1>2. usage'[d][s] = usage[d][s] + (IF <<d, s>> \in tx[r].rows THEN Units[tx[r].kind][s] ELSE 0)
  BY DEF Commit
<1> QED  BY <1>1, <1>2 DEF Holds

LEMMA CommitKeeps ==
  ASSUME LedgerInv, TypeOK', NEW r \in Requests, Commit(r)
  PROVE  LedgerInv'
<1>1. /\ tx'[r] = NoTx /\ \A q \in Requests \ {r} : tx'[q] = tx[q]
      /\ tx[r] \in Txs
  BY NoTxOK, TxTyped DEF LedgerInv, Commit, TypeOK
<1>2. \A d \in Days, s \in Skus : ~Holds(r, d, s)'
  BY <1>1, NoTxOK DEF Holds
<1>3. DayBudget'
  <2> SUFFICES ASSUME NEW d \in Days, NEW s \in Budgeted PROVE usage'[d][s] <= DayCap[s]
    BY DEF DayBudget
  <2>1. s \in Skus
    BY BudgetAssumption
  <2>2. Holds(r, d, s) => usage[d][s] + Units[tx[r].kind][s] <= DayCap[s]
    BY <2>1 DEF LedgerInv, RowsInv, RowOK
  <2>3. usage[d][s] <= DayCap[s]
    BY DEF LedgerInv, DayBudget
  <2> QED  BY <2>1, <2>2, <2>3, Committed
<1>4. RowsInv'
  <2> SUFFICES ASSUME NEW q \in Requests, NEW d \in Days, NEW s \in Skus, Holds(q, d, s)'
               PROVE  RowOK(q, d, s)'
    BY DEF RowsInv
  <2>1. q # r /\ tx'[q] = tx[q]
    BY <1>1, <1>2
  <2>2. RowOK(q, d, s)
    BY <2>1 DEF LedgerInv, RowsInv, Holds
  <2>3. ~Holds(r, d, s)
    BY <2>1, <2>2 DEF RowOK
  <2>4. usage'[d][s] = usage[d][s]
    BY <2>3, Committed
  <2>5. \A p \in Requests, e \in Days : Holds(p, e, s)' => Holds(p, e, s)
    BY <1>1, <1>2 DEF Holds
  <2>6. Reserved(q, s)'
    BY <2>1, <2>2 DEF RowOK, Reserved
  <2> QED  BY <2>1, <2>2, <2>4, <2>5, <2>6 DEF RowOK
<1>5. ReservedInv'
  <2>1. \A s \in Skus : ~Reserved(r, s)'
    <3>1. Order[NoTx.kind] \in Seq(Skus)
      BY NoTxOK, BudgetAssumption DEF Txs
    <3>2. \A i \in DOMAIN Order[NoTx.kind] : ~(i < 1)
      BY <3>1
    <3> QED  BY <3>2, <1>1, NoTxOK DEF Reserved
  <2> QED  BY <2>1, <1>1 DEF LedgerInv, ReservedInv, Reserved, Holds
<1>6. QuotaInv'
  <2> SUFFICES ASSUME NEW q \in Requests
               PROVE  /\ At(q, "consume")' => tx'[q].kind \in Gated /\ tx'[q].quotaDays = {}
                      /\ \A d \in Days : d \in tx'[q].quotaDays => QuotaRowOK(q, d)'
    BY DEF QuotaInv
  <2>1. CASE q = r
    BY <2>1, <1>1, NoTxOK DEF At
  <2>2. CASE q # r
    <3>1. tx'[q] = tx[q]
      BY <2>2, <1>1
    <3>2. ASSUME NEW d \in Days, d \in tx[q].quotaDays PROVE QuotaRowOK(q, d)'
      <4>1. QuotaRowOK(q, d)
        BY <3>2 DEF LedgerInv, QuotaInv
      <4>2. ~(d \in tx[r].quotaDays /\ tx[q].user = tx[r].user /\ tx[q].kind = tx[r].kind)
        BY <4>1, <2>2 DEF QuotaRowOK
      <4>3. tx[q].user \in Users /\ tx[q].kind \in Kinds
        BY DEF LedgerInv, TypeOK, Txs
      <4>4. used'[d][tx[q].user][tx[q].kind] = used[d][tx[q].user][tx[q].kind] + 0
        BY <4>2, <4>3 DEF Commit
      <4>5. used[d][tx[q].user][tx[q].kind] \in Nat
        BY <4>3 DEF LedgerInv, TypeOK
      <4>6. used'[d][tx[q].user][tx[q].kind] = used[d][tx[q].user][tx[q].kind]
        BY <4>4, <4>5
      <4>7. \A p \in Requests : tx'[p] = tx[p] \/ tx'[p].quotaDays = {}
        BY <1>1, NoTxOK
      <4> QED  BY <4>1, <4>6, <4>7, <3>1 DEF QuotaRowOK
    <3> QED  BY <3>1, <3>2 DEF LedgerInv, QuotaInv, At
  <2> QED  BY <2>1, <2>2
<1> QED  BY <1>3, <1>4, <1>5, <1>6 DEF LedgerInv

THEOREM LedgerInvariant == Spec => []LedgerInv
<1>1. Init => LedgerInv
  <2> SUFFICES ASSUME Init PROVE LedgerInv
    OBVIOUS
  <2>1. TypeOK
    BY NoTxOK, BudgetAssumption DEF Init, TypeOK, Days, NoUsage, At
  <2>2. \A r \in Requests : tx[r] = NoTx
    BY DEF Init
  <2>3. Order[NoTx.kind] \in Seq(Skus)
    BY NoTxOK, BudgetAssumption DEF Txs
  <2>4. \A i \in DOMAIN Order[NoTx.kind] : ~(i < 1)
    BY <2>3
  <2>5. RowsInv /\ ReservedInv
    BY <2>2, <2>4, NoTxOK DEF RowsInv, ReservedInv, Holds, Reserved
  <2>6. QuotaInv
    BY <2>2, NoTxOK DEF QuotaInv, At
  <2>7. DayBudget
    BY BudgetAssumption DEF DayBudget, Init, NoUsage
  <2> QED  BY <2>1, <2>5, <2>6, <2>7 DEF LedgerInv
<1>2. LedgerInv /\ TypeOK' /\ [Next]_vars => LedgerInv'
  <2> SUFFICES ASSUME LedgerInv, TypeOK', [Next]_vars PROVE LedgerInv'
    OBVIOUS
  <2>1. CASE UNCHANGED <<usage, used, tx>>
    BY <2>1 DEF LedgerInv, RowsInv, RowOK, ReservedInv, Reserved, QuotaInv, QuotaRowOK,
                DayBudget, Holds, At
  <2>2. ASSUME NEW r \in Requests, Begin(r) \/ Charge(r) \/ Fail(r) PROVE LedgerInv'
    <3>0. tx[r] \in Txs
      BY DEF LedgerInv, TypeOK
    <3>1. CASE Begin(r)
      <4>1. PICK u \in Users, k \in Kinds : Becomes(r, Begun(u, k))
        BY <3>1 DEF Begin
      <4>2. /\ Begun(u, k) \in Txs /\ Begun(u, k).rows = {} /\ Begun(u, k).quotaDays = {}
            /\ Begun(u, k).next = 1 /\ Begun(u, k).at = "open"
        BY NoTxOK DEF Begun
      <4> QED  BY <4>1, <4>2, <3>1, Dropped DEF Begin
    <3>2. CASE QuotaExceeded(r) \/ BudgetExceeded(r) \/ Fail(r)
      BY <3>2, NoTxOK, Dropped DEF QuotaExceeded, BudgetExceeded, Fail
    <3>3. CASE StartConsume(r)
      <4> DEFINE t == [tx[r] EXCEPT !.at = "consume", !.on = day]
      <4>1. /\ t \in Txs /\ t.rows = tx[r].rows /\ t.quotaDays = tx[r].quotaDays
            /\ t.next = tx[r].next /\ t.kind = tx[r].kind /\ t.user = tx[r].user
        BY <3>0 DEF Txs, LedgerInv, TypeOK
      <4> QED  BY <4>1, <3>3, Started DEF StartConsume, QuotaDue
    <3>4. CASE StartReserve(r)
      <4> DEFINE t == [tx[r] EXCEPT !.at = "upsert", !.on = day, !.seen = usage]
      <4>1. /\ t \in Txs /\ t.rows = tx[r].rows /\ t.quotaDays = tx[r].quotaDays
            /\ t.next = tx[r].next /\ t.kind = tx[r].kind /\ t.user = tx[r].user
            /\ t.at = "upsert"
        BY <3>0 DEF Txs, LedgerInv, TypeOK
      <4> QED  BY <4>1, <3>4, Started DEF StartReserve
    <3> QED  BY <2>2, <3>1, <3>2, <3>3, <3>4, ConsumeKeeps, ReserveKeeps, CommitKeeps DEF Charge
  <2> QED  BY <2>1, <2>2 DEF Next, Midnight, vars
<1> QED  BY <1>1, <1>2, LedgerTyped, PTL DEF Spec

(* The daily budget of every SKU holds in every reachable state.           *)
THEOREM DayBudgetHolds == Spec => []DayBudget
BY LedgerInvariant, PTL DEF LedgerInv

-----------------------------------------------------------------------------
(* A commit is one charge of the abstract meter.                           *)
LEMMA CommitCharges ==
  ASSUME LedgerInv, LedgerInv', NEW r \in Requests, Commit(r)
  PROVE  Meter!Charge(tx[r].user, tx[r].kind)
<1> DEFINE k == tx[r].kind
           u == tx[r].user
           on == [s \in Skus |-> IF Units[k][s] > 0 THEN CHOOSE d \in Days : Holds(r, d, s) ELSE 0]
<1>1. k \in Kinds /\ u \in Users /\ 0 \in Days /\ tx[r].next \in Nat \ {0}
  <2>1. LastDay \in Nat
    BY BudgetAssumption
  <2>2. 0 \in Days
    BY <2>1 DEF Days
  <2>3. tx[r] \in Txs
    BY DEF LedgerInv, TypeOK
  <2> QED  BY <2>2, <2>3 DEF Txs
<1>2. \A s \in Skus : Reserved(r, s) <=> Units[k][s] > 0
  <2>1. Order[k] \in Seq(Skus)
    BY <1>1, BudgetAssumption
  <2>2. \A i \in DOMAIN Order[k] : i < tx[r].next
    BY <2>1, <1>1 DEF Commit, SkusDue
  <2> QED  BY <2>2, <1>1, BudgetAssumption DEF Reserved
<1>3. ASSUME NEW s \in Skus, Units[k][s] > 0
      PROVE  on[s] \in Days /\ Holds(r, on[s], s) /\ \A d \in Days : Holds(r, d, s) => d = on[s]
  <2>1. \E d \in Days : Holds(r, d, s)
    BY <1>2, <1>3 DEF LedgerInv, ReservedInv
  <2>2. on[s] \in Days /\ Holds(r, on[s], s)
    BY <2>1, <1>3
  <2> QED  BY <2>2 DEF LedgerInv, RowsInv, RowOK
<1>4. ASSUME NEW s \in Skus, ~(Units[k][s] > 0), NEW d \in Days
      PROVE  ~Holds(r, d, s) /\ Units[k][s] = 0
  <2>1. Units[k][s] \in Nat
    BY <1>1, BudgetAssumption
  <2> QED  BY <2>1, <1>2, <1>4 DEF LedgerInv, RowsInv, RowOK
<1>5. on \in [Skus -> Days]
  BY <1>1, <1>3
<1>6. ASSUME NEW d \in Days, NEW s \in Skus
      PROVE  usage'[d][s] = IF on[s] = d THEN usage[d][s] + Units[k][s] ELSE usage[d][s]
  <2>0. usage[d][s] \in Nat
    BY DEF LedgerInv, TypeOK
  <2>1. CASE Units[k][s] > 0
    BY <2>1, <1>3, Committed
  <2>2. CASE ~(Units[k][s] > 0)
    BY <2>0, <2>2, <1>4, Committed
  <2> QED  BY <2>1, <2>2
<1>7. usage' = [d \in Days |-> [s \in Skus |->
                 IF on[s] = d THEN usage[d][s] + Units[k][s] ELSE usage[d][s]]]
  BY <1>6 DEF Commit
<1>8. \A s \in Budgeted : usage'[on[s]][s] <= DayCap[s]
  BY <1>5, BudgetAssumption DEF LedgerInv, DayBudget
<1>9. Meter!CountSkus(k)
  BY <1>5, <1>7, <1>8 DEF Meter!CountSkus
<1>10. Meter!CountAction(u, k)
  <2>1. CASE k \in Gated
    <3>1. tx[r].quotaDays # {} /\ tx[r].quotaDays \subseteq Days
      BY <2>1 DEF Commit, QuotaDue, LedgerInv, TypeOK, Txs
    <3>2. PICK e \in Days : e \in tx[r].quotaDays
      BY <3>1
    <3>3. tx[r].quotaDays = {e} /\ used[e][u][k] + 1 <= Quota[k]
      BY <3>2 DEF LedgerInv, QuotaInv, QuotaRowOK
    <3>4. used' = [d \in Days |-> [v \in Users |-> [j \in Kinds |->
                     used[d][v][j] + IF d = e /\ v = u /\ j = k THEN 1 ELSE 0]]]
      <4>1. \A d : d \in tx[r].quotaDays <=> d = e
        BY <3>3
      <4> QED  BY <4>1 DEF Commit
    <3>5. used[e][u][k] \in Nat /\ Quota[k] \in Nat
      <4>1. used \in [Days -> [Users -> [Kinds -> Nat]]] /\ Quota \in [Gated -> Nat]
        BY BudgetAssumption DEF LedgerInv, TypeOK
      <4> QED  BY <4>1, <1>1, <2>1
    <3>6. used'[e][u][k] = used[e][u][k] + 1
      BY <3>4, <1>1
    <3>7. used'[e][u][k] <= Quota[k]
      BY <3>3, <3>5, <3>6
    <3> QED  BY <2>1, <3>4, <3>7 DEF Meter!CountAction
  <2>2. CASE k \notin Gated
    <3>1. tx[r].quotaDays = {}
      BY <2>2 DEF LedgerInv, QuotaInv, QuotaRowOK, TypeOK, Txs
    <3>2. used' = [d \in Days |-> [v \in Users |-> [j \in Kinds |-> used[d][v][j]]]]
      <4>1. used' = [d \in Days |-> [v \in Users |-> [j \in Kinds |-> used[d][v][j] + 0]]]
        BY <3>1 DEF Commit
      <4>2. ASSUME NEW d \in Days, NEW v \in Users, NEW j \in Kinds
            PROVE  used[d][v][j] + 0 = used[d][v][j]
        BY DEF LedgerInv, TypeOK
      <4> QED  BY <4>1, <4>2
    <3>3. used = [d \in Days |-> [v \in Users |-> [j \in Kinds |-> used[d][v][j]]]]
      BY DEF LedgerInv, TypeOK
    <3> QED  BY <2>2, <3>2, <3>3 DEF Meter!CountAction
  <2> QED  BY <2>1, <2>2
<1> QED  BY <1>9, <1>10 DEF Meter!Charge

(* The ledger implements ApiMeter: whole charges only, within the budgets  *)
(* and quotas of the day.                                                  *)
THEOREM ImplementsMeter == Spec => AllOrNothing
<1>1. Init => Meter!Init
  BY DEF Init, Meter!Init, NoUsage
<1>2. LedgerInv /\ LedgerInv' /\ [Next]_vars => [Meter!Next]_<<usage, used>>
  <2> SUFFICES ASSUME LedgerInv, LedgerInv', [Next]_vars
               PROVE  Meter!Next \/ UNCHANGED <<usage, used>>
    OBVIOUS
  <2>1. ASSUME NEW r \in Requests, Commit(r) PROVE Meter!Next
    <3>1. tx[r].user \in Users /\ tx[r].kind \in Kinds
      BY DEF LedgerInv, TypeOK, Txs
    <3> QED  BY <2>1, <3>1, CommitCharges DEF Meter!Next
  <2> QED  BY <2>1 DEF Next, vars, Midnight, Begin, Charge, Fail, StartConsume, Consume,
                       QuotaExceeded, StartReserve, Reserve, BudgetExceeded
<1> QED  BY <1>1, <1>2, LedgerInvariant, PTL DEF Spec, AllOrNothing, Meter!Spec
=============================================================================
