---------------------------- MODULE BoardProofs ----------------------------
(***************************************************************************)
(* Theorems about Board, for any days and stops of a trip, any handlers    *)
(* under way at once and any edits by others.                              *)
(***************************************************************************)
EXTENDS Board, FunctionTheorems, FiniteSetTheorems, SequenceTheorems, WellFoundedInduction, TLAPS

(* A nonempty set of numbers has a least one.                              *)
LEMMA LeastOf ==
  ASSUME NEW I \in SUBSET Nat, I # {}
  PROVE  Min(I) \in I /\ \A i \in I : Min(I) <= i
<1> DEFINE Less == {p \in Nat \X Nat : p[1] < p[2]}
<1>1. IsWellFoundedOn(Less, Nat)
  BY NatLessThanWellFounded DEF OpToRel
<1>2. PICK m \in I : \A i \in I : ~(<<i, m>> \in Less)
  BY <1>1, WFMin
<1>3. ASSUME NEW i \in I PROVE m <= i
  <2>1. <<i, m>> \in Nat \X Nat /\ <<i, m>> \notin Less
    BY <1>2
  <2> QED  BY <2>1
<1> QED  BY <1>2, <1>3 DEF Min

(* A chip taken out of a column leaves the others in their order.          *)
LEMMA TakenOut ==
  ASSUME NEW T, NEW q \in Seq(T), NEW x, IsInjective(q), NEW k \in 1 .. Len(q), q[k] = x
  PROVE  /\ RemoveFirst(q, x) \in Seq(T)
         /\ Len(RemoveFirst(q, x)) = Len(q) - 1
         /\ \A i \in 1 .. Len(q) - 1 : RemoveFirst(q, x)[i] = IF i < k THEN q[i] ELSE q[i + 1]
<1> DEFINE I == {i \in 1 .. Len(q) : q[i] = x}
<1>1. I = {k}
  BY DEF IsInjective
<1>2. Min(I) = k
  <2>1. I \in SUBSET Nat /\ I # {}
    BY <1>1
  <2>2. Min(I) \in I
    BY <2>1, LeastOf
  <2> QED  BY <1>1, <2>2
<1>3. SelectInSeq(q, LAMBDA v : v = x) = k
  BY <1>1, <1>2 DEF SelectInSeq
<1>4. RemoveFirst(q, x) = SubSeq(q, 1, k - 1) \o SubSeq(q, k + 1, Len(q))
  BY <1>3 DEF RemoveFirst, RemoveAt
<1> DEFINE a == SubSeq(q, 1, k - 1)
           b == SubSeq(q, k + 1, Len(q))
<1>5. a \in Seq(T) /\ Len(a) = k - 1 /\ \A i \in 1 .. k - 1 : a[i] = q[i]
  BY SubSeqProperties
<1>6. b \in Seq(T) /\ Len(b) = Len(q) - k /\ \A i \in 1 .. Len(q) - k : b[i] = q[k + i]
  BY SubSeqProperties
<1> HIDE DEF a, b
<1>7. /\ a \o b \in Seq(T) /\ Len(a \o b) = Len(q) - 1
      /\ \A i \in 1 .. Len(q) - 1 : (a \o b)[i] = IF i <= k - 1 THEN a[i] ELSE b[i - (k - 1)]
  <2>1. Len(a) + Len(b) = Len(q) - 1
    BY <1>5, <1>6
  <2>2. a \in Seq(T) /\ b \in Seq(T)
    BY <1>5, <1>6
  <2>3. /\ a \o b \in Seq(T) /\ Len(a \o b) = Len(a) + Len(b)
        /\ \A i \in 1 .. Len(a) + Len(b) : (a \o b)[i] = IF i <= Len(a) THEN a[i] ELSE b[i - Len(a)]
    BY <2>2, ConcatProperties
  <2> QED  BY <1>5, <2>1, <2>3
<1>8. ASSUME NEW i \in 1 .. Len(q) - 1 PROVE (a \o b)[i] = IF i < k THEN q[i] ELSE q[i + 1]
  <2>1. CASE i < k
    BY <2>1, <1>5, <1>7
  <2>2. CASE ~(i < k)
    <3>1. i - (k - 1) \in 1 .. Len(q) - k /\ k + (i - (k - 1)) = i + 1
      BY <2>2
    <3>2. (a \o b)[i] = b[i - (k - 1)]
      BY <2>2, <1>7
    <3>3. b[i - (k - 1)] = q[k + (i - (k - 1))]
      BY <3>1, <1>6
    <3> QED  BY <3>1, <3>2, <3>3, <2>2
  <2> QED  BY <2>1, <2>2
<1> QED  BY <1>4, <1>7, <1>8 DEF a, b

(* Taking out what is not there changes nothing.                           *)
LEMMA NotThere ==
  ASSUME NEW T, NEW q \in Seq(T), NEW x, x \notin ToSet(q)
  PROVE  RemoveFirst(q, x) = q
BY DEF RemoveFirst, ToSet

(* A column without one of its chips.                                      *)
LEMMA Rest ==
  ASSUME NEW T, NEW q \in Seq(T), NEW x, IsInjective(q)
  PROVE  /\ RemoveFirst(q, x) \in Seq(T) /\ IsInjective(RemoveFirst(q, x))
         /\ ToSet(RemoveFirst(q, x)) = ToSet(q) \ {x}
<1>1. CASE x \notin ToSet(q)
  BY <1>1, NotThere
<1>2. CASE x \in ToSet(q)
  <2>1. PICK k \in 1 .. Len(q) : q[k] = x
    BY <1>2 DEF ToSet
  <2> DEFINE r == RemoveFirst(q, x)
  <2>2. /\ r \in Seq(T) /\ Len(r) = Len(q) - 1
        /\ \A i \in 1 .. Len(q) - 1 : r[i] = IF i < k THEN q[i] ELSE q[i + 1]
    BY <2>1, TakenOut
  <2> HIDE DEF r
  <2>3. IsInjective(r)
    BY <2>2 DEF IsInjective
  <2>4. \A y \in ToSet(r) : y \in ToSet(q) \ {x}
    BY <2>1, <2>2 DEF IsInjective, ToSet
  <2>5. ASSUME NEW y \in ToSet(q) \ {x} PROVE y \in ToSet(r)
    <3>1. PICK j \in 1 .. Len(q) : q[j] = y /\ j # k
      BY <2>1 DEF ToSet
    <3>2. CASE j < k
      <4>1. j \in 1 .. Len(q) - 1 /\ r[j] = y
        BY <2>2, <3>1, <3>2
      <4> QED  BY <4>1, <2>2 DEF ToSet
    <3>3. CASE j > k
      <4>1. j - 1 \in 1 .. Len(q) - 1 /\ r[j - 1] = y
        BY <2>2, <3>1, <3>3
      <4> QED  BY <4>1, <2>2 DEF ToSet
    <3> QED  BY <3>1, <3>2, <3>3
  <2> QED  BY <2>2, <2>3, <2>4, <2>5 DEF r
<1> QED  BY <1>1, <1>2

(* A chip put at the end of a column, and taken out again.                 *)
LEMMA Added ==
  ASSUME NEW T, NEW q \in Seq(T), NEW x \in T, IsInjective(q), x \notin ToSet(q)
  PROVE  /\ Append(q, x) \in Seq(T) /\ IsInjective(Append(q, x))
         /\ ToSet(Append(q, x)) = ToSet(q) \cup {x}
         /\ RemoveFirst(Append(q, x), x) = q
<1> DEFINE r == Append(q, x)
<1>1. /\ r \in Seq(T) /\ Len(r) = Len(q) + 1 /\ r[Len(q) + 1] = x
      /\ \A i \in 1 .. Len(q) : r[i] = q[i]
  BY AppendProperties
<1> HIDE DEF r
<1>2. IsInjective(r)
  BY <1>1 DEF IsInjective, ToSet
<1>3. ToSet(r) = ToSet(q) \cup {x}
  <2>1. \A y \in ToSet(r) : y \in ToSet(q) \cup {x}
    BY <1>1 DEF ToSet
  <2>2. ASSUME NEW y \in ToSet(q) PROVE y \in ToSet(r)
    <3>1. PICK i \in 1 .. Len(q) : q[i] = y
      BY DEF ToSet
    <3> QED  BY <3>1, <1>1 DEF ToSet
  <2>3. x \in ToSet(r)
    BY <1>1 DEF ToSet
  <2> QED  BY <2>1, <2>2, <2>3
<1>4. /\ RemoveFirst(r, x) \in Seq(T) /\ Len(RemoveFirst(r, x)) = Len(q)
      /\ \A i \in 1 .. Len(q) : RemoveFirst(r, x)[i] = r[i]
  <2>1. Len(q) + 1 \in 1 .. Len(r) /\ Len(r) - 1 = Len(q)
    BY <1>1
  <2> QED  BY <1>1, <1>2, <2>1, TakenOut
<1>5. RemoveFirst(r, x) = q
  BY <1>1, <1>4, SeqEqual
<1> QED  BY <1>1, <1>2, <1>3, <1>5 DEF r

(* A chip put anywhere in a column, and taken out again.                   *)
LEMMA PutIn ==
  ASSUME NEW T, NEW q \in Seq(T), NEW x \in T, IsInjective(q), x \notin ToSet(q),
         NEW k \in 1 .. Len(q) + 1
  PROVE  /\ InsertAt(q, k, x) \in Seq(T) /\ IsInjective(InsertAt(q, k, x))
         /\ ToSet(InsertAt(q, k, x)) = ToSet(q) \cup {x}
         /\ RemoveFirst(InsertAt(q, k, x), x) = q
<1> DEFINE a == SubSeq(q, 1, k - 1)
           m == <<x>>
           b == SubSeq(q, k, Len(q))
           r == InsertAt(q, k, x)
<1>1. a \in Seq(T) /\ Len(a) = k - 1 /\ \A i \in 1 .. k - 1 : a[i] = q[i]
  BY SubSeqProperties
<1>2. b \in Seq(T) /\ Len(b) = Len(q) - k + 1 /\ \A i \in 1 .. Len(q) - k + 1 : b[i] = q[k + i - 1]
  BY SubSeqProperties
<1>3. m \in Seq(T) /\ Len(m) = 1 /\ m[1] = x
  OBVIOUS
<1>4. r = (a \o m) \o b
  BY DEF InsertAt
<1> HIDE DEF a, b, m, r
<1>5. /\ a \o m \in Seq(T) /\ Len(a \o m) = Len(a) + Len(m)
      /\ \A i \in 1 .. Len(a) + Len(m) : (a \o m)[i] = IF i <= Len(a) THEN a[i] ELSE m[i - Len(a)]
  BY <1>1, <1>3, ConcatProperties
<1>6. /\ r \in Seq(T) /\ Len(r) = Len(a \o m) + Len(b)
      /\ \A i \in 1 .. Len(a \o m) + Len(b) :
           r[i] = IF i <= Len(a \o m) THEN (a \o m)[i] ELSE b[i - Len(a \o m)]
  BY <1>2, <1>4, <1>5, ConcatProperties
<1>7. /\ Len(r) = Len(q) + 1
      /\ DOMAIN r = 1 .. Len(q) + 1
  <2>1. Len(r) = Len(q) + 1
    BY <1>1, <1>2, <1>3, <1>5, <1>6
  <2> QED  BY <2>1, <1>6
<1>8. ASSUME NEW i \in 1 .. Len(q) + 1
      PROVE  r[i] = IF i < k THEN q[i] ELSE IF i = k THEN x ELSE q[i - 1]
  <2>0. Len(a \o m) = k /\ Len(a) = k - 1 /\ Len(a \o m) + Len(b) = Len(q) + 1
    BY <1>1, <1>2, <1>3, <1>5
  <2>1. CASE i < k
    <3>1. r[i] = (a \o m)[i] /\ (a \o m)[i] = a[i]
      BY <2>0, <2>1, <1>3, <1>5, <1>6
    <3> QED  BY <3>1, <2>1, <1>1
  <2>2. CASE i = k
    <3>1. r[i] = (a \o m)[i] /\ (a \o m)[i] = m[i - Len(a)]
      BY <2>0, <2>2, <1>1, <1>3, <1>5, <1>6
    <3> QED  BY <2>0, <2>2, <3>1, <1>3
  <2>3. CASE i > k
    <3>1. r[i] = b[i - k]
      BY <2>0, <2>3, <1>6
    <3>2. i - k \in 1 .. Len(q) - k + 1 /\ k + (i - k) - 1 = i - 1
      BY <2>3
    <3>3. b[i - k] = q[k + (i - k) - 1]
      BY <3>2, <1>2
    <3> QED  BY <3>1, <3>2, <3>3, <2>3
  <2> QED  BY <2>1, <2>2, <2>3
<1>9. IsInjective(r)
  <2> SUFFICES ASSUME NEW i \in 1 .. Len(q) + 1, NEW j \in 1 .. Len(q) + 1, i < j
               PROVE  r[i] # r[j]
    BY <1>7 DEF IsInjective
  <2>1. \A n \in 1 .. Len(q) : q[n] # x
    BY DEF ToSet
  <2> QED  BY <1>8, <2>1 DEF IsInjective
<1>10. ToSet(r) = ToSet(q) \cup {x}
  <2>1. \A y \in ToSet(r) : y \in ToSet(q) \cup {x}
    BY <1>7, <1>8 DEF ToSet
  <2>2. ASSUME NEW y \in ToSet(q) PROVE y \in ToSet(r)
    <3>1. PICK i \in 1 .. Len(q) : q[i] = y
      BY DEF ToSet
    <3>2. CASE i < k
      <4>1. i \in 1 .. Len(r) /\ r[i] = y
        BY <3>1, <3>2, <1>7, <1>8
      <4> QED  BY <4>1, <1>7 DEF ToSet
    <3>3. CASE i >= k
      <4>1. i + 1 \in 1 .. Len(r) /\ r[i + 1] = y
        BY <3>1, <3>3, <1>7, <1>8
      <4> QED  BY <4>1, <1>7 DEF ToSet
    <3> QED  BY <3>2, <3>3
  <2>3. x \in ToSet(r)
    BY <1>7, <1>8 DEF ToSet
  <2> QED  BY <2>1, <2>2, <2>3
<1>11. /\ RemoveFirst(r, x) \in Seq(T) /\ Len(RemoveFirst(r, x)) = Len(r) - 1
       /\ \A i \in 1 .. Len(r) - 1 : RemoveFirst(r, x)[i] = IF i < k THEN r[i] ELSE r[i + 1]
  <2>1. k \in 1 .. Len(r) /\ r[k] = x
    BY <1>7, <1>8
  <2> QED  BY <1>6, <1>9, <2>1, TakenOut
<1>12. RemoveFirst(r, x) = q
  <2>1. Len(RemoveFirst(r, x)) = Len(q)
    BY <1>7, <1>11
  <2>2. ASSUME NEW i \in 1 .. Len(q) PROVE RemoveFirst(r, x)[i] = q[i]
    <3>1. RemoveFirst(r, x)[i] = IF i < k THEN r[i] ELSE r[i + 1]
      BY <1>7, <1>11
    <3>2. CASE i < k
      <4>1. r[i] = q[i]
        BY <3>2, <1>8
      <4> QED  BY <3>1, <3>2, <4>1
    <3>3. CASE i >= k
      <4>1. r[i + 1] = q[i]
        BY <3>3, <1>8
      <4> QED  BY <3>1, <3>3, <4>1
    <3> QED  BY <3>2, <3>3
  <2> QED  BY <1>11, <2>1, <2>2, SeqEqual
<1> QED  BY <1>6, <1>9, <1>10, <1>12 DEF r

(* A chip moved to the place of another one of its column.                 *)
LEMMA ShuffledIs ==
  ASSUME NEW T, NEW q \in Seq(T), NEW s, NEW over, IsInjective(q)
  PROVE  /\ Shuffled(q, s, over) \in Seq(T) /\ IsInjective(Shuffled(q, s, over))
         /\ ToSet(Shuffled(q, s, over)) = ToSet(q)
         /\ RemoveFirst(Shuffled(q, s, over), s) = RemoveFirst(q, s)
<1>1. CASE ~({s, over} \subseteq ToSet(q))
  BY <1>1 DEF Shuffled
<1>2. CASE {s, over} \subseteq ToSet(q)
  <2> DEFINE k == CHOOSE j \in DOMAIN q : q[j] = over
             r == RemoveFirst(q, s)
  <2>1. k \in 1 .. Len(q)
    BY <1>2 DEF ToSet
  <2>2. Shuffled(q, s, over) = InsertAt(r, k, s)
    BY <1>2 DEF Shuffled
  <2>3. r \in Seq(T) /\ IsInjective(r) /\ ToSet(r) = ToSet(q) \ {s} /\ Len(q) = Len(r) + 1
    <3>1. PICK j \in 1 .. Len(q) : q[j] = s
      BY <1>2 DEF ToSet
    <3>2. Len(r) = Len(q) - 1
      BY <3>1, TakenOut
    <3>3. Len(q) = Len(r) + 1
      BY <3>2
    <3> QED  BY <3>3, Rest
  <2>4. s \in T
    BY <1>2 DEF ToSet
  <2> HIDE DEF k, r
  <2>5. k \in 1 .. Len(r) + 1 /\ s \notin ToSet(r)
    BY <2>1, <2>3
  <2>6. /\ InsertAt(r, k, s) \in Seq(T) /\ IsInjective(InsertAt(r, k, s))
        /\ ToSet(InsertAt(r, k, s)) = ToSet(r) \cup {s}
        /\ RemoveFirst(InsertAt(r, k, s), s) = r
    BY <2>3, <2>4, <2>5, PutIn
  <2>7. ToSet(r) \cup {s} = ToSet(q)
    BY <1>2, <2>3
  <2> QED  BY <2>2, <2>6, <2>7 DEF r
<1> QED  BY <1>1, <1>2

-----------------------------------------------------------------------------
(* The columns of a plan.                                                  *)

Here(p, d) == {s \in Stops : p.day[s] = d}
Sorted(p, q) == \A i, j \in DOMAIN q : i < j => Before(p, q[i], q[j])

LEMMA StopsFinite == IsFiniteSet(Stops)
<1>1. Order \in Surjection(1 .. Len(Order), Stops)
  <2>1. Order \in [1 .. Len(Order) -> Stops] /\ \A s \in Stops : \E i \in 1 .. Len(Order) : Order[i] = s
    BY BoardAssumption DEF ToSet
  <2> QED  BY <2>1, Fun_IsSurj
<1>2. IsFiniteSet(1 .. Len(Order))
  BY BoardAssumption, FS_Interval
<1> QED  BY <1>1, <1>2, FS_Surjection

(* No two stops have one place in the trip.                                *)
LEMMA PlaceIs ==
  /\ \A s \in Stops : Place(s) \in Nat
  /\ \A s, t \in Stops : Place(s) = Place(t) => s = t
<1>1. ASSUME NEW s \in Stops PROVE Place(s) \in 1 .. Len(Order) /\ Order[Place(s)] = s
  <2>1. \E i \in DOMAIN Order : Order[i] = s
    BY BoardAssumption DEF ToSet
  <2> QED  BY <2>1, BoardAssumption DEF Place
<1> QED  BY <1>1, BoardAssumption

(* Before orders the stops of a plan.                                      *)
LEMMA BeforeIsOrder ==
  ASSUME NEW p \in Plans, NEW s \in Stops, NEW t \in Stops
  PROVE  /\ ~(Before(p, s, t) /\ Before(p, t, s))
         /\ s # t => Before(p, s, t) \/ Before(p, t, s)
         /\ \A u \in Stops : Before(p, s, t) /\ Before(p, t, u) => Before(p, s, u)
<1>1. \A u \in Stops : p.pos[u] \in Nat \cup {None} /\ Place(u) \in Nat
  BY PlaceIs DEF Plans
<1>2. None \notin Nat
  BY BoardAssumption
<1>3. s # t => Place(s) # Place(t)
  BY PlaceIs
<1>4. ~(Before(p, s, t) /\ Before(p, t, s))
  BY <1>1, <1>2 DEF Before
<1>5. s # t => Before(p, s, t) \/ Before(p, t, s)
  BY <1>1, <1>2, <1>3 DEF Before
<1>6. ASSUME NEW u \in Stops, Before(p, s, t), Before(p, t, u) PROVE Before(p, s, u)
  BY <1>1, <1>2, <1>6 DEF Before
<1> QED  BY <1>4, <1>5, <1>6

(* The column of a day holds the stops of that day, sorted.                *)
LEMMA ColumnIs ==
  ASSUME NEW p \in Plans, NEW d
  PROVE  /\ Column(p, d) \in Seq(Stops) /\ IsInjective(Column(p, d))
         /\ ToSet(Column(p, d)) = Here(p, d) /\ Sorted(p, Column(p, d))
         /\ Len(Column(p, d)) = Cardinality(Here(p, d))
<1> DEFINE H == Here(p, d)
           n == Cardinality(H)
           Lower(s) == {t \in H : Before(p, t, s)}
           R == [s \in H |-> Cardinality(Lower(s)) + 1]
           Sorts(q) == \A i, j \in DOMAIN q : i < j => Before(p, q[i], q[j])
<1>1. H \subseteq Stops /\ IsFiniteSet(H) /\ n \in Nat
  <2>1. H \in SUBSET Stops
    BY DEF Here
  <2> QED  BY <2>1, StopsFinite, FS_Subset, FS_CardinalityType
<1> HIDE DEF H, n
<1>2. ASSUME NEW s \in H
      PROVE  IsFiniteSet(Lower(s)) /\ Cardinality(Lower(s)) \in Nat /\ Cardinality(Lower(s)) + 1 <= n
  <2>1. Lower(s) \in SUBSET (H \ {s})
    BY <1>1, BeforeIsOrder
  <2>2. IsFiniteSet(H \ {s}) /\ Cardinality(H \ {s}) = n - 1
    BY <1>1, FS_RemoveElement DEF n
  <2>3. IsFiniteSet(Lower(s)) /\ Cardinality(Lower(s)) <= n - 1
    BY <2>1, <2>2, FS_Subset
  <2> QED  BY <2>3, <1>1, FS_CardinalityType
<1>3. ASSUME NEW s \in H, NEW t \in H, Before(p, s, t)
      PROVE  R[s] < R[t]
  <2>1. Lower(s) \in SUBSET (Lower(t) \ {s}) /\ s \in Lower(t)
    BY <1>1, <1>3, BeforeIsOrder
  <2>2. IsFiniteSet(Lower(t) \ {s}) /\ Cardinality(Lower(t) \ {s}) = Cardinality(Lower(t)) - 1
    BY <1>2, <2>1, FS_RemoveElement
  <2>3. Cardinality(Lower(s)) <= Cardinality(Lower(t)) - 1
    BY <2>1, <2>2, FS_Subset
  <2> HIDE DEF Lower
  <2> QED  BY <1>2, <2>3
<1>4. R \in [H -> 1 .. n] /\ \A s, t \in H : R[s] = R[t] => s = t
  <2>1. R \in [H -> 1 .. n]
    <3> HIDE DEF Lower
    <3> QED  BY <1>1, <1>2
  <2>2. ASSUME NEW s \in H, NEW t \in H, R[s] = R[t], s # t PROVE FALSE
    <3>1. Before(p, s, t) \/ Before(p, t, s)
      BY <1>1, <2>2, BeforeIsOrder
    <3>2. R[s] < R[t] \/ R[t] < R[s]
      BY <3>1, <1>3
    <3>3. R[s] \in Nat /\ R[t] \in Nat
      BY <2>1
    <3> HIDE DEF R
    <3> QED  BY <2>2, <3>2, <3>3
  <2> HIDE DEF R
  <2> QED  BY <2>1, <2>2
<1> HIDE DEF R
<1>5. \A i \in 1 .. n : \E s \in H : R[s] = i
  <2>1. R \in Injection(H, 1 .. n)
    BY <1>4, Fun_IsInj
  <2>2. IsFiniteSet(1 .. n) /\ Cardinality(1 .. n) = n
    BY <1>1, FS_Interval
  <2>3. R \in Surjection(H, 1 .. n)
    BY <2>1, <2>2, FS_Injection DEF n
  <2> QED  BY <2>3, Fun_SurjectionProperties
<1>6. \E q \in [1 .. n -> H] : Sorts(q)
  <2> DEFINE w == [i \in 1 .. n |-> CHOOSE s \in H : R[s] = i]
  <2>1. w \in [1 .. n -> H] /\ \A i \in 1 .. n : R[w[i]] = i
    BY <1>5
  <2> HIDE DEF w
  <2>2. ASSUME NEW i \in 1 .. n, NEW j \in 1 .. n, i < j PROVE Before(p, w[i], w[j])
    <3>1. w[i] \in H /\ w[j] \in H /\ R[w[i]] = i /\ R[w[j]] = j
      BY <2>1
    <3>2. CASE Before(p, w[j], w[i])
      <4>1. R[w[j]] < R[w[i]]
        BY <1>3, <3>1, <3>2
      <4> QED  BY <4>1, <3>1, <2>2
    <3>3. w[i] # w[j]
      BY <3>1, <2>2
    <3> QED  BY <3>1, <3>2, <3>3, <1>1, BeforeIsOrder
  <2> QED  BY <2>1, <2>2
<1> DEFINE c == Column(p, d)
<1>7. c \in [1 .. n -> H] /\ Sorts(c)
  <2>1. c = CHOOSE q \in [1 .. n -> H] : Sorts(q)
    BY DEF Column, Here, n, H
  <2> HIDE DEF c, Sorts
  <2> QED  BY <1>6, <2>1
<1> HIDE DEF c
<1>8. c \in Seq(Stops) /\ Len(c) = n /\ DOMAIN c = 1 .. n /\ \A i \in 1 .. n : c[i] \in H
  BY <1>1, <1>7
<1>9. IsInjective(c)
  <2> SUFFICES ASSUME NEW i \in 1 .. n, NEW j \in 1 .. n, i < j, c[i] = c[j] PROVE FALSE
    BY <1>1, <1>8 DEF IsInjective
  <2>1. Before(p, c[i], c[j])
    BY <1>7, <1>8
  <2> QED  BY <2>1, <1>1, <1>8, BeforeIsOrder
<1>10. ToSet(c) = H
  <2>1. c \in Injection(1 .. n, H)
    BY <1>7, <1>8, <1>9, Fun_IsInj DEF IsInjective
  <2>2. IsFiniteSet(1 .. n) /\ Cardinality(1 .. n) = Cardinality(H)
    BY <1>1, FS_Interval DEF n
  <2>3. c \in Surjection(1 .. n, H)
    <3>1. Cardinality(1 .. n) = Cardinality(H) <=> c \in Surjection(1 .. n, H)
      <4> DEFINE I == 1 .. n
      <4> HIDE DEF I
      <4>1. c \in Injection(I, H) /\ IsFiniteSet(H)
        BY <2>1, <1>1 DEF I
      <4>2. Cardinality(I) = Cardinality(H) <=> c \in Surjection(I, H)
        BY <4>1, FS_Injection
      <4> QED  BY <4>2 DEF I
    <3> QED
  BY <3>1, <2>2
  <2>4. \A s \in H : \E i \in 1 .. n : c[i] = s
    BY <2>3, Zenon DEF Surjection
  <2> QED  BY <2>4, <1>8 DEF ToSet
<1> QED  BY <1>7, <1>8, <1>9, <1>10 DEF c, H, n, Sorted

(* There is one sorted column of a set of stops.                           *)
LEMMA Sorting ==
  ASSUME NEW p \in Plans, NEW d, NEW q \in Seq(Stops), ToSet(q) = Here(p, d), Sorted(p, q)
  PROVE  q = Column(p, d)
<1> DEFINE c == Column(p, d)
<1>1. /\ c \in Seq(Stops) /\ ToSet(c) = Here(p, d) /\ Sorted(p, c)
  BY ColumnIs
<1> HIDE DEF c
<1>2. ASSUME NEW a \in Seq(Stops), NEW b \in Seq(Stops), ToSet(a) = ToSet(b), Sorted(p, a), Sorted(p, b),
             NEW k \in 1 .. Len(a), \A i \in 1 .. k - 1 : i \in 1 .. Len(b) /\ a[i] = b[i]
      PROVE  k \in 1 .. Len(b) /\ (a[k] = b[k] \/ Before(p, b[k], a[k]))
  <2>1. a[k] \in ToSet(a)
    BY DEF ToSet
  <2>2. PICK m \in 1 .. Len(b) : b[m] = a[k]
    <3>1. a[k] \in ToSet(b)
      BY <1>2, <2>1
    <3> QED  BY <3>1 DEF ToSet
  <2>3. CASE m < k
    <3>1. a[m] = a[k] /\ Before(p, a[m], a[k]) /\ a[m] \in Stops
      BY <1>2, <2>2, <2>3 DEF Sorted
    <3> QED  BY <3>1, BeforeIsOrder
  <2>4. CASE m = k
    BY <2>2, <2>4
  <2>5. CASE m > k
    <3>1. k \in 1 .. Len(b) /\ Before(p, b[k], b[m])
      BY <1>2, <2>5 DEF Sorted
    <3> QED  BY <3>1, <2>2
  <2> QED  BY <2>3, <2>4, <2>5
<1> DEFINE D == {k \in 1 .. Len(q) : ~(k \in 1 .. Len(c) /\ q[k] = c[k])}
<1>3. \A k \in 1 .. Len(q) : k \in 1 .. Len(c) /\ q[k] = c[k]
  <2> SUFFICES ASSUME D # {} PROVE FALSE
    OBVIOUS
  <2> DEFINE k == Min(D)
  <2>1. k \in D /\ \A i \in D : k <= i
    <3>1. D \in SUBSET Nat
      OBVIOUS
    <3> HIDE DEF D
    <3> QED  BY <3>1, LeastOf
  <2> HIDE DEF k

  <2>2. \A i \in 1 .. k - 1 : i \in 1 .. Len(c) /\ i \in 1 .. Len(q) /\ q[i] = c[i]
    BY <2>1
  <2>3. k \in 1 .. Len(c) /\ (q[k] = c[k] \/ Before(p, c[k], q[k]))
    BY <1>1, <1>2, <2>1, <2>2
  <2>4. k \in 1 .. Len(q) /\ (c[k] = q[k] \/ Before(p, q[k], c[k]))
    BY <1>1, <1>2, <2>1, <2>2, <2>3
  <2>5. q[k] \in Stops /\ c[k] \in Stops
    BY <1>1, <2>3, <2>4
  <2> QED  BY <2>1, <2>3, <2>4, <2>5, BeforeIsOrder
<1>4. Len(c) = Len(q)
  <2> SUFFICES ASSUME Len(c) > Len(q) PROVE FALSE
    <3>1. Len(q) = 0 \/ Len(q) \in 1 .. Len(c)
      BY <1>3
    <3> QED  BY <3>1, <1>1
  <2> DEFINE k == Len(q) + 1
  <2>1. k \in 1 .. Len(c) /\ \A i \in 1 .. k - 1 : i \in 1 .. Len(q) /\ c[i] = q[i]
    BY <1>1, <1>3
  <2>2. k \in 1 .. Len(q)
    <3> HIDE DEF k
    <3> QED  BY <1>1, <1>2, <2>1
  <2> QED  BY <2>2
<1> QED  BY <1>1, <1>3, <1>4, SeqEqual DEF c

-----------------------------------------------------------------------------
(* Boards.                                                                 *)

Ids(b) == [i \in DOMAIN b.days |-> b.days[i].id]
Distinct(b) == IsInjective(Ids(b))
InDay(b, s, i) == s \in ToSet(b.days[i].stops)
InRest(b, s) == s \in ToSet(b.rest)

(* Every stop is on the board, at most once in a column, and in one column *)
(* only - unless a day is there twice.                                     *)
Complete(b) ==
  /\ \A s \in Stops : InRest(b, s) \/ \E i \in DOMAIN b.days : InDay(b, s, i)
  /\ IsInjective(b.rest) /\ \A i \in DOMAIN b.days : IsInjective(b.days[i].stops)
  /\ Distinct(b) =>
       \A s \in Stops : \A i, j \in DOMAIN b.days :
         InDay(b, s, i) => ~InRest(b, s) /\ (InDay(b, s, j) => i = j)

Cards == [id : Days, stops : Seq(Stops)]

LEMMA BoardParts ==
  ASSUME NEW b \in Boards
  PROVE  /\ b = [days |-> b.days, rest |-> b.rest]
         /\ b.days \in Seq(Cards) /\ b.rest \in Seq(Stops)
         /\ DOMAIN b.days = 1 .. Len(b.days) /\ Len(b.days) \in Nat
         /\ \A i \in DOMAIN b.days :
              b.days[i] \in Cards /\ b.days[i].id \in Days /\ b.days[i].stops \in Seq(Stops)
         /\ IdsOf(b) \subseteq Days /\ b # None
<1>1. b.days \in Seq(Cards) /\ b.rest \in Seq(Stops) /\ b = [days |-> b.days, rest |-> b.rest]
  BY DEF Boards, Cards
<1>2. DOMAIN b.days = 1 .. Len(b.days) /\ Len(b.days) \in Nat
  BY <1>1
<1>3. \A i \in DOMAIN b.days : b.days[i] \in Cards
  BY <1>1
<1>4. \A x \in Cards : x.id \in Days /\ x.stops \in Seq(Stops)
  BY DEF Cards
<1>5. IdsOf(b) \subseteq Days
  BY <1>3, <1>4 DEF IdsOf
<1>6. b # None
  BY BoardAssumption
<1> QED  BY <1>1, <1>2, <1>3, <1>4, <1>5, <1>6

(* StopsOf finds the column of a day.                                      *)
LEMMA StopsOfIs ==
  ASSUME NEW b \in Boards, NEW d \in IdsOf(b)
  PROVE  /\ StopsOf(b, d) \in Seq(Stops)
         /\ \E i \in DOMAIN b.days : b.days[i].id = d /\ StopsOf(b, d) = b.days[i].stops
         /\ Distinct(b) => \A i \in DOMAIN b.days : b.days[i].id = d => StopsOf(b, d) = b.days[i].stops
<1> DEFINE I == {i \in 1 .. Len(b.days) : b.days[i].id = d}
           k == SelectInSeq(b.days, LAMBDA x : x.id = d)
<1>1. I \in SUBSET Nat /\ I # {}
  <2>1. PICK i \in DOMAIN b.days : b.days[i].id = d
    BY DEF IdsOf
  <2>2. DOMAIN b.days = 1 .. Len(b.days) /\ Len(b.days) \in Nat
    BY BoardParts
  <2>3. i \in I
    BY <2>1, <2>2
  <2> QED  BY <2>3
<1>2. k \in I
  <2>1. k = Min(I)
    BY <1>1 DEF SelectInSeq
  <2> QED  BY <2>1, <1>1, LeastOf
<1>3. StopsOf(b, d) = b.days[k].stops
  BY DEF StopsOf
<1> HIDE DEF k
<1>4. k \in DOMAIN b.days /\ b.days[k].id = d /\ b.days[k].stops \in Seq(Stops)
  BY <1>2, BoardParts
<1>5. Distinct(b) => \A i \in DOMAIN b.days : b.days[i].id = d => i = k
  BY <1>4 DEF Distinct, Ids, IsInjective
<1> QED  BY <1>3, <1>4, <1>5

(* Container finds the first column a chip is in.                          *)
LEMMA ContainerIs ==
  ASSUME NEW b \in Boards, NEW s
  PROVE  \/ \E i \in DOMAIN b.days : InDay(b, s, i) /\ Container(b, s) = b.days[i].id
         \/ InRest(b, s) /\ Container(b, s) = Unscheduled /\ \A i \in DOMAIN b.days : ~InDay(b, s, i)
         \/ ~InRest(b, s) /\ Container(b, s) = None /\ \A i \in DOMAIN b.days : ~InDay(b, s, i)
<1> DEFINE I == {i \in 1 .. Len(b.days) : Contains(b.days[i].stops, s)}
           k == SelectInSeq(b.days, LAMBDA x : Contains(x.stops, s))
<1>1. \A q \in Seq(Stops) : Contains(q, s) <=> s \in ToSet(q)
  BY DEF Contains, ToSet
<1>2. Container(b, s) = IF k # 0 THEN b.days[k].id
                        ELSE IF Contains(b.rest, s) THEN Unscheduled ELSE None
  BY DEF Container
<1>3. CASE I # {}
  <2>1. k = Min(I)
    BY <1>3 DEF SelectInSeq
  <2>2. I \in SUBSET Nat
    BY BoardParts
  <2>3. k \in I /\ k # 0
    <3>1. Min(I) \in I
      BY <2>2, <1>3, LeastOf
    <3> HIDE DEF k
    <3>2. k \in I
      BY <2>1, <3>1
    <3> QED  BY <3>2
  <2> HIDE DEF k
  <2>4. k \in DOMAIN b.days /\ InDay(b, s, k)
    BY <2>3, <1>1, BoardParts DEF InDay
  <2> QED  BY <2>3, <2>4, <1>2
<1>4. CASE I = {}
  <2>1. k = 0
    BY <1>4 DEF SelectInSeq
  <2> HIDE DEF k
  <2>2. \A i \in DOMAIN b.days : ~InDay(b, s, i)
    BY <1>1, <1>4, BoardParts DEF InDay
  <2>3. Contains(b.rest, s) <=> InRest(b, s)
    BY <1>1, BoardParts DEF InRest
  <2> QED  BY <2>1, <2>2, <2>3, <1>2
<1> QED  BY <1>3, <1>4

(* A stop of a complete board is in a column of it.                        *)
LEMMA Contained ==
  ASSUME NEW b \in Boards, Complete(b), NEW s \in Stops
  PROVE  Container(b, s) \in IdsOf(b) \cup {Unscheduled} /\ Container(b, s) \in Columns
<1>1. Container(b, s) \in IdsOf(b) \cup {Unscheduled}
  BY ContainerIs DEF Complete, IdsOf
<1> QED  BY <1>1, BoardParts DEF Columns

(* The board of a plan has every stop once.                                *)
LEMMA BoardOfIs ==
  ASSUME NEW p \in Plans, Placed(p)
  PROVE  /\ BoardOf(p) \in Boards /\ Complete(BoardOf(p)) /\ Distinct(BoardOf(p))
         /\ IdsOf(BoardOf(p)) = ToSet(p.days)
<1> DEFINE b == BoardOf(p)
           ds == [i \in DOMAIN p.days |-> [id |-> p.days[i], stops |-> Column(p, p.days[i])]]
<1>1. p.days \in Seq(Days) /\ DOMAIN p.days = 1 .. Len(p.days) /\ Len(p.days) \in Nat
  BY DEF Plans
<1>2. \A d : Column(p, d) \in Seq(Stops)
  BY ColumnIs
<1>3. \A i \in DOMAIN p.days : p.days[i] \in Days
  BY <1>1
<1>4. ds \in Seq(Cards)
  <2>1. \A i \in 1 .. Len(p.days) : [id |-> p.days[i], stops |-> Column(p, p.days[i])] \in Cards
    BY <1>1, <1>2, <1>3 DEF Cards
  <2>2. ds \in [1 .. Len(p.days) -> Cards]
    BY <1>1, <2>1
  <2> HIDE DEF ds
  <2> QED  BY <1>1, <2>2
<1>5. b = [days |-> ds, rest |-> Column(p, Unscheduled)]
  BY DEF BoardOf
<1>6. \A i \in DOMAIN p.days : ds[i].id = p.days[i] /\ ds[i].stops = Column(p, p.days[i])
  OBVIOUS
<1>7. DOMAIN ds = DOMAIN p.days
  OBVIOUS
<1> HIDE DEF ds, b
<1>8. b \in Boards
  BY <1>2, <1>4, <1>5 DEF Boards, Cards
<1>9. b.days = ds /\ b.rest = Column(p, Unscheduled)
  BY <1>5
<1>10. Distinct(b)
  BY <1>6, <1>7, <1>9 DEF Distinct, Ids, Placed, IsInjective
<1>11. /\ \A s : InRest(b, s) <=> s \in Stops /\ p.day[s] = Unscheduled
       /\ \A i \in DOMAIN b.days : \A s : InDay(b, s, i) <=> s \in Stops /\ p.day[s] = p.days[i]
  <2>1. \A d, s : s \in ToSet(Column(p, d)) <=> s \in Stops /\ p.day[s] = d
    BY ColumnIs DEF Here
  <2> QED  BY <2>1, <1>6, <1>7, <1>9 DEF InRest, InDay
<1>12. \A s \in Stops : InRest(b, s) \/ \E i \in DOMAIN b.days : InDay(b, s, i)
  <2> SUFFICES ASSUME NEW s \in Stops, p.day[s] # Unscheduled PROVE \E i \in DOMAIN b.days : InDay(b, s, i)
    BY <1>11
  <2>1. PICK i \in DOMAIN p.days : p.days[i] = p.day[s]
    BY DEF Placed, ToSet
  <2> QED  BY <2>1, <1>7, <1>9, <1>11
<1>13. IsInjective(b.rest) /\ \A i \in DOMAIN b.days : IsInjective(b.days[i].stops)
  BY <1>6, <1>7, <1>9, ColumnIs
<1>14. ASSUME NEW s \in Stops, NEW i \in DOMAIN b.days, NEW j \in DOMAIN b.days, InDay(b, s, i)
       PROVE  ~InRest(b, s) /\ (InDay(b, s, j) => i = j)
  <2>1. p.days[i] \in Days /\ p.days[i] = p.day[s] /\ (InDay(b, s, j) => p.days[j] = p.day[s])
    BY <1>3, <1>7, <1>9, <1>11, <1>14
  <2> QED  BY <2>1, <1>7, <1>9, <1>11, BoardAssumption DEF Placed, IsInjective
<1>15. Complete(b)
  BY <1>12, <1>13, <1>14 DEF Complete
<1>16. IdsOf(b) = ToSet(p.days)
  BY <1>6, <1>7, <1>9 DEF IdsOf, ToSet
<1> QED  BY <1>8, <1>10, <1>15, <1>16 DEF b

(* A board whose columns hold other stops.                                 *)
Refill(b, f, r) == [days |-> [i \in DOMAIN b.days |-> [b.days[i] EXCEPT !.stops = f[i]]], rest |-> r]

LEMMA Refilled ==
  ASSUME NEW b \in Boards, NEW f \in [DOMAIN b.days -> Seq(Stops)], NEW r \in Seq(Stops),
         NEW h, h = Refill(b, f, r)
  PROVE  /\ h \in Boards /\ Ids(h) = Ids(b) /\ DOMAIN h.days = DOMAIN b.days
         /\ h.rest = r /\ IdsOf(h) = IdsOf(b)
         /\ \A i \in DOMAIN b.days : h.days[i].id = b.days[i].id /\ h.days[i].stops = f[i]
<1> DEFINE ds == [i \in DOMAIN b.days |-> [b.days[i] EXCEPT !.stops = f[i]]]
<1>1. DOMAIN b.days = 1 .. Len(b.days) /\ Len(b.days) \in Nat /\ \A i \in DOMAIN b.days : b.days[i] \in Cards
  BY BoardParts
<1>2. ASSUME NEW x \in Cards, NEW q \in Seq(Stops)
      PROVE  [x EXCEPT !.stops = q] \in Cards /\ [x EXCEPT !.stops = q].id = x.id
             /\ [x EXCEPT !.stops = q].stops = q
  BY DEF Cards
<1>3. ASSUME NEW i \in DOMAIN b.days
      PROVE  ds[i] \in Cards /\ ds[i].id = b.days[i].id /\ ds[i].stops = f[i]
  BY <1>1, <1>2
<1>4. DOMAIN ds = DOMAIN b.days
  OBVIOUS
<1>5. ds = [i \in DOMAIN b.days |-> ds[i]]
  OBVIOUS
<1> HIDE DEF ds
<1>6. ds \in Seq(Cards)
  <2>1. ds \in [1 .. Len(b.days) -> Cards]
    BY <1>1, <1>3, <1>4, <1>5
  <2>2. ASSUME NEW m \in Nat, ds \in [1 .. m -> Cards] PROVE ds \in Seq(Cards)
    BY <2>2
  <2> QED  BY <2>1, <2>2, <1>1
<1>7. h = [days |-> ds, rest |-> r]
  BY DEF ds, Refill
<1>8. h \in Boards /\ h.days = ds /\ h.rest = r
  <2>1. h.days = ds /\ h.rest = r
    BY <1>7
  <2>2. [days |-> ds, rest |-> r] \in Boards
    BY <1>6 DEF Boards, Cards
  <2> QED  BY <2>1, <2>2, <1>7
<1>9. Ids(h) = Ids(b)
  BY <1>3, <1>4, <1>8 DEF Ids
<1>10. IdsOf(h) = IdsOf(b)
  BY <1>3, <1>4, <1>8 DEF IdsOf
<1> QED  BY <1>3, <1>4, <1>8, <1>9, <1>10

(* A board on which one stop is elsewhere.                                 *)
LEMMA OneElsewhere ==
  ASSUME NEW b \in Boards, NEW h \in Boards, NEW s, Complete(b), Ids(h) = Ids(b),
         DOMAIN h.days = DOMAIN b.days,
         IsInjective(h.rest), \A i \in DOMAIN b.days : IsInjective(h.days[i].stops),
         \A t \in Stops \ {s} : (InRest(h, t) <=> InRest(b, t))
                                /\ \A i \in DOMAIN b.days : InDay(h, t, i) <=> InDay(b, t, i),
         s \in Stops => InRest(h, s) \/ \E i \in DOMAIN b.days : InDay(h, s, i),
         s \in Stops /\ Distinct(b) => \A i, j \in DOMAIN b.days :
           InDay(h, s, i) => ~InRest(h, s) /\ (InDay(h, s, j) => i = j)
  PROVE  Complete(h)
<1>1. \A t \in Stops : InRest(h, t) \/ \E i \in DOMAIN h.days : InDay(h, t, i)
  BY DEF Complete
<1>2. Distinct(h) => Distinct(b)
  BY DEF Distinct
<1>3. ASSUME Distinct(b), NEW t \in Stops, NEW i \in DOMAIN b.days, NEW j \in DOMAIN b.days, InDay(h, t, i)
      PROVE  ~InRest(h, t) /\ (InDay(h, t, j) => i = j)
  <2>1. CASE t = s
    BY <2>1, <1>3
  <2>2. CASE t # s
    BY <2>2, <1>3 DEF Complete
  <2> QED  BY <2>1, <2>2
<1> QED  BY <1>1, <1>2, <1>3 DEF Complete

(* What a chip does that is dragged over something: the other stops stay   *)
(* where they are.                                                         *)
Dragged(b, h, s) ==
  /\ h \in Boards /\ Complete(h) /\ Ids(h) = Ids(b) /\ IdsOf(h) = IdsOf(b)
  /\ DOMAIN h.days = DOMAIN b.days
  /\ \A i \in DOMAIN b.days :
       h.days[i].id = b.days[i].id
       /\ RemoveFirst(h.days[i].stops, s) = RemoveFirst(b.days[i].stops, s)
  /\ \A t \in Stops \ {s} : InRest(h, t) <=> InRest(b, t)

(* Dragging a chip into a column moves that chip only.                     *)
LEMMA MovedIs ==
  ASSUME NEW b \in Boards, Complete(b), NEW s \in Stops, NEW to \in IdsOf(b) \cup {Unscheduled}
  PROVE  Dragged(b, Moved(b, s, to), s)
<1> DEFINE h == Moved(b, s, to)
           Out(q) == RemoveFirst(q, s)
           f == [i \in DOMAIN b.days |-> IF b.days[i].id = to THEN Append(Out(b.days[i].stops), s)
                                         ELSE Out(b.days[i].stops)]
           r == IF to = Unscheduled THEN Append(Out(b.rest), s) ELSE Out(b.rest)
<1>1. ASSUME NEW q \in Seq(Stops), IsInjective(q)
      PROVE  /\ Out(q) \in Seq(Stops) /\ IsInjective(Out(q)) /\ ToSet(Out(q)) = ToSet(q) \ {s}
             /\ Out(Out(q)) = Out(q)
             /\ Append(Out(q), s) \in Seq(Stops) /\ IsInjective(Append(Out(q), s))
             /\ ToSet(Append(Out(q), s)) = ToSet(q) \cup {s}
             /\ Out(Append(Out(q), s)) = Out(q)
  <2>1. Out(q) \in Seq(Stops) /\ IsInjective(Out(q)) /\ ToSet(Out(q)) = ToSet(q) \ {s}
    BY <1>1, Rest
  <2>2. s \notin ToSet(Out(q))
    BY <2>1
  <2>3. Out(Out(q)) = Out(q)
    BY <2>1, <2>2, NotThere
  <2>4. /\ Append(Out(q), s) \in Seq(Stops) /\ IsInjective(Append(Out(q), s))
        /\ ToSet(Append(Out(q), s)) = ToSet(Out(q)) \cup {s}
        /\ Out(Append(Out(q), s)) = Out(q)
    BY <2>1, <2>2, Added
  <2> QED  BY <2>1, <2>3, <2>4
<1>2. /\ b.rest \in Seq(Stops) /\ IsInjective(b.rest)
      /\ \A i \in DOMAIN b.days : b.days[i].stops \in Seq(Stops) /\ IsInjective(b.days[i].stops)
                                  /\ b.days[i].id \in Days
  BY BoardParts DEF Complete
<1> HIDE DEF Out
<1>3. f \in [DOMAIN b.days -> Seq(Stops)] /\ r \in Seq(Stops)
  BY <1>1, <1>2
<1>4. h = Refill(b, f, r)
  BY DEF Moved, Out, Refill
<1>5. \A i \in DOMAIN b.days : f[i] = IF b.days[i].id = to THEN Append(Out(b.days[i].stops), s)
                                      ELSE Out(b.days[i].stops)
  OBVIOUS
<1> HIDE DEF h, f
<1>6. r = IF to = Unscheduled THEN Append(Out(b.rest), s) ELSE Out(b.rest)
  OBVIOUS
<1> HIDE DEF r
<1>7. /\ h \in Boards /\ Ids(h) = Ids(b) /\ DOMAIN h.days = DOMAIN b.days
      /\ h.rest = r /\ IdsOf(h) = IdsOf(b)
      /\ \A i \in DOMAIN b.days : h.days[i].id = b.days[i].id /\ h.days[i].stops = f[i]
  BY <1>3, <1>4, Refilled
<1>8. /\ IsInjective(h.rest) /\ \A t \in Stops \ {s} : InRest(h, t) <=> InRest(b, t)
      /\ InRest(h, s) <=> to = Unscheduled
  BY <1>1, <1>2, <1>7, <1>6 DEF InRest
<1>9. ASSUME NEW i \in DOMAIN b.days
      PROVE  /\ IsInjective(h.days[i].stops) /\ \A t \in Stops \ {s} : InDay(h, t, i) <=> InDay(b, t, i)
             /\ InDay(h, s, i) <=> b.days[i].id = to
             /\ Out(h.days[i].stops) = Out(b.days[i].stops)
  BY <1>1, <1>2, <1>5, <1>7 DEF InDay
<1>10. InRest(h, s) \/ \E i \in DOMAIN b.days : InDay(h, s, i)
  BY <1>8, <1>9 DEF IdsOf
<1>11. ASSUME Distinct(b), NEW i \in DOMAIN b.days, NEW j \in DOMAIN b.days, InDay(h, s, i)
       PROVE  ~InRest(h, s) /\ (InDay(h, s, j) => i = j)
  <2>1. b.days[i].id = to /\ to # Unscheduled
    BY <1>2, <1>9, <1>11, BoardAssumption
  <2> QED  BY <2>1, <1>8, <1>9, <1>11 DEF Distinct, Ids, IsInjective
<1>12. Complete(h)
  BY <1>7, <1>8, <1>9, <1>10, <1>11, OneElsewhere
<1> QED  BY <1>7, <1>8, <1>9, <1>12 DEF Dragged, h, Out

(* So does dragging it over a chip of its own column.                      *)
LEMMA HoveredIs ==
  ASSUME NEW b \in Boards, Complete(b), NEW s \in Stops, NEW over \in IdsOf(b) \cup {Unscheduled} \cup Stops
  PROVE  Dragged(b, Hovered(b, s, over), s)
<1> DEFINE to == IF over \in Columns THEN over ELSE Container(b, over)
           h == Hovered(b, s, over)
           f == [i \in DOMAIN b.days |-> Shuffled(b.days[i].stops, s, over)]
           r == Shuffled(b.rest, s, over)
<1>1. to \in IdsOf(b) \cup {Unscheduled}
  <2>1. CASE over \in Stops
    BY <2>1, Contained, BoardAssumption
  <2>2. CASE over \in IdsOf(b) \cup {Unscheduled}
    BY <2>2, BoardParts DEF Columns
  <2> QED  BY <2>1, <2>2
<1>2. CASE Container(b, s) # to
  <2>1. h = Moved(b, s, to)
    BY <1>2 DEF Hovered
  <2> HIDE DEF to, h
  <2> QED  BY <1>1, <2>1, MovedIs DEF h
<1>3. CASE Container(b, s) = to
  <2>1. h = Refill(b, f, r)
    BY <1>3 DEF Hovered, Refill
  <2>2. /\ b.rest \in Seq(Stops) /\ IsInjective(b.rest)
        /\ \A i \in DOMAIN b.days : b.days[i].stops \in Seq(Stops) /\ IsInjective(b.days[i].stops)
    BY BoardParts DEF Complete
  <2>3. /\ r \in Seq(Stops) /\ IsInjective(r) /\ ToSet(r) = ToSet(b.rest)
    BY <2>2, ShuffledIs
  <2>4. \A i \in DOMAIN b.days :
          /\ f[i] \in Seq(Stops) /\ IsInjective(f[i]) /\ ToSet(f[i]) = ToSet(b.days[i].stops)
          /\ RemoveFirst(f[i], s) = RemoveFirst(b.days[i].stops, s)
    BY <2>2, ShuffledIs
  <2>5. f \in [DOMAIN b.days -> Seq(Stops)]
    BY <2>4
  <2> HIDE DEF to, h, f, r
  <2>6. /\ h \in Boards /\ Ids(h) = Ids(b) /\ DOMAIN h.days = DOMAIN b.days
        /\ h.rest = r /\ IdsOf(h) = IdsOf(b)
        /\ \A i \in DOMAIN b.days : h.days[i].id = b.days[i].id /\ h.days[i].stops = f[i]
    BY <2>1, <2>3, <2>5, Refilled
  <2>7. \A t : (InRest(h, t) <=> InRest(b, t)) /\ \A i \in DOMAIN b.days : InDay(h, t, i) <=> InDay(b, t, i)
    BY <2>3, <2>4, <2>6 DEF InRest, InDay
  <2>8. IsInjective(h.rest) /\ \A i \in DOMAIN b.days : IsInjective(h.days[i].stops)
    BY <2>3, <2>4, <2>6
  <2>9. Complete(h)
    BY <2>6, <2>7, <2>8 DEF Complete, Distinct
  <2> QED  BY <2>4, <2>6, <2>7, <2>9 DEF Dragged, h
<1> QED  BY <1>2, <1>3

(* A day appended to a board.                                              *)
LEMMA DayAppended ==
  ASSUME NEW b \in Boards, NEW d \in Days, NEW h,
         h = [b EXCEPT !.days = Append(@, [id |-> d, stops |-> <<>>])]
  PROVE  /\ h \in Boards /\ h.rest = b.rest /\ Len(h.days) = Len(b.days) + 1
         /\ \A i \in DOMAIN b.days : h.days[i] = b.days[i]
         /\ h.days[Len(b.days) + 1].id = d /\ h.days[Len(b.days) + 1].stops = <<>>
         /\ IdsOf(h) = IdsOf(b) \cup {d}
         /\ Complete(b) => Complete(h)
<1> DEFINE x == [id |-> d, stops |-> <<>>]
           n == Len(b.days) + 1
<1>1. x \in Cards /\ x.id = d /\ x.stops = <<>>
  BY DEF Cards
<1> HIDE DEF x
<1>2. /\ b.days \in Seq(Cards) /\ b.rest \in Seq(Stops) /\ b = [days |-> b.days, rest |-> b.rest]
      /\ DOMAIN b.days = 1 .. Len(b.days) /\ Len(b.days) \in Nat
  BY BoardParts
<1>3. h = [days |-> Append(b.days, x), rest |-> b.rest]
  BY <1>2 DEF x
<1>4. /\ Append(b.days, x) \in Seq(Cards) /\ Len(Append(b.days, x)) = n
      /\ \A i \in 1 .. Len(b.days) : Append(b.days, x)[i] = b.days[i]
      /\ Append(b.days, x)[n] = x
  BY <1>1, <1>2, AppendProperties
<1>5. h \in Boards /\ h.days = Append(b.days, x) /\ h.rest = b.rest
  <2>1. h.days = Append(b.days, x) /\ h.rest = b.rest
    BY <1>3
  <2>2. [days |-> Append(b.days, x), rest |-> b.rest] \in Boards
    BY <1>2, <1>4 DEF Boards, Cards
  <2> QED  BY <2>1, <2>2, <1>3
<1>6. DOMAIN h.days = 1 .. n /\ Len(h.days) = n /\ n \in Nat
  BY <1>2, <1>4, <1>5
<1>7. \A i \in DOMAIN b.days : h.days[i] = b.days[i] /\ i \in DOMAIN h.days /\ i # n
  BY <1>2, <1>4, <1>5, <1>6
<1>8. h.days[n].id = d /\ h.days[n].stops = <<>> /\ n \in DOMAIN h.days
  BY <1>1, <1>2, <1>4, <1>5, <1>6
<1>9. \A i \in DOMAIN h.days : i \in DOMAIN b.days \/ i = n
  BY <1>2, <1>6
<1>10. IdsOf(h) = IdsOf(b) \cup {d}
  <2>1. IdsOf(h) \subseteq IdsOf(b) \cup {d}
    BY <1>7, <1>8, <1>9 DEF IdsOf
  <2>2. IdsOf(b) \subseteq IdsOf(h)
    BY <1>7 DEF IdsOf
  <2>3. d \in IdsOf(h)
    BY <1>8 DEF IdsOf
  <2> QED  BY <2>1, <2>2, <2>3
<1>11. ASSUME Complete(b) PROVE Complete(h)
  <2>1. \A t : (InRest(h, t) <=> InRest(b, t)) /\ (\A i \in DOMAIN b.days : InDay(h, t, i) <=> InDay(b, t, i))
               /\ ~InDay(h, t, n)
    BY <1>5, <1>7, <1>8 DEF InRest, InDay, ToSet
  <2>2. IsInjective(h.rest) /\ \A i \in DOMAIN h.days : IsInjective(h.days[i].stops)
    <3>1. IsInjective(h.days[n].stops)
      BY <1>8 DEF IsInjective
    <3> QED  BY <3>1, <1>5, <1>7, <1>9, <1>11 DEF Complete
  <2>3. Distinct(h) => Distinct(b)
    <3> SUFFICES ASSUME Distinct(h), NEW i \in DOMAIN b.days, NEW j \in DOMAIN b.days,
                        b.days[i].id = b.days[j].id
                 PROVE  i = j
      BY DEF Distinct, Ids, IsInjective
    <3>1. i \in DOMAIN h.days /\ j \in DOMAIN h.days /\ h.days[i].id = h.days[j].id
      BY <1>7
    <3> QED  BY <3>1 DEF Distinct, Ids, IsInjective
  <2>4. \A s \in Stops : InRest(h, s) \/ \E i \in DOMAIN h.days : InDay(h, s, i)
    BY <2>1, <1>7, <1>11 DEF Complete
  <2>5. ASSUME Distinct(h), NEW s \in Stops, NEW i \in DOMAIN h.days, NEW j \in DOMAIN h.days, InDay(h, s, i)
        PROVE  ~InRest(h, s) /\ (InDay(h, s, j) => i = j)
    <3>1. i \in DOMAIN b.days /\ InDay(b, s, i) /\ (InDay(h, s, j) => j \in DOMAIN b.days /\ InDay(b, s, j))
      BY <2>1, <2>5, <1>9
    <3> QED  BY <3>1, <2>1, <2>3, <2>5, <1>11 DEF Complete
  <2> QED  BY <2>2, <2>4, <2>5 DEF Complete
<1> HIDE DEF n
<1> QED  BY <1>5, <1>6, <1>7, <1>8, <1>10, <1>11 DEF n

-----------------------------------------------------------------------------
(* Plans.                                                                  *)

LEMMA PlanParts ==
  ASSUME NEW p \in Plans
  PROVE  /\ p = [days |-> p.days, day |-> p.day, pos |-> p.pos]
         /\ p.days \in Seq(Days) /\ p.day \in [Stops -> Columns] /\ p.pos \in [Stops -> Nat \cup {None}]
BY DEF Plans

(* What the operators on plans change.                                     *)
LEMMA ScheduledIs ==
  ASSUME NEW p \in Plans, NEW q \in Seq(Stops), NEW d \in Columns
  PROVE  /\ Scheduled(p, q, d) \in Plans /\ Scheduled(p, q, d).days = p.days
         /\ Scheduled(p, q, d).pos = p.pos
         /\ \A s \in Stops : Scheduled(p, q, d).day[s] = IF s \in ToSet(q) THEN d ELSE p.day[s]
<1>1. \A s : Contains(q, s) <=> s \in ToSet(q)
  BY DEF Contains, ToSet
<1> DEFINE f == [s \in Stops |-> IF Contains(q, s) THEN d ELSE p.day[s]]
<1>2. f \in [Stops -> Columns] /\ \A s \in Stops : f[s] = IF s \in ToSet(q) THEN d ELSE p.day[s]
  BY <1>1, PlanParts
<1>3. Scheduled(p, q, d) = [p EXCEPT !.day = f]
  BY DEF Scheduled
<1> HIDE DEF f
<1> QED  BY <1>2, <1>3 DEF Plans

LEMMA LoosenedIs ==
  ASSUME NEW p \in Plans, NEW S
  PROVE  /\ Loosened(p, S) \in Plans /\ Loosened(p, S).days = p.days
         /\ \A s \in Stops : /\ Loosened(p, S).day[s] = IF s \in S THEN Unscheduled ELSE p.day[s]
                             /\ Loosened(p, S).pos[s] = IF s \in S THEN None ELSE p.pos[s]
<1> DEFINE f == [s \in Stops |-> IF s \in S THEN Unscheduled ELSE p.day[s]]
           g == [s \in Stops |-> IF s \in S THEN None ELSE p.pos[s]]
<1>1. /\ f \in [Stops -> Columns] /\ g \in [Stops -> Nat \cup {None}]
      /\ \A s \in Stops : /\ f[s] = IF s \in S THEN Unscheduled ELSE p.day[s]
                          /\ g[s] = IF s \in S THEN None ELSE p.pos[s]
  BY PlanParts DEF Columns
<1>2. Loosened(p, S) = [p EXCEPT !.day = f, !.pos = g]
  BY DEF Loosened
<1> HIDE DEF f, g
<1> QED  BY <1>1, <1>2 DEF Plans

Index(q, s) == CHOOSE i \in DOMAIN q : q[i] = s

LEMMA IndexIs ==
  ASSUME NEW q \in Seq(Stops), NEW s \in ToSet(q)
  PROVE  Index(q, s) \in 1 .. Len(q) /\ q[Index(q, s)] = s
BY DEF Index, ToSet

LEMMA OrderedIs ==
  ASSUME NEW p \in Plans, NEW q \in Seq(Stops)
  PROVE  /\ Ordered(p, q) \in Plans /\ Ordered(p, q).days = p.days /\ Ordered(p, q).day = p.day
         /\ \A s \in Stops : Ordered(p, q).pos[s] = IF s \in ToSet(q) THEN Index(q, s) - 1 ELSE p.pos[s]
<1>1. \A s : Contains(q, s) <=> s \in ToSet(q)
  BY DEF Contains, ToSet
<1> DEFINE f == [s \in Stops |-> IF Contains(q, s) THEN Index(q, s) - 1 ELSE p.pos[s]]
<1>2. \A s \in ToSet(q) : Index(q, s) - 1 \in Nat
  BY IndexIs
<1>3. /\ f \in [Stops -> Nat \cup {None}]
      /\ \A s \in Stops : f[s] = IF s \in ToSet(q) THEN Index(q, s) - 1 ELSE p.pos[s]
  BY <1>1, <1>2, PlanParts
<1>4. Ordered(p, q) = [p EXCEPT !.pos = f]
  BY DEF Ordered, Index
<1> HIDE DEF f
<1> QED  BY <1>3, <1>4 DEF Plans

LEMMA DaysIs ==
  ASSUME NEW p \in Plans, NEW q \in Seq(Days)
  PROVE  /\ [p EXCEPT !.days = q] \in Plans /\ [p EXCEPT !.days = q].days = q
         /\ [p EXCEPT !.days = q].day = p.day /\ [p EXCEPT !.days = q].pos = p.pos
BY DEF Plans

-----------------------------------------------------------------------------
(* Calls.                                                                  *)

Told(x) == x.at = "back" /\ x.ok
Creates(x) == Told(x) /\ x.op = "create"
Replies(x) == Told(x) /\ x.op = "load"

(* A call that has just been sent.                                         *)
Asked(x, by, op, job) ==
  /\ x.at = "out" /\ x.by = by /\ x.op = op /\ x.job = job
  /\ ~x.ok /\ x.board = None /\ x.wrote = {} /\ x.fresh = (by = "drop")

(* The call of one handler goes a step further.                            *)
Goes1(c, x) ==
  /\ call' \in [Slots -> Calls] /\ call'[c] = x /\ \A d \in Slots \ {c} : call'[d] = call[d]

(* What a step of one call leaves of the others.                           *)
LEMMA PutIs ==
  ASSUME call \in [Slots -> Calls], NEW c \in Slots, NEW x \in Calls, Put(c, x)
  PROVE  Goes1(c, x)
BY DEF Put, Goes1

LEMMA CallParts ==
  ASSUME NEW x \in Calls
  PROVE  /\ x.at \in {"idle", "out", "between", "back"} /\ x.by \in Handlers
         /\ x.op \in Edits \cup {"load"} /\ x.job \in Jobs /\ x.todo \in Seq(Jobs)
         /\ x.match \in Nat \cup {None} /\ x.ok \in BOOLEAN /\ x.version \in Nat \cup {None}
         /\ x.board \in Boards \cup {None} /\ x.wrote \in SUBSET Nat /\ x.fresh \in BOOLEAN
BY DEF Calls

LEMMA JobParts ==
  /\ \A j \in Jobs : j.day \in Columns /\ j.stops \in Seq(Stops) /\ j.order \in Seq(Stops)
  /\ \A d \in Columns, q, r \in Seq(Stops) :
       Job(d, q, r) \in Jobs /\ Job(d, q, r).day = d /\ Job(d, q, r).stops = q /\ Job(d, q, r).order = r
  /\ NoJob \in Jobs
BY DEF Jobs, Job, NoJob, Columns

LEMMA NoCallIs ==
  /\ NoCall \in Calls /\ NoCall.at = "idle" /\ NoCall.by = "open" /\ NoCall.op = "load"
  /\ ~NoCall.ok /\ NoCall.board = None /\ NoCall.wrote = {} /\ NoCall.todo = <<>>
<1>1. NoJob \in Jobs /\ <<>> \in Seq(Jobs)
  BY JobParts
<1> QED  BY <1>1 DEF NoCall, Calls, Handlers, Edits

LEMMA TodoIs ==
  ASSUME NEW x \in Calls, NEW todo \in Seq(Jobs), NEW y, y = [x EXCEPT !.todo = todo]
  PROVE  /\ y \in Calls /\ y.at = x.at /\ y.by = x.by /\ y.op = x.op /\ y.job = x.job /\ y.ok = x.ok
         /\ y.board = x.board /\ y.wrote = x.wrote /\ y.fresh = x.fresh
<1>1. y \in Calls
  BY DEF Calls
<1>2. /\ y.at = x.at /\ y.by = x.by /\ y.op = x.op /\ y.job = x.job /\ y.ok = x.ok
      /\ y.board = x.board /\ y.wrote = x.wrote /\ y.fresh = x.fresh
  BY DEF Calls
<1> QED  BY <1>1, <1>2

LEMMA SentIs ==
  ASSUME NEW by \in Handlers, NEW op \in Edits \cup {"load"}, NEW job \in Jobs,
         NEW k \in Nat \cup {None}, NEW todo \in Seq(Jobs)
  PROVE  /\ Sent(by, op, job, k) \in Calls /\ Asked(Sent(by, op, job, k), by, op, job)
         /\ [Sent(by, op, job, k) EXCEPT !.todo = todo] \in Calls
         /\ Asked([Sent(by, op, job, k) EXCEPT !.todo = todo], by, op, job)
<1> DEFINE x == Sent(by, op, job, k)
<1>1. /\ x \in Calls /\ x.at = "out" /\ x.by = by /\ x.op = op /\ x.job = job
      /\ ~x.ok /\ x.board = None /\ x.wrote = {} /\ x.fresh = (by = "drop")
  <2> DEFINE m == IF op \in Edits THEN k ELSE None
             f == (by = "drop")
  <2>1. m \in Nat \cup {None} /\ f \in BOOLEAN /\ "out" \in {"idle", "out", "between", "back"}
    OBVIOUS
  <2>2. x = [NoCall EXCEPT !.at = "out", !.by = by, !.op = op, !.job = job, !.match = m, !.fresh = f]
    BY DEF Sent
  <2> HIDE DEF x, m, f
  <2>3. x \in Calls
    BY <2>1, <2>2, NoCallIs DEF Calls
  <2>4. /\ x.at = "out" /\ x.by = by /\ x.op = op /\ x.job = job
        /\ x.ok = NoCall.ok /\ x.board = NoCall.board /\ x.wrote = NoCall.wrote /\ x.fresh = f
    BY <2>2, NoCallIs DEF Calls
  <2> QED  BY <2>3, <2>4, NoCallIs DEF f
<1> HIDE DEF x
<1> DEFINE y == [x EXCEPT !.todo = todo]
<1>2. /\ y \in Calls /\ y.at = x.at /\ y.by = x.by /\ y.op = x.op /\ y.job = x.job /\ y.ok = x.ok
      /\ y.board = x.board /\ y.wrote = x.wrote /\ y.fresh = x.fresh
  <2>1. x \in Calls /\ y = [x EXCEPT !.todo = todo]
    BY <1>1
  <2> HIDE DEF y
  <2> QED  BY <2>1, TodoIs
<1> HIDE DEF y
<1>3. Asked(y, by, op, job)
  BY <1>1, <1>2 DEF Asked
<1> QED  BY <1>1, <1>2, <1>3 DEF x, y, Asked

-----------------------------------------------------------------------------
(* "Distribute": every day gets a part of the stops.                       *)

(* A share of the stops is a sequence of stops.                            *)
LEMMA ShareIs ==
  ASSUME NEW q \in Seq(Stops), NEW n \in Nat \ {0}, NEW i \in 1 .. n
  PROVE  Share(q, i, n) \in Seq(Stops)
<1> DEFINE each == Len(q) \div n
           more == Len(q) % n
           lo == (i - 1) * each + Least(i - 1, more) + 1
           hi == i * each + Least(i, more)
<1>1. Len(q) \in Nat /\ each \in Nat /\ more \in Nat /\ Len(q) = n * each + more
  OBVIOUS
<1> HIDE DEF each, more
<1>2. ASSUME NEW a \in Nat, NEW b \in Nat PROVE Least(a, b) \in Nat /\ Least(a, b) <= b
  BY DEF Least
<1>3. Least(i - 1, more) \in Nat /\ Least(i, more) \in Nat /\ Least(i, more) <= more
  <2>1. i - 1 \in Nat /\ i \in Nat /\ more \in Nat
    BY <1>1
  <2> QED  BY <1>2, <2>1
<1>4. i * each <= n * each /\ (i - 1) * each \in Nat /\ i * each \in Nat
  <2>1. n * each = i * each + (n - i) * each
    BY <1>1
  <2>2. ASSUME NEW a \in Nat, NEW b \in Nat PROVE a * b \in Nat
    OBVIOUS
  <2>3. (n - i) * each \in Nat /\ (i - 1) * each \in Nat /\ i * each \in Nat /\ n * each \in Nat
    BY <1>1, <2>2
  <2> QED  BY <2>1, <2>3
<1>5. lo \in Int /\ hi \in Int /\ 1 <= lo /\ hi <= Len(q)
  <2>1. \A a, c, e \in Nat : a + c + 1 \in Int /\ 1 <= a + c + 1 /\ a + c \in Int
    OBVIOUS
  <2>2. lo \in Int /\ 1 <= lo /\ hi \in Int
    BY <2>1, <1>3, <1>4
  <2>3. \A a, c, e, f \in Nat : a <= e /\ c <= f => a + c <= e + f
    OBVIOUS
  <2>4. n * each \in Nat
    BY <1>1
  <2>5. hi <= n * each + more
    BY <2>3, <2>4, <1>1, <1>3, <1>4
  <2> QED  BY <2>2, <2>5, <1>1
<1> HIDE DEF lo, hi
<1>6. \A j \in lo .. hi : q[j] \in Stops
  BY <1>1, <1>5
<1>7. SubSeq(q, lo, hi) \in Seq(Stops)
  BY <1>5, <1>6, SubSeqProperties
<1> QED  BY <1>7 DEF Share, lo, hi, each, more

(* Distribution has a first job, and more of them.                         *)
LEMMA SharesAre ==
  ASSUME NEW b \in Boards, b.rest # <<>>, b.days # <<>>
  PROVE  Head(Shares(b.days, b.rest)) \in Jobs /\ Tail(Shares(b.days, b.rest)) \in Seq(Jobs)
<1> DEFINE n == Len(b.days)
           k == Least(n, Len(b.rest))
           part(i) == Share(b.rest, i, n)
           x(i) == Job(b.days[i].id, part(i), b.days[i].stops \o part(i))
           jobs == Shares(b.days, b.rest)
<1>1. n \in Nat \ {0} /\ Len(b.rest) \in Nat \ {0} /\ b.rest \in Seq(Stops) /\ DOMAIN b.days = 1 .. n
  BY BoardParts, EmptySeq
<1>2. k \in Nat \ {0} /\ k <= n
  BY <1>1 DEF Least
<1>3. ASSUME NEW i \in 1 .. k PROVE x(i) \in Jobs
  <2>1. i \in 1 .. n /\ i \in DOMAIN b.days
    BY <1>1, <1>2
  <2>2. part(i) \in Seq(Stops)
    BY <1>1, <2>1, ShareIs
  <2>3. b.days[i].id \in Days /\ b.days[i].stops \in Seq(Stops)
    BY <2>1, BoardParts
  <2> HIDE DEF part
  <2>4. b.days[i].stops \o part(i) \in Seq(Stops) /\ b.days[i].id \in Columns
    BY <2>2, <2>3, ConcatProperties DEF Columns
  <2> QED  BY <2>2, <2>4, JobParts
<1>4. jobs = [i \in 1 .. k |-> x(i)]
  BY DEF Shares
<1> HIDE DEF x
<1>5. jobs \in [1 .. k -> Jobs]
  BY <1>3, <1>4
<1> HIDE DEF jobs, k
<1>6. jobs \in Seq(Jobs) /\ Len(jobs) = k
  BY <1>2, <1>5
<1>7. jobs # <<>>
  BY <1>2, <1>6
<1> QED  BY <1>6, <1>7, HeadTailProperties DEF jobs

-----------------------------------------------------------------------------
(* The invariant: the plan, the page and every answer on its way hold      *)
(* every stop once.                                                        *)

(* A board in an answer has every stop once; a call brings the commits it  *)
(* has made and no others.                                                 *)
Sound(x, w) ==
  /\ x.board # None => Complete(x.board) /\ Distinct(x.board)
  /\ Replies(x) => x.board # None /\ \E n \in 1 .. w : x.wrote = 1 .. n
  /\ x.op # "load" => x.wrote \subseteq 2 .. w
  /\ x.by = "drop" => x.op \in {"assign", "unassign", "load"}
  /\ Creates(x) => x.job.day \in Days /\ \E n \in 2 .. w : x.wrote = {n}
  /\ x.at = "between" => x.op = "assign" /\ x.ok
  /\ x.at = "out" => ~x.ok
  /\ x.at \in {"idle", "out"} \/ (x.at = "back" /\ ~x.ok) => x.wrote = {}

(* No commit is two calls'.                                                *)
Apart(x, y) ==
  /\ x.op # "load" /\ y.op # "load" => x.wrote \cap y.wrote = {}
  /\ Creates(x) /\ Creates(y) => x.job.day # y.job.day

ServerInv == version \in Nat /\ writes \in Nat \ {0} /\ plan \in Plans /\ Placed(plan) /\ role \in Roles

(* The board shown has every stop once.                                    *)
PageInv ==
  /\ view \in {"loading", "board", "error"} /\ shown \in Boards \cup {None}
  /\ view # "error" => (view = "board" <=> shown # None)
  /\ shown # None => Complete(shown)
  /\ known \in Nat \cup {None}
  /\ drag \in Drags \cup {None} /\ (drag # None => shown # None)
  /\ optimizing \in Days \cup {None}
  /\ seen \in (SUBSET Nat) \cup {None} /\ (seen # None => seen \subseteq 1 .. writes)

(* Every call is sound, and apart from every other.                        *)
CallsInv ==
  /\ call \in [Slots -> Calls] /\ \A c \in Slots : Sound(call[c], writes)
  /\ \A c, d \in Slots : c # d => Apart(call[c], call[d])

BoardInv == ServerInv /\ PageInv /\ CallsInv

(* What holds of a call holds after more commits.                          *)
LEMMA SoundGrows ==
  ASSUME NEW x \in Calls, NEW w \in Nat, NEW v \in Nat, w <= v, Sound(x, w)
  PROVE  Sound(x, v)
<1>1. 1 .. w \subseteq 1 .. v /\ 2 .. w \subseteq 2 .. v
  OBVIOUS
<1> QED  BY <1>1 DEF Sound

(* A call that stays sound and apart from the others keeps CallsInv.       *)
LEMMA CallsKept ==
  ASSUME CallsInv, writes \in Nat, writes' \in Nat, writes <= writes',
         NEW c \in Slots, NEW x \in Calls, Goes1(c, x), Sound(x, writes'),
         \A d \in Slots \ {c} : Apart(x, call[d])
  PROVE  CallsInv'
<1>1. call' \in [Slots -> Calls] /\ call'[c] = x /\ \A d \in Slots \ {c} : call'[d] = call[d]
  BY DEF Goes1
<1>2. ASSUME NEW d \in Slots PROVE Sound(call'[d], writes')
  <2>1. CASE d = c
    BY <2>1, <1>1
  <2>2. CASE d # c
    <3>1. call[d] \in Calls /\ Sound(call[d], writes) /\ call'[d] = call[d]
      BY <2>2, <1>1 DEF CallsInv
    <3> QED  BY <3>1, SoundGrows
  <2> QED  BY <2>1, <2>2
<1>3. ASSUME NEW d \in Slots, NEW e \in Slots, d # e PROVE Apart(call'[d], call'[e])
  <2>1. CASE d # c /\ e # c
    BY <2>1, <1>1, <1>3 DEF CallsInv
  <2>2. CASE d = c
    BY <2>2, <1>1, <1>3
  <2>3. CASE e = c
    <3>1. Apart(x, call[d])
      BY <2>3, <1>3
    <3> QED  BY <3>1, <2>3, <1>1, <1>3 DEF Apart
  <2> QED  BY <2>1, <2>2, <2>3
<1>4. \A d \in Slots : Sound(call[d], writes)'
  BY <1>2
<1>5. \A d, e \in Slots : d # e => Apart(call[d], call[e])'
  BY <1>3
<1> QED  BY <1>1, <1>4, <1>5 DEF CallsInv

(* A call that brings nothing is apart from all others.                    *)
LEMMA EmptyApart ==
  ASSUME NEW x, NEW y, x.wrote = {}, ~Creates(x)
  PROVE  Apart(x, y)
BY DEF Apart

(* A call that was just sent promises nothing.                             *)
LEMMA AskedSound ==
  ASSUME NEW x \in Calls, NEW by, NEW op, NEW job, NEW w, Asked(x, by, op, job),
         by = "drop" => op \in {"assign", "unassign", "load"}
  PROVE  Sound(x, w) /\ ~Creates(x) /\ x.wrote = {}
BY DEF Asked, Sound, Creates, Replies, Told

LEMMA IdleSound == \A w : Sound(NoCall, w) /\ ~Creates(NoCall) /\ NoCall.wrote = {}
BY NoCallIs DEF Sound, Creates, Replies, Told

(* A handler of the page sends a call.                                     *)
Sends(by, op, job) ==
  \E c \in Slots : \E x \in Calls : call[c].at = "idle" /\ Goes1(c, x) /\ Asked(x, by, op, job)

(* A handler that starts sends one call.                                   *)
LEMMA StartSends ==
  ASSUME BoardInv, NEW by \in Handlers, NEW op \in Edits, NEW job \in Jobs, NEW todo \in Seq(Jobs),
         Start(by, op, job, todo)
  PROVE  Sends(by, op, job)
<1>1. PICK c \in Slots : Free(c) /\ Put(c, [Sent(by, op, job, known) EXCEPT !.todo = todo])
  BY DEF Start
<1> DEFINE x == [Sent(by, op, job, known) EXCEPT !.todo = todo]
<1>2. x \in Calls /\ Asked(x, by, op, job)
  <2>1. known \in Nat \cup {None} /\ op \in Edits \cup {"load"}
    BY DEF BoardInv, PageInv
  <2> QED  BY <2>1, SentIs
<1>3. Put(c, x)
  BY <1>1
<1> HIDE DEF x
<1>4. Goes1(c, x)
  BY <1>2, <1>3, PutIs DEF BoardInv, CallsInv
<1> QED  BY <1>1, <1>2, <1>4 DEF Sends, Free

Menus == AddDay \/ EditDay \/ DeleteDay \/ OptimizeDay \/ EditArrival \/ AssignToDay
         \/ AssignToNewDay \/ Unassign \/ Distribute

(* So do all handlers but the drop.                                        *)
LEMMA MenusSend ==
  ASSUME BoardInv, view = "board", Menus
  PROVE  /\ \E by \in Handlers \ {"drop"}, op \in Edits, job \in Jobs : Sends(by, op, job)
         /\ UNCHANGED <<server, view, shown, known, drag, seen>>
         /\ optimizing' \in Days \cup {None}
<1> DEFINE Goal == /\ \E by \in Handlers \ {"drop"}, op \in Edits, job \in Jobs : Sends(by, op, job)
                   /\ UNCHANGED <<server, view, shown, known, drag, seen>>
                   /\ optimizing' \in Days \cup {None}
<1>1. /\ shown \in Boards /\ Complete(shown) /\ optimizing \in Days \cup {None}
      /\ IdsOf(shown) \subseteq Days
  BY BoardParts DEF BoardInv, PageInv
<1>2. ASSUME NEW by \in {"create", "detail", "delete", "optimize", "time", "menu", "distribute"},
             NEW op \in {"create", "detail", "delete", "optimize", "time", "assign", "unassign"},
             NEW job \in Jobs, NEW todo \in Seq(Jobs),
             Click(by, op, job, todo), optimizing' \in Days \cup {None}
      PROVE  Goal
  <2>1. Start(by, op, job, todo)
    BY <1>2 DEF Click
  <2>2. by \in Handlers \ {"drop"} /\ op \in Edits
    BY DEF Handlers, Edits
  <2>3. Sends(by, op, job)
    BY <2>1, <2>2, StartSends
  <2> QED  BY <2>2, <2>3, <1>2 DEF Click
<1>3. <<>> \in Seq(Jobs) /\ <<>> \in Seq(Stops)
  OBVIOUS
<1>4. \A d \in Days : Job(d, <<>>, <<>>) \in Jobs
  BY <1>3, JobParts DEF Columns
<1> SUFFICES Goal
  OBVIOUS
<1> HIDE DEF Goal
<1>5. CASE AddDay
  <2>1. Click("create", "create", NoJob, <<>>) /\ optimizing' \in Days \cup {None}
    BY <1>1, <1>5 DEF AddDay, Quietly
  <2> QED  BY <2>1, <1>2, <1>3, JobParts
<1>6. CASE EditDay
  <2>1. PICK d \in IdsOf(shown) :
          Click("detail", "detail", Job(d, <<>>, <<>>), <<>>) /\ optimizing' \in Days \cup {None}
    BY <1>1, <1>6 DEF EditDay, Quietly
  <2> QED  BY <2>1, <1>1, <1>2, <1>3, <1>4
<1>7. CASE DeleteDay
  <2>1. PICK d \in IdsOf(shown) :
          Click("delete", "delete", Job(d, <<>>, <<>>), <<>>) /\ optimizing' \in Days \cup {None}
    BY <1>1, <1>7 DEF DeleteDay, Quietly
  <2> QED  BY <2>1, <1>1, <1>2, <1>3, <1>4
<1>8. CASE OptimizeDay
  <2>1. PICK d \in IdsOf(shown) :
          Click("optimize", "optimize", Job(d, <<>>, <<>>), <<>>) /\ optimizing' \in Days \cup {None}
    BY <1>1, <1>8 DEF OptimizeDay
  <2> QED  BY <2>1, <1>1, <1>2, <1>3, <1>4
<1>9. CASE EditArrival
  <2>1. Click("time", "time", NoJob, <<>>) /\ optimizing' \in Days \cup {None}
    BY <1>1, <1>9 DEF EditArrival, Quietly
  <2> QED  BY <2>1, <1>2, <1>3, JobParts
<1>10. CASE AssignToDay
  <2>1. PICK s \in Stops : \E d \in IdsOf(shown) \cap MenuOffers(s) :
          /\ Click("menu", "assign", Job(d, <<s>>, Append(StopsOf(shown, d), s)), <<>>)
          /\ Quietly
    BY <1>10 DEF AssignToDay
  <2>2. PICK d \in IdsOf(shown) :
          /\ Click("menu", "assign", Job(d, <<s>>, Append(StopsOf(shown, d), s)), <<>>)
          /\ Quietly
    BY <2>1
  <2>3. Append(StopsOf(shown, d), s) \in Seq(Stops) /\ <<s>> \in Seq(Stops) /\ d \in Columns
    <3>1. StopsOf(shown, d) \in Seq(Stops)
      BY <1>1, StopsOfIs
    <3> QED  BY <3>1, <1>1, AppendProperties DEF Columns
  <2>4. Job(d, <<s>>, Append(StopsOf(shown, d), s)) \in Jobs
    BY <2>3, JobParts
  <2>5. optimizing' \in Days \cup {None}
    BY <2>2, <1>1 DEF Quietly
  <2> QED  BY <2>2, <2>4, <2>5, <1>2, <1>3
<1>11. CASE AssignToNewDay
  <2>1. PICK s \in Stops : Click("menu", "create", Job(Unscheduled, <<s>>, <<s>>), <<>>) /\ Quietly
    BY <1>11 DEF AssignToNewDay
  <2>2. <<s>> \in Seq(Stops) /\ Unscheduled \in Columns
    BY DEF Columns
  <2>3. Job(Unscheduled, <<s>>, <<s>>) \in Jobs
    BY <2>2, JobParts
  <2>4. optimizing' \in Days \cup {None}
    BY <2>1, <1>1 DEF Quietly
  <2> QED  BY <2>1, <2>3, <2>4, <1>2, <1>3
<1>12. CASE Unassign
  <2>1. PICK s \in Stops : Click("menu", "unassign", Job(Container(shown, s), <<s>>, <<>>), <<>>) /\ Quietly
    BY <1>12 DEF Unassign
  <2>2. <<s>> \in Seq(Stops) /\ Container(shown, s) \in Columns /\ <<>> \in Seq(Stops)
    BY <1>1, Contained
  <2>3. Job(Container(shown, s), <<s>>, <<>>) \in Jobs
    BY <2>2, JobParts
  <2>4. optimizing' \in Days \cup {None}
    BY <2>1, <1>1 DEF Quietly
  <2> QED  BY <2>1, <2>3, <2>4, <1>2, <1>3
<1>13. CASE Distribute
  <2>1. shown.rest # <<>> /\ optimizing' \in Days \cup {None}
    BY <1>1, <1>13 DEF Distribute, UnscheduledOffers, Quietly
  <2>2. CASE shown.days = <<>>
    <3>1. Click("distribute", "create", Job(Unscheduled, shown.rest, shown.rest), <<>>)
      BY <2>2, <1>13 DEF Distribute
    <3>2. Job(Unscheduled, shown.rest, shown.rest) \in Jobs
      BY <1>1, BoardParts, JobParts DEF Columns
    <3> QED  BY <3>1, <3>2, <2>1, <1>2, <1>3
  <2>3. CASE shown.days # <<>>
    <3> DEFINE jobs == Shares(shown.days, shown.rest)
    <3>1. Click("distribute", "assign", Head(jobs), Tail(jobs))
      BY <2>3, <1>13 DEF Distribute
    <3>2. Head(jobs) \in Jobs /\ Tail(jobs) \in Seq(Jobs)
      BY <1>1, <2>1, <2>3, SharesAre
    <3> HIDE DEF jobs
    <3> QED  BY <3>1, <3>2, <2>1, <1>2
  <2> QED  BY <2>2, <2>3
<1> QED  BY <1>5, <1>6, <1>7, <1>8, <1>9, <1>10, <1>11, <1>12, <1>13 DEF Menus

-----------------------------------------------------------------------------
(* What the page does keeps the invariant.                                 *)

LEMMA SendsKeep ==
  ASSUME BoardInv, UNCHANGED server, NEW by, NEW op, NEW job, Sends(by, op, job),
         by = "drop" => op \in {"assign", "unassign", "load"}
  PROVE  ServerInv' /\ CallsInv'
<1>1. PICK c \in Slots, x \in Calls : Goes1(c, x) /\ Asked(x, by, op, job)
  BY DEF Sends
<1>2. ServerInv' /\ writes \in Nat /\ writes' = writes
  BY DEF BoardInv, ServerInv, server
<1>3. Sound(x, writes') /\ \A d \in Slots : Apart(x, call[d])
  BY <1>1, AskedSound, EmptyApart
<1> QED  BY <1>1, <1>2, <1>3, CallsKept DEF BoardInv

LEMMA MenusKeep ==
  ASSUME BoardInv, view = "board", Menus
  PROVE  BoardInv'
<1>1. PICK by \in Handlers \ {"drop"}, op \in Edits, job \in Jobs : Sends(by, op, job)
  BY MenusSend
<1>2. UNCHANGED <<server, view, shown, known, drag, seen>> /\ optimizing' \in Days \cup {None}
  BY MenusSend
<1>3. ServerInv' /\ CallsInv'
  BY <1>1, <1>2, SendsKeep
<1>4. PageInv'
  BY <1>2 DEF BoardInv, PageInv, server
<1> QED  BY <1>3, <1>4 DEF BoardInv

LEMMA DragParts ==
  ASSUME NEW d \in Drags
  PROVE  /\ d.stop \in Stops /\ d.origin \in Columns /\ d.home \in Columns /\ d.moved \in BOOLEAN
         /\ d # None
BY BoardAssumption DEF Drags

LEMMA DragStartKeeps ==
  ASSUME BoardInv, DragStart
  PROVE  BoardInv'
<1>1. PICK s \in Stops : drag' = [stop |-> s, origin |-> Container(shown, s), home |-> Container(shown, s),
                                  moved |-> FALSE]
  BY DEF DragStart
<1>2. UNCHANGED <<server, view, shown, known, optimizing, call, seen>> /\ view = "board"
  BY DEF DragStart
<1>3. shown \in Boards /\ Complete(shown) /\ shown # None
  BY <1>2 DEF BoardInv, PageInv
<1>4. drag' \in Drags
  BY <1>1, <1>3, Contained DEF Drags
<1>5. ServerInv' /\ CallsInv'
  BY <1>2 DEF BoardInv, ServerInv, CallsInv, server
<1>6. PageInv'
  BY <1>2, <1>3, <1>4 DEF BoardInv, PageInv, server
<1> QED  BY <1>5, <1>6 DEF BoardInv

(* Dragging moves the chip and asks the server nothing.                    *)
LEMMA DragOverIs ==
  ASSUME BoardInv, DragOver
  PROVE  /\ drag \in Drags /\ shown \in Boards /\ Complete(shown) /\ Dragged(shown, shown', drag.stop)
         /\ drag' \in Drags /\ drag'.stop = drag.stop /\ drag'.home = drag.home /\ drag'.moved
         /\ UNCHANGED <<server, view, known, optimizing, call, seen>>
<1>1. /\ drag \in Drags /\ shown \in Boards /\ Complete(shown)
      /\ UNCHANGED <<server, view, known, optimizing, call, seen>>
  BY DEF DragOver, BoardInv, PageInv
<1>2. PICK over \in DropTargets : shown' = Hovered(shown, drag.stop, over)
  BY DEF DragOver
<1>3. over \in IdsOf(shown) \cup {Unscheduled} \cup Stops
  BY DEF DropTargets
<1>4. Dragged(shown, shown', drag.stop)
  BY <1>1, <1>2, <1>3, HoveredIs, DragParts
<1>5. drag' = [drag EXCEPT !.moved = TRUE]
  BY DEF DragOver
<1>6. drag' \in Drags /\ drag'.stop = drag.stop /\ drag'.home = drag.home /\ drag'.moved
  BY <1>1, <1>5 DEF Drags
<1> QED  BY <1>1, <1>4, <1>6

LEMMA DragOverKeeps ==
  ASSUME BoardInv, DragOver
  PROVE  BoardInv'
<1>1. /\ UNCHANGED <<server, view, known, optimizing, call, seen>>
      /\ shown \in Boards /\ drag' \in Drags /\ Dragged(shown, shown', drag.stop)
  BY DragOverIs
<1>2. shown' \in Boards /\ Complete(shown') /\ shown # None /\ shown' # None
  BY <1>1, BoardParts DEF Dragged
<1>3. ServerInv' /\ CallsInv'
  BY <1>1 DEF BoardInv, ServerInv, CallsInv, server
<1>4. PageInv'
  BY <1>1, <1>2 DEF BoardInv, PageInv, server
<1> QED  BY <1>3, <1>4 DEF BoardInv

(* The call a drop sends.                                                  *)
LEMMA DragEndIs ==
  ASSUME BoardInv, DragEnd, NEW s, s = drag.stop, NEW to, to = Container(shown, s)
  PROVE  /\ s \in Stops /\ to \in IdsOf(shown) \cup {Unscheduled} /\ to \in Columns
         /\ IF to # Unscheduled
            THEN /\ Sends("drop", "assign", Job(to, <<s>>, StopsOf(shown, to)))
                 /\ Job(to, <<s>>, StopsOf(shown, to)) \in Jobs
            ELSE IF drag.origin # Unscheduled
                 THEN /\ Sends("drop", "unassign", Job(drag.origin, <<s>>, <<>>))
                      /\ Job(drag.origin, <<s>>, <<>>) \in Jobs
                 ELSE UNCHANGED call
         /\ UNCHANGED <<server, view, shown, known, optimizing>> /\ drag' = None
         /\ seen' = seen \/ seen' = None
<1>1. shown \in Boards /\ Complete(shown) /\ drag \in Drags
  BY DEF DragEnd, BoardInv, PageInv
<1>2. s \in Stops /\ drag.origin \in Columns /\ <<s>> \in Seq(Stops) /\ <<>> \in Seq(Stops)
  BY <1>1, DragParts
<1>3. to \in IdsOf(shown) \cup {Unscheduled} /\ to \in Columns
  BY <1>1, <1>2, Contained
<1>4. {"assign", "unassign"} \subseteq Edits /\ "drop" \in Handlers /\ <<>> \in Seq(Jobs)
  BY DEF Edits, Handlers
<1>5. ASSUME to # Unscheduled
      PROVE  Sends("drop", "assign", Job(to, <<s>>, StopsOf(shown, to)))
             /\ Job(to, <<s>>, StopsOf(shown, to)) \in Jobs
  <2>1. Job(to, <<s>>, StopsOf(shown, to)) \in Jobs
    BY <1>1, <1>2, <1>3, <1>5, StopsOfIs, JobParts
  <2>2. Start("drop", "assign", Job(to, <<s>>, StopsOf(shown, to)), <<>>)
    BY <1>5 DEF DragEnd
  <2> QED  BY <2>1, <2>2, <1>4, StartSends
<1>6. ASSUME to = Unscheduled, drag.origin # Unscheduled
      PROVE  Sends("drop", "unassign", Job(drag.origin, <<s>>, <<>>))
             /\ Job(drag.origin, <<s>>, <<>>) \in Jobs
  <2>1. Job(drag.origin, <<s>>, <<>>) \in Jobs
    BY <1>2, JobParts
  <2>2. Start("drop", "unassign", Job(drag.origin, <<s>>, <<>>), <<>>)
    BY <1>6 DEF DragEnd
  <2> QED  BY <2>1, <2>2, <1>4, StartSends
<1>7. ASSUME to = Unscheduled, drag.origin = Unscheduled PROVE UNCHANGED call
  BY <1>7 DEF DragEnd
<1>8. /\ UNCHANGED <<server, view, shown, known, optimizing>> /\ drag' = None
      /\ seen' = seen \/ seen' = None
  BY DEF DragEnd
<1> QED  BY <1>2, <1>3, <1>5, <1>6, <1>7, <1>8

LEMMA DragEndKeeps ==
  ASSUME BoardInv, DragEnd
  PROVE  BoardInv'
<1>1. /\ UNCHANGED <<server, view, shown, known, optimizing>> /\ drag' = None
      /\ seen' = seen \/ seen' = None
  BY DragEndIs
<1>2. UNCHANGED call \/ \E op \in {"assign", "unassign"}, job \in Jobs : Sends("drop", op, job)
  BY DragEndIs
<1>3. ServerInv' /\ CallsInv'
  <2>1. CASE UNCHANGED call
    BY <2>1, <1>1 DEF BoardInv, ServerInv, CallsInv, server
  <2>2. CASE \E op \in {"assign", "unassign"}, job \in Jobs : Sends("drop", op, job)
    BY <2>2, <1>1, SendsKeep
  <2> QED  BY <2>1, <2>2, <1>2
<1>4. PageInv'
  BY <1>1 DEF BoardInv, PageInv, server
<1> QED  BY <1>3, <1>4 DEF BoardInv

LEMMA AbandonKeeps ==
  ASSUME BoardInv, DragAbandoned
  PROVE  BoardInv'
<1>1. /\ UNCHANGED <<server, view, shown, known, optimizing, call>> /\ drag' = None
      /\ seen' = seen \/ seen' = None
  BY DEF DragAbandoned
<1>2. ServerInv' /\ CallsInv'
  BY <1>1 DEF BoardInv, ServerInv, CallsInv, server
<1>3. PageInv'
  BY <1>1 DEF BoardInv, PageInv, server
<1> QED  BY <1>2, <1>3 DEF BoardInv

-----------------------------------------------------------------------------
(* What the server does keeps the invariant.                               *)

(* A call that fails brings nothing and has made no commit.                *)
LEMMA FailsIs ==
  ASSUME BoardInv, NEW c \in Slots, Refuse(c) \/ Lost(c)
  PROVE  /\ call[c].at # "idle" /\ UNCHANGED <<server, page, seen>>
         /\ \E x \in Calls :
              /\ Goes1(c, x) /\ x.at = "back" /\ x.by = call[c].by /\ x.op = call[c].op
              /\ ~x.ok /\ x.wrote = {} /\ x.fresh = call[c].fresh /\ x.board \in {None, call[c].board}
<1>1. call \in [Slots -> Calls] /\ call[c] \in Calls /\ Sound(call[c], writes)
  BY DEF BoardInv, CallsInv
<1> DEFINE k == Kept(c)
           x == [call[c] EXCEPT !.at = "back", !.job = k, !.match = None]
           y == [call[c] EXCEPT !.at = "back", !.ok = FALSE, !.job = k, !.match = None,
                                !.version = None, !.board = None, !.wrote = {}]
<1>2. k \in Jobs
  BY <1>1, CallParts, JobParts DEF Kept
<1> HIDE DEF k
<1>3. /\ x \in Calls /\ x.at = "back" /\ x.by = call[c].by /\ x.op = call[c].op /\ x.ok = call[c].ok
      /\ x.wrote = call[c].wrote /\ x.fresh = call[c].fresh /\ x.board = call[c].board
  <2>1. x \in Calls
    BY <1>1, <1>2 DEF Calls
  <2>2. /\ x.at = "back" /\ x.by = call[c].by /\ x.op = call[c].op /\ x.ok = call[c].ok
        /\ x.wrote = call[c].wrote /\ x.fresh = call[c].fresh /\ x.board = call[c].board
    BY <1>1 DEF Calls
  <2> QED  BY <2>1, <2>2
<1>4. /\ y \in Calls /\ y.at = "back" /\ y.by = call[c].by /\ y.op = call[c].op /\ ~y.ok
      /\ y.wrote = {} /\ y.fresh = call[c].fresh /\ y.board = None
  <2>1. y \in Calls
    BY <1>1, <1>2 DEF Calls
  <2>2. /\ y.at = "back" /\ y.by = call[c].by /\ y.op = call[c].op /\ ~y.ok
        /\ y.wrote = {} /\ y.fresh = call[c].fresh /\ y.board = None
    BY <1>1 DEF Calls
  <2> QED  BY <2>1, <2>2
<1>5. CASE Refuse(c)
  <2>1. call[c].at = "out" /\ Put(c, x) /\ UNCHANGED <<server, page, seen>>
    BY <1>5 DEF Refuse, k
  <2>2. ~call[c].ok /\ call[c].wrote = {}
    BY <2>1, <1>1 DEF Sound
  <2> HIDE DEF x
  <2>3. Goes1(c, x)
    BY <2>1, <1>1, <1>3, PutIs
  <2> QED  BY <2>1, <2>2, <2>3, <1>3
<1>6. CASE Lost(c)
  <2>1. call[c].at # "idle" /\ Put(c, y) /\ UNCHANGED <<server, page, seen>>
    BY <1>6 DEF Lost, k
  <2> HIDE DEF y
  <2>2. Goes1(c, y)
    BY <2>1, <1>1, <1>4, PutIs
  <2> QED  BY <2>1, <2>2, <1>4
<1> QED  BY <1>5, <1>6

LEMMA FailsKeeps ==
  ASSUME BoardInv, NEW c \in Slots, Refuse(c) \/ Lost(c)
  PROVE  BoardInv'
<1>1. UNCHANGED <<server, page, seen>>
  BY FailsIs
<1>2. PICK x \in Calls :
        /\ Goes1(c, x) /\ x.at = "back" /\ x.by = call[c].by /\ x.op = call[c].op
        /\ ~x.ok /\ x.wrote = {} /\ x.fresh = call[c].fresh /\ x.board \in {None, call[c].board}
  BY FailsIs
<1>3. ServerInv' /\ PageInv' /\ writes \in Nat /\ writes' = writes
  BY <1>1 DEF BoardInv, ServerInv, PageInv, server, page
<1>4. Sound(call[c], writes)
  BY DEF BoardInv, CallsInv
<1>5. Sound(x, writes')
  BY <1>2, <1>3, <1>4 DEF Sound, Creates, Replies, Told
<1>6. \A d \in Slots : Apart(x, call[d])
  BY <1>2, EmptyApart DEF Creates, Told
<1>7. CallsInv'
  BY <1>2, <1>3, <1>5, <1>6, CallsKept DEF BoardInv
<1> QED  BY <1>3, <1>7 DEF BoardInv

(* One commit of the server: the next number is the call's.                *)
LEMMA CommitIs ==
  ASSUME BoardInv, NEW c \in Slots, NEW p, NEW next \in {"between", "back"}, Commit(c, p, next)
  PROVE  /\ plan' = p /\ writes' = writes + 1 /\ version' = version + 1 /\ UNCHANGED <<role, page, seen>>
         /\ \E x \in Calls :
              /\ Goes1(c, x) /\ x.at = next /\ x.by = call[c].by /\ x.op = call[c].op /\ x.ok
              /\ x.job = (IF next = "back" THEN NoJob ELSE call[c].job)
              /\ x.wrote = {writes + 1} /\ x.fresh = call[c].fresh /\ x.board = call[c].board
<1>1. /\ call \in [Slots -> Calls] /\ call[c] \in Calls /\ version + 1 \in Nat /\ writes + 1 \in Nat
  BY DEF BoardInv, CallsInv, ServerInv
<1> DEFINE j == IF next = "back" THEN NoJob ELSE call[c].job
           W == {writes + 1}
           v == version + 1
           x == [call[c] EXCEPT !.at = next, !.ok = TRUE, !.version = v, !.match = None,
                                !.wrote = W, !.job = j]
<1>2. j \in Jobs /\ W \in SUBSET Nat /\ v \in Nat
  BY <1>1, CallParts, JobParts
<1>3. /\ plan' = p /\ writes' = writes + 1 /\ version' = version + 1 /\ UNCHANGED <<role, page, seen>>
  BY DEF Commit
<1>4. Put(c, x)
  <2>1. Put(c, [call[c] EXCEPT !.at = next, !.ok = TRUE, !.version = version', !.match = None,
                               !.wrote = {writes'}, !.job = IF next = "back" THEN NoJob ELSE @])
    BY DEF Commit
  <2> QED  BY <2>1, <1>3 DEF Put
<1> HIDE DEF j, W, v
<1>5. x \in Calls
  BY <1>1, <1>2 DEF Calls
<1>6. /\ x.at = next /\ x.by = call[c].by /\ x.op = call[c].op /\ x.ok /\ x.job = j
      /\ x.wrote = W /\ x.fresh = call[c].fresh /\ x.board = call[c].board
  BY <1>1 DEF Calls
<1> HIDE DEF x
<1>7. Goes1(c, x)
  BY <1>1, <1>4, <1>5, PutIs
<1> QED  BY <1>3, <1>5, <1>6, <1>7 DEF j, W

(* Any edit that commits a sound plan keeps the invariant.                 *)
LEMMA CommitKeeps ==
  ASSUME BoardInv, NEW c \in Slots, NEW p \in Plans, Placed(p), NEW next \in {"between", "back"},
         Commit(c, p, next), call[c].op \in Edits \ {"create"}, next = "between" => call[c].op = "assign"
  PROVE  BoardInv'
<1>1. plan' = p /\ writes' = writes + 1 /\ version' = version + 1 /\ UNCHANGED <<role, page, seen>>
  BY CommitIs
<1>2. PICK x \in Calls :
        /\ Goes1(c, x) /\ x.at = next /\ x.by = call[c].by /\ x.op = call[c].op /\ x.ok
        /\ x.wrote = {writes + 1} /\ x.board = call[c].board
  BY CommitIs
<1>3. writes \in Nat \ {0} /\ writes' \in Nat /\ writes <= writes' /\ 1 .. writes \subseteq 1 .. writes'
  BY <1>1 DEF BoardInv, ServerInv
<1>4. ServerInv' /\ PageInv'
  BY <1>1, <1>3 DEF BoardInv, ServerInv, PageInv, page
<1>5. Sound(call[c], writes) /\ "load" \notin Edits
  BY DEF BoardInv, CallsInv, Edits
<1>6. Sound(x, writes')
  <2>1. x.wrote \subseteq 2 .. writes'
    BY <1>1, <1>2, <1>3
  <2> QED  BY <2>1, <1>2, <1>5 DEF Sound, Creates, Replies, Told
<1>7. ASSUME NEW d \in Slots \ {c} PROVE Apart(x, call[d])
  <2>1. Sound(call[d], writes)
    BY DEF BoardInv, CallsInv
  <2>2. call[d].op # "load" => call[d].wrote \subseteq 2 .. writes
    BY <2>1 DEF Sound
  <2>3. call[d].op # "load" => x.wrote \cap call[d].wrote = {}
    BY <2>2, <1>2, <1>3
  <2> QED  BY <2>3, <1>2 DEF Apart, Creates
<1>8. CallsInv'
  BY <1>2, <1>3, <1>6, <1>7, CallsKept DEF BoardInv
<1> QED  BY <1>4, <1>8 DEF BoardInv

LEMMA HandlesIs ==
  ASSUME BoardInv, NEW c \in Slots, NEW op, Handles(c, op)
  PROVE  /\ call[c] \in Calls /\ call[c].at = "out" /\ call[c].op = op
         /\ call[c].job.day \in Columns /\ call[c].job.stops \in Seq(Stops)
         /\ call[c].job.order \in Seq(Stops)
         /\ There(c) => call[c].job.day \in ToSet(plan.days)
<1>1. call[c] \in Calls /\ call[c].at = "out" /\ call[c].op = op
  BY DEF BoardInv, CallsInv, Handles
<1>2. call[c].job \in Jobs
  BY <1>1, CallParts
<1>3. There(c) => call[c].job.day \in ToSet(plan.days)
  BY DEF There, Contains, ToSet
<1> QED  BY <1>1, <1>2, <1>3, JobParts

(* Stops that stay, or go to a day that is there, leave a plan sound.      *)
LEMMA DayIsKept ==
  ASSUME NEW p \in Plans, Placed(p), NEW q \in Plans, q.days = p.days,
         \A s \in Stops : q.day[s] = p.day[s] \/ q.day[s] \in ToSet(p.days) \cup {Unscheduled}
  PROVE  Placed(q)
BY DEF Placed

(* The handlers that end in touch_trip.                                    *)
LEMMA HandlersKeep ==
  ASSUME BoardInv, NEW c \in Slots,
         \/ AssignDay(c) \/ ServeUnassign(c) \/ ServeDelete(c) \/ ServeOptimize(c) \/ ServeDetail(c)
         \/ ServeArrival(c)
  PROVE  BoardInv'
<1> DEFINE j == call[c].job
<1>1. plan \in Plans /\ Placed(plan)
  BY DEF BoardInv, ServerInv
<1>2. {"assign", "unassign", "delete", "optimize", "detail", "time"} \subseteq Edits \ {"create"}
  BY DEF Edits
<1>3. CASE AssignDay(c)
  <2>1. Handles(c, "assign") /\ There(c) /\ Commit(c, Scheduled(plan, j.stops, j.day), "between")
    BY <1>3 DEF AssignDay
  <2>2. j.day \in Columns /\ j.stops \in Seq(Stops) /\ j.day \in ToSet(plan.days) /\ call[c].op = "assign"
    BY <2>1, HandlesIs
  <2>3. Scheduled(plan, j.stops, j.day) \in Plans /\ Placed(Scheduled(plan, j.stops, j.day))
    BY <1>1, <2>2, ScheduledIs, DayIsKept
  <2> QED  BY <1>2, <2>1, <2>2, <2>3, CommitKeeps
<1>4. CASE ServeUnassign(c)
  <2>1. /\ Handles(c, "unassign")
        /\ Commit(c, Loosened(plan, {s \in ToSet(j.stops) : plan.day[s] = j.day}), "back")
    BY <1>4 DEF ServeUnassign
  <2>2. call[c].op = "unassign"
    BY <2>1, HandlesIs
  <2>3. \A S : Loosened(plan, S) \in Plans /\ Placed(Loosened(plan, S))
    BY <1>1, LoosenedIs, DayIsKept
  <2> QED  BY <1>2, <2>1, <2>2, <2>3, CommitKeeps
<1>5. CASE ServeDelete(c)
  <2> DEFINE p == Loosened(plan, {s \in Stops : plan.day[s] = j.day})
             ds == RemoveFirst(plan.days, j.day)
             q == [p EXCEPT !.days = ds]
  <2>1. Handles(c, "delete") /\ Commit(c, [p EXCEPT !.days = RemoveFirst(p.days, j.day)], "back")
    BY <1>5 DEF ServeDelete
  <2>2. call[c].op = "delete"
    BY <2>1, HandlesIs
  <2>3. /\ p \in Plans /\ p.days = plan.days
        /\ \A s \in Stops : p.day[s] = IF plan.day[s] = j.day THEN Unscheduled ELSE plan.day[s]
    BY <1>1, LoosenedIs
  <2>4. plan.days \in Seq(Days) /\ IsInjective(plan.days)
    BY <1>1 DEF Plans, Placed
  <2>5. ds \in Seq(Days) /\ IsInjective(ds) /\ ToSet(ds) = ToSet(plan.days) \ {j.day}
    BY <2>4, Rest
  <2>6. Commit(c, q, "back")
    BY <2>1, <2>3
  <2> HIDE DEF ds, p
  <2>7. q \in Plans /\ q.days = ds /\ q.day = p.day
    BY <2>3, <2>5, DaysIs
  <2>8. Placed(q)
    BY <2>3, <2>5, <2>7, <1>1 DEF Placed
  <2> HIDE DEF q
  <2> QED  BY <1>2, <2>2, <2>6, <2>7, <2>8, CommitKeeps
<1>6. CASE ServeOptimize(c)
  <2> DEFINE stops == Column(plan, j.day)
  <2>1. Handles(c, "optimize") /\ \E best \in {stops, Reverse(stops)} : Commit(c, Ordered(plan, best), "back")
    BY <1>6 DEF ServeOptimize
  <2>2. call[c].op = "optimize"
    BY <2>1, HandlesIs
  <2>3. stops \in Seq(Stops)
    BY <1>1, ColumnIs
  <2> HIDE DEF stops
  <2>4. Reverse(stops) \in Seq(Stops)
    BY <2>3 DEF Reverse
  <2>5. PICK best \in Seq(Stops) : Commit(c, Ordered(plan, best), "back")
    BY <2>1, <2>3, <2>4
  <2>6. Ordered(plan, best) \in Plans /\ Placed(Ordered(plan, best))
    BY <1>1, OrderedIs, DayIsKept
  <2> QED  BY <1>2, <2>2, <2>5, <2>6, CommitKeeps
<1>7. CASE ServeDetail(c) \/ ServeArrival(c)
  <2>1. (Handles(c, "detail") \/ Handles(c, "time")) /\ Commit(c, plan, "back")
    BY <1>7 DEF ServeDetail, ServeArrival
  <2>2. call[c].op \in {"detail", "time"}
    BY <2>1, HandlesIs
  <2> QED  BY <1>1, <1>2, <2>1, <2>2, CommitKeeps
<1> QED  BY <1>3, <1>4, <1>5, <1>6, <1>7

(* A new day is one no call is about.                                      *)
LEMMA CreateIs ==
  ASSUME BoardInv, NEW c \in Slots, ServeCreate(c)
  PROVE  /\ call[c].at = "out" /\ call[c].op = "create"
         /\ writes' = writes + 1 /\ version' = version + 1 /\ UNCHANGED <<role, page, seen>>
         /\ \E d \in Days, x \in Calls :
              /\ d \notin ToSet(plan.days) /\ (shown # None => d \notin IdsOf(shown))
              /\ \A e \in Slots : call[e].job.day # d
              /\ plan' = [plan EXCEPT !.days = Append(@, d)]
              /\ Goes1(c, x) /\ x.at = "back" /\ x.by = call[c].by /\ x.op = "create" /\ x.ok
              /\ x.job.day = d /\ x.wrote = {writes + 1} /\ x.fresh = call[c].fresh
              /\ x.board = call[c].board
<1>1. /\ call \in [Slots -> Calls] /\ call[c] \in Calls /\ version + 1 \in Nat /\ writes + 1 \in Nat
      /\ call[c].at = "out" /\ call[c].op = "create"
  BY DEF BoardInv, CallsInv, ServerInv, ServeCreate, Handles
<1> DEFINE v == version + 1
           W == {writes + 1}
<1>2. PICK d \in Days \ (ToSet(plan.days) \cup {call[e].job.day : e \in Slots}) :
        /\ shown # None => d \notin IdsOf(shown)
        /\ plan' = [plan EXCEPT !.days = Append(@, d)]
        /\ Put(c, [call[c] EXCEPT !.at = "back", !.ok = TRUE, !.version = v, !.match = None,
                                  !.wrote = W, !.job.day = d])
  BY DEF ServeCreate
<1> DEFINE k == [call[c].job EXCEPT !.day = d]
           x == [call[c] EXCEPT !.at = "back", !.ok = TRUE, !.version = v, !.match = None,
                                !.wrote = W, !.job = k]
<1>3. v \in Nat /\ W \in SUBSET Nat /\ k \in Jobs /\ k.day = d
  <2>1. call[c].job \in Jobs
    BY <1>1, CallParts
  <2> QED  BY <1>1, <2>1 DEF Jobs, Columns
<1>4. Put(c, x)
  BY <1>2
<1> HIDE DEF v, W, k
<1>5. x \in Calls
  BY <1>1, <1>3 DEF Calls
<1>6. /\ x.at = "back" /\ x.by = call[c].by /\ x.op = call[c].op /\ x.ok /\ x.job = k
      /\ x.wrote = W /\ x.fresh = call[c].fresh /\ x.board = call[c].board
  BY <1>1 DEF Calls
<1> HIDE DEF x
<1>7. Goes1(c, x)
  BY <1>1, <1>4, <1>5, PutIs
<1>8. writes' = writes + 1 /\ version' = version + 1 /\ UNCHANGED <<role, page, seen>>
  BY DEF ServeCreate
<1> QED  BY <1>1, <1>2, <1>3, <1>5, <1>6, <1>7, <1>8 DEF W

(* A new day leaves a plan sound.                                          *)
LEMMA DayOfPlan ==
  ASSUME NEW p \in Plans, Placed(p), NEW d \in Days, d \notin ToSet(p.days), NEW q,
         q = [p EXCEPT !.days = Append(@, d)]
  PROVE  /\ q \in Plans /\ Placed(q) /\ q.days = Append(p.days, d) /\ q.day = p.day /\ q.pos = p.pos
         /\ ToSet(q.days) = ToSet(p.days) \cup {d}
<1> DEFINE ds == Append(p.days, d)
<1>1. p.days \in Seq(Days) /\ IsInjective(p.days)
  BY DEF Plans, Placed
<1>2. ds \in Seq(Days) /\ IsInjective(ds) /\ ToSet(ds) = ToSet(p.days) \cup {d}
  BY <1>1, Added
<1>3. q = [p EXCEPT !.days = ds]
  OBVIOUS
<1> HIDE DEF ds
<1>4. q \in Plans /\ q.days = ds /\ q.day = p.day /\ q.pos = p.pos
  <2>1. ds \in Seq(Days)
    BY <1>2
  <2> QED  BY <2>1, <1>3 DEF Plans
<1> QED  BY <1>2, <1>4 DEF ds, Placed

(* The handler that adds a day.                                            *)
LEMMA CreateKeeps ==
  ASSUME BoardInv, NEW c \in Slots, ServeCreate(c)
  PROVE  BoardInv'
<1>1. /\ call[c].at = "out" /\ call[c].op = "create"
      /\ writes' = writes + 1 /\ version' = version + 1 /\ UNCHANGED <<role, page, seen>>
  BY CreateIs
<1>2. PICK d \in Days, x \in Calls :
        /\ d \notin ToSet(plan.days) /\ (shown # None => d \notin IdsOf(shown))
        /\ \A e \in Slots : call[e].job.day # d
        /\ plan' = [plan EXCEPT !.days = Append(@, d)]
        /\ Goes1(c, x) /\ x.at = "back" /\ x.by = call[c].by /\ x.op = "create" /\ x.ok
        /\ x.job.day = d /\ x.wrote = {writes + 1} /\ x.board = call[c].board
  BY CreateIs
<1>3. writes \in Nat \ {0} /\ writes' \in Nat /\ writes <= writes' /\ 1 .. writes \subseteq 1 .. writes'
  BY <1>1 DEF BoardInv, ServerInv
<1>4. plan' \in Plans /\ Placed(plan')
  BY <1>2, DayOfPlan DEF BoardInv, ServerInv
<1>5. ServerInv' /\ PageInv'
  BY <1>1, <1>3, <1>4 DEF BoardInv, ServerInv, PageInv, page
<1>6. Sound(call[c], writes)
  BY DEF BoardInv, CallsInv
<1>7. Sound(x, writes')
  <2>1. writes + 1 \in 2 .. writes' /\ x.wrote = {writes + 1}
    BY <1>1, <1>2, <1>3
  <2>2. x.board # None => Complete(x.board) /\ Distinct(x.board)
    BY <1>2, <1>6 DEF Sound
  <2>3. x.by # "drop"
    BY <1>1, <1>2, <1>6 DEF Sound
  <2> QED  BY <2>1, <2>2, <2>3, <1>2 DEF Sound, Creates, Replies, Told
<1>8. ASSUME NEW e \in Slots \ {c} PROVE Apart(x, call[e])
  <2>1. call[e].op # "load" => call[e].wrote \subseteq 2 .. writes
    BY DEF BoardInv, CallsInv, Sound
  <2>2. call[e].op # "load" => x.wrote \cap call[e].wrote = {}
    BY <2>1, <1>2, <1>3
  <2> QED  BY <2>2, <1>2 DEF Apart
<1>9. CallsInv'
  BY <1>2, <1>3, <1>7, <1>8, CallsKept DEF BoardInv
<1> QED  BY <1>5, <1>9 DEF BoardInv

(* The second commit of assign.                                            *)
LEMMA OrderIs ==
  ASSUME BoardInv, NEW c \in Slots, AssignOrder(c)
  PROVE  /\ call[c].at = "between" /\ call[c].op = "assign" /\ call[c].ok /\ call[c].job \in Jobs
         /\ plan' = Ordered(plan, call[c].job.order) /\ writes' = writes + 1
         /\ UNCHANGED <<version, role, page, seen>>
         /\ \E x \in Calls :
              /\ Goes1(c, x) /\ x.at = "back" /\ x.by = call[c].by /\ x.op = "assign" /\ x.ok
              /\ x.wrote = call[c].wrote \cup {writes + 1} /\ x.fresh = call[c].fresh
              /\ x.board = call[c].board
<1>1. call \in [Slots -> Calls] /\ call[c] \in Calls /\ Sound(call[c], writes) /\ writes + 1 \in Nat
  BY DEF BoardInv, CallsInv, ServerInv
<1> DEFINE W == call[c].wrote \cup {writes + 1}
           x == [call[c] EXCEPT !.at = "back", !.job = NoJob, !.wrote = W]
<1>2. /\ call[c].at = "between" /\ plan' = Ordered(plan, call[c].job.order) /\ writes' = writes + 1
      /\ UNCHANGED <<version, role, page, seen>>
  BY DEF AssignOrder
<1>3. call[c].op = "assign" /\ call[c].ok /\ call[c].job \in Jobs /\ NoJob \in Jobs
  BY <1>1, <1>2, CallParts, JobParts DEF Sound
<1>4. Put(c, x)
  <2>1. Put(c, [call[c] EXCEPT !.at = "back", !.job = NoJob, !.wrote = @ \cup {writes'}])
    BY DEF AssignOrder
  <2> QED  BY <2>1, <1>2 DEF Put
<1>5. W \in SUBSET Nat
  BY <1>1, CallParts
<1> HIDE DEF W
<1>6. x \in Calls
  BY <1>1, <1>3, <1>5 DEF Calls
<1>7. /\ x.at = "back" /\ x.by = call[c].by /\ x.op = call[c].op /\ x.ok = call[c].ok
      /\ x.wrote = W /\ x.fresh = call[c].fresh /\ x.board = call[c].board
  BY <1>1 DEF Calls
<1> HIDE DEF x
<1>8. Goes1(c, x)
  BY <1>1, <1>4, <1>6, PutIs
<1> QED  BY <1>2, <1>3, <1>6, <1>7, <1>8 DEF W

LEMMA OrderKeeps ==
  ASSUME BoardInv, NEW c \in Slots, AssignOrder(c)
  PROVE  BoardInv'
<1>1. /\ call[c].at = "between" /\ call[c].op = "assign" /\ call[c].job \in Jobs
      /\ plan' = Ordered(plan, call[c].job.order) /\ writes' = writes + 1
      /\ UNCHANGED <<version, role, page, seen>>
  BY OrderIs
<1>2. PICK x \in Calls :
        /\ Goes1(c, x) /\ x.at = "back" /\ x.by = call[c].by /\ x.op = "assign" /\ x.ok
        /\ x.wrote = call[c].wrote \cup {writes + 1} /\ x.board = call[c].board
  BY OrderIs
<1>3. writes \in Nat \ {0} /\ writes' \in Nat /\ writes <= writes' /\ 1 .. writes \subseteq 1 .. writes'
  BY <1>1 DEF BoardInv, ServerInv
<1>4. plan' \in Plans /\ Placed(plan')
  <2>1. call[c].job.order \in Seq(Stops) /\ plan \in Plans /\ Placed(plan)
    BY <1>1, JobParts DEF BoardInv, ServerInv
  <2> QED  BY <2>1, <1>1, OrderedIs, DayIsKept
<1>5. ServerInv' /\ PageInv'
  BY <1>1, <1>3, <1>4 DEF BoardInv, ServerInv, PageInv, page
<1>6. Sound(call[c], writes) /\ call[c].wrote \subseteq 2 .. writes
  BY <1>1 DEF BoardInv, CallsInv, Sound
<1>7. Sound(x, writes')
  <2>1. x.wrote \subseteq 2 .. writes'
    BY <1>1, <1>2, <1>3, <1>6
  <2> QED  BY <2>1, <1>1, <1>2, <1>6 DEF Sound, Creates, Replies, Told
<1>8. ASSUME NEW e \in Slots \ {c} PROVE Apart(x, call[e])
  <2>1. call[e].op # "load" => call[e].wrote \subseteq 2 .. writes
    BY DEF BoardInv, CallsInv, Sound
  <2>2. call[e].op # "load" => call[c].wrote \cap call[e].wrote = {}
    BY <1>1 DEF BoardInv, CallsInv, Apart
  <2>3. call[e].op # "load" => x.wrote \cap call[e].wrote = {}
    BY <2>1, <2>2, <1>2, <1>3
  <2> QED  BY <2>3, <1>2 DEF Apart, Creates
<1>9. CallsInv'
  BY <1>2, <1>3, <1>7, <1>8, CallsKept DEF BoardInv
<1> QED  BY <1>5, <1>9 DEF BoardInv

(* The board is read from the plan of one moment.                          *)
LEMMA LoadIs ==
  ASSUME BoardInv, NEW c \in Slots, ServeLoad(c)
  PROVE  /\ call[c].at = "out" /\ call[c].op = "load" /\ UNCHANGED <<server, page, seen>>
         /\ \E x \in Calls :
              /\ Goes1(c, x) /\ x.at = "back" /\ x.by = call[c].by /\ x.op = "load" /\ x.ok
              /\ x.wrote = 1 .. writes /\ x.fresh = call[c].fresh /\ x.board = BoardOf(plan)
<1>1. /\ call \in [Slots -> Calls] /\ call[c] \in Calls /\ writes \in Nat
      /\ call[c].at = "out" /\ call[c].op = "load" /\ UNCHANGED <<server, page, seen>>
  BY DEF BoardInv, CallsInv, ServerInv, ServeLoad, Handles
<1> DEFINE b == BoardOf(plan)
           W == 1 .. writes
           x == [call[c] EXCEPT !.at = "back", !.ok = TRUE, !.board = b, !.wrote = W]
<1>2. Put(c, x)
  BY DEF ServeLoad
<1>3. W \in SUBSET Nat /\ b \in Boards
  BY <1>1, BoardOfIs DEF BoardInv, ServerInv
<1> HIDE DEF b, W
<1>4. x \in Calls
  BY <1>1, <1>3 DEF Calls
<1>5. /\ x.at = "back" /\ x.by = call[c].by /\ x.op = call[c].op /\ x.ok
      /\ x.wrote = W /\ x.fresh = call[c].fresh /\ x.board = b
  BY <1>1 DEF Calls
<1> HIDE DEF x
<1>6. Goes1(c, x)
  BY <1>1, <1>2, <1>4, PutIs
<1> QED  BY <1>1, <1>4, <1>5, <1>6 DEF b, W

LEMMA LoadKeeps ==
  ASSUME BoardInv, NEW c \in Slots, ServeLoad(c)
  PROVE  BoardInv'
<1>1. call[c].at = "out" /\ call[c].op = "load" /\ UNCHANGED <<server, page, seen>>
  BY LoadIs
<1>2. PICK x \in Calls :
        /\ Goes1(c, x) /\ x.at = "back" /\ x.by = call[c].by /\ x.op = "load" /\ x.ok
        /\ x.wrote = 1 .. writes /\ x.board = BoardOf(plan)
  BY LoadIs
<1>3. ServerInv' /\ PageInv' /\ writes \in Nat \ {0} /\ writes' = writes
  BY <1>1 DEF BoardInv, ServerInv, PageInv, server, page
<1>4. BoardOf(plan) \in Boards /\ Complete(BoardOf(plan)) /\ Distinct(BoardOf(plan))
  BY BoardOfIs DEF BoardInv, ServerInv
<1>5. BoardOf(plan) # None /\ writes \in 1 .. writes
  BY <1>3, <1>4, BoardParts
<1>6. Sound(x, writes')
  BY <1>2, <1>3, <1>4, <1>5 DEF Sound, Creates, Replies, Told
<1>7. \A d \in Slots : Apart(x, call[d])
  BY <1>2 DEF Apart, Creates
<1>8. CallsInv'
  BY <1>2, <1>3, <1>6, <1>7, CallsKept DEF BoardInv
<1> QED  BY <1>3, <1>8 DEF BoardInv

(* The others edit the trip.                                               *)
LEMMA OtherEditIs ==
  ASSUME BoardInv, OtherEdit
  PROVE  /\ plan' \in Plans /\ Placed(plan') /\ plan'.days = plan.days
         /\ version' = version + 1 /\ writes' = writes + 1 /\ UNCHANGED <<role, page, call, seen>>
<1>1. plan \in Plans /\ Placed(plan)
  BY DEF BoardInv, ServerInv
<1>2. PICK s \in Others, d \in ToSet(plan.days) \cup {Unscheduled} :
        plan' = IF d = Unscheduled THEN Loosened(plan, {s})
                ELSE Ordered(Scheduled(plan, <<s>>, d), Append(Column(plan, d), s))
  BY DEF OtherEdit
<1>3. CASE d = Unscheduled
  <2>1. plan' \in Plans /\ Placed(plan') /\ plan'.days = plan.days
    BY <1>1, <1>2, <1>3, LoosenedIs, DayIsKept
  <2> QED  BY <2>1 DEF OtherEdit
<1>4. CASE d # Unscheduled
  <2> DEFINE one == <<s>>
             p == Scheduled(plan, one, d)
             q == Append(Column(plan, d), s)
  <2>1. s \in Stops /\ one \in Seq(Stops) /\ d \in ToSet(plan.days) /\ d \in Columns
    <3>1. s \in Stops
      BY BoardAssumption
    <3>2. d \in ToSet(plan.days) /\ plan.days \in Seq(Days)
      BY <1>1, <1>4 DEF Plans
    <3>3. d \in Days
      BY <3>2 DEF ToSet
    <3> QED  BY <3>1, <3>2, <3>3 DEF Columns
  <2>2. q \in Seq(Stops)
    BY <1>1, <2>1, ColumnIs, AppendProperties
  <2>3. plan' = Ordered(p, q)
    BY <1>2, <1>4
  <2> HIDE DEF one, q
  <2>4. p \in Plans /\ Placed(p) /\ p.days = plan.days
    <3>1. /\ p \in Plans /\ p.days = plan.days
          /\ \A t \in Stops : p.day[t] = IF t \in ToSet(one) THEN d ELSE plan.day[t]
      BY <1>1, <2>1, ScheduledIs
    <3> HIDE DEF p
    <3> QED  BY <1>1, <2>1, <3>1, DayIsKept
  <2> HIDE DEF p
  <2>5. plan' \in Plans /\ Placed(plan') /\ plan'.days = plan.days
    <3>1. plan' \in Plans /\ plan'.days = p.days /\ plan'.day = p.day
      BY <2>2, <2>3, <2>4, OrderedIs
    <3> QED  BY <2>4, <3>1, DayIsKept
  <2> QED  BY <2>5 DEF OtherEdit
<1> QED  BY <1>3, <1>4

LEMMA OtherEditKeeps ==
  ASSUME BoardInv, OtherEdit
  PROVE  BoardInv'
<1>1. /\ plan' \in Plans /\ Placed(plan')
      /\ version' = version + 1 /\ writes' = writes + 1 /\ UNCHANGED <<role, page, call, seen>>
  BY OtherEditIs
<1>2. writes \in Nat \ {0} /\ writes' \in Nat /\ writes <= writes' /\ 1 .. writes \subseteq 1 .. writes'
  BY <1>1 DEF BoardInv, ServerInv
<1>3. ServerInv' /\ PageInv'
  BY <1>1, <1>2 DEF BoardInv, ServerInv, PageInv, page
<1>4. \A c \in Slots : Sound(call[c], writes')
  BY <1>2, SoundGrows DEF BoardInv, CallsInv
<1>5. CallsInv'
  BY <1>1, <1>4 DEF BoardInv, CallsInv
<1> QED  BY <1>3, <1>5 DEF BoardInv

(* The page learns its role.                                               *)
LEMMA TripKeeps ==
  ASSUME BoardInv, TripAnswered
  PROVE  BoardInv'
<1>1. UNCHANGED <<server, view, shown, drag, optimizing, call, seen>> /\ known' = version
  BY DEF TripAnswered
<1>2. version \in Nat
  BY DEF BoardInv, ServerInv
<1>3. ServerInv' /\ PageInv' /\ CallsInv'
  BY <1>1, <1>2 DEF BoardInv, ServerInv, PageInv, CallsInv, server
<1> QED  BY <1>3 DEF BoardInv

-----------------------------------------------------------------------------
(* The answers keep the invariant.                                         *)

(* What the steps of the handlers have in common.                          *)
LEMMA NotedIs ==
  ASSUME BoardInv, NEW c \in Slots, Noted(c)
  PROVE  known' \in Nat \cup {None}
<1>1. call[c] \in Calls /\ known \in Nat \cup {None}
  BY DEF BoardInv, CallsInv, PageInv
<1> QED  BY <1>1, CallParts DEF Noted

LEMMA EndsIs ==
  ASSUME BoardInv, NEW c \in Slots, Ends(c)
  PROVE  Goes1(c, NoCall)
BY NoCallIs, PutIs DEF Ends, BoardInv, CallsInv

LEMMA ReloadsIs ==
  ASSUME BoardInv, NEW c \in Slots, Reloads(c)
  PROVE  \E x \in Calls, by \in {call[c].by, "open"} :
           Goes1(c, x) /\ Asked(x, by, "load", NoJob) /\ (call[c].by = "drop" => by = "drop")
<1> DEFINE by == IF call[c].by \in Awaited THEN call[c].by ELSE "open"
           x == Sent(by, "load", NoJob, None)
<1>1. call \in [Slots -> Calls] /\ call[c].by \in Handlers /\ "open" \in Handlers /\ "drop" \in Awaited
  BY CallParts DEF BoardInv, CallsInv, Handlers, Awaited
<1>2. x \in Calls /\ Asked(x, by, "load", NoJob)
  <2>1. by \in Handlers /\ NoJob \in Jobs /\ <<>> \in Seq(Jobs)
    BY <1>1, JobParts
  <2> QED  BY <2>1, SentIs
<1>3. Put(c, x)
  BY DEF Reloads
<1> HIDE DEF x
<1>4. Goes1(c, x)
  BY <1>1, <1>2, <1>3, PutIs
<1> QED  BY <1>1, <1>2, <1>4

LEMMA GoesIs ==
  ASSUME BoardInv, NEW c \in Slots, NEW op \in Edits, NEW job \in Jobs, NEW todo \in Seq(Jobs),
         Noted(c), Goes(c, op, job, todo)
  PROVE  \E x \in Calls : Goes1(c, x) /\ Asked(x, call[c].by, op, job)
<1> DEFINE x == [Sent(call[c].by, op, job, known') EXCEPT !.todo = todo]
<1>1. call \in [Slots -> Calls] /\ call[c].by \in Handlers /\ known' \in Nat \cup {None}
  BY CallParts, NotedIs DEF BoardInv, CallsInv
<1>2. x \in Calls /\ Asked(x, call[c].by, op, job)
  BY <1>1, SentIs
<1>3. Put(c, x)
  BY DEF Goes
<1> HIDE DEF x
<1>4. Goes1(c, x)
  BY <1>1, <1>2, <1>3, PutIs
<1> QED  BY <1>2, <1>4

(* After an answer the handler has ended or waits for another one.         *)
Next1(c, x) ==
  /\ x \in Calls /\ Goes1(c, x) /\ x.by \in {call[c].by, "open"}
  /\ x = NoCall \/ \E op, job : Asked(x, x.by, op, job) /\ (x.by = "drop" => op = "load")

LEMMA Next1Keeps ==
  ASSUME BoardInv, UNCHANGED server, NEW c \in Slots, NEW x, Next1(c, x)
  PROVE  ServerInv' /\ CallsInv'
<1>1. ServerInv' /\ writes \in Nat /\ writes' = writes /\ x \in Calls /\ Goes1(c, x)
  BY DEF BoardInv, ServerInv, server, Next1
<1>2. Sound(x, writes') /\ ~Creates(x) /\ x.wrote = {}
  BY IdleSound, AskedSound DEF Next1
<1>3. \A d \in Slots : Apart(x, call[d])
  BY <1>2, EmptyApart
<1>4. CallsInv'
  BY <1>1, <1>2, <1>3, CallsKept DEF BoardInv
<1> QED  BY <1>1, <1>4

(* The answers that leave the board as it is.                              *)
Silent(c) ==
  \/ MenuAnswered(c) \/ DistributeAnswered(c) \/ DropAnswered(c) \/ DeleteAnswered(c)
  \/ OptimizeAnswered(c) \/ DetailAnswered(c) \/ ArrivalAnswered(c)

LEMMA ReloadsNext ==
  ASSUME BoardInv, NEW c \in Slots, Ends(c) \/ Reloads(c)
  PROVE  \E x : Next1(c, x)
<1>1. CASE Ends(c)
  <2>1. Goes1(c, NoCall) /\ NoCall \in Calls /\ NoCall.by = "open"
    BY <1>1, EndsIs, NoCallIs
  <2> QED  BY <2>1 DEF Next1
<1>2. CASE Reloads(c)
  <2>1. PICK x \in Calls, by \in {call[c].by, "open"} : Goes1(c, x) /\ Asked(x, by, "load", NoJob)
    BY <1>2, ReloadsIs
  <2>2. x.by = by
    BY <2>1 DEF Asked
  <2> QED  BY <2>1, <2>2 DEF Next1
<1> QED  BY <1>1, <1>2

(* Answers that leave the board as it is.                                  *)
LEMMA SilentIs ==
  ASSUME BoardInv, NEW c \in Slots, Silent(c)
  PROVE  /\ call[c].at = "back" /\ call[c].op \in Edits
         /\ UNCHANGED <<server, view, shown, drag>> /\ known' \in Nat \cup {None}
         /\ optimizing' \in {optimizing, None}
         /\ \/ seen' = seen
            \/ seen' = With(call[c].wrote) /\ ~DistributeAnswered(c)
         /\ \E x : Next1(c, x)
<1>1. {"assign", "unassign", "delete", "optimize", "detail", "time"} \subseteq Edits
  BY DEF Edits
<1>2. CASE MenuAnswered(c)
  <2>1. Noted(c) /\ Reloads(c) /\ call[c].at = "back" /\ call[c].op \in {"assign", "unassign"}
        /\ UNCHANGED <<server, view, shown, drag, optimizing, seen>>
    BY <1>2 DEF MenuAnswered, Back, StillBoard
  <2> QED  BY <2>1, <1>1, NotedIs, ReloadsNext
<1>3. CASE DistributeAnswered(c)
  <2>1. Noted(c) /\ call[c].at = "back" /\ call[c].by = "distribute" /\ call[c].op = "assign"
        /\ UNCHANGED <<server, view, shown, drag, optimizing, seen>>
    BY <1>3 DEF DistributeAnswered, Back, StillBoard
  <2>2. \E x : Next1(c, x)
    <3>1. CASE Reloads(c)
      BY <3>1, ReloadsNext
    <3>2. CASE call[c].todo # <<>> /\ Goes(c, "assign", Head(call[c].todo), Tail(call[c].todo))
      <4>1. call[c].todo \in Seq(Jobs)
        BY CallParts DEF BoardInv, CallsInv
      <4>2. Head(call[c].todo) \in Jobs /\ Tail(call[c].todo) \in Seq(Jobs)
        BY <3>2, <4>1, HeadTailProperties
      <4>3. PICK x \in Calls : Goes1(c, x) /\ Asked(x, call[c].by, "assign", Head(call[c].todo))
        BY <1>1, <2>1, <3>2, <4>2, GoesIs
      <4>4. x.by = "distribute"
        BY <2>1, <4>3 DEF Asked
      <4> QED  BY <2>1, <4>3, <4>4 DEF Next1
    <3> QED  BY <1>3, <3>1, <3>2 DEF DistributeAnswered
  <2> QED  BY <2>1, <2>2, <1>1, NotedIs
<1>4. CASE DropAnswered(c)
  <2>1. Noted(c) /\ (Ends(c) \/ Reloads(c)) /\ call[c].at = "back" /\ call[c].op \in {"assign", "unassign"}
        /\ call[c].by = "drop"
        /\ UNCHANGED <<server, view, shown, drag, optimizing>> /\ seen' \in {seen, With(call[c].wrote)}
    BY <1>4 DEF DropAnswered, Back
  <2> QED  BY <2>1, <1>1, NotedIs, ReloadsNext DEF DistributeAnswered, Back
<1>5. CASE DeleteAnswered(c)
  <2>1. Noted(c) /\ (Ends(c) \/ Reloads(c)) /\ call[c].at = "back" /\ call[c].op = "delete"
        /\ UNCHANGED <<server, view, shown, drag, optimizing, seen>>
    BY <1>5 DEF DeleteAnswered, Back, StillBoard
  <2> QED  BY <2>1, <1>1, NotedIs, ReloadsNext
<1>6. CASE OptimizeAnswered(c)
  <2>1. Noted(c) /\ (Ends(c) \/ Reloads(c)) /\ call[c].at = "back" /\ call[c].op = "optimize"
        /\ UNCHANGED <<server, view, shown, drag, seen>> /\ optimizing' \in {optimizing, None}
    BY <1>6 DEF OptimizeAnswered, Back, StillBoard, Quietly
  <2> QED  BY <2>1, <1>1, NotedIs, ReloadsNext
<1>7. CASE DetailAnswered(c)
  <2>1. Noted(c) /\ Ends(c) /\ call[c].at = "back" /\ call[c].op = "detail"
        /\ UNCHANGED <<server, view, shown, drag, optimizing>> /\ seen' = With(call[c].wrote)
    BY <1>7 DEF DetailAnswered, Back
  <2> QED  BY <2>1, <1>1, NotedIs, ReloadsNext DEF DistributeAnswered, Back
<1>8. CASE ArrivalAnswered(c)
  <2>1. Noted(c) /\ (Ends(c) \/ Reloads(c)) /\ call[c].at = "back" /\ call[c].op = "time"
        /\ UNCHANGED <<server, view, shown, drag, optimizing>> /\ seen' = With(call[c].wrote)
    BY <1>8 DEF ArrivalAnswered, Back
  <2> QED  BY <2>1, <1>1, NotedIs, ReloadsNext DEF DistributeAnswered, Back
<1> QED  BY <1>2, <1>3, <1>4, <1>5, <1>6, <1>7, <1>8 DEF Silent

LEMMA WithIs ==
  ASSUME BoardInv, NEW c \in Slots, call[c].op # "load"
  PROVE  /\ With(call[c].wrote) \in (SUBSET Nat) \cup {None}
         /\ With(call[c].wrote) # None => With(call[c].wrote) \subseteq 1 .. writes
<1>1. call[c].wrote \in SUBSET Nat /\ call[c].wrote \subseteq 2 .. writes /\ writes \in Nat
  BY CallParts DEF BoardInv, CallsInv, ServerInv, Sound
<1>2. 2 .. writes \subseteq 1 .. writes
  BY <1>1
<1>3. seen \in (SUBSET Nat) \cup {None} /\ (seen # None => seen \subseteq 1 .. writes)
  BY DEF BoardInv, PageInv
<1> QED  BY <1>1, <1>2, <1>3 DEF With

LEMMA SilentKeeps ==
  ASSUME BoardInv, NEW c \in Slots, Silent(c)
  PROVE  BoardInv'
<1>1. /\ UNCHANGED <<server, view, shown, drag>> /\ known' \in Nat \cup {None}
      /\ optimizing' \in {optimizing, None} /\ seen' \in {seen, With(call[c].wrote)}
      /\ call[c].op # "load"
  BY SilentIs DEF Edits
<1>2. ServerInv' /\ CallsInv'
  BY <1>1, SilentIs, Next1Keeps
<1>3. PageInv'
  BY <1>1, WithIs DEF BoardInv, PageInv, server
<1> QED  BY <1>2, <1>3 DEF BoardInv

(* The day that was added is shown.                                        *)
LEMMA CreatedIs ==
  ASSUME BoardInv, NEW c \in Slots, CreateAnswered(c)
  PROVE  /\ call[c].at = "back" /\ call[c].op = "create" /\ known' \in Nat \cup {None}
         /\ UNCHANGED <<server, view, drag, optimizing>>
         /\ IF call[c].ok /\ shown # None
            THEN /\ Creates(call[c]) /\ call[c].job.day \in Days
                 /\ shown' = [shown EXCEPT !.days = Append(@, [id |-> call[c].job.day, stops |-> <<>>])]
                 /\ seen' = IF seen # None /\ call[c].wrote \subseteq seen THEN None
                            ELSE With(call[c].wrote)
            ELSE UNCHANGED <<shown, seen>>
         /\ \E x : Next1(c, x)
<1>1. /\ call[c].at = "back" /\ call[c].op = "create" /\ Noted(c)
      /\ UNCHANGED <<server, view, drag, optimizing>>
  BY DEF CreateAnswered
<1>2. call[c] \in Calls /\ Sound(call[c], writes)
  BY DEF BoardInv, CallsInv
<1>3. IF call[c].ok /\ shown # None
      THEN /\ Creates(call[c]) /\ call[c].job.day \in Days
           /\ shown' = [shown EXCEPT !.days = Append(@, [id |-> call[c].job.day, stops |-> <<>>])]
           /\ seen' = IF seen # None /\ call[c].wrote \subseteq seen THEN None
                      ELSE With(call[c].wrote)
      ELSE UNCHANGED <<shown, seen>>
  BY <1>1, <1>2 DEF CreateAnswered, Creates, Told, Sound
<1>4. \E x : Next1(c, x)
  <2>1. CASE Ends(c)
    BY <2>1, ReloadsNext
  <2>2. CASE Goes(c, "assign", call[c].job, <<>>)
    <3>1. "assign" \in Edits /\ call[c].job \in Jobs /\ <<>> \in Seq(Jobs)
      BY <1>2, CallParts DEF Edits
    <3>2. PICK x \in Calls : Goes1(c, x) /\ Asked(x, call[c].by, "assign", call[c].job)
      BY <1>1, <2>2, <3>1, GoesIs
    <3>3. x.by # "drop"
      BY <1>1, <1>2, <3>2 DEF Asked, Sound
    <3>4. x.by = call[c].by
      BY <3>2 DEF Asked
    <3> QED  BY <3>2, <3>3, <3>4 DEF Next1
  <2> QED  BY <2>1, <2>2 DEF CreateAnswered
<1> QED  BY <1>1, <1>3, <1>4, NotedIs

(* A day is added to the board when its creation is answered.              *)
LEMMA CreatedKeeps ==
  ASSUME BoardInv, NEW c \in Slots, CreateAnswered(c)
  PROVE  BoardInv'
<1>1. /\ call[c].op = "create" /\ known' \in Nat \cup {None}
      /\ UNCHANGED <<server, view, drag, optimizing>>
  BY CreatedIs
<1>2. ServerInv' /\ CallsInv'
  BY <1>1, CreatedIs, Next1Keeps
<1>3. CASE call[c].ok /\ shown # None
  <2>1. /\ call[c].job.day \in Days
        /\ shown' = [shown EXCEPT !.days = Append(@, [id |-> call[c].job.day, stops |-> <<>>])]
        /\ seen' \in {None, With(call[c].wrote)}
    BY <1>3, CreatedIs
  <2>2. shown \in Boards /\ Complete(shown)
    BY <1>3 DEF BoardInv, PageInv
  <2>3. shown' \in Boards /\ Complete(shown') /\ shown' # None
    <3>1. shown' \in Boards /\ Complete(shown')
      BY <2>1, <2>2, DayAppended
    <3> QED  BY <3>1, BoardParts
  <2> QED  BY <1>1, <1>2, <1>3, <2>1, <2>3, WithIs DEF BoardInv, PageInv, server
<1>4. CASE ~(call[c].ok /\ shown # None)
  <2>1. UNCHANGED <<shown, seen>>
    BY <1>4, CreatedIs
  <2> QED  BY <1>1, <1>2, <2>1 DEF BoardInv, PageInv, server
<1> QED  BY <1>3, <1>4

(* A call that is still under way when a board comes in.                   *)
SameBut(x, y) ==
  /\ y.at = x.at /\ y.by = x.by /\ y.op = x.op /\ y.job = x.job /\ y.ok = x.ok
  /\ y.board = x.board /\ y.wrote = x.wrote

LEMMA FadedIs ==
  ASSUME NEW x \in Calls, NEW f \in BOOLEAN, NEW y, y = [x EXCEPT !.fresh = f]
  PROVE  y \in Calls /\ SameBut(x, y) /\ y.fresh = f
<1>1. y \in Calls
  BY DEF Calls
<1>2. SameBut(x, y) /\ y.fresh = f
  BY DEF Calls, SameBut
<1> QED  BY <1>1, <1>2

(* A board comes in.                                                       *)
LEMMA LoadedIs ==
  ASSUME BoardInv, NEW c \in Slots, LoadAnswered(c)
  PROVE  /\ call[c].at = "back" /\ call[c].op = "load" /\ known' = known /\ UNCHANGED server
         /\ IF call[c].ok
            THEN /\ shown' = call[c].board /\ seen' = call[c].wrote /\ view' = "board"
                 /\ shown' \in Boards /\ Complete(shown') /\ Distinct(shown')
                 /\ \E n \in 1 .. writes : seen' = 1 .. n
            ELSE view' = "error" /\ UNCHANGED <<shown, seen>>
         /\ IF drag # None /\ call[c].ok
            THEN /\ drag' \in Drags /\ drag'.stop = drag.stop /\ ~drag'.moved
                 /\ drag'.home = Container(shown', drag.stop)
            ELSE drag' = drag
         /\ call' \in [Slots -> Calls] /\ call'[c] = NoCall
         /\ \A d \in Slots \ {c} :
              SameBut(call[d], call'[d]) /\ call'[d].fresh = (call[d].fresh /\ ~call[c].ok)
         /\ optimizing' \in {optimizing, None}
<1>1. /\ call[c].at = "back" /\ call[c].op = "load" /\ known' = known /\ UNCHANGED server
      /\ optimizing' \in {optimizing, None}
  BY DEF LoadAnswered, Noted
<1>2. call \in [Slots -> Calls] /\ call[c] \in Calls /\ Sound(call[c], writes) /\ call[c].ok \in BOOLEAN
  BY CallParts DEF BoardInv, CallsInv
<1>3. IF call[c].ok
      THEN /\ shown' = call[c].board /\ seen' = call[c].wrote /\ view' = "board"
           /\ shown' \in Boards /\ Complete(shown') /\ Distinct(shown')
           /\ \E n \in 1 .. writes : seen' = 1 .. n
      ELSE view' = "error" /\ UNCHANGED <<shown, seen>>
  <2>1. CASE call[c].ok
    <3>1. shown' = call[c].board /\ seen' = call[c].wrote /\ view' = "board"
      BY <2>1 DEF LoadAnswered
    <3>2. call[c].board \in Boards \cup {None} /\ Replies(call[c])
      BY <1>1, <1>2, <2>1, CallParts DEF Replies, Told
    <3> QED  BY <2>1, <3>1, <3>2, <1>2 DEF Sound
  <2>2. CASE ~call[c].ok
    BY <2>2 DEF LoadAnswered
  <2> QED  BY <2>1, <2>2
<1>4. IF drag # None /\ call[c].ok
      THEN /\ drag' \in Drags /\ drag'.stop = drag.stop /\ ~drag'.moved
           /\ drag'.home = Container(shown', drag.stop)
      ELSE drag' = drag
  <2>1. CASE drag # None /\ call[c].ok
    <3> DEFINE h == Container(shown', drag.stop)
    <3>1. drag \in Drags
      BY <2>1 DEF BoardInv, PageInv
    <3>2. h \in Columns
      BY <2>1, <3>1, <1>3, Contained, DragParts
    <3>3. drag' = [drag EXCEPT !.moved = FALSE, !.home = h]
      BY <2>1, <1>3 DEF LoadAnswered
    <3> HIDE DEF h
    <3>4. drag' \in Drags /\ drag'.stop = drag.stop /\ ~drag'.moved /\ drag'.home = h
      BY <3>1, <3>2, <3>3 DEF Drags
    <3> QED  BY <2>1, <3>4 DEF h
  <2>2. CASE ~(drag # None /\ call[c].ok)
    BY <2>2 DEF LoadAnswered
  <2> QED  BY <2>1, <2>2
<1> DEFINE after(d) == IF d = c THEN NoCall ELSE [call[d] EXCEPT !.fresh = @ /\ ~call[c].ok]
<1>5. call' = [d \in Slots |-> after(d)]
  BY DEF LoadAnswered
<1>6. ASSUME NEW d \in Slots \ {c}
      PROVE  after(d) \in Calls /\ SameBut(call[d], after(d)) /\ after(d).fresh = (call[d].fresh /\ ~call[c].ok)
  <2> DEFINE f == call[d].fresh /\ ~call[c].ok
  <2>1. call[d] \in Calls /\ f \in BOOLEAN
    BY <1>2, CallParts
  <2>2. after(d) = [call[d] EXCEPT !.fresh = f]
    OBVIOUS
  <2> HIDE DEF f, after
  <2>3. after(d) \in Calls /\ SameBut(call[d], after(d)) /\ after(d).fresh = f
    BY <2>1, <2>2, FadedIs
  <2> QED  BY <2>3 DEF f
<1>7. after(c) = NoCall /\ NoCall \in Calls
  BY NoCallIs
<1> HIDE DEF after
<1>8. call' \in [Slots -> Calls] /\ \A d \in Slots : call'[d] = after(d)
  BY <1>5, <1>6, <1>7
<1> QED  BY <1>1, <1>3, <1>4, <1>6, <1>7, <1>8

LEMMA LoadedKeeps ==
  ASSUME BoardInv, view # "error", NEW c \in Slots, LoadAnswered(c)
  PROVE  BoardInv'
<1>1. /\ call[c].at = "back" /\ call[c].op = "load" /\ known' = known /\ UNCHANGED server
      /\ call' \in [Slots -> Calls] /\ call'[c] = NoCall
      /\ \A d \in Slots \ {c} : SameBut(call[d], call'[d])
      /\ optimizing' \in {optimizing, None}
  BY LoadedIs
<1>2. ServerInv' /\ writes' = writes /\ writes \in Nat
  BY <1>1 DEF BoardInv, ServerInv, server
<1>3. ASSUME call[c].ok PROVE PageInv'
  <2>1. /\ view' = "board" /\ shown' \in Boards /\ Complete(shown') /\ shown' # None
        /\ drag' \in Drags \cup {None}
        /\ \E n \in 1 .. writes : seen' = 1 .. n
    BY <1>3, LoadedIs, BoardParts DEF BoardInv, PageInv
  <2>2. seen' \in SUBSET Nat /\ seen' \subseteq 1 .. writes
    BY <2>1, <1>2
  <2> QED  BY <1>1, <1>2, <2>1, <2>2 DEF BoardInv, PageInv
<1>4. ASSUME ~call[c].ok PROVE PageInv'
  <2>1. view' = "error" /\ UNCHANGED <<shown, seen, drag>>
    BY <1>4, LoadedIs
  <2> QED  BY <1>1, <1>2, <2>1 DEF BoardInv, PageInv
<1>5. ASSUME NEW d \in Slots
      PROVE  /\ Sound(call'[d], writes)
             /\ d # c => SameBut(call[d], call'[d])
             /\ d = c => call'[d].wrote = {} /\ ~Creates(call'[d])
  <2>1. CASE d = c
    BY <2>1, <1>1, IdleSound
  <2>2. CASE d # c
    <3>1. SameBut(call[d], call'[d]) /\ Sound(call[d], writes)
      BY <1>1, <2>2 DEF BoardInv, CallsInv
    <3> QED  BY <2>2, <3>1 DEF SameBut, Sound, Replies, Creates, Told
  <2> QED  BY <2>1, <2>2
<1>6. ASSUME NEW d \in Slots, NEW e \in Slots, d # e PROVE Apart(call'[d], call'[e])
  <2>1. CASE d = c \/ e = c
    BY <2>1, <1>5 DEF Apart
  <2>2. CASE d # c /\ e # c
    <3>1. SameBut(call[d], call'[d]) /\ SameBut(call[e], call'[e]) /\ Apart(call[d], call[e])
      BY <2>2, <1>5, <1>6 DEF BoardInv, CallsInv
    <3> QED  BY <3>1 DEF SameBut, Apart, Creates, Told
  <2> QED  BY <2>1, <2>2
<1>7. \A d \in Slots : Sound(call[d], writes)'
  BY <1>2, <1>5
<1>8. \A d, e \in Slots : d # e => Apart(call[d], call[e])'
  BY <1>6
<1>9. CallsInv'
  BY <1>1, <1>7, <1>8 DEF CallsInv
<1> QED  BY <1>2, <1>3, <1>4, <1>9, CallParts DEF BoardInv

-----------------------------------------------------------------------------
(* The theorems.                                                           *)

LEMMA InitKeeps ==
  ASSUME Init
  PROVE  BoardInv
<1>1. /\ version = 1 /\ writes = 1 /\ plan \in FirstPlans /\ role \in Roles
      /\ view = "loading" /\ shown = None /\ known = None /\ drag = None /\ optimizing = None /\ seen = {}
  BY DEF Init
<1>2. ServerInv
  BY <1>1, BoardAssumption DEF ServerInv
<1>3. PageInv
  BY <1>1 DEF PageInv
<1> DEFINE x == [NoCall EXCEPT !.at = "out"]
<1>4. PICK load \in Slots : call = [c \in Slots |-> IF c = load THEN x ELSE NoCall]
  BY DEF Init
<1>5. /\ x \in Calls /\ x.at = "out" /\ x.op = "load" /\ x.by = "open" /\ ~x.ok /\ x.board = None
      /\ x.wrote = {}
  <2>1. x \in Calls
    BY NoCallIs DEF Calls
  <2>2. /\ x.at = "out" /\ x.op = NoCall.op /\ x.by = NoCall.by /\ x.ok = NoCall.ok
        /\ x.board = NoCall.board /\ x.wrote = NoCall.wrote
    BY NoCallIs DEF Calls
  <2> QED  BY <2>1, <2>2, NoCallIs
<1> HIDE DEF x
<1>6. call \in [Slots -> Calls] /\ \A c \in Slots : call[c] \in {x, NoCall}
  BY <1>4, <1>5, NoCallIs
<1>7. \A w : Sound(x, w) /\ x.wrote = {} /\ ~Creates(x)
  BY <1>5 DEF Sound, Replies, Creates, Told
<1>8. \A c \in Slots : Sound(call[c], writes) /\ call[c].wrote = {} /\ ~Creates(call[c])
  BY <1>6, <1>7, IdleSound
<1>9. CallsInv
  BY <1>6, <1>8, EmptyApart DEF CallsInv
<1> QED  BY <1>2, <1>3, <1>9 DEF BoardInv

(* No step breaks BoardInv.                                                *)
LEMMA StepKeeps ==
  ASSUME BoardInv, [Next]_vars
  PROVE  BoardInv'
<1>1. CASE UNCHANGED vars
  <2>1. UNCHANGED <<version, writes, plan, role, view, shown, known, drag, optimizing, call, seen>>
    BY <1>1 DEF vars, server, page
  <2>2. ServerInv'
    BY <2>1 DEF BoardInv, ServerInv
  <2>3. PageInv'
    <3>1. PageInv
      BY DEF BoardInv
    <3> QED  BY <2>1, <3>1, SMTT(30) DEF PageInv
  <2>4. CallsInv'
    BY <2>1 DEF BoardInv, CallsInv
  <2> QED  BY <2>2, <2>3, <2>4 DEF BoardInv
<1>2. CASE Next
  <2>1. CASE view = "board" /\ Menus
    BY <2>1, MenusKeep
  <2>2. CASE DragStart \/ DragOver \/ DragEnd \/ DragAbandoned
    BY <2>2, DragStartKeeps, DragOverKeeps, DragEndKeeps, AbandonKeeps
  <2>3. CASE OtherEdit \/ TripAnswered
    BY <2>3, OtherEditKeeps, TripKeeps
  <2>4. ASSUME NEW c \in Slots, Serve(c) PROVE BoardInv'
    BY <2>4, HandlersKeep, CreateKeeps, OrderKeeps, LoadKeeps DEF Serve
  <2>5. ASSUME NEW c \in Slots, Refuse(c) \/ Lost(c) PROVE BoardInv'
    BY <2>5, FailsKeeps
  <2>6. ASSUME NEW c \in Slots, Answered(c) PROVE BoardInv'
    <3>1. view # "error"
      BY <1>2 DEF Next
    <3>2. LoadAnswered(c) \/ CreateAnswered(c) \/ Silent(c)
      BY <2>6 DEF Answered, Silent
    <3> QED  BY <3>1, <3>2, LoadedKeeps, CreatedKeeps, SilentKeeps
  <2> QED  BY <1>2, <2>1, <2>2, <2>3, <2>4, <2>5, <2>6 DEF Next, User, Menus
<1> QED  BY <1>1, <1>2

(* The inductive invariant of the board holds: its plan, its page and all  *)
(* answers under way have every stop once.                                 *)
THEOREM BoardHolds == Spec => []BoardInv
<1>1. Init => BoardInv
  BY InitKeeps
<1>2. BoardInv /\ [Next]_vars => BoardInv'
  BY StepKeeps
<1> QED  BY <1>1, <1>2, PTL DEF Spec

(* What the board and its calls hold is always of its kind.                *)
THEOREM BoardTyped == Spec => []TypeOK
<1>1. BoardInv => TypeOK
  BY DEF BoardInv, ServerInv, PageInv, CallsInv, TypeOK
<1> QED  BY <1>1, BoardHolds, PTL

(* On a complete board every stop has one spot.                            *)
LEMMA SpotsOf ==
  ASSUME NEW b \in Boards, Complete(b), Distinct(b), NEW s \in Stops
  PROVE  Cardinality({at \in Spots(b) : ColumnOf(b, at[1])[at[2]] = s}) = 1
<1> DEFINE P == {at \in Spots(b) : ColumnOf(b, at[1])[at[2]] = s}
<1>1. /\ Unscheduled \notin IdsOf(b) /\ ColumnOf(b, Unscheduled) = b.rest
      /\ \A d \in IdsOf(b) : ColumnOf(b, d) = StopsOf(b, d)
  BY BoardParts, BoardAssumption DEF ColumnOf
<1>2. \A d \in IdsOf(b) \cup {Unscheduled} :
        ColumnOf(b, d) \in Seq(Stops) /\ IsInjective(ColumnOf(b, d))
  <2>1. IsInjective(b.rest) /\ b.rest \in Seq(Stops)
    BY BoardParts DEF Complete
  <2>2. \A d \in IdsOf(b) : StopsOf(b, d) \in Seq(Stops) /\ IsInjective(StopsOf(b, d))
    BY StopsOfIs DEF Complete
  <2> QED  BY <1>1, <2>1, <2>2
<1>3. \A d, i : <<d, i>> \in P <=>
        d \in IdsOf(b) \cup {Unscheduled} /\ i \in DOMAIN ColumnOf(b, d) /\ ColumnOf(b, d)[i] = s
  BY DEF Spots
<1>4. \A at \in P : at = <<at[1], at[2]>>
  BY DEF Spots
<1>5. \A d \in IdsOf(b) \cup {Unscheduled} :
        s \in ToSet(ColumnOf(b, d)) <=> \E i \in DOMAIN ColumnOf(b, d) : ColumnOf(b, d)[i] = s
  BY <1>2 DEF ToSet
<1>6. \A d \in IdsOf(b) : \E i \in DOMAIN b.days : b.days[i].id = d /\ ColumnOf(b, d) = b.days[i].stops
  BY <1>1, StopsOfIs
<1>7. \A i \in DOMAIN b.days : b.days[i].id \in IdsOf(b) /\ ColumnOf(b, b.days[i].id) = b.days[i].stops
  BY <1>1, StopsOfIs DEF IdsOf
<1>8. \E d \in IdsOf(b) \cup {Unscheduled} : s \in ToSet(ColumnOf(b, d))
  BY <1>1, <1>7 DEF Complete, InRest, InDay
<1>9. ASSUME NEW d \in IdsOf(b) \cup {Unscheduled}, NEW e \in IdsOf(b) \cup {Unscheduled},
             s \in ToSet(ColumnOf(b, d)), s \in ToSet(ColumnOf(b, e))
      PROVE  d = e
  BY <1>1, <1>6, <1>9 DEF Complete, InRest, InDay
<1>10. PICK d, i : <<d, i>> \in P
  BY <1>3, <1>5, <1>8
<1>11. ASSUME NEW at \in P PROVE at = <<d, i>>
  <2>1. PICK e, j : at = <<e, j>>
    BY <1>4
  <2> HIDE DEF P
  <2>2. /\ e \in IdsOf(b) \cup {Unscheduled} /\ j \in DOMAIN ColumnOf(b, e) /\ ColumnOf(b, e)[j] = s
        /\ d \in IdsOf(b) \cup {Unscheduled} /\ i \in DOMAIN ColumnOf(b, d) /\ ColumnOf(b, d)[i] = s
    BY <1>3, <1>10, <2>1
  <2>3. e = d
    BY <1>5, <1>9, <2>2
  <2>4. i = j
    BY <1>2, <2>2, <2>3 DEF IsInjective
  <2> QED  BY <2>1, <2>3, <2>4
<1> HIDE DEF P
<1>12. P = {<<d, i>>}
  BY <1>10, <1>11
<1>13. Cardinality({<<d, i>>}) = 1
  BY FS_Singleton
<1> QED  BY <1>12, <1>13 DEF P

(* Whatever is dragged over whatever while boards come in and calls fail,  *)
(* every stop of the trip stays on the board, in one place.                *)
THEOREM ChipsStayOnce == Spec => []ChipsOnce
<1>1. BoardInv => ChipsOnce
  <2> SUFFICES ASSUME BoardInv, shown # None, Distinct(shown), NEW s \in Stops
               PROVE  Cardinality({at \in Spots(shown) : ColumnOf(shown, at[1])[at[2]] = s}) = 1
    BY DEF ChipsOnce, Distinct, Ids
  <2>1. shown \in Boards /\ Complete(shown)
    BY DEF BoardInv, PageInv
  <2> QED  BY <2>1, SpotsOf
<1> QED  BY <1>1, BoardHolds, PTL

-----------------------------------------------------------------------------
(* What the board will agree with once every answer on its way is in.      *)

Drops(x) == x.at # "idle" /\ x.by = "drop"

(* A drop that no board has overtaken, and one whose move must come back.  *)
Fresh(x) == Drops(x) /\ x.fresh /\ x.op # "load"
Failed(x) == Drops(x) /\ x.fresh /\ (x.op = "load" \/ (x.at = "back" /\ ~x.ok))

(* The commits the page will count as seen when the answer comes.          *)
Early(x) == Told(x) /\ x.op \in {"create", "detail", "time"}
Owes(x) == Early(x) \/ (Fresh(x) /\ x.at \in {"between", "back"} /\ x.ok)

(* Every commit, 1 to w, is seen in S or on its way to the page: Whole if  *)
(* the handlers bring it, Caught if a board that comes in leaves it to do. *)
Owed(f, n) == \E c \in Slots : Owes(f[c]) /\ n \in f[c].wrote
OwedEarly(f, n) == \E c \in Slots : Early(f[c]) /\ n \in f[c].wrote
Whole(f, S, w) == S # None /\ \A n \in 1 .. w : n \in S \/ Owed(f, n)
Caught(f, S, w) == \A n \in 1 .. w : n \in S \/ OwedEarly(f, n)

(* The days that were added and are not on the board yet.                  *)
Missing(f, S) ==
  {d \in Days : \E c \in Slots : Creates(f[c]) /\ f[c].job.day = d /\ ~(f[c].wrote \subseteq S)}

(* The plan p when the rest of the call x has been served.                 *)
After(p, x) ==
  IF x.at = "out" /\ x.op = "assign" THEN Ordered(Scheduled(p, x.job.stops, x.job.day), x.job.order)
  ELSE IF x.at = "out" THEN Loosened(p, {s \in ToSet(x.job.stops) : p.day[s] = x.job.day})
  ELSE IF x.at = "between" THEN Ordered(p, x.job.order)
  ELSE p

(* The plan q the board shows already: p, or p after the drop under way.   *)
Expects(f, p, q) ==
  \/ q = p /\ \A c \in Slots : ~Fresh(f[c])
  \/ \E c \in Slots : Fresh(f[c]) /\ q = After(p, f[c])

SameDays(b, p, missing) ==
  /\ Distinct(b) /\ missing \subseteq ToSet(p.days) /\ IdsOf(b) = ToSet(p.days) \ missing
  /\ \A s \in Stops : p.day[s] \notin missing

Agrees(b, p, missing) ==
  /\ SameDays(b, p, missing)
  /\ \A i \in DOMAIN b.days : b.days[i].stops = Column(p, b.days[i].id)
  /\ \A s \in Stops : InRest(b, s) <=> p.day[s] = Unscheduled

(* But for the chip s, which hovers somewhere.                             *)
Nearly(b, p, missing, s) ==
  /\ SameDays(b, p, missing)
  /\ \A i \in DOMAIN b.days : RemoveFirst(b.days[i].stops, s) = RemoveFirst(Column(p, b.days[i].id), s)
  /\ \A t \in Stops \ {s} : InRest(b, t) <=> p.day[t] = Unscheduled

Shows(b, p, missing, g) ==
  /\ IF g # None /\ g.moved THEN Nearly(b, p, missing, g.stop) ELSE Agrees(b, p, missing)
  /\ g # None => p.day[g.stop] = g.home

(* A drop the page still believes in is the only one.                      *)
OneDrop(f, S) ==
  S # None => \A c \in Slots : Fresh(f[c]) => \A d \in Slots \ {c} : ~Drops(f[d])

(* The board shown is what the plan will be, but for what is on its way.   *)
ShownInv ==
  Whole(call, seen, writes) /\ view = "board" /\ (\A c \in Slots : ~Failed(call[c])) =>
    \A q \in Plans : Expects(call, plan, q) => Shows(shown, q, Missing(call, seen), drag)

(* So is a board on its way, if it is not behind.                          *)
RepliesInv ==
  \A c \in Slots : Replies(call[c]) /\ Caught(call, call[c].wrote, writes) =>
    Agrees(call[c].board, plan, Missing(call, call[c].wrote))

ExactInv == OneDrop(call, seen) /\ ShownInv /\ RepliesInv

-----------------------------------------------------------------------------
(* Boards that agree with a plan.                                          *)

(* Columns depend on the places of the stops only.                         *)
LEMMA ColumnSame ==
  ASSUME NEW p, NEW q, q.day = p.day, q.pos = p.pos, NEW d
  PROVE  Column(q, d) = Column(p, d)
BY DEF Column, Before

LEMMA AgreesIsNearly ==
  ASSUME NEW b, NEW p, NEW m, NEW s, Agrees(b, p, m)
  PROVE  Nearly(b, p, m, s)
BY DEF Agrees, Nearly

(* The container of a chip is the day of the stop.                         *)
LEMMA AgreesOnDays ==
  ASSUME NEW b \in Boards, Complete(b), NEW p \in Plans, NEW m, Agrees(b, p, m), NEW s \in Stops
  PROVE  Container(b, s) = p.day[s]
<1>1. CASE \E i \in DOMAIN b.days : InDay(b, s, i) /\ Container(b, s) = b.days[i].id
  <2>1. PICK i \in DOMAIN b.days : InDay(b, s, i) /\ Container(b, s) = b.days[i].id
    BY <1>1
  <2>2. s \in ToSet(Column(p, b.days[i].id))
    BY <2>1 DEF InDay, Agrees
  <2>3. s \in Here(p, b.days[i].id)
    BY <2>2, ColumnIs
  <2> QED  BY <2>1, <2>3 DEF Here
<1>2. CASE InRest(b, s) /\ Container(b, s) = Unscheduled
  BY <1>2 DEF Agrees
<1>3. CASE ~InRest(b, s) /\ \A i \in DOMAIN b.days : ~InDay(b, s, i)
  BY <1>3 DEF Complete
<1> QED  BY <1>1, <1>2, <1>3, ContainerIs

(* Dragging a chip leaves the rest of the board in agreement.              *)
LEMMA DraggedNearly ==
  ASSUME NEW b \in Boards, NEW h, NEW p, NEW m, NEW s, Nearly(b, p, m, s), Dragged(b, h, s)
  PROVE  Nearly(h, p, m, s)
<1>1. Distinct(h) /\ IdsOf(h) = IdsOf(b)
  BY DEF Dragged, Nearly, SameDays, Distinct
<1>2. SameDays(h, p, m)
  BY <1>1 DEF Nearly, SameDays
<1>3. ASSUME NEW i \in DOMAIN h.days
      PROVE  RemoveFirst(h.days[i].stops, s) = RemoveFirst(Column(p, h.days[i].id), s)
  BY DEF Dragged, Nearly
<1>4. \A t \in Stops \ {s} : InRest(h, t) <=> p.day[t] = Unscheduled
  BY DEF Dragged, Nearly
<1> QED  BY <1>2, <1>3, <1>4 DEF Nearly

LEMMA SortedRest ==
  ASSUME NEW p, NEW c \in Seq(Stops), IsInjective(c), Sorted(p, c), NEW s
  PROVE  Sorted(p, RemoveFirst(c, s))
<1>1. CASE s \notin ToSet(c)
  BY <1>1, NotThere
<1>2. CASE s \in ToSet(c)
  <2>1. PICK k \in 1 .. Len(c) : c[k] = s
    BY <1>2 DEF ToSet
  <2> DEFINE r == RemoveFirst(c, s)
  <2>2. /\ r \in Seq(Stops) /\ Len(r) = Len(c) - 1
        /\ \A i \in 1 .. Len(c) - 1 : r[i] = IF i < k THEN c[i] ELSE c[i + 1]
    BY <2>1, TakenOut
  <2> HIDE DEF r
  <2>3. ASSUME NEW i \in DOMAIN r, NEW j \in DOMAIN r, i < j PROVE Before(p, r[i], r[j])
    <3> DEFINE at(n) == IF n < k THEN n ELSE n + 1
    <3>1. /\ i \in 1 .. Len(c) - 1 /\ j \in 1 .. Len(c) - 1
      BY <2>2
    <3>2. at(i) \in DOMAIN c /\ at(j) \in DOMAIN c /\ at(i) < at(j)
      BY <3>1, <2>3
    <3>3. r[i] = c[at(i)] /\ r[j] = c[at(j)]
      BY <3>1, <2>2
    <3> HIDE DEF at
    <3>4. Before(p, c[at(i)], c[at(j)])
      BY <3>2 DEF Sorted
    <3> QED  BY <3>3, <3>4
  <2> QED  BY <2>3 DEF Sorted, r
<1> QED  BY <1>1, <1>2

(* A chip that is dropped makes the board agree with the plan in which its *)
(* stop is where the chip is.                                              *)
LEMMA DroppedAgrees ==
  ASSUME NEW b \in Boards, Complete(b), NEW p \in Plans, NEW q \in Plans, NEW m, NEW s \in Stops,
         Nearly(b, p, m, s), NEW to, to = Container(b, s),
         q.days = p.days, q.day[s] = to, \A t \in Stops \ {s} : q.day[t] = p.day[t],
         \A t \in Stops \ {s} : q.day[t] \notin {to, Unscheduled} => q.pos[t] = p.pos[t],
         to # Unscheduled => Sorted(q, StopsOf(b, to))
  PROVE  Agrees(b, q, m)
<1>1. Distinct(b) /\ m \subseteq ToSet(p.days) /\ IdsOf(b) = ToSet(p.days) \ m
  BY DEF Nearly, SameDays
<1>2. to \in IdsOf(b) \cup {Unscheduled}
  BY Contained
<1>3. Unscheduled \notin ToSet(p.days) /\ Unscheduled \notin IdsOf(b)
  <2>1. p.days \in Seq(Days)
    BY DEF Plans
  <2>2. ToSet(p.days) \subseteq Days
    BY <2>1 DEF ToSet
  <2> QED  BY <2>2, <1>1, BoardAssumption
<1>4. SameDays(b, q, m)
  <2>1. \A t \in Stops : q.day[t] \notin m
    BY <1>1, <1>2, <1>3 DEF Nearly, SameDays
  <2> QED  BY <1>1, <2>1 DEF SameDays
<1>5. /\ InRest(b, s) <=> to = Unscheduled
      /\ \A i \in DOMAIN b.days : InDay(b, s, i) <=> to = b.days[i].id
  <2>1. CASE \E i \in DOMAIN b.days : InDay(b, s, i) /\ to = b.days[i].id
    <3>1. PICK i \in DOMAIN b.days : InDay(b, s, i) /\ to = b.days[i].id
      BY <2>1
    <3>2. ~InRest(b, s) /\ \A j \in DOMAIN b.days : InDay(b, s, j) => i = j
      BY <3>1, <1>1 DEF Complete
    <3>3. \A j \in DOMAIN b.days : b.days[j].id = b.days[i].id => i = j
      BY <3>1, <1>1 DEF Distinct, Ids, IsInjective
    <3>4. to # Unscheduled
      BY <3>1, <1>3 DEF IdsOf
    <3> QED  BY <3>1, <3>2, <3>3, <3>4
  <2>2. CASE InRest(b, s) /\ to = Unscheduled /\ \A i \in DOMAIN b.days : ~InDay(b, s, i)
    BY <2>2, <1>3 DEF IdsOf
  <2>3. CASE ~InRest(b, s) /\ \A i \in DOMAIN b.days : ~InDay(b, s, i)
    BY <2>3 DEF Complete
  <2> QED  BY <2>1, <2>2, <2>3, ContainerIs
<1>6. \A t \in Stops : InRest(b, t) <=> q.day[t] = Unscheduled
  BY <1>5 DEF Nearly
<1>7. ASSUME NEW i \in DOMAIN b.days PROVE b.days[i].stops = Column(q, b.days[i].id)
  <2> DEFINE d == b.days[i].id
             a == b.days[i].stops
             c == Column(p, d)
             r == RemoveFirst(c, s)
  <2>1. a \in Seq(Stops) /\ IsInjective(a) /\ d \in IdsOf(b) /\ d # Unscheduled
    BY <1>3, BoardParts DEF Complete, IdsOf
  <2>2. c \in Seq(Stops) /\ IsInjective(c) /\ ToSet(c) = Here(p, d) /\ Sorted(p, c)
    BY ColumnIs
  <2>3. r \in Seq(Stops) /\ ToSet(r) = Here(p, d) \ {s} /\ Sorted(p, r)
    BY <2>2, Rest, SortedRest
  <2>4. RemoveFirst(a, s) = r /\ ToSet(RemoveFirst(a, s)) = ToSet(a) \ {s}
    BY <2>1, Rest DEF Nearly
  <2>5. s \in ToSet(a) <=> to = d
    BY <1>5 DEF InDay
  <2> HIDE DEF d, c, r, a
  <2>6. \A t \in Stops : t \in Here(q, d) <=> IF t = s THEN to = d ELSE t \in Here(p, d)
    BY DEF Here
  <2>7. ToSet(a) = Here(q, d)
    <3>1. ToSet(a) \subseteq Stops /\ Here(q, d) \subseteq Stops
      BY <2>1 DEF ToSet, Here
    <3>2. \A t \in Stops : t \in ToSet(a) <=> t \in Here(q, d)
      BY <2>3, <2>4, <2>5, <2>6
    <3> QED  BY <3>1, <3>2
  <2>8. CASE to = d
    <3>1. a = StopsOf(b, to)
      BY <2>1, <2>8, <1>1, StopsOfIs DEF a, d
    <3>2. Sorted(q, a)
      BY <3>1, <2>1, <2>8
    <3> QED  BY <3>2, <2>1, <2>7, Sorting DEF a, d
  <2>9. CASE to # d
    <3>1. a = r
      BY <2>1, <2>4, <2>5, <2>9, NotThere
    <3>2. \A t \in ToSet(a) : t \in Stops /\ t # s /\ q.day[t] = d
      BY <2>5, <2>7, <2>9 DEF Here
    <3>3. \A t \in ToSet(a) : q.pos[t] = p.pos[t]
      BY <3>2, <2>1, <2>9
    <3>4. ASSUME NEW j \in DOMAIN a, NEW k \in DOMAIN a, j < k PROVE Before(q, a[j], a[k])
      <4>1. a[j] \in ToSet(a) /\ a[k] \in ToSet(a)
        BY <2>1 DEF ToSet
      <4>2. Before(p, a[j], a[k])
        BY <3>1, <3>4, <2>3 DEF Sorted
      <4>3. q.pos[a[j]] = p.pos[a[j]] /\ q.pos[a[k]] = p.pos[a[k]]
        BY <4>1, <3>3
      <4> QED  BY <4>2, <4>3 DEF Before
    <3>5. Sorted(q, a)
      BY <3>4 DEF Sorted
    <3> QED  BY <3>5, <2>1, <2>7, Sorting DEF a, d
  <2> QED  BY <2>8, <2>9
<1> QED  BY <1>4, <1>6, <1>7 DEF Agrees

(* The order a drop saves is the order of the column it is dropped in.     *)
LEMMA OrderSaved ==
  ASSUME NEW p \in Plans, NEW q \in Seq(Stops), IsInjective(q)
  PROVE  Sorted(Ordered(p, q), q)
<1>1. \A s \in Stops : Ordered(p, q).pos[s] = IF s \in ToSet(q) THEN Index(q, s) - 1 ELSE p.pos[s]
  BY OrderedIs
<1>2. ASSUME NEW i \in DOMAIN q PROVE q[i] \in Stops /\ q[i] \in ToSet(q) /\ Index(q, q[i]) = i
  <2>1. q[i] \in Stops /\ q[i] \in ToSet(q)
    BY DEF ToSet
  <2>2. Index(q, q[i]) \in DOMAIN q /\ q[Index(q, q[i])] = q[i]
    BY <2>1, IndexIs
  <2> QED  BY <2>1, <2>2 DEF IsInjective
<1>3. ASSUME NEW i \in DOMAIN q, NEW j \in DOMAIN q, i < j PROVE Before(Ordered(p, q), q[i], q[j])
  <2>1. Ordered(p, q).pos[q[i]] = i - 1 /\ Ordered(p, q).pos[q[j]] = j - 1
    BY <1>1, <1>2
  <2>2. i - 1 < j - 1 /\ i - 1 \in Nat
    BY <1>3
  <2>3. i - 1 # None
    BY <2>2, BoardAssumption
  <2> QED  BY <2>1, <2>2, <2>3 DEF Before
<1> QED  BY <1>3 DEF Sorted

(* What the server does with a drop is what the board shows already.       *)
LEMMA DropToDay ==
  ASSUME NEW b \in Boards, Complete(b), NEW p \in Plans, NEW m, NEW s \in Stops, Nearly(b, p, m, s),
         NEW to, to = Container(b, s), to # Unscheduled
  PROVE  Agrees(b, Ordered(Scheduled(p, <<s>>, to), StopsOf(b, to)), m)
<1> DEFINE one == <<s>>
           r == Scheduled(p, one, to)
           c == StopsOf(b, to)
           q == Ordered(r, c)
<1>1. to \in IdsOf(b) /\ to \in Columns
  BY Contained
<1>2. one \in Seq(Stops) /\ ToSet(one) = {s}
  BY DEF ToSet
<1>3. c \in Seq(Stops) /\ IsInjective(c)
  BY <1>1, StopsOfIs DEF Complete
<1>4. \A t \in Stops \ {s} : t \in ToSet(c) <=> p.day[t] = to
  <2>1. PICK i \in DOMAIN b.days : b.days[i].id = to /\ c = b.days[i].stops
    BY <1>1, StopsOfIs
  <2>2. RemoveFirst(c, s) = RemoveFirst(Column(p, to), s)
    BY <2>1 DEF Nearly
  <2>3. ToSet(RemoveFirst(c, s)) = ToSet(c) \ {s}
    BY <1>3, Rest
  <2>4. /\ ToSet(RemoveFirst(Column(p, to), s)) = ToSet(Column(p, to)) \ {s}
        /\ ToSet(Column(p, to)) = Here(p, to)
    <3>1. /\ Column(p, to) \in Seq(Stops) /\ IsInjective(Column(p, to))
          /\ ToSet(Column(p, to)) = Here(p, to)
      BY ColumnIs
    <3> QED  BY <3>1, Rest
  <2> QED  BY <2>2, <2>3, <2>4 DEF Here
<1> HIDE DEF one, c
<1>5. /\ r \in Plans /\ r.days = p.days /\ r.pos = p.pos
      /\ \A t \in Stops : r.day[t] = IF t \in ToSet(one) THEN to ELSE p.day[t]
  BY <1>1, <1>2, ScheduledIs
<1> HIDE DEF r
<1>6. /\ q \in Plans /\ q.days = p.days /\ q.day = r.day
      /\ \A t \in Stops : q.pos[t] = IF t \in ToSet(c) THEN Index(c, t) - 1 ELSE r.pos[t]
      /\ Sorted(q, c)
  BY <1>3, <1>5, OrderedIs, OrderSaved
<1> HIDE DEF q
<1>7. /\ q.day[s] = to /\ \A t \in Stops \ {s} : q.day[t] = p.day[t]
      /\ \A t \in Stops \ {s} : q.day[t] \notin {to, Unscheduled} => q.pos[t] = p.pos[t]
  BY <1>2, <1>4, <1>5, <1>6
<1>8. to # Unscheduled => Sorted(q, StopsOf(b, to))
  BY <1>6 DEF c
<1>9. Agrees(b, q, m)
  BY <1>6, <1>7, <1>8, DroppedAgrees
<1> QED  BY <1>9 DEF q, r, one, c

LEMMA DropToNone ==
  ASSUME NEW b \in Boards, Complete(b), NEW p \in Plans, NEW m, NEW s \in Stops, Nearly(b, p, m, s),
         Container(b, s) = Unscheduled, NEW from, p.day[s] = from
  PROVE  /\ Agrees(b, Loosened(p, {t \in ToSet(<<s>>) : p.day[t] = from}), m)
         /\ from = Unscheduled => Agrees(b, p, m)
<1> DEFINE S == {t \in ToSet(<<s>>) : p.day[t] = from}
           q == Loosened(p, S)
<1>1. S = {s}
  BY DEF ToSet
<1> HIDE DEF S
<1>2. /\ q \in Plans /\ q.days = p.days
      /\ \A t \in Stops : /\ q.day[t] = IF t \in S THEN Unscheduled ELSE p.day[t]
                          /\ q.pos[t] = IF t \in S THEN None ELSE p.pos[t]
  BY LoosenedIs
<1> HIDE DEF q
<1>3. /\ q.day[s] = Unscheduled /\ \A t \in Stops \ {s} : q.day[t] = p.day[t] /\ q.pos[t] = p.pos[t]
  BY <1>1, <1>2
<1> DEFINE to == Unscheduled
<1>4. to = Container(b, s) /\ (to # Unscheduled => Sorted(q, StopsOf(b, to)))
      /\ (to # Unscheduled => Sorted(p, StopsOf(b, to)))
  OBVIOUS
<1>5. q.day[s] = to /\ (from = Unscheduled => p.day[s] = to)
  BY <1>3
<1> HIDE DEF to
<1>6. Agrees(b, q, m)
  BY <1>2, <1>3, <1>4, <1>5, DroppedAgrees
<1>7. from = Unscheduled => Agrees(b, p, m)
  BY <1>4, <1>5, DroppedAgrees
<1> QED  BY <1>6, <1>7 DEF q, S

(* A day is added to the plan.                                             *)
LEMMA DayMissing ==
  ASSUME NEW b, NEW p \in Plans, NEW q, NEW m, NEW d, NEW s, d \notin ToSet(p.days),
         ToSet(q.days) = ToSet(p.days) \cup {d}, q.day = p.day, q.pos = p.pos,
         \A t \in Stops : p.day[t] # d
  PROVE  /\ Agrees(b, p, m) => Agrees(b, q, m \cup {d})
         /\ Nearly(b, p, m, s) => Nearly(b, q, m \cup {d}, s)
<1>1. \A e : Column(q, e) = Column(p, e)
  BY ColumnSame
<1>2. SameDays(b, p, m) => SameDays(b, q, m \cup {d})
  BY DEF SameDays
<1> QED  BY <1>1, <1>2 DEF Agrees, Nearly

(* A day that was missing is shown.                                        *)
LEMMA DayShown ==
  ASSUME NEW b \in Boards, NEW p \in Plans, NEW m, NEW d \in Days, d \in m, NEW s, NEW h,
         h = [b EXCEPT !.days = Append(@, [id |-> d, stops |-> <<>>])]
  PROVE  /\ Agrees(b, p, m) => Agrees(h, p, m \ {d})
         /\ Nearly(b, p, m, s) => Nearly(h, p, m \ {d}, s)
<1> DEFINE n == Len(b.days) + 1
<1>1. /\ h \in Boards /\ h.rest = b.rest /\ Len(h.days) = n
      /\ \A i \in DOMAIN b.days : h.days[i] = b.days[i]
      /\ h.days[n].id = d /\ h.days[n].stops = <<>> /\ IdsOf(h) = IdsOf(b) \cup {d}
  BY DayAppended
<1>2. /\ DOMAIN b.days = 1 .. Len(b.days) /\ Len(b.days) \in Nat /\ DOMAIN h.days = 1 .. n
      /\ \A i \in DOMAIN h.days : i \in DOMAIN b.days \/ i = n
  BY <1>1, BoardParts
<1> HIDE DEF n
<1>3. ASSUME SameDays(b, p, m) PROVE SameDays(h, p, m \ {d})
  <2>1. d \notin IdsOf(b) /\ d \in ToSet(p.days)
    BY <1>3 DEF SameDays
  <2>2. \A i \in DOMAIN b.days : b.days[i].id # d
    BY <2>1 DEF IdsOf
  <2>3. \A i, j \in DOMAIN b.days : b.days[i].id = b.days[j].id => i = j
    BY <1>3 DEF SameDays, Distinct, Ids, IsInjective
  <2>4. \A i, j \in DOMAIN h.days : h.days[i].id = h.days[j].id => i = j
    BY <2>2, <2>3, <1>1, <1>2
  <2>5. Distinct(h)
    BY <2>4 DEF Distinct, Ids, IsInjective
  <2> QED  BY <1>1, <1>3, <2>1, <2>5 DEF SameDays
<1>4. ASSUME SameDays(b, p, m) PROVE Column(p, d) = <<>>
  <2>1. Here(p, d) = {}
    BY <1>4 DEF SameDays, Here
  <2>2. Column(p, d) \in Seq(Stops) /\ ToSet(Column(p, d)) = {}
    BY <2>1, ColumnIs
  <2>3. \A c \in Seq(Stops) : ToSet(c) = {} => Len(c) = 0
    <3> SUFFICES ASSUME NEW c \in Seq(Stops), Len(c) # 0 PROVE ToSet(c) # {}
      OBVIOUS
    <3>1. 1 \in DOMAIN c
      OBVIOUS
    <3> QED  BY <3>1 DEF ToSet
  <2> QED  BY <2>2, <2>3, EmptySeq
<1>5. \A t : InRest(h, t) <=> InRest(b, t)
  BY <1>1 DEF InRest
<1>6. Agrees(b, p, m) => Agrees(h, p, m \ {d})
  BY <1>1, <1>2, <1>3, <1>4, <1>5 DEF Agrees
<1>7. Nearly(b, p, m, s) => Nearly(h, p, m \ {d}, s)
  BY <1>1, <1>2, <1>3, <1>4, <1>5 DEF Nearly
<1> QED  BY <1>6, <1>7

(* The board of a plan, and a board that agrees with all of a plan.        *)
LEMMA BoardAgrees ==
  ASSUME NEW p \in Plans, Placed(p)
  PROVE  Agrees(BoardOf(p), p, {})
<1>1. Distinct(BoardOf(p)) /\ IdsOf(BoardOf(p)) = ToSet(p.days)
  BY BoardOfIs
<1>2. \A i \in DOMAIN BoardOf(p).days : BoardOf(p).days[i].stops = Column(p, BoardOf(p).days[i].id)
  BY DEF BoardOf
<1>3. \A s \in Stops : InRest(BoardOf(p), s) <=> p.day[s] = Unscheduled
  <2>1. BoardOf(p).rest = Column(p, Unscheduled)
    BY DEF BoardOf
  <2> QED  BY <2>1, ColumnIs DEF InRest, Here
<1> QED  BY <1>1, <1>2, <1>3 DEF Agrees, SameDays

(* A board that agrees with a plan in everything is its board.             *)
LEMMA AgreesIsSame ==
  ASSUME NEW b \in Boards, NEW p \in Plans, Placed(p), Agrees(b, p, {})
  PROVE  Same(b, p)
<1> DEFINE h == BoardOf(p)
<1>1. h \in Boards /\ Agrees(h, p, {})
  BY BoardOfIs, BoardAgrees
<1> HIDE DEF h
<1>2. ASSUME NEW x \in Boards, NEW y \in Boards, Agrees(x, p, {}), Agrees(y, p, {}),
             NEW i \in DOMAIN x.days
      PROVE  x.days[i] \in ToSet(y.days)
  <2>1. x.days[i].id \in IdsOf(y)
    BY <1>2 DEF Agrees, SameDays, IdsOf
  <2>2. PICK j \in DOMAIN y.days : y.days[j].id = x.days[i].id
    BY <2>1 DEF IdsOf
  <2>3. y.days[j].stops = x.days[i].stops
    BY <1>2, <2>2 DEF Agrees
  <2>4. x.days[i] \in Cards /\ y.days[j] \in Cards
    BY BoardParts
  <2>5. x.days[i] = y.days[j]
    BY <2>2, <2>3, <2>4 DEF Cards
  <2> QED  BY <2>5, BoardParts DEF ToSet
<1>3. ToSet(b.days) = ToSet(h.days)
  BY <1>1, <1>2 DEF ToSet
<1>4. ToSet(b.rest) = ToSet(h.rest)
  <2>1. ToSet(b.rest) \subseteq Stops /\ ToSet(h.rest) \subseteq Stops
    <3>1. b.rest \in Seq(Stops) /\ h.rest \in Seq(Stops)
      BY <1>1, BoardParts
    <3> QED  BY <3>1 DEF ToSet
  <2>2. \A s \in Stops : s \in ToSet(b.rest) <=> s \in ToSet(h.rest)
    BY <1>1 DEF Agrees, InRest
  <2> QED  BY <2>1, <2>2
<1> QED  BY <1>3, <1>4 DEF Same, h

-----------------------------------------------------------------------------
(* Steps of a call.                                                        *)

(* How the kinds of calls relate.                                          *)
LEMMA KindsIs ==
  ASSUME NEW x \in Calls
  PROVE  /\ Creates(x) => Early(x)
         /\ Early(x) => Owes(x)
         /\ Owes(x) => x.op # "load"
         /\ Fresh(x) => Drops(x)
         /\ Replies(x) => ~Owes(x) /\ ~Fresh(x)
BY DEF Creates, Early, Owes, Fresh, Replies, Drops, Told

(* Commits are owed by whoever brings their answers.                       *)
LEMMA OwedIs ==
  ASSUME BoardInv, NEW c \in Slots, NEW x, Goes1(c, x), ~Owes(x)
  PROVE  /\ \A n : Owed(call', n) => Owed(call, n)
         /\ \A n : OwedEarly(call', n) => OwedEarly(call, n) /\ Owed(call', n)
         /\ \A n : Owed(call, n) => Owed(call', n) \/ (Owes(call[c]) /\ n \in call[c].wrote)
BY DEF Goes1, Owed, OwedEarly, Owes

(* What is still accounted for when a call has gone is not the call's.     *)
LEMMA NothingLost ==
  ASSUME BoardInv, NEW c \in Slots, NEW x, Goes1(c, x), ~Owes(x), NEW S, Owes(call[c]),
         \A n \in 1 .. writes : n \in S \/ Owed(call', n)
  PROVE  call[c].wrote \subseteq S
<1> SUFFICES ASSUME NEW n \in call[c].wrote, n \notin S PROVE FALSE
  OBVIOUS
<1>1. call[c] \in Calls /\ Sound(call[c], writes) /\ writes \in Nat
  BY DEF BoardInv, CallsInv, ServerInv
<1>2. call[c].op # "load"
  BY <1>1, KindsIs
<1>3. n \in 1 .. writes
  BY <1>1, <1>2 DEF Sound
<1>4. PICK d \in Slots : Owes(call'[d]) /\ n \in call'[d].wrote
  BY <1>3 DEF Owed
<1>5. d # c /\ call'[d] = call[d]
  BY <1>4 DEF Goes1
<1>6. call[d].op # "load" /\ Apart(call[c], call[d])
  BY <1>4, <1>5, KindsIs DEF BoardInv, CallsInv
<1> QED  BY <1>2, <1>4, <1>5, <1>6 DEF Apart

(* When the days that are missing stay the same.                           *)
LEMMA MissingSame ==
  ASSUME NEW c \in Slots, NEW x, Goes1(c, x), ~Creates(x), NEW S,
         Creates(call[c]) => call[c].wrote \subseteq S
  PROVE  Missing(call', S) = Missing(call, S)
<1>1. ASSUME NEW d \in Slots
      PROVE  Creates(call'[d]) /\ ~(call'[d].wrote \subseteq S) <=>
             Creates(call[d]) /\ ~(call[d].wrote \subseteq S)
  BY DEF Goes1
<1>2. ASSUME NEW d \in Slots, Creates(call[d]) /\ ~(call[d].wrote \subseteq S) PROVE call'[d] = call[d]
  BY <1>2 DEF Goes1
<1> QED  BY <1>1, <1>2 DEF Missing

(* Nothing is missing on a board that knows every commit.                  *)
LEMMA NoneMissing ==
  ASSUME BoardInv
  PROVE  Missing(call, 1 .. writes) = {}
<1>1. \A c \in Slots : Creates(call[c]) => call[c].wrote \subseteq 1 .. writes
  <2> SUFFICES ASSUME NEW c \in Slots, Creates(call[c]) PROVE call[c].wrote \subseteq 1 .. writes
    OBVIOUS
  <2>1. call[c].wrote \subseteq 2 .. writes /\ writes \in Nat
    BY DEF BoardInv, CallsInv, ServerInv, Sound, Creates
  <2> QED  BY <2>1
<1> QED  BY <1>1 DEF Missing

(* A step of a call that commits nothing and shows nothing.                *)
LEMMA QuietStep ==
  ASSUME BoardInv, ExactInv, NEW c \in Slots, NEW x \in Calls, Goes1(c, x),
         UNCHANGED <<writes, plan, seen, view, shown, drag>>,
         ~Owes(x), Fresh(x) => Failed(x) /\ Fresh(call[c]), Fresh(call[c]) => Failed(x),
         Failed(call[c]) => Failed(x), Drops(x) => Drops(call[c]),
         Replies(x) => x.board = BoardOf(plan) /\ x.wrote = 1 .. writes
  PROVE  ExactInv'
<1>1. call'[c] = x /\ \A d \in Slots \ {c} : call'[d] = call[d]
  BY DEF Goes1
<1>2. ~Creates(x) /\ call[c] \in Calls
  BY KindsIs DEF BoardInv, CallsInv
<1>3. OneDrop(call', seen')
  <2>1. \A d \in Slots : (Fresh(call'[d]) => Fresh(call[d])) /\ (Drops(call'[d]) => Drops(call[d]))
    BY <1>1
  <2> QED  BY <2>1 DEF ExactInv, OneDrop
<1>4. ShownInv'
  <2> SUFFICES ASSUME Whole(call', seen', writes'), view' = "board", \A d \in Slots : ~Failed(call'[d]),
                      NEW q \in Plans, Expects(call', plan', q)
               PROVE  Shows(shown', q, Missing(call', seen'), drag')
    BY DEF ShownInv
  <2>1. ~Failed(x) /\ \A d \in Slots : ~Failed(call[d])
    BY <1>1
  <2>2. ~Fresh(call[c]) /\ ~Fresh(x) /\ \A d \in Slots : Fresh(call'[d]) <=> Fresh(call[d])
    BY <1>1, <2>1
  <2>3. Expects(call, plan, q)
    BY <1>1, <2>2 DEF Expects
  <2>4. Whole(call, seen, writes)
    BY OwedIs DEF Whole
  <2>5. Creates(call[c]) => call[c].wrote \subseteq seen
    BY <1>2, NothingLost, KindsIs DEF Whole
  <2>6. Missing(call', seen) = Missing(call, seen)
    BY <1>2, <2>5, MissingSame
  <2>7. Shows(shown, q, Missing(call, seen), drag)
    BY <2>1, <2>3, <2>4 DEF ExactInv, ShownInv
  <2> QED  BY <2>6, <2>7
<1>5. RepliesInv'
  <2> SUFFICES ASSUME NEW d \in Slots, Replies(call'[d]), Caught(call', call'[d].wrote, writes')
               PROVE  Agrees(call'[d].board, plan', Missing(call', call'[d].wrote))
    BY DEF RepliesInv
  <2> DEFINE S == call'[d].wrote
  <2>1. \A n \in 1 .. writes : n \in S \/ Owed(call', n)
    BY OwedIs DEF Caught
  <2>2. Creates(call[c]) => call[c].wrote \subseteq S
    BY <1>2, <2>1, NothingLost, KindsIs
  <2>3. Missing(call', S) = Missing(call, S)
    BY <1>2, <2>2, MissingSame
  <2>4. CASE d = c
    <3>1. S = 1 .. writes /\ call'[d].board = BoardOf(plan)
      BY <1>1, <2>4
    <3>2. Missing(call', S) = {}
      BY <2>3, <3>1, NoneMissing
    <3>3. Agrees(BoardOf(plan), plan, {})
      BY BoardAgrees DEF BoardInv, ServerInv
    <3> QED  BY <3>1, <3>2, <3>3
  <2>5. CASE d # c
    <3>1. call'[d] = call[d] /\ Caught(call, S, writes)
      BY <1>1, <2>5, OwedIs DEF Caught
    <3>2. Agrees(call[d].board, plan, Missing(call, S))
      BY <3>1 DEF ExactInv, RepliesInv
    <3> QED  BY <2>3, <3>1, <3>2
  <2> QED  BY <2>4, <2>5
<1> QED  BY <1>3, <1>4, <1>5 DEF ExactInv

(* Boards on their way stay the board of the plan they were read from.     *)
LEMMA RepliesKept ==
  ASSUME BoardInv, RepliesInv, NEW c \in Slots, NEW x \in Calls, Goes1(c, x),
         UNCHANGED <<writes, plan>>, ~Owes(x), ~Replies(x)
  PROVE  RepliesInv'
<1> SUFFICES ASSUME NEW d \in Slots, Replies(call'[d]), Caught(call', call'[d].wrote, writes')
             PROVE  Agrees(call'[d].board, plan', Missing(call', call'[d].wrote))
  BY DEF RepliesInv
<1>1. d # c /\ call'[d] = call[d]
  BY DEF Goes1
<1> DEFINE S == call[d].wrote
<1>2. Caught(call, S, writes) /\ \A n \in 1 .. writes : n \in S \/ Owed(call', n)
  BY <1>1, OwedIs DEF Caught
<1>3. ~Creates(x) /\ call[c] \in Calls
  BY KindsIs DEF BoardInv, CallsInv
<1>4. Creates(call[c]) => call[c].wrote \subseteq S
  BY <1>2, <1>3, NothingLost, KindsIs
<1>5. Missing(call', S) = Missing(call, S)
  BY <1>3, <1>4, MissingSame
<1>6. Agrees(call[d].board, plan, Missing(call, S))
  BY <1>1, <1>2 DEF RepliesInv
<1> QED  BY <1>1, <1>5, <1>6

(* Two calls wrote nothing in common.                                      *)
LEMMA MissingGrows ==
  ASSUME BoardInv, NEW c \in Slots, call[c].op # "load", ~Creates(call[c]), NEW S
  PROVE  Missing(call, S \cup call[c].wrote) = Missing(call, S)
<1>1. ASSUME NEW d \in Slots, Creates(call[d])
      PROVE  call[d].wrote \subseteq S \cup call[c].wrote <=> call[d].wrote \subseteq S
  <2>1. d # c /\ call[d].op # "load"
    BY <1>1 DEF Creates
  <2>2. call[c].wrote \cap call[d].wrote = {}
    BY <2>1 DEF BoardInv, CallsInv, Apart
  <2> QED  BY <2>2
<1> QED  BY <1>1 DEF Missing

(* The answer is in, and what the call wrote is on the board.              *)
LEMMA SettleStep ==
  ASSUME BoardInv, ExactInv, NEW c \in Slots, NEW x \in Calls, Goes1(c, x),
         UNCHANGED <<writes, plan, view, shown, drag>>, seen' = With(call[c].wrote),
         call[c].at = "back", call[c].op # "load", ~Creates(call[c]), ~Failed(call[c]),
         Owes(call[c]) \/ call[c].wrote = {},
         ~Owes(x), ~Replies(x), ~Drops(x)
  PROVE  ExactInv'
<1> DEFINE y == call[c]
<1>1. call'[c] = x /\ \A d \in Slots \ {c} : call'[d] = call[d]
  BY DEF Goes1
<1>2. ~Creates(x) /\ ~Fresh(x) /\ ~Failed(x)
  BY KindsIs DEF Failed
<1>3. seen' # None => seen # None /\ seen' = seen \cup y.wrote
  BY DEF With
<1>4. OneDrop(call', seen')
  <2>1. \A d \in Slots : (Fresh(call'[d]) => Fresh(call[d])) /\ (Drops(call'[d]) => Drops(call[d]))
    BY <1>1, <1>2
  <2> QED  BY <1>3, <2>1 DEF ExactInv, OneDrop
<1>5. ShownInv'
  <2> SUFFICES ASSUME Whole(call', seen', writes'), view' = "board", \A d \in Slots : ~Failed(call'[d]),
                      NEW q \in Plans, Expects(call', plan', q)
               PROVE  Shows(shown', q, Missing(call', seen'), drag')
    BY DEF ShownInv
  <2>1. \A d \in Slots : ~Failed(call[d])
    BY <1>1
  <2>2. seen # None /\ seen' = seen \cup y.wrote
    BY <1>3 DEF Whole
  <2>3. Whole(call, seen, writes)
    <3> SUFFICES ASSUME NEW n \in 1 .. writes, n \notin seen PROVE Owed(call, n)
      BY <2>2 DEF Whole
    <3>1. n \in y.wrote \/ Owed(call', n)
      BY <2>2 DEF Whole
    <3> QED  BY <3>1, OwedIs DEF Owed
  <2>4. Expects(call, plan, q)
    <3>1. CASE Fresh(y)
      <4>1. \A d \in Slots \ {c} : ~Fresh(call[d])
        BY <2>2, <3>1 DEF ExactInv, OneDrop, Fresh
      <4>2. q = plan
        BY <1>1, <1>2, <4>1 DEF Expects
      <4>3. After(plan, y) = plan
        BY DEF After
      <4> QED  BY <3>1, <4>2, <4>3 DEF Expects
    <3>2. CASE ~Fresh(y)
      <4>1. \A d \in Slots : Fresh(call'[d]) <=> Fresh(call[d])
        BY <1>1, <1>2, <3>2
      <4>2. \A d \in Slots : Fresh(call'[d]) => call'[d] = call[d]
        BY <1>1, <1>2
      <4> QED  BY <4>1, <4>2 DEF Expects
    <3> QED  BY <3>1, <3>2
  <2>5. Missing(call', seen') = Missing(call, seen)
    <3>1. Missing(call, seen \cup y.wrote) = Missing(call, seen)
      BY MissingGrows
    <3> DEFINE S == seen \cup y.wrote
    <3>2. Missing(call', S) = Missing(call, S)
      BY <1>2, MissingSame
    <3> QED  BY <2>2, <3>1, <3>2
  <2>6. Shows(shown, q, Missing(call, seen), drag)
    BY <2>1, <2>3, <2>4 DEF ExactInv, ShownInv
  <2> QED  BY <2>5, <2>6
<1>6. RepliesInv'
  BY RepliesKept DEF ExactInv
<1> QED  BY <1>4, <1>5, <1>6 DEF ExactInv

(* A commit nobody will tell the page of.                                  *)
LEMMA LostSight ==
  ASSUME BoardInv, ExactInv, writes' = writes + 1, UNCHANGED seen,
         \A d \in Slots :
           /\ Fresh(call'[d]) => Fresh(call[d])
           /\ Drops(call'[d]) => Drops(call[d])
           /\ Owes(call'[d]) \/ Replies(call'[d]) => call'[d].wrote \subseteq 1 .. writes
  PROVE  ExactInv'
<1>1. writes \in Nat /\ writes + 1 \in 1 .. writes' /\ writes + 1 \notin 1 .. writes
  BY DEF BoardInv, ServerInv
<1>2. OneDrop(call', seen')
  BY DEF ExactInv, OneDrop
<1>3. ~Owed(call', writes + 1) /\ ~OwedEarly(call', writes + 1)
  BY <1>1 DEF Owed, OwedEarly, Owes
<1>4. ~Whole(call', seen', writes')
  BY <1>1, <1>3 DEF Whole, BoardInv, PageInv
<1>5. ASSUME NEW d \in Slots, Replies(call'[d]) PROVE ~Caught(call', call'[d].wrote, writes')
  BY <1>1, <1>3, <1>5 DEF Caught
<1>6. ShownInv' /\ RepliesInv'
  BY <1>4, <1>5 DEF ShownInv, RepliesInv
<1> QED  BY <1>2, <1>6 DEF ExactInv

(* What a call says it wrote, the server has written.                      *)
LEMMA WroteIs ==
  ASSUME BoardInv, NEW d \in Slots
  PROVE  /\ Owes(call[d]) \/ Replies(call[d]) => call[d].wrote \subseteq 1 .. writes
         /\ call[d].at \in {"idle", "out"} => call[d].wrote = {}
<1>1. call[d] \in Calls /\ Sound(call[d], writes) /\ writes \in Nat
  BY DEF BoardInv, CallsInv, ServerInv
<1>2. Owes(call[d]) => call[d].wrote \subseteq 2 .. writes
  BY <1>1, KindsIs DEF Sound
<1>3. Replies(call[d]) => \E n \in 1 .. writes : call[d].wrote = 1 .. n
  BY <1>1 DEF Sound
<1> QED  BY <1>1, <1>2, <1>3 DEF Sound

(* A commit of the drop the board shows already.                           *)
LEMMA FreshStep ==
  ASSUME BoardInv, ExactInv, NEW c \in Slots, NEW x \in Calls, Goes1(c, x),
         writes' = writes + 1, UNCHANGED <<seen, view, shown, drag>>,
         Fresh(call[c]), call[c].at \in {"out", "between"}, call[c].ok \/ call[c].at = "out",
         Fresh(x), x.op = call[c].op, ~Early(x), x.wrote = call[c].wrote \cup {writes + 1},
         After(plan', x) = After(plan, call[c])
  PROVE  ExactInv'
<1> DEFINE y == call[c]
<1>1. call'[c] = x /\ \A d \in Slots \ {c} : call'[d] = call[d]
  BY DEF Goes1
<1>2. writes \in Nat /\ writes' = writes + 1 /\ y \in Calls /\ Sound(y, writes)
  BY DEF BoardInv, ServerInv, CallsInv
<1>3. Drops(y) /\ ~Failed(y) /\ ~Creates(y) /\ ~Creates(x) /\ ~Replies(x)
  BY KindsIs DEF Fresh, Failed, Creates, Told, Replies
<1>4. OneDrop(call', seen')
  <2>1. \A d \in Slots : (Fresh(call'[d]) => Fresh(call[d])) /\ (Drops(call'[d]) => Drops(call[d]))
    BY <1>1, <1>3
  <2> QED  BY <2>1 DEF ExactInv, OneDrop
<1>5. ShownInv'
  <2> SUFFICES ASSUME Whole(call', seen', writes'), view' = "board", \A d \in Slots : ~Failed(call'[d]),
                      NEW q \in Plans, Expects(call', plan', q)
               PROVE  Shows(shown', q, Missing(call', seen'), drag')
    BY DEF ShownInv
  <2>1. \A d \in Slots : ~Failed(call[d])
    BY <1>1, <1>3
  <2>2. Whole(call, seen, writes)
    <3> SUFFICES ASSUME NEW n \in 1 .. writes, n \notin seen PROVE Owed(call, n)
      BY DEF Whole
    <3>1. n \in 1 .. writes' /\ n # writes + 1
      BY <1>2
    <3>2. PICK d \in Slots : Owes(call'[d]) /\ n \in call'[d].wrote
      BY <3>1 DEF Whole, Owed
    <3>3. CASE d = c
      <4>1. n \in y.wrote
        BY <1>1, <3>1, <3>2, <3>3
      <4>2. y.at = "between" /\ y.ok
        BY <4>1, WroteIs
      <4>3. Owes(y)
        BY <4>2 DEF Owes
      <4> QED  BY <4>1, <4>3 DEF Owed
    <3>4. CASE d # c
      BY <1>1, <3>2, <3>4 DEF Owed
    <3> QED  BY <3>3, <3>4
  <2>3. \A d \in Slots \ {c} : ~Fresh(call'[d])
    BY <1>1, <2>2 DEF ExactInv, OneDrop, Whole, Fresh
  <2>4. q = After(plan', x)
    BY <1>1, <2>3 DEF Expects
  <2>5. Expects(call, plan, q)
    BY <2>4 DEF Expects
  <2>6. Missing(call', seen) = Missing(call, seen)
    BY <1>3, MissingSame
  <2>7. Shows(shown, q, Missing(call, seen), drag)
    BY <2>1, <2>2, <2>5 DEF ExactInv, ShownInv
  <2> QED  BY <2>6, <2>7
<1>6. RepliesInv'
  <2> SUFFICES ASSUME NEW d \in Slots, Replies(call'[d]), Caught(call', call'[d].wrote, writes')
               PROVE  FALSE
    BY DEF RepliesInv
  <2>1. d # c /\ call'[d] = call[d]
    BY <1>1, <1>3
  <2>2. call'[d].wrote \subseteq 1 .. writes
    BY <2>1, WroteIs
  <2>3. writes + 1 \in 1 .. writes' /\ writes + 1 \notin 1 .. writes
    BY <1>2
  <2>4. PICK e \in Slots : Early(call'[e]) /\ writes + 1 \in call'[e].wrote
    BY <2>2, <2>3 DEF Caught, OwedEarly
  <2>5. e # c /\ call'[e] = call[e]
    BY <1>1, <2>4
  <2>6. call[e].wrote \subseteq 1 .. writes
    BY <2>4, <2>5, WroteIs DEF Owes
  <2> QED  BY <2>3, <2>4, <2>5, <2>6
<1> QED  BY <1>4, <1>5, <1>6 DEF ExactInv

(* A commit the page will count as seen when it is told of it.             *)
LEMMA EarlyOwed ==
  ASSUME BoardInv, NEW c \in Slots, NEW x, Goes1(c, x), x.wrote = {writes + 1}, writes' = writes + 1
  PROVE  /\ \A S : Whole(call', S, writes') => Whole(call, S, writes)
         /\ \A S : Caught(call', S, writes') => Caught(call, S, writes)
<1>1. writes \in Nat /\ 1 .. writes \subseteq 1 .. writes' /\ writes + 1 \notin 1 .. writes
  BY DEF BoardInv, ServerInv
<1>2. ASSUME NEW n \in 1 .. writes
      PROVE  (Owed(call', n) => Owed(call, n)) /\ (OwedEarly(call', n) => OwedEarly(call, n))
  <2>1. n \notin x.wrote
    BY <1>1
  <2> QED  BY <2>1 DEF Goes1, Owed, OwedEarly
<1> QED  BY <1>1, <1>2 DEF Whole, Caught

(* A commit that changes nothing the board shows.                          *)
LEMMA EarlyStep ==
  ASSUME BoardInv, ExactInv, NEW c \in Slots, NEW x \in Calls, Goes1(c, x),
         writes' = writes + 1, UNCHANGED <<plan, seen, view, shown, drag>>,
         ~Drops(call[c]), ~Drops(x), ~Creates(call[c]), ~Creates(x), ~Replies(x),
         x.wrote = {writes + 1}
  PROVE  ExactInv'
<1>1. call'[c] = x /\ \A d \in Slots \ {c} : call'[d] = call[d]
  BY DEF Goes1
<1>2. \A d \in Slots : /\ Fresh(call'[d]) <=> Fresh(call[d])
                       /\ Drops(call'[d]) <=> Drops(call[d])
                       /\ Failed(call'[d]) <=> Failed(call[d])
                       /\ Fresh(call'[d]) => call'[d] = call[d]
  BY <1>1 DEF Fresh, Failed
<1>3. OneDrop(call', seen')
  BY <1>2 DEF ExactInv, OneDrop
<1>4. \A S : Missing(call', S) = Missing(call, S)
  BY MissingSame
<1>5. \A q : Expects(call', plan', q) => Expects(call, plan, q)
  BY <1>2 DEF Expects
<1>6. ShownInv'
  <2> SUFFICES ASSUME Whole(call', seen', writes'), view' = "board", \A d \in Slots : ~Failed(call'[d]),
                      NEW q \in Plans, Expects(call', plan', q)
               PROVE  Shows(shown', q, Missing(call', seen'), drag')
    BY DEF ShownInv
  <2>1. Whole(call, seen, writes)
    BY EarlyOwed
  <2>2. Shows(shown, q, Missing(call, seen), drag)
    BY <2>1, <1>2, <1>5 DEF ExactInv, ShownInv
  <2> QED  BY <2>2, <1>4
<1>7. RepliesInv'
  <2> SUFFICES ASSUME NEW d \in Slots, Replies(call'[d]), Caught(call', call'[d].wrote, writes')
               PROVE  Agrees(call'[d].board, plan', Missing(call', call'[d].wrote))
    BY DEF RepliesInv
  <2>1. d # c /\ call'[d] = call[d]
    BY <1>1
  <2>2. Caught(call, call[d].wrote, writes)
    BY <2>1, EarlyOwed
  <2>3. Agrees(call[d].board, plan, Missing(call, call[d].wrote))
    BY <2>1, <2>2 DEF ExactInv, RepliesInv
  <2> QED  BY <2>1, <2>3, <1>4
<1> QED  BY <1>3, <1>6, <1>7 DEF ExactInv

(* A day that was created is missing until it is added.                    *)
LEMMA MissingMore ==
  ASSUME NEW c \in Slots, NEW x, Goes1(c, x), Creates(x), x.job.day \in Days, ~Creates(call[c]),
         NEW S, ~(x.wrote \subseteq S)
  PROVE  Missing(call', S) = Missing(call, S) \cup {x.job.day}
<1>1. call'[c] = x /\ \A d \in Slots \ {c} : call'[d] = call[d]
  BY DEF Goes1
<1>2. ASSUME NEW d \in Missing(call', S) PROVE d \in Missing(call, S) \cup {x.job.day}
  BY <1>1 DEF Missing
<1>3. ASSUME NEW d \in Missing(call, S) PROVE d \in Missing(call', S)
  <2>1. PICK e \in Slots : Creates(call[e]) /\ call[e].job.day = d /\ ~(call[e].wrote \subseteq S)
    BY DEF Missing
  <2>2. call'[e] = call[e]
    BY <1>1, <2>1
  <2> QED  BY <2>1, <2>2 DEF Missing
<1>4. x.job.day \in Missing(call', S)
  BY <1>1 DEF Missing
<1> QED  BY <1>2, <1>3, <1>4

(* What a drop will leave of a plan.                                       *)
LEMMA AfterIs ==
  ASSUME NEW p \in Plans, NEW z \in Calls
  PROVE  /\ After(p, z) \in Plans /\ After(p, z).days = p.days
         /\ \A t \in Stops : After(p, z).day[t] \in {p.day[t], z.job.day, Unscheduled}
<1>1. z.job.day \in Columns /\ z.job.stops \in Seq(Stops) /\ z.job.order \in Seq(Stops)
  BY CallParts, JobParts
<1>2. CASE z.at = "out" /\ z.op = "assign"
  <2> DEFINE r == Scheduled(p, z.job.stops, z.job.day)
  <2>1. /\ r \in Plans /\ r.days = p.days
        /\ \A t \in Stops : r.day[t] \in {p.day[t], z.job.day}
    BY <1>1, ScheduledIs
  <2>2. After(p, z) = Ordered(r, z.job.order)
    BY <1>2 DEF After
  <2> HIDE DEF r
  <2> QED  BY <1>1, <2>1, <2>2, OrderedIs
<1>3. CASE z.at = "out" /\ z.op # "assign"
  BY <1>3, LoosenedIs DEF After
<1>4. CASE z.at = "between"
  BY <1>1, <1>4, OrderedIs DEF After
<1>5. CASE z.at \notin {"out", "between"}
  BY <1>5 DEF After
<1> QED  BY <1>2, <1>3, <1>4, <1>5

LEMMA SamePlaces ==
  ASSUME NEW p \in Plans, NEW r \in Plans,
         \A t \in Stops : p.day[t] = r.day[t] /\ p.pos[t] = r.pos[t]
  PROVE  p.day = r.day /\ p.pos = r.pos
BY DEF Plans

(* What a call does to the places of the stops depends on them alone.      *)
LEMMA AfterSame ==
  ASSUME NEW p \in Plans, NEW r \in Plans, r.day = p.day, r.pos = p.pos, NEW z \in Calls
  PROVE  After(r, z).day = After(p, z).day /\ After(r, z).pos = After(p, z).pos
<1>1. z.job.day \in Columns /\ z.job.stops \in Seq(Stops) /\ z.job.order \in Seq(Stops)
  BY CallParts, JobParts
<1>2. ASSUME NEW a \in Plans, NEW b \in Plans, a.day = b.day, a.pos = b.pos
      PROVE  Ordered(a, z.job.order).day = Ordered(b, z.job.order).day
             /\ Ordered(a, z.job.order).pos = Ordered(b, z.job.order).pos
  <2> DEFINE v == Ordered(a, z.job.order)
             w == Ordered(b, z.job.order)
  <2>1. v \in Plans /\ w \in Plans
    BY <1>1, OrderedIs
  <2>2. \A t \in Stops : v.day[t] = w.day[t] /\ v.pos[t] = w.pos[t]
    BY <1>1, <1>2, OrderedIs
  <2> HIDE DEF v, w
  <2>3. v.day = w.day /\ v.pos = w.pos
    BY <2>1, <2>2, SamePlaces
  <2> QED  BY <2>3 DEF v, w
<1>3. CASE z.at = "out" /\ z.op = "assign"
  <2> DEFINE a == Scheduled(p, z.job.stops, z.job.day)
             b == Scheduled(r, z.job.stops, z.job.day)
  <2>1. a \in Plans /\ b \in Plans /\ \A t \in Stops : a.day[t] = b.day[t] /\ a.pos[t] = b.pos[t]
    BY <1>1, ScheduledIs
  <2>2. After(p, z) = Ordered(a, z.job.order) /\ After(r, z) = Ordered(b, z.job.order)
    BY <1>3 DEF After
  <2> HIDE DEF a, b
  <2>3. a.day = b.day /\ a.pos = b.pos
    BY <2>1, SamePlaces
  <2> QED  BY <1>2, <2>1, <2>2, <2>3
<1>4. CASE z.at = "out" /\ z.op # "assign"
  <2> DEFINE S == {s \in ToSet(z.job.stops) : p.day[s] = z.job.day}
             a == Loosened(p, S)
             b == Loosened(r, S)
  <2>1. After(p, z) = a /\ After(r, z) = b
    BY <1>4 DEF After
  <2> HIDE DEF S
  <2>2. a \in Plans /\ b \in Plans /\ \A t \in Stops : a.day[t] = b.day[t] /\ a.pos[t] = b.pos[t]
    BY LoosenedIs
  <2> HIDE DEF a, b
  <2>3. a.day = b.day /\ a.pos = b.pos
    BY <2>2, SamePlaces
  <2> QED  BY <2>1, <2>3
<1>5. CASE z.at = "between"
  BY <1>2, <1>5 DEF After
<1>6. CASE z.at \notin {"out", "between"}
  BY <1>6 DEF After
<1> QED  BY <1>3, <1>4, <1>5, <1>6

(* The steps of the server.                                                *)
LEMMA CreateExact ==
  ASSUME BoardInv, ExactInv, NEW c \in Slots, ServeCreate(c)
  PROVE  ExactInv'
<1>1. /\ call[c].at = "out" /\ call[c].op = "create" /\ writes' = writes + 1
      /\ UNCHANGED <<seen, view, shown, drag>>
  BY CreateIs DEF page
<1>2. PICK d \in Days, x \in Calls :
        /\ d \notin ToSet(plan.days) /\ \A e \in Slots : call[e].job.day # d
        /\ plan' = [plan EXCEPT !.days = Append(@, d)]
        /\ Goes1(c, x) /\ x.at = "back" /\ x.by = call[c].by /\ x.op = "create" /\ x.ok
        /\ x.job.day = d /\ x.wrote = {writes + 1}
  BY CreateIs
<1>3. /\ plan \in Plans /\ Placed(plan) /\ writes \in Nat
      /\ seen # None => seen \subseteq 1 .. writes
      /\ call[c] \in Calls /\ Sound(call[c], writes)
  BY DEF BoardInv, ServerInv, PageInv, CallsInv
<1>4. /\ plan' \in Plans /\ plan'.day = plan.day /\ plan'.pos = plan.pos
      /\ ToSet(plan'.days) = ToSet(plan.days) \cup {d}
  <2>1. plan' = [plan EXCEPT !.days = Append(@, d)] /\ d \notin ToSet(plan.days)
    BY <1>2
  <2>2. plan \in Plans /\ Placed(plan)
    BY <1>3
  <2> QED  BY <2>1, <2>2, DayOfPlan
<1>5. call'[c] = x /\ \A e \in Slots \ {c} : call'[e] = call[e]
  BY <1>2 DEF Goes1
<1>6. /\ call[c].by # "drop" /\ ~Drops(x) /\ ~Drops(call[c]) /\ Creates(x) /\ ~Creates(call[c])
      /\ ~Replies(x)
  BY <1>1, <1>2, <1>3 DEF Sound, Drops, Creates, Told, Replies
<1>7. \A e \in Slots : /\ Fresh(call'[e]) <=> Fresh(call[e])
                       /\ Drops(call'[e]) <=> Drops(call[e])
                       /\ Failed(call'[e]) <=> Failed(call[e])
                       /\ Fresh(call'[e]) => call'[e] = call[e]
  BY <1>5, <1>6 DEF Fresh, Failed
<1>8. OneDrop(call', seen')
  BY <1>1, <1>7 DEF ExactInv, OneDrop
<1>9. ASSUME NEW S \in SUBSET (1 .. writes) PROVE Missing(call', S) = Missing(call, S) \cup {d}
  <2>1. ~(x.wrote \subseteq S)
    BY <1>2, <1>3
  <2> QED  BY <2>1, <1>2, <1>6, MissingMore
<1>10. \A t \in Stops : plan.day[t] # d
  BY <1>2, <1>3, BoardAssumption DEF Placed
<1>11. ASSUME NEW q \in Plans, Expects(call', plan', q)
       PROVE  \E p \in Plans :
                /\ Expects(call, plan, p) /\ d \notin ToSet(p.days)
                /\ ToSet(q.days) = ToSet(p.days) \cup {d} /\ q.day = p.day /\ q.pos = p.pos
                /\ \A t \in Stops : p.day[t] # d
  <2>1. CASE q = plan' /\ \A e \in Slots : ~Fresh(call'[e])
    <3>1. Expects(call, plan, plan)
      BY <2>1, <1>7 DEF Expects
    <3> QED  BY <3>1, <2>1, <1>2, <1>3, <1>4, <1>10
  <2>2. CASE \E e \in Slots : Fresh(call'[e]) /\ q = After(plan', call'[e])
    <3>1. PICK e \in Slots : Fresh(call[e]) /\ q = After(plan', call[e])
      BY <2>2, <1>7
    <3> DEFINE p == After(plan, call[e])
    <3>2. call[e] \in Calls
      BY DEF BoardInv, CallsInv
    <3>3. /\ p \in Plans /\ p.days = plan.days
          /\ \A t \in Stops : p.day[t] \in {plan.day[t], call[e].job.day, Unscheduled}
      BY <1>3, <3>2, AfterIs
    <3>4. q.days = plan'.days
      BY <1>4, <3>1, <3>2, AfterIs
    <3>5. q.day = p.day /\ q.pos = p.pos
      BY <1>3, <1>4, <3>1, <3>2, AfterSame
    <3>6. Expects(call, plan, p)
      BY <3>1 DEF Expects
    <3> HIDE DEF p
    <3>7. \A t \in Stops : p.day[t] # d
      BY <1>2, <1>10, <3>3, BoardAssumption
    <3> QED  BY <1>2, <1>4, <3>3, <3>4, <3>5, <3>6, <3>7
  <2> QED  BY <1>11, <2>1, <2>2 DEF Expects
<1>12. ShownInv'
  <2> SUFFICES ASSUME Whole(call', seen', writes'), view' = "board", \A e \in Slots : ~Failed(call'[e]),
                      NEW q \in Plans, Expects(call', plan', q)
               PROVE  Shows(shown', q, Missing(call', seen'), drag')
    BY DEF ShownInv
  <2>1. Whole(call, seen, writes) /\ seen # None
    BY <1>1, <1>2, EarlyOwed DEF Whole
  <2>2. PICK p \in Plans :
          /\ Expects(call, plan, p) /\ d \notin ToSet(p.days)
          /\ ToSet(q.days) = ToSet(p.days) \cup {d} /\ q.day = p.day /\ q.pos = p.pos
          /\ \A t \in Stops : p.day[t] # d
    BY <1>11
  <2>3. Shows(shown, p, Missing(call, seen), drag)
    BY <1>1, <1>7, <2>1, <2>2 DEF ExactInv, ShownInv
  <2>4. Missing(call', seen') = Missing(call, seen) \cup {d}
    BY <1>1, <1>3, <1>9, <2>1
  <2>5. Shows(shown, q, Missing(call, seen) \cup {d}, drag)
    BY <2>2, <2>3, DayMissing DEF Shows
  <2> QED  BY <1>1, <2>4, <2>5
<1>13. RepliesInv'
  <2> SUFFICES ASSUME NEW e \in Slots, Replies(call'[e]), Caught(call', call'[e].wrote, writes')
               PROVE  Agrees(call'[e].board, plan', Missing(call', call'[e].wrote))
    BY DEF RepliesInv
  <2>1. e # c /\ call'[e] = call[e]
    BY <1>5, <1>6
  <2> DEFINE S == call[e].wrote
  <2>2. S \in SUBSET (1 .. writes) /\ Caught(call, S, writes)
    BY <1>1, <1>2, <2>1, EarlyOwed, WroteIs
  <2>3. Agrees(call[e].board, plan, Missing(call, S))
    BY <2>1, <2>2 DEF ExactInv, RepliesInv
  <2>4. Missing(call', S) = Missing(call, S) \cup {d}
    BY <1>9, <2>2
  <2>5. Agrees(call[e].board, plan', Missing(call, S) \cup {d})
    BY <1>2, <1>3, <1>4, <1>10, <2>3, DayMissing
  <2> QED  BY <2>1, <2>4, <2>5
<1> QED  BY <1>8, <1>12, <1>13 DEF ExactInv

(* The commits of the other handlers.                                      *)
LEMMA OthersLost ==
  ASSUME BoardInv, ExactInv, NEW c \in Slots, NEW x, Goes1(c, x), writes' = writes + 1, UNCHANGED seen,
         ~Fresh(x), ~Early(x), ~Replies(x), Drops(x) => Drops(call[c])
  PROVE  ExactInv'
<1>1. call'[c] = x /\ \A d \in Slots \ {c} : call'[d] = call[d]
  BY DEF Goes1
<1>2. ~Owes(x)
  BY DEF Owes
<1>3. \A d \in Slots :
        /\ Fresh(call'[d]) => Fresh(call[d])
        /\ Drops(call'[d]) => Drops(call[d])
        /\ Owes(call'[d]) \/ Replies(call'[d]) => call'[d].wrote \subseteq 1 .. writes
  BY <1>1, <1>2, WroteIs
<1> QED  BY <1>3, LostSight

LEMMA HandlersExact ==
  ASSUME BoardInv, ExactInv, NEW c \in Slots,
         \/ AssignDay(c) \/ ServeUnassign(c) \/ ServeDelete(c) \/ ServeOptimize(c) \/ ServeDetail(c)
         \/ ServeArrival(c)
  PROVE  ExactInv'
<1> DEFINE y == call[c]
<1>1. \E p : Commit(c, p, "between") \/ Commit(c, p, "back")
  <2>1. CASE AssignDay(c)
    BY <2>1 DEF AssignDay
  <2>2. CASE ServeUnassign(c)
    BY <2>2 DEF ServeUnassign
  <2>3. CASE ServeDelete(c)
    BY <2>3 DEF ServeDelete
  <2>4. CASE ServeOptimize(c)
    BY <2>4 DEF ServeOptimize
  <2>5. CASE ServeDetail(c) \/ ServeArrival(c)
    BY <2>5 DEF ServeDetail, ServeArrival
  <2> QED  BY <2>1, <2>2, <2>3, <2>4, <2>5
<1>2. y.at = "out" /\ y \in Calls /\ Sound(y, writes) /\ y.wrote = {}
  <2>1. y.at = "out"
    BY DEF AssignDay, ServeUnassign, ServeDelete, ServeOptimize, ServeDetail, ServeArrival, Handles
  <2> QED  BY <2>1, WroteIs DEF BoardInv, CallsInv
<1>3. writes' = writes + 1 /\ UNCHANGED <<seen, view, shown, drag>>
  BY <1>1, CommitIs DEF page
<1>4. ~Creates(y) /\ ~Early(y)
  BY <1>2 DEF Creates, Early, Told
<1>5. CASE AssignDay(c) /\ Fresh(y)
  <2> DEFINE p == Scheduled(plan, y.job.stops, y.job.day)
  <2>1. Commit(c, p, "between") /\ y.op = "assign"
    BY <1>5 DEF AssignDay, Handles
  <2>2. plan' = p
    BY <2>1, CommitIs
  <2>3. PICK x \in Calls :
          /\ Goes1(c, x) /\ x.at = "between" /\ x.by = y.by /\ x.op = y.op /\ x.job = y.job
          /\ x.wrote = {writes + 1} /\ x.fresh = y.fresh
    BY <2>1, CommitIs
  <2>4. After(plan', x) = After(plan, y)
    BY <1>2, <2>1, <2>2, <2>3 DEF After
  <2>5. Fresh(x) /\ ~Early(x)
    BY <1>5, <2>3 DEF Fresh, Drops, Early, Told
  <2>6. x.wrote = y.wrote \cup {writes + 1}
    BY <1>2, <2>3
  <2> QED  BY <1>2, <1>3, <1>5, <2>3, <2>4, <2>5, <2>6, FreshStep
<1>6. CASE ServeUnassign(c) /\ Fresh(y)
  <2> DEFINE p == Loosened(plan, {s \in ToSet(y.job.stops) : plan.day[s] = y.job.day})
  <2>1. Commit(c, p, "back") /\ y.op = "unassign"
    BY <1>6 DEF ServeUnassign, Handles
  <2>2. plan' = p
    BY <2>1, CommitIs
  <2>3. PICK x \in Calls :
          /\ Goes1(c, x) /\ x.at = "back" /\ x.by = y.by /\ x.op = y.op
          /\ x.wrote = {writes + 1} /\ x.fresh = y.fresh
    BY <2>1, CommitIs
  <2>4. After(plan', x) = After(plan, y)
    BY <1>2, <2>1, <2>2, <2>3 DEF After
  <2>5. Fresh(x) /\ ~Early(x)
    BY <1>6, <2>1, <2>3 DEF Fresh, Drops, Early, Told
  <2>6. x.wrote = y.wrote \cup {writes + 1}
    BY <1>2, <2>3
  <2> QED  BY <1>2, <1>3, <1>6, <2>3, <2>4, <2>5, <2>6, FreshStep
<1>7. CASE (AssignDay(c) \/ ServeUnassign(c)) /\ ~Fresh(y)
  <2>1. y.op \in {"assign", "unassign"}
    BY <1>7 DEF AssignDay, ServeUnassign, Handles
  <2>2. PICK x \in Calls :
          /\ Goes1(c, x) /\ x.at \in {"between", "back"} /\ x.by = y.by /\ x.op = y.op /\ x.fresh = y.fresh
    BY <1>1, CommitIs
  <2>3. ~Fresh(x) /\ ~Early(x) /\ ~Replies(x) /\ (Drops(x) => Drops(y))
    BY <1>2, <1>7, <2>1, <2>2 DEF Fresh, Drops, Early, Replies
  <2> QED  BY <1>3, <2>2, <2>3, OthersLost
<1>8. CASE ServeDelete(c) \/ ServeOptimize(c)
  <2>1. \E p : Commit(c, p, "back") /\ y.op \in {"delete", "optimize"}
    BY <1>8 DEF ServeDelete, ServeOptimize, Handles
  <2>2. PICK x \in Calls :
          /\ Goes1(c, x) /\ x.at = "back" /\ x.by = y.by /\ x.op = y.op /\ x.fresh = y.fresh
    BY <2>1, CommitIs
  <2>3. y.by # "drop"
    BY <1>2, <2>1 DEF Sound
  <2>4. ~Fresh(x) /\ ~Early(x) /\ ~Replies(x) /\ (Drops(x) => Drops(y))
    BY <2>1, <2>2, <2>3 DEF Fresh, Drops, Early, Replies
  <2> QED  BY <1>3, <2>2, <2>4, OthersLost
<1>9. CASE ServeDetail(c) \/ ServeArrival(c)
  <2>1. Commit(c, plan, "back") /\ y.op \in {"detail", "time"}
    BY <1>9 DEF ServeDetail, ServeArrival, Handles
  <2>2. PICK x \in Calls :
          /\ Goes1(c, x) /\ x.at = "back" /\ x.by = y.by /\ x.op = y.op /\ x.wrote = {writes + 1}
    BY <2>1, CommitIs
  <2>3. y.by # "drop" /\ plan' = plan
    BY <1>2, <2>1, CommitIs DEF Sound
  <2>4. ~Drops(y) /\ ~Drops(x) /\ ~Creates(x) /\ ~Replies(x)
    BY <2>1, <2>2, <2>3 DEF Drops, Creates, Replies
  <2> QED  BY <1>3, <1>4, <2>2, <2>3, <2>4, EarlyStep
<1> QED  BY <1>5, <1>6, <1>7, <1>8, <1>9

LEMMA OrderExact ==
  ASSUME BoardInv, ExactInv, NEW c \in Slots, AssignOrder(c)
  PROVE  ExactInv'
<1> DEFINE y == call[c]
<1>1. /\ y.at = "between" /\ y.op = "assign" /\ y.ok
      /\ plan' = Ordered(plan, y.job.order) /\ writes' = writes + 1
      /\ UNCHANGED <<seen, view, shown, drag>>
  BY OrderIs DEF page
<1>2. PICK x \in Calls :
        /\ Goes1(c, x) /\ x.at = "back" /\ x.by = y.by /\ x.op = "assign" /\ x.ok
        /\ x.wrote = y.wrote \cup {writes + 1} /\ x.fresh = y.fresh
  BY OrderIs
<1>3. ~Early(x) /\ ~Replies(x) /\ (Fresh(x) <=> Fresh(y)) /\ (Drops(x) => Drops(y))
  BY <1>1, <1>2 DEF Early, Replies, Fresh, Drops
<1>4. CASE Fresh(y)
  <2>1. After(plan', x) = After(plan, y)
    BY <1>1, <1>2 DEF After
  <2> QED  BY <1>1, <1>2, <1>3, <1>4, <2>1, FreshStep
<1>5. CASE ~Fresh(y)
  BY <1>1, <1>2, <1>3, <1>5, OthersLost
<1> QED  BY <1>4, <1>5

LEMMA OtherEditExact ==
  ASSUME BoardInv, ExactInv, OtherEdit
  PROVE  ExactInv'
<1>1. writes' = writes + 1 /\ UNCHANGED <<call, seen>>
  BY OtherEditIs
<1> QED  BY <1>1, WroteIs, LostSight

LEMMA LoadExact ==
  ASSUME BoardInv, ExactInv, NEW c \in Slots, ServeLoad(c)
  PROVE  ExactInv'
<1> DEFINE y == call[c]
<1>1. y.at = "out" /\ y.op = "load" /\ UNCHANGED <<writes, plan, seen, view, shown, drag>>
  BY LoadIs DEF server, page
<1>2. PICK x \in Calls :
        /\ Goes1(c, x) /\ x.at = "back" /\ x.by = y.by /\ x.op = "load" /\ x.ok
        /\ x.wrote = 1 .. writes /\ x.fresh = y.fresh /\ x.board = BoardOf(plan)
  BY LoadIs
<1>3. /\ ~Owes(x) /\ ~Fresh(x) /\ ~Fresh(y) /\ (Failed(y) => Failed(x)) /\ (Drops(x) => Drops(y))
  BY <1>1, <1>2 DEF Owes, Early, Fresh, Failed, Drops
<1> QED  BY <1>1, <1>2, <1>3, QuietStep

LEMMA FailsExact ==
  ASSUME BoardInv, ExactInv, NEW c \in Slots, Refuse(c) \/ Lost(c)
  PROVE  ExactInv'
<1> DEFINE y == call[c]
<1>1. y.at # "idle" /\ UNCHANGED <<writes, plan, seen, view, shown, drag>>
  BY FailsIs DEF server, page
<1>2. PICK x \in Calls :
        /\ Goes1(c, x) /\ x.at = "back" /\ x.by = y.by /\ x.op = y.op
        /\ ~x.ok /\ x.wrote = {} /\ x.fresh = y.fresh
  BY FailsIs
<1>3. /\ ~Owes(x) /\ ~Replies(x) /\ (Fresh(x) => Failed(x) /\ Fresh(y)) /\ (Fresh(y) => Failed(x))
      /\ (Failed(y) => Failed(x)) /\ (Drops(x) => Drops(y))
  BY <1>1, <1>2 DEF Owes, Early, Told, Replies, Fresh, Failed, Drops
<1> QED  BY <1>1, <1>2, <1>3, QuietStep

(* The steps of the page.                                                  *)
LEMMA SentExact ==
  ASSUME BoardInv, ExactInv, UNCHANGED <<server, view, shown, drag, seen>>,
         NEW by, NEW op, NEW job, Sends(by, op, job), by # "drop"
  PROVE  ExactInv'
<1>1. PICK c \in Slots, x \in Calls : call[c].at = "idle" /\ Goes1(c, x) /\ Asked(x, by, op, job)
  BY DEF Sends
<1>2. UNCHANGED <<writes, plan, seen, view, shown, drag>>
  BY DEF server
<1>3. ~Owes(x) /\ ~Replies(x) /\ ~Drops(x) /\ ~Fresh(x) /\ ~Fresh(call[c]) /\ ~Failed(call[c])
  BY <1>1 DEF Asked, Owes, Early, Told, Replies, Fresh, Failed, Drops
<1> QED  BY <1>1, <1>2, <1>3, QuietStep

LEMMA CallsStay ==
  ASSUME ExactInv, UNCHANGED <<call, plan, writes>>, seen' = seen \/ seen' = None
  PROVE  OneDrop(call', seen') /\ RepliesInv'
<1>1. OneDrop(call', seen')
  BY DEF ExactInv, OneDrop
<1>2. RepliesInv'
  BY DEF ExactInv, RepliesInv
<1> QED  BY <1>1, <1>2

LEMMA BrokenExact ==
  ASSUME seen' = None
  PROVE  OneDrop(call', seen') /\ ShownInv'
BY DEF OneDrop, ShownInv, Whole

LEMMA DragStartExact ==
  ASSUME BoardInv, ExactInv, DragStart
  PROVE  ExactInv'
<1>1. PICK s \in Stops :
        /\ "drag" \in ChipOffers(s)
        /\ drag' = [stop |-> s, origin |-> Container(shown, s), home |-> Container(shown, s),
                    moved |-> FALSE]
  BY DEF DragStart
<1>2. drag = None /\ view = "board" /\ UNCHANGED <<writes, plan, view, shown, call, seen>>
  BY <1>1 DEF DragStart, ChipOffers, Editable, server
<1>3. OneDrop(call', seen') /\ RepliesInv'
  BY <1>2, CallsStay
<1>4. shown \in Boards /\ Complete(shown)
  BY <1>2 DEF BoardInv, PageInv
<1>5. ShownInv'
  <2> SUFFICES ASSUME Whole(call, seen, writes), \A c \in Slots : ~Failed(call[c]),
                      NEW q \in Plans, Expects(call, plan, q)
               PROVE  Shows(shown, q, Missing(call, seen), drag')
    BY <1>2 DEF ShownInv
  <2>1. Agrees(shown, q, Missing(call, seen))
    BY <1>2 DEF ExactInv, ShownInv, Shows
  <2>2. Container(shown, s) = q.day[s]
    BY <1>4, <2>1, AgreesOnDays
  <2>3. ~drag'.moved /\ drag'.stop = s /\ drag'.home = q.day[s]
    BY <1>1, <2>2
  <2> QED  BY <2>1, <2>3 DEF Shows
<1> QED  BY <1>3, <1>5 DEF ExactInv

LEMMA DragOverExact ==
  ASSUME BoardInv, ExactInv, DragOver
  PROVE  ExactInv'
<1>1. /\ drag \in Drags /\ shown \in Boards /\ Complete(shown) /\ Dragged(shown, shown', drag.stop)
      /\ drag' \in Drags /\ drag'.stop = drag.stop /\ drag'.home = drag.home /\ drag'.moved
      /\ UNCHANGED <<writes, plan, view, call, seen>> /\ drag # None /\ drag' # None
  BY DragOverIs, DragParts DEF server
<1>2. OneDrop(call', seen') /\ RepliesInv'
  BY <1>1, CallsStay
<1>3. ShownInv'
  <2> SUFFICES ASSUME Whole(call, seen, writes), view = "board", \A c \in Slots : ~Failed(call[c]),
                      NEW q \in Plans, Expects(call, plan, q)
               PROVE  Shows(shown', q, Missing(call, seen), drag')
    BY <1>1 DEF ShownInv
  <2>1. Shows(shown, q, Missing(call, seen), drag)
    BY DEF ExactInv, ShownInv
  <2>2. Nearly(shown, q, Missing(call, seen), drag.stop) /\ q.day[drag.stop] = drag.home
    BY <1>1, <2>1, AgreesIsNearly DEF Shows
  <2>3. Nearly(shown', q, Missing(call, seen), drag.stop)
    BY <1>1, <2>2, DraggedNearly
  <2> QED  BY <1>1, <2>2, <2>3 DEF Shows
<1> QED  BY <1>2, <1>3 DEF ExactInv

LEMMA AbandonExact ==
  ASSUME BoardInv, ExactInv, DragAbandoned
  PROVE  ExactInv'
<1>1. /\ UNCHANGED <<writes, plan, view, shown, call>> /\ drag # None /\ drag' = None
      /\ seen' = IF drag.moved THEN None ELSE seen
  BY DEF DragAbandoned, server
<1>2. OneDrop(call', seen') /\ RepliesInv'
  BY <1>1, CallsStay
<1>3. ShownInv'
  <2>1. CASE drag.moved
    BY <1>1, <2>1, BrokenExact
  <2>2. CASE ~drag.moved
    <3> SUFFICES ASSUME Whole(call, seen, writes), view = "board", \A c \in Slots : ~Failed(call[c]),
                        NEW q \in Plans, Expects(call, plan, q)
                 PROVE  Shows(shown, q, Missing(call, seen), drag')
      BY <1>1, <2>2 DEF ShownInv
    <3>1. Shows(shown, q, Missing(call, seen), drag)
      BY DEF ExactInv, ShownInv
    <3> QED  BY <1>1, <2>2, <3>1 DEF Shows
  <2> QED  BY <2>1, <2>2
<1> QED  BY <1>2, <1>3 DEF ExactInv

LEMMA TripExact ==
  ASSUME BoardInv, ExactInv, TripAnswered
  PROVE  ExactInv'
<1>1. UNCHANGED <<writes, plan, view, shown, drag, call, seen>>
  BY DEF TripAnswered, server
<1>2. OneDrop(call', seen') /\ RepliesInv'
  BY <1>1, CallsStay
<1>3. ShownInv'
  BY <1>1 DEF ExactInv, ShownInv
<1> QED  BY <1>2, <1>3 DEF ExactInv

(* What the drop saves is what the board shows.                            *)
LEMMA DropSaves ==
  ASSUME BoardInv, NEW s, s = drag.stop, NEW to, to = Container(shown, s), drag \in Drags,
         shown \in Boards, Complete(shown), to = Unscheduled => drag.home = drag.origin,
         NEW m, Shows(shown, plan, m, drag)
  PROVE  /\ to # Unscheduled => Agrees(shown, Ordered(Scheduled(plan, <<s>>, to), StopsOf(shown, to)), m)
         /\ to = Unscheduled =>
              Agrees(shown, Loosened(plan, {t \in ToSet(<<s>>) : plan.day[t] = drag.origin}), m)
         /\ to = Unscheduled /\ drag.origin = Unscheduled => Agrees(shown, plan, m)
<1>1. s \in Stops /\ drag # None /\ plan \in Plans
  BY DragParts DEF BoardInv, ServerInv
<1>2. Nearly(shown, plan, m, s) /\ plan.day[s] = drag.home
  BY <1>1, AgreesIsNearly DEF Shows
<1>3. to # Unscheduled => Agrees(shown, Ordered(Scheduled(plan, <<s>>, to), StopsOf(shown, to)), m)
  BY <1>1, <1>2, DropToDay
<1>4. ASSUME to = Unscheduled
      PROVE  /\ Agrees(shown, Loosened(plan, {t \in ToSet(<<s>>) : plan.day[t] = drag.origin}), m)
             /\ drag.origin = Unscheduled => Agrees(shown, plan, m)
  <2>1. plan.day[s] = drag.origin /\ Container(shown, s) = Unscheduled
    BY <1>2, <1>4
  <2> QED  BY <1>1, <1>2, <2>1, DropToNone
<1> QED  BY <1>3, <1>4

LEMMA DragEndExact ==
  ASSUME BoardInv, ExactInv, DragEnd
  PROVE  ExactInv'
<1> DEFINE s == drag.stop
           to == Container(shown, s)
           assign == Job(to, <<s>>, StopsOf(shown, to))
           loosen == Job(drag.origin, <<s>>, <<>>)
           Lost1 == Busy("drop") \/ (to = Unscheduled /\ drag.home # drag.origin)
<1>1. /\ UNCHANGED <<writes, plan, view, shown>> /\ drag' = None
      /\ drag \in Drags /\ shown \in Boards /\ Complete(shown) /\ s \in Stops /\ to \in Columns
  BY DragEndIs, DragParts DEF server, DragEnd, BoardInv, PageInv
<1>2. IF to # Unscheduled
      THEN Sends("drop", "assign", assign) /\ assign \in Jobs
      ELSE IF drag.origin # Unscheduled
           THEN Sends("drop", "unassign", loosen) /\ loosen \in Jobs
           ELSE UNCHANGED call
  BY DragEndIs
<1>3. seen' = IF Lost1 THEN None ELSE seen
  BY DEF DragEnd
<1> HIDE DEF assign, loosen, Lost1
<1>4. CASE to = Unscheduled /\ drag.origin = Unscheduled
  <2>1. UNCHANGED call /\ (seen' = seen \/ seen' = None)
    BY <1>2, <1>3, <1>4
  <2>2. OneDrop(call', seen') /\ RepliesInv'
    BY <1>1, <2>1, CallsStay
  <2>3. CASE Lost1
    BY <1>3, <2>2, <2>3, BrokenExact DEF ExactInv
  <2>4. CASE ~Lost1
    <3>1. seen' = seen /\ (\A c \in Slots : ~Drops(call[c])) /\ drag.home = drag.origin
      BY <1>3, <1>4, <2>4 DEF Lost1, Busy, Drops
    <3>2. ShownInv'
      <4> SUFFICES ASSUME Whole(call, seen, writes), view = "board", \A c \in Slots : ~Failed(call[c]),
                          NEW q \in Plans, Expects(call, plan, q)
                   PROVE  Shows(shown, q, Missing(call, seen), drag')
        BY <1>1, <2>1, <3>1 DEF ShownInv
      <4>1. q = plan
        BY <3>1 DEF Expects, Fresh
      <4>2. Shows(shown, plan, Missing(call, seen), drag)
        BY <4>1 DEF ExactInv, ShownInv
      <4>3. Agrees(shown, plan, Missing(call, seen))
        BY <1>1, <1>4, <3>1, <4>2, DropSaves
      <4> QED  BY <1>1, <4>1, <4>3 DEF Shows
    <3> QED  BY <2>2, <3>2 DEF ExactInv
  <2> QED  BY <2>3, <2>4
<1>5. CASE ~(to = Unscheduled /\ drag.origin = Unscheduled)
  <2> DEFINE op == IF to # Unscheduled THEN "assign" ELSE "unassign"
             job == IF to # Unscheduled THEN assign ELSE loosen
  <2>1. Sends("drop", op, job) /\ op \in {"assign", "unassign"}
    BY <1>2, <1>5
  <2> HIDE DEF op, job
  <2>2. PICK c \in Slots, x \in Calls :
          call[c].at = "idle" /\ Goes1(c, x) /\ Asked(x, "drop", op, job)
    BY <2>1 DEF Sends
  <2>3. /\ call'[c] = x /\ \A d \in Slots \ {c} : call'[d] = call[d]
    BY <2>2 DEF Goes1
  <2>4. /\ Fresh(x) /\ ~Owes(x) /\ ~Replies(x) /\ ~Creates(x) /\ ~Creates(call[c])
        /\ ~Failed(call[c]) /\ x.at = "out" /\ x.op = op /\ x.job = job
    BY <2>1, <2>2 DEF Asked, Fresh, Drops, Owes, Early, Told, Replies, Creates, Failed
  <2>5. RepliesInv'
    BY <1>1, <2>2, <2>4, RepliesKept DEF ExactInv
  <2>6. CASE Lost1
    BY <1>3, <2>5, <2>6, BrokenExact DEF ExactInv
  <2>7. CASE ~Lost1
    <3>1. /\ seen' = seen /\ \A d \in Slots : ~Drops(call[d])
          /\ to = Unscheduled => drag.home = drag.origin
      BY <1>3, <2>7 DEF Lost1, Busy, Drops
    <3>2. \A d \in Slots \ {c} : ~Drops(call'[d]) /\ ~Fresh(call'[d])
      BY <2>3, <3>1 DEF Fresh
    <3>3. OneDrop(call', seen')
      BY <3>2 DEF OneDrop
    <3>4. ShownInv'
      <4> SUFFICES ASSUME Whole(call', seen, writes), view = "board",
                          NEW q \in Plans, Expects(call', plan, q)
                   PROVE  Shows(shown, q, Missing(call', seen), drag')
        BY <1>1, <3>1 DEF ShownInv
      <4>1. Whole(call, seen, writes)
        BY <2>2, <2>4, OwedIs DEF Whole
      <4>2. Missing(call', seen) = Missing(call, seen)
        BY <2>2, <2>4, MissingSame
      <4>3. (\A d \in Slots : ~Failed(call[d])) /\ Expects(call, plan, plan) /\ plan \in Plans
        BY <3>1 DEF Failed, Expects, Fresh, BoardInv, ServerInv
      <4>4. Shows(shown, plan, Missing(call, seen), drag)
        BY <4>1, <4>3 DEF ExactInv, ShownInv
      <4>5. q = After(plan, x)
        BY <2>3, <2>4, <3>2 DEF Expects
      <4>6. CASE to # Unscheduled
        <5>1. x.op = "assign" /\ x.job = assign
          BY <2>4, <4>6 DEF op, job
        <5>2. assign.day = to /\ assign.stops = <<s>> /\ assign.order = StopsOf(shown, to)
          BY DEF assign, Job
        <5>3. q = Ordered(Scheduled(plan, <<s>>, to), StopsOf(shown, to))
          BY <2>4, <4>5, <5>1, <5>2 DEF After
        <5>4. Agrees(shown, q, Missing(call, seen))
          BY <1>1, <3>1, <4>4, <4>6, <5>3, DropSaves
        <5> QED  BY <1>1, <4>2, <5>4 DEF Shows
      <4>7. CASE to = Unscheduled
        <5>1. x.op = "unassign" /\ x.job = loosen
          BY <2>4, <4>7 DEF op, job
        <5>2. loosen.day = drag.origin /\ loosen.stops = <<s>>
          BY DEF loosen, Job
        <5>3. q = Loosened(plan, {t \in ToSet(<<s>>) : plan.day[t] = drag.origin})
          BY <2>4, <4>5, <5>1, <5>2 DEF After
        <5>4. Agrees(shown, q, Missing(call, seen))
          BY <1>1, <3>1, <4>4, <4>7, <5>3, DropSaves
        <5> QED  BY <1>1, <4>2, <5>4 DEF Shows
      <4> QED  BY <4>6, <4>7
    <3> QED  BY <2>5, <3>3, <3>4 DEF ExactInv
  <2> QED  BY <2>6, <2>7
<1> QED  BY <1>4, <1>5

(* The answers.                                                            *)
LEMMA AnsweredIs ==
  ASSUME BoardInv, NEW c \in Slots, NEW x, Next1(c, x), call[c].at = "back"
  PROVE  /\ x \in Calls /\ Goes1(c, x) /\ ~Owes(x) /\ ~Replies(x) /\ ~Fresh(x)
         /\ (Drops(x) => Drops(call[c])) /\ ~Creates(x)
<1>1. CASE x = NoCall
  BY <1>1, NoCallIs DEF Next1, Owes, Early, Told, Replies, Fresh, Drops, Creates
<1>2. CASE \E op, job : Asked(x, x.by, op, job) /\ (x.by = "drop" => op = "load")
  BY <1>2 DEF Next1, Asked, Owes, Early, Told, Replies, Fresh, Drops, Creates
<1> QED  BY <1>1, <1>2 DEF Next1

LEMMA SilentExact ==
  ASSUME BoardInv, ExactInv, NEW c \in Slots, Silent(c)
  PROVE  ExactInv'
<1> DEFINE y == call[c]
<1>1. /\ y.at = "back" /\ UNCHANGED <<writes, plan, view, shown, drag>>
      /\ y \in Calls /\ Sound(y, writes)
  BY SilentIs DEF server, BoardInv, CallsInv
<1>2. CASE MenuAnswered(c) \/ DistributeAnswered(c) \/ DeleteAnswered(c) \/ OptimizeAnswered(c)
  <2>1. seen' = seen /\ y.by # "drop"
    BY <1>2 DEF MenuAnswered, DistributeAnswered, DeleteAnswered, OptimizeAnswered, Back, StillBoard
  <2>2. PICK x : Next1(c, x)
    BY SilentIs
  <2>3. ~Drops(y) /\ ~Fresh(y) /\ ~Failed(y)
    BY <2>1 DEF Drops, Fresh, Failed
  <2> QED  BY <1>1, <2>1, <2>2, <2>3, AnsweredIs, QuietStep
<1>3. CASE DropAnswered(c)
  <2>1. /\ y.by = "drop" /\ y.op \in {"assign", "unassign"}
        /\ IF y.ok THEN Ends(c) ELSE Reloads(c)
        /\ seen' = IF y.ok /\ y.fresh THEN With(y.wrote) ELSE seen
    BY <1>3 DEF DropAnswered, Back
  <2>2. Drops(y) /\ ~Creates(y)
    BY <1>1, <2>1 DEF Drops, Creates
  <2>3. CASE y.ok
    <3>1. /\ Goes1(c, NoCall) /\ NoCall \in Calls
          /\ ~Owes(NoCall) /\ ~Replies(NoCall) /\ ~Fresh(NoCall) /\ ~Drops(NoCall)
      BY <2>1, <2>3, EndsIs, NoCallIs DEF Owes, Early, Told, Replies, Fresh, Drops
    <3>2. ~Failed(y)
      BY <2>1, <2>3 DEF Failed
    <3>3. CASE y.fresh
      <4>1. Owes(y) /\ seen' = With(y.wrote) /\ y.op # "load"
        BY <1>1, <2>1, <2>2, <2>3, <3>3 DEF Owes, Fresh
      <4> QED  BY <1>1, <2>2, <3>1, <3>2, <4>1, SettleStep
    <3>4. CASE ~y.fresh
      <4>1. ~Fresh(y) /\ seen' = seen
        BY <2>1, <3>4 DEF Fresh
      <4> QED  BY <1>1, <3>1, <3>2, <4>1, QuietStep
    <3> QED  BY <3>3, <3>4
  <2>4. CASE ~y.ok
    <3>1. PICK x \in Calls : Goes1(c, x) /\ Asked(x, "drop", "load", NoJob)
      BY <2>1, <2>4, ReloadsIs
    <3>2. ~Owes(x) /\ ~Replies(x) /\ ~Fresh(x) /\ Failed(x)
      BY <3>1 DEF Asked, Owes, Early, Told, Replies, Fresh, Drops, Failed
    <3>3. seen' = seen
      BY <2>1, <2>4
    <3> QED  BY <1>1, <2>2, <3>1, <3>2, <3>3, QuietStep
  <2> QED  BY <2>3, <2>4
<1>4. CASE DetailAnswered(c) \/ ArrivalAnswered(c)
  <2>1. y.by # "drop" /\ y.op \in {"detail", "time"} /\ seen' = With(y.wrote)
    BY <1>4 DEF DetailAnswered, ArrivalAnswered, Back
  <2>2. PICK x : Next1(c, x)
    BY SilentIs
  <2>3. ~Drops(y) /\ ~Failed(y) /\ ~Creates(y) /\ y.op # "load"
    BY <2>1 DEF Drops, Failed, Creates
  <2>4. Owes(y) \/ y.wrote = {}
    <3>1. y.ok => Owes(y)
      BY <1>1, <2>1 DEF Owes, Early, Told
    <3>2. ~y.ok => y.wrote = {}
      BY <1>1 DEF Sound
    <3> QED  BY <3>1, <3>2
  <2> QED  BY <1>1, <2>1, <2>2, <2>3, <2>4, AnsweredIs, SettleStep
<1> QED  BY <1>2, <1>3, <1>4 DEF Silent

(* The day of a call that added one is no longer missing.                  *)
LEMMA MissingLess ==
  ASSUME BoardInv, NEW c \in Slots, NEW x, Goes1(c, x), ~Creates(x), Creates(call[c]), NEW S,
         ~(call[c].wrote \subseteq S)
  PROVE  /\ call[c].job.day \in Missing(call, S)
         /\ Missing(call', S \cup call[c].wrote) = Missing(call, S) \ {call[c].job.day}
<1> DEFINE y == call[c]
           T == S \cup y.wrote
<1>1. call'[c] = x /\ \A d \in Slots \ {c} : call'[d] = call[d]
  BY DEF Goes1
<1>2. y.job.day \in Days /\ y.op # "load"
  BY DEF BoardInv, CallsInv, Sound, Creates
<1>3. y.job.day \in Missing(call, S)
  BY <1>2 DEF Missing
<1>4. ASSUME NEW e \in Slots \ {c}, Creates(call[e])
      PROVE  (call[e].wrote \subseteq T <=> call[e].wrote \subseteq S) /\ call[e].job.day # y.job.day
  <2>1. Apart(y, call[e]) /\ call[e].op # "load"
    BY <1>4 DEF BoardInv, CallsInv, Creates
  <2>2. y.wrote \cap call[e].wrote = {} /\ y.job.day # call[e].job.day
    BY <1>2, <1>4, <2>1 DEF Apart
  <2> QED  BY <2>2
<1>5. ASSUME NEW d \in Missing(call', T) PROVE d \in Missing(call, S) \ {y.job.day}
  <2>1. PICK e \in Slots : Creates(call'[e]) /\ call'[e].job.day = d /\ ~(call'[e].wrote \subseteq T)
    BY DEF Missing
  <2>2. e # c /\ call'[e] = call[e]
    BY <1>1, <2>1
  <2>3. Creates(call[e]) /\ d # y.job.day /\ ~(call[e].wrote \subseteq S) /\ call[e].job.day = d /\ d \in Days
    BY <1>4, <2>1, <2>2 DEF Missing
  <2> QED  BY <2>3 DEF Missing
<1>6. ASSUME NEW d \in Missing(call, S), d # y.job.day PROVE d \in Missing(call', T)
  <2>1. PICK e \in Slots : Creates(call[e]) /\ call[e].job.day = d /\ ~(call[e].wrote \subseteq S)
    BY DEF Missing
  <2>2. e # c /\ call'[e] = call[e]
    BY <1>1, <1>6, <2>1
  <2>3. ~(call[e].wrote \subseteq T) /\ d \in Days
    BY <1>4, <2>1, <2>2 DEF Missing
  <2> QED  BY <2>1, <2>2, <2>3 DEF Missing
<1> QED  BY <1>3, <1>5, <1>6

LEMMA CreatedExact ==
  ASSUME BoardInv, ExactInv, NEW c \in Slots, CreateAnswered(c)
  PROVE  ExactInv'
<1> DEFINE y == call[c]
           d == y.job.day
<1>1. /\ y.at = "back" /\ y.op = "create" /\ UNCHANGED <<writes, plan, view, drag>>
      /\ y \in Calls /\ Sound(y, writes)
  BY CreatedIs DEF server, BoardInv, CallsInv
<1>2. ~Drops(y) /\ ~Fresh(y) /\ ~Failed(y)
  BY <1>1 DEF Sound, Drops, Fresh, Failed
<1>3. PICK x : Next1(c, x)
  BY CreatedIs
<1>4. /\ x \in Calls /\ Goes1(c, x) /\ ~Owes(x) /\ ~Replies(x) /\ ~Fresh(x) /\ ~Drops(x) /\ ~Creates(x)
  BY <1>1, <1>2, <1>3, AnsweredIs
<1>5. CASE ~(y.ok /\ shown # None)
  <2>1. UNCHANGED <<shown, seen>>
    BY <1>5, CreatedIs
  <2> QED  BY <1>1, <1>2, <1>4, <2>1, QuietStep
<1>6. CASE y.ok /\ shown # None
  <2>1. /\ Creates(y) /\ d \in Days
        /\ shown' = [shown EXCEPT !.days = Append(@, [id |-> d, stops |-> <<>>])]
        /\ seen' = IF seen # None /\ y.wrote \subseteq seen THEN None ELSE With(y.wrote)
    BY <1>6, CreatedIs
  <2>2. RepliesInv'
    BY <1>1, <1>4, RepliesKept DEF ExactInv
  <2>3. CASE seen' = None
    BY <2>2, <2>3, BrokenExact DEF ExactInv
  <2>4. CASE seen' # None
    <3>1. seen # None /\ ~(y.wrote \subseteq seen) /\ seen' = seen \cup y.wrote
      BY <2>1, <2>4 DEF With
    <3>2. call'[c] = x /\ \A e \in Slots \ {c} : call'[e] = call[e]
      BY <1>4 DEF Goes1
    <3>3. OneDrop(call', seen')
      <4>1. \A e \in Slots : (Fresh(call'[e]) => Fresh(call[e])) /\ (Drops(call'[e]) => Drops(call[e]))
        BY <1>4, <3>2
      <4> QED  BY <3>1, <4>1 DEF ExactInv, OneDrop
    <3>4. ShownInv'
      <4> SUFFICES ASSUME Whole(call', seen', writes'), view' = "board",
                          \A e \in Slots : ~Failed(call'[e]), NEW q \in Plans, Expects(call', plan', q)
                   PROVE  Shows(shown', q, Missing(call', seen'), drag')
        BY DEF ShownInv
      <4>1. \A e \in Slots : ~Failed(call[e])
        BY <1>2, <3>2
      <4>2. Whole(call, seen, writes)
        <5> SUFFICES ASSUME NEW n \in 1 .. writes, n \notin seen PROVE Owed(call, n)
          BY <3>1 DEF Whole
        <5>1. n \in y.wrote \/ Owed(call', n)
          BY <1>1, <3>1 DEF Whole
        <5>2. Owes(y)
          BY <1>1, <2>1, KindsIs
        <5> QED  BY <1>4, <5>1, <5>2, OwedIs DEF Owed
      <4>3. Expects(call, plan, q)
        <5>1. \A e \in Slots : Fresh(call'[e]) <=> Fresh(call[e])
          BY <1>2, <1>4, <3>2
        <5>2. \A e \in Slots : Fresh(call'[e]) => call'[e] = call[e]
          BY <1>4, <3>2
        <5> QED  BY <1>1, <5>1, <5>2 DEF Expects
      <4> DEFINE m == Missing(call, seen)
      <4>4. d \in m /\ Missing(call', seen') = m \ {d}
        BY <1>4, <2>1, <3>1, MissingLess
      <4>5. Shows(shown, q, m, drag)
        BY <1>1, <4>1, <4>2, <4>3 DEF ExactInv, ShownInv
      <4>6. shown \in Boards
        BY <1>6 DEF BoardInv, PageInv
      <4> HIDE DEF m, d
      <4>7. /\ Agrees(shown, q, m) => Agrees(shown', q, m \ {d})
            /\ \A s : Nearly(shown, q, m, s) => Nearly(shown', q, m \ {d}, s)
        BY <2>1, <4>4, <4>6, DayShown
      <4> QED  BY <1>1, <4>4, <4>5, <4>7 DEF Shows
    <3> QED  BY <2>2, <3>3, <3>4 DEF ExactInv
  <2> QED  BY <2>3, <2>4
<1> QED  BY <1>5, <1>6

(* A board comes in.                                                       *)
LEMMA KindsStay ==
  ASSUME NEW x, NEW y, SameBut(x, y), y.fresh => x.fresh
  PROVE  /\ Creates(y) <=> Creates(x)
         /\ Early(y) <=> Early(x)
         /\ Replies(y) <=> Replies(x)
         /\ Drops(y) <=> Drops(x)
         /\ (Fresh(y) => Fresh(x)) /\ (Failed(y) => Failed(x)) /\ (Owes(y) => Owes(x))
         /\ ~y.fresh => ~Fresh(y) /\ ~Failed(y)
BY DEF SameBut, Creates, Early, Replies, Drops, Fresh, Failed, Owes, Told

LEMMA LoadedExact ==
  ASSUME BoardInv, ExactInv, view # "error", NEW c \in Slots, LoadAnswered(c)
  PROVE  ExactInv'
<1> DEFINE y == call[c]
<1>1. /\ y.at = "back" /\ y.op = "load" /\ UNCHANGED <<writes, plan>>
      /\ call' \in [Slots -> Calls] /\ call'[c] = NoCall
      /\ \A d \in Slots \ {c} : SameBut(call[d], call'[d]) /\ call'[d].fresh = (call[d].fresh /\ ~y.ok)
      /\ y \in Calls /\ y.ok \in BOOLEAN
  BY LoadedIs, CallParts DEF server, BoardInv, CallsInv
<1>2. /\ ~Creates(NoCall) /\ ~Early(NoCall) /\ ~Replies(NoCall) /\ ~Drops(NoCall) /\ ~Fresh(NoCall)
      /\ ~Failed(NoCall) /\ ~Owes(NoCall) /\ ~Creates(y) /\ ~Early(y)
  BY <1>1, NoCallIs DEF Creates, Early, Replies, Drops, Fresh, Failed, Owes, Told
<1>3. ASSUME NEW d \in Slots
      PROVE  /\ Creates(call'[d]) <=> Creates(call[d])
             /\ Early(call'[d]) <=> Early(call[d])
             /\ Replies(call'[d]) => Replies(call[d]) /\ d # c
             /\ Drops(call'[d]) => Drops(call[d])
             /\ Fresh(call'[d]) => Fresh(call[d]) /\ ~y.ok
             /\ Failed(call'[d]) => ~y.ok
             /\ d # c => SameBut(call[d], call'[d])
  <2>1. CASE d = c
    BY <1>1, <1>2, <2>1
  <2>2. CASE d # c
    <3>1. SameBut(call[d], call'[d]) /\ (call'[d].fresh => call[d].fresh /\ ~y.ok)
      BY <1>1, <2>2
    <3> QED  BY <2>2, <3>1, KindsStay
  <2> QED  BY <2>1, <2>2
<1>4. \A S : Missing(call', S) = Missing(call, S)
  <2>1. ASSUME NEW d \in Slots, Creates(call[d])
        PROVE  call'[d].job = call[d].job /\ call'[d].wrote = call[d].wrote
    <3>1. d # c
      BY <1>2, <2>1
    <3> QED  BY <1>3, <3>1 DEF SameBut
  <2> QED  BY <1>3, <2>1 DEF Missing
<1>5. \A S : Caught(call', S, writes) => Caught(call, S, writes)
  <2>1. ASSUME NEW d \in Slots, Early(call'[d]) PROVE Early(call[d]) /\ call'[d].wrote = call[d].wrote
    <3>1. d # c
      BY <1>1, <1>2, <2>1
    <3> QED  BY <1>3, <2>1, <3>1 DEF SameBut
  <2> QED  BY <2>1 DEF Caught, OwedEarly
<1>6. RepliesInv'
  <2> SUFFICES ASSUME NEW d \in Slots, Replies(call'[d]), Caught(call', call'[d].wrote, writes')
               PROVE  Agrees(call'[d].board, plan', Missing(call', call'[d].wrote))
    BY DEF RepliesInv
  <2>1. Replies(call[d]) /\ call'[d].wrote = call[d].wrote /\ call'[d].board = call[d].board
    BY <1>3 DEF SameBut
  <2>2. Caught(call, call[d].wrote, writes)
    BY <1>1, <1>5, <2>1
  <2>3. Agrees(call[d].board, plan, Missing(call, call[d].wrote))
    BY <2>1, <2>2 DEF ExactInv, RepliesInv
  <2> QED  BY <1>1, <1>4, <2>1, <2>3
<1>7. CASE ~y.ok
  <2>1. view' = "error" /\ seen' = seen
    BY <1>7, LoadedIs
  <2>2. OneDrop(call', seen')
    BY <1>3, <2>1 DEF ExactInv, OneDrop
  <2>3. ShownInv'
    BY <2>1 DEF ShownInv
  <2> QED  BY <1>6, <2>2, <2>3 DEF ExactInv
<1>8. CASE y.ok
  <2>1. shown' = y.board /\ seen' = y.wrote /\ shown' \in Boards /\ Complete(shown')
    BY <1>8, LoadedIs
  <2>2. \A d \in Slots : ~Fresh(call'[d]) /\ ~Failed(call'[d])
    BY <1>3, <1>8
  <2>3. OneDrop(call', seen')
    BY <2>2 DEF OneDrop
  <2>4. ShownInv'
    <3> SUFFICES ASSUME Whole(call', seen', writes'), NEW q \in Plans, Expects(call', plan', q)
                 PROVE  Shows(shown', q, Missing(call', seen'), drag')
      BY DEF ShownInv
    <3>1. q = plan
      BY <1>1, <2>2 DEF Expects
    <3>2. Caught(call', y.wrote, writes)
      BY <1>1, <2>1, <2>2 DEF Whole, Caught, Owed, OwedEarly, Owes
    <3>3. Replies(y) /\ Caught(call, y.wrote, writes)
      BY <1>1, <1>5, <1>8, <3>2 DEF Replies, Told
    <3>4. Agrees(y.board, plan, Missing(call, y.wrote))
      BY <3>3 DEF ExactInv, RepliesInv
    <3>5. Agrees(shown', q, Missing(call', seen'))
      BY <1>4, <2>1, <3>1, <3>4
    <3>6. CASE drag = None
      BY <1>8, <3>5, <3>6, LoadedIs DEF Shows
    <3>7. CASE drag # None
      <4>1. /\ ~drag'.moved /\ drag'.stop = drag.stop /\ drag'.home = Container(shown', drag.stop)
            /\ drag.stop \in Stops
        BY <1>8, <3>7, LoadedIs, DragParts DEF BoardInv, PageInv
      <4>2. q.day[drag.stop] = drag'.home
        BY <2>1, <3>5, <4>1, AgreesOnDays
      <4> QED  BY <3>5, <4>1, <4>2 DEF Shows
    <3> QED  BY <3>6, <3>7
  <2> QED  BY <1>6, <2>3, <2>4 DEF ExactInv
<1> QED  BY <1>1, <1>7, <1>8

-----------------------------------------------------------------------------
(* The theorem.                                                            *)

(* ExactInv holds at first and no step breaks it.                          *)
LEMMA InitExact ==
  ASSUME Init
  PROVE  ExactInv
<1>1. /\ view = "loading"
      /\ \E load \in Slots :
           call = [c \in Slots |-> IF c = load THEN [NoCall EXCEPT !.at = "out"] ELSE NoCall]
  BY DEF Init
<1> DEFINE x == [NoCall EXCEPT !.at = "out"]
<1>2. x.op = "load" /\ x.by = "open" /\ ~x.ok
  <2>1. x.op = NoCall.op /\ x.by = NoCall.by /\ x.ok = NoCall.ok
    BY NoCallIs DEF Calls
  <2> QED  BY <2>1, NoCallIs
<1> HIDE DEF x
<1>3. ASSUME NEW c \in Slots PROVE call[c].op = "load" /\ call[c].by = "open" /\ ~call[c].ok
  <2>1. call[c] \in {x, NoCall}
    BY <1>1 DEF x
  <2> QED  BY <1>2, <2>1, NoCallIs
<1>4. \A c \in Slots : ~Fresh(call[c]) /\ ~Replies(call[c])
  BY <1>3 DEF Fresh, Drops, Replies, Told
<1> QED  BY <1>1, <1>4 DEF ExactInv, OneDrop, ShownInv, RepliesInv

LEMMA StepExact ==
  ASSUME BoardInv, ExactInv, [Next]_vars
  PROVE  ExactInv'
<1>1. CASE UNCHANGED vars
  <2>1. UNCHANGED <<writes, plan, view, shown, drag, call, seen>>
    BY <1>1 DEF vars, server, page
  <2>2. OneDrop(call', seen') /\ RepliesInv'
    BY <2>1, CallsStay
  <2>3. ShownInv'
    BY <2>1 DEF ExactInv, ShownInv
  <2> QED  BY <2>2, <2>3 DEF ExactInv
<1>2. CASE Next
  <2>1. CASE view = "board" /\ Menus
    <3>1. PICK by \in Handlers \ {"drop"}, op \in Edits, job \in Jobs : Sends(by, op, job)
      BY <2>1, MenusSend
    <3>2. UNCHANGED <<server, view, shown, drag, seen>>
      BY <2>1, MenusSend
    <3> QED  BY <3>1, <3>2, SentExact
  <2>2. CASE DragStart \/ DragOver \/ DragEnd \/ DragAbandoned
    BY <2>2, DragStartExact, DragOverExact, DragEndExact, AbandonExact
  <2>3. CASE OtherEdit \/ TripAnswered
    BY <2>3, OtherEditExact, TripExact
  <2>4. ASSUME NEW c \in Slots, Serve(c) PROVE ExactInv'
    BY <2>4, HandlersExact, CreateExact, OrderExact, LoadExact DEF Serve
  <2>5. ASSUME NEW c \in Slots, Refuse(c) \/ Lost(c) PROVE ExactInv'
    BY <2>5, FailsExact
  <2>6. ASSUME NEW c \in Slots, Answered(c) PROVE ExactInv'
    <3>1. view # "error"
      BY <1>2 DEF Next
    <3>2. LoadAnswered(c) \/ CreateAnswered(c) \/ Silent(c)
      BY <2>6 DEF Answered, Silent
    <3> QED  BY <3>1, <3>2, LoadedExact, CreatedExact, SilentExact
  <2> QED  BY <1>2, <2>1, <2>2, <2>3, <2>4, <2>5, <2>6 DEF Next, User, Menus
<1> QED  BY <1>1, <1>2

(* At rest nothing is owed, missing or dragged: the board is the plan.     *)
LEMMA ExactAtRest ==
  ASSUME BoardInv, ExactInv
  PROVE  BoardIsExact
<1> SUFFICES ASSUME view = "board", drag = None, ~Busy("drop"), seen # None, seen = 1 .. writes
             PROVE  Same(shown, plan)
  BY DEF BoardIsExact
<1>1. \A c \in Slots : ~Drops(call[c])
  BY DEF Busy, Drops
<1>2. \A c \in Slots : ~Fresh(call[c]) /\ ~Failed(call[c])
  BY <1>1 DEF Fresh, Failed
<1>3. Whole(call, seen, writes)
  BY DEF Whole
<1>4. shown \in Boards /\ plan \in Plans /\ Placed(plan)
  BY DEF BoardInv, ServerInv, PageInv
<1>5. Expects(call, plan, plan)
  BY <1>2 DEF Expects
<1>6. Shows(shown, plan, Missing(call, seen), drag)
  BY <1>2, <1>3, <1>4, <1>5 DEF ExactInv, ShownInv
<1>7. Missing(call, seen) = {}
  BY NoneMissing
<1>8. Agrees(shown, plan, {})
  BY <1>6, <1>7 DEF Shows
<1> QED  BY <1>4, <1>8, AgreesIsSame

(* A board at rest that has seen every commit is the itinerary of the      *)
(* server, whatever was dragged, answered late, lost or edited by others.  *)
THEOREM BoardExact == Spec => []BoardIsExact
<1>1. Init => BoardInv /\ ExactInv
  BY InitKeeps, InitExact
<1>2. BoardInv /\ ExactInv /\ [Next]_vars => BoardInv' /\ ExactInv'
  BY StepKeeps, StepExact
<1>3. BoardInv /\ ExactInv => BoardIsExact
  BY ExactAtRest
<1> QED  BY <1>1, <1>2, <1>3, PTL DEF Spec
=============================================================================
