--------------------------- MODULE TripPageProofs ---------------------------
(***************************************************************************)
(* Theorems about TripPage, for any set of stops and any number of calls   *)
(* under way.                                                              *)
(***************************************************************************)
EXTENDS TripPage, SequenceTheorems, TLAPS

LEMMA Removed ==
  ASSUME NEW S, NEW q \in Seq(S), NEW i \in 1 .. Len(q)
  PROVE  /\ RemoveAt(q, i) \in Seq(S) /\ Len(RemoveAt(q, i)) = Len(q) - 1
         /\ \A j \in 1 .. Len(q) - 1 : RemoveAt(q, i)[j] = IF j < i THEN q[j] ELSE q[j + 1]
<1> DEFINE a == SubSeq(q, 1, i - 1)
           b == SubSeq(q, i + 1, Len(q))
<1>1. a \in Seq(S) /\ Len(a) = i - 1 /\ \A j \in 1 .. i - 1 : a[j] = q[j]
  BY SubSeqProperties
<1>2. b \in Seq(S) /\ Len(b) = Len(q) - i /\ \A j \in 1 .. Len(q) - i : b[j] = q[i + j]
  BY SubSeqProperties
<1>3. RemoveAt(q, i) = a \o b
  BY DEF RemoveAt
<1> HIDE DEF a, b
<1>4. a \o b \in Seq(S) /\ Len(a \o b) = Len(q) - 1
  <2>1. a \o b \in Seq(S) /\ Len(a \o b) = Len(a) + Len(b)
    BY <1>1, <1>2, ConcatProperties
  <2>2. Len(q) \in Nat
    OBVIOUS
  <2> QED  BY <1>1, <1>2, <2>1, <2>2
<1>5. ASSUME NEW j \in 1 .. Len(q) - 1
      PROVE  (a \o b)[j] = IF j < i THEN q[j] ELSE q[j + 1]
  <2>1. (a \o b)[j] = IF j <= i - 1 THEN a[j] ELSE b[j - (i - 1)]
    BY <1>1, <1>2, ConcatProperties
  <2> QED  BY <1>1, <1>2, <2>1
<1> QED  BY <1>3, <1>4, <1>5

LEMMA Inserted ==
  ASSUME NEW S, NEW q \in Seq(S), NEW e \in S, NEW i \in 1 .. Len(q) + 1
  PROVE  /\ InsertAt(q, i, e) \in Seq(S) /\ Len(InsertAt(q, i, e)) = Len(q) + 1
         /\ \A j \in 1 .. Len(q) + 1 :
              InsertAt(q, i, e)[j] = IF j < i THEN q[j] ELSE IF j = i THEN e ELSE q[j - 1]
<1> DEFINE a == SubSeq(q, 1, i - 1)
           b == SubSeq(q, i, Len(q))
           d == a \o <<e>>
<1>1. a \in Seq(S) /\ Len(a) = i - 1 /\ \A j \in 1 .. i - 1 : a[j] = q[j]
  BY SubSeqProperties
<1>2. b \in Seq(S) /\ Len(b) = Len(q) - i + 1 /\ \A j \in 1 .. Len(q) - i + 1 : b[j] = q[i + j - 1]
  BY SubSeqProperties
<1>3. d \in Seq(S) /\ Len(d) = i /\ \A j \in 1 .. i : d[j] = IF j < i THEN q[j] ELSE e
  BY <1>1, ConcatProperties
<1>4. InsertAt(q, i, e) = d \o b
  BY DEF InsertAt
<1> HIDE DEF b, d
<1>5. d \o b \in Seq(S) /\ Len(d \o b) = Len(q) + 1
  <2>1. d \o b \in Seq(S) /\ Len(d \o b) = Len(d) + Len(b)
    BY <1>2, <1>3, ConcatProperties
  <2>2. Len(q) \in Nat
    OBVIOUS
  <2> QED  BY <1>2, <1>3, <2>1, <2>2
<1>6. ASSUME NEW j \in 1 .. Len(q) + 1
      PROVE  (d \o b)[j] = IF j < i THEN q[j] ELSE IF j = i THEN e ELSE q[j - 1]
  <2>1. (d \o b)[j] = IF j <= i THEN d[j] ELSE b[j - i]
    BY <1>2, <1>3, ConcatProperties
  <2> QED  BY <1>2, <1>3, <2>1
<1> QED  BY <1>4, <1>5, <1>6

LEMMA WithoutIs ==
  ASSUME NEW S, NEW q \in Seq(S), NEW s
  PROVE  /\ Without(q, s) \in Seq(S)
         /\ ToSet(Without(q, s)) \subseteq ToSet(q)
         /\ IsInjective(q) => IsInjective(Without(q, s)) /\ s \notin ToSet(Without(q, s))
<1>1. CASE Contains(q, s)
  <2> DEFINE i == CHOOSE i \in DOMAIN q : q[i] = s
  <2>1. i \in 1 .. Len(q) /\ q[i] = s
    BY <1>1 DEF Contains
  <2>2. Without(q, s) = RemoveAt(q, i)
    BY <1>1 DEF Without
  <2> HIDE DEF i
  <2> DEFINE r == RemoveAt(q, i)
  <2>3. /\ r \in Seq(S) /\ Len(r) = Len(q) - 1 /\ DOMAIN r = 1 .. Len(q) - 1 /\ DOMAIN q = 1 .. Len(q)
        /\ \A j \in 1 .. Len(q) - 1 : r[j] = IF j < i THEN q[j] ELSE q[j + 1]
    BY <2>1, Removed
  <2> HIDE DEF r
  <2>4. ToSet(r) \subseteq ToSet(q)
    BY <2>1, <2>3 DEF ToSet
  <2>5. ASSUME IsInjective(q) PROVE IsInjective(r) /\ s \notin ToSet(r)
    <3>1. ASSUME NEW j \in DOMAIN r, NEW k \in DOMAIN r, r[j] = r[k] PROVE j = k
      <4>1. \A m, n \in 1 .. Len(q) : q[m] = q[n] => m = n
        BY <2>3, <2>5 DEF IsInjective
      <4>2. /\ j \in 1 .. Len(q) - 1 /\ k \in 1 .. Len(q) - 1
            /\ r[j] = (IF j < i THEN q[j] ELSE q[j + 1]) /\ r[k] = (IF k < i THEN q[k] ELSE q[k + 1])
        BY <2>3
      <4>3. PICK m \in 1 .. Len(q) : r[j] = q[m] /\ m = (IF j < i THEN j ELSE j + 1)
        BY <2>1, <4>2
      <4>4. PICK n \in 1 .. Len(q) : r[k] = q[n] /\ n = (IF k < i THEN k ELSE k + 1)
        BY <2>1, <4>2
      <4>5. m = n
        BY <3>1, <4>1, <4>3, <4>4
      <4> QED  BY <2>1, <4>2, <4>3, <4>4, <4>5
    <3>2. ASSUME NEW j \in DOMAIN r, r[j] = s PROVE FALSE
      BY <2>1, <2>3, <2>5, <3>2 DEF IsInjective
    <3> QED  BY <3>1, <3>2 DEF IsInjective, ToSet
  <2> QED  BY <2>2, <2>3, <2>4, <2>5 DEF r
<1>2. CASE ~Contains(q, s)
  BY <1>2 DEF Without, Contains, ToSet
<1> QED  BY <1>1, <1>2

(* A stop that is dropped keeps the others as they were.                   *)
LEMMA PlacedIs ==
  ASSUME NEW S, NEW q \in Seq(S), NEW s \in S, NEW i \in 1 .. Len(Without(q, s)) + 1
  PROVE  /\ Placed(q, s, i) \in Seq(S)
         /\ IsInjective(q) => IsInjective(Placed(q, s, i))
<1> DEFINE w == Without(q, s)
           r == Placed(q, s, i)
<1>1. w \in Seq(S) /\ DOMAIN w = 1 .. Len(w) /\ (IsInjective(q) => IsInjective(w) /\ s \notin ToSet(w))
  BY WithoutIs
<1>2. r = InsertAt(w, i, s)
  BY DEF Placed
<1> HIDE DEF w, r
<1>3. i \in 1 .. Len(w) + 1
  BY DEF w
<1>4. /\ r \in Seq(S) /\ DOMAIN r = 1 .. Len(w) + 1
      /\ \A j \in 1 .. Len(w) + 1 : r[j] = IF j < i THEN w[j] ELSE IF j = i THEN s ELSE w[j - 1]
  <2>1. /\ InsertAt(w, i, s) \in Seq(S) /\ Len(InsertAt(w, i, s)) = Len(w) + 1
        /\ \A j \in 1 .. Len(w) + 1 :
             InsertAt(w, i, s)[j] = IF j < i THEN w[j] ELSE IF j = i THEN s ELSE w[j - 1]
    BY <1>1, <1>3, Inserted
  <2> QED  BY <2>1, <1>2
<1>5. ASSUME IsInjective(w), s \notin ToSet(w) PROVE IsInjective(r)
  <2> SUFFICES ASSUME NEW j \in DOMAIN r, NEW k \in DOMAIN r, r[j] = r[k] PROVE j = k
    BY DEF IsInjective
  <2>1. \A n \in 1 .. Len(w) : w[n] # s
    BY <1>1, <1>5 DEF ToSet
  <2>2. \A m, n \in 1 .. Len(w) : w[m] = w[n] => m = n
    BY <1>1, <1>5 DEF IsInjective
  <2> QED  BY <1>1, <1>3, <1>4, <2>1, <2>2
<1> QED  BY <1>1, <1>4, <1>5 DEF r

LEMMA AppendedIs ==
  ASSUME NEW S, NEW q \in Seq(S), NEW s \in S
  PROVE  /\ Append(q, s) \in Seq(S) /\ ToSet(Append(q, s)) = ToSet(q) \cup {s}
         /\ IsInjective(q) /\ s \notin ToSet(q) => IsInjective(Append(q, s))
<1> DEFINE r == Append(q, s)
<1>1. /\ r \in Seq(S) /\ DOMAIN r = 1 .. Len(q) + 1 /\ DOMAIN q = 1 .. Len(q)
      /\ \A j \in 1 .. Len(q) + 1 : r[j] = IF j <= Len(q) THEN q[j] ELSE s
  OBVIOUS
<1> HIDE DEF r
<1>2. ToSet(r) = ToSet(q) \cup {s}
  BY <1>1 DEF ToSet
<1>3. ASSUME IsInjective(q), s \notin ToSet(q) PROVE IsInjective(r)
  BY <1>1, <1>3 DEF IsInjective, ToSet
<1> QED  BY <1>1, <1>2, <1>3 DEF r
(* The invariant of the trip page, as far as no sequence has to be looked  *)
(* into: the answers the page applies, one by one, add up to the trip.     *)

Busy(x) == x.at # "idle"
Asking(x) == x.at \in {"out", "routing"} /\ x.op \in Edits
Done(x) == x.at = "back" /\ x.status = "ok"
Unheard(x) == Done(x) /\ x.op \in Edits

IsTrip(t) ==
  t = [version |-> t.version, order |-> t.order, route |-> t.route] /\ t.version \in Nat
IsCopy(s) ==
  s = [order |-> s.order, route |-> s.route, seen |-> s.seen, role |-> s.role,
       members |-> s.members]
IsCall(x) ==
  /\ x = [at |-> x.at, op |-> x.op, stop |-> x.stop, order |-> x.order, match |-> x.match,
          status |-> x.status, reply |-> x.reply]
  /\ x.match \in Nat \cup {None} /\ (x.match # None => x.match <= trip.version)

(* What a page is that asks for something, and why.                        *)
Belongs(x) ==
  /\ Busy(x) => view = (IF x.op = "load" THEN "loading" ELSE "ready")
  /\ Busy(x) /\ x.op \in {"add", "remove", "reorder"} => mode = "point_to_point"

(* The page sends its edits on the version it remembers.                   *)
Conditional(x) == Asking(x) => x.match # None /\ (~blind => known # None /\ x.match <= known)

Calculates(x) == x.at = "routing" => x.op = "route"

(* An answer brings the trip as it was at its version.                     *)
Truthful(x) ==
  Done(x) => /\ IsTrip(x.reply) /\ x.reply.version <= trip.version
             /\ x.reply.version = trip.version => x.reply = trip

(* Applied to what is shown, the answer to an edit makes it the trip of    *)
(* the answer.                                                             *)
Patch(x) ==
  /\ x.op = "add" => x.reply.order = Append(shown.order, x.stop)
  /\ x.op = "remove" => x.reply.order = Without(shown.order, x.stop)
  /\ x.op = "detail" => x.reply.order = shown.order
  /\ x.op \in {"add", "remove", "reorder", "detail"} =>
       x.reply.route = shown.route /\ shown.seen \cup {x.reply.version} = 1 .. x.reply.version
News(x) == Unheard(x) /\ ~blind => known # None /\ known < x.reply.version /\ Patch(x)

Agrees(x) == IsCall(x) /\ Belongs(x) /\ Conditional(x) /\ Calculates(x) /\ Truthful(x) /\ News(x)

Single(f) == \A c, d \in Ids :
  \/ Busy(f[c]) /\ Busy(f[d]) /\ f[c].op = "load" /\ f[d].op = "load"
  \/ Unheard(f[c]) /\ Unheard(f[d]) /\ ~blind
  => c = d

(* A page that is there shows a copy and remembers a version, and no later *)
(* one than the trip has.                                                  *)
Showing ==
  /\ IsTrip(trip) /\ (view = "ready" => known # None /\ IsCopy(shown))
  /\ known # None => known \in Nat /\ known <= trip.version
  /\ timer => view = "ready"
  /\ view = "loading" => known = None /\ ~reshaped

Routing == view = "ready" /\ reshaped => timer \/ Under("route") \/ routeError

PageInv ==
  /\ Showing /\ Routing /\ CopyIsExact
  /\ call = [c \in Ids |-> call[c]] /\ (\A c \in Ids : Agrees(call[c])) /\ Single(call)
-----------------------------------------------------------------------------
LEMMA NoCallAgrees ==
  ASSUME Showing, None \notin Nat
  PROVE  Agrees(NoCall) /\ ~Busy(NoCall) /\ ~Unheard(NoCall)
BY DEF NoCall, Agrees, IsCall, Belongs, Conditional, Calculates, Truthful, News, Busy, Asking, Done,
       Unheard

(* What holds of a record then holds of the call that it is.               *)
LEMMA Same ==
  ASSUME NEW c \in Ids, NEW x, x = call'[c], Agrees(x)'
  PROVE  Agrees(call[c])'
BY DEF Agrees, IsCall, Belongs, Conditional, Calculates, Truthful, News, Patch, Busy, Asking, Done,
       Unheard, IsTrip

(* One call changes and nothing else of what the invariant is about.       *)
LEMMA Patches ==
  ASSUME PageInv, NEW c \in Ids, NEW x, Put(c, x), Agrees(x), Routing',
         Busy(x) /\ x.op = "load" => Busy(call[c]) /\ call[c].op = "load",
         Unheard(x) => Unheard(call[c]),
         timer' => timer, UNCHANGED <<trip, mode, view, shown, known, history>>
  PROVE  PageInv'
<1>1. /\ call' = [d \in Ids |-> call'[d]] /\ call'[c] = x
      /\ \A d \in Ids : d # c => call'[d] = call[d]
  BY DEF PageInv, Put
<1>2. Showing' /\ CopyIsExact'
  BY DEF PageInv, Showing, IsTrip, IsCopy, CopyIsExact, history
<1>3. (\A d \in Ids : Agrees(call[d]))'
  <2> SUFFICES ASSUME NEW d \in Ids PROVE Agrees(call[d])'
    OBVIOUS
  <2>1. Agrees(call'[d])
    BY <1>1 DEF PageInv
  <2> QED
    BY <2>1 DEF Agrees, IsCall, Belongs, Conditional, Calculates, Truthful, News, Patch, Busy, Asking, Done,
                Unheard, IsTrip, history
<1>4. Single(call)'
  <2> SUFFICES ASSUME NEW d \in Ids, NEW e \in Ids,
                      \/ Busy(call'[d]) /\ Busy(call'[e]) /\ call'[d].op = "load" /\ call'[e].op = "load"
                      \/ Unheard(call'[d]) /\ Unheard(call'[e]) /\ ~blind
               PROVE  d = e
    BY DEF Single, Busy, Unheard, Done, history
  <2>1. /\ Busy(call'[d]) /\ call'[d].op = "load" => Busy(call[d]) /\ call[d].op = "load"
        /\ Busy(call'[e]) /\ call'[e].op = "load" => Busy(call[e]) /\ call[e].op = "load"
    BY <1>1
  <2>2. (Unheard(call'[d]) => Unheard(call[d])) /\ (Unheard(call'[e]) => Unheard(call[e]))
    BY <1>1
  <2> QED  BY <2>1, <2>2 DEF PageInv, Single
<1> QED  BY <1>1, <1>2, <1>3, <1>4 DEF PageInv

(* A call that goes on or is answered, and no answer to an edit.           *)
LEMMA GoesOn ==
  ASSUME PageInv, NEW c \in Ids, NEW x, Put(c, x), Agrees(x), Busy(call[c]), Busy(x),
         x.op = call[c].op, ~Unheard(x), UNCHANGED <<server, page, history>>
  PROVE  PageInv'
<1>1. call'[c] = x /\ \A d \in Ids : d # c => call'[d] = call[d]
  BY DEF PageInv, Put
<1>2. Under("route") => Under("route")'
  BY <1>1 DEF Under, Busy
<1>3. Routing'
  BY <1>2 DEF PageInv, Routing, page, routing, history
<1> QED  BY <1>3, Patches DEF server, page, routing

(* What an answer is.                                                      *)
LEMMA AnswerIs ==
  ASSUME NEW c \in Ids, NEW status, NEW t, Answer(c, status, t), IsCall(call[c])
  PROVE  \E x : /\ Put(c, x)
                /\ x = [at |-> "back", op |-> call[c].op, stop |-> call[c].stop, order |-> <<>>,
                        match |-> None, status |-> status, reply |-> t]
<1>1. PICK x : x = [NoCall EXCEPT !.at = "back", !.op = call[c].op, !.stop = call[c].stop,
                                  !.status = status, !.reply = t]
  OBVIOUS
<1>2. Put(c, x)
  BY <1>1 DEF Answer
<1>3. x = [at |-> "back", op |-> call[c].op, stop |-> call[c].stop, order |-> <<>>,
           match |-> None, status |-> status, reply |-> t]
  BY <1>1 DEF NoCall
<1> QED  BY <1>2, <1>3

(* An answer that brings nothing.                                          *)
LEMMA Replied ==
  ASSUME PageInv, NEW c \in Ids, Busy(call[c]), NEW status, status # "ok",
         Answer(c, status, None), UNCHANGED <<server, page, history>>
  PROVE  PageInv'
<1>1. Agrees(call[c]) /\ IsCall(call[c])
  BY DEF PageInv, Agrees
<1>2. PICK x : /\ Put(c, x)
               /\ x = [at |-> "back", op |-> call[c].op, stop |-> call[c].stop, order |-> <<>>,
                       match |-> None, status |-> status, reply |-> None]
  BY <1>1, AnswerIs
<1>3. Agrees(x) /\ Busy(x) /\ ~Unheard(x) /\ x.op = call[c].op
  BY <1>1, <1>2 DEF Agrees, IsCall, Belongs, Conditional, Calculates, Truthful, News, Busy, Asking, Done, Unheard
<1> QED  BY <1>2, <1>3, GoesOn

LEMMA RefuseKeeps ==
  ASSUME PageInv, NEW c \in Ids, Refuse(c)
  PROVE  PageInv'
<1>1. Refusal(c) # "ok" /\ Answer(c, Refusal(c), None) /\ Busy(call[c])
  BY DEF Refuse, Refusal, Busy
<1>2. PICK status : status = Refusal(c)
  OBVIOUS
<1> QED  BY <1>1, <1>2, Replied DEF Refuse

LEMMA RejectKeeps ==
  ASSUME PageInv, NEW c \in Ids, Busy(call[c]), Reject(c)
  PROVE  PageInv'
BY Replied DEF Reject

LEMMA FailsKeeps ==
  ASSUME PageInv, NEW c \in Ids, RouteFails(c) \/ Lost(c)
  PROVE  PageInv'
BY Replied DEF RouteFails, Lost, Busy

LEMMA ReadKeeps ==
  ASSUME PageInv, NEW c \in Ids, ServeRead(c)
  PROVE  PageInv'
<1>1. Agrees(call[c]) /\ IsCall(call[c]) /\ Showing /\ call[c].at = "out" /\ call[c].op \in {"load", "save"}
  BY DEF PageInv, Agrees, ServeRead, Handles
<1>2. Answer(c, "ok", trip) /\ UNCHANGED <<server, page, history>>
  BY DEF ServeRead
<1>t. PICK t : t = trip
  OBVIOUS
<1>3. PICK x : /\ Put(c, x)
               /\ x = [at |-> "back", op |-> call[c].op, stop |-> call[c].stop, order |-> <<>>,
                       match |-> None, status |-> "ok", reply |-> t]
  BY <1>1, <1>2, <1>t, AnswerIs
<1>4. Agrees(x) /\ Busy(x) /\ ~Unheard(x) /\ x.op = call[c].op
  BY <1>1, <1>t, <1>3 DEF Agrees, IsCall, Belongs, Conditional, Calculates, Truthful, News, Busy, Asking, Done,
                   Unheard, Edits, Showing, IsTrip
<1> QED  BY <1>1, <1>2, <1>3, <1>4, GoesOn DEF Busy

LEMMA RouteReadKeeps ==
  ASSUME PageInv, NEW c \in Ids, RouteRead(c)
  PROVE  PageInv'
<1>1. Agrees(call[c]) /\ IsCall(call[c]) /\ call[c].at = "out" /\ call[c].op = "route"
  BY DEF PageInv, Agrees, RouteRead, Handles
<1>2. PICK x : x = [call[c] EXCEPT !.at = "routing", !.order = trip.order]
  OBVIOUS
<1>3. x = [at |-> "routing", op |-> call[c].op, stop |-> call[c].stop, order |-> trip.order,
           match |-> call[c].match, status |-> call[c].status, reply |-> call[c].reply]
  BY <1>1, <1>2 DEF IsCall
<1>4. Agrees(x) /\ Busy(x) /\ ~Unheard(x) /\ x.op = call[c].op
  BY <1>1, <1>3 DEF Agrees, IsCall, Belongs, Conditional, Calculates, Truthful, News, Busy, Asking, Done,
                    Unheard
<1>5. Put(c, x) /\ UNCHANGED <<server, page, history>>
  BY <1>2 DEF RouteRead
<1> QED  BY <1>1, <1>4, <1>5, GoesOn DEF Busy
-----------------------------------------------------------------------------
(* An edit that is accepted was sent on the version the trip has.  Unless  *)
(* an answer has not been shown, the tab remembers that version, so the    *)
(* page is exact and waits for no other answer to an edit.                 *)
LEMMA AcceptedOnTheCopy ==
  ASSUME PageInv, None \notin Nat, NEW c \in Ids, Asking(call[c]), Matches(c), ~blind
  PROVE  /\ view = "ready" /\ IsCopy(shown) /\ known = trip.version
         /\ shown.order = trip.order /\ shown.route = trip.route
         /\ shown.seen = 1 .. trip.version
         /\ \A d \in Ids : ~Unheard(call[d])
<1>1. Agrees(call[c]) /\ Showing /\ CopyIsExact /\ trip.version \in Nat
  BY DEF PageInv, Showing, IsTrip
<1>2. view = "ready"
  BY <1>1 DEF Agrees, Belongs, Asking, Busy, Edits
<1>3. known = trip.version
  BY <1>1 DEF Agrees, Conditional, IsCall, Matches, Showing
<1>4. ASSUME NEW d \in Ids, Unheard(call[d]) PROVE FALSE
  <2>1. Agrees(call[d])
    BY DEF PageInv
  <2> QED  BY <1>1, <1>3, <1>4, <2>1 DEF Agrees, News, Truthful, Unheard, Showing, IsTrip
<1> QED  BY <1>1, <1>2, <1>3, <1>4 DEF CopyIsExact, Showing

(* What a commit makes of the trip and of the page's copy.                 *)
Makes(x, t) ==
  /\ x.op = "add" => t.order = Append(trip.order, x.stop)
  /\ x.op = "remove" => t.order = Without(trip.order, x.stop)
  /\ x.op = "detail" => t.order = trip.order
  /\ x.op \in {"add", "remove", "reorder", "detail"} => t.route = trip.route

LEMMA CommitKeeps ==
  ASSUME PageInv, None \notin Nat, NEW c \in Ids, Asking(call[c]), Matches(c),
         NEW t, t = [version |-> trip.version, order |-> t.order, route |-> t.route],
         Makes(call[c], t), Commit(c, t)
  PROVE  PageInv'
<1>1. Agrees(call[c]) /\ IsCall(call[c]) /\ Showing /\ CopyIsExact /\ trip.version \in Nat
  BY DEF PageInv, Agrees, Showing, IsTrip
<1>2. PICK n : n = trip'
  OBVIOUS
<1>3. n = [version |-> trip.version + 1, order |-> t.order, route |-> t.route]
  BY <1>2 DEF Commit
<1>4. Answer(c, "ok", n) /\ UNCHANGED <<role, members, mode, page, history>>
  BY <1>2 DEF Commit
<1>5. PICK x : /\ Put(c, x)
               /\ x = [at |-> "back", op |-> call[c].op, stop |-> call[c].stop, order |-> <<>>,
                       match |-> None, status |-> "ok", reply |-> n]
  BY <1>1, <1>4, AnswerIs
<1>6. /\ call' = [d \in Ids |-> call'[d]] /\ call'[c] = x
      /\ \A d \in Ids : d # c => call'[d] = call[d]
  BY <1>5 DEF PageInv, Put
<1>7. UNCHANGED <<mode, view, shown, known, timer, routeError, reshaped, blind>>
  BY <1>4 DEF page, routing, history
<1>8. Showing'
  BY <1>1, <1>2, <1>3, <1>7 DEF Showing, IsTrip, IsCopy
<1>9. CopyIsExact'
  BY <1>1, <1>2, <1>3, <1>7 DEF CopyIsExact, Showing
<1>10. Routing'
  <2>1. Under("route") => Under("route")'
    BY <1>5, <1>6 DEF Under, Asking
  <2> QED  BY <2>1, <1>7 DEF PageInv, Routing
<1>11. Agrees(x)'
  <2>1. IsCall(x)' /\ Conditional(x)' /\ Calculates(x)' /\ Truthful(x)'
    BY <1>1, <1>2, <1>3, <1>5 DEF IsCall, Conditional, Calculates, Truthful, Asking, Done, IsTrip
  <2>2. Belongs(x)'
    BY <1>1, <1>5, <1>7 DEF Agrees, Belongs, Busy, Asking
  <2>3. ASSUME ~blind PROVE known # None /\ known < n.version /\ Patch(x)
    <3>1. /\ known = trip.version /\ shown.order = trip.order /\ shown.route = trip.route
          /\ shown.seen = 1 .. trip.version
      BY <2>3, AcceptedOnTheCopy
    <3>2. 1 .. trip.version \cup {trip.version + 1} = 1 .. trip.version + 1
      BY <1>1
    <3>3. known # None /\ known < n.version
      BY <3>1, <1>1, <1>3
    <3>4. /\ x.op = call[c].op /\ x.stop = call[c].stop /\ x.reply.order = t.order
          /\ x.reply.route = t.route /\ x.reply.version = trip.version + 1
      BY <1>3, <1>5
    <3> QED  BY <3>1, <3>2, <3>3, <3>4 DEF Patch, Makes
  <2>4. News(x)'
    BY <2>3, <1>5, <1>7 DEF News, Patch
  <2> QED  BY <2>1, <2>2, <2>4 DEF Agrees
<1>12. ASSUME NEW d \in Ids, d # c PROVE Agrees(call[d])'
  <2>1. PICK y : y = call[d]
    OBVIOUS
  <2>2. Agrees(y)
    BY <2>1 DEF PageInv
  <2>3. IsCall(y)' /\ Belongs(y)' /\ Conditional(y)' /\ Calculates(y)' /\ News(y)'
    BY <2>2, <1>1, <1>2, <1>3, <1>7
       DEF Agrees, IsCall, Belongs, Conditional, Calculates, News, Patch, Busy, Asking, Done, Unheard
  <2>4. Truthful(y)'
    BY <2>2, <1>1, <1>2, <1>3 DEF Agrees, Truthful, Done, IsTrip
  <2>5. Agrees(y)'
    BY <2>3, <2>4 DEF Agrees
  <2> QED  BY <2>1, <2>5, <1>6, <1>12, Same
<1>13. Single(call)'
  <2> SUFFICES ASSUME NEW d \in Ids, NEW e \in Ids,
                      \/ Busy(call'[d]) /\ Busy(call'[e]) /\ call'[d].op = "load" /\ call'[e].op = "load"
                      \/ Unheard(call'[d]) /\ Unheard(call'[e]) /\ ~blind
               PROVE  d = e
    BY <1>7 DEF Single, Busy, Unheard, Done
  <2>1. CASE Busy(call'[d]) /\ Busy(call'[e]) /\ call'[d].op = "load" /\ call'[e].op = "load"
    <3>1. d # c /\ e # c
      BY <2>1, <1>5, <1>6 DEF Asking, Edits
    <3> QED  BY <3>1, <2>1, <1>6 DEF PageInv, Single
  <2>2. CASE Unheard(call'[d]) /\ Unheard(call'[e]) /\ ~blind
    BY <2>2, <1>6, AcceptedOnTheCopy
  <2> QED  BY <2>1, <2>2
<1>14. Agrees(call[c])'
  BY <1>6, <1>11, Same
<1> QED  BY <1>6, <1>8, <1>9, <1>10, <1>12, <1>13, <1>14 DEF PageInv

LEMMA Handled ==
  ASSUME PageInv, NEW c \in Ids, Handles(c, Edits)
  PROVE  Asking(call[c]) /\ Matches(c)
BY DEF Handles, Refusal, Asking, Edits

LEMMA ServeKeeps ==
  ASSUME PageInv, None \notin Nat, NEW c \in Ids, Serve(c)
  PROVE  PageInv'
<1>1. trip = [version |-> trip.version, order |-> trip.order, route |-> trip.route]
  BY DEF PageInv, Showing, IsTrip
<1>2. CASE ServeAdd(c)
  <2>1. Handles(c, Edits) /\ call[c].op = "add"
    BY <1>2 DEF ServeAdd, Handles, Edits
  <2>2. PICK t : t = [trip EXCEPT !.order = Append(@, call[c].stop)]
    OBVIOUS
  <2>3. t = [version |-> trip.version, order |-> Append(trip.order, call[c].stop),
             route |-> trip.route]
    BY <1>1, <2>2
  <2>4. Commit(c, t) /\ Makes(call[c], t)
    BY <1>2, <2>1, <2>2, <2>3 DEF ServeAdd, Makes
  <2> QED  BY <2>1, <2>3, <2>4, Handled, CommitKeeps
<1>3. CASE ServeRemove(c)
  <2>1. Handles(c, Edits) /\ call[c].op = "remove" /\ Busy(call[c])
    BY <1>3 DEF ServeRemove, Handles, Edits, Busy
  <2>2. PICK t : t = [trip EXCEPT !.order = Without(@, call[c].stop)]
    OBVIOUS
  <2>3. t = [version |-> trip.version, order |-> Without(trip.order, call[c].stop),
             route |-> trip.route]
    BY <1>1, <2>2
  <2>4. CASE Commit(c, t)
    <3>1. Makes(call[c], t)
      BY <2>1, <2>3 DEF Makes
    <3> QED  BY <2>1, <2>3, <2>4, <3>1, Handled, CommitKeeps
  <2>5. CASE Reject(c)
    BY <2>1, <2>5, RejectKeeps
  <2> QED  BY <1>3, <2>2, <2>4, <2>5 DEF ServeRemove
<1>4. CASE ServeReorder(c)
  <2>1. Handles(c, Edits) /\ call[c].op = "reorder" /\ Busy(call[c])
    BY <1>4 DEF ServeReorder, Handles, Edits, Busy
  <2>2. PICK t : t = [trip EXCEPT !.order = call[c].order]
    OBVIOUS
  <2>3. t = [version |-> trip.version, order |-> call[c].order, route |-> trip.route]
    BY <1>1, <2>2
  <2>4. CASE Commit(c, t)
    <3>1. Makes(call[c], t)
      BY <2>1, <2>3 DEF Makes
    <3> QED  BY <2>1, <2>3, <2>4, <3>1, Handled, CommitKeeps
  <2>5. CASE Reject(c)
    BY <2>1, <2>5, RejectKeeps
  <2> QED  BY <1>4, <2>2, <2>4, <2>5 DEF ServeReorder
<1>5. CASE ServeDetail(c) \/ ServeTitle(c)
  <2>1. Handles(c, Edits) /\ call[c].op \in {"detail", "title"} /\ Busy(call[c])
    BY <1>5 DEF ServeDetail, ServeTitle, Handles, Edits, Busy
  <2>2. PICK t : t = trip
    OBVIOUS
  <2>3. CASE Commit(c, t)
    <3>1. Makes(call[c], t)
      BY <2>1, <2>2 DEF Makes
    <3> QED  BY <1>1, <2>1, <2>2, <2>3, <3>1, Handled, CommitKeeps
  <2>4. CASE Reject(c)
    BY <2>1, <2>4, RejectKeeps
  <2> QED  BY <1>5, <2>2, <2>3, <2>4 DEF ServeDetail, ServeTitle
<1>6. CASE RouteWrite(c)
  <2>1. /\ call[c].at = "routing" /\ Busy(call[c]) /\ Agrees(call[c])
        /\ Refusal(c) # "ok"
    BY <1>6 DEF RouteWrite, Busy, PageInv, Refusal
  <2>2. CASE Refusal(c) = "none"
    <3>1. PICK t : t = [trip EXCEPT !.route = call[c].order]
      OBVIOUS
    <3>2. t = [version |-> trip.version, order |-> trip.order, route |-> call[c].order]
      BY <1>1, <3>1
    <3>3. call[c].op = "route"
      BY <2>1 DEF Agrees, Calculates
    <3>4. Asking(call[c]) /\ Matches(c) /\ Makes(call[c], t)
      BY <2>1, <2>2, <3>3 DEF Asking, Refusal, Makes, Edits
    <3>5. Commit(c, t)
      BY <1>6, <2>2, <3>1 DEF RouteWrite
    <3> QED  BY <3>2, <3>4, <3>5, CommitKeeps
  <2>3. CASE Refusal(c) # "none"
    <3>1. PICK status : status = Refusal(c)
      OBVIOUS
    <3> QED  BY <1>6, <2>1, <2>3, <3>1, Replied DEF RouteWrite
  <2> QED  BY <2>2, <2>3
<1> QED
  BY <1>2, <1>3, <1>4, <1>5, <1>6, RefuseKeeps, ReadKeeps, RouteReadKeeps DEF Serve
-----------------------------------------------------------------------------
(* A call is answered: it is gone, and the others are as they were.        *)
LEMMA Settled ==
  ASSUME PageInv, NEW c \in Ids, Received(c)
  PROVE  /\ call' = [d \in Ids |-> call'[d]] /\ call'[c] = NoCall
         /\ \A d \in Ids : d # c => call'[d] = call[d]
         /\ UNCHANGED <<trip, role, members, mode>>
         /\ call[c].op # "route" /\ Under("route") => Under("route")'
<1>1. /\ call' = [d \in Ids |-> call'[d]] /\ call'[c] = NoCall
      /\ \A d \in Ids : d # c => call'[d] = call[d]
  BY DEF PageInv, Received
<1> QED  BY <1>1 DEF Under, Received, server

LEMMA OneLess ==
  ASSUME PageInv, NEW c \in Ids, Received(c), blind => blind'
  PROVE  Single(call)'
<1> SUFFICES ASSUME NEW d \in Ids, NEW e \in Ids,
                    \/ Busy(call'[d]) /\ Busy(call'[e]) /\ call'[d].op = "load" /\ call'[e].op = "load"
                    \/ Unheard(call'[d]) /\ Unheard(call'[e]) /\ ~blind'
             PROVE  d = e
  BY DEF Single, Busy, Unheard, Done
<1>1. ~Busy(NoCall) /\ ~Unheard(NoCall)
  BY DEF NoCall, Busy, Unheard, Done
<1>2. d # c /\ e # c
  BY <1>1, Settled
<1> QED  BY <1>2, Settled DEF PageInv, Single

(* The answer to an edit: the page becomes the trip of the answer.         *)
LEMMA EditAnswered ==
  ASSUME PageInv, None \notin Nat, NEW c \in Ids, Back(c, Edits), Received(c),
         UNCHANGED <<view, blind>>, Routing',
         view = "ready" /\ IsCopy(shown) => IsCopy(shown)',
         ~Ok(c) => shown' = shown /\ (reshaped' => reshaped),
         Ok(c) /\ ~blind => /\ shown'.order = call[c].reply.order
                            /\ shown'.route = call[c].reply.route
                            /\ shown'.seen = 1 .. call[c].reply.version
  PROVE  PageInv'
<1>1. Agrees(call[c]) /\ Showing /\ CopyIsExact
  BY DEF PageInv
<1>2. view = "ready"
  BY <1>1 DEF Agrees, Belongs, Busy, Back, Edits
<1>3. UNCHANGED <<trip, mode>>
  BY Settled
<1>4. known' = IF Ok(c) THEN call[c].reply.version ELSE known
  BY DEF Received
<1>5. Ok(c) => /\ Unheard(call[c]) /\ call[c].reply.version \in Nat
               /\ call[c].reply.version <= trip.version
               /\ (call[c].reply.version = trip.version => call[c].reply = trip)
               /\ (~blind => known # None /\ known < call[c].reply.version)
  BY <1>1 DEF Ok, Back, Unheard, Done, Agrees, Truthful, News, IsTrip
<1>6. Showing'
  BY <1>1, <1>2, <1>3, <1>4, <1>5 DEF Showing, IsTrip, IsCopy
<1>7. CopyIsExact'
  BY <1>1, <1>3, <1>4, <1>5 DEF CopyIsExact
<1>8. ASSUME NEW d \in Ids, d # c PROVE Agrees(call[d])'
  <2>1. PICK y : y = call[d]
    OBVIOUS
  <2>2. Agrees(y)
    BY <2>1 DEF PageInv
  <2>3. IsCall(y)' /\ Belongs(y)' /\ Calculates(y)' /\ Truthful(y)'
    BY <2>2, <1>3 DEF Agrees, IsCall, Belongs, Calculates, Truthful, IsTrip, Busy, Done
  <2>4. Conditional(y)'
    BY <2>2, <1>1, <1>4, <1>5 DEF Agrees, IsCall, Conditional, Showing, Asking
  <2>5. Ok(c) /\ ~blind => ~Unheard(y)
    BY <2>1, <1>5, <1>8 DEF PageInv, Single
  <2>6. News(y)'
    BY <2>2, <2>5, <1>4 DEF Agrees, News, Patch, Unheard, Done
  <2>7. Agrees(y)'
    BY <2>3, <2>4, <2>6 DEF Agrees
  <2> QED  BY <2>1, <2>7, <1>8, Settled, Same
<1>9. Agrees(call[c])'
  <2>1. PICK y : y = NoCall
    OBVIOUS
  <2>2. Agrees(y)'
    BY <2>1 DEF NoCall, Agrees, IsCall, Belongs, Conditional, Calculates, Truthful, News, Busy, Asking,
                Done, Unheard
  <2> QED  BY <2>1, <2>2, Settled, Same
<1> QED  BY <1>6, <1>7, <1>8, <1>9, Settled, OneLess DEF PageInv

(* While the page loads nothing else is under way, and its one answer      *)
(* brings all there is.                                                    *)
LEMMA LoadKeeps ==
  ASSUME PageInv, None \notin Nat, NEW c \in Ids, LoadAnswered(c)
  PROVE  PageInv'
<1>1. Agrees(call[c]) /\ Showing /\ Received(c) /\ call[c].at = "back" /\ call[c].op = "load"
  BY DEF PageInv, LoadAnswered, Back
<1>2. view = "loading"
  BY <1>1 DEF Agrees, Belongs, Busy
<1>3. UNCHANGED <<trip, mode, reshaped, blind, timer>>
  BY Settled DEF LoadAnswered, routing
<1>4. known' = IF Ok(c) THEN call[c].reply.version ELSE known
  BY <1>1 DEF Received
<1>5. Ok(c) => /\ call[c].reply.version \in Nat /\ call[c].reply.version <= trip.version
               /\ (call[c].reply.version = trip.version => call[c].reply = trip)
  BY <1>1 DEF Ok, Done, Agrees, Truthful, IsTrip
<1>6. /\ view' \in {"ready", "missing", "error"} /\ (view' = "ready" => Ok(c))
      /\ Ok(c) => shown' = Replaced(c, role, members)
  BY DEF LoadAnswered
<1>7. Showing'
  BY <1>1, <1>2, <1>3, <1>4, <1>5, <1>6 DEF Showing, IsTrip, IsCopy, Replaced, Copy
<1>8. CopyIsExact'
  BY <1>3, <1>4, <1>5, <1>6 DEF CopyIsExact, Replaced, Copy
<1>9. Routing'
  BY <1>1, <1>2, <1>3 DEF Routing, Showing
<1>10. ASSUME NEW d \in Ids PROVE Agrees(call[d])'
  <2>1. PICK y : y = call'[d]
    OBVIOUS
  <2>2. ~Busy(y) /\ IsCall(y)
    <3>1. CASE d = c
      BY <2>1, <3>1, <1>1, Settled DEF NoCall, Busy, IsCall
    <3>2. CASE d # c
      <4>1. y = call[d] /\ Agrees(call[d])
        BY <2>1, <3>2, <1>1, Settled DEF PageInv
      <4> QED  BY <4>1, <3>2, <1>1, <1>2 DEF PageInv, Single, Agrees, Belongs, Busy
    <3> QED  BY <3>1, <3>2
  <2>3. Agrees(y)'
    BY <2>2, <1>3 DEF Agrees, IsCall, Belongs, Conditional, Calculates, Truthful, News, Busy, Asking,
                      Done, Unheard
  <2> QED  BY <2>1, <2>3, Same
<1> QED  BY <1>1, <1>3, <1>7, <1>8, <1>9, <1>10, Settled, OneLess DEF PageInv

(* Saving the trip may tell the tab of a version the page does not show.   *)
LEMMA SaveKeeps ==
  ASSUME PageInv, None \notin Nat, NEW c \in Ids, SaveAnswered(c)
  PROVE  PageInv'
<1>1. Agrees(call[c]) /\ Showing /\ Received(c) /\ call[c].at = "back" /\ call[c].op = "save"
  BY DEF PageInv, SaveAnswered, Back
<1>2. view = "ready"
  BY <1>1 DEF Agrees, Belongs, Busy
<1>3. UNCHANGED <<trip, mode, view, shown, timer, routeError, reshaped>>
  BY <1>1, Settled DEF SaveAnswered, routing
<1>4. known' = (IF Ok(c) THEN call[c].reply.version ELSE known) /\ blind' = (blind \/ known' # known)
  BY <1>1 DEF Received, SaveAnswered
<1>5. Ok(c) => call[c].reply.version \in Nat /\ call[c].reply.version <= trip.version
  BY <1>1 DEF Ok, Done, Agrees, Truthful, IsTrip
<1>6. Showing'
  BY <1>1, <1>2, <1>3, <1>4, <1>5 DEF Showing, IsTrip, IsCopy
<1>7. CopyIsExact'
  BY <1>3, <1>4 DEF PageInv, CopyIsExact
<1>8. Routing'
  BY <1>1, <1>3, Settled DEF PageInv, Routing
<1>9. ASSUME NEW d \in Ids, d # c PROVE Agrees(call[d])'
  <2>1. PICK y : y = call[d]
    OBVIOUS
  <2>2. Agrees(y)
    BY <2>1 DEF PageInv
  <2>3. Agrees(y)'
    BY <2>2, <1>3, <1>4 DEF Agrees, IsCall, Belongs, Conditional, Calculates, Truthful, News, Patch,
                            Busy, Asking, Done, Unheard, IsTrip
  <2> QED  BY <2>1, <2>3, <1>1, <1>9, Settled, Same
<1>10. Agrees(call[c])'
  <2>1. PICK y : y = NoCall
    OBVIOUS
  <2>2. Agrees(y)'
    BY <2>1 DEF NoCall, Agrees, IsCall, Belongs, Conditional, Calculates, Truthful, News, Busy, Asking,
                Done, Unheard
  <2> QED  BY <2>1, <2>2, <1>1, Settled, Same
<1> QED  BY <1>1, <1>4, <1>6, <1>7, <1>8, <1>9, <1>10, Settled, OneLess DEF PageInv
LEMMA Exact ==
  ASSUME PageInv, NEW c \in Ids, Back(c, Edits), Ok(c)
  PROVE  /\ view = "ready" /\ IsCopy(shown) /\ Unheard(call[c])
         /\ ~blind => Patch(call[c])
         /\ call[c].op \in {"add", "remove", "reorder"} => mode = "point_to_point"
<1>1. Agrees(call[c]) /\ Showing
  BY DEF PageInv
<1>2. Unheard(call[c]) /\ Busy(call[c]) /\ call[c].op # "load"
  BY DEF Ok, Back, Unheard, Done, Busy, Edits
<1> QED  BY <1>1, <1>2 DEF Agrees, Belongs, News, Showing

(* An answer that changes a part of the page.                              *)
LEMMA PatchedKeeps ==
  ASSUME PageInv, None \notin Nat, NEW c \in Ids, Received(c), UNCHANGED <<view, blind, routeError>>,
         Back(c, {"add", "remove", "reorder", "detail"}),
         NEW order,
         Ok(c) => /\ shown' = Patched(c, order)
                  /\ ~blind => order = call[c].reply.order
                  /\ timer' \/ (timer' = timer /\ reshaped' = reshaped),
         ~Ok(c) => UNCHANGED <<shown, timer, reshaped>>
  PROVE  PageInv'
<1>1. Back(c, Edits) /\ call[c].op # "route"
  BY DEF Back, Edits
<1>2. view = "ready" /\ IsCopy(shown) => IsCopy(shown)'
  BY DEF IsCopy, Patched
<1>3. Ok(c) /\ ~blind => /\ shown'.order = call[c].reply.order
                         /\ shown'.route = call[c].reply.route
                         /\ shown'.seen = 1 .. call[c].reply.version
  BY <1>1, Exact DEF Patch, Patched, IsCopy, Back
<1>4. Routing'
  BY <1>1, Settled DEF PageInv, Routing
<1> QED  BY <1>1, <1>2, <1>3, <1>4, EditAnswered

LEMMA ReplacedKeeps ==
  ASSUME PageInv, None \notin Nat, NEW c \in Ids, Received(c), UNCHANGED <<view, blind>>,
         Back(c, Edits), NEW r, NEW m, Routing',
         ~Ok(c) => shown' = shown /\ (reshaped' => reshaped),
         Ok(c) => shown' = Replaced(c, r, m)
  PROVE  PageInv'
<1>1. view = "ready" /\ IsCopy(shown) => IsCopy(shown)'
  BY DEF IsCopy, Replaced, Copy
<1>2. Ok(c) => /\ shown'.order = call[c].reply.order
               /\ shown'.route = call[c].reply.route
               /\ shown'.seen = 1 .. call[c].reply.version
  BY DEF Replaced, Copy
<1> QED  BY <1>1, <1>2, EditAnswered

LEMMA AnsweredKeeps ==
  ASSUME PageInv, None \notin Nat, NEW c \in Ids, Answered(c)
  PROVE  PageInv'
<1>1. CASE AddAnswered(c)
  <2>1. PICK order : order = Append(shown.order, call[c].stop)
    OBVIOUS
  <2>2. Back(c, Edits) /\ call[c].op = "add"
    BY <1>1 DEF AddAnswered, Back, Edits
  <2>3. Ok(c) /\ ~blind => order = call[c].reply.order
    BY <2>1, <2>2, Exact DEF Patch
  <2>4. Ok(c) => timer'
    BY <1>1, <2>2, Exact DEF AddAnswered, Schedule
  <2>5. Back(c, {"add", "remove", "reorder", "detail"})
    BY <2>2 DEF Back
  <2> QED  BY <1>1, <2>1, <2>3, <2>4, <2>5, PatchedKeeps DEF AddAnswered
<1>2. CASE RemoveAnswered(c)
  <2>1. PICK order : order = Without(shown.order, call[c].stop)
    OBVIOUS
  <2>2. Back(c, Edits) /\ call[c].op = "remove"
    BY <1>2 DEF RemoveAnswered, Back, Edits
  <2>3. Ok(c) /\ ~blind => order = call[c].reply.order
    BY <2>1, <2>2, Exact DEF Patch
  <2>4. Ok(c) => timer'
    BY <1>2, <2>2, Exact DEF RemoveAnswered, Schedule
  <2>5. Back(c, {"add", "remove", "reorder", "detail"})
    BY <2>2 DEF Back
  <2> QED  BY <1>2, <2>1, <2>3, <2>4, <2>5, PatchedKeeps DEF RemoveAnswered
<1>3. CASE ReorderAnswered(c)
  <2>1. PICK order : order = call[c].reply.order
    OBVIOUS
  <2>2. Back(c, Edits) /\ call[c].op = "reorder"
    BY <1>3 DEF ReorderAnswered, Back, Edits
  <2>3. Ok(c) => timer'
    BY <1>3, <2>2, Exact DEF ReorderAnswered, Schedule
  <2>4. Back(c, {"add", "remove", "reorder", "detail"})
    BY <2>2 DEF Back
  <2> QED  BY <1>3, <2>1, <2>3, <2>4, PatchedKeeps DEF ReorderAnswered
<1>4. CASE DetailAnswered(c)
  <2>1. PICK order : order = shown.order
    OBVIOUS
  <2>2. Back(c, Edits) /\ call[c].op = "detail"
    BY <1>4 DEF DetailAnswered, Back, Edits
  <2>3. Ok(c) /\ ~blind => order = call[c].reply.order
    BY <2>1, <2>2, Exact DEF Patch
  <2>4. Back(c, {"add", "remove", "reorder", "detail"})
    BY <2>2 DEF Back
  <2> QED  BY <1>4, <2>1, <2>3, <2>4, PatchedKeeps DEF DetailAnswered, routing
<1>5. CASE TitleAnswered(c)
  <2>1. PICK r, m : r = role /\ m = members
    OBVIOUS
  <2>2. Back(c, Edits) /\ call[c].op = "title"
    BY <1>5 DEF TitleAnswered, Back, Edits
  <2>3. Routing'
    BY <1>5, <2>2, Settled DEF PageInv, Routing, TitleAnswered, routing
  <2> QED  BY <1>5, <2>1, <2>2, <2>3, ReplacedKeeps DEF TitleAnswered
<1>6. CASE RouteAnswered(c)
  <2>1. Back(c, Edits)
    BY <1>6 DEF RouteAnswered, Back, Edits
  <2>2. Routing'
    BY <1>6 DEF RouteAnswered, Routing
  <2> QED  BY <1>6, <2>1, <2>2, ReplacedKeeps DEF RouteAnswered
<1> QED
  BY <1>1, <1>2, <1>3, <1>4, <1>5, <1>6, LoadKeeps, SaveKeeps DEF Answered
-----------------------------------------------------------------------------
(* The page sends a call, on the version it remembers.                     *)
LEMMA SentOut ==
  ASSUME PageInv, None \notin Nat, NEW op, NEW s, NEW order, Send(op, s, order),
         op \in Edits \cup {"save"}, view = "ready",
         op \in {"add", "remove", "reorder"} => mode = "point_to_point"
  PROVE  \E c \in Ids : \E x :
           /\ Put(c, x) /\ Agrees(x) /\ ~Busy(call[c]) /\ ~Unheard(x)
           /\ x.op = op /\ Busy(x) /\ op # "load"
<1>1. PICK c \in Ids : Free(c) /\ Put(c, [NoCall EXCEPT !.at = "out", !.op = op, !.stop = s,
                                               !.order = order, !.match = IfMatch(op)])
  BY DEF Send, Put
<1>2. PICK x : x = [NoCall EXCEPT !.at = "out", !.op = op, !.stop = s,
                                  !.order = order, !.match = IfMatch(op)]
  OBVIOUS
<1>3. x = [at |-> "out", op |-> op, stop |-> s, order |-> order, match |-> IfMatch(op),
           status |-> "none", reply |-> None]
  BY <1>2 DEF NoCall
<1>4. /\ op \in Edits => IfMatch(op) = known /\ known # None
      /\ op \notin Edits => IfMatch(op) = None
      /\ known # None => known \in Nat /\ known <= trip.version
  BY DEF IfMatch, PageInv, Showing
<1>5. op # "load"
  BY DEF Edits
<1>6. IsCall(x) /\ Belongs(x) /\ Conditional(x) /\ Calculates(x) /\ Truthful(x) /\ News(x)
  <2>1. IsCall(x)
    BY <1>3, <1>4 DEF IsCall
  <2>2. known # None => known <= known
    BY <1>4
  <2>3. Conditional(x)
    BY <1>3, <1>4, <2>2 DEF Conditional, Asking
  <2>4. Belongs(x)
    BY <1>3, <1>5 DEF Belongs, Busy
  <2> QED  BY <2>1, <2>3, <2>4, <1>3 DEF Calculates, Truthful, News, Done, Unheard
<1>7. ~Unheard(x) /\ x.op = op /\ Busy(x) /\ ~Busy(call[c])
  BY <1>1, <1>3 DEF Unheard, Done, Busy, Free
<1> QED  BY <1>1, <1>2, <1>5, <1>6, <1>7 DEF Agrees

LEMMA ClickKeeps ==
  ASSUME PageInv, None \notin Nat, NEW op, NEW s, NEW order, Click(op, s, order),
         op \in Edits \cup {"save"}, view = "ready",
         op \in {"add", "remove", "reorder"} => mode = "point_to_point"
  PROVE  PageInv'
<1>0. PICK c \in Ids :
        \E x : /\ Put(c, x) /\ Agrees(x) /\ ~Busy(call[c]) /\ ~Unheard(x)
               /\ x.op = op /\ Busy(x) /\ op # "load"
  BY SentOut DEF Click
<1>1. PICK x : /\ Put(c, x) /\ Agrees(x) /\ ~Busy(call[c]) /\ ~Unheard(x)
               /\ x.op = op /\ Busy(x) /\ op # "load"
  BY <1>0
<1>2. UNCHANGED <<trip, mode, view, shown, known, timer, routeError, history>>
  BY DEF Click, server, page, routing
<1>3. Under("route") => Under("route")'
  BY <1>1 DEF PageInv, Put, Under, Busy
<1>4. Routing'
  BY <1>2, <1>3 DEF PageInv, Routing, history
<1> QED  BY <1>1, <1>2, <1>4, Patches

LEMMA RouteKeeps ==
  ASSUME PageInv, None \notin Nat, StartRoute, view = "ready", timer' = timer \/ timer' = FALSE,
         UNCHANGED <<server, view, shown, known, picked, history>>
  PROVE  PageInv'
<1>0. PICK c \in Ids :
        \E x : /\ Put(c, x) /\ Agrees(x) /\ ~Busy(call[c]) /\ ~Unheard(x)
               /\ x.op = "route" /\ Busy(x)
  <2>1. Send("route", None, <<>>)
    BY DEF StartRoute
  <2>2. "route" \in Edits \cup {"save"}
    BY DEF Edits
  <2> QED  BY <2>1, <2>2, SentOut
<1>1. PICK x : /\ Put(c, x) /\ Agrees(x) /\ ~Busy(call[c]) /\ ~Unheard(x)
               /\ x.op = "route" /\ Busy(x)
  BY <1>0
<1>2. Routing'
  BY <1>1 DEF PageInv, Put, Under, Busy, Routing
<1>3. timer' => timer
  BY Zenon
<1>4. x.op # "load"
  BY <1>1
<1> QED  BY <1>1, <1>2, <1>3, <1>4, Patches DEF server

LEMMA UserKeeps ==
  ASSUME PageInv, None \notin Nat, view # "left", User \/ TimerFires
  PROVE  PageInv'
<1>1. CASE Pick \/ Cancel
  <2>1. UNCHANGED <<trip, mode, view, shown, known, timer, routeError, call, reshaped, blind>>
    BY <1>1 DEF Pick, Cancel, server, routing, history
  <2> QED
    BY <2>1 DEF PageInv, Showing, Routing, CopyIsExact, Single, Agrees, IsCall, Belongs, Conditional,
                Calculates, Truthful, News, Patch, Busy, Asking, Done, Unheard, IsTrip, IsCopy, Under
<1>2. CASE Confirm
  <2>1. PICK s : s = picked
    OBVIOUS
  <2> QED  BY <1>2, <2>1, ClickKeeps DEF Confirm, FormOffers, CanEdit, Edits
<1>3. CASE RemoveStop
  BY <1>3, ClickKeeps DEF RemoveStop, StopOffers, CanEdit, Edits
<1>4. CASE Drop
  <2>1. PICK s, i : Click("reorder", None, Placed(shown.order, s, i))
    BY <1>4 DEF Drop
  <2>2. PICK order : order = Placed(shown.order, s, i)
    OBVIOUS
  <2>3. view = "ready" /\ mode = "point_to_point"
    BY <1>4 DEF Drop, StopOffers, CanEdit
  <2> QED  BY <2>1, <2>2, <2>3, ClickKeeps DEF Edits
<1>5. CASE BlurField
  BY <1>5, ClickKeeps DEF BlurField, StopOffers, CanEdit, Edits
<1>6. CASE SaveTitle
  BY <1>6, ClickKeeps DEF SaveTitle, HeaderOffers, Edits
<1>7. CASE MarkComplete
  BY <1>7, ClickKeeps DEF MarkComplete, Edits
<1>8. CASE SaveOffline
  BY <1>8, ClickKeeps DEF SaveOffline, HeaderOffers, Edits
<1>9. CASE Recalculate
  BY <1>9, RouteKeeps DEF Recalculate, RouteOffers, CanEdit
<1>10. CASE TimerFires
  BY <1>10, RouteKeeps DEF TimerFires, PageInv, Showing
<1>11. CASE Leave
  <2>1. /\ UNCHANGED <<trip, shown, known, reshaped, blind>> /\ view' = "left" /\ timer' = FALSE
        /\ call' = [c \in Ids |-> NoCall]
    BY <1>11 DEF Leave, server, history
  <2>2. Showing' /\ CopyIsExact' /\ Routing'
    BY <2>1 DEF PageInv, Showing, IsTrip, IsCopy, CopyIsExact, Routing
  <2>3. ASSUME NEW d \in Ids PROVE Agrees(call[d])'
    <3>1. PICK y : y = NoCall
      OBVIOUS
    <3>2. Agrees(y)'
      BY <3>1 DEF NoCall, Agrees, IsCall, Belongs, Conditional, Calculates, Truthful, News, Busy,
                  Asking, Done, Unheard
    <3> QED  BY <3>1, <3>2, <2>1, Same
  <2>4. Single(call)'
    BY <2>1 DEF Single, Busy, Unheard, Done, NoCall
  <2> QED  BY <2>1, <2>2, <2>3, <2>4 DEF PageInv
<1> QED
  BY <1>1, <1>2, <1>3, <1>4, <1>5, <1>6, <1>7, <1>8, <1>9, <1>10, <1>11 DEF User

LEMMA OthersKeep ==
  ASSUME PageInv, None \notin Nat, OtherEdit
  PROVE  PageInv'
<1>1. /\ trip = [version |-> trip.version, order |-> trip.order, route |-> trip.route]
      /\ trip.version \in Nat
  BY DEF PageInv, Showing, IsTrip
<1>2. IsTrip(trip)' /\ trip'.version = trip.version + 1
  <2>1. PICK order, route : trip' = [version |-> trip.version + 1, order |-> order, route |-> route]
    <3>1. CASE \E order \in {trip.order} \cup {Without(trip.order, s) : s \in ToSet(trip.order)} :
                 trip' = [trip EXCEPT !.version = @ + 1, !.order = order]
      <4>1. PICK order : trip' = [trip EXCEPT !.version = @ + 1, !.order = order]
        BY <3>1
      <4>2. trip' = [version |-> trip.version + 1, order |-> order, route |-> trip.route]
        BY <1>1, <4>1
      <4> QED  BY <4>2
    <3>2. CASE trip' = [trip EXCEPT !.version = @ + 1, !.route = trip.order]
      <4>1. trip' = [version |-> trip.version + 1, order |-> trip.order, route |-> trip.order]
        BY <1>1, <3>2
      <4> QED  BY <4>1
    <3> QED  BY <3>1, <3>2 DEF OtherEdit
  <2> QED  BY <1>1, <2>1 DEF IsTrip
<1>3. UNCHANGED <<mode, view, shown, known, timer, routeError, call, reshaped, blind>>
  BY DEF OtherEdit, page, routing, history
<1>4. Showing' /\ CopyIsExact' /\ Routing'
  BY <1>1, <1>2, <1>3 DEF PageInv, Showing, IsTrip, IsCopy, CopyIsExact, Routing, Under
<1>5. ASSUME NEW d \in Ids PROVE Agrees(call[d])'
  <2>1. PICK y : y = call[d]
    OBVIOUS
  <2>2. Agrees(y)
    BY <2>1 DEF PageInv
  <2>3. IsCall(y)' /\ Belongs(y)' /\ Conditional(y)' /\ Calculates(y)' /\ News(y)'
    BY <2>2, <1>1, <1>2, <1>3
       DEF Agrees, IsCall, Belongs, Conditional, Calculates, News, Patch, Busy, Asking, Done, Unheard
  <2>4. Truthful(y)'
    BY <2>2, <1>1, <1>2 DEF Agrees, Truthful, Done, IsTrip
  <2> QED  BY <2>1, <2>3, <2>4, <1>3, Same DEF Agrees
<1>6. Single(call)'
  BY <1>3 DEF PageInv, Single, Busy, Unheard, Done
<1> QED  BY <1>3, <1>4, <1>5, <1>6 DEF PageInv

LEMMA PageStarts ==
  ASSUME None \notin Nat, Init
  PROVE  PageInv
<1>1. trip = [version |-> 1, order |-> Initial, route |-> Initial]
      /\ view = "loading" /\ known = None /\ timer = FALSE /\ reshaped = FALSE
  BY DEF Init
<1>2. Showing /\ Routing /\ CopyIsExact
  BY <1>1 DEF Showing, IsTrip, Routing, CopyIsExact
<1>3. /\ call = [c \in Ids |-> call[c]]
      /\ \A c \in Ids : call[c] = IF c = 1 THEN [NoCall EXCEPT !.at = "out"] ELSE NoCall
  BY DEF Init
<1>4. \A c \in Ids : Agrees(call[c])
  BY <1>1, <1>3 DEF NoCall, Agrees, IsCall, Belongs, Conditional, Calculates, Truthful, News, Busy,
                    Asking, Done, Unheard, Edits
<1>5. Single(call)
  BY <1>3 DEF Single, Busy, Unheard, Done, NoCall
<1> QED  BY <1>2, <1>3, <1>4, <1>5 DEF PageInv

LEMMA PageStepKeeps ==
  ASSUME PageInv, None \notin Nat, [Next]_vars
  PROVE  PageInv'
<1>1. CASE UNCHANGED vars
  <2>1. UNCHANGED <<trip, mode, view, shown, known, timer, routeError, call, reshaped, blind>>
    BY <1>1 DEF vars, server, page, routing, history
  <2> QED
    BY <2>1 DEF PageInv, Showing, Routing, CopyIsExact, Single, Agrees, IsCall, Belongs, Conditional,
                Calculates, Truthful, News, Patch, Busy, Asking, Done, Unheard, IsTrip, IsCopy, Under
<1>2. CASE Next
  BY <1>2, UserKeeps, OthersKeep, ServeKeeps, FailsKeeps, AnsweredKeeps DEF Next
<1> QED  BY <1>1, <1>2

(* Where there is a stop, a copy or a trip, and not None in its place.     *)
Brings(x) ==
  /\ Done(x) => x.reply \in Trips
  /\ x.op = "add" /\ (Asking(x) \/ Unheard(x)) => x.stop \in Stops

Typed == TypeOK /\ (view = "ready" => shown \in Copies) /\ \A c \in Ids : Brings(call[c])

(* No stop is there twice, in what is there, what is shown, what an answer *)
(* brings and what is asked for; and an address that is picked, or to be   *)
(* added, is new as long as nobody has edited since.                       *)
Fresh(s) == s \notin ToSet(trip.order)

Once(x) ==
  /\ Done(x) => IsInjective(x.reply.order)
  /\ Asking(x) /\ x.op = "reorder" => IsInjective(x.order)
  /\ Asking(x) /\ x.op = "add" /\ x.match = trip.version => Fresh(x.stop)
  /\ picked # None /\ Unheard(x) /\ x.op # "add" /\ x.reply.version = trip.version => Fresh(picked)

OnceInv == ~blind =>
  /\ IsInjective(trip.order)
  /\ view = "ready" => IsInjective(shown.order)
  /\ view = "loading" => picked = None
  /\ picked # None /\ known = trip.version => Fresh(picked)
  /\ \A c \in Ids : Once(call[c])
-----------------------------------------------------------------------------
LEMMA NoCallTyped == None \notin Stops => NoCall \in Calls /\ Brings(NoCall)
BY DEF NoCall, Calls, Ops, Edits, Brings, Done, Asking, Unheard

(* One call changes, or several are gone, and what the page is stays typed.*)
LEMMA CallTyped ==
  ASSUME Typed, NEW c \in Ids, NEW x \in Calls, Brings(x), Put(c, x)
  PROVE  call' \in [Ids -> Calls] /\ (\A d \in Ids : Brings(call[d]))'
<1>1. /\ call' \in [Ids -> Calls] /\ call'[c] = x
      /\ \A d \in Ids : d # c => call'[d] = call[d]
  BY DEF Typed, TypeOK, Put
<1>2. ASSUME NEW d \in Ids PROVE Brings(call'[d])
  BY <1>1 DEF Typed
<1> QED  BY <1>1, <1>2 DEF Brings, Done, Asking, Unheard

LEMMA TypedWith ==
  ASSUME Typed, NEW c \in Ids, NEW x \in Calls, Brings(x), Put(c, x),
         UNCHANGED <<server, page, history>>
  PROVE  Typed'
BY CallTyped DEF Typed, TypeOK, server, page, routing, history

(* An answer, and a trip that is there.                                    *)
LEMMA AnswerTyped ==
  ASSUME Typed, NEW c \in Ids, NEW t, NEW status, Answer(c, status, t),
         status \in {"ok", "conflict", "refused", "missing", "error"},
         t \in Trips \/ (t = None /\ status # "ok"),
         call[c].op = "add" /\ status = "ok" => call[c].stop \in Stops
  PROVE  \E x \in Calls : Put(c, x) /\ Brings(x)
<1>1. call[c] \in Calls
  BY DEF Typed, TypeOK
<1>2. PICK x : x = [NoCall EXCEPT !.at = "back", !.op = call[c].op, !.stop = call[c].stop,
                                  !.status = status, !.reply = t]
  OBVIOUS
<1>3. x = [at |-> "back", op |-> call[c].op, stop |-> call[c].stop, order |-> <<>>,
           match |-> None, status |-> status, reply |-> t]
  BY <1>2 DEF NoCall
<1>4. x \in Calls
  BY <1>1, <1>3 DEF Calls
<1>5. Brings(x)
  BY <1>3 DEF Brings, Done, Asking, Unheard
<1> QED  BY <1>2, <1>4, <1>5 DEF Answer

LEMMA CommitTyped ==
  ASSUME Typed, NEW c \in Ids, NEW t \in Trips, Commit(c, t),
         call[c].op = "add" => call[c].stop \in Stops
  PROVE  Typed'
<1>1. PICK n : n = trip'
  OBVIOUS
<1>2. n \in Trips
  <2>1. n = [t EXCEPT !.version = @ + 1]
    BY <1>1 DEF Commit
  <2> QED  BY <2>1 DEF Trips
<1>3. Answer(c, "ok", n) /\ UNCHANGED <<role, members, mode, page, history>>
  BY <1>1 DEF Commit
<1>4. PICK x \in Calls : Put(c, x) /\ Brings(x)
  BY <1>2, <1>3, AnswerTyped
<1>5. call' \in [Ids -> Calls] /\ (\A d \in Ids : Brings(call[d]))'
  BY <1>4, CallTyped
<1> QED  BY <1>1, <1>2, <1>3, <1>5 DEF Typed, TypeOK, page, routing, history

LEMMA NothingTyped ==
  ASSUME Typed, NEW c \in Ids, NEW status, Answer(c, status, None),
         status \in {"conflict", "refused", "missing", "error"},
         UNCHANGED <<server, page, history>>
  PROVE  Typed'
<1>1. PICK x \in Calls : Put(c, x) /\ Brings(x)
  BY AnswerTyped
<1> QED  BY <1>1, TypedWith

LEMMA ServeTyped ==
  ASSUME Typed, PageInv, NEW c \in Ids, Serve(c) \/ RouteFails(c) \/ Lost(c)
  PROVE  Typed'
<1>1. /\ trip \in Trips /\ call[c] \in Calls /\ Brings(call[c]) /\ Agrees(call[c])
      /\ trip.order \in Seq(Stops)
  BY DEF Typed, TypeOK, PageInv, Trips
<1>s. PICK status : status = Refusal(c)
  OBVIOUS
<1>2. CASE Refuse(c)
  <2>1. status \in {"conflict", "refused"}
    BY <1>2, <1>s DEF Refuse, Refusal
  <2> QED  BY <1>2, <1>s, <2>1, NothingTyped DEF Refuse
<1>3. CASE Reject(c)
  BY <1>3, NothingTyped DEF Reject
<1>4. CASE ServeAdd(c)
  <2>1. call[c].stop \in Stops
    BY <1>1, <1>4 DEF ServeAdd, Handles, Brings, Asking, Edits
  <2>2. PICK t : t = [trip EXCEPT !.order = Append(@, call[c].stop)]
    OBVIOUS
  <2>3. t \in Trips
    BY <1>1, <2>1, <2>2, AppendedIs DEF Trips
  <2> QED  BY <1>4, <2>1, <2>2, <2>3, CommitTyped DEF ServeAdd
<1>5. CASE ServeRemove(c) /\ ~Reject(c)
  <2>1. PICK t : t = [trip EXCEPT !.order = Without(@, call[c].stop)]
    OBVIOUS
  <2>2. t \in Trips
    BY <1>1, <2>1, WithoutIs DEF Trips
  <2>3. call[c].op # "add" /\ Commit(c, t)
    BY <1>5, <2>1 DEF ServeRemove, Handles
  <2> QED  BY <2>2, <2>3, CommitTyped
<1>6. CASE ServeReorder(c) /\ ~Reject(c)
  <2>1. PICK t : t = [trip EXCEPT !.order = call[c].order]
    OBVIOUS
  <2>2. t \in Trips
    BY <1>1, <2>1 DEF Trips, Calls
  <2>3. call[c].op # "add" /\ Commit(c, t)
    BY <1>6, <2>1 DEF ServeReorder, Handles
  <2> QED  BY <2>2, <2>3, CommitTyped
<1>7. CASE (ServeDetail(c) \/ ServeTitle(c)) /\ ~Reject(c)
  <2>1. PICK t : t = trip
    OBVIOUS
  <2>2. call[c].op # "add" /\ Commit(c, t)
    BY <1>7, <2>1 DEF ServeDetail, ServeTitle, Handles
  <2> QED  BY <1>1, <2>1, <2>2, CommitTyped
<1>8. CASE ServeRead(c)
  <2>1. PICK t : t = trip
    OBVIOUS
  <2>2. call[c].op # "add"
    BY <1>8 DEF ServeRead, Handles
  <2>3. PICK x \in Calls : Put(c, x) /\ Brings(x)
    BY <1>1, <1>8, <2>1, <2>2, AnswerTyped DEF ServeRead
  <2> QED  BY <1>8, <2>3, TypedWith DEF ServeRead
<1>9. CASE RouteRead(c)
  <2>1. PICK x : x = [call[c] EXCEPT !.at = "routing", !.order = trip.order]
    OBVIOUS
  <2>2. x \in Calls /\ x.op = call[c].op /\ x.at = "routing"
    BY <1>1, <2>1 DEF Calls
  <2>3. Brings(x)
    BY <1>9, <2>2 DEF Brings, Done, Unheard, RouteRead, Handles
  <2> QED  BY <1>9, <2>1, <2>2, <2>3, TypedWith DEF RouteRead
<1>10. CASE RouteWrite(c)
  <2>1. call[c].op = "route"
    BY <1>1, <1>10 DEF RouteWrite, Agrees, Calculates
  <2>2. PICK t : t = [trip EXCEPT !.route = call[c].order]
    OBVIOUS
  <2>3. t \in Trips
    BY <1>1, <2>2 DEF Trips, Calls
  <2>4. CASE Refusal(c) = "none"
    BY <1>10, <2>1, <2>2, <2>3, <2>4, CommitTyped DEF RouteWrite
  <2>5. CASE Refusal(c) # "none"
    <3>1. status \in {"conflict", "refused"}
      BY <2>5, <1>s DEF Refusal
    <3> QED  BY <1>10, <2>5, <3>1, <1>s, NothingTyped DEF RouteWrite
  <2> QED  BY <2>4, <2>5
<1>11. CASE RouteFails(c) \/ Lost(c)
  BY <1>11, NothingTyped DEF RouteFails, Lost
<1> QED
  BY <1>2, <1>3, <1>4, <1>5, <1>6, <1>7, <1>8, <1>9, <1>10, <1>11 DEF Serve

(* What the page makes of an answer.                                       *)
LEMMA AnsweredTyped ==
  ASSUME Typed, PageInv, None \notin Stops, None \notin Nat, NEW c \in Ids, Answered(c)
  PROVE  Typed'
<1>1. /\ call[c] \in Calls /\ Brings(call[c]) /\ Agrees(call[c]) /\ Received(c)
      /\ call[c].at = "back"
  BY DEF Typed, TypeOK, PageInv, Answered, Back, LoadAnswered, AddAnswered, RemoveAnswered,
         ReorderAnswered, DetailAnswered, TitleAnswered, RouteAnswered, SaveAnswered
<1>2. call' \in [Ids -> Calls] /\ (\A d \in Ids : Brings(call[d]))'
  <2>1. PICK x : x = NoCall
    OBVIOUS
  <2>2. x \in Calls /\ Brings(x) /\ Put(c, x)
    BY <1>1, <2>1, NoCallTyped DEF Received, Put
  <2> QED  BY <2>2, CallTyped
<1>3. Ok(c) => call[c].reply \in Trips /\ (call[c].op = "add" => call[c].stop \in Stops)
  BY <1>1 DEF Ok, Brings, Done, Unheard, Edits
<1>4. known' \in Nat \cup {None} /\ UNCHANGED <<trip, role, members, mode>>
  BY <1>1, <1>3 DEF Received, Typed, TypeOK, Trips, server
<1>5. ASSUME NEW r \in {"owner", "editor", "viewer"}, NEW m \in BOOLEAN, Ok(c)
      PROVE  Replaced(c, r, m) \in Copies
  BY <1>3, <1>5 DEF Replaced, Copy, Copies, Trips
<1>6. ASSUME NEW order \in Seq(Stops), Ok(c), view = "ready"
      PROVE  Patched(c, order) \in Copies
  BY <1>3, <1>6 DEF Patched, Copies, Trips, Typed
<1>7. ASSUME UNCHANGED view \/ (view' \in Views /\ (view' = "ready" => shown' \in Copies)),
             shown' = shown \/ shown' \in Copies,
             {timer', calculating', routeError', reshaped', blind'} \subseteq BOOLEAN,
             picked' \in {picked, None}
      PROVE  Typed'
  BY <1>2, <1>4, <1>7 DEF Typed, TypeOK
<1>t. /\ view \in Views /\ {timer, calculating, routeError, reshaped, blind} \subseteq BOOLEAN
      /\ role \in {"owner", "editor", "viewer"} /\ members \in BOOLEAN
      /\ (view = "ready" => shown \in Copies /\ shown.order \in Seq(Stops))
  BY DEF Typed, TypeOK, Copies
<1>r. Back(c, Edits) => view = "ready"
  BY <1>1 DEF Back, Agrees, Belongs, Busy, Edits
<1>8. CASE LoadAnswered(c)
  BY <1>8, <1>7, <1>5, <1>t DEF LoadAnswered, routing, Views
<1>9. CASE AddAnswered(c)
  <2>1. Ok(c) => Patched(c, Append(shown.order, call[c].stop)) \in Copies
    BY <1>9, <1>3, <1>6, <1>t, <1>r, AppendedIs DEF AddAnswered, Back, Edits
  <2> QED  BY <1>9, <2>1, <1>7, <1>t DEF AddAnswered, Schedule
<1>10. CASE RemoveAnswered(c)
  <2>1. Ok(c) => Patched(c, Without(shown.order, call[c].stop)) \in Copies
    BY <1>10, <1>3, <1>6, <1>t, <1>r, WithoutIs DEF RemoveAnswered, Back, Edits
  <2> QED  BY <1>10, <2>1, <1>7, <1>t DEF RemoveAnswered, Schedule
<1>11. CASE ReorderAnswered(c)
  <2>1. Ok(c) => Patched(c, call[c].reply.order) \in Copies
    BY <1>11, <1>3, <1>6, <1>t, <1>r DEF ReorderAnswered, Back, Edits, Trips
  <2> QED  BY <1>11, <2>1, <1>7, <1>t DEF ReorderAnswered, Schedule
<1>12. CASE DetailAnswered(c)
  <2>1. Ok(c) => Patched(c, shown.order) \in Copies
    BY <1>12, <1>3, <1>6, <1>t, <1>r DEF DetailAnswered, Back, Edits, Trips
  <2> QED  BY <1>12, <2>1, <1>7, <1>t DEF DetailAnswered, routing
<1>13. CASE TitleAnswered(c)
  BY <1>13, <1>7, <1>5, <1>t DEF TitleAnswered, routing
<1>14. CASE RouteAnswered(c)
  BY <1>14, <1>7, <1>5, <1>t DEF RouteAnswered
<1>15. CASE SaveAnswered(c)
  BY <1>15, <1>7, <1>t DEF SaveAnswered, routing
<1> QED
  BY <1>8, <1>9, <1>10, <1>11, <1>12, <1>13, <1>14, <1>15 DEF Answered

LEMMA SendTyped ==
  ASSUME Typed, None \notin Nat, NEW op \in Edits \cup {"save"}, NEW s \in Stops \cup {None},
         NEW order \in Seq(Stops), Send(op, s, order), op = "add" => s \in Stops
  PROVE  \E c \in Ids, x \in Calls : Put(c, x) /\ Brings(x)
<1>1. PICK c \in Ids : Put(c, [NoCall EXCEPT !.at = "out", !.op = op, !.stop = s,
                                             !.order = order, !.match = IfMatch(op)])
  BY DEF Send, Put
<1>2. PICK x : x = [NoCall EXCEPT !.at = "out", !.op = op, !.stop = s,
                                  !.order = order, !.match = IfMatch(op)]
  OBVIOUS
<1>3. x = [at |-> "out", op |-> op, stop |-> s, order |-> order, match |-> IfMatch(op),
           status |-> "none", reply |-> None]
  BY <1>2 DEF NoCall
<1>4. IfMatch(op) \in Nat \cup {None}
  BY DEF IfMatch, Typed, TypeOK
<1>5. x \in Calls
  BY <1>3, <1>4 DEF Calls, Ops
<1>6. Brings(x)
  BY <1>3 DEF Brings, Done, Unheard
<1> QED  BY <1>1, <1>2, <1>5, <1>6

LEMMA ClickTyped ==
  ASSUME Typed, None \notin Nat, NEW op \in Edits \cup {"save"}, NEW s \in Stops \cup {None},
         NEW order \in Seq(Stops), Click(op, s, order), op = "add" => s \in Stops
  PROVE  Typed'
<1>1. PICK c \in Ids, x \in Calls : Put(c, x) /\ Brings(x)
  BY SendTyped DEF Click
<1> QED  BY <1>1, TypedWith DEF Click

LEMMA RouteTyped ==
  ASSUME Typed, None \notin Nat, StartRoute, timer' \in BOOLEAN,
         UNCHANGED <<server, view, shown, known, picked, history>>
  PROVE  Typed'
<1>1. PICK c \in Ids, x \in Calls : Put(c, x) /\ Brings(x)
  <2>1. /\ Send("route", None, <<>>) /\ "route" \in Edits \cup {"save"} /\ "route" # "add"
        /\ None \in Stops \cup {None} /\ <<>> \in Seq(Stops)
    BY DEF StartRoute, Edits
  <2> QED  BY <2>1, SendTyped
<1>2. call' \in [Ids -> Calls] /\ (\A d \in Ids : Brings(call[d]))'
  BY <1>1, CallTyped
<1> QED  BY <1>2 DEF Typed, TypeOK, StartRoute, server, history

LEMMA UserTyped ==
  ASSUME Typed, None \notin Nat, None \notin Stops, User \/ TimerFires \/ OtherEdit
  PROVE  Typed'
<1>0. <<>> \in Seq(Stops) /\ None \in Stops \cup {None}
  OBVIOUS
<1>e. {"remove", "reorder", "detail", "title", "route", "save", "add"} = Edits \cup {"save"}
  BY DEF Edits
<1>v. view = "ready" => shown \in Copies /\ shown.order \in Seq(Stops)
  BY DEF Typed, Copies
<1>s. view = "ready" => ToSet(shown.order) \subseteq Stops
  BY <1>v DEF ToSet
<1>1. CASE Pick \/ Cancel
  BY <1>1 DEF Pick, Cancel, Typed, TypeOK, server, routing, history, Brings, Done, Asking, Unheard
<1>2. CASE Confirm
  <2>1. PICK s : s = picked
    OBVIOUS
  <2>2. s \in Stops
    BY <1>2, <2>1 DEF Confirm, Typed, TypeOK
  <2> QED  BY <1>0, <1>2, <1>e, <2>1, <2>2, ClickTyped DEF Confirm
<1>3. CASE RemoveStop
  BY <1>0, <1>3, <1>e, <1>s, ClickTyped DEF RemoveStop, StopOffers, CanEdit
<1>4. CASE Drop
  <2>1. view = "ready"
    BY <1>4 DEF Drop, StopOffers, CanEdit
  <2>2. PICK s \in ToSet(shown.order) : \E i \in 1 .. Len(Without(shown.order, s)) + 1 :
          Click("reorder", None, Placed(shown.order, s, i))
    BY <1>4 DEF Drop
  <2>i. PICK i \in 1 .. Len(Without(shown.order, s)) + 1 :
          Click("reorder", None, Placed(shown.order, s, i))
    BY <2>2
  <2>3. PICK order : order = Placed(shown.order, s, i)
    OBVIOUS
  <2>4. order \in Seq(Stops)
    BY <1>v, <1>s, <2>1, <2>3, PlacedIs
  <2> QED  BY <1>0, <1>e, <2>i, <2>3, <2>4, ClickTyped
<1>5. CASE BlurField
  BY <1>0, <1>5, <1>e, <1>s, ClickTyped DEF BlurField, StopOffers, CanEdit
<1>6. CASE SaveTitle
  BY <1>0, <1>6, <1>e, ClickTyped DEF SaveTitle
<1>7. CASE MarkComplete
  BY <1>0, <1>7, <1>e, ClickTyped DEF MarkComplete
<1>8. CASE SaveOffline
  BY <1>0, <1>8, <1>e, ClickTyped DEF SaveOffline
<1>9. CASE Recalculate \/ TimerFires
  BY <1>9, RouteTyped DEF Recalculate, TimerFires, Typed, TypeOK
<1>10. CASE Leave
  <2>1. PICK y : y = NoCall
    OBVIOUS
  <2>2. call' = [c \in Ids |-> y] /\ y \in Calls /\ Brings(y)
    BY <1>10, <2>1, NoCallTyped DEF Leave
  <2>3. call' \in [Ids -> Calls] /\ \A d \in Ids : call'[d] = y
    BY <2>2
  <2>4. (\A d \in Ids : Brings(call[d]))'
    BY <2>2, <2>3 DEF Brings, Done, Asking, Unheard
  <2> QED  BY <1>10, <2>3, <2>4 DEF Leave, Typed, TypeOK, Views, server, history
<1>11. CASE OtherEdit
  <2>1. trip \in Trips /\ trip.order \in Seq(Stops)
    BY DEF Typed, TypeOK, Trips
  <2>2. trip' \in Trips
    <3>1. CASE \E order \in {trip.order} \cup {Without(trip.order, s) : s \in ToSet(trip.order)} :
                 trip' = [trip EXCEPT !.version = @ + 1, !.order = order]
      <4>1. PICK order : /\ order \in {trip.order} \cup {Without(trip.order, s) : s \in ToSet(trip.order)}
                         /\ trip' = [trip EXCEPT !.version = @ + 1, !.order = order]
        BY <3>1
      <4>2. order \in Seq(Stops)
        BY <2>1, <4>1, WithoutIs
      <4>3. trip' = [version |-> trip.version + 1, order |-> order, route |-> trip.route]
        BY <2>1, <4>1 DEF Trips
      <4> QED  BY <2>1, <4>2, <4>3 DEF Trips
    <3>2. CASE trip' = [trip EXCEPT !.version = @ + 1, !.route = trip.order]
      <4>1. trip' = [version |-> trip.version + 1, order |-> trip.order, route |-> trip.order]
        BY <2>1, <3>2 DEF Trips
      <4> QED  BY <2>1, <4>1 DEF Trips
    <3> QED  BY <1>11, <3>1, <3>2 DEF OtherEdit
  <2> QED
    BY <1>11, <2>2 DEF OtherEdit, Typed, TypeOK, page, routing, history, Brings, Done, Asking, Unheard
<1> QED
  BY <1>1, <1>2, <1>3, <1>4, <1>5, <1>6, <1>7, <1>8, <1>9, <1>10, <1>11 DEF User
-----------------------------------------------------------------------------
(* One call changes and nothing else of what is there once.                *)
LEMMA OnceWith ==
  ASSUME OnceInv, Typed, NEW c \in Ids, NEW x, Put(c, x), ~blind => Once(x),
         UNCHANGED <<server, view, shown, known, picked, history>>
  PROVE  OnceInv'
<1> SUFFICES ASSUME ~blind PROVE OnceInv'
  BY DEF OnceInv, history
<1>1. \A d \in Ids : call'[d] = x \/ call'[d] = call[d]
  BY DEF Put, Typed, TypeOK
<1>2. ASSUME NEW d \in Ids PROVE Once(call[d])'
  <2>1. Once(call'[d])
    BY <1>1 DEF OnceInv
  <2> QED  BY <2>1 DEF Once, Done, Asking, Unheard, Fresh, server
<1> QED  BY <1>2 DEF OnceInv, Fresh, server

LEMMA NothingOnce ==
  ASSUME OnceInv, Typed, NEW c \in Ids, NEW status, status # "ok", Answer(c, status, None),
         UNCHANGED <<server, page, history>>
  PROVE  OnceInv'
<1>1. PICK x : x = [NoCall EXCEPT !.at = "back", !.op = call[c].op, !.stop = call[c].stop,
                                  !.status = status, !.reply = None]
  OBVIOUS
<1>2. Put(c, x) /\ x.at = "back" /\ x.status = status
  BY <1>1 DEF Answer, NoCall
<1>3. Once(x)
  BY <1>2 DEF Once, Done, Asking, Unheard
<1> QED  BY <1>2, <1>3, OnceWith DEF page

LEMMA CommitOnce ==
  ASSUME PageInv, Typed, OnceInv, None \notin Nat, NEW c \in Ids, Asking(call[c]), Matches(c),
         NEW t \in Trips, t.version = trip.version, Commit(c, t),
         ~blind => IsInjective(t.order),
         call[c].op # "add" => ToSet(t.order) \subseteq ToSet(trip.order)
  PROVE  OnceInv'
<1>1. PICK n : n = trip'
  OBVIOUS
<1>2. /\ n \in Trips /\ n.version = trip.version + 1 /\ n.order = t.order
      /\ trip.version \in Nat /\ Showing /\ (\A d \in Ids : Agrees(call[d]) /\ call[d] \in Calls)
  BY <1>1 DEF Commit, Trips, PageInv, Showing, Typed, TypeOK
<1>3. PICK x : x = [NoCall EXCEPT !.at = "back", !.op = call[c].op, !.stop = call[c].stop,
                                  !.status = "ok", !.reply = n]
  OBVIOUS
<1>4. /\ x.at = "back" /\ x.op = call[c].op /\ x.status = "ok" /\ x.reply = n
      /\ Put(c, x) /\ UNCHANGED <<role, members, mode, page, history>>
  BY <1>1, <1>3 DEF Commit, Answer, NoCall
<1> SUFFICES ASSUME ~blind PROVE OnceInv'
  BY <1>4 DEF OnceInv, history
<1>5. /\ known = trip.version /\ view = "ready"
      /\ \A d \in Ids : ~Unheard(call[d])
  BY AcceptedOnTheCopy
<1>6. call'[c] = x /\ \A d \in Ids : d # c => call'[d] = call[d]
  BY <1>4 DEF Put, Typed, TypeOK
<1>7. UNCHANGED <<view, shown, known, picked, blind>>
  BY <1>4 DEF page, history
<1>8. Once(call[c])'
  <2>1. picked # None /\ x.op # "add" => picked \notin ToSet(n.order)
    BY <1>2, <1>4, <1>5 DEF OnceInv, Fresh
  <2> QED  BY <1>1, <1>2, <1>4, <1>6, <1>7, <2>1 DEF Once, Done, Asking, Unheard, Fresh
<1>9. ASSUME NEW d \in Ids, d # c PROVE Once(call[d])'
  <2>1. call'[d] = call[d] /\ Once(call[d]) /\ ~Unheard(call[d]) /\ Agrees(call[d])
    BY <1>2, <1>5, <1>6, <1>9 DEF OnceInv
  <2>2. call[d].match # n.version
    BY <1>2, <2>1 DEF Agrees, IsCall
  <2> QED  BY <1>1, <1>7, <2>1, <2>2 DEF Once, Done, Asking, Unheard
<1>10. known # n.version
  BY <1>2, <1>5
<1>11. IsInjective(n.order)
  BY <1>2
<1> QED  BY <1>1, <1>5, <1>7, <1>8, <1>9, <1>10, <1>11 DEF OnceInv

LEMMA ServeOnce ==
  ASSUME PageInv, Typed, OnceInv, None \notin Nat, NEW c \in Ids,
         Serve(c) \/ RouteFails(c) \/ Lost(c)
  PROVE  OnceInv'
<1>1. /\ trip \in Trips /\ call[c] \in Calls /\ Brings(call[c]) /\ Agrees(call[c])
      /\ trip.order \in Seq(Stops) /\ (~blind => IsInjective(trip.order) /\ Once(call[c]))
  BY DEF Typed, TypeOK, PageInv, Trips, OnceInv
<1>s. PICK status : status = Refusal(c)
  OBVIOUS
<1>2. CASE Refuse(c)
  <2>1. status # "ok"
    BY <1>s DEF Refusal
  <2> QED  BY <1>2, <1>s, <2>1, NothingOnce DEF Refuse
<1>3. CASE Reject(c)
  BY <1>3, NothingOnce DEF Reject
<1>4. CASE ServeAdd(c)
  <2>1. Handles(c, Edits) /\ call[c].op = "add" /\ call[c].at = "out"
    BY <1>4 DEF ServeAdd, Handles, Edits
  <2>a. Asking(call[c]) /\ Matches(c)
    BY <2>1, Handled
  <2>m. call[c].match = trip.version
    BY <1>1, <2>a DEF Agrees, Conditional, Matches
  <2>2. call[c].stop \in Stops
    BY <1>1, <2>1, <2>a DEF Brings
  <2>3. PICK t : t = [trip EXCEPT !.order = Append(@, call[c].stop)]
    OBVIOUS
  <2>4. t \in Trips /\ t.version = trip.version /\ t.order = Append(trip.order, call[c].stop)
    BY <1>1, <2>2, <2>3, AppendedIs DEF Trips
  <2>5. ~blind => IsInjective(t.order)
    BY <1>1, <2>1, <2>2, <2>4, <2>a, <2>m, AppendedIs DEF Once, Fresh
  <2>6. Commit(c, t)
    BY <1>4, <2>3 DEF ServeAdd
  <2> QED  BY <2>1, <2>4, <2>5, <2>6, <2>a, CommitOnce
<1>5. CASE ServeRemove(c) /\ ~Reject(c)
  <2>1. Handles(c, Edits)
    BY <1>5 DEF ServeRemove, Handles, Edits
  <2>2. PICK t : t = [trip EXCEPT !.order = Without(@, call[c].stop)]
    OBVIOUS
  <2>3. t \in Trips /\ t.version = trip.version /\ t.order = Without(trip.order, call[c].stop)
    BY <1>1, <2>2, WithoutIs DEF Trips
  <2>4. (~blind => IsInjective(t.order)) /\ ToSet(t.order) \subseteq ToSet(trip.order)
    BY <1>1, <2>3, WithoutIs
  <2>5. Commit(c, t)
    BY <1>5, <2>2 DEF ServeRemove
  <2> QED  BY <2>1, <2>3, <2>4, <2>5, Handled, CommitOnce
<1>6. CASE ServeReorder(c) /\ ~Reject(c)
  <2>1. Handles(c, Edits) /\ call[c].op = "reorder"
    BY <1>6 DEF ServeReorder, Handles, Edits
  <2>a. Asking(call[c]) /\ Matches(c)
    BY <2>1, Handled
  <2>2. PICK t : t = [trip EXCEPT !.order = call[c].order]
    OBVIOUS
  <2>3. t \in Trips /\ t.version = trip.version /\ t.order = call[c].order
    BY <1>1, <2>2 DEF Trips, Calls
  <2>4. ~blind => IsInjective(t.order)
    BY <1>1, <2>1, <2>3, <2>a DEF Once
  <2>5. Commit(c, t) /\ ToSet(t.order) = ToSet(trip.order)
    BY <1>6, <2>2, <2>3 DEF ServeReorder
  <2> QED  BY <2>3, <2>4, <2>5, <2>a, CommitOnce
<1>7. CASE (ServeDetail(c) \/ ServeTitle(c)) /\ ~Reject(c)
  <2>1. Handles(c, Edits)
    BY <1>7 DEF ServeDetail, ServeTitle, Handles, Edits
  <2>2. PICK t : t = trip
    OBVIOUS
  <2>3. Commit(c, t)
    BY <1>7, <2>2 DEF ServeDetail, ServeTitle
  <2> QED  BY <1>1, <2>1, <2>2, <2>3, Handled, CommitOnce
<1>8. CASE ServeRead(c)
  <2>1. PICK x : x = [NoCall EXCEPT !.at = "back", !.op = call[c].op, !.stop = call[c].stop,
                                    !.status = "ok", !.reply = trip]
    OBVIOUS
  <2>2. /\ Put(c, x) /\ x.at = "back" /\ x.op \in {"load", "save"} /\ x.reply = trip
        /\ UNCHANGED <<server, page, history>>
    BY <1>8, <2>1 DEF ServeRead, Answer, NoCall, Handles
  <2>3. ~blind => Once(x)
    BY <1>1, <2>2 DEF Once, Done, Asking, Unheard, Edits
  <2> QED  BY <2>2, <2>3, OnceWith DEF page
<1>9. CASE RouteRead(c)
  <2>1. PICK x : x = [call[c] EXCEPT !.at = "routing", !.order = trip.order]
    OBVIOUS
  <2>2. x.op = "route" /\ x.at = "routing" /\ Put(c, x) /\ UNCHANGED <<server, page, history>>
    BY <1>1, <1>9, <2>1 DEF Calls, RouteRead, Handles
  <2>3. Once(x)
    BY <2>2 DEF Once, Done, Unheard
  <2> QED  BY <2>2, <2>3, OnceWith DEF page
<1>10. CASE RouteWrite(c)
  <2>1. call[c].op = "route" /\ call[c].at = "routing"
    BY <1>1, <1>10 DEF RouteWrite, Agrees, Calculates
  <2>2. PICK t : t = [trip EXCEPT !.route = call[c].order]
    OBVIOUS
  <2>3. t \in Trips /\ t.version = trip.version /\ t.order = trip.order
    BY <1>1, <2>2 DEF Trips, Calls
  <2>4. CASE Refusal(c) = "none"
    <3>1. Asking(call[c]) /\ Matches(c)
      BY <2>1, <2>4 DEF Asking, Refusal, Edits
    <3>2. Commit(c, t)
      BY <1>10, <2>2, <2>4 DEF RouteWrite
    <3> QED  BY <1>1, <2>3, <3>1, <3>2, CommitOnce
  <2>5. CASE Refusal(c) # "none"
    <3>1. status # "ok"
      BY <1>s DEF Refusal
    <3> QED  BY <1>10, <2>5, <3>1, <1>s, NothingOnce DEF RouteWrite
  <2> QED  BY <2>4, <2>5
<1>11. CASE RouteFails(c) \/ Lost(c)
  BY <1>11, NothingOnce DEF RouteFails, Lost
<1> QED
  BY <1>2, <1>3, <1>4, <1>5, <1>6, <1>7, <1>8, <1>9, <1>10, <1>11 DEF Serve

(* An answer is taken in.                                                  *)
LEMMA TakenOnce ==
  ASSUME PageInv, Typed, OnceInv, NEW c \in Ids, Received(c), call[c].at = "back",
         UNCHANGED picked \/ picked' = None,
         blind => blind',
         ~blind' => /\ view' = "ready" => IsInjective(shown'.order)
                    /\ picked' # None /\ known' = trip.version => Fresh(picked)
                    /\ view' = "loading" => picked' = None
  PROVE  OnceInv'
<1> SUFFICES ASSUME ~blind, ~blind' PROVE OnceInv'
  BY DEF OnceInv
<1>1. trip' = trip /\ \A d \in Ids : call'[d] = NoCall \/ call'[d] = call[d]
  BY Settled
<1>2. ASSUME NEW d \in Ids PROVE Once(call[d])'
  <2>1. CASE call'[d] = NoCall
    BY <2>1 DEF Once, Done, Asking, Unheard, NoCall
  <2>2. CASE call'[d] = call[d]
    <3>1. Once(call[d])
      BY DEF OnceInv
    <3> QED  BY <1>1, <2>2, <3>1 DEF Once, Done, Asking, Unheard, Fresh
  <2> QED  BY <1>1, <2>1, <2>2
<1> QED  BY <1>1, <1>2 DEF OnceInv, Fresh

LEMMA AnsweredOnce ==
  ASSUME PageInv, Typed, OnceInv, None \notin Nat, NEW c \in Ids, Answered(c)
  PROVE  OnceInv'
<1>1. /\ Agrees(call[c]) /\ Received(c) /\ call[c].at = "back"
      /\ ~blind => Once(call[c])
      /\ view = "loading" \/ view = "ready"
      /\ known' = IF Ok(c) THEN call[c].reply.version ELSE known
  BY DEF PageInv, Answered, Back, LoadAnswered, AddAnswered, RemoveAnswered, OnceInv,
         ReorderAnswered, DetailAnswered, TitleAnswered, RouteAnswered, SaveAnswered,
         Received, Agrees, Belongs, Busy
<1>2. Ok(c) /\ ~blind => IsInjective(call[c].reply.order)
  BY <1>1 DEF Ok, Done, Once
<1>r. Back(c, Edits) => view = "ready"
  BY <1>1 DEF Back, Agrees, Belongs, Busy, Edits
<1>3. ASSUME Back(c, Edits), ~blind, picked # None, known' = trip.version, call[c].op # "add"
      PROVE  Fresh(picked)
  <2>1. CASE Ok(c)
    BY <1>1, <1>3, <2>1 DEF Once, Unheard, Done, Ok, Back
  <2>2. CASE ~Ok(c)
    BY <1>1, <1>3, <2>2 DEF OnceInv
  <2> QED  BY <2>1, <2>2
<1>4. ASSUME Back(c, Edits), blind' = blind, view' = view,
             picked' = picked \/ picked' = None,
             call[c].op = "add" /\ Ok(c) => picked' = None,
             Ok(c) /\ ~blind => shown'.order = call[c].reply.order,
             ~Ok(c) => shown' = shown /\ picked' = picked
      PROVE  OnceInv'
  <2>1. ~blind => IsInjective(shown'.order)
    BY <1>2, <1>4, <1>r DEF OnceInv
  <2>2. ~blind /\ picked' # None /\ known' = trip.version => Fresh(picked)
    <3>1. CASE call[c].op = "add"
      <4>1. ~Ok(c) => known' = known
        BY <1>1
      <4> QED  BY <1>4, <3>1, <4>1 DEF OnceInv
    <3>2. CASE call[c].op # "add"
      BY <1>3, <1>4, <3>2
    <3> QED  BY <3>1, <3>2
  <2> QED  BY <1>1, <1>4, <1>r, <2>1, <2>2, TakenOnce
<1>5. CASE LoadAnswered(c)
  <2>1. view = "loading" /\ Back(c, {"load"}) /\ UNCHANGED <<picked, blind>>
    BY <1>1, <1>5 DEF LoadAnswered, Back, Agrees, Belongs, Busy
  <2>2. ~blind => picked = None
    BY <2>1 DEF OnceInv
  <2>3. view' = "ready" => Ok(c) /\ shown'.order = call[c].reply.order
    BY <1>5 DEF LoadAnswered, Replaced, Copy
  <2> QED  BY <1>1, <1>2, <2>1, <2>2, <2>3, TakenOnce
<1>6. CASE AddAnswered(c)
  <2>1. Back(c, Edits) /\ call[c].op = "add"
    BY <1>6 DEF AddAnswered, Back, Edits
  <2>2. Ok(c) /\ ~blind => shown'.order = call[c].reply.order
    BY <1>6, <2>1, Exact DEF AddAnswered, Patch, Patched, IsCopy
  <2> QED  BY <1>4, <1>6, <2>1, <2>2 DEF AddAnswered
<1>7. CASE RemoveAnswered(c)
  <2>1. Back(c, Edits) /\ call[c].op = "remove"
    BY <1>7 DEF RemoveAnswered, Back, Edits
  <2>2. Ok(c) /\ ~blind => shown'.order = call[c].reply.order
    BY <1>7, <2>1, Exact DEF RemoveAnswered, Patch, Patched, IsCopy
  <2> QED  BY <1>4, <1>7, <2>1, <2>2 DEF RemoveAnswered
<1>8. CASE ReorderAnswered(c)
  <2>1. Back(c, Edits) /\ call[c].op = "reorder"
    BY <1>8 DEF ReorderAnswered, Back, Edits
  <2>2. Ok(c) /\ ~blind => shown'.order = call[c].reply.order
    BY <1>8, <2>1, Exact DEF ReorderAnswered, Patched, IsCopy
  <2> QED  BY <1>4, <1>8, <2>1, <2>2 DEF ReorderAnswered
<1>9. CASE DetailAnswered(c)
  <2>1. Back(c, Edits) /\ call[c].op = "detail"
    BY <1>9 DEF DetailAnswered, Back, Edits
  <2>2. Ok(c) /\ ~blind => shown'.order = call[c].reply.order
    BY <1>9, <2>1, Exact DEF DetailAnswered, Patch, Patched, IsCopy
  <2> QED  BY <1>4, <1>9, <2>1, <2>2 DEF DetailAnswered
<1>10. CASE TitleAnswered(c)
  <2>1. Back(c, Edits) /\ call[c].op = "title"
    BY <1>10 DEF TitleAnswered, Back, Edits
  <2>2. Ok(c) => shown'.order = call[c].reply.order
    BY <1>10 DEF TitleAnswered, Replaced, Copy
  <2> QED  BY <1>4, <1>10, <2>1, <2>2 DEF TitleAnswered
<1>11. CASE RouteAnswered(c)
  <2>1. Back(c, Edits) /\ call[c].op = "route"
    BY <1>11 DEF RouteAnswered, Back, Edits
  <2>2. Ok(c) => shown'.order = call[c].reply.order
    BY <1>11 DEF RouteAnswered, Replaced, Copy
  <2> QED  BY <1>4, <1>11, <2>1, <2>2 DEF RouteAnswered
<1>12. CASE SaveAnswered(c)
  <2>1. /\ UNCHANGED <<view, shown, picked>> /\ (blind => blind') /\ (~blind' => known' = known /\ ~blind)
        /\ view = "ready"
    BY <1>1, <1>12 DEF SaveAnswered, Back, Agrees, Belongs, Busy
  <2> QED  BY <1>1, <2>1, TakenOnce DEF OnceInv
<1> QED
  BY <1>5, <1>6, <1>7, <1>8, <1>9, <1>10, <1>11, <1>12 DEF Answered

LEMMA SendOnce ==
  ASSUME OnceInv, Typed, NEW op, NEW s, NEW order, Send(op, s, order),
         ~blind /\ op = "reorder" => IsInjective(order),
         op = "add" => s = picked /\ picked # None,
         UNCHANGED <<server, view, shown, known, picked, history>>
  PROVE  OnceInv'
<1>1. PICK c \in Ids : Put(c, [NoCall EXCEPT !.at = "out", !.op = op, !.stop = s,
                                             !.order = order, !.match = IfMatch(op)])
  BY DEF Send, Put
<1>2. PICK x : x = [NoCall EXCEPT !.at = "out", !.op = op, !.stop = s,
                                  !.order = order, !.match = IfMatch(op)]
  OBVIOUS
<1>3. x.at = "out" /\ x.op = op /\ x.stop = s /\ x.order = order /\ x.match = IfMatch(op)
  BY <1>2 DEF NoCall
<1>4. op = "add" => IfMatch(op) = known
  BY DEF IfMatch, Edits
<1>5. ~blind => Once(x)
  BY <1>3, <1>4 DEF Once, Done, Asking, Unheard, OnceInv
<1> QED  BY <1>1, <1>2, <1>5, OnceWith

LEMMA UserOnce ==
  ASSUME PageInv, Typed, OnceInv, None \notin Nat, User \/ TimerFires \/ OtherEdit
  PROVE  OnceInv'
<1>v. view = "ready" => shown.order \in Seq(Stops) /\ ToSet(shown.order) \subseteq Stops
  BY DEF Typed, Copies, ToSet
<1>1. CASE Pick
  <2>1. picked' \notin ToSet(trip.order) /\ view = "ready"
    BY <1>1 DEF Pick, FormOffers, CanEdit
  <2> QED
    BY <1>1, <2>1 DEF Pick, server, history, OnceInv, Once, Done, Asking, Unheard, Fresh
<1>2. CASE Cancel
  BY <1>2 DEF Cancel, server, history, OnceInv, Once, Done, Asking, Unheard, Fresh
<1>3. CASE Confirm
  <2>1. PICK s : s = picked
    OBVIOUS
  <2> QED  BY <1>3, <2>1, SendOnce DEF Confirm, Click, page
<1>4. CASE Drop
  <2>1. view = "ready"
    BY <1>4 DEF Drop, StopOffers, CanEdit
  <2>2. PICK s \in ToSet(shown.order) : \E i \in 1 .. Len(Without(shown.order, s)) + 1 :
          Click("reorder", None, Placed(shown.order, s, i))
    BY <1>4 DEF Drop
  <2>i. PICK i \in 1 .. Len(Without(shown.order, s)) + 1 :
          Click("reorder", None, Placed(shown.order, s, i))
    BY <2>2
  <2>3. PICK order : order = Placed(shown.order, s, i)
    OBVIOUS
  <2>4. ~blind => IsInjective(order)
    BY <1>v, <2>1, <2>3, PlacedIs DEF OnceInv
  <2> QED  BY <2>i, <2>3, <2>4, SendOnce DEF Click, page
<1>5. CASE RemoveStop \/ BlurField \/ SaveTitle \/ MarkComplete \/ SaveOffline
  BY <1>5, SendOnce DEF RemoveStop, BlurField, SaveTitle, MarkComplete, SaveOffline, Click, page
<1>6. CASE Recalculate \/ TimerFires
  BY <1>6, SendOnce DEF Recalculate, TimerFires, StartRoute
<1>7. CASE Leave
  <2>1. \A d \in Ids : call'[d] = NoCall
    BY <1>7 DEF Leave
  <2> QED
    BY <1>7, <2>1 DEF Leave, server, history, OnceInv, Once, Done, Asking, Unheard, Fresh, NoCall
<1>8. CASE OtherEdit
  <2> SUFFICES ASSUME ~blind PROVE OnceInv'
    BY <1>8 DEF OtherEdit, OnceInv, history
  <2>1. trip \in Trips /\ trip.order \in Seq(Stops) /\ trip.version \in Nat /\ IsInjective(trip.order)
    BY DEF Typed, TypeOK, Trips, OnceInv
  <2>2. trip'.version = trip.version + 1 /\ IsInjective(trip'.order)
    <3>1. CASE \E order \in {trip.order} \cup {Without(trip.order, s) : s \in ToSet(trip.order)} :
                 trip' = [trip EXCEPT !.version = @ + 1, !.order = order]
      <4>1. PICK order : /\ order \in {trip.order} \cup {Without(trip.order, s) : s \in ToSet(trip.order)}
                         /\ trip' = [trip EXCEPT !.version = @ + 1, !.order = order]
        BY <3>1
      <4>2. IsInjective(order)
        BY <2>1, <4>1, WithoutIs
      <4>3. trip' = [version |-> trip.version + 1, order |-> order, route |-> trip.route]
        BY <2>1, <4>1 DEF Trips
      <4> QED  BY <4>2, <4>3
    <3>2. CASE trip' = [trip EXCEPT !.version = @ + 1, !.route = trip.order]
      <4>1. trip' = [version |-> trip.version + 1, order |-> trip.order, route |-> trip.order]
        BY <2>1, <3>2 DEF Trips
      <4> QED  BY <2>1, <4>1
    <3> QED  BY <1>8, <3>1, <3>2 DEF OtherEdit
  <2>3. UNCHANGED <<view, shown, known, picked, call, blind>>
    BY <1>8 DEF OtherEdit, page, history
  <2>4. known # trip'.version
    BY <2>1, <2>2 DEF PageInv, Showing
  <2>5. ASSUME NEW d \in Ids PROVE Once(call[d])'
    <3>1. Agrees(call[d]) /\ Once(call[d])
      BY DEF PageInv, OnceInv
    <3>2. call[d].match # trip'.version /\ (Unheard(call[d]) => call[d].reply.version # trip'.version)
      BY <2>1, <2>2, <3>1 DEF Agrees, IsCall, Truthful, Unheard, IsTrip
    <3> QED  BY <2>3, <3>1, <3>2 DEF Once, Done, Asking, Unheard
  <2> QED  BY <2>2, <2>3, <2>4, <2>5 DEF OnceInv
<1> QED
  BY <1>1, <1>2, <1>3, <1>4, <1>5, <1>6, <1>7, <1>8 DEF User

WholeInv == PageInv /\ Typed /\ OnceInv

LEMMA WholeStarts ==
  ASSUME None \notin Nat, None \notin Stops, Initial \in Seq(Stops), IsInjective(Initial), Init
  PROVE  WholeInv
<1>1. PageInv
  BY PageStarts
<1>2. trip = [version |-> 1, order |-> Initial, route |-> Initial] /\ view = "loading"
  BY DEF Init
<1>3. \A c \in Ids : call[c] = IF c = 1 THEN [NoCall EXCEPT !.at = "out"] ELSE NoCall
  BY DEF Init
<1>4. NoCall \in Calls /\ [NoCall EXCEPT !.at = "out"] \in Calls
  BY NoCallTyped DEF Calls
<1>5. call \in [Ids -> Calls]
  BY <1>4 DEF Init
<1>t. trip \in Trips
  BY <1>2 DEF Trips
<1>6. TypeOK
  BY <1>t, <1>5 DEF Init, TypeOK, Views
<1>7. \A c \in Ids : ~Asking(call[c]) /\ ~Done(call[c]) /\ ~Unheard(call[c])
  BY <1>3 DEF NoCall, Asking, Done, Unheard, Edits
<1>8. Typed
  BY <1>2, <1>6, <1>7 DEF Typed, Brings
<1>9. OnceInv
  BY <1>2, <1>7 DEF Init, OnceInv, Once
<1> QED  BY <1>1, <1>8, <1>9 DEF WholeInv

LEMMA WholeStep ==
  ASSUME None \notin Nat, None \notin Stops, WholeInv, [Next]_vars
  PROVE  WholeInv'
<1>1. PageInv'
  BY PageStepKeeps DEF WholeInv
<1>2. CASE Next
  <2>1. Typed'
    BY <1>2, UserTyped, ServeTyped, AnsweredTyped DEF Next, WholeInv
  <2>2. OnceInv'
    BY <1>2, UserOnce, ServeOnce, AnsweredOnce DEF Next, WholeInv
  <2> QED  BY <1>1, <2>1, <2>2 DEF WholeInv
<1>3. CASE UNCHANGED vars
  <2>1. Typed'
    BY <1>3 DEF vars, server, page, routing, history, WholeInv, Typed, TypeOK, Brings, Done, Asking, Unheard
  <2>2. OnceInv'
    BY <1>3 DEF vars, server, page, routing, history, WholeInv, OnceInv, Once, Done, Asking, Unheard, Fresh
  <2> QED  BY <1>1, <2>1, <2>2 DEF WholeInv
<1> QED  BY <1>2, <1>3

LEMMA WholeKept == Spec => []WholeInv
<1>1. Init => WholeInv
  BY TripPageAssumption, WholeStarts
<1>2. WholeInv /\ [Next]_vars => WholeInv'
  BY TripPageAssumption, WholeStep
<1> QED  BY <1>1, <1>2, PTL DEF Spec

(* The trip, the page's copy of it and every call stay well typed.         *)
THEOREM PageTyped == Spec => []TypeOK
<1>1. WholeInv => TypeOK
  BY DEF WholeInv, Typed
<1> QED  BY <1>1, WholeKept, PTL

(* The answers, applied one by one to the page's copy, add up to the trip: *)
(* when the tab remembers the version the trip has, the page shows the     *)
(* trip as it is (page.tsx:234).                                           *)
THEOREM CopyExact == Spec => []CopyIsExact
<1>1. WholeInv => CopyIsExact
  BY DEF WholeInv, PageInv
<1> QED  BY <1>1, WholeKept, PTL

(* After an edit of the stops the page is on its way to the route of the   *)
(* stops it shows, or says that it has none (page.tsx:114).                *)
THEOREM RouteFollowed == Spec => []RouteFollows
<1>1. WholeInv => RouteFollows
  BY DEF WholeInv, PageInv, Routing, RouteFollows
<1> QED  BY <1>1, WholeKept, PTL

(* However often an address is sent, it is added once (WaypointList:184).  *)
THEOREM AddressOnce == Spec => []AddedOnce
<1>1. WholeInv => AddedOnce
  BY DEF WholeInv, OnceInv, AddedOnce
<1> QED  BY <1>1, WholeKept, PTL
=============================================================================
