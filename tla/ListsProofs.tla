---------------------------- MODULE ListsProofs ----------------------------
(***************************************************************************)
(* Theorems about Lists, for any number of rows and links, of calls under  *)
(* way and of edits by others: each handler finds in its answer what it    *)
(* puts on the page, a page without overlapping or failing calls shows     *)
(* what its user has been told of, and a page that reflects every commit   *)
(* shows exactly the server's rows.                                        *)
(***************************************************************************)
EXTENDS Lists, TLAPS

Asks(x) == x.at # "idle"
Reads == {"load", "invites", "sum"}
Told1(x) == x.at = "back" /\ x.ok

(* What a page knows of has been committed.                                *)
Past == mine \cup seen \subseteq 1 .. writes

(* What a handler does with its answer finds in it what it needs.          *)
Sound(x) == Asks(x) =>
  /\ x.wrote <= writes /\ x.upto <= writes
  /\ x.op = "set" => x.item \in Items /\ x.val \in Values
  /\ x.op = "remove" => x.item \in Items
  /\ Told1(x) /\ x.op = "add" => x.item \in Items /\ x.val \in Values
  /\ Told1(x) /\ x.op \in {"load", "invites", "template"} => x.reply \in Lists
  /\ kind = "packing" /\ x.op \in {"set", "remove"} => x.kept \in Lists
  /\ kind = "packing" /\ x.op = "set" => x.kept[x.item] # <<>>
  /\ x.by = "link" => kind = "share"
  /\ kind = "share" => x.op \in {"add", "remove", "set"}

(* A call alone: what the page has been told of is shown by now, unless    *)
(* the call is the one that will show it; its own change is not yet.       *)
Settled == mine \subseteq seen /\ (kind = "budget" => mine \subseteq 1 .. summed)

Lone(x) ==
  /\ x.crossed = {} /\ (x.at = "back" => x.ok)
  /\ x.op # "load" => mine \subseteq seen
  /\ kind = "budget" /\ x.op = "load" => mine = {}
  /\ kind = "budget" /\ x.op \notin {"load", "sum"} => mine \subseteq 1 .. summed
  /\ x.at = "back" => mine \subseteq 1 .. x.upto
  /\ x.at = "back" /\ x.op \notin Reads => x.wrote = x.upto /\ x.wrote \notin seen

(* As long as calls neither overlap nor fail there is at most one, and     *)
(* once it has ended the page shows what it was told.                      *)
Own == ~torn =>
  /\ \A c, d \in Slots : Asks(call[c]) /\ Asks(call[d]) => c = d
  /\ \A c \in Slots : Asks(call[c]) => Lone(call[c])
  /\ view = "ready" /\ (\A c \in Slots : ~Asks(call[c])) => Settled

Placed ==
  /\ kind \in Kinds /\ mayEdit \in BOOLEAN
  /\ rows \in [Items -> Values \cup {None, "gone"}]
  /\ writes \in Nat /\ summed \in Nat
  /\ view \in {"loading", "ready", "error", "left"}
  /\ shown \in Lists /\ torn \in BOOLEAN

(* The trip from which the share dialog opens.                             *)
CopyInv ==
  /\ copy \in [shown : Lists, seen : SUBSET Nat]
  /\ copy.seen \subseteq 1 .. writes
  /\ 1 .. writes \subseteq copy.seen => copy.shown = Listing

ListsInv ==
  Placed /\ Past /\ call \in [Slots -> Calls] /\ (\A c \in Slots : Sound(call[c])) /\ Own

-----------------------------------------------------------------------------
LEMMA NoCallSound == NoCall \in Calls /\ ~Asks(NoCall) /\ Sound(NoCall)
<1>1. NoCall \in Calls
  BY DEF NoCall, Calls, Handlers, Edits
<1>2. ~Asks(NoCall)
  BY DEF NoCall, Asks
<1> QED  BY <1>1, <1>2 DEF Sound

LEMMA SoundStays ==
  ASSUME NEW x \in Calls, Sound(x), kind' = kind, writes \in Nat, writes' \in Nat, writes <= writes'
  PROVE  Sound(x)'
<1>1. x.wrote \in Nat /\ x.upto \in Nat
  BY DEF Calls
<1> QED  BY <1>1 DEF Sound, Asks, Told1

(* One call goes a step further.                                           *)
LEMMA OneCall ==
  ASSUME ListsInv, NEW c \in Slots, Asks(call[c]), NEW x \in Calls, Answer(c, x),
         kind' = kind, writes <= writes', Placed', Past', Sound(x)', torn => torn',
         ~torn' /\ Lone(call[c]) => IF Asks(x) THEN Lone(x)' ELSE (view' = "ready" => Settled')
  PROVE  ListsInv'
<1>1. /\ call \in [Slots -> Calls] /\ call' \in [Slots -> Calls]
      /\ call'[c] = x /\ \A d \in Slots : d # c => call'[d] = call[d]
  BY DEF ListsInv, Answer
<1>2. ASSUME NEW d \in Slots PROVE Sound(call[d])'
  <2>1. writes \in Nat /\ writes' \in Nat /\ call[d] \in Calls /\ Sound(call[d])
    BY <1>1 DEF ListsInv, Placed
  <2>2. Sound(x)' /\ (call'[d] = x \/ call'[d] = call[d])
    BY <1>1
  <2>3. PICK y \in Calls : y = call[d]
    BY <2>1
  <2>4. Sound(y)'
    BY <2>1, <2>3, SoundStays
  <2>5. call'[d] = x \/ call'[d] = y
    BY <2>2, <2>3
  <2> QED  BY <2>2, <2>4, <2>5 DEF Sound, Asks, Told1
<1>3. Own'
  <2> SUFFICES ASSUME ~torn'
               PROVE  /\ (\A d, e \in Slots : Asks(call'[d]) /\ Asks(call'[e]) => d = e)
                      /\ \A d \in Slots : (Asks(call[d]) => Lone(call[d]))'
                      /\ (view = "ready" /\ (\A d \in Slots : ~Asks(call[d])) => Settled)'
    BY DEF Own, Asks
  <2>1. Lone(call[c]) /\ \A d \in Slots : Asks(call[d]) => d = c
    BY DEF ListsInv, Own, Placed
  <2>2. \A d \in Slots : Asks(call'[d]) => d = c
    BY <1>1, <2>1
  <2>3. \A d \in Slots : (Asks(call[d]) => Lone(call[d]))'
    <3> SUFFICES ASSUME NEW d \in Slots, Asks(call'[d]) PROVE Lone(call[d])'
      BY DEF Asks
    <3>1. call'[d] = x /\ Lone(x)'
      BY <1>1, <2>1, <2>2
    <3> QED  BY <3>1 DEF Lone
  <2>4. (view = "ready" /\ (\A d \in Slots : ~Asks(call[d])) => Settled)'
    BY <1>1, <2>1 DEF Asks
  <2> QED  BY <2>2, <2>3, <2>4
<1> QED  BY <1>1, <1>2, <1>3 DEF ListsInv

(* A new call: alone, or the page has been torn.                           *)
LEMMA NewCall ==
  ASSUME ListsInv, NEW c \in Slots, ~Asks(call[c]), NEW x \in Calls, Asks(x),
         call' \in [Slots -> Calls], call'[c] = x,
         \A d \in Slots \ {c} : Sound(call'[d]) /\ (~Asks(call[d]) => ~Asks(call'[d])),
         UNCHANGED <<kind, writes, mine, seen, summed>>,
         Placed', Sound(x), torn' = (torn \/ \E d \in Slots : Asks(call[d])),
         ~torn' => x.crossed = {} /\ x.at = "out" /\
                   (x.op = "load" => kind # "budget") /\ (x.op # "load" => view = "ready")
  PROVE  ListsInv'
<1>1. ASSUME NEW d \in Slots PROVE Sound(call[d])'
  <2>1. Sound(call'[d])
    OBVIOUS
  <2> QED  BY <2>1 DEF Sound, Asks, Told1
<1>2. Past'
  BY DEF ListsInv, Past
<1>3. Own'
  <2> SUFFICES ASSUME ~torn'
               PROVE  /\ (\A d, e \in Slots : Asks(call'[d]) /\ Asks(call'[e]) => d = e)
                      /\ \A d \in Slots : (Asks(call[d]) => Lone(call[d]))'
                      /\ (view = "ready" /\ (\A d \in Slots : ~Asks(call[d])) => Settled)'
    BY DEF Own, Asks
  <2>1. ~torn /\ \A d \in Slots : ~Asks(call[d])
    BY DEF ListsInv, Placed
  <2>2. \A d \in Slots : Asks(call'[d]) => d = c
    BY <2>1
  <2>3. view = "ready" => Settled
    BY <2>1 DEF ListsInv, Own
  <2>4. Lone(x)
    BY <2>3 DEF Lone, Settled
  <2>5. \A d \in Slots : (Asks(call[d]) => Lone(call[d]))'
    BY <2>2, <2>4 DEF Lone, Asks
  <2>6. ~(\A d \in Slots : ~Asks(call[d]))'
    BY DEF Asks
  <2> QED  BY <2>2, <2>5, <2>6
<1> QED  BY <1>1, <1>2, <1>3 DEF ListsInv

-----------------------------------------------------------------------------
(* What is shown stays a list of values for each row.                      *)

LEMMA FlipValue == \A v : Flip(v) \in Values
BY DEF Flip, Values

LEMMA SetListed ==
  ASSUME shown \in Lists, NEW i \in Items, NEW v \in Values \cup {"gone"}
  PROVE  Set(i, v) \in Lists
<1> DEFINE S == Values \cup {"gone"}
<1>1. shown[i] \in Seq(S)
  BY DEF Lists
<1>2. DOMAIN shown[i] = 1 .. Len(shown[i]) /\ Len(shown[i]) \in Nat
  BY <1>1
<1>3. [n \in DOMAIN shown[i] |-> v] \in Seq(S)
  BY <1>2
<1> QED  BY <1>3 DEF Set, Lists

LEMMA DropListed ==
  ASSUME shown \in Lists, NEW i \in Items
  PROVE  Drop(i) \in Lists
<1>1. <<>> \in Seq(Values \cup {"gone"})
  OBVIOUS
<1> QED  BY <1>1 DEF Drop, Lists

LEMMA ListingListed ==
  ASSUME Placed
  PROVE  Listing \in Lists
<1>1. ASSUME NEW i \in Items
      PROVE  Listing[i] \in Seq(Values \cup {"gone"})
  <2>1. CASE Listing[i] = <<>>
    BY <2>1
  <2>2. CASE Listing[i] # <<>>
    <3>1. Listing[i] = <<rows[i]>> /\ rows[i] \in Values \cup {"gone"}
      BY <2>2 DEF Listing
    <3>2. \A v \in Values \cup {"gone"} : <<v>> \in Seq(Values \cup {"gone"})
      OBVIOUS
    <3> QED  BY <3>1, <3>2
  <2> QED  BY <2>1, <2>2
<1>2. Listing = [i \in Items |-> Listing[i]]
  BY DEF Listing
<1> QED  BY <1>1, <1>2 DEF Lists

-----------------------------------------------------------------------------
(* The clicks.                                                             *)

LEMMA MarksInside ==
  ASSUME NEW op, NEW i \in Items \cup {None}
  PROVE  Marks(op, i) \subseteq Items \cup {New}
BY DEF Marks

LEMMA StartKeeps ==
  ASSUME ListsInv, NEW by \in Handlers, NEW op \in Edits, NEW i \in Items \cup {None},
         NEW v \in Values \cup {None}, NEW kept \in Lists \cup {None}, Start(by, op, i, v, kept),
         op = "set" => i \in Items /\ v \in Values,
         op = "remove" => i \in Items,
         kind = "packing" /\ op \in {"set", "remove"} => kept \in Lists,
         kind = "packing" /\ op = "set" => kept[i] # <<>>,
         by = "link" => kind = "share",
         kind = "share" => op \in {"add", "remove", "set"},
         shown' \in Lists, UNCHANGED <<server, view, seen, summed, mine>>
  PROVE  ListsInv'
<1>1. PICK c \in Slots :
       /\ Free(c)
       /\ call' = [d \in Slots |->
            IF d = c THEN [Asked(by, op, i, v) EXCEPT
              !.kept = kept,
              !.crossed = UNION {Marks(call[e].op, call[e].item) : e \in {e \in Slots : ~Free(e)}}]
            ELSE IF Free(d) THEN call[d]
            ELSE [call[d] EXCEPT !.crossed = @ \cup Marks(op, i)]]
  BY DEF Start
<1> DEFINE M == UNION {Marks(call[e].op, call[e].item) : e \in {e \in Slots : ~Free(e)}}
           x == [Asked(by, op, i, v) EXCEPT !.kept = kept, !.crossed = M]
<1>2. call \in [Slots -> Calls] /\ view = "ready" /\ torn' = (torn \/ \E d \in Slots : ~Free(d))
  BY DEF ListsInv, Start, Offered
<1>3. M \in SUBSET (Items \cup {New})
  <2>1. \A e \in Slots : Marks(call[e].op, call[e].item) \subseteq Items \cup {New}
    BY <1>2, MarksInside DEF Calls
  <2> QED  BY <2>1
<1>4. (\A e \in Slots : Free(e)) => M = {}
  OBVIOUS
<1> HIDE DEF M
<1>5. /\ x \in Calls /\ x.at = "out" /\ x.by = by /\ x.op = op /\ x.item = i /\ x.val = v
      /\ x.kept = kept /\ x.crossed = M /\ x.wrote = 0 /\ x.upto = 0
  BY <1>3 DEF Asked, NoCall, Calls
<1>6. call'[c] = x
  BY <1>1 DEF M
<1>7. ASSUME NEW d \in Slots \ {c}
      PROVE  /\ call'[d] \in Calls /\ Sound(call'[d])
             /\ ~Asks(call[d]) => ~Asks(call'[d])
  <2>1. call[d] \in Calls /\ Sound(call[d])
    BY <1>2 DEF ListsInv
  <2>2. CASE Free(d)
    BY <1>1, <2>1, <2>2
  <2>3. CASE ~Free(d)
    <3> DEFINE y == [call[d] EXCEPT !.crossed = @ \cup Marks(op, i)]
    <3>1. Marks(op, i) \subseteq Items \cup {New}
      BY MarksInside
    <3>2. /\ y \in Calls /\ y.at = call[d].at /\ y.by = call[d].by /\ y.op = call[d].op
          /\ y.item = call[d].item /\ y.val = call[d].val /\ y.kept = call[d].kept
          /\ y.ok = call[d].ok /\ y.reply = call[d].reply /\ y.upto = call[d].upto
          /\ y.wrote = call[d].wrote
      BY <2>1, <3>1 DEF Calls
    <3>3. call'[d] = y
      BY <1>1, <2>3
    <3> HIDE DEF y
    <3> QED  BY <2>1, <2>3, <3>2, <3>3 DEF Sound, Asks, Told1, Free
  <2> QED  BY <2>2, <2>3
<1>8. call' \in [Slots -> Calls]
  <2>1. call' = [d \in Slots |-> call'[d]]
    BY <1>1
  <2>2. \A d \in Slots : call'[d] \in Calls
    BY <1>5, <1>6, <1>7
  <2> QED  BY <2>1, <2>2
<1> HIDE DEF x
<1>9. Asks(x) /\ Sound(x)
  BY <1>5 DEF Sound, Asks, Told1, ListsInv, Placed
<1>10. Placed'
  BY <1>2 DEF ListsInv, Placed, server
<1>11. UNCHANGED <<kind, writes, mine, seen, summed>> /\ ~Asks(call[c])
  BY <1>1 DEF server, Free, Asks
<1>12. torn' = (torn \/ \E d \in Slots : Asks(call[d]))
  BY <1>2 DEF Free, Asks
<1>13. ~torn' => x.crossed = {} /\ x.at = "out"
  BY <1>2, <1>4, <1>5
<1> QED
  BY <1>2, <1>5, <1>6, <1>7, <1>8, <1>9, <1>10, <1>11, <1>12, <1>13, NewCall DEF Edits

LEMMA ClickKeeps ==
  ASSUME ListsInv, NEW by \in Handlers, NEW op \in Edits, NEW i \in Items \cup {None},
         NEW v \in Values \cup {None}, Click(by, op, i, v),
         op = "set" => i \in Items /\ v \in Values,
         op = "remove" => i \in Items,
         kind = "packing" => op \notin {"set", "remove"},
         by = "link" => kind = "share",
         kind = "share" => op \in {"add", "remove", "set"}
  PROVE  ListsInv'
<1>1. Start(by, op, i, v, None) /\ UNCHANGED <<server, view, seen, summed, mine>>
      /\ shown' \in Lists /\ None \in Lists \cup {None}
  BY DEF Click, page, ListsInv, Placed
<1> QED  BY <1>1, StartKeeps

LEMMA ReopenKeeps ==
  ASSUME ListsInv, Reopen
  PROVE  ListsInv'
<1>1. PICK c \in Slots :
       /\ Free(c)
       /\ call' = [d \in Slots |->
                     IF d = c THEN Asked("open", "load", None, None)
                     ELSE IF call[d].by = "open" THEN NoCall ELSE call[d]]
  BY DEF Reopen
<1>2. /\ kind = "comments" /\ UNCHANGED <<server, page, mine>>
      /\ torn' = (torn \/ \E d \in Slots : Asks(call[d])) /\ call \in [Slots -> Calls]
  BY DEF Reopen, Free, Asks, ListsInv
<1> DEFINE x == Asked("open", "load", None, None)
<1>3. /\ x \in Calls /\ x.at = "out" /\ x.by = "open" /\ x.op = "load" /\ x.crossed = {}
      /\ x.wrote = 0 /\ x.upto = 0
  BY DEF Asked, NoCall, Calls, Handlers, Edits
<1>4. call'[c] = x
  BY <1>1
<1> HIDE DEF x
<1>5. \A d \in Slots \ {c} : Sound(call'[d]) /\ (~Asks(call[d]) => ~Asks(call'[d]))
  BY <1>1, NoCallSound DEF ListsInv
<1>6. call' \in [Slots -> Calls]
  <2>1. \A d \in Slots : call'[d] \in Calls
    BY <1>1, <1>2, <1>3, <1>4, NoCallSound
  <2>2. call' = [d \in Slots |-> call'[d]]
    BY <1>1
  <2> QED  BY <2>1, <2>2
<1>7. Asks(x) /\ Sound(x)
  BY <1>2, <1>3 DEF Sound, Asks, Told1, ListsInv, Placed
<1>8. Placed' /\ UNCHANGED <<kind, writes, mine, seen, summed>> /\ ~Asks(call[c])
  BY <1>1, <1>2 DEF ListsInv, Placed, server, page, Free, Asks
<1> QED  BY <1>2, <1>3, <1>4, <1>5, <1>6, <1>7, <1>8, NewCall

(* The share dialog starts anew from the page's trip.                      *)
LEMMA ReopenShareKeeps ==
  ASSUME ListsInv, CopyInv, ReopenShare
  PROVE  ListsInv'
<1>1. PICK open \in Slots :
       call' = [c \in Slots |-> IF c = open /\ copy.shown[Link] # <<>>
                               THEN Asked("open", "add", Link, None) ELSE NoCall]
  BY DEF ReopenShare
<1>2. /\ kind = "share" /\ shown' = copy.shown /\ seen' = copy.seen /\ mine' = {}
      /\ torn' = FALSE /\ UNCHANGED <<kind, mayEdit, rows, writes, view, summed>>
  BY DEF ReopenShare, server
<1>3. Placed' /\ Past'
  BY <1>2 DEF ListsInv, Placed, Past, CopyInv
<1>4. /\ Asked("open", "add", Link, None) \in Calls
      /\ \A y : y = Asked("open", "add", Link, None) =>
           /\ y.at = "out" /\ y.by = "open" /\ y.op = "add" /\ y.crossed = {}
           /\ y.wrote = 0 /\ y.upto = 0
  BY ListsAssumption DEF Asked, NoCall, Calls, Handlers, Edits
<1>5. ASSUME NEW d \in Slots
      PROVE  /\ call'[d] \in Calls /\ Sound(call[d])' /\ (Asks(call'[d]) => d = open)
             /\ (Asks(call[d]) => Lone(call[d]))'
  <2>1. CASE call'[d] = NoCall
    BY <2>1, NoCallSound DEF Sound, Asks
  <2>2. CASE call'[d] # NoCall
    <3>1. d = open /\ call'[d] = Asked("open", "add", Link, None)
      BY <1>1, <2>2
    <3>2. /\ call'[d].at = "out" /\ call'[d].by = "open" /\ call'[d].op = "add"
          /\ call'[d].crossed = {} /\ call'[d].wrote = 0 /\ call'[d].upto = 0
      BY <1>4, <3>1
    <3>3. Sound(call[d])'
      BY <1>2, <3>2 DEF Sound, Asks, Told1, ListsInv, Placed
    <3>4. Lone(call[d])'
      BY <1>2, <3>2 DEF Lone
    <3> QED  BY <1>4, <3>1, <3>3, <3>4
  <2> QED  BY <2>1, <2>2
<1>6. call' \in [Slots -> Calls]
  <2>1. call' = [d \in Slots |-> call'[d]]
    BY <1>1
  <2> QED  BY <1>5, <2>1
<1>7. Own'
  <2>1. Settled'
    BY <1>2 DEF Settled
  <2> QED  BY <1>5, <2>1 DEF Own, Asks
<1> QED  BY <1>3, <1>5, <1>6, <1>7 DEF ListsInv

LEMMA UserKeeps ==
  ASSUME ListsInv, CopyInv, User
  PROVE  ListsInv'
<1>t. /\ shown \in Lists /\ None \in Items \cup {None} /\ None \in Values \cup {None}
      /\ Recap \in Items /\ Link \in Items /\ Values \subseteq Values \cup {"gone"}
      /\ Handlers = {"open", "toggle", "remove", "add", "template", "amount", "settings", "send",
                     "edit", "role", "invite", "revoke", "leave", "link", "recap"}
      /\ Edits = {"set", "remove", "add", "template", "settings"}
  BY ListsAssumption DEF ListsInv, Placed, Handlers, Edits
<1>s. \A S \in SUBSET Items : \A i \in Shown(S) : i \in Items /\ shown[i] # <<>>
  BY DEF Shown
<1>1. CASE Toggle
  <2>1. PICK i \in Shown(Items) :
          /\ Start("toggle", "set", i, Flip(Head(shown[i])), shown)
          /\ shown' = Set(i, Flip(Head(shown[i])))
    BY <1>1 DEF Toggle
  <2>2. i \in Items /\ shown[i] # <<>> /\ Flip(Head(shown[i])) \in Values
    BY <1>s, FlipValue
  <2>3. shown' \in Lists
    BY <1>t, <2>1, <2>2, SetListed
  <2> QED  BY <1>1, <1>t, <2>1, <2>2, <2>3, StartKeeps DEF Toggle
<1>2. CASE RemoveItem
  <2>1. PICK i \in Shown(Items) : Start("remove", "remove", i, None, shown) /\ shown' = Drop(i)
    BY <1>2 DEF RemoveItem
  <2>2. i \in Items /\ shown' \in Lists
    BY <1>t, <1>s, <2>1, DropListed
  <2> QED  BY <1>2, <1>t, <2>1, <2>2, StartKeeps DEF RemoveItem
<1>3. CASE RecapToggle
  <2>1. /\ kind = "share" /\ Flip(Head(shown[Recap])) \in Values
        /\ Start("recap", "set", Recap, Flip(Head(shown[Recap])), shown)
        /\ shown' = Set(Recap, Flip(Head(shown[Recap])))
    BY <1>3, FlipValue DEF RecapToggle
  <2>2. shown' \in Lists
    BY <1>t, <2>1, SetListed
  <2> QED  BY <1>3, <1>t, <2>1, <2>2, StartKeeps DEF RecapToggle
<1>4. CASE AddItem \/ AddTemplate \/ AddExpense \/ SaveSettings \/ CreateInvite
  BY <1>4, <1>t, ClickKeeps DEF AddItem, AddTemplate, AddExpense, SaveSettings, CreateInvite
<1>5. CASE UpdateAmount \/ ChangeRole
  <2>1. PICK i \in Items : \/ kind = "budget" /\ Click("amount", "set", i, Flip(Head(shown[i])))
                           \/ kind = "members" /\ Click("role", "set", i, Flip(Head(shown[i])))
    BY <1>5, <1>s DEF UpdateAmount, ChangeRole
  <2>2. Flip(Head(shown[i])) \in Values
    BY FlipValue
  <2> QED  BY <1>t, <2>1, <2>2, ClickKeeps
<1>6. CASE RemoveExpense \/ RemoveComment \/ RemoveMember \/ LeaveTrip \/ Revoke
  <2>1. PICK i \in Items, by \in {"remove", "leave", "revoke"} :
          kind # "packing" /\ kind # "share" /\ Click(by, "remove", i, None)
    BY <1>6, <1>s, ListsAssumption DEF RemoveExpense, RemoveComment, RemoveMember, LeaveTrip, Revoke
  <2> QED  BY <1>t, <2>1, ClickKeeps
<1>7. CASE SendComment
  <2>1. CASE Click("send", "add", None, None)
    BY <1>7, <1>t, <2>1, ClickKeeps DEF SendComment
  <2>2. ASSUME NEW i \in Shown(Items), Click("edit", "set", i, Flip(Head(shown[i]))) PROVE ListsInv'
    <3>1. i \in Items /\ Flip(Head(shown[i])) \in Values /\ kind = "comments"
      BY <1>7, <1>s, FlipValue DEF SendComment
    <3> QED  BY <1>t, <2>2, <3>1, ClickKeeps
  <2> QED  BY <1>7, <2>1, <2>2 DEF SendComment
<1>8. CASE HandleToggle
  <2>1. kind = "share" /\ \E op \in {"add", "remove"} : Click("link", op, Link, None)
    BY <1>8 DEF HandleToggle
  <2> QED  BY <1>t, <2>1, ClickKeeps
<1>9. CASE Reopen \/ ReopenShare
  BY <1>9, ReopenKeeps, ReopenShareKeeps
<1> QED  BY <1>1, <1>2, <1>3, <1>4, <1>5, <1>6, <1>7, <1>8, <1>9 DEF User

-----------------------------------------------------------------------------
(* The server.                                                             *)

LEMMA FailsKeeps ==
  ASSUME ListsInv, NEW c \in Slots, Asks(call[c]), Fails(c), UNCHANGED <<rows, writes>>, Keep
  PROVE  ListsInv'
<1> DEFINE y == [call[c] EXCEPT !.at = "back", !.ok = FALSE, !.reply = None,
                                !.upto = 0, !.wrote = 0]
<1>1. call[c] \in Calls /\ Sound(call[c]) /\ writes \in Nat
  BY DEF ListsInv, Placed
<1>y. y \in Calls
  BY <1>1 DEF Calls
<1>x. PICK x \in Calls : x = y
  BY <1>y
<1>2. /\ x \in Calls /\ x.at = "back" /\ ~x.ok /\ x.by = call[c].by /\ x.op = call[c].op
      /\ x.item = call[c].item /\ x.val = call[c].val /\ x.kept = call[c].kept
      /\ x.upto = 0 /\ x.wrote = 0
  BY <1>1, <1>x DEF Calls
<1>3. Answer(c, x) /\ torn'
  BY <1>x DEF Fails
<1> HIDE DEF y
<1>4. Sound(x)'
  BY <1>1, <1>2 DEF Sound, Asks, Told1, Keep
<1>5. Placed' /\ Past' /\ kind' = kind /\ writes <= writes'
  BY <1>1, <1>3 DEF ListsInv, Placed, Past, Keep, page
<1> QED  BY <1>2, <1>3, <1>4, <1>5, OneCall

LEMMA WroteKeeps ==
  ASSUME ListsInv, NEW c \in Slots, call[c].at = "out", call[c].op \notin Reads,
         rows' \in [Items -> Values \cup {None, "gone"}], writes' = writes + 1, Keep, torn' = torn,
         NEW x \in Calls, Answer(c, x), x.at = "back", x.ok,
         x.op = call[c].op, x.by = call[c].by, x.kept = call[c].kept, x.crossed = call[c].crossed,
         x.wrote = writes + 1, x.upto = writes + 1,
         x.op # "add" => x.item = call[c].item /\ x.val = call[c].val,
         x.op = "add" => x.item \in Items /\ x.val \in Values,
         x.op = "template" => x.reply \in Lists
  PROVE  ListsInv'
<1>1. /\ call[c] \in Calls /\ Sound(call[c]) /\ writes \in Nat /\ writes' \in Nat
      /\ UNCHANGED <<kind, mayEdit, view, shown, seen, summed, mine>>
      /\ mine \cup seen \subseteq 1 .. writes
  BY DEF ListsInv, Placed, Past, Keep, page
<1>2. Asks(call[c]) /\ Asks(x)
  BY DEF Asks
<1>3. Sound(x)'
  BY <1>1 DEF Sound, Asks, Told1, Reads
<1>4. Placed' /\ Past'
  BY <1>1 DEF ListsInv, Placed, Past
<1>5. Lone(call[c]) => Lone(x)'
  BY <1>1 DEF Lone, Reads
<1> QED  BY <1>1, <1>2, <1>3, <1>4, <1>5, OneCall

LEMMA ServeKeeps ==
  ASSUME ListsInv, NEW c \in Slots, Serve(c)
  PROVE  ListsInv'
<1>t. /\ call[c] \in Calls /\ writes \in Nat /\ rows \in [Items -> Values \cup {None, "gone"}]
      /\ Keep /\ Sound(call[c]) /\ Placed
  BY DEF ListsInv, Placed, Serve
<1>n. PICK n \in Nat : n = writes + 1
  BY <1>t
<1>1. CASE ServeAdd(c)
  <2>1. PICK i \in Items :
          /\ rows' = [rows EXCEPT ![i] = "a"] /\ writes' = writes + 1
          /\ Answer(c, [call[c] EXCEPT !.at = "back", !.ok = TRUE, !.item = i, !.val = "a",
                                       !.wrote = writes', !.upto = writes'])
    BY <1>1 DEF ServeAdd
  <2> DEFINE x == [call[c] EXCEPT !.at = "back", !.ok = TRUE, !.item = i, !.val = "a",
                                  !.wrote = n, !.upto = n]
  <2>2. /\ x \in Calls /\ x.at = "back" /\ x.ok /\ x.op = call[c].op /\ x.by = call[c].by
        /\ x.kept = call[c].kept /\ x.crossed = call[c].crossed /\ x.wrote = n /\ x.upto = n
        /\ x.item \in Items /\ x.val \in Values
    BY <1>t DEF Calls, Values
  <2>3. Answer(c, x)
    BY <1>n, <2>1
  <2> HIDE DEF x
  <2>4. call[c].at = "out" /\ call[c].op = "add" /\ torn' = torn
    BY <1>1 DEF ServeAdd, Out
  <2>5. rows' \in [Items -> Values \cup {None, "gone"}]
    BY <1>t, <2>1 DEF Values
  <2> QED  BY <1>t, <1>n, <2>1, <2>2, <2>3, <2>4, <2>5, WroteKeeps DEF Reads
<1>2. CASE ServeTemplate(c)
  <2>1. PICK S \in SUBSET {i \in Items : rows[i] = None} :
          LET r == [i \in Items |-> IF i \in S THEN "a" ELSE rows[i]]
          IN  /\ rows' = r /\ writes' = writes + 1
              /\ Answer(c, [call[c] EXCEPT !.at = "back", !.ok = TRUE, !.wrote = writes',
                              !.upto = writes',
                              !.reply = [i \in Items |->
                                           IF r[i] \in Values THEN <<r[i]>> ELSE <<>>]])
    BY <1>2 DEF ServeTemplate
  <2> DEFINE r == [i \in Items |-> IF i \in S THEN "a" ELSE rows[i]]
             reply == [i \in Items |-> IF r[i] \in Values THEN <<r[i]>> ELSE <<>>]
             x == [call[c] EXCEPT !.at = "back", !.ok = TRUE, !.wrote = n, !.upto = n,
                                  !.reply = reply]
  <2>2. rows' = r /\ writes' = n /\ Answer(c, x)
    BY <1>n, <2>1
  <2>3. r \in [Items -> Values \cup {None, "gone"}]
    BY <1>t DEF Values
  <2>4. reply \in Lists
    <3> HIDE DEF r
    <3>1. /\ \A v \in Values : <<v>> \in Seq(Values \cup {"gone"})
          /\ <<>> \in Seq(Values \cup {"gone"})
      OBVIOUS
    <3> QED  BY <3>1 DEF Lists
  <2> HIDE DEF reply
  <2>5. /\ x \in Calls /\ x.at = "back" /\ x.ok /\ x.op = call[c].op /\ x.by = call[c].by
        /\ x.kept = call[c].kept /\ x.crossed = call[c].crossed /\ x.wrote = n /\ x.upto = n
        /\ x.item = call[c].item /\ x.val = call[c].val /\ x.reply = reply
    BY <1>t, <2>4 DEF Calls
  <2> HIDE DEF x, r
  <2>6. call[c].at = "out" /\ call[c].op = "template" /\ torn' = torn
    BY <1>2 DEF ServeTemplate, Out
  <2> QED  BY <1>t, <1>n, <2>2, <2>3, <2>4, <2>5, <2>6, WroteKeeps DEF Reads
<1>3. ASSUME NEW q \in [Items -> Values \cup {None, "gone"}], Commit(c, q), call[c].at = "out",
             call[c].op \in {"set", "remove", "settings"}
      PROVE  ListsInv'
  <2> DEFINE x == [call[c] EXCEPT !.at = "back", !.ok = TRUE, !.wrote = n, !.upto = n]
  <2>1. /\ x \in Calls /\ x.at = "back" /\ x.ok /\ x.op = call[c].op /\ x.by = call[c].by
        /\ x.kept = call[c].kept /\ x.crossed = call[c].crossed /\ x.wrote = n /\ x.upto = n
        /\ x.item = call[c].item /\ x.val = call[c].val
    BY <1>t DEF Calls
  <2>2. rows' = q /\ writes' = n /\ Answer(c, x) /\ torn' = torn
    BY <1>n, <1>3 DEF Commit
  <2> HIDE DEF x
  <2> QED  BY <1>t, <1>n, <1>3, <2>1, <2>2, WroteKeeps DEF Reads
<1>4. CASE ServeSet(c) \/ ServeRemove(c) \/ ServeSettings(c)
  <2>1. CASE ServeSet(c)
    <3>1. [rows EXCEPT ![call[c].item] = call[c].val] \in [Items -> Values \cup {None, "gone"}]
      BY <1>t, <2>1 DEF ServeSet, Out, Sound, Asks
    <3> QED  BY <1>3, <2>1, <3>1 DEF ServeSet, Out
  <2>2. CASE ServeRemove(c)
    <3>1. [rows EXCEPT ![call[c].item] = "gone"] \in [Items -> Values \cup {None, "gone"}]
      BY <1>t
    <3> QED  BY <1>3, <2>2, <3>1 DEF ServeRemove, Out
  <2>3. CASE ServeSettings(c)
    BY <1>t, <1>3, <2>3 DEF ServeSettings, Out
  <2> QED  BY <1>4, <2>1, <2>2, <2>3
<1>5. CASE ServeMissing(c)
  BY <1>t, <1>5, FailsKeeps DEF ServeMissing, Out, Asks
<1>6. CASE ServeLoad(c)
  <2> DEFINE reply == IF call[c].op = "sum" THEN None ELSE Listing
             y == [call[c] EXCEPT !.at = "back", !.ok = TRUE, !.upto = writes, !.reply = reply]
  <2>1. reply \in Lists \cup {None} /\ (call[c].op # "sum" => reply \in Lists)
    BY <1>t, ListingListed
  <2> HIDE DEF reply
  <2>y. y \in Calls
    BY <1>t, <2>1 DEF Calls
  <2>x. PICK x \in Calls : x = y
    BY <2>y
  <2>2. /\ x \in Calls /\ x.at = "back" /\ x.ok /\ x.op = call[c].op /\ x.by = call[c].by
        /\ x.kept = call[c].kept /\ x.crossed = call[c].crossed /\ x.upto = writes
        /\ x.item = call[c].item /\ x.val = call[c].val
        /\ x.reply = reply /\ x.wrote = call[c].wrote
    BY <1>t, <2>1, <2>x DEF Calls
  <2>3. /\ Answer(c, x) /\ UNCHANGED <<rows, writes, torn>>
        /\ call[c].at = "out" /\ call[c].op \in Reads
    BY <1>6, <2>x DEF ServeLoad, reply, Out, Reads
  <2> HIDE DEF y
  <2>4. Asks(call[c]) /\ kind' = kind /\ writes <= writes'
    BY <1>t, <2>3 DEF Asks, Keep
  <2>5. Sound(x)'
    BY <1>t, <2>1, <2>2, <2>3, <2>4 DEF Sound, Asks, Told1, Reads
  <2>6. Placed' /\ Past'
    BY <1>t, <2>3 DEF ListsInv, Placed, Past, Keep, page
  <2>7. Lone(call[c]) => Lone(x)'
    BY <1>t, <2>2, <2>3 DEF Lone, ListsInv, Past, Keep, page, Reads
  <2>8. Asks(x)
    BY <2>2 DEF Asks
  <2> QED  BY <2>2, <2>3, <2>4, <2>5, <2>6, <2>7, <2>8, OneCall
<1> QED  BY <1>1, <1>2, <1>4, <1>5, <1>6 DEF Serve

LEMMA LostKeeps ==
  ASSUME ListsInv, NEW c \in Slots, Lost(c)
  PROVE  ListsInv'
BY FailsKeeps DEF Lost, Asks

LEMMA OtherEditKeeps ==
  ASSUME ListsInv, OtherEdit
  PROVE  ListsInv'
<1>1. /\ writes' = writes + 1 /\ writes \in Nat /\ writes' \in Nat
      /\ UNCHANGED <<kind, mayEdit, page, call, mine, torn>>
  BY DEF OtherEdit, ListsInv, Placed
<1>2. rows' \in [Items -> Values \cup {None, "gone"}]
  BY DEF OtherEdit, ListsInv, Placed
<1>3. Placed' /\ Past'
  BY <1>1, <1>2 DEF ListsInv, Placed, Past, page
<1>4. ASSUME NEW d \in Slots PROVE Sound(call[d])'
  <2>1. PICK y \in Calls : y = call[d]
    BY DEF ListsInv
  <2>2. Sound(y)'
    BY <1>1, <2>1, SoundStays DEF ListsInv
  <2> QED  BY <1>1, <2>1, <2>2 DEF Sound, Asks, Told1
<1>5. Own'
  BY <1>1 DEF ListsInv, Own, Lone, Settled, Asks, page
<1> QED  BY <1>1, <1>3, <1>4, <1>5 DEF ListsInv

LEMMA CopyReplacedKeeps ==
  ASSUME ListsInv, CopyReplaced
  PROVE  ListsInv'
<1>1. UNCHANGED <<kind, mayEdit, rows, writes, view, shown, seen, summed, call, mine, torn>>
  BY DEF CopyReplaced, page
<1>2. Placed' /\ Past' /\ (\A c \in Slots : Sound(call[c]))' /\ Own'
  BY <1>1 DEF ListsInv, Placed, Past, Sound, Asks, Told1, Own, Lone, Settled
<1> QED  BY <1>1, <1>2 DEF ListsInv

(* The trip the page keeps is as old as it was, or as new as the rows.     *)
LEMMA CopyStays ==
  ASSUME ListsInv, CopyInv, UNCHANGED <<kind, mayEdit, copy>>, writes' \in {writes, writes + 1},
         writes' = writes => rows' = rows
  PROVE  CopyInv'
<1>1. writes \in Nat
  BY DEF ListsInv, Placed
<1>2. CASE writes' = writes
  <2>1. Listing' = Listing
    BY <1>2 DEF Listing
  <2> QED  BY <1>2, <2>1 DEF CopyInv
<1>3. CASE writes' = writes + 1
  <2>1. writes + 1 \in 1 .. writes' /\ writes + 1 \notin copy.seen
    BY <1>1, <1>3 DEF CopyInv
  <2>2. 1 .. writes \subseteq 1 .. writes'
    BY <1>1, <1>3
  <2> QED  BY <2>1, <2>2 DEF CopyInv
<1> QED  BY <1>2, <1>3

LEMMA CopyNext ==
  ASSUME ListsInv, CopyInv,
         User \/ OtherEdit \/ CopyReplaced \/ \E c \in Slots : Serve(c) \/ Lost(c) \/ Answered(c)
  PROVE  CopyInv'
<1>1. CASE User
  <2>1. \A by, op, i, v : Click(by, op, i, v) => UNCHANGED server
    BY DEF Click
  <2>2. UNCHANGED server
    BY <1>1, <2>1
       DEF User, Toggle, RemoveItem, AddItem, AddTemplate, AddExpense, UpdateAmount,
           RemoveExpense, SaveSettings, SendComment, RemoveComment, Reopen, ChangeRole,
           RemoveMember, LeaveTrip, CreateInvite, Revoke, HandleToggle, RecapToggle, ReopenShare
  <2> QED  BY <2>2, CopyStays DEF server
<1>2. CASE OtherEdit
  BY <1>2, CopyStays DEF OtherEdit, ListsInv, Placed
<1>3. CASE CopyReplaced
  <2>1. /\ UNCHANGED <<kind, mayEdit, rows, writes>> /\ Listing' = Listing
        /\ copy' = [shown |-> Listing, seen |-> 1 .. writes]
    BY <1>3 DEF CopyReplaced, Listing
  <2>2. Listing \in Lists /\ 1 .. writes \subseteq Nat
    BY ListingListed DEF ListsInv, Placed
  <2> QED  BY <2>1, <2>2 DEF CopyInv
<1>4. ASSUME NEW c \in Slots, Serve(c) \/ Lost(c) PROVE CopyInv'
  <2>1. /\ UNCHANGED <<kind, mayEdit, copy>> /\ writes \in Nat
        /\ writes' = writes + 1 \/ UNCHANGED <<rows, writes>>
    BY <1>4
       DEF Serve, Lost, Keep, ServeAdd, ServeTemplate, ServeSet, ServeRemove, ServeSettings,
           ServeMissing, ServeLoad, Commit, ListsInv, Placed
  <2> QED  BY <2>1, CopyStays
<1>5. ASSUME NEW c \in Slots, Answered(c) PROVE CopyInv'
  <2>1. UNCHANGED server
    BY <1>5
       DEF Answered, Loaded, InvitesLoaded, ToggleAnswered, RemoveAnswered, ItemAdded,
           TemplateAdded, ExpenseAdded, AmountUpdated, ExpenseRemoved, SettingsSaved,
           BudgetReloaded, CommentSent, CommentRemoved, RoleChanged, InviteCreated,
           MemberRemoved, ShareOpened, LinkSwitched, RecapSwitched
  <2> QED  BY <2>1, CopyStays DEF server
<1> QED  BY <1>1, <1>2, <1>3, <1>4, <1>5

-----------------------------------------------------------------------------
(* The answers: the handler ends, or goes on to fetch.                     *)

LEMMA EndsKeeps ==
  ASSUME ListsInv, NEW c \in Slots, Asks(call[c]), Ends(c), UNCHANGED <<server, torn>>,
         view' \in {"loading", "ready", "error", "left"}, shown' \in Lists, summed' \in Nat, Past',
         ~torn /\ Lone(call[c]) /\ view' = "ready" => Settled'
  PROVE  ListsInv'
<1>1. Answer(c, NoCall) /\ kind' = kind /\ writes <= writes'
  BY DEF Ends, server, ListsInv, Placed
<1>2. Placed'
  BY DEF ListsInv, Placed, server
<1>3. NoCall \in Calls /\ ~Asks(NoCall) /\ Sound(NoCall)'
  BY NoCallSound DEF Sound, Asks
<1>4. PICK x \in Calls : x = NoCall
  BY <1>3
<1>5. Answer(c, x) /\ ~Asks(x) /\ Sound(x)'
  BY <1>1, <1>3, <1>4 DEF Sound, Asks
<1> QED  BY <1>1, <1>2, <1>5, OneCall

LEMMA GoesKeeps ==
  ASSUME ListsInv, NEW c \in Slots, Asks(call[c]), NEW op \in Reads, Goes(c, op),
         UNCHANGED <<server, view, summed, torn>>, shown' \in Lists, Past',
         kind # "share", kind = "budget" => op = "sum",
         ~torn /\ Lone(call[c]) /\ op # "load" => mine' \subseteq seen'
  PROVE  ListsInv'
<1> DEFINE y == [Asked(call[c].by, op, None, None) EXCEPT !.crossed = call[c].crossed]
<1>1. call[c] \in Calls /\ Sound(call[c])
  BY DEF ListsInv
<1>2. y \in Calls /\ y.at = "out" /\ y.by = call[c].by /\ y.op = op /\ y.crossed = call[c].crossed
      /\ y.wrote = 0 /\ y.upto = 0
  BY <1>1 DEF Asked, NoCall, Calls, Reads
<1>3. Answer(c, y)
  BY DEF Goes
<1> HIDE DEF y
<1>4. PICK x \in Calls : x = y
  BY <1>2
<1>5. kind' = kind /\ writes' = writes /\ writes \in Nat
  BY DEF server, ListsInv, Placed
<1>6. Placed'
  BY DEF ListsInv, Placed, server
<1>7. Sound(x)'
  BY <1>1, <1>2, <1>4, <1>5 DEF Sound, Asks, Told1, Reads
<1>8. ~torn /\ Lone(call[c]) => Lone(x)'
  BY <1>2, <1>4, <1>5 DEF Lone, Reads
<1>9. Asks(x) /\ Answer(c, x) /\ writes <= writes' /\ torn' = torn
  BY <1>2, <1>3, <1>4, <1>5 DEF Asks
<1> QED  BY <1>5, <1>6, <1>7, <1>8, <1>9, OneCall

(* What the page is told of has happened, and it is told of it once.       *)
LEMMA ToldIs ==
  ASSUME ListsInv, NEW c \in Slots, call[c].at = "back", Told(c)
  PROVE  /\ mine' \subseteq 1 .. writes /\ mine' \subseteq mine \cup {call[c].wrote}
         /\ \A clear \in BOOLEAN : With(c, clear) \subseteq 1 .. writes
         /\ Lone(call[c]) /\ call[c].op # "load" => mine' \subseteq With(c, TRUE)
         /\ Lone(call[c]) /\ call[c].op \notin Reads =>
              call[c].wrote \notin seen /\ mine' \subseteq 1 .. call[c].upto
<1>1. /\ call[c] \in Calls /\ call[c].wrote \in Nat /\ call[c].upto \in Nat /\ writes \in Nat
      /\ call[c].wrote <= writes /\ mine \cup seen \subseteq 1 .. writes
  BY DEF ListsInv, Placed, Calls, Sound, Asks, Past
<1>2. mine' = mine \cup ({call[c].wrote} \ {0})
  BY <1>1 DEF Told
<1>3. ({call[c].wrote} \ {0}) \subseteq 1 .. writes
  BY <1>1
<1>4. \A clear \in BOOLEAN : With(c, clear) \subseteq 1 .. writes
  BY <1>1, <1>3 DEF With
<1>5. With(c, TRUE) = seen \cup ({call[c].wrote} \ {0})
  BY DEF With
<1>6. Lone(call[c]) /\ call[c].op \notin Reads =>
        call[c].wrote \notin seen /\ mine' \subseteq 1 .. call[c].upto
  <2> SUFFICES ASSUME Lone(call[c]), call[c].op \notin Reads
               PROVE  call[c].wrote \notin seen /\ mine' \subseteq 1 .. call[c].upto
    OBVIOUS
  <2>1. /\ call[c].wrote = call[c].upto /\ call[c].wrote \notin seen
        /\ mine \subseteq 1 .. call[c].upto
    BY DEF Lone
  <2>2. ({call[c].wrote} \ {0}) \subseteq 1 .. call[c].upto
    BY <1>1, <2>1
  <2> QED  BY <1>2, <2>1, <2>2
<1> QED  BY <1>1, <1>2, <1>3, <1>4, <1>5, <1>6 DEF Lone

LEMMA AppendedIs ==
  ASSUME ListsInv, NEW c \in Slots, Told1(call[c]), call[c].op = "add", Appended(c)
  PROVE  shown' \in Lists /\ seen' = With(c, call[c].wrote \notin seen)
<1> DEFINE S == Values \cup {"gone"}
<1>1. call[c].item \in Items /\ call[c].val \in S /\ shown \in Lists
  BY DEF ListsInv, Placed, Sound, Asks, Told1
<1>2. Append(shown[call[c].item], call[c].val) \in Seq(S)
  BY <1>1 DEF Lists
<1> QED  BY <1>1, <1>2 DEF Appended, Lists

(* The answer of an edit that is taken in by a patch.                      *)
LEMMA PatchEnds ==
  ASSUME ListsInv, NEW c \in Slots, call[c].at = "back", call[c].op \notin Reads, Ends(c), Told(c),
         shown' \in Lists, UNCHANGED <<server, view, summed, torn>>, kind # "budget",
         NEW clear \in BOOLEAN, seen' = With(c, clear) \/ seen' = seen \/ seen' = 1 .. call[c].upto,
         Lone(call[c]) => \/ seen' = With(c, clear) /\ clear
                          \/ seen' = 1 .. call[c].upto
  PROVE  ListsInv'
<1>1. /\ mine' \subseteq 1 .. writes /\ With(c, clear) \subseteq 1 .. writes
      /\ Lone(call[c]) => mine' \subseteq With(c, TRUE) /\ mine' \subseteq 1 .. call[c].upto
  BY ToldIs DEF Reads
<1>2. /\ call[c].upto \in Nat /\ call[c].upto <= writes /\ writes \in Nat /\ writes' = writes
      /\ seen \subseteq 1 .. writes /\ Asks(call[c])
  BY DEF ListsInv, Placed, Past, Calls, Sound, Asks, server
<1>3. Past'
  <2>1. 1 .. call[c].upto \subseteq 1 .. writes
    BY <1>2
  <2>2. seen' \subseteq 1 .. writes
    <3>1. CASE seen' = With(c, clear)
      BY <1>1, <3>1
    <3>2. CASE seen' = seen
      BY <1>2, <3>2
    <3>3. CASE seen' = 1 .. call[c].upto
      BY <2>1, <3>3
    <3> QED  BY <3>1, <3>2, <3>3
  <2>3. mine' \subseteq 1 .. writes
    BY <1>1
  <2> QED  BY <1>2, <2>2, <2>3 DEF Past
<1>4. Lone(call[c]) => mine' \subseteq seen'
  <2> SUFFICES ASSUME Lone(call[c]) PROVE mine' \subseteq seen'
    OBVIOUS
  <2>1. CASE seen' = With(c, clear) /\ clear
    <3>1. With(c, clear) = With(c, TRUE)
      BY <2>1 DEF With
    <3> QED  BY <1>1, <2>1, <3>1
  <2>2. CASE seen' = 1 .. call[c].upto
    BY <1>1, <2>2
  <2> QED  BY <2>1, <2>2
<1>5. kind' # "budget" /\ view' \in {"loading", "ready", "error", "left"} /\ summed' \in Nat
  BY DEF server, ListsInv, Placed
<1> QED  BY <1>2, <1>3, <1>4, <1>5, EndsKeeps DEF Settled

LEMMA PackingKeeps ==
  ASSUME ListsInv, NEW c \in Slots,
         ToggleAnswered(c) \/ RemoveAnswered(c) \/ ItemAdded(c) \/ TemplateAdded(c)
  PROVE  ListsInv'
<1>t. /\ shown \in Lists /\ Sound(call[c]) /\ call[c].at = "back" /\ kind = "packing" /\ Ends(c)
      /\ Told(c) /\ UNCHANGED <<server, view, summed, torn>> /\ call[c].op \notin Reads
      /\ kind # "budget"
  BY DEF ListsInv, Placed, ToggleAnswered, RemoveAnswered, ItemAdded, TemplateAdded, Back, Reads
<1>l. Lone(call[c]) => call[c].ok /\ call[c].crossed = {}
  BY <1>t DEF Lone
<1>1. CASE ToggleAnswered(c)
  <2>1. call[c].item \in Items /\ call[c].kept \in Lists /\ call[c].kept[call[c].item] # <<>>
    BY <1>t, <1>1 DEF ToggleAnswered, Back, Sound, Asks
  <2>2. Head(call[c].kept[call[c].item]) \in Values \cup {"gone"}
    <3>1. call[c].kept[call[c].item] \in Seq(Values \cup {"gone"})
      BY <2>1 DEF Lists
    <3> QED  BY <2>1, <3>1
  <2>3. shown' \in Lists
    BY <1>t, <1>1, <2>1, <2>2, SetListed DEF ToggleAnswered
  <2>4. Clear(c) \in BOOLEAN /\ seen' = With(c, Clear(c)) /\ (Lone(call[c]) => Clear(c))
    BY <1>l, <1>1 DEF ToggleAnswered, Clear
  <2> QED  BY <1>t, <2>3, <2>4, PatchEnds
<1>2. CASE RemoveAnswered(c)
  <2>1. call[c].kept \in Lists
    BY <1>t, <1>2 DEF RemoveAnswered, Back, Sound, Asks
  <2>2. shown' \in Lists
    BY <1>t, <1>2, <2>1 DEF RemoveAnswered
  <2>3. PICK b \in BOOLEAN : seen' = With(c, b) /\ (Lone(call[c]) => b)
    BY <1>l, <1>2 DEF RemoveAnswered, Clear
  <2> QED  BY <1>t, <2>2, <2>3, PatchEnds
<1>3. CASE ItemAdded(c)
  <2>1. CASE call[c].ok
    <3>1. Told1(call[c]) /\ call[c].op = "add" /\ Appended(c)
      BY <1>3, <1>t, <2>1 DEF ItemAdded, Back, Told1
    <3>2. shown' \in Lists /\ seen' = With(c, call[c].wrote \notin seen)
      BY <3>1, AppendedIs
    <3>3. (call[c].wrote \notin seen) \in BOOLEAN /\ (Lone(call[c]) => call[c].wrote \notin seen)
      BY <1>t DEF Lone
    <3> QED  BY <1>t, <3>2, <3>3, PatchEnds
  <2>2. CASE ~call[c].ok
    <3>1. shown' \in Lists /\ seen' = seen /\ ~Lone(call[c])
      BY <1>l, <1>3, <1>t, <2>2 DEF ItemAdded
    <3> QED  BY <1>t, <3>1, PatchEnds
  <2> QED  BY <2>1, <2>2
<1>4. CASE TemplateAdded(c)
  <2>1. CASE call[c].ok
    <3>1. shown' \in Lists /\ seen' = 1 .. call[c].upto
      BY <1>4, <1>t, <2>1 DEF TemplateAdded, Back, Sound, Asks, Told1
    <3> QED  BY <1>t, <3>1, PatchEnds
  <2>2. CASE ~call[c].ok
    <3>1. shown' \in Lists /\ seen' = seen /\ ~Lone(call[c])
      BY <1>l, <1>4, <1>t, <2>2 DEF TemplateAdded
    <3> QED  BY <1>t, <3>1, PatchEnds
  <2> QED  BY <2>1, <2>2
<1> QED  BY <1>1, <1>2, <1>3, <1>4

LEMMA ShareKeeps ==
  ASSUME ListsInv, NEW c \in Slots, ShareOpened(c) \/ LinkSwitched(c) \/ RecapSwitched(c)
  PROVE  ListsInv'
<1>t. /\ shown \in Lists /\ Sound(call[c]) /\ call[c].at = "back" /\ kind = "share" /\ Ends(c)
      /\ Told(c) /\ UNCHANGED <<server, view, summed, torn>> /\ kind # "budget"
      /\ seen' = With(c, Clear(c)) /\ Asks(call[c])
  BY DEF ListsInv, Placed, ShareOpened, LinkSwitched, RecapSwitched, Back, Asks
<1>r. call[c].op \notin Reads
  BY <1>t DEF Sound, Reads
<1>l. Clear(c) \in BOOLEAN /\ (Lone(call[c]) => Clear(c))
  BY DEF Lone, Clear
<1>1. shown' \in Lists
  <2>1. CASE ShareOpened(c)
    BY <1>t, <2>1 DEF ShareOpened
  <2>2. CASE LinkSwitched(c)
    <3>1. <<"a">> \in Seq(Values \cup {"gone"}) /\ <<>> \in Seq(Values \cup {"gone"})
      BY DEF Values
    <3> QED  BY <1>t, <2>2, <3>1 DEF LinkSwitched, Lists
  <2>3. CASE RecapSwitched(c)
    <3>1. Recap \in Items /\ Flip(call[c].val) \in Values \cup {"gone"}
      BY ListsAssumption, FlipValue
    <3> QED  BY <1>t, <2>3, <3>1, SetListed DEF RecapSwitched
  <2> QED  BY <2>1, <2>2, <2>3
<1> QED  BY <1>t, <1>r, <1>l, <1>1, PatchEnds

(* The budget page patches its list and then asks for the totals.          *)
LEMMA SumsKeep ==
  ASSUME ListsInv, NEW c \in Slots, call[c].at = "back", call[c].op \notin Reads, Sums(c), Told(c),
         kind = "budget", shown' \in Lists, UNCHANGED <<server, view, summed, torn>>,
         NEW clear \in BOOLEAN, seen' = With(c, clear) \/ seen' = seen,
         Lone(call[c]) => seen' = With(c, clear) /\ clear
  PROVE  ListsInv'
<1>1. /\ mine' \subseteq 1 .. writes /\ With(c, clear) \subseteq 1 .. writes
      /\ Lone(call[c]) => mine' \subseteq With(c, TRUE)
  BY ToldIs DEF Reads
<1>2. Past' /\ Asks(call[c])
  BY <1>1 DEF Past, ListsInv, server, Asks
<1>3. CASE call[c].ok
  <2>1. Goes(c, "sum") /\ "sum" \in Reads
    BY <1>3 DEF Sums, Reads
  <2> QED  BY <1>1, <1>2, <2>1, GoesKeeps
<1>4. CASE ~call[c].ok
  <2>1. Ends(c) /\ ~Lone(call[c])
    BY <1>4 DEF Sums, Lone
  <2>2. view' \in {"loading", "ready", "error", "left"} /\ summed' \in Nat
    BY DEF ListsInv, Placed
  <2> QED  BY <1>2, <2>1, <2>2, EndsKeeps
<1> QED  BY <1>3, <1>4

LEMMA BudgetKeeps ==
  ASSUME ListsInv, NEW c \in Slots,
         ExpenseAdded(c) \/ AmountUpdated(c) \/ ExpenseRemoved(c) \/ SettingsSaved(c)
  PROVE  ListsInv'
<1>t. /\ shown \in Lists /\ Sound(call[c]) /\ call[c].at = "back" /\ kind = "budget" /\ Sums(c)
      /\ Told(c) /\ UNCHANGED <<server, view, summed, torn>> /\ call[c].op \notin Reads
      /\ Asks(call[c])
  BY DEF ListsInv, Placed, ExpenseAdded, AmountUpdated, ExpenseRemoved, SettingsSaved,
         Back, Reads, Asks
<1>l. Lone(call[c]) => call[c].ok /\ call[c].crossed = {} /\ call[c].wrote \notin seen
  BY <1>t DEF Lone
<1>1. CASE ExpenseAdded(c) /\ call[c].ok
  <2>1. Told1(call[c]) /\ call[c].op = "add" /\ Appended(c)
    BY <1>1, <1>t DEF ExpenseAdded, Back, Told1
  <2>2. shown' \in Lists /\ seen' = With(c, call[c].wrote \notin seen)
    BY <2>1, AppendedIs
  <2> QED  BY <1>t, <1>l, <2>2, SumsKeep
<1>2. CASE AmountUpdated(c) /\ call[c].ok
  <2>1. call[c].item \in Items /\ call[c].val \in Values \cup {"gone"}
    BY <1>t, <1>2 DEF AmountUpdated, Back, Sound
  <2>2. shown' \in Lists /\ seen' = With(c, Clear(c))
    BY <1>t, <1>2, <2>1, SetListed DEF AmountUpdated
  <2>3. Clear(c) \in BOOLEAN /\ (Lone(call[c]) => Clear(c))
    BY DEF Lone, Clear
  <2> QED  BY <1>t, <2>2, <2>3, SumsKeep
<1>3. CASE ExpenseRemoved(c) /\ call[c].ok
  <2>1. call[c].item \in Items
    BY <1>t, <1>3 DEF ExpenseRemoved, Back, Sound
  <2>2. shown' \in Lists /\ seen' = With(c, TRUE)
    BY <1>t, <1>3, <2>1, DropListed DEF ExpenseRemoved
  <2> QED  BY <1>t, <2>2, SumsKeep
<1>4. CASE SettingsSaved(c)
  <2>1. shown' \in Lists /\ seen' = With(c, TRUE)
    BY <1>t, <1>4 DEF SettingsSaved
  <2> QED  BY <1>t, <2>1, SumsKeep
<1>5. CASE ~SettingsSaved(c) /\ ~call[c].ok
  <2>1. shown' \in Lists /\ seen' = seen /\ ~Lone(call[c])
    BY <1>l, <1>t, <1>5 DEF ExpenseAdded, AmountUpdated, ExpenseRemoved
  <2> QED  BY <1>t, <2>1, SumsKeep
<1> QED  BY <1>1, <1>2, <1>3, <1>4, <1>5

LEMMA ReloadedKeeps ==
  ASSUME ListsInv, NEW c \in Slots, BudgetReloaded(c)
  PROVE  ListsInv'
<1>1. /\ Ends(c) /\ call[c].at = "back" /\ call[c].op = "sum"
      /\ UNCHANGED <<server, view, shown, seen, mine, torn>>
      /\ summed' = IF call[c].ok THEN call[c].upto ELSE summed
      /\ call[c] \in Calls /\ Asks(call[c])
  BY DEF BudgetReloaded, Back, ListsInv, Asks
<1>2. /\ Past' /\ shown' \in Lists /\ summed' \in Nat
      /\ view' \in {"loading", "ready", "error", "left"}
  BY <1>1 DEF ListsInv, Placed, Past, server, Calls
<1>3. Lone(call[c]) => Settled'
  BY <1>1 DEF Lone, Settled, server
<1> QED  BY <1>1, <1>2, <1>3, EndsKeeps

(* Threads and members are fetched after a change.                         *)
LEMMA FetchesKeep ==
  ASSUME ListsInv, NEW c \in Slots, call[c].at = "back", call[c].op \notin Reads,
         Fetches(c), Told(c),
         kind \in {"comments", "members"}, UNCHANGED <<server, page, torn>>
  PROVE  ListsInv'
<1>1. mine' \subseteq 1 .. writes /\ Asks(call[c])
  BY ToldIs DEF Asks
<1>2. /\ Past' /\ shown' \in Lists /\ summed' \in Nat
      /\ view' \in {"loading", "ready", "error", "left"}
      /\ UNCHANGED <<server, view, summed, torn>>
  BY <1>1 DEF ListsInv, Placed, Past, server, page
<1>3. CASE call[c].ok
  <2>1. Goes(c, "load") /\ "load" \in Reads
    BY <1>3 DEF Fetches, Reads
  <2> QED  BY <1>1, <1>2, <2>1, GoesKeeps
<1>4. CASE ~call[c].ok
  <2>1. Ends(c) /\ ~Lone(call[c])
    BY <1>4 DEF Fetches, Lone
  <2> QED  BY <1>1, <1>2, <2>1, EndsKeeps
<1> QED  BY <1>3, <1>4

LEMMA ChangedKeeps ==
  ASSUME ListsInv, NEW c \in Slots,
         \/ CommentSent(c) \/ CommentRemoved(c)
         \/ RoleChanged(c) \/ InviteCreated(c) \/ MemberRemoved(c)
  PROVE  ListsInv'
<1>1. CASE CommentSent(c) \/ CommentRemoved(c) \/ RoleChanged(c) \/ InviteCreated(c)
  BY <1>1, FetchesKeep DEF CommentSent, CommentRemoved, RoleChanged, InviteCreated, Back, Reads
<1>2. CASE MemberRemoved(c)
  <2>1. CASE call[c].ok /\ call[c].by = "leave"
    <3>1. /\ Ends(c) /\ view' = "left" /\ Told(c) /\ UNCHANGED <<server, shown, seen, summed, torn>>
          /\ call[c].at = "back" /\ Asks(call[c])
      BY <1>2, <2>1 DEF MemberRemoved, Back, Asks
    <3>2. mine' \subseteq 1 .. writes
      BY <3>1, ToldIs
    <3>3. Past' /\ shown' \in Lists /\ summed' \in Nat
      BY <3>1, <3>2 DEF ListsInv, Placed, Past, server
    <3> QED  BY <3>1, <3>3, EndsKeeps
  <2>2. CASE ~(call[c].ok /\ call[c].by = "leave")
    BY <1>2, <2>2, FetchesKeep DEF MemberRemoved, Back, Reads, page
  <2> QED  BY <2>1, <2>2
<1> QED  BY <1>1, <1>2

LEMMA LoadedKeeps ==
  ASSUME ListsInv, NEW c \in Slots, Loaded(c) \/ InvitesLoaded(c)
  PROVE  ListsInv'
<1>t. /\ call[c] \in Calls /\ Sound(call[c]) /\ Asks(call[c])
      /\ call[c].at = "back" /\ shown \in Lists
      /\ UNCHANGED <<server, mine, torn>> /\ writes \in Nat /\ summed \in Nat
      /\ call[c].upto \in Nat /\ call[c].upto <= writes /\ mine \cup seen \subseteq 1 .. writes
      /\ view \in {"loading", "ready", "error", "left"}
  BY DEF ListsInv, Placed, Past, Loaded, InvitesLoaded, Back, Asks, Sound, Calls
<1>m. ASSUME call[c].ok, call[c].op \in {"load", "invites"}
      PROVE  call[c].reply \in Lists
  BY <1>t, <1>m DEF Sound, Told1
<1>a. \A f, g \in Lists : \A S \in SUBSET Items :
        [i \in Items |-> IF i \in S THEN f[i] ELSE g[i]] \in Lists
  BY DEF Lists
<1>1. CASE InvitesLoaded(c)
  <2>1. /\ Ends(c) /\ summed' = summed /\ call[c].op = "invites"
        /\ view' \in {"loading", "ready", "error", "left"}
    BY <1>t, <1>1 DEF InvitesLoaded, Back
  <2>2. shown' \in Lists
    <3>1. CASE call[c].ok
      <4>1. shown' = [i \in Items |-> IF i \in Invites THEN call[c].reply[i] ELSE shown[i]]
        BY <1>1, <3>1 DEF InvitesLoaded
      <4>2. Invites \in SUBSET Items /\ call[c].reply \in Lists
        BY <1>m, <2>1, <3>1, ListsAssumption
      <4> QED  BY <1>t, <1>a, <4>1, <4>2
    <3>2. CASE ~call[c].ok
      BY <1>t, <1>1, <3>2 DEF InvitesLoaded
    <3> QED  BY <3>1, <3>2
  <2>3. seen' = IF call[c].ok THEN seen \cap (1 .. call[c].upto) ELSE {}
    BY <1>1 DEF InvitesLoaded
  <2>4. Past'
    BY <1>t, <2>3 DEF Past, server
  <2>5. Lone(call[c]) => mine' \subseteq seen'
    BY <1>t, <2>1, <2>3 DEF Lone
  <2>6. Lone(call[c]) => Settled'
    BY <1>t, <2>1, <2>5 DEF Lone, Settled, server
  <2> QED  BY <1>t, <2>1, <2>2, <2>4, <2>6, EndsKeeps
<1>2. CASE Loaded(c)
  <2>1. /\ call[c].op = "load" /\ summed' \in (IF kind = "budget" THEN 1 .. writes ELSE {summed})
        /\ seen' = IF call[c].ok THEN 1 .. call[c].upto ELSE seen
    BY <1>2 DEF Loaded, Back
  <2>2. shown' \in Lists
    <3>1. CASE call[c].ok
      <4> DEFINE S == {i \in Items : kind = "members" /\ i \in Invites}
      <4>1. shown' = [i \in Items |-> IF i \in S THEN shown[i] ELSE call[c].reply[i]]
        BY <1>2, <3>1 DEF Loaded
      <4>2. S \in SUBSET Items /\ call[c].reply \in Lists
        BY <1>m, <2>1, <3>1
      <4> QED  BY <1>t, <1>a, <4>1, <4>2
    <3>2. CASE ~call[c].ok
      BY <1>t, <1>2, <3>2 DEF Loaded
    <3> QED  BY <3>1, <3>2
  <2>3. Past' /\ summed' \in Nat
    BY <1>t, <2>1 DEF Past, server
  <2>4. Lone(call[c]) => mine' \subseteq seen' /\ (kind = "budget" => mine' = {})
    BY <1>t, <2>1 DEF Lone
  <2>5. CASE call[c].ok /\ kind = "members" /\ mayEdit
    <3>1. Goes(c, "invites") /\ UNCHANGED view /\ summed' = summed /\ "invites" \in Reads
      BY <1>2, <2>1, <2>5 DEF Loaded, Reads
    <3> QED  BY <1>t, <2>2, <2>3, <2>4, <2>5, <3>1, GoesKeeps
  <2>6. CASE ~(call[c].ok /\ kind = "members" /\ mayEdit)
    <3>1. Ends(c) /\ view' \in {"loading", "ready", "error", "left"}
      BY <1>t, <1>2, <2>6 DEF Loaded
    <3>2. Lone(call[c]) => Settled'
      BY <1>t, <2>4 DEF Settled, server
    <3> QED  BY <1>t, <2>2, <2>3, <3>1, <3>2, EndsKeeps
  <2> QED  BY <2>5, <2>6
<1> QED  BY <1>1, <1>2

-----------------------------------------------------------------------------
LEMMA ListsInit == Init => ListsInv /\ CopyInv
<1> SUFFICES ASSUME Init PROVE ListsInv /\ CopyInv
  OBVIOUS
<1>1. PICK open \in Slots :
       call = [c \in Slots |->
                 IF c # open \/ (kind = "share" /\ rows[Link] = None) THEN NoCall
                 ELSE IF kind = "share" THEN Asked("open", "add", Link, None)
                 ELSE Asked("open", "load", None, None)]
  BY DEF Init
<1>2. Link \in Items /\ Pages \subseteq Kinds
  BY ListsAssumption
<1>3. /\ kind \in Kinds /\ mayEdit \in BOOLEAN /\ rows \in [Items -> Values \cup {None, "gone"}]
      /\ writes = 1 /\ summed = 1 /\ mine = {} /\ seen \subseteq {1} /\ torn = FALSE
      /\ view \in {"loading", "ready", "error", "left"}
  BY <1>2 DEF Init, Values
<1>4. shown \in Lists
  <2>1. Listing \in Lists
    <3>1. ASSUME NEW i \in Items
          PROVE  Listing[i] \in Seq(Values \cup {"gone"})
      <4>1. CASE Listing[i] = <<>>
        BY <4>1
      <4>2. CASE Listing[i] # <<>>
        <5>1. Listing[i] = <<rows[i]>> /\ rows[i] \in Values \cup {"gone"}
          BY <4>2 DEF Listing
        <5>2. \A v \in Values \cup {"gone"} : <<v>> \in Seq(Values \cup {"gone"})
          OBVIOUS
        <5> QED  BY <5>1, <5>2
      <4> QED  BY <4>1, <4>2
    <3>2. Listing = [i \in Items |-> Listing[i]]
      BY DEF Listing
    <3> QED  BY <3>1, <3>2 DEF Lists
  <2>2. [i \in Items |-> <<>>] \in Lists
    BY DEF Lists
  <2> QED  BY <2>1, <2>2 DEF Init
<1>5. Placed /\ Past
  <2>1. 1 .. writes = {1}
    BY <1>3
  <2>2. mine \cup seen \subseteq {1}
    BY <1>3
  <2>3. writes \in Nat /\ summed \in Nat
    BY <1>3
  <2> QED  BY <1>3, <1>4, <2>1, <2>2, <2>3 DEF Placed, Past
<1>6. ASSUME NEW d \in Slots
      PROVE  /\ call[d] \in Calls /\ Sound(call[d]) /\ (Asks(call[d]) => d = open)
             /\ Asks(call[d]) => Lone(call[d])
  <2>1. CASE call[d] = NoCall
    BY <2>1, NoCallSound
  <2>2. CASE call[d] # NoCall
    <3>1. /\ d = open
          /\ \/ kind = "share" /\ call[d] = Asked("open", "add", Link, None)
             \/ kind # "share" /\ call[d] = Asked("open", "load", None, None)
      BY <1>1, <2>2
    <3>2. \A i \in Items \cup {None} :
            Asked("open", "add", i, None) \in Calls /\ Asked("open", "load", i, None) \in Calls
      BY DEF Asked, NoCall, Calls, Handlers, Edits
    <3>3. \A i \in Items \cup {None}, op \in {"add", "load"} :
            LET x == Asked("open", op, i, None)
            IN  /\ x.at = "out" /\ x.by = "open" /\ x.op = op /\ x.crossed = {}
                /\ x.wrote = 0 /\ x.upto = 0
      BY DEF Asked, NoCall
    <3>4. call[d] \in Calls
      BY <1>2, <3>1, <3>2
    <3>5. /\ call[d].at = "out" /\ call[d].by = "open" /\ call[d].crossed = {}
          /\ call[d].wrote = 0 /\ call[d].upto = 0
          /\ call[d].op = IF kind = "share" THEN "add" ELSE "load"
      BY <1>2, <3>1, <3>3
    <3>6. Sound(call[d])
      BY <1>3, <3>5 DEF Sound, Asks, Told1
    <3>7. Lone(call[d])
      BY <1>3, <3>5 DEF Lone
    <3> QED  BY <3>1, <3>4, <3>6, <3>7
  <2> QED  BY <2>1, <2>2
<1>7. call \in [Slots -> Calls]
  <2>1. call = [d \in Slots |-> call[d]]
    BY <1>1
  <2> QED  BY <1>6, <2>1
<1>8. Own
  <2>1. Settled
    BY <1>3 DEF Settled
  <2> QED  BY <1>6, <2>1 DEF Own
<1>9. CopyInv
  <2>1. copy = [shown |-> shown, seen |-> seen] /\ 1 \in 1 .. writes
    BY <1>3 DEF Init
  <2>2. seen \subseteq 1 .. writes /\ seen \subseteq Nat
    BY <1>3, <1>5 DEF Past
  <2>3. 1 \in seen => shown = Listing
    BY DEF Init
  <2> QED  BY <1>4, <2>1, <2>2, <2>3 DEF CopyInv
<1> QED  BY <1>5, <1>6, <1>7, <1>8, <1>9 DEF ListsInv

LEMMA ListsNext == ListsInv /\ CopyInv /\ [Next]_vars => (ListsInv /\ CopyInv)'
<1> SUFFICES ASSUME ListsInv, CopyInv, [Next]_vars PROVE ListsInv' /\ CopyInv'
  OBVIOUS
<1>1. CASE UNCHANGED vars
  <2>1. UNCHANGED <<kind, mayEdit, copy, rows, writes, view, shown, seen, summed, call, mine, torn>>
    BY <1>1 DEF vars, server, page
  <2>2. Placed' /\ Past' /\ (\A c \in Slots : Sound(call[c]))' /\ Own'
    BY <2>1 DEF ListsInv, Placed, Past, Sound, Asks, Told1, Own, Lone, Settled
  <2> QED  BY <2>1, <2>2, CopyStays DEF ListsInv
<1>2. CASE User \/ OtherEdit \/ CopyReplaced
  BY <1>2, UserKeeps, OtherEditKeeps, CopyReplacedKeeps, CopyNext
<1>3. ASSUME NEW c \in Slots, Serve(c) \/ Lost(c) PROVE ListsInv' /\ CopyInv'
  BY <1>3, ServeKeeps, LostKeeps, CopyNext
<1>4. ASSUME NEW c \in Slots, Answered(c) PROVE ListsInv' /\ CopyInv'
  BY <1>4, LoadedKeeps, PackingKeeps, BudgetKeeps, ReloadedKeeps, ChangedKeeps, ShareKeeps,
     CopyNext
     DEF Answered
<1> QED  BY <1>1, <1>2, <1>3, <1>4 DEF Next

(* The invariant holds in every reachable state.                           *)
LEMMA ListsKept == Spec => [](ListsInv /\ CopyInv)
BY ListsInit, ListsNext, PTL DEF Spec

(* Every reachable state is well typed: each handler finds in its answer   *)
(* the row, the value or the list it puts on the page.                     *)
THEOREM ListsTyped == Spec => []TypeOK
<1>1. ListsInv /\ CopyInv => TypeOK
  BY DEF ListsInv, Placed, Past, CopyInv, TypeOK
<1> QED  BY <1>1, ListsKept, PTL

(* For any number of rows, calls under way and edits by others: unless     *)
(* calls of the page overlap or fail, whatever the user has been told of   *)
(* (in the share dialog: since it was opened) is on the page when it is at *)
(* rest, and in its totals.                                                *)
THEOREM OwnIsShown == Spec => []OwnShown
<1>1. ListsInv => OwnShown
  BY DEF ListsInv, Own, Settled, OwnShown, AtRest, Asks, Placed
<1> QED  BY <1>1, ListsKept, PTL
-----------------------------------------------------------------------------
(* What a page that patches its rows still owes its rows: the commits whose*)
(* answers are on their way.  A page may come to reflect all commits only  *)
(* if no other is missing (Whole).                                         *)
Rowed == kind \in {"packing", "budget"}
Patched == Rowed \/ kind = "share"
Owes(x) == Patched /\ Told1(x) /\ x.op \in {"add", "set", "remove", "settings"}
Owed == {n \in 1 .. writes : \E c \in Slots : Owes(call[c]) /\ call[c].wrote = n}
Brings(x) == Told1(x) /\ x.op \in {"load", "invites", "template"}

Whole(S, D, n) == 1 \in S /\ 1 .. n \subseteq S \cup D
After(w, S, D, n) == \E m \in 1 .. n : m > w /\ m \notin D /\ (m \in S => w \in S)

(* A call is about what the page it belongs to may ask for, and has one    *)
(* commit, which is that of no other call.                                 *)
Posted(x) == Asks(x) =>
  /\ IF Told1(x) /\ x.op \notin Reads THEN x.wrote \in 2 .. writes /\ x.upto = x.wrote
     ELSE x.wrote = 0
  /\ Told1(x) => x.upto \in 1 .. writes
  /\ x.op = "template" => kind = "packing"
  /\ x.op = "settings" => kind = "budget"
  /\ x.op = "invites" => kind = "members" /\ mayEdit
  /\ x.op = "load" => kind # "share" /\ (Rowed => view = "loading")
  /\ kind = "share" => x.item = IF x.op = "set" THEN Recap ELSE Link
  /\ kind = "share" /\ x.op = "add" /\ Told1(x) => x.val = "a"
  /\ kind = "share" /\ x.op = "set" => x.by # "link"
  /\ Rowed /\ x.op = "add" /\ x.at = "out" => x.item = None
  /\ x.op \in {"sum", "settings", "template"} => x.item = None

(* Each knows what the other is about.                                     *)
Crosses(x, y) ==
  /\ x.op = "template" => Items \cup {New} \subseteq y.crossed
  /\ x.op = "add" => New \in y.crossed
  /\ x.op \in {"set", "remove"} \/ (x.op = "add" /\ kind = "share") => x.item \in y.crossed

Apart(x, y) ==
  /\ Patched => Crosses(x, y)
  /\ x.wrote = y.wrote => x.wrote = 0
  /\ Rowed => view # "loading"

Orderly ==
  /\ writes >= 1
  /\ \A c \in Slots : Posted(call[c])
  /\ \A c, d \in Slots : c # d /\ Asks(call[c]) /\ Asks(call[d]) => Apart(call[c], call[d])

(* A removal is for good, and an edit whose commit the page reflects before*)
(* its answer was overlapped.                                              *)
Standing(x) == Owes(x) =>
  /\ Rowed /\ x.op = "remove" => rows[x.item] = "gone"
  /\ x.op \in {"set", "remove"} \/ kind = "share" =>
       (x.wrote \in seen => x.item \in x.crossed)

(* A row that has not been made is nowhere on the page and in no answer;   *)
(* one that has just been made only in later answers, or the page has      *)
(* missed a commit for good.                                               *)
Lacks(x, i) == x.item # i /\ (kind = "packing" /\ x.op \in {"set", "remove"} => x.kept[i] = <<>>)
Void(i) ==
  /\ shown[i] = <<>>
  /\ \A c \in Slots : Asks(call[c]) => /\ Lacks(call[c], i)
                                       /\ Brings(call[c]) => call[c].reply[i] = <<>>
Made(c) ==
  /\ rows[call[c].item] = call[c].val /\ shown[call[c].item] = <<>>
  /\ \A d \in Slots \ {c} : Asks(call[d]) =>
       /\ Lacks(call[d], call[c].item)
       /\ Brings(call[d]) /\ call[d].upto < call[c].wrote => call[d].reply[call[c].item] = <<>>

Unmade == Rowed => \A i \in Items : rows[i] = None => Void(i)
Adds == Rowed => \A c \in Slots :
  Owes(call[c]) /\ call[c].op = "add" => Made(c) \/ After(call[c].wrote, seen, Owed, writes)

(* A row is shown as it is, or a call will put it right.                   *)
Excuses(x, i) == x.item = i /\ \/ kind = "packing" /\ x.op \in {"set", "remove"}
                               \/ kind = "share" /\ x.op = "set"
                               \/ /\ Owes(x) /\ x.op \in {"add", "set", "remove"}
                                  /\ x.wrote \notin seen
Right(i) == shown[i] = Listing[i] \/ \E c \in Slots : Asks(call[c]) /\ Excuses(call[c], i)

(* What a call wants is shown already, and is there once it is saved.      *)
Wants(x) == IF x.op = "remove" THEN <<>> ELSE <<x.val>>
Tells(x) ==
  /\ kind = "packing" /\ x.op \in {"set", "remove"} =>
       shown[x.item] = Wants(x) /\ Listing[x.item] = IF Owes(x) THEN Wants(x) ELSE x.kept[x.item]
  /\ kind = "share" /\ x.op = "set" =>
       shown[x.item] = Wants(x) /\ Listing[x.item] = IF Owes(x) THEN Wants(x) ELSE <<Flip(x.val)>>
  /\ kind = "share" /\ x.op # "set" /\ Owes(x) => Listing[x.item] = Wants(x)
  /\ kind = "share" /\ x.op = "add" /\ x.by = "open" => shown[x.item] = <<"a">>
  /\ kind = "budget" /\ x.op = "set" =>
       DOMAIN shown[x.item] = {1} /\ (Owes(x) => Listing[x.item] = Wants(x))
  /\ kind = "packing" /\ x.op = "remove" /\ x.crossed = {} =>
       \A j \in Items \ {x.item} : x.kept[j] = shown[j]

Shows == Patched /\ Whole(seen, Owed, writes) =>
  /\ \A i \in Items : Right(i)
  /\ \A c \in Slots :
       Asks(call[c]) /\ call[c].item \in Items /\ call[c].item \notin call[c].crossed
         => Tells(call[c])

Replies == Patched => \A c \in Slots :
  Brings(call[c]) /\ Whole(1 .. call[c].upto, Owed, writes) =>
    \A i \in Items : \/ call[c].reply[i] = Listing[i]
                     \/ \E d \in Slots : /\ Owes(call[d]) /\ call[d].item = i
                                         /\ call[d].op \in {"add", "set", "remove"}
                                         /\ call[d].wrote > call[c].upto

(* A trip always has the switch of its recap, and its link is on or off.   *)
Switch == kind = "share" => rows[Recap] \in Values /\ rows[Link] # "b"

Exact ==
  /\ Orderly /\ (\A c \in Slots : Standing(call[c])) /\ Unmade /\ Adds /\ Shows /\ Replies
  /\ Switch

(* The pages that fetch their rows again.                                  *)
Fetched == ~Patched =>
  /\ writes >= 1
  /\ \A c \in Slots : Asks(call[c]) => /\ call[c].op # "template"
                                       /\ call[c].op = "invites" => kind = "members" /\ mayEdit
  /\ \A c \in Slots : Brings(call[c]) /\ call[c].upto = writes => call[c].reply = Listing
  /\ kind = "members" /\ ~mayEdit => \A i \in Invites : shown[i] = <<>>
  /\ seen = 1 .. writes => \A i \in Items :
       \/ shown[i] = Listing[i]
       \/ kind = "members" /\ mayEdit /\ i \in Invites
          /\ \E c \in Slots : Asks(call[c]) /\ call[c].op = "invites"

-----------------------------------------------------------------------------
(* What is owed, after one call has gone a step further.                   *)
LEMMA OwedIs ==
  ASSUME ListsInv, Orderly, NEW c \in Slots, Asks(call[c]), NEW x \in Calls, Answer(c, x),
         kind' = kind
  PROVE  /\ Owed \subseteq 1 .. writes
         /\ writes' = writes /\ ~Owes(x) =>
              /\ Owes(call[c]) => /\ call[c].wrote \in Owed /\ call[c].wrote \notin Owed'
                                 /\ Owed = Owed' \cup {call[c].wrote}
              /\ ~Owes(call[c]) => Owed' = Owed
         /\ writes' = writes + 1 /\ ~Owes(call[c]) =>
              /\ ~Owes(x) => Owed' = Owed
              /\ Owes(x) /\ x.wrote = writes + 1 => Owed' = Owed \cup {writes + 1}
<1>1. /\ call \in [Slots -> Calls] /\ writes \in Nat
      /\ call'[c] = x /\ \A d \in Slots : d # c => call'[d] = call[d]
  BY DEF ListsInv, Placed, Answer
<1>2. \A d \in Slots : Owes(call[d]) => call[d].wrote \in 2 .. writes
  BY DEF Orderly, Posted, Owes, Told1, Asks, Reads
<1>3. \A d \in Slots : d # c /\ Owes(call[d]) /\ Owes(call[c]) => call[d].wrote # call[c].wrote
  BY <1>2 DEF Orderly, Apart, Owes, Told1, Asks
<1>4. \A d \in Slots : d # c => (Owes(call[d])' <=> Owes(call[d])) /\ call'[d].wrote = call[d].wrote
  BY <1>1 DEF Owes, Patched, Rowed, Told1
<1>5. Owes(call[c])' <=> Owes(x)
  BY <1>1 DEF Owes, Patched, Rowed, Told1
<1>6. \A n : n \in Owed' <=> n \in 1 .. writes'
                              /\ \E d \in Slots : Owes(call[d])' /\ call'[d].wrote = n
  BY DEF Owed
<1>7. \A n : n \in Owed <=> n \in 1 .. writes
                              /\ \E d \in Slots : Owes(call[d]) /\ call[d].wrote = n
  BY DEF Owed
<1>8. \A n : n \in Owed' <=> /\ n \in 1 .. writes'
                           /\ \/ Owes(x) /\ x.wrote = n
                              \/ \E d \in Slots : d # c /\ Owes(call[d]) /\ call[d].wrote = n
  BY <1>1, <1>4, <1>5, <1>6
<1>9. ASSUME writes' = writes, ~Owes(x)
      PROVE  /\ Owes(call[c]) => /\ call[c].wrote \in Owed /\ call[c].wrote \notin Owed'
                                 /\ Owed = Owed' \cup {call[c].wrote}
             /\ ~Owes(call[c]) => Owed' = Owed
  <2>1. CASE Owes(call[c])
    <3>1. call[c].wrote \in Owed /\ call[c].wrote \notin Owed'
      BY <1>2, <1>3, <1>7, <1>8, <1>9, <2>1
    <3>2. \A n : n \in Owed <=> n \in Owed' \/ n = call[c].wrote
      BY <1>2, <1>7, <1>8, <1>9, <2>1
    <3> QED  BY <2>1, <3>1, <3>2
  <2>2. CASE ~Owes(call[c])
    <3>1. \A n : n \in Owed <=> n \in Owed'
      BY <1>7, <1>8, <1>9, <2>2
    <3> QED  BY <2>2, <3>1
  <2> QED  BY <2>1, <2>2
<1>10. ASSUME writes' = writes + 1, ~Owes(call[c])
       PROVE  /\ ~Owes(x) => Owed' = Owed
              /\ Owes(x) /\ x.wrote = writes + 1 => Owed' = Owed \cup {writes + 1}
  <2>1. 1 .. writes \subseteq 1 .. writes + 1
    BY <1>1
  <2>2. Owed \subseteq 1 .. writes + 1 /\ Owed' \subseteq 1 .. writes + 1
    BY <1>10, <2>1 DEF Owed
  <2>3. ASSUME NEW n \in 1 .. writes + 1
        PROVE  n \in Owed' <=> n \in Owed \/ (Owes(x) /\ x.wrote = n)
    <3>1. ASSUME NEW d \in Slots, Owes(call[d]), call[d].wrote = n
          PROVE  n \in 1 .. writes /\ d # c
      BY <1>2, <1>10, <3>1
    <3> QED  BY <1>7, <1>8, <1>10, <3>1
  <2>4. writes + 1 \in 1 .. writes + 1
    BY <1>1
  <2> QED  BY <2>2, <2>3, <2>4
<1>11. Owed \subseteq 1 .. writes
  BY DEF Owed
<1> QED  BY <1>9, <1>10, <1>11

(* What can still become whole was so before.                              *)
LEMMA WholeBefore ==
  ASSUME NEW n \in Nat, NEW S, NEW D, NEW T, NEW E
  PROVE  /\ Whole(S, D, n) /\ S \cup D \subseteq T \cup E /\ 1 \in T => Whole(T, E, n)
         /\ S \subseteq 1 .. n /\ D \subseteq 1 .. n /\ n >= 1 =>
              /\ Whole(S, D \cup {n + 1}, n + 1) => Whole(S, D, n)
              /\ ~Whole(S, D, n + 1)
<1>1. Whole(S, D, n) /\ S \cup D \subseteq T \cup E /\ 1 \in T => Whole(T, E, n)
  BY DEF Whole
<1>2. ASSUME S \subseteq 1 .. n, D \subseteq 1 .. n, n >= 1
      PROVE  /\ Whole(S, D \cup {n + 1}, n + 1) => Whole(S, D, n)
             /\ ~Whole(S, D, n + 1)
  <2>1. n + 1 \in 1 .. n + 1 /\ n + 1 \notin S \cup D
    BY <1>2
  <2>2. \A m \in 1 .. n : m \in 1 .. n + 1 /\ m # n + 1
    OBVIOUS
  <2>3. Whole(S, D \cup {n + 1}, n + 1) => Whole(S, D, n)
    BY <2>2 DEF Whole
  <2> QED  BY <2>1, <2>3 DEF Whole
<1> QED  BY <1>1, <1>2

(* One call goes a step further, without a new claim on any row.           *)
LEMMA OrderlyAfter ==
  ASSUME ListsInv, Orderly, NEW c \in Slots, Asks(call[c]), NEW x \in Calls, Answer(c, x),
         kind' = kind, mayEdit' = mayEdit, writes' \in {writes, writes + 1}, Posted(x)',
         view' = view \/ ~Rowed \/ (\A d \in Slots : d # c => ~Asks(call[d])),
         Asks(x) => /\ x.crossed = call[c].crossed
                    /\ \/ x.op \in Reads
                       \/ /\ x.op = call[c].op
                          /\ x.op \in {"set", "remove"} \/ kind = "share" => x.item = call[c].item
                    /\ x.wrote \in {0, writes + 1, call[c].wrote}
  PROVE  Orderly'
<1>1. /\ call \in [Slots -> Calls] /\ writes \in Nat /\ writes >= 1 /\ writes' >= writes
      /\ writes' \in Nat
      /\ call'[c] = x /\ \A d \in Slots : d # c => call'[d] = call[d]
  BY DEF ListsInv, Placed, Answer, Orderly
<1>2. \A d \in Slots : Posted(call[d]) /\ (Asks(call[d]) => call[d].wrote \in 0 .. writes)
  BY <1>1 DEF Orderly, Posted, ListsInv, Sound, Calls
<1>3. ASSUME NEW d \in Slots PROVE Posted(call[d])'
  <2>1. CASE d = c
    BY <1>1, <2>1 DEF Posted, Asks, Told1, Reads, Rowed
  <2>2. CASE d # c
    BY <1>1, <1>2, <2>2 DEF Posted, Asks, Told1, Reads, Rowed
  <2> QED  BY <2>1, <2>2
<1>4. ASSUME NEW d \in Slots, NEW e \in Slots, d # e, Asks(call'[d]), Asks(call'[e])
      PROVE  Apart(call[d], call[e])'
  <2>1. CASE d # c /\ e # c
    <3>1. Apart(call[d], call[e]) /\ call'[d] = call[d] /\ call'[e] = call[e]
      BY <1>1, <1>4, <2>1 DEF Orderly
    <3>2. view' = view \/ ~Rowed
      BY <1>1, <1>4, <2>1
    <3> QED  BY <3>1, <3>2 DEF Apart, Crosses, Patched, Rowed
  <2>2. CASE d = c
    <3>1. /\ Apart(call[c], call[e]) /\ call'[e] = call[e] /\ call'[d] = x
          /\ call[e].wrote \in 0 .. writes
      BY <1>1, <1>2, <1>4, <2>2 DEF Orderly
    <3>2. view' = view \/ ~Rowed
      BY <1>1, <1>4, <2>2
    <3>3. Asks(x)
      BY <1>4, <3>1
    <3> QED  BY <1>1, <3>1, <3>2, <3>3 DEF Apart, Crosses, Patched, Rowed, Reads
  <2>3. CASE e = c
    <3>1. /\ Apart(call[d], call[c]) /\ call'[d] = call[d] /\ call'[e] = x
          /\ call[d].wrote \in 0 .. writes /\ Apart(call[c], call[d])
      BY <1>1, <1>2, <1>4, <2>3 DEF Orderly
    <3>2. view' = view \/ ~Rowed
      BY <1>1, <1>4, <2>3
    <3>3. Asks(x)
      BY <1>4, <3>1
    <3> QED  BY <1>1, <3>1, <3>2, <3>3 DEF Apart, Crosses, Patched, Rowed
  <2> QED  BY <2>1, <2>2, <2>3
<1> QED  BY <1>1, <1>3, <1>4 DEF Orderly, Asks

(* A call fails, before or after it has changed rows.                      *)
LEMMA FailExact ==
  ASSUME ListsInv, Exact, Patched, NEW c \in Slots, Asks(call[c]), Fails(c),
         UNCHANGED <<rows, writes>>, Keep
  PROVE  Exact'
<1> DEFINE y == [call[c] EXCEPT !.at = "back", !.ok = FALSE, !.reply = None,
                                !.upto = 0, !.wrote = 0]
<1>0. call \in [Slots -> Calls] /\ writes \in Nat /\ Orderly /\ seen \subseteq 1 .. writes
  BY DEF ListsInv, Placed, Past, Exact
<1>y. y \in Calls
  BY <1>0 DEF Calls
<1>x. PICK x \in Calls : x = y
  BY <1>y
<1>1. /\ x.at = "back" /\ ~x.ok /\ x.by = call[c].by /\ x.op = call[c].op
      /\ x.item = call[c].item /\ x.val = call[c].val /\ x.kept = call[c].kept
      /\ x.crossed = call[c].crossed /\ x.upto = 0 /\ x.wrote = 0
  BY <1>0, <1>x DEF Calls
<1>2. Answer(c, x) /\ UNCHANGED <<kind, mayEdit, rows, writes, view, shown, seen>>
  BY <1>x DEF Fails, Keep, page
<1> HIDE DEF y
<1>3. call'[c] = x /\ \A d \in Slots : d # c => call'[d] = call[d]
  BY <1>0, <1>2 DEF Answer
<1>4. ~Owes(x) /\ ~Brings(x) /\ Asks(x) /\ Listing' = Listing
  BY <1>1, <1>2 DEF Owes, Told1, Brings, Asks, Listing
<1>5. /\ Owed \subseteq 1 .. writes /\ Owed' \subseteq Owed
      /\ Owes(call[c]) => call[c].wrote \in 1 .. writes /\ call[c].wrote \notin Owed'
      /\ ~Owes(call[c]) => Owed' = Owed
  BY <1>0, <1>2, <1>4, OwedIs
<1>6. Orderly'
  <2>1. Posted(x)'
    BY <1>0, <1>1, <1>2 DEF Orderly, Posted, Asks, Told1, Reads, Rowed
  <2> QED  BY <1>0, <1>1, <1>2, <2>1, OrderlyAfter
<1>7. \A d \in Slots : Standing(call[d])'
  BY <1>2, <1>3, <1>4 DEF Exact, Standing, Owes, Told1, Patched, Rowed
<1>8. Unmade'
  BY <1>1, <1>2, <1>3, <1>4 DEF Exact, Unmade, Void, Lacks, Brings, Told1, Asks, Rowed
<1>9. Adds'
  <2> SUFFICES ASSUME Rowed', NEW d \in Slots, Owes(call[d])', call'[d].op = "add"
               PROVE  (Made(d) \/ After(call[d].wrote, seen, Owed, writes))'
    BY DEF Adds
  <2>1. d # c /\ call'[d] = call[d] /\ Owes(call[d]) /\ Rowed
    BY <1>2, <1>3, <1>4 DEF Owes, Told1, Patched, Rowed
  <2>2. CASE After(call[d].wrote, seen, Owed, writes)
    BY <1>2, <1>5, <2>1, <2>2 DEF After
  <2>3. CASE Made(d)
    BY <1>1, <1>2, <1>3, <1>4, <2>1, <2>3 DEF Made, Lacks, Brings, Told1, Asks
  <2> QED  BY <2>1, <2>2, <2>3 DEF Exact, Adds
<1>w. ASSUME NEW S \in SUBSET (1 .. writes), Whole(S, Owed, writes)'
      PROVE  Whole(S, Owed, writes) /\ (Owes(call[c]) => call[c].wrote \in S)
  BY <1>0, <1>2, <1>5, <1>w DEF Whole
<1>10. Shows'
  <2> SUFFICES ASSUME Whole(seen, Owed, writes)'
               PROVE  /\ \A i \in Items : Right(i)'
                      /\ \A d \in Slots : /\ Asks(call'[d]) /\ call'[d].item \in Items
                                          /\ call'[d].item \notin call'[d].crossed
                                          => Tells(call[d])'
    BY DEF Shows, Asks
  <2>1. Whole(seen, Owed, writes) /\ (Owes(call[c]) => call[c].wrote \in seen)
    BY <1>0, <1>2, <1>w
  <2>2. ASSUME NEW i \in Items PROVE Right(i)'
    <3>1. CASE shown[i] = Listing[i]
      BY <1>2, <1>4, <3>1 DEF Right
    <3>2. ASSUME NEW d \in Slots, Asks(call[d]), Excuses(call[d], i)
          PROVE  Asks(call'[d]) /\ Excuses(call[d], i)'
      <4>1. CASE d = c
        BY <1>1, <1>2, <1>3, <1>4, <2>1, <3>2, <4>1 DEF Excuses
      <4>2. CASE d # c
        BY <1>2, <1>3, <3>2, <4>2 DEF Excuses, Owes, Told1, Patched, Rowed
      <4> QED  BY <4>1, <4>2
    <3> QED  BY <2>1, <3>1, <3>2 DEF Exact, Shows, Right, Asks
  <2>3. ASSUME NEW d \in Slots, Asks(call'[d]), call'[d].item \in Items,
               call'[d].item \notin call'[d].crossed
        PROVE  Tells(call[d])'
    <3>1. Tells(call[d])
      BY <1>1, <1>3, <2>1, <2>3 DEF Exact, Shows
    <3>2. CASE d # c
      BY <1>2, <1>3, <1>4, <3>1, <3>2 DEF Tells, Wants, Owes, Told1, Patched, Rowed
    <3>3. CASE d = c
      <4>1. ~Owes(call[c]) \/ (x.op \notin {"set", "remove"} /\ kind # "share")
        BY <1>1, <1>3, <2>1, <2>3, <3>3 DEF Exact, Standing
      <4>2. Tells(x)'
        BY <1>1, <1>2, <1>4, <3>1, <3>3, <4>1 DEF Tells, Wants, Owes, Told1, Patched, Rowed
      <4> QED  BY <1>3, <3>3, <4>2 DEF Tells, Wants, Owes, Told1, Patched, Rowed
    <3> QED  BY <3>2, <3>3
  <2> QED  BY <2>2, <2>3
<1>11. Replies'
  <2> SUFFICES ASSUME NEW d \in Slots, Brings(call[d])', Whole(1 .. call[d].upto, Owed, writes)',
                      NEW i \in Items
               PROVE  \/ call'[d].reply[i] = Listing'[i]
                      \/ \E e \in Slots : /\ Owes(call[e])' /\ call'[e].item = i
                                          /\ call'[e].op \in {"add", "set", "remove"}
                                          /\ call'[e].wrote > call'[d].upto
    BY DEF Replies
  <2>1. d # c /\ call'[d] = call[d] /\ Brings(call[d])
    BY <1>3, <1>4 DEF Brings, Told1
  <2>2. call[d].upto \in 1 .. writes
    BY <1>0, <2>1 DEF Orderly, Posted, Brings, Told1, Asks
  <2>3. 1 .. call[d].upto \in SUBSET (1 .. writes)
    BY <1>0, <2>2
  <2>4. /\ Whole(1 .. call[d].upto, Owed, writes)
        /\ Owes(call[c]) => call[c].wrote \in 1 .. call[d].upto
    BY <1>w, <2>1, <2>3
  <2>5. CASE call[d].reply[i] = Listing[i]
    BY <1>4, <2>1, <2>5
  <2>6. ASSUME NEW e \in Slots, Owes(call[e]), call[e].item = i, call[e].wrote > call[d].upto,
               call[e].op \in {"add", "set", "remove"}
        PROVE  /\ Owes(call[e])' /\ call'[e].item = i /\ call'[e].wrote > call'[d].upto
               /\ call'[e].op \in {"add", "set", "remove"}
    <3>1. e # c
      BY <2>2, <2>4, <2>6
    <3> QED  BY <1>2, <1>3, <2>1, <2>6, <3>1 DEF Owes, Told1, Patched, Rowed
  <2> QED  BY <2>1, <2>4, <2>5, <2>6 DEF Exact, Replies
<1>12. Switch'
  BY <1>2 DEF Exact, Switch
<1> QED  BY <1>6, <1>7, <1>8, <1>9, <1>10, <1>11, <1>12 DEF Exact

(* A call changes a row.                                                   *)
LEMMA CommitExact ==
  ASSUME ListsAssumption, ListsInv, Exact, Patched, NEW c \in Slots, call[c].at = "out",
         call[c].op \in {"add", "set", "remove", "settings"}, NEW x \in Calls, Answer(c, x), Keep,
         x.at = "back", x.ok, x.op = call[c].op, x.by = call[c].by, x.kept = call[c].kept,
         x.crossed = call[c].crossed, x.wrote = writes + 1, x.upto = writes + 1,
         writes' = writes + 1, rows' \in [Items -> Values \cup {None, "gone"}],
         \A j \in Items : j # x.item => rows'[j] = rows[j],
         x.op # "add" => x.item = call[c].item /\ x.val = call[c].val,
         x.op = "set" => x.item \in Items /\ x.val \in Values /\ rows'[x.item] = x.val,
         x.op = "remove" => x.item \in Items /\ rows'[x.item] = "gone",
         x.op = "add" => /\ x.item \in Items /\ x.val = "a" /\ rows'[x.item] = "a"
                         /\ IF kind = "share" THEN x.item = Link ELSE rows[x.item] = None,
         Rowed /\ x.op \in {"set", "remove"} => rows[x.item] \in Values
  PROVE  Exact'
<1>0. /\ call \in [Slots -> Calls] /\ writes \in Nat /\ writes >= 1 /\ Orderly
      /\ seen \subseteq 1 .. writes /\ rows \in [Items -> Values \cup {None, "gone"}]
  BY DEF ListsInv, Placed, Past, Exact, Orderly
<1>2. UNCHANGED <<kind, mayEdit, view, shown, seen>>
  BY DEF Keep, page
<1>3. call'[c] = x /\ \A d \in Slots : d # c => call'[d] = call[d]
  BY <1>0 DEF Answer
<1>4. /\ Owes(x) /\ ~Owes(call[c]) /\ ~Brings(x) /\ Asks(x) /\ Asks(call[c]) /\ ~Brings(call[c])
      /\ \A i \in Items : i # x.item => Listing'[i] = Listing[i]
  BY <1>2 DEF Owes, Told1, Brings, Asks, Listing
<1>5. /\ Owed \subseteq 1 .. writes /\ Owed' = Owed \cup {writes + 1}
      /\ \A d \in Slots : d # c => (Owes(call[d])' <=> Owes(call[d]))
                                   /\ (Brings(call[d])' <=> Brings(call[d]))
  BY <1>0, <1>2, <1>3, <1>4, OwedIs DEF Owes, Told1, Brings, Patched, Rowed
<1>v. {None, "gone", "a", "b"} = {None, "gone"} \cup Values /\ None \notin {"gone", "a", "b"}
      /\ None \notin Items /\ Link \in Items
  BY ListsAssumption DEF Values
<1>s. /\ x.op = "settings" => x.item = None /\ kind = "budget"
      /\ x.op # "settings" => /\ x.op \in {"add", "set", "remove"} /\ x.item \in Items
                              /\ rows'[x.item] # None
                              /\ x.op # "remove" => rows'[x.item] = x.val /\ x.val \in {"a", "b"}
      /\ Rowed /\ x.item \in Items => rows[x.item] # "gone"
  BY <1>0, <1>4, <1>v DEF Orderly, Posted, Values
<1>6. Orderly'
  <2>1. Posted(x)'
    <3>1. Posted(call[c]) /\ writes + 1 \in 2 .. writes' /\ writes + 1 \in 1 .. writes'
      BY <1>0 DEF Orderly
    <3>2. kind = "share" => x.item = IF x.op = "set" THEN Recap ELSE Link
      BY <1>4, <1>s, <3>1 DEF Posted, Patched, Rowed
    <3> QED  BY <1>2, <1>4, <1>s, <3>1, <3>2 DEF Posted, Asks, Told1, Reads, Rowed, Patched
  <2>2. kind = "share" => x.item = call[c].item
    BY <1>0, <1>4, <1>s DEF Orderly, Posted, Patched, Rowed
  <2> QED  BY <1>0, <1>2, <1>4, <2>1, <2>2, OrderlyAfter
<1>c. ASSUME NEW d \in Slots, d # c, Asks(call[d])
      PROVE  /\ x.op \in {"set", "remove"} \/ kind = "share" => x.item \in call[d].crossed
             /\ Rowed /\ x.op = "add" => Lacks(call[d], x.item)
             /\ Rowed /\ x.op = "add" /\ Brings(call[d]) => call[d].reply[x.item] = <<>>
             /\ call[d].upto <= writes
  <2>1. Crosses(call[c], call[d]) /\ Posted(call[c])
    BY <1>0, <1>4, <1>c DEF Orderly, Apart
  <2>2. x.op \in {"set", "remove"} \/ kind = "share" => x.item \in call[d].crossed
    BY <2>1, <1>4 DEF Crosses, Posted, Patched, Rowed
  <2>3. Rowed /\ x.op = "add" => Void(x.item)
    BY DEF Exact, Unmade, Rowed
  <2>4. call[d].upto <= writes
    BY <1>c DEF ListsInv, Sound
  <2> QED  BY <1>c, <2>2, <2>3, <2>4 DEF Void
<1>7. \A d \in Slots : Standing(call[d])'
  <2> SUFFICES ASSUME NEW d \in Slots, Owes(call[d])' PROVE Standing(call[d])'
    BY DEF Standing
  <2>1. CASE d = c
    BY <1>0, <1>2, <1>3, <2>1 DEF Standing, Rowed
  <2>2. CASE d # c
    <3>1. Standing(call[d]) /\ Owes(call[d]) /\ call'[d] = call[d]
      BY <1>3, <1>5, <2>2 DEF Exact
    <3>2. Rowed /\ call[d].op = "remove" => rows[call[d].item] = "gone" /\ call[d].item \in Items
      BY <3>1 DEF Standing, ListsInv, Sound, Asks, Owes, Told1
    <3>3. Rowed /\ call[d].op = "remove" => rows'[call[d].item] = "gone"
      <4>1. CASE call[d].item = x.item
        BY <1>s, <3>2, <4>1
      <4> QED  BY <3>2, <4>1
    <3> QED  BY <1>2, <3>1, <3>3 DEF Standing, Rowed
  <2> QED  BY <2>1, <2>2
<1>8. Unmade'
  <2> SUFFICES ASSUME Rowed, NEW i \in Items, rows'[i] = None PROVE Void(i)'
    BY <1>2 DEF Unmade, Rowed
  <2>1. i # x.item /\ rows[i] = None
    BY <1>s
  <2>2. Void(i)
    BY <2>1 DEF Exact, Unmade
  <2> QED  BY <1>2, <1>3, <1>4, <1>5, <2>1, <2>2 DEF Void, Lacks, Asks
<1>9. Adds'
  <2> SUFFICES ASSUME Rowed, NEW d \in Slots, Owes(call[d])', call'[d].op = "add"
               PROVE  (Made(d) \/ After(call[d].wrote, seen, Owed, writes))'
    BY <1>2 DEF Adds, Rowed
  <2>1. CASE d = c
    <3>1. shown[x.item] = <<>>
      BY <1>3, <2>1 DEF Exact, Unmade, Void, Rowed
    <3>2. \A e \in Slots \ {c} : Asks(call'[e]) =>
            /\ Lacks(call[e], x.item)'
            /\ Brings(call[e])' => call'[e].reply[x.item] = <<>>
      BY <1>2, <1>3, <1>5, <1>c, <2>1 DEF Lacks, Rowed
    <3>3. Made(d)'
      BY <1>2, <1>3, <2>1, <3>1, <3>2 DEF Made, Asks
    <3> QED  BY <3>3
  <2>2. CASE d # c
    <3>1. call'[d] = call[d] /\ Owes(call[d]) /\ call[d].op = "add" /\ call[d].item \in Items
          /\ call[d].val \in Values
      BY <1>3, <1>5, <2>2 DEF ListsInv, Sound, Asks, Owes, Told1
    <3>2. CASE After(call[d].wrote, seen, Owed, writes)
      <4>1. PICK m \in 1 .. writes : /\ m > call[d].wrote /\ m \notin Owed
                                     /\ m \in seen => call[d].wrote \in seen
        BY <3>2 DEF After
      <4>2. m \in 1 .. writes + 1 /\ m \notin Owed'
        BY <1>0, <1>5, <4>1
      <4> QED  BY <1>2, <3>1, <4>1, <4>2 DEF After
    <3>3. CASE Made(d)
      <4>1. x.item # call[d].item
        <5>1. CASE x.op = "add"
          BY <1>v, <3>1, <3>3, <5>1 DEF Made, Rowed, Values
        <5>2. CASE x.op # "add"
          BY <1>4, <2>2, <3>3, <5>2 DEF Made, Lacks
        <5> QED  BY <5>1, <5>2
      <4>2. rows'[call[d].item] = rows[call[d].item]
        BY <3>1, <4>1
      <4>3. Lacks(x, call[d].item)'
        BY <1>2, <1>4, <2>2, <3>1, <3>3, <4>1 DEF Made, Lacks, Rowed
      <4>4. \A e \in Slots \ {d} : Asks(call'[e]) =>
              /\ Lacks(call[e], call[d].item)'
              /\ Brings(call[e])' /\ call'[e].upto < call[d].wrote =>
                   call'[e].reply[call[d].item] = <<>>
        <5> SUFFICES ASSUME NEW e \in Slots \ {d}, Asks(call'[e])
                     PROVE  /\ Lacks(call[e], call[d].item)'
                            /\ Brings(call[e])' /\ call'[e].upto < call[d].wrote =>
                                 call'[e].reply[call[d].item] = <<>>
          OBVIOUS
        <5>1. CASE e = c
          BY <1>2, <1>3, <1>4, <4>3, <5>1 DEF Lacks, Brings, Told1
        <5>2. CASE e # c
          BY <1>2, <1>3, <1>5, <3>1, <3>3, <5>2 DEF Made, Lacks, Asks
        <5> QED  BY <5>1, <5>2
      <4>5. Made(d)'
        BY <1>2, <3>1, <3>3, <4>2, <4>4 DEF Made, Asks
      <4> QED  BY <4>5
    <3> QED  BY <3>1, <3>2, <3>3 DEF Exact, Adds
  <2> QED  BY <2>1, <2>2
<1>w. ASSUME NEW S \in SUBSET (1 .. writes), Whole(S, Owed, writes)'
      PROVE  Whole(S, Owed, writes)
  <2>1. Whole(S, Owed \cup {writes + 1}, writes + 1)
    BY <1>5, <1>w DEF Whole
  <2> QED  BY <1>0, <1>5, <2>1, WholeBefore
<1>l. /\ x.op = "remove" => Listing'[x.item] = <<>>
      /\ x.op \in {"set", "add"} => Listing'[x.item] = <<x.val>>
  BY <1>2, <1>v DEF Listing, Patched, Rowed, Values
<1>10. Shows'
  <2> SUFFICES ASSUME Whole(seen, Owed, writes)'
               PROVE  /\ \A i \in Items : Right(i)'
                      /\ \A d \in Slots : /\ Asks(call'[d]) /\ call'[d].item \in Items
                                          /\ call'[d].item \notin call'[d].crossed
                                          => Tells(call[d])'
    BY DEF Shows, Asks
  <2>1. Whole(seen, Owed, writes)'
    OBVIOUS
  <2>w. Whole(seen, Owed, writes)
    <3>1. PICK S \in SUBSET (1 .. writes) : S = seen
      BY <1>0
    <3>2. Whole(S, Owed, writes)'
      BY <1>2, <2>1, <3>1
    <3> QED  BY <1>w, <3>1, <3>2
  <2>2. ASSUME NEW i \in Items PROVE Right(i)'
    <3>1. CASE i = x.item
      <4>1. x.op \in {"add", "set", "remove"}
        BY <1>0, <1>v, <3>1, <1>4 DEF Orderly, Posted
      <4>2. writes + 1 \notin seen
        BY <1>0
      <4>3. Excuses(x, i)'
        BY <1>2, <1>4, <3>1, <4>1, <4>2 DEF Excuses, Owes, Told1, Patched, Rowed
      <4> QED  BY <1>2, <1>3, <1>4, <4>3 DEF Right, Excuses, Owes, Told1, Patched, Rowed, Asks
    <3>2. CASE i # x.item
      <4>1. CASE shown[i] = Listing[i]
        BY <1>2, <1>4, <3>2, <4>1 DEF Right
      <4>2. ASSUME NEW d \in Slots, Asks(call[d]), Excuses(call[d], i)
            PROVE  d # c
        BY <1>4, <3>2, <4>2 DEF Excuses
      <4>3. ASSUME NEW d \in Slots, Asks(call[d]), Excuses(call[d], i)
            PROVE  Asks(call'[d]) /\ Excuses(call[d], i)'
        BY <1>2, <1>3, <4>2, <4>3 DEF Excuses, Owes, Told1, Patched, Rowed
      <4> QED  BY <2>w, <4>1, <4>3 DEF Exact, Shows, Right, Asks
    <3> QED  BY <3>1, <3>2
  <2>3. ASSUME NEW d \in Slots, Asks(call'[d]), call'[d].item \in Items,
               call'[d].item \notin call'[d].crossed
        PROVE  Tells(call[d])'
    <3>1. CASE d # c
      <4>1. Tells(call[d])
        BY <1>3, <2>w, <2>3, <3>1 DEF Exact, Shows
      <4>2. call[d].item # x.item
        <5>1. CASE x.op = "settings"
          BY <1>s, <1>v, <1>3, <2>3, <3>1, <5>1
        <5>2. CASE x.op # "settings"
          BY <1>3, <1>c, <1>s, <2>3, <3>1, <5>2 DEF Lacks, Patched
        <5> QED  BY <5>1, <5>2
      <4> QED  BY <1>2, <1>3, <1>4, <2>3, <3>1, <4>1, <4>2
               DEF Tells, Wants, Owes, Told1, Patched, Rowed
    <3>2. CASE d = c
      <4>1. CASE x.op = "add"
        <5>1. CASE kind = "share"
          <6>p. call[c].item = x.item /\ x.item \in Items
            BY <1>0, <1>4, <1>s, <4>1, <5>1 DEF Orderly, Posted
          <6>1. Tells(call[c])
            BY <1>3, <1>4, <2>w, <2>3, <3>2, <6>p DEF Exact, Shows
          <6>2. x.by = "open" => shown[x.item] = <<"a">>
            BY <4>1, <5>1, <6>1, <6>p DEF Tells
          <6>3. Listing'[x.item] = Wants(x)
            BY <1>l, <4>1 DEF Wants
          <6> QED  BY <1>2, <1>3, <3>2, <4>1, <5>1, <6>2, <6>3 DEF Tells, Wants
        <5>2. CASE kind # "share"
          BY <1>2, <1>3, <3>2, <4>1, <5>2 DEF Tells
        <5> QED  BY <5>1, <5>2
      <4>2. CASE x.op # "add"
        <5>1. Tells(call[c])
          BY <1>3, <1>4, <2>w, <2>3, <3>2, <4>2 DEF Exact, Shows
        <5>2. x.op \in {"set", "remove"} => Listing'[x.item] = Wants(x)
          BY <1>l DEF Wants
        <5>w. Wants(call[c]) = Wants(x) /\ Wants(x)' = Wants(x) /\ call[c].item = x.item
          BY <4>2 DEF Wants
        <5>o. Owes(x)'
          BY <1>2, <1>4 DEF Owes, Told1, Patched, Rowed
        <5>3. Tells(x)'
          BY <1>2, <1>s, <4>2, <5>1, <5>2, <5>w, <5>o DEF Tells, Patched
        <5> QED  BY <1>3, <3>2, <5>3 DEF Tells, Wants, Owes, Told1, Patched, Rowed
      <4> QED  BY <4>1, <4>2
    <3> QED  BY <3>1, <3>2
  <2> QED  BY <2>2, <2>3
<1>11. Replies'
  <2> SUFFICES ASSUME NEW d \in Slots, Brings(call[d])', Whole(1 .. call[d].upto, Owed, writes)',
                      NEW i \in Items
               PROVE  \/ call'[d].reply[i] = Listing'[i]
                      \/ \E e \in Slots : /\ Owes(call[e])' /\ call'[e].item = i
                                          /\ call'[e].op \in {"add", "set", "remove"}
                                          /\ call'[e].wrote > call'[d].upto
    BY DEF Replies
  <2>1. d # c /\ call'[d] = call[d] /\ Brings(call[d])
    BY <1>3, <1>4, <1>5 DEF Brings, Told1
  <2>2. call[d].upto \in 1 .. writes
    BY <1>0, <2>1 DEF Orderly, Posted, Brings, Told1, Asks
  <2>3. 1 .. call[d].upto \in SUBSET (1 .. writes)
    BY <1>0, <2>2
  <2>4. Whole(1 .. call[d].upto, Owed, writes)
    BY <1>w, <2>1, <2>3
  <2>5. CASE i = x.item
    <3>1. x.op \in {"add", "set", "remove"}
      BY <1>0, <1>v, <2>5, <1>4 DEF Orderly, Posted
    <3>2. Owes(call[c])' /\ call'[c].item = i /\ call'[c].wrote > call'[d].upto
      BY <1>0, <1>2, <1>3, <1>4, <2>1, <2>2, <2>5 DEF Owes, Told1, Patched, Rowed
    <3> QED  BY <1>3, <3>1, <3>2
  <2>6. CASE i # x.item
    <3>1. CASE call[d].reply[i] = Listing[i]
      BY <1>4, <2>1, <2>6, <3>1
    <3>2. ASSUME NEW e \in Slots, Owes(call[e]), call[e].item = i, call[e].wrote > call[d].upto,
                 call[e].op \in {"add", "set", "remove"}
          PROVE  /\ Owes(call[e])' /\ call'[e].item = i /\ call'[e].wrote > call'[d].upto
                 /\ call'[e].op \in {"add", "set", "remove"}
      BY <1>3, <1>4, <1>5, <2>1, <3>2
    <3> QED  BY <2>1, <2>4, <3>1, <3>2 DEF Exact, Replies
  <2> QED  BY <2>5, <2>6
<1>12. Switch'
  <2>1. kind = "share" => x.item = IF x.op = "set" THEN Recap ELSE Link
    BY <1>0, <1>4, <1>s DEF Orderly, Posted, Patched, Rowed
  <2>2. x.item = Recap /\ kind = "share" => x.op = "set"
    BY <2>1, ListsAssumption
  <2>3. rows[Recap] = rows'[Recap] \/ x.item = Recap
    BY ListsAssumption
  <2>4. rows[Link] = rows'[Link] \/ x.item = Link
    BY <1>v
  <2>5. kind = "share" /\ x.item = Link => x.op \in {"add", "remove"}
    BY <1>s, <2>1, ListsAssumption
  <2>6. kind = "share" => rows'[Link] # "b"
    BY <2>4, <2>5 DEF Exact, Switch
  <2> QED  BY <1>2, <2>2, <2>3, <2>6 DEF Exact, Switch
<1> QED  BY <1>6, <1>7, <1>8, <1>9, <1>10, <1>11, <1>12 DEF Exact

(* The whole list is answered, with what has been put on it.               *)
LEMMA TemplateExact ==
  ASSUME ListsAssumption, ListsInv, Exact, Patched, NEW c \in Slots, ServeTemplate(c), Keep
  PROVE  Exact'
<1>0. /\ call \in [Slots -> Calls] /\ writes \in Nat /\ writes >= 1 /\ Orderly
      /\ seen \subseteq 1 .. writes /\ rows \in [Items -> Values \cup {None, "gone"}]
      /\ call[c].at = "out" /\ call[c].op = "template" /\ \A d \in Slots : Posted(call[d])
  BY DEF ListsInv, Placed, Past, Exact, Orderly, ServeTemplate, Out
<1>1. PICK S \in SUBSET {i \in Items : rows[i] = None} :
       LET r == [i \in Items |-> IF i \in S THEN "a" ELSE rows[i]]
       IN  /\ rows' = r /\ writes' = writes + 1
           /\ Answer(c, [call[c] EXCEPT !.at = "back", !.ok = TRUE, !.wrote = writes',
                           !.upto = writes',
                           !.reply = [i \in Items |-> IF r[i] \in Values THEN <<r[i]>> ELSE <<>>]])
  BY DEF ServeTemplate
<1> DEFINE rep == [i \in Items |-> IF rows'[i] \in Values THEN <<rows'[i]>> ELSE <<>>]
           y == [call[c] EXCEPT !.at = "back", !.ok = TRUE, !.wrote = writes + 1,
                                !.upto = writes + 1, !.reply = rep]
<1>2. /\ UNCHANGED <<kind, mayEdit, view, shown, seen>> /\ writes' = writes + 1
      /\ rows' = [i \in Items |-> IF i \in S THEN "a" ELSE rows[i]]
      /\ kind = "packing" /\ Patched /\ Rowed
  BY <1>0, <1>1 DEF Keep, page, Posted, Asks, Patched, Rowed
<1>3. Answer(c, y)
  BY <1>1, <1>2 DEF Answer
<1>l. rep = Listing'
  BY <1>2 DEF Listing
<1>r. rep \in Lists
  <2>1. \A i \in Items : rep[i] \in Seq(Values \cup {"gone"})
    <3>1. \A v \in Values : <<v>> \in Seq(Values \cup {"gone"})
      OBVIOUS
    <3>2. <<>> \in Seq(Values \cup {"gone"})
      OBVIOUS
    <3> QED  BY <3>1, <3>2
  <2> QED  BY <2>1 DEF Lists
<1> HIDE DEF rep
<1>y. y \in Calls
  <2>1. call[c] \in Calls /\ writes + 1 \in Nat /\ rep \in Lists \cup {None}
    BY <1>0, <1>r
  <2> HIDE DEF rep
  <2> QED  BY <2>1 DEF Calls
<1>x. PICK x \in Calls : x = y
  BY <1>y
<1>4. /\ x.at = "back" /\ x.ok /\ x.by = call[c].by /\ x.op = "template"
      /\ x.item = call[c].item /\ x.val = call[c].val /\ x.kept = call[c].kept
      /\ x.crossed = call[c].crossed /\ x.upto = writes + 1 /\ x.wrote = writes + 1
      /\ x.reply = Listing' /\ Answer(c, x)
  BY <1>0, <1>3, <1>l, <1>x DEF Calls
<1> HIDE DEF y
<1>5. call'[c] = x /\ \A d \in Slots : d # c => call'[d] = call[d]
  BY <1>0, <1>4 DEF Answer
<1>6. ~Owes(x) /\ ~Owes(call[c]) /\ Brings(x) /\ Asks(x) /\ Asks(call[c])
  BY <1>0, <1>4 DEF Owes, Told1, Brings, Asks
<1>7. /\ Owed \subseteq 1 .. writes /\ Owed' = Owed
      /\ \A d \in Slots : d # c => (Owes(call[d])' <=> Owes(call[d]))
                                   /\ (Brings(call[d])' <=> Brings(call[d]))
  BY <1>0, <1>2, <1>4, <1>5, <1>6, OwedIs DEF Owes, Told1, Brings, Patched, Rowed
<1>8. /\ \A i \in Items : rows[i] # None => rows'[i] = rows[i]
      /\ \A i \in Items : rows'[i] = None => rows[i] = None /\ Listing'[i] = <<>>
  <2>1. "a" # None /\ None \notin Values
    BY ListsAssumption DEF Values
  <2> QED  BY <1>2, <2>1 DEF Listing
<1>9. Orderly'
  <2>1. Posted(x)'
    <3>1. writes + 1 \in 2 .. writes' /\ writes + 1 \in 1 .. writes'
      BY <1>0, <1>2
    <3> QED  BY <1>0, <1>2, <1>4, <3>1 DEF Posted, Asks, Told1, Reads, Rowed
  <2> QED  BY <1>0, <1>2, <1>4, <1>6, <2>1, OrderlyAfter
<1>10. \A d \in Slots : Standing(call[d])'
  <2> SUFFICES ASSUME NEW d \in Slots, Owes(call[d])' PROVE Standing(call[d])'
    BY DEF Standing
  <2>1. d # c /\ call'[d] = call[d] /\ Owes(call[d]) /\ Standing(call[d])
    BY <1>2, <1>5, <1>6, <1>7 DEF Exact, Owes, Patched, Rowed
  <2>2. call[d].op = "remove" => call[d].item \in Items /\ rows[call[d].item] # None
    <3>1. call[d].op = "remove" => call[d].item \in Items /\ rows[call[d].item] = "gone"
      BY <1>2, <2>1 DEF Standing, ListsInv, Sound, Asks, Owes, Told1
    <3> QED  BY <3>1, ListsAssumption
  <2> QED  BY <1>2, <1>8, <2>1, <2>2 DEF Standing, Rowed
<1>11. Unmade'
  <2> SUFFICES ASSUME NEW i \in Items, rows'[i] = None PROVE Void(i)'
    BY DEF Unmade
  <2>1. Void(i) /\ Listing'[i] = <<>>
    BY <1>2, <1>8 DEF Exact, Unmade
  <2> QED  BY <1>2, <1>4, <1>5, <1>6, <1>7, <2>1 DEF Void, Lacks, Asks
<1>12. Adds'
  <2> SUFFICES ASSUME NEW d \in Slots, Owes(call[d])', call'[d].op = "add"
               PROVE  (Made(d) \/ After(call[d].wrote, seen, Owed, writes))'
    BY DEF Adds
  <2>1. d # c /\ call'[d] = call[d] /\ Owes(call[d]) /\ call[d].item \in Items
        /\ call[d].val \in Values /\ call[d].wrote \in 2 .. writes
    BY <1>0, <1>2, <1>4, <1>5, <1>7 DEF ListsInv, Sound, Asks, Owes, Told1, Posted, Reads
  <2>2. CASE After(call[d].wrote, seen, Owed, writes)
    <3>1. \A m \in 1 .. writes : m \in 1 .. writes + 1
      BY <1>0
    <3> QED  BY <1>2, <1>7, <2>1, <2>2, <3>1 DEF After
  <2>3. CASE Made(d)
    <3>1. rows[call[d].item] # None
      BY <2>1, <2>3, ListsAssumption DEF Made
    <3>2. rows'[call[d].item] = rows[call[d].item]
      BY <1>8, <2>1, <3>1
    <3>3. \A e \in Slots \ {d} : Asks(call'[e]) =>
            /\ Lacks(call[e], call[d].item)'
            /\ Brings(call[e])' /\ call'[e].upto < call[d].wrote =>
                 call'[e].reply[call[d].item] = <<>>
      BY <1>0, <1>2, <1>4, <1>5, <1>6, <1>7, <2>1, <2>3 DEF Made, Lacks, Asks
    <3> QED  BY <1>2, <2>1, <2>3, <3>2, <3>3 DEF Made, Asks
  <2> QED  BY <1>2, <2>1, <2>2, <2>3 DEF Exact, Adds
<1>w. \A T \in SUBSET (1 .. writes) : ~Whole(T, Owed, writes)'
  BY <1>0, <1>2, <1>7, WholeBefore DEF Whole
<1>13. Shows'
  <2>1. ~Whole(seen, Owed, writes)'
    <3>1. PICK T \in SUBSET (1 .. writes) : T = seen'
      BY <1>0, <1>2
    <3> QED  BY <1>w, <3>1 DEF Whole
  <2> QED  BY <2>1 DEF Shows
<1>14. Replies'
  <2> SUFFICES ASSUME NEW d \in Slots, Brings(call[d])', Whole(1 .. call[d].upto, Owed, writes)',
                      NEW i \in Items
               PROVE  call'[d].reply[i] = Listing'[i]
    BY DEF Replies
  <2>1. CASE d = c
    BY <1>4, <1>5, <2>1
  <2>2. CASE d # c
    <3>1. call'[d] = call[d] /\ call[d].upto \in 1 .. writes
      BY <1>0, <1>5, <1>7, <2>2 DEF Posted, Brings, Told1, Asks
    <3>2. PICK T \in SUBSET (1 .. writes) : T = 1 .. call'[d].upto
      BY <1>0, <3>1
    <3> QED  BY <1>w, <3>2 DEF Whole
  <2> QED  BY <2>1, <2>2
<1>15. Switch'
  BY <1>2 DEF Switch
<1> QED  BY <1>9, <1>10, <1>11, <1>12, <1>13, <1>14, <1>15 DEF Exact

(* Somebody else changes a row: the page has missed that commit for good.  *)
LEMMA OtherEditExact ==
  ASSUME ListsAssumption, ListsInv, Exact, Patched, OtherEdit
  PROVE  Exact'
<1>0. /\ call \in [Slots -> Calls] /\ writes \in Nat /\ writes >= 1 /\ Orderly
      /\ seen \subseteq 1 .. writes /\ rows \in [Items -> Values \cup {None, "gone"}]
      /\ \A d \in Slots : Posted(call[d])
  BY DEF ListsInv, Placed, Past, Exact, Orderly
<1>1. /\ UNCHANGED <<kind, mayEdit, view, shown, seen, call>> /\ writes' = writes + 1
  BY DEF OtherEdit, page
<1>2. PICK j \in Items, v \in Values \cup {"gone"} :
        /\ rows[j] = "gone" => kind = "share"
        /\ kind = "share" => (j = Recap => v # "gone") /\ (j = Link => v # "b")
        /\ rows' = [rows EXCEPT ![j] = v]
  BY DEF OtherEdit
<1>3. /\ Rowed => \A i \in Items : /\ rows[i] = "gone" => rows'[i] = "gone"
                                   /\ rows'[i] = None => rows[i] = None
  BY <1>0, <1>2, ListsAssumption DEF Rowed
<1>4. Owed \subseteq 1 .. writes /\ Owed' = Owed
  <2>1. \A d \in Slots : (Owes(call[d])' <=> Owes(call[d])) /\ call'[d].wrote = call[d].wrote
    BY <1>1 DEF Owes, Patched, Rowed, Told1
  <2>2. \A d \in Slots : Owes(call[d]) => call[d].wrote \in 1 .. writes
    BY <1>0 DEF Posted, Owes, Told1, Asks, Reads
  <2>3. \A n : n \in Owed' <=> n \in 1 .. writes'
                                /\ \E d \in Slots : Owes(call[d])' /\ call'[d].wrote = n
    BY DEF Owed
  <2>4. \A n : n \in Owed <=> n \in 1 .. writes
                                /\ \E d \in Slots : Owes(call[d]) /\ call[d].wrote = n
    BY DEF Owed
  <2>5. \A n \in 1 .. writes : n \in 1 .. writes + 1
    BY <1>0
  <2>6. \A n : n \in Owed' <=> n \in Owed
    BY <1>1, <2>1, <2>2, <2>3, <2>4, <2>5
  <2>7. Owed \subseteq 1 .. writes
    BY DEF Owed
  <2> QED  BY <2>6, <2>7
<1>5. Orderly'
  <2>1. \A d \in Slots : Posted(call[d])'
    <3>1. \A n \in 2 .. writes : n \in 2 .. writes + 1
      BY <1>0
    <3>2. \A n \in 1 .. writes : n \in 1 .. writes + 1
      BY <1>0
    <3> QED  BY <1>0, <1>1, <3>1, <3>2 DEF Posted, Asks, Told1, Rowed
  <2>2. \A d, e \in Slots : d # e /\ Asks(call'[d]) /\ Asks(call'[e]) => Apart(call[d], call[e])'
    BY <1>0, <1>1 DEF Orderly, Apart, Crosses, Patched, Rowed
  <2> QED  BY <1>0, <1>1, <2>1, <2>2 DEF Orderly, Asks
<1>6. \A d \in Slots : Standing(call[d])'
  <2> SUFFICES ASSUME NEW d \in Slots, Owes(call[d])' PROVE Standing(call[d])'
    BY DEF Standing
  <2>1. Standing(call[d]) /\ Owes(call[d])
    BY <1>1 DEF Exact, Owes, Patched, Rowed, Told1
  <2>2. call[d].op = "remove" => call[d].item \in Items
    BY <2>1 DEF ListsInv, Sound, Asks, Owes, Told1
  <2> QED  BY <1>1, <1>3, <2>1, <2>2 DEF Standing, Rowed
<1>7. Unmade'
  BY <1>1, <1>3 DEF Exact, Unmade, Void, Lacks, Brings, Told1, Asks, Rowed
<1>8. Adds'
  <2>1. writes + 1 \in 1 .. writes + 1 /\ writes + 1 \notin Owed' /\ writes + 1 \notin seen'
    BY <1>0, <1>1, <1>4
  <2> SUFFICES ASSUME NEW d \in Slots, Owes(call[d])'
               PROVE  After(call[d].wrote, seen, Owed, writes)'
    BY DEF Adds
  <2>2. call'[d].wrote \in 1 .. writes
    BY <1>0, <1>1 DEF Posted, Owes, Told1, Asks, Reads
  <2>3. writes + 1 > call'[d].wrote
    BY <1>0, <2>2
  <2> QED  BY <1>1, <2>1, <2>3 DEF After
<1>w. \A T \in SUBSET (1 .. writes) : ~Whole(T, Owed, writes)'
  BY <1>0, <1>1, <1>4, WholeBefore DEF Whole
<1>9. Shows'
  <2>1. ~Whole(seen, Owed, writes)'
    <3>1. PICK T \in SUBSET (1 .. writes) : T = seen'
      BY <1>0, <1>1
    <3> QED  BY <1>w, <3>1 DEF Whole
  <2> QED  BY <2>1 DEF Shows
<1>10. Replies'
  <2> SUFFICES ASSUME NEW d \in Slots, Brings(call[d])'
               PROVE  ~Whole(1 .. call[d].upto, Owed, writes)'
    BY DEF Replies
  <2>1. call'[d] = call[d] /\ call[d].upto \in 1 .. writes
    BY <1>0, <1>1 DEF Posted, Brings, Told1, Asks
  <2>2. PICK T \in SUBSET (1 .. writes) : T = 1 .. call'[d].upto
    BY <1>0, <2>1
  <2> QED  BY <1>w, <2>2 DEF Whole
<1>11. Switch'
  BY <1>0, <1>1, <1>2, ListsAssumption DEF Exact, Switch
<1> QED  BY <1>5, <1>6, <1>7, <1>8, <1>9, <1>10, <1>11 DEF Exact

(* A request that changes nothing is answered with the rows as they are.   *)
LEMMA LoadExact ==
  ASSUME ListsAssumption, ListsInv, Exact, Patched, NEW c \in Slots, ServeLoad(c), Keep
  PROVE  Exact'
<1>0. /\ call \in [Slots -> Calls] /\ writes \in Nat /\ writes >= 1 /\ Orderly
      /\ seen \subseteq 1 .. writes /\ call[c].at = "out" /\ call[c].op \in Reads
      /\ \A d \in Slots : Posted(call[d])
  BY DEF ListsInv, Placed, Past, Exact, Orderly, ServeLoad, Out, Reads
<1> DEFINE rep == IF call[c].op = "sum" THEN None ELSE Listing
           y == [call[c] EXCEPT !.at = "back", !.ok = TRUE, !.upto = writes, !.reply = rep]
<1>1. /\ UNCHANGED <<kind, mayEdit, rows, writes, view, shown, seen>> /\ Answer(c, y)
  BY DEF ServeLoad, Keep, page
<1>r. rep \in Lists \cup {None}
  BY ListingListed DEF ListsInv
<1>y. y \in Calls
  <2>1. call[c] \in Calls /\ writes \in Nat
    BY <1>0
  <2> HIDE DEF rep
  <2> QED  BY <1>r, <2>1 DEF Calls
<1>x. PICK x \in Calls : x = y
  BY <1>y
<1>2. /\ x.at = "back" /\ x.ok /\ x.by = call[c].by /\ x.op = call[c].op
      /\ x.item = call[c].item /\ x.val = call[c].val /\ x.kept = call[c].kept
      /\ x.crossed = call[c].crossed /\ x.upto = writes /\ x.wrote = call[c].wrote
      /\ x.op # "sum" => x.reply = Listing
  BY <1>0, <1>x DEF Calls
<1>3. Answer(c, x)
  BY <1>1, <1>x
<1> HIDE DEF y, rep
<1>4. call'[c] = x /\ (\A d \in Slots : d # c => call'[d] = call[d]) /\ Listing' = Listing
  BY <1>0, <1>1, <1>3 DEF Answer, Listing
<1>5. /\ ~Owes(x) /\ ~Owes(call[c]) /\ Asks(x) /\ Asks(call[c]) /\ x.wrote = 0
      /\ ~Brings(call[c]) /\ (Brings(x) => x.reply = Listing)
  BY <1>0, <1>2 DEF Owes, Told1, Brings, Asks, Reads, Posted
<1>6. /\ Owed \subseteq 1 .. writes /\ Owed' = Owed
      /\ \A d \in Slots : d # c => (Owes(call[d])' <=> Owes(call[d]))
                                   /\ (Brings(call[d])' <=> Brings(call[d]))
  BY <1>0, <1>1, <1>3, <1>4, <1>5, OwedIs DEF Owes, Told1, Brings, Patched, Rowed
<1>7. Orderly'
  <2>1. Posted(x)'
    <3>1. writes \in 1 .. writes
      BY <1>0
    <3> QED  BY <1>0, <1>1, <1>2, <1>5, <3>1 DEF Posted, Asks, Told1, Reads, Rowed
  <2> QED  BY <1>0, <1>1, <1>2, <1>3, <1>5, <2>1, OrderlyAfter
<1>8. \A d \in Slots : Standing(call[d])'
  BY <1>1, <1>4, <1>5, <1>6 DEF Exact, Standing, Rowed, Owes
<1>9. Unmade'
  <2> SUFFICES ASSUME Rowed, NEW i \in Items, rows[i] = None PROVE Void(i)'
    BY <1>1 DEF Unmade, Rowed
  <2>1. Void(i) /\ Listing[i] = <<>>
    BY ListsAssumption DEF Exact, Unmade, Listing, Rowed
  <2> QED  BY <1>1, <1>2, <1>4, <1>5, <1>6, <2>1 DEF Void, Lacks, Asks
<1>10. Adds'
  <2> SUFFICES ASSUME Rowed, NEW d \in Slots, Owes(call[d])', call'[d].op = "add"
               PROVE  (Made(d) \/ After(call[d].wrote, seen, Owed, writes))'
    BY <1>1 DEF Adds, Rowed
  <2>1. /\ d # c /\ call'[d] = call[d] /\ Owes(call[d]) /\ call[d].wrote \in 2 .. writes
        /\ call[d].item \in Items
    BY <1>0, <1>4, <1>5, <1>6 DEF Owes, Told1, Asks, Posted, Reads, ListsInv, Sound
  <2>2. CASE After(call[d].wrote, seen, Owed, writes)
    BY <1>1, <1>6, <2>1, <2>2 DEF After
  <2>3. CASE Made(d)
    <3>1. \A e \in Slots \ {d} : Asks(call'[e]) =>
            /\ Lacks(call[e], call[d].item)'
            /\ Brings(call[e])' /\ call'[e].upto < call[d].wrote =>
                 call'[e].reply[call[d].item] = <<>>
      BY <1>0, <1>1, <1>2, <1>4, <1>5, <1>6, <2>1, <2>3 DEF Made, Lacks, Asks
    <3> QED  BY <1>1, <2>1, <2>3, <3>1 DEF Made, Asks
  <2> QED  BY <2>1, <2>2, <2>3 DEF Exact, Adds
<1>w. \A S : Whole(S, Owed, writes)' <=> Whole(S, Owed, writes)
  BY <1>1, <1>6 DEF Whole
<1>11. Shows'
  <2> SUFFICES ASSUME Whole(seen, Owed, writes)
               PROVE  /\ \A i \in Items : Right(i)'
                      /\ \A d \in Slots : /\ Asks(call'[d]) /\ call'[d].item \in Items
                                          /\ call'[d].item \notin call'[d].crossed
                                          => Tells(call[d])'
    BY <1>1, <1>6 DEF Shows, Asks, Whole
  <2>1. ASSUME NEW i \in Items PROVE Right(i)'
    <3>1. ASSUME NEW d \in Slots, Asks(call[d]), Excuses(call[d], i)
          PROVE  Asks(call'[d]) /\ Excuses(call[d], i)'
      <4>1. d # c
        BY <1>0, <1>5, <3>1 DEF Excuses, Reads
      <4> QED  BY <1>1, <1>4, <1>6, <3>1, <4>1 DEF Excuses
    <3> QED  BY <1>1, <1>4, <3>1 DEF Exact, Shows, Right, Asks
  <2>2. ASSUME NEW d \in Slots, Asks(call'[d]), call'[d].item \in Items,
               call'[d].item \notin call'[d].crossed
        PROVE  Tells(call[d])'
    <3>1. CASE d = c
      BY <1>0, <1>2, <1>4, <1>5, <3>1 DEF Tells, Reads, Owes
    <3>2. CASE d # c
      <4>1. Tells(call[d])
        BY <1>4, <2>2, <3>2 DEF Exact, Shows
      <4> QED  BY <1>1, <1>4, <1>6, <3>2, <4>1 DEF Tells, Wants
    <3> QED  BY <3>1, <3>2
  <2> QED  BY <2>1, <2>2
<1>12. Replies'
  <2> SUFFICES ASSUME NEW d \in Slots, Brings(call[d])', Whole(1 .. call'[d].upto, Owed, writes),
                      NEW i \in Items
               PROVE  \/ call'[d].reply[i] = Listing'[i]
                      \/ \E e \in Slots : /\ Owes(call[e])' /\ call'[e].item = i
                                          /\ call'[e].op \in {"add", "set", "remove"}
                                          /\ call'[e].wrote > call'[d].upto
    BY <1>1, <1>6 DEF Replies, Whole
  <2>1. CASE d = c
    BY <1>1, <1>4, <1>5, <2>1 DEF Brings, Told1
  <2>2. CASE d # c
    <3>1. call'[d] = call[d] /\ Brings(call[d])
      BY <1>4, <1>6, <2>2
    <3>2. CASE call[d].reply[i] = Listing[i]
      BY <1>4, <3>1, <3>2
    <3>3. ASSUME NEW e \in Slots, Owes(call[e]), call[e].item = i, call[e].wrote > call[d].upto,
                 call[e].op \in {"add", "set", "remove"}
          PROVE  /\ Owes(call[e])' /\ call'[e].item = i /\ call'[e].wrote > call'[d].upto
                 /\ call'[e].op \in {"add", "set", "remove"}
      BY <1>4, <1>5, <1>6, <3>1, <3>3
    <3> QED  BY <3>1, <3>2, <3>3 DEF Exact, Replies
  <2> QED  BY <2>1, <2>2
<1>13. Switch'
  BY <1>1 DEF Exact, Switch
<1> QED  BY <1>7, <1>8, <1>9, <1>10, <1>11, <1>12, <1>13 DEF Exact

LEMMA ServeExact ==
  ASSUME ListsAssumption, ListsInv, Exact, Patched, NEW c \in Slots, Serve(c)
  PROVE  Exact'
<1>0. /\ call \in [Slots -> Calls] /\ call[c] \in Calls /\ writes \in Nat /\ Orderly /\ Keep
      /\ rows \in [Items -> Values \cup {None, "gone"}]
      /\ Sound(call[c]) /\ Posted(call[c]) /\ Link \in Items
  BY ListsAssumption DEF ListsInv, Placed, Exact, Orderly, Serve
<1>e. "a" \in Values /\ "a" \notin {"gone"} /\ "gone" \notin Values
  BY DEF Values
<1>1. CASE ServeAdd(c)
  <2>1. PICK i \in Items :
       /\ IF kind = "share" THEN i = Link ELSE rows[i] = None
       /\ rows' = [rows EXCEPT ![i] = "a"] /\ writes' = writes + 1
       /\ Answer(c, [call[c] EXCEPT !.at = "back", !.ok = TRUE, !.item = i, !.val = "a",
                                    !.wrote = writes', !.upto = writes'])
    BY <1>1 DEF ServeAdd
  <2> DEFINE y == [call[c] EXCEPT !.at = "back", !.ok = TRUE, !.item = i, !.val = "a",
                                  !.wrote = writes + 1, !.upto = writes + 1]
  <2>2. y \in Calls
    <3>1. writes + 1 \in Nat
      BY <1>0
    <3> QED  BY <1>0, <1>e, <3>1 DEF Calls
  <2>3. PICK x \in Calls : x = y
    BY <2>2
  <2>4. /\ x.at = "back" /\ x.ok /\ x.by = call[c].by /\ x.op = call[c].op /\ x.item = i
        /\ x.val = "a" /\ x.kept = call[c].kept /\ x.crossed = call[c].crossed
        /\ x.wrote = writes + 1 /\ x.upto = writes + 1
    BY <1>0, <2>3 DEF Calls
  <2>5. Answer(c, x) /\ call[c].at = "out" /\ call[c].op = "add"
    BY <1>1, <2>1, <2>3 DEF Answer, ServeAdd, Out
  <2>6. /\ rows' \in [Items -> Values \cup {None, "gone"}] /\ rows'[i] = "a"
        /\ \A j \in Items : j # i => rows'[j] = rows[j]
    BY <1>0, <1>e, <2>1
  <2> HIDE DEF y
  <2> QED  BY <1>0, <2>1, <2>4, <2>5, <2>6, CommitExact
<1>2. ASSUME NEW r \in [Items -> Values \cup {None, "gone"}], Commit(c, r), call[c].at = "out",
             call[c].op \in {"set", "remove", "settings"},
             \A j \in Items : j # call[c].item => r[j] = rows[j],
             call[c].op = "set" => r[call[c].item] = call[c].val,
             call[c].op = "remove" => r[call[c].item] = "gone",
             Rowed /\ call[c].op \in {"set", "remove"} => rows[call[c].item] \in Values
      PROVE  Exact'
  <2> DEFINE y == [call[c] EXCEPT !.at = "back", !.ok = TRUE, !.wrote = writes + 1,
                                  !.upto = writes + 1]
  <2>1. rows' = r /\ writes' = writes + 1
    BY <1>2 DEF Commit
  <2>2. y \in Calls
    <3>1. writes + 1 \in Nat
      BY <1>0
    <3> QED  BY <1>0, <3>1 DEF Calls
  <2>3. PICK x \in Calls : x = y
    BY <2>2
  <2>4. /\ x.at = "back" /\ x.ok /\ x.by = call[c].by /\ x.op = call[c].op /\ x.item = call[c].item
        /\ x.val = call[c].val /\ x.kept = call[c].kept /\ x.crossed = call[c].crossed
        /\ x.wrote = writes + 1 /\ x.upto = writes + 1
    BY <1>0, <2>3 DEF Calls
  <2>5. Answer(c, x)
    BY <1>2, <2>1, <2>3 DEF Answer, Commit
  <2> HIDE DEF y
  <2>6. /\ x.op = "set" => x.item \in Items /\ x.val \in Values
        /\ x.op = "remove" => x.item \in Items
    BY <1>0, <1>2, <2>4 DEF Sound, Asks
  <2> QED  BY <1>0, <1>2, <2>1, <2>4, <2>5, <2>6, CommitExact
<1>3. CASE ServeSet(c)
  <2>1. /\ call[c].at = "out" /\ call[c].op = "set" /\ rows[call[c].item] \in Values
        /\ Commit(c, [rows EXCEPT ![call[c].item] = call[c].val])
        /\ call[c].item \in Items /\ call[c].val \in Values
    BY <1>0, <1>3 DEF ServeSet, Out, Sound, Asks
  <2>2. PICK r \in [Items -> Values \cup {None, "gone"}] :
          r = [rows EXCEPT ![call[c].item] = call[c].val]
    BY <1>0, <2>1
  <2>3. /\ r[call[c].item] = call[c].val /\ \A j \in Items : j # call[c].item => r[j] = rows[j]
        /\ Commit(c, r)
    BY <1>0, <2>1, <2>2
  <2> QED  BY <1>2, <2>1, <2>3
<1>4. CASE ServeRemove(c)
  <2>1. /\ call[c].at = "out" /\ call[c].op = "remove"
        /\ rows[call[c].item] \in Values \/ kind \in {"share", "comments"}
        /\ Commit(c, [rows EXCEPT ![call[c].item] = "gone"])
        /\ call[c].item \in Items
    BY <1>0, <1>4 DEF ServeRemove, Repeatable, Out, Sound, Asks
  <2>2. PICK r \in [Items -> Values \cup {None, "gone"}] :
          r = [rows EXCEPT ![call[c].item] = "gone"]
    BY <1>0, <2>1
  <2>3. /\ r[call[c].item] = "gone" /\ \A j \in Items : j # call[c].item => r[j] = rows[j]
        /\ Commit(c, r)
    BY <1>0, <2>1, <2>2
  <2> QED  BY <1>2, <2>1, <2>3 DEF Rowed
<1>5. CASE ServeSettings(c)
  BY <1>0, <1>2, <1>5 DEF ServeSettings, Out
<1>6. CASE ServeMissing(c)
  BY <1>0, <1>6, FailExact DEF ServeMissing, Out, Asks
<1> QED
  BY <1>0, <1>1, <1>3, <1>4, <1>5, <1>6, TemplateExact, LoadExact DEF Serve

LEMMA LostExact ==
  ASSUME ListsInv, Exact, Patched, NEW c \in Slots, Lost(c)
  PROVE  Exact'
BY FailExact DEF Lost, Asks

-----------------------------------------------------------------------------
(* A row that no call is about and that is on the page is shown as it is.  *)
LEMMA ShownRight ==
  ASSUME Exact, Patched, Whole(seen, Owed, writes), NEW i \in Items, shown[i] # <<>>,
         \A e \in Slots : Asks(call[e]) => i \notin Marks(call[e].op, call[e].item) \/ i = None
  PROVE  i # None => shown[i] = Listing[i] /\ shown[i] = <<rows[i]>>
<1> SUFFICES ASSUME i # None PROVE shown[i] = Listing[i] /\ shown[i] = <<rows[i]>>
  OBVIOUS
<1>1. ASSUME NEW e \in Slots, Asks(call[e]) PROVE ~Excuses(call[e], i)
  <2>1. i \notin Marks(call[e].op, call[e].item)
    BY <1>1
  <2> QED  BY <2>1 DEF Excuses, Marks
<1>2. shown[i] = Listing[i]
  BY <1>1 DEF Exact, Shows, Right
<1> QED  BY <1>2 DEF Listing

(* A click, which shows the change at once where the page does.            *)
LEMMA StartExact ==
  ASSUME ListsAssumption, ListsInv, Exact, Patched,
         NEW by, NEW op \in Edits, NEW i \in Items \cup {None}, NEW v \in Values \cup {None},
         NEW kept, by \in Handlers \ {"open"}, kept \in Lists \cup {None},
         Start(by, op, i, v, kept), UNCHANGED <<server, view, seen>>,
         op = "template" => kind = "packing",
         op = "settings" => kind = "budget",
         op \in {"add", "template", "settings"} /\ Rowed => i = None,
         kind = "share" => /\ op \in {"add", "remove", "set"}
                           /\ i = IF op = "set" THEN Recap ELSE Link,
         kind = "share" /\ op = "set" => by # "link",
         op \in {"set", "remove"} => i \in Items,
         op \in {"set", "remove"} /\ Rowed => shown[i] # <<>>,
         IF kind = "packing" /\ op \in {"set", "remove"}
         THEN kept = shown /\ shown' = IF op = "set" THEN Set(i, v) ELSE Drop(i)
         ELSE IF kind = "share" /\ op = "set"
         THEN v = Flip(Head(shown[i])) /\ shown' = Set(i, v)
         ELSE shown' = shown
  PROVE  Exact'
<1>1. PICK c \in Slots :
       /\ Free(c)
       /\ call' = [d \in Slots |->
            IF d = c THEN [Asked(by, op, i, v) EXCEPT
              !.kept = kept,
              !.crossed = UNION {Marks(call[e].op, call[e].item) : e \in {e \in Slots : ~Free(e)}}]
            ELSE IF Free(d) THEN call[d]
            ELSE [call[d] EXCEPT !.crossed = @ \cup Marks(op, i)]]
  BY DEF Start
<1> DEFINE M == UNION {Marks(call[e].op, call[e].item) : e \in {e \in Slots : ~Free(e)}}
           y == [Asked(by, op, i, v) EXCEPT !.kept = kept, !.crossed = M]
<1>0. /\ call \in [Slots -> Calls] /\ view = "ready" /\ writes \in Nat /\ writes >= 1 /\ Orderly
      /\ UNCHANGED <<kind, mayEdit, rows, writes, view, seen>> /\ Listing' = Listing
      /\ shown \in Lists
  BY DEF ListsInv, Placed, Start, Offered, server, Exact, Orderly, Listing
<1>m. \A d \in Slots : Asks(call[d]) => Marks(call[d].op, call[d].item) \subseteq M
  BY DEF Asks, Free
<1> HIDE DEF M
<1>x. PICK x \in {y} : TRUE
  OBVIOUS
<1>2. /\ x.at = "out" /\ x.by = by /\ x.op = op /\ x.item = i /\ x.val = v
      /\ x.kept = kept /\ x.crossed = M /\ x.wrote = 0 /\ x.upto = 0
  BY <1>x DEF Asked, NoCall
<1>3. call'[c] = x /\ ~Asks(call[c])
  BY <1>1, <1>x DEF M, Free, Asks
<1> HIDE DEF y
<1>4. ASSUME NEW d \in Slots, d # c
      PROVE  /\ call'[d].at = call[d].at /\ call'[d].by = call[d].by /\ call'[d].op = call[d].op
             /\ call'[d].item = call[d].item /\ call'[d].val = call[d].val
             /\ call'[d].kept = call[d].kept /\ call'[d].ok = call[d].ok
             /\ call'[d].reply = call[d].reply /\ call'[d].upto = call[d].upto
             /\ call'[d].wrote = call[d].wrote
             /\ Asks(call[d]) => call'[d].crossed = call[d].crossed \cup Marks(op, i)
             /\ call[d].crossed \subseteq call'[d].crossed
  <2>1. CASE Free(d)
    BY <1>1, <1>4, <2>1 DEF Free, Asks
  <2>2. CASE ~Free(d)
    <3>1. call'[d] = [call[d] EXCEPT !.crossed = @ \cup Marks(op, i)]
      BY <1>1, <1>4, <2>2
    <3> QED  BY <1>0, <3>1 DEF Calls
  <2> QED  BY <2>1, <2>2
<1>5. ~Owes(x) /\ ~Brings(x) /\ Asks(x) /\ ~Owes(call[c]) /\ ~Brings(call[c])
  BY <1>2, <1>3 DEF Owes, Told1, Brings, Asks
<1>6. ASSUME NEW d \in Slots, d # c
      PROVE  /\ Asks(call[d])' <=> Asks(call[d])
             /\ Told1(call[d])' <=> Told1(call[d])
             /\ Owes(call[d])' <=> Owes(call[d])
             /\ Brings(call[d])' <=> Brings(call[d])
  BY <1>0, <1>4, <1>6 DEF Owes, Told1, Brings, Asks, Patched, Rowed
<1>7. /\ ~Owes(call[c])' /\ ~Brings(call[c])' /\ ~Told1(call[c])' /\ Asks(call[c])'
  BY <1>0, <1>2, <1>3 DEF Owes, Told1, Brings, Asks, Patched, Rowed
<1>8. Owed' = Owed
  <2>1. \A d \in Slots : /\ Owes(call[d])' <=> Owes(call[d])
                         /\ Owes(call[d]) => call'[d].wrote = call[d].wrote
    BY <1>4, <1>5, <1>6, <1>7
  <2>2. \A n : n \in Owed' <=> n \in 1 .. writes'
                                /\ \E d \in Slots : Owes(call[d])' /\ call'[d].wrote = n
    BY DEF Owed
  <2>3. \A n : n \in Owed <=> n \in 1 .. writes
                                /\ \E d \in Slots : Owes(call[d]) /\ call[d].wrote = n
    BY DEF Owed
  <2>4. \A n : n \in Owed' <=> n \in Owed
    BY <1>0, <2>1, <2>2, <2>3
  <2> QED  BY <2>4
<1>k. /\ op = "template" => Marks(op, i) = Items \cup {New}
      /\ op = "add" => New \in Marks(op, i)
      /\ i \in Items => i \in Marks(op, i)
  BY ListsAssumption DEF Marks
<1>9. Orderly'
  <2>1. ASSUME NEW d \in Slots PROVE Posted(call[d])'
    <3>1. CASE d = c
      BY <1>0, <1>2, <1>3, <1>7, <3>1 DEF Posted, Edits, Patched, Rowed
    <3>2. CASE d # c
      BY <1>0, <1>4, <1>6, <3>2 DEF Orderly, Posted, Rowed
    <3> QED  BY <3>1, <3>2
  <2>2. ASSUME NEW d \in Slots, NEW e \in Slots, d # e, Asks(call'[d]), Asks(call'[e])
        PROVE  Apart(call[d], call[e])'
    <3>1. CASE d # c /\ e # c
      <4>1. Apart(call[d], call[e])
        BY <1>0, <1>6, <2>2, <3>1 DEF Orderly, Asks
      <4> QED  BY <1>0, <1>4, <3>1, <4>1 DEF Apart, Crosses, Patched, Rowed
    <3>2. CASE d = c
      <4>1. call'[e].crossed = call[e].crossed \cup Marks(op, i)
        BY <1>4, <1>6, <2>2, <3>2 DEF Asks
      <4> QED  BY <1>0, <1>2, <1>3, <1>k, <3>2, <4>1 DEF Apart, Crosses, Patched, Rowed
    <3>3. CASE e = c
      <4>1. /\ Marks(call[d].op, call[d].item) \subseteq M
            /\ Posted(call[d]) /\ Sound(call[d]) /\ Asks(call[d])
        BY <1>0, <1>m, <1>6, <2>2, <3>3 DEF Orderly, Asks, ListsInv
      <4>2. /\ call[d].op = "template" => Items \cup {New} \subseteq M
            /\ call[d].op = "add" => New \in M
            /\ call[d].item \in Items => call[d].item \in M
        BY <4>1, ListsAssumption DEF Marks
      <4>3. call[d].op \in {"set", "remove"} \/ kind = "share" => call[d].item \in Items
        BY <4>1, ListsAssumption DEF Posted, Sound
      <4> QED  BY <1>0, <1>2, <1>3, <1>4, <3>3, <2>2, <4>2, <4>3 DEF Apart, Crosses, Patched, Rowed
    <3> QED  BY <3>1, <3>2, <3>3
  <2> QED  BY <1>0, <2>1, <2>2 DEF Orderly, Asks
<1>10. \A d \in Slots : Standing(call[d])'
  <2> SUFFICES ASSUME NEW d \in Slots, Owes(call[d])' PROVE Standing(call[d])'
    BY DEF Standing
  <2>1. d # c /\ Owes(call[d]) /\ Standing(call[d])
    BY <1>6, <1>7 DEF Exact
  <2> QED  BY <1>0, <1>4, <2>1 DEF Standing, Rowed
<1>11. \A j \in Items : j # i => shown'[j] = shown[j]
  <2>1. shown = [j \in Items |-> shown[j]]
    BY <1>0 DEF Lists
  <2> QED  BY <2>1 DEF Set, Drop
<1>12. ASSUME Rowed, NEW j \in Items, shown[j] = <<>>
       PROVE  i # j /\ shown'[j] = <<>> /\ Lacks(call[c], j)'
  <2>1. i # j
    BY <1>12, ListsAssumption DEF Edits
  <2> QED  BY <1>0, <1>2, <1>3, <1>11, <1>12, <2>1 DEF Lacks
<1>13. Unmade'
  <2> SUFFICES ASSUME Rowed, NEW j \in Items, rows[j] = None PROVE Void(j)'
    BY <1>0 DEF Unmade, Rowed
  <2>1. Void(j)
    BY DEF Exact, Unmade
  <2>2. shown'[j] = <<>> /\ Lacks(call[c], j)'
    BY <1>12, <2>1 DEF Void
  <2> QED  BY <1>0, <1>4, <1>6, <1>7, <2>1, <2>2 DEF Void, Lacks, Asks
<1>14. Adds'
  <2> SUFFICES ASSUME Rowed, NEW d \in Slots, Owes(call[d])', call'[d].op = "add"
               PROVE  (Made(d) \/ After(call[d].wrote, seen, Owed, writes))'
    BY <1>0 DEF Adds, Rowed
  <2>1. d # c /\ Owes(call[d]) /\ call[d].op = "add" /\ call[d].item \in Items
    BY <1>4, <1>6, <1>7 DEF ListsInv, Sound, Asks, Owes, Told1
  <2>2. CASE After(call[d].wrote, seen, Owed, writes)
    BY <1>0, <1>4, <1>8, <2>1, <2>2 DEF After
  <2>3. CASE Made(d)
    <3>1. shown'[call[d].item] = <<>> /\ Lacks(call[c], call[d].item)'
      BY <1>4, <1>12, <2>1, <2>3 DEF Made, Lacks
    <3>2. \A e \in Slots \ {d} : Asks(call'[e]) =>
            /\ Lacks(call[e], call[d].item)'
            /\ Brings(call[e])' /\ call'[e].upto < call[d].wrote =>
                 call'[e].reply[call[d].item] = <<>>
      BY <1>0, <1>4, <1>6, <1>7, <2>1, <2>3, <3>1 DEF Made, Lacks, Asks
    <3> QED  BY <1>0, <1>4, <2>1, <2>3, <3>1, <3>2 DEF Made, Lacks, Asks
  <2> QED  BY <2>1, <2>2, <2>3 DEF Exact, Adds

<1>w. \A S : Whole(S, Owed, writes)' <=> Whole(S, Owed, writes)
  BY <1>0, <1>8 DEF Whole
<1>15. Shows'
  <2> SUFFICES ASSUME Whole(seen, Owed, writes)
               PROVE  /\ \A j \in Items : Right(j)'
                      /\ \A d \in Slots : /\ Asks(call'[d]) /\ call'[d].item \in Items
                                          /\ call'[d].item \notin call'[d].crossed
                                          => Tells(call[d])'
    BY <1>0, <1>8 DEF Shows, Asks, Whole
  <2>1. ASSUME NEW j \in Items PROVE Right(j)'
    <3>1. CASE shown'[j] = shown[j]
      <4>1. ASSUME NEW d \in Slots, Asks(call[d]), Excuses(call[d], j)
            PROVE  Asks(call'[d]) /\ Excuses(call[d], j)'
        <5>1. d # c
          BY <1>3, <4>1
        <5> QED  BY <1>0, <1>4, <1>6, <4>1, <5>1 DEF Excuses, Asks
      <4> QED  BY <1>0, <3>1, <4>1 DEF Exact, Shows, Right, Asks
    <3>2. CASE shown'[j] # shown[j]
      <4>1. Excuses(call[c], j)' /\ Asks(call[c])'
        BY <1>0, <1>2, <1>3, <1>7, <1>11, <3>2 DEF Excuses
      <4> QED  BY <4>1 DEF Right
    <3> QED  BY <3>1, <3>2
  <2>2. ASSUME NEW d \in Slots, Asks(call'[d]), call'[d].item \in Items,
               call'[d].item \notin call'[d].crossed
        PROVE  Tells(call[d])'
    <3>1. CASE d # c
      <4>1. Asks(call[d]) /\ call'[d].crossed = call[d].crossed \cup Marks(op, i)
        BY <1>4, <1>6, <2>2, <3>1 DEF Asks
      <4>2. Tells(call[d]) /\ call[d].item # i
        BY <1>4, <1>k, <2>2, <3>1, <4>1 DEF Exact, Shows
      <4>3. shown'[call[d].item] = shown[call[d].item]
        BY <1>4, <1>11, <2>2, <3>1, <4>2
      <4>4. kind = "packing" => call'[d].crossed # {}
        BY <1>k, <4>1 DEF Edits
      <4> QED  BY <1>0, <1>4, <1>6, <3>1, <4>2, <4>3, <4>4 DEF Tells, Wants
    <3>2. CASE d = c
      <4>1. /\ i \in Items /\ i \notin M
            /\ \A e \in Slots : Asks(call[e]) => i \notin Marks(call[e].op, call[e].item)
        BY <1>2, <1>3, <1>m, <2>2, <3>2
      <4>2. shown[i] # <<>> => shown[i] = Listing[i] /\ shown[i] = <<rows[i]>>
        BY <4>1, ShownRight, ListsAssumption
      <4>3. shown[i] # <<>> => Set(i, v)[i] = <<v>> /\ DOMAIN shown[i] = {1}
        <5>1. i \in DOMAIN shown
          BY <1>0, <4>1 DEF Lists
        <5> QED  BY <4>1, <4>2, <5>1 DEF Set
      <4>4. Drop(i)[i] = <<>> /\ \A j \in Items : j # i => Drop(i)[j] = shown[j]
        <5>1. shown = [j \in Items |-> shown[j]]
          BY <1>0 DEF Lists
        <5> QED  BY <4>1, <5>1 DEF Drop
      <4>5. kind = "share" /\ op = "set" =>
              shown[i] # <<>> /\ Listing[i] = <<Flip(v)>>
        <5>1. ASSUME kind = "share", op = "set" PROVE rows[i] \in Values
          BY <5>1 DEF Exact, Switch
        <5>2. ASSUME kind = "share", op = "set" PROVE Listing[i] = <<rows[i]>>
          BY <4>1, <5>1, <5>2 DEF Listing
        <5>3. ASSUME kind = "share", op = "set" PROVE shown[i] = Listing[i]
          <6>1. \A e \in Slots : Asks(call[e]) => ~Excuses(call[e], i)
            BY <4>1 DEF Excuses, Marks
          <6> QED  BY <4>1, <6>1 DEF Exact, Shows, Right
        <5>4. ASSUME kind = "share", op = "set" PROVE Flip(v) = rows[i]
          BY <5>1, <5>2, <5>3, <5>4 DEF Flip, Values
        <5> QED  BY <5>2, <5>3, <5>4
      <4>6. Tells(x)'
        BY <1>0, <1>2, <1>5, <4>1, <4>2, <4>3, <4>4, <4>5 DEF Tells, Wants, Owes, Told1, Rowed
      <4> QED  BY <1>3, <3>2, <4>6 DEF Tells, Wants, Owes, Told1, Patched, Rowed
    <3> QED  BY <3>1, <3>2
  <2> QED  BY <2>1, <2>2
<1>16. Replies'
  <2> SUFFICES ASSUME NEW d \in Slots, Brings(call[d])', Whole(1 .. call'[d].upto, Owed, writes),
                      NEW j \in Items
               PROVE  \/ call'[d].reply[j] = Listing'[j]
                      \/ \E e \in Slots : /\ Owes(call[e])' /\ call'[e].item = j
                                          /\ call'[e].op \in {"add", "set", "remove"}
                                          /\ call'[e].wrote > call'[d].upto
    BY <1>0, <1>8 DEF Replies, Whole
  <2>1. /\ d # c /\ Brings(call[d]) /\ call'[d].upto = call[d].upto
        /\ call'[d].reply = call[d].reply
    BY <1>4, <1>6, <1>7
  <2>2. ASSUME NEW e \in Slots, Owes(call[e]), call[e].item = j, call[e].wrote > call[d].upto,
               call[e].op \in {"add", "set", "remove"}
        PROVE  /\ Owes(call[e])' /\ call'[e].item = j /\ call'[e].wrote > call'[d].upto
               /\ call'[e].op \in {"add", "set", "remove"}
    BY <1>4, <1>5, <1>6, <2>1, <2>2
  <2> QED  BY <1>0, <2>1, <2>2 DEF Exact, Replies
<1>17. Switch'
  BY <1>0 DEF Exact, Switch
<1> QED  BY <1>9, <1>10, <1>13, <1>14, <1>15, <1>16, <1>17 DEF Exact

(* A reopened dialog owes nothing, and shows the rows if they are as the   *)
(* page's trip has them.                                                   *)
LEMMA ReopenExact ==
  ASSUME ListsAssumption, ListsInv, CopyInv, Exact, ReopenShare
  PROVE  Exact'
<1>1. PICK open \in Slots :
       call' = [c \in Slots |-> IF c = open /\ copy.shown[Link] # <<>>
                               THEN Asked("open", "add", Link, None) ELSE NoCall]
  BY DEF ReopenShare
<1>2. /\ kind = "share" /\ shown' = copy.shown /\ seen' = copy.seen
      /\ UNCHANGED <<kind, mayEdit, rows, writes, view>> /\ Listing' = Listing
      /\ Link \in Items /\ Recap \in Items \ {Link}
  BY ListsAssumption DEF ReopenShare, server, Listing
<1>3. \A y : y = NoCall => ~Asks(y)
  BY NoCallSound
<1>4. \A y : y = Asked("open", "add", Link, None) =>
        /\ y.at = "out" /\ y.op = "add" /\ y.item = Link /\ y.wrote = 0 /\ y.by = "open"
  BY DEF Asked, NoCall
<1>5. \A d \in Slots : Asks(call'[d]) =>
        /\ d = open /\ call'[d].at = "out" /\ call'[d].wrote = 0 /\ call'[d].op = "add"
        /\ call'[d].item = Link /\ call'[d].by = "open" /\ copy.shown[Link] # <<>>
  BY <1>1, <1>3, <1>4
<1>6. \A d \in Slots : ~Owes(call[d])' /\ ~Brings(call[d])' /\ ~(Asks(call[d]) /\ Told1(call[d]))'
  BY <1>5 DEF Owes, Brings, Told1, Asks
<1>7. Orderly'
  <2>1. \A d \in Slots : Posted(call[d])'
    BY <1>2, <1>5, <1>6 DEF Posted, Rowed, Reads, Asks
  <2>2. \A d, e \in Slots : d # e => ~(Asks(call'[d]) /\ Asks(call'[e]))
    BY <1>5
  <2>3. writes' >= 1
    BY <1>2 DEF Exact, Orderly
  <2> QED  BY <2>1, <2>2, <2>3 DEF Orderly, Asks
<1>8. \A d \in Slots : Standing(call[d])'
  BY <1>6 DEF Standing
<1>9. Unmade' /\ Adds' /\ Replies' /\ Switch'
  BY <1>2, <1>6 DEF Unmade, Adds, Replies, Rowed, Exact, Switch
<1>10. Shows'
  <2>1. Owed' = {}
    BY <1>6 DEF Owed
  <2> SUFFICES ASSUME Whole(seen', {}, writes')
               PROVE  /\ \A i \in Items : Right(i)'
                      /\ \A d \in Slots : (Asks(call[d]) => Tells(call[d]))'
    BY <2>1 DEF Shows, Whole, Asks
  <2>2. shown' = Listing'
    BY <1>2 DEF Whole, CopyInv
  <2>3. \A i \in Items : Listing[i] = <<>> \/ Listing[i] = <<rows[i]>>
    BY DEF Listing
  <2>4. ASSUME NEW d \in Slots, Asks(call'[d]) PROVE Tells(call[d])'
    <3>1. copy.shown[Link] # <<>> /\ copy.shown = Listing
      BY <1>2, <1>5, <2>2, <2>4
    <3>2. Listing[Link] = <<"a">>
      BY <1>2, <3>1 DEF Listing, Exact, Switch, Values
    <3> QED  BY <1>2, <1>5, <1>6, <2>2, <2>4, <3>2 DEF Tells
  <2> QED  BY <2>2, <2>4 DEF Right, Asks
<1> QED  BY <1>7, <1>8, <1>9, <1>10 DEF Exact

LEMMA CopyReplacedExact ==
  ASSUME Exact, CopyReplaced
  PROVE  Exact'
<1>1. /\ UNCHANGED <<kind, mayEdit, rows, writes, view, shown, seen, call>> /\ Listing' = Listing
  BY DEF CopyReplaced, page, Listing
<1>2. \A d \in Slots : Owes(call[d])' = Owes(call[d]) /\ Brings(call[d])' = Brings(call[d])
  BY <1>1 DEF Owes, Brings, Told1, Patched, Rowed
<1>3. Owed' = Owed /\ (Patched' <=> Patched) /\ (Rowed' <=> Rowed)
  BY <1>1, <1>2 DEF Owed, Patched, Rowed
<1>4. Orderly'
  BY <1>1, <1>3 DEF Exact, Orderly, Posted, Apart, Crosses, Asks, Told1
<1>5. (\A d \in Slots : Standing(call[d])') /\ Unmade' /\ Adds' /\ Replies' /\ Switch'
  BY <1>1, <1>2, <1>3
     DEF Exact, Standing, Unmade, Void, Lacks, Adds, Made, After, Replies, Whole, Switch, Asks
<1>6. Shows'
  BY <1>1, <1>2, <1>3 DEF Exact, Shows, Whole, Right, Excuses, Tells, Wants, Asks
<1> QED  BY <1>4, <1>5, <1>6 DEF Exact

LEMMA UserExact ==
  ASSUME ListsAssumption, ListsInv, CopyInv, Exact, Patched, User
  PROVE  Exact'
<1>t. /\ shown \in Lists /\ Recap \in Items /\ Link \in Items
      /\ None \in Items \cup {None} /\ None \in Values \cup {None} /\ None \in Lists \cup {None}
      /\ \A h : Flip(h) \in Values \cup {None}
      /\ Handlers = {"open", "toggle", "remove", "add", "template", "amount", "settings", "send",
                     "edit", "role", "invite", "revoke", "leave", "link", "recap"}
      /\ Edits = {"set", "remove", "add", "template", "settings"}
      /\ kind \in {"packing", "budget", "share"}
  BY ListsAssumption, FlipValue DEF ListsInv, Placed, Handlers, Edits, Patched, Rowed
<1>s. \A i \in Shown(Items) : i \in Items /\ shown[i] # <<>>
  BY DEF Shown
<1>c. ASSUME NEW by \in Handlers \ {"open"}, NEW op \in Edits, NEW i \in Items \cup {None},
             NEW v \in Values \cup {None}, Click(by, op, i, v),
             op = "template" => kind = "packing",
             op = "settings" => kind = "budget",
             op \in {"add", "template", "settings"} /\ Rowed => i = None,
             kind = "share" => op \in {"add", "remove"} /\ i = Link,
             op \in {"set", "remove"} => i \in Items,
             op \in {"set", "remove"} /\ Rowed => shown[i] # <<>> /\ kind # "packing"
      PROVE  Exact'
  <2>1. Start(by, op, i, v, None) /\ UNCHANGED <<server, view, seen, shown>>
    BY <1>c DEF Click, page
  <2> QED  BY <1>c, <1>t, <2>1, StartExact DEF Rowed
<1>1. CASE Toggle
  <2>1. PICK i \in Shown(Items) :
          /\ Start("toggle", "set", i, Flip(Head(shown[i])), shown)
          /\ shown' = Set(i, Flip(Head(shown[i])))
    BY <1>1 DEF Toggle
  <2>2. kind = "packing" /\ UNCHANGED <<server, view, seen>>
    BY <1>1 DEF Toggle
  <2> QED  BY <1>t, <1>s, <2>1, <2>2, StartExact
<1>2. CASE RemoveItem
  <2>1. PICK i \in Shown(Items) : Start("remove", "remove", i, None, shown) /\ shown' = Drop(i)
    BY <1>2 DEF RemoveItem
  <2>2. kind = "packing" /\ UNCHANGED <<server, view, seen>>
    BY <1>2 DEF RemoveItem
  <2> QED  BY <1>t, <1>s, <2>1, <2>2, StartExact
<1>3. CASE AddItem \/ AddTemplate
  BY <1>c, <1>t, <1>3 DEF AddItem, AddTemplate
<1>4. CASE AddExpense \/ SaveSettings
  BY <1>c, <1>t, <1>4 DEF AddExpense, SaveSettings
<1>5. CASE UpdateAmount
  <2>1. PICK i \in Shown(Items) : Click("amount", "set", i, Flip(Head(shown[i])))
    BY <1>5 DEF UpdateAmount
  <2>2. kind = "budget"
    BY <1>5 DEF UpdateAmount
  <2> QED  BY <1>c, <1>t, <1>s, <2>1, <2>2
<1>6. CASE RemoveExpense
  <2>1. PICK i \in Shown(Items) : Click("remove", "remove", i, None)
    BY <1>6 DEF RemoveExpense
  <2>2. kind = "budget"
    BY <1>6 DEF RemoveExpense
  <2> QED  BY <1>c, <1>t, <1>s, <2>1, <2>2
<1>7. CASE HandleToggle
  <2>1. PICK op \in {"remove", "add"} : Click("link", op, Link, None)
    BY <1>7 DEF HandleToggle
  <2>2. kind = "share"
    BY <1>7 DEF HandleToggle
  <2> QED  BY <1>c, <1>t, <2>1, <2>2 DEF Rowed
<1>8. CASE RecapToggle
  <2>1. /\ kind = "share" /\ UNCHANGED <<server, view, seen>>
        /\ Start("recap", "set", Recap, Flip(Head(shown[Recap])), shown)
        /\ shown' = Set(Recap, Flip(Head(shown[Recap])))
    BY <1>8 DEF RecapToggle
  <2> QED  BY <1>t, <2>1, StartExact DEF Rowed
<1>9. CASE ReopenShare
  BY <1>9, ReopenExact
<1> QED
  BY <1>1, <1>2, <1>3, <1>4, <1>5, <1>6, <1>7, <1>8, <1>9, <1>t
     DEF User, SendComment, RemoveComment, Reopen, ChangeRole, RemoveMember, LeaveTrip,
         CreateInvite, Revoke

-----------------------------------------------------------------------------
(* The answers.                                                            *)

(* A page takes in the answer of a call about one row, or about none.      *)
LEMMA TakenExact ==
  ASSUME ListsAssumption, ListsInv, Exact, Patched, NEW c \in Slots, Asks(call[c]),
         ~Brings(call[c]), NEW x \in Calls, Answer(c, x), UNCHANGED <<server, view>>,
         Asks(x) => /\ kind = "budget" /\ x.op = "sum" /\ x.at = "out" /\ x.item = None
                    /\ x.wrote = 0 /\ x.crossed = call[c].crossed,
         seen' \in {{}, seen \cup ({call[c].wrote} \ {0})},
         \A j \in Items : Rowed /\ shown[j] = <<>> /\ Lacks(call[c], j) => shown'[j] = <<>>,
         seen' # {} /\ Whole(seen, Owed, writes) =>
           \/ shown' = shown /\ \A j \in Items : ~Excuses(call[c], j)
           \/ /\ call[c].op \in {"add", "set", "remove"} /\ call[c].item \in Items
              /\ \A j \in Items \ {call[c].item} : shown'[j] = shown[j]
              /\ shown'[call[c].item] = Listing[call[c].item]
              /\ Rowed /\ call[c].op = "add" =>
                   \A e \in Slots \ {c} : Asks(call[e]) => call[e].item # call[c].item
  PROVE  Exact'
<1>0. /\ call \in [Slots -> Calls] /\ writes \in Nat /\ Orderly /\ seen \subseteq 1 .. writes
      /\ \A d \in Slots : Posted(call[d]) /\ Sound(call[d])
  BY DEF ListsInv, Placed, Past, Exact, Orderly
<1>1. UNCHANGED <<kind, mayEdit, rows, writes, view>> /\ Listing' = Listing
  BY DEF server, Listing
<1>2. call'[c] = x /\ \A d \in Slots : d # c => call'[d] = call[d]
  BY <1>0 DEF Answer
<1>3. ~Owes(x) /\ ~Brings(x) /\ (Asks(x) => x.at = "out")
  BY DEF Owes, Told1, Brings, Asks
<1>4. /\ Owed \subseteq 1 .. writes /\ Owed' \subseteq Owed
      /\ Owes(call[c]) => /\ call[c].wrote \in Owed /\ call[c].wrote \notin Owed'
                         /\ Owed = Owed' \cup {call[c].wrote}
      /\ ~Owes(call[c]) => Owed' = Owed
      /\ \A d \in Slots : d # c => (Owes(call[d])' <=> Owes(call[d]))
                                   /\ (Brings(call[d])' <=> Brings(call[d]))
  BY <1>0, <1>1, <1>2, <1>3, OwedIs DEF Owes, Told1, Brings, Patched, Rowed
<1>5. /\ Owes(call[c]) => call[c].wrote \in 2 .. writes
      /\ ~Owes(call[c]) => call[c].wrote = 0
  <2>1. Posted(call[c])
    BY <1>0
  <2> QED  BY <2>1 DEF Posted, Owes, Brings, Told1, Asks, Reads, ListsInv, Calls, Edits
<1>6. \A m : m \in seen' => m \in seen \/ (Owes(call[c]) /\ m = call[c].wrote)
  BY <1>5
<1>7. \A d \in Slots : d # c /\ Owes(call[d]) => call[d].wrote # call[c].wrote
  BY <1>0, <1>5 DEF Orderly, Apart, Posted, Owes, Told1, Asks, Reads
<1>8. Orderly'
  <2>1. Posted(x)'
    BY <1>1 DEF Posted, Asks, Told1, Reads, Rowed
  <2> QED  BY <1>0, <1>1, <2>1, OrderlyAfter DEF Reads
<1>9. \A d \in Slots : Standing(call[d])'
  <2> SUFFICES ASSUME NEW d \in Slots, Owes(call[d])' PROVE Standing(call[d])'
    BY DEF Standing
  <2>1. d # c /\ call'[d] = call[d] /\ Owes(call[d]) /\ Standing(call[d])
    BY <1>1, <1>2, <1>3, <1>4 DEF Exact, Owes, Told1
  <2>2. call[d].wrote \in seen' => call[d].wrote \in seen
    BY <1>6, <1>7, <2>1
  <2> QED  BY <1>1, <2>1, <2>2 DEF Standing, Rowed
<1>10. Unmade'
  <2> SUFFICES ASSUME Rowed, NEW i \in Items, rows[i] = None PROVE Void(i)'
    BY <1>1 DEF Unmade, Rowed
  <2>1. Void(i) /\ shown'[i] = <<>>
    BY DEF Exact, Unmade, Void
  <2>2. Lacks(x, i)' \/ ~Asks(x)
    BY <1>1, ListsAssumption DEF Lacks, Rowed
  <2> QED  BY <1>1, <1>2, <1>3, <1>4, <2>1, <2>2 DEF Void, Lacks, Asks
<1>11. Adds'
  <2> SUFFICES ASSUME Rowed, NEW d \in Slots, Owes(call[d])', call'[d].op = "add"
               PROVE  (Made(d) \/ After(call[d].wrote, seen, Owed, writes))'
    BY <1>1 DEF Adds, Rowed
  <2>1. /\ d # c /\ call'[d] = call[d] /\ Owes(call[d]) /\ call[d].op = "add"
        /\ call[d].item \in Items
    BY <1>0, <1>1, <1>2, <1>3, <1>4 DEF Owes, Told1, Asks, Sound
  <2>2. CASE After(call[d].wrote, seen, Owed, writes)
    <3>1. PICK m \in 1 .. writes : /\ m > call[d].wrote /\ m \notin Owed
                                   /\ m \in seen => call[d].wrote \in seen
      BY <2>2 DEF After
    <3>2. m \notin Owed' /\ (m \in seen' => m \in seen)
      BY <1>4, <1>6, <3>1
    <3>3. m \in seen' => call[d].wrote \in seen'
      BY <3>1, <3>2
    <3> QED  BY <1>1, <2>1, <3>1, <3>2, <3>3 DEF After
  <2>3. CASE Made(d)
    <3>1. shown'[call[d].item] = <<>>
      BY <2>1, <2>3 DEF Made
    <3>2. Asks(x) => Lacks(x, call[d].item)'
      BY <1>1, <1>2, <2>1, ListsAssumption DEF Lacks, Rowed
    <3>3. \A e \in Slots \ {d} : Asks(call'[e]) =>
            /\ Lacks(call[e], call[d].item)'
            /\ Brings(call[e])' /\ call'[e].upto < call[d].wrote =>
                 call'[e].reply[call[d].item] = <<>>
      BY <1>1, <1>2, <1>3, <1>4, <2>1, <2>3, <3>2 DEF Made, Lacks, Asks, Brings
    <3> QED  BY <1>1, <2>1, <2>3, <3>1, <3>3 DEF Made, Lacks, Asks
  <2> QED  BY <2>1, <2>2, <2>3 DEF Exact, Adds
<1>12. Shows'
  <2> SUFFICES ASSUME Whole(seen, Owed, writes)'
               PROVE  /\ \A i \in Items : Right(i)'
                      /\ \A d \in Slots : /\ Asks(call'[d]) /\ call'[d].item \in Items
                                          /\ call'[d].item \notin call'[d].crossed
                                          => Tells(call[d])'
    BY DEF Shows, Asks
  <2>1. seen' # {} /\ Whole(seen, Owed, writes)
    <3>1. Whole(seen', Owed', writes)
      BY <1>1 DEF Whole
    <3>2. seen' # {} /\ 1 \in seen
      BY <1>5, <1>6, <3>1 DEF Whole
    <3>3. seen' \cup Owed' \subseteq seen \cup Owed
      BY <1>4, <1>6
    <3> QED  BY <3>1, <3>2, <3>3 DEF Whole
  <2>2. ASSUME NEW i \in Items PROVE Right(i)'
    <3>1. Right(i)
      BY <2>1 DEF Exact, Shows
    <3>2. ASSUME NEW d \in Slots \ {c}, Asks(call[d]), Excuses(call[d], i)
          PROVE  Asks(call'[d]) /\ Excuses(call[d], i)'
      BY <1>1, <1>2, <1>4, <1>6, <1>7, <3>2 DEF Excuses, Rowed
    <3>3. CASE shown'[i] = shown[i] /\ ~Excuses(call[c], i)
      BY <1>1, <3>1, <3>2, <3>3 DEF Right, Asks
    <3>4. CASE shown'[i] = Listing[i]
      BY <1>1, <3>4 DEF Right
    <3> QED  BY <2>1, <3>3, <3>4 DEF Excuses
  <2>3. ASSUME NEW d \in Slots, Asks(call'[d]), call'[d].item \in Items,
               call'[d].item \notin call'[d].crossed
        PROVE  Tells(call[d])'
    <3>1. d # c
      BY <1>2, <2>3, ListsAssumption
    <3>2. call'[d] = call[d] /\ Tells(call[d]) /\ Apart(call[c], call[d])
      BY <1>0, <1>2, <2>1, <2>3, <3>1 DEF Exact, Shows, Orderly
    <3>3. CASE shown' = shown
      BY <1>1, <1>4, <3>1, <3>2, <3>3 DEF Tells, Wants
    <3>4. CASE shown' # shown
      <4>1. /\ call[c].op \in {"add", "set", "remove"}
            /\ \A j \in Items \ {call[c].item} : shown'[j] = shown[j]
            /\ Rowed /\ call[c].op = "add" => call[d].item # call[c].item
        BY <2>1, <2>3, <3>1, <3>2, <3>4
      <4>2. call[d].item # call[c].item /\ call[d].crossed # {}
        BY <2>3, <3>2, <4>1 DEF Apart, Crosses, Patched
      <4> QED  BY <1>1, <1>4, <2>3, <3>1, <3>2, <4>1, <4>2 DEF Tells, Wants
    <3> QED  BY <3>3, <3>4
  <2> QED  BY <2>2, <2>3
<1>13. Replies'
  <2> SUFFICES ASSUME NEW d \in Slots, Brings(call[d])', Whole(1 .. call'[d].upto, Owed', writes),
                      NEW i \in Items
               PROVE  \/ call'[d].reply[i] = Listing'[i]
                      \/ \E e \in Slots : /\ Owes(call[e])' /\ call'[e].item = i
                                          /\ call'[e].op \in {"add", "set", "remove"}
                                          /\ call'[e].wrote > call'[d].upto
    BY <1>1 DEF Replies, Whole
  <2>1. d # c /\ call'[d] = call[d] /\ Brings(call[d]) /\ call[d].upto \in 1 .. writes
    BY <1>0, <1>1, <1>2, <1>3, <1>4 DEF Brings, Told1, Posted, Asks
  <2>2. /\ Whole(1 .. call[d].upto, Owed, writes)
        /\ Owes(call[c]) => call[c].wrote \in 1 .. call[d].upto
    BY <1>4, <1>5, <2>1 DEF Whole
  <2>3. ASSUME NEW e \in Slots, Owes(call[e]), call[e].item = i, call[e].wrote > call[d].upto,
               call[e].op \in {"add", "set", "remove"}
        PROVE  /\ Owes(call[e])' /\ call'[e].item = i /\ call'[e].wrote > call'[d].upto
               /\ call'[e].op \in {"add", "set", "remove"}
    <3>1. e # c
      BY <2>1, <2>2, <2>3
    <3> QED  BY <1>2, <1>4, <2>1, <2>3, <3>1
  <2> QED  BY <1>1, <2>1, <2>2, <2>3 DEF Exact, Replies
<1>14. Switch'
  BY <1>1 DEF Exact, Switch
<1> QED  BY <1>8, <1>9, <1>10, <1>11, <1>12, <1>13, <1>14 DEF Exact

(* A row that has been made, and whose answer the page waits for, is not on*)
(* a page that may come to reflect all commits.                            *)
LEMMA AddMade ==
  ASSUME Exact, Patched, Rowed, Whole(seen, Owed, writes), NEW c \in Slots,
         Owes(call[c]), call[c].op = "add", call[c].wrote \notin seen
  PROVE  Made(c)
<1>1. ~After(call[c].wrote, seen, Owed, writes)
  BY DEF After, Whole
<1> QED  BY <1>1 DEF Exact, Adds

(* The calls that end with their answer, or go on to the totals.           *)
LEMMA EndsTo ==
  ASSUME ListsInv, NEW c \in Slots, Ends(c) \/ (Sums(c) /\ kind = "budget")
  PROVE  \E x \in Calls : /\ Answer(c, x)
                          /\ Asks(x) => /\ kind = "budget" /\ x.op = "sum" /\ x.at = "out"
                                        /\ x.item = None /\ x.wrote = 0
                                        /\ x.crossed = call[c].crossed
<1>1. CASE Ends(c)
  BY <1>1, NoCallSound DEF Ends
<1>2. CASE Goes(c, "sum") /\ kind = "budget"
  <2> DEFINE x == [Asked(call[c].by, "sum", None, None) EXCEPT !.crossed = call[c].crossed]
  <2>1. call[c] \in Calls
    BY DEF ListsInv
  <2>2. /\ x \in Calls /\ x.op = "sum" /\ x.at = "out" /\ x.item = None /\ x.wrote = 0
        /\ x.crossed = call[c].crossed
    BY <2>1 DEF Asked, NoCall, Calls, Edits
  <2>3. Answer(c, x)
    BY <1>2 DEF Goes
  <2> HIDE DEF x
  <2> QED  BY <1>2, <2>2, <2>3
<1> QED  BY <1>1, <1>2 DEF Sums

LEMMA TemplateTaken ==
  ASSUME ListsAssumption, ListsInv, Exact, Patched, NEW c \in Slots, TemplateAdded(c), call[c].ok
  PROVE  Exact'
<1>0. /\ call \in [Slots -> Calls] /\ writes \in Nat /\ Orderly /\ seen \subseteq 1 .. writes
      /\ \A d \in Slots : Posted(call[d]) /\ Sound(call[d])
      /\ kind = "packing" /\ call[c].at = "back" /\ call[c].op = "template"
      /\ call[c].upto \in 1 .. writes /\ call[c].wrote = call[c].upto
      /\ Asks(call[c]) /\ Brings(call[c]) /\ ~Owes(call[c])
  BY DEF ListsInv, Placed, Past, Exact, Orderly, TemplateAdded, Back, Posted, Asks, Told1, Reads,
         Brings, Owes
<1>1. /\ UNCHANGED <<kind, mayEdit, rows, writes, view>> /\ Listing' = Listing /\ Answer(c, NoCall)
      /\ shown' = call[c].reply /\ seen' = 1 .. call[c].upto
  BY DEF TemplateAdded, server, Listing, Ends
<1>x. PICK x \in Calls : x = NoCall
  BY NoCallSound
<1>2. call'[c] = x /\ (\A d \in Slots : d # c => call'[d] = call[d]) /\ Answer(c, x)
  BY <1>0, <1>1, <1>x DEF Answer
<1>3. ~Asks(x) /\ ~Owes(x) /\ ~Brings(x)
  BY <1>x, NoCallSound DEF Owes, Told1, Brings, Asks
<1>4. /\ Owed \subseteq 1 .. writes /\ Owed' = Owed
      /\ \A d \in Slots : d # c => (Owes(call[d])' <=> Owes(call[d]))
                                   /\ (Brings(call[d])' <=> Brings(call[d]))
      /\ ~Asks(call[c])' /\ ~Owes(call[c])' /\ ~Brings(call[c])'
  BY <1>0, <1>1, <1>2, <1>3, OwedIs DEF Owes, Told1, Brings, Patched, Rowed, Asks
<1>5. \A d \in Slots : d # c /\ Asks(call[d]) =>
         /\ Items \subseteq call[d].crossed
         /\ Owes(call[d]) => call[d].wrote # call[c].upto /\ call[d].wrote \in 2 .. writes
  BY <1>0 DEF Orderly, Apart, Crosses, Patched, Rowed, Posted, Owes, Told1, Reads
<1>6. Orderly'
  <2>1. Posted(x)'
    BY <1>3 DEF Posted, Asks
  <2> QED  BY <1>0, <1>1, <1>2, <1>3, <2>1, OrderlyAfter
<1>7. \A d \in Slots : Standing(call[d])'
  <2> SUFFICES ASSUME NEW d \in Slots, Owes(call[d])' PROVE Standing(call[d])'
    BY DEF Standing
  <2>1. /\ d # c /\ call'[d] = call[d] /\ Owes(call[d]) /\ Standing(call[d])
        /\ Items \subseteq call[d].crossed
        /\ call[d].op \in {"set", "remove"} => call[d].item \in Items
    BY <1>0, <1>2, <1>4, <1>5 DEF Exact, Owes, Told1, Asks, Sound
  <2> QED  BY <1>0, <1>1, <2>1 DEF Standing, Rowed
<1>8. Unmade'
  <2> SUFFICES ASSUME NEW i \in Items, rows[i] = None PROVE Void(i)'
    BY <1>1 DEF Unmade, Rowed
  <2>1. Void(i) /\ shown'[i] = <<>>
    BY <1>0, <1>1 DEF Exact, Unmade, Void, Rowed
  <2> QED  BY <1>1, <1>2, <1>4, <2>1 DEF Void, Lacks, Asks
<1>9. Adds'
  <2> SUFFICES ASSUME NEW d \in Slots, Owes(call[d])', call'[d].op = "add"
               PROVE  (Made(d) \/ After(call[d].wrote, seen, Owed, writes))'
    BY DEF Adds
  <2>1. /\ d # c /\ call'[d] = call[d] /\ Owes(call[d]) /\ call[d].item \in Items
        /\ call[d].wrote # call[c].upto /\ call[d].wrote \in 2 .. writes
        /\ Made(d) \/ After(call[d].wrote, seen, Owed, writes)
    BY <1>0, <1>2, <1>4, <1>5 DEF Owes, Told1, Asks, Sound, Exact, Adds, Rowed
  <2>2. CASE call[d].wrote < call[c].upto
    <3>1. call[c].upto \notin Owed
      <4>1. \A e \in Slots : Owes(call[e]) => call[e].wrote # call[c].upto
        BY <1>0, <1>5 DEF Owes, Told1, Asks
      <4> QED  BY <4>1 DEF Owed
    <3>2. call[d].wrote \in seen'
      BY <1>0, <1>1, <2>1, <2>2
    <3> QED  BY <1>0, <1>1, <1>4, <2>1, <2>2, <3>1, <3>2 DEF After
  <2>3. CASE call[c].upto < call[d].wrote
    <3>1. CASE Made(d)
      <4>1. shown'[call[d].item] = <<>>
        BY <1>0, <1>1, <2>1, <2>3, <3>1 DEF Made
      <4> QED  BY <1>1, <1>2, <1>4, <2>1, <3>1, <4>1 DEF Made, Lacks, Asks
    <3>2. CASE After(call[d].wrote, seen, Owed, writes)
      <4>1. PICK m \in 1 .. writes : m > call[d].wrote /\ m \notin Owed
        BY <3>2 DEF After
      <4>2. m \notin seen'
        BY <1>0, <1>1, <2>1, <2>3, <4>1
      <4> QED  BY <1>1, <1>4, <2>1, <4>1, <4>2 DEF After
    <3> QED  BY <2>1, <3>1, <3>2
  <2> QED  BY <1>0, <2>1, <2>2, <2>3
<1>10. Shows'
  <2> SUFFICES ASSUME Whole(seen, Owed, writes)'
               PROVE  /\ \A i \in Items : Right(i)'
                      /\ \A d \in Slots : Asks(call'[d]) /\ call'[d].item \in Items
                                          => call'[d].item \in call'[d].crossed
    BY DEF Shows, Asks
  <2>1. Whole(1 .. call[c].upto, Owed, writes)
    BY <1>1, <1>4 DEF Whole
  <2>2. ASSUME NEW i \in Items PROVE Right(i)'
    <3>1. CASE call[c].reply[i] = Listing[i]
      BY <1>1, <3>1 DEF Right
    <3>2. ASSUME NEW d \in Slots, Owes(call[d]), call[d].item = i, call[d].wrote > call[c].upto,
                 call[d].op \in {"add", "set", "remove"}
          PROVE  Right(i)'
      <4>1. d # c /\ call'[d] = call[d] /\ Owes(call[d])' /\ Asks(call'[d])
        BY <1>0, <1>2, <1>4, <3>2 DEF Owes, Told1, Asks
      <4>2. call[d].wrote \notin seen'
        BY <1>0, <1>1, <1>5, <3>2, <4>1 DEF Asks
      <4> QED  BY <3>2, <4>1, <4>2 DEF Right, Excuses, Asks
    <3> QED  BY <1>0, <2>1, <3>1, <3>2 DEF Exact, Replies
  <2>3. ASSUME NEW d \in Slots, Asks(call'[d]), call'[d].item \in Items
        PROVE  call'[d].item \in call'[d].crossed
    BY <1>2, <1>3, <1>5, <2>3
  <2> QED  BY <2>2, <2>3
<1>11. Replies'
  <2> SUFFICES ASSUME NEW d \in Slots, Brings(call[d])', Whole(1 .. call'[d].upto, Owed, writes),
                      NEW i \in Items
               PROVE  \/ call'[d].reply[i] = Listing'[i]
                      \/ \E e \in Slots : /\ Owes(call[e])' /\ call'[e].item = i
                                          /\ call'[e].op \in {"add", "set", "remove"}
                                          /\ call'[e].wrote > call'[d].upto
    BY <1>1, <1>4 DEF Replies, Whole
  <2>1. d # c /\ call'[d] = call[d] /\ Brings(call[d])
    BY <1>2, <1>4
  <2>2. \A e \in Slots : Owes(call[e]) => Owes(call[e])' /\ call'[e] = call[e]
    BY <1>0, <1>2, <1>4
  <2> QED  BY <1>1, <2>1, <2>2 DEF Exact, Replies
<1>12. Switch'
  BY <1>1 DEF Exact, Switch
<1> QED  BY <1>6, <1>7, <1>8, <1>9, <1>10, <1>11, <1>12 DEF Exact

(* The first load is alone: nothing can be asked for while it is under way.*)
LEMMA LoadTaken ==
  ASSUME ListsAssumption, ListsInv, Exact, Patched, NEW c \in Slots, Loaded(c)
  PROVE  Exact'
<1>0. /\ call \in [Slots -> Calls] /\ writes \in Nat /\ Orderly /\ seen \subseteq 1 .. writes
      /\ \A d \in Slots : Posted(call[d]) /\ Sound(call[d])
      /\ call[c].at = "back" /\ call[c].op = "load" /\ Asks(call[c])
  BY DEF ListsInv, Placed, Past, Exact, Orderly, Loaded, Back, Asks
<1>1. Rowed /\ view = "loading" /\ kind # "members"
  BY <1>0 DEF Posted, Patched, Rowed
<1>2. \A d \in Slots : d # c => ~Asks(call[d])
  BY <1>0, <1>1 DEF Orderly, Apart
<1>3. /\ UNCHANGED <<kind, mayEdit, rows, writes>> /\ Listing' = Listing /\ Answer(c, NoCall)
      /\ IF call[c].ok THEN /\ \A i \in Items : shown'[i] = call[c].reply[i]
                            /\ seen' = 1 .. call[c].upto
         ELSE UNCHANGED <<shown, seen>>
  BY <1>1 DEF Loaded, server, Listing, Ends
<1>x. PICK x \in Calls : x = NoCall
  BY NoCallSound
<1>4. call'[c] = x /\ (\A d \in Slots : d # c => call'[d] = call[d]) /\ Answer(c, x) /\ ~Asks(x)
  BY <1>0, <1>3, <1>x, NoCallSound DEF Answer
<1>5. \A d \in Slots : /\ ~Asks(call'[d]) /\ ~Owes(call[d])' /\ ~Brings(call[d])'
                       /\ ~Owes(call[d])
  BY <1>0, <1>2, <1>4 DEF Asks, Owes, Brings, Told1
<1>6. Owed = {} /\ Owed' = {}
  BY <1>5 DEF Owed
<1>7. Orderly'
  BY <1>0, <1>3, <1>5 DEF Orderly, Posted, Asks
<1>8. (\A d \in Slots : Standing(call[d])') /\ Adds' /\ Replies' /\ Switch'
  BY <1>3, <1>5 DEF Standing, Adds, Replies, Exact, Switch
<1>9. Unmade'
  <2> SUFFICES ASSUME NEW i \in Items, rows[i] = None PROVE shown'[i] = <<>>
    BY <1>3, <1>5 DEF Unmade, Void, Asks
  <2> QED  BY <1>0, <1>1, <1>3 DEF Exact, Unmade, Void, Brings, Told1
<1>10. Shows'
  <2> SUFFICES ASSUME Whole(seen, Owed, writes)' PROVE \A i \in Items : shown'[i] = Listing[i]
    BY <1>3, <1>5 DEF Shows, Right, Asks
  <2>1. Whole(seen', Owed, writes)
    BY <1>3, <1>6 DEF Whole
  <2>2. CASE call[c].ok
    BY <1>0, <1>3, <1>5, <2>1, <2>2 DEF Exact, Replies, Brings, Told1
  <2>3. CASE ~call[c].ok
    <3>1. \A d \in Slots, i \in Items : Asks(call[d]) => ~Excuses(call[d], i)
      BY <1>0, <1>2, <2>3 DEF Excuses, Owes, Told1
    <3> QED  BY <1>3, <2>1, <2>3, <3>1 DEF Exact, Shows, Right
  <2> QED  BY <2>2, <2>3
<1> QED  BY <1>7, <1>8, <1>9, <1>10 DEF Exact

(* Each handler.                                                           *)
LEMMA ToggleTaken ==
  ASSUME ListsAssumption, ListsInv, Exact, Patched, NEW c \in Slots, ToggleAnswered(c)
  PROVE  Exact'
<1>0. /\ kind = "packing" /\ call[c].at = "back" /\ call[c].op = "set" /\ Ends(c)
      /\ UNCHANGED <<server, view>> /\ seen' = With(c, Clear(c)) /\ Asks(call[c])
      /\ shown' = IF call[c].ok THEN shown ELSE Set(call[c].item, Head(call[c].kept[call[c].item]))
      /\ ~Brings(call[c]) /\ Rowed
  BY DEF ToggleAnswered, Back, Asks, Brings, Rowed
<1>1. /\ call[c].item \in Items /\ call[c].kept[call[c].item] # <<>> /\ shown \in Lists
      /\ Orderly /\ (call[c].ok <=> Owes(call[c]))
  BY <1>0 DEF ListsInv, Placed, Sound, Exact, Owes, Told1, Patched
<1>2. PICK x \in Calls : /\ Answer(c, x)
                         /\ Asks(x) => /\ kind = "budget" /\ x.op = "sum" /\ x.at = "out"
                                       /\ x.item = None /\ x.wrote = 0
                                       /\ x.crossed = call[c].crossed
  BY <1>0, EndsTo
<1>3. seen' \in {{}, seen \cup ({call[c].wrote} \ {0})} /\ (seen' # {} => Clear(c) \/ seen' = {})
  BY <1>0 DEF With
<1>l. shown = [j \in Items |-> shown[j]]
  BY <1>1 DEF Lists
<1>4. \A j \in Items : j # call[c].item => shown'[j] = shown[j]
  BY <1>0, <1>l DEF Set
<1>5. ASSUME NEW j \in Items, shown[j] = <<>>, Lacks(call[c], j) PROVE shown'[j] = <<>>
  BY <1>4, <1>5 DEF Lacks
<1>6. ASSUME seen' # {}, Whole(seen, Owed, writes)
      PROVE  shown'[call[c].item] = Listing[call[c].item]
  <2>1. Tells(call[c])
    BY <1>0, <1>1, <1>3, <1>6 DEF Exact, Shows, Clear
  <2>2. CASE call[c].ok
    BY <1>0, <1>1, <2>1, <2>2 DEF Tells, Wants
  <2>3. CASE ~call[c].ok
    <3>1. /\ shown[call[c].item] = <<call[c].val>>
          /\ call[c].kept[call[c].item] = Listing[call[c].item]
      BY <1>0, <1>1, <2>1, <2>3 DEF Tells, Wants
    <3>2. Listing[call[c].item] = <<rows[call[c].item]>>
      BY <1>1, <3>1 DEF Listing
    <3> QED  BY <1>0, <1>1, <1>l, <2>3, <3>1, <3>2 DEF Set
  <2> QED  BY <2>2, <2>3
<1> QED
  BY <1>0, <1>1, <1>2, <1>3, <1>4, <1>5, <1>6, TakenExact

LEMMA RemoveTaken ==
  ASSUME ListsAssumption, ListsInv, Exact, Patched, NEW c \in Slots, RemoveAnswered(c)
  PROVE  Exact'
<1>0. /\ kind = "packing" /\ call[c].at = "back" /\ call[c].op = "remove" /\ Ends(c)
      /\ UNCHANGED <<server, view>> /\ Asks(call[c])
      /\ seen' = With(c, IF call[c].ok THEN Clear(c) ELSE call[c].crossed = {})
      /\ shown' = IF call[c].ok THEN shown ELSE call[c].kept
      /\ ~Brings(call[c]) /\ Rowed
  BY DEF RemoveAnswered, Back, Asks, Brings, Rowed
<1>1. call[c].item \in Items /\ Orderly /\ (call[c].ok <=> Owes(call[c]))
  BY <1>0 DEF ListsInv, Placed, Sound, Exact, Owes, Told1, Patched
<1>2. PICK x \in Calls : /\ Answer(c, x)
                         /\ Asks(x) => /\ kind = "budget" /\ x.op = "sum" /\ x.at = "out"
                                       /\ x.item = None /\ x.wrote = 0
                                       /\ x.crossed = call[c].crossed
  BY <1>0, EndsTo
<1>3. /\ seen' \in {{}, seen \cup ({call[c].wrote} \ {0})}
      /\ seen' # {} => Clear(c) /\ (call[c].ok \/ call[c].crossed = {})
  BY <1>0 DEF With, Clear
<1>5. ASSUME NEW j \in Items, shown[j] = <<>>, Lacks(call[c], j) PROVE shown'[j] = <<>>
  BY <1>0, <1>5 DEF Lacks
<1>6. ASSUME seen' # {}, Whole(seen, Owed, writes)
      PROVE  /\ shown'[call[c].item] = Listing[call[c].item]
             /\ \A j \in Items \ {call[c].item} : shown'[j] = shown[j]
  <2>1. Tells(call[c])
    BY <1>0, <1>1, <1>3, <1>6 DEF Exact, Shows, Clear
  <2> QED  BY <1>0, <1>1, <1>3, <1>6, <2>1 DEF Tells, Wants
<1> QED
  BY <1>0, <1>1, <1>2, <1>3, <1>5, <1>6, TakenExact

(* What changes nothing that is shown, and owes the rows nothing.          *)
LEMMA NothingTaken ==
  ASSUME ListsAssumption, ListsInv, Exact, Patched, NEW c \in Slots, Asks(call[c]),
         ~Brings(call[c]), Ends(c) \/ (Sums(c) /\ kind = "budget"),
         UNCHANGED <<server, view, shown>>,
         seen' \in {{}, seen \cup ({call[c].wrote} \ {0})},
         ~Owes(call[c]) \/ call[c].op = "settings",
         kind = "packing" => call[c].op \notin {"set", "remove"},
         kind = "share" => call[c].op # "set"
  PROVE  Exact'
<1>1. \A j \in Items : ~Excuses(call[c], j)
  BY DEF Excuses
<1>2. PICK x \in Calls : /\ Answer(c, x)
                         /\ Asks(x) => /\ kind = "budget" /\ x.op = "sum" /\ x.at = "out"
                                       /\ x.item = None /\ x.wrote = 0
                                       /\ x.crossed = call[c].crossed
  BY EndsTo
<1> QED  BY <1>1, <1>2, TakenExact

LEMMA AddTaken ==
  ASSUME ListsAssumption, ListsInv, Exact, Patched, NEW c \in Slots,
         ItemAdded(c) \/ ExpenseAdded(c)
  PROVE  Exact'
<1>0. /\ Rowed /\ call[c].at = "back" /\ call[c].op = "add" /\ Asks(call[c]) /\ ~Brings(call[c])
      /\ Ends(c) \/ (Sums(c) /\ kind = "budget")
      /\ UNCHANGED <<server, view>> /\ IF call[c].ok THEN Appended(c) ELSE UNCHANGED <<shown, seen>>
  BY DEF ItemAdded, ExpenseAdded, Back, Asks, Brings, Rowed
<1>1. /\ Posted(call[c]) /\ (call[c].ok <=> Owes(call[c]))
      /\ call[c].ok => call[c].item \in Items /\ call[c].val \in Values
      /\ shown = [j \in Items |-> shown[j]]
  BY <1>0 DEF ListsInv, Sound, Exact, Orderly, Owes, Told1, Placed, Lists
<1>2. CASE ~call[c].ok
  <2>1. call[c].wrote = 0
    BY <1>0, <1>1, <1>2 DEF Posted, Told1
  <2> QED  BY <1>0, <1>1, <1>2, <2>1, NothingTaken
<1>3. CASE call[c].ok
  <2>1. /\ shown' = [shown EXCEPT ![call[c].item] = Append(@, call[c].val)]
        /\ seen' = With(c, call[c].wrote \notin seen)
    BY <1>0, <1>3 DEF Appended
  <2>2. \A j \in Items : j # call[c].item => shown'[j] = shown[j]
    BY <1>1, <2>1
  <2>3. seen' \in {{}, seen \cup ({call[c].wrote} \ {0})}
        /\ (seen' # {} => call[c].wrote \notin seen)
    BY <2>1 DEF With
  <2>4. PICK x \in Calls : /\ Answer(c, x)
                           /\ Asks(x) => /\ kind = "budget" /\ x.op = "sum" /\ x.at = "out"
                                         /\ x.item = None /\ x.wrote = 0
                                         /\ x.crossed = call[c].crossed
    BY <1>0, EndsTo
  <2>5. ASSUME NEW j \in Items, shown[j] = <<>>, Lacks(call[c], j) PROVE shown'[j] = <<>>
    BY <2>2, <2>5 DEF Lacks
  <2>6. ASSUME seen' # {}, Whole(seen, Owed, writes)
        PROVE  /\ shown'[call[c].item] = Listing[call[c].item]
               /\ \A e \in Slots \ {c} : Asks(call[e]) => call[e].item # call[c].item
    <3>1. Made(c)
      BY <1>0, <1>1, <1>3, <2>3, <2>6, AddMade
    <3>2. Listing[call[c].item] = <<call[c].val>>
      BY <1>0, <1>1, <1>3, <3>1 DEF Made, Listing, Rowed
    <3>3. shown'[call[c].item] = Append(<<>>, call[c].val)
      BY <1>1, <1>3, <2>1, <3>1 DEF Made
    <3>4. Append(<<>>, call[c].val) = <<call[c].val>>
      OBVIOUS
    <3> QED  BY <1>1, <3>1, <3>2, <3>3, <3>4 DEF Made, Lacks
  <2> QED  BY <1>0, <1>1, <1>3, <2>2, <2>3, <2>4, <2>5, <2>6, TakenExact
<1> QED  BY <1>2, <1>3

LEMMA AmountTaken ==
  ASSUME ListsAssumption, ListsInv, Exact, Patched, NEW c \in Slots, AmountUpdated(c)
  PROVE  Exact'
<1>0. /\ kind = "budget" /\ call[c].at = "back" /\ call[c].op = "set" /\ Asks(call[c])
      /\ ~Brings(call[c]) /\ Sums(c) /\ UNCHANGED <<server, view>> /\ Rowed
      /\ IF call[c].ok THEN shown' = Set(call[c].item, call[c].val) /\ seen' = With(c, Clear(c))
         ELSE UNCHANGED <<shown, seen>>
  BY DEF AmountUpdated, Back, Asks, Brings, Rowed
<1>1. /\ Posted(call[c]) /\ (call[c].ok <=> Owes(call[c])) /\ call[c].item \in Items
      /\ shown = [j \in Items |-> shown[j]]
  BY <1>0 DEF ListsInv, Sound, Exact, Orderly, Owes, Told1, Placed, Lists
<1>2. CASE ~call[c].ok
  <2>1. call[c].wrote = 0
    BY <1>0, <1>1, <1>2 DEF Posted, Told1
  <2> QED  BY <1>0, <1>1, <1>2, <2>1, NothingTaken
<1>3. CASE call[c].ok
  <2>1. shown' = Set(call[c].item, call[c].val) /\ seen' = With(c, Clear(c))
    BY <1>0, <1>3
  <2>2. \A j \in Items : j # call[c].item => shown'[j] = shown[j]
    BY <1>1, <2>1 DEF Set
  <2>3. seen' \in {{}, seen \cup ({call[c].wrote} \ {0})} /\ (seen' # {} => Clear(c))
    BY <2>1 DEF With
  <2>4. PICK x \in Calls : /\ Answer(c, x)
                           /\ Asks(x) => /\ kind = "budget" /\ x.op = "sum" /\ x.at = "out"
                                         /\ x.item = None /\ x.wrote = 0
                                         /\ x.crossed = call[c].crossed
    BY <1>0, EndsTo
  <2>5. ASSUME NEW j \in Items, shown[j] = <<>>, Lacks(call[c], j) PROVE shown'[j] = <<>>
    BY <2>2, <2>5 DEF Lacks
  <2>6. ASSUME seen' # {}, Whole(seen, Owed, writes)
        PROVE  shown'[call[c].item] = Listing[call[c].item]
    <3>1. Tells(call[c])
      BY <1>0, <1>1, <2>3, <2>6 DEF Exact, Shows, Clear
    <3>2. DOMAIN shown[call[c].item] = {1} /\ Listing[call[c].item] = <<call[c].val>>
      BY <1>0, <1>1, <1>3, <3>1 DEF Tells, Wants
    <3> QED  BY <1>1, <2>1, <3>2 DEF Set
  <2> QED  BY <1>0, <1>1, <2>2, <2>3, <2>4, <2>5, <2>6, TakenExact
<1> QED  BY <1>2, <1>3

LEMMA ExpenseTaken ==
  ASSUME ListsAssumption, ListsInv, Exact, Patched, NEW c \in Slots, ExpenseRemoved(c)
  PROVE  Exact'
<1>0. /\ kind = "budget" /\ call[c].at = "back" /\ call[c].op = "remove" /\ Asks(call[c])
      /\ ~Brings(call[c]) /\ Sums(c) /\ UNCHANGED <<server, view>> /\ Rowed
      /\ IF call[c].ok THEN shown' = Drop(call[c].item) /\ seen' = With(c, TRUE)
         ELSE UNCHANGED <<shown, seen>>
  BY DEF ExpenseRemoved, Back, Asks, Brings, Rowed
<1>1. /\ Posted(call[c]) /\ (call[c].ok <=> Owes(call[c])) /\ call[c].item \in Items
      /\ shown = [j \in Items |-> shown[j]] /\ Standing(call[c])
  BY <1>0 DEF ListsInv, Sound, Exact, Orderly, Owes, Told1, Placed, Lists
<1>2. CASE ~call[c].ok
  <2>1. call[c].wrote = 0
    BY <1>0, <1>1, <1>2 DEF Posted, Told1
  <2> QED  BY <1>0, <1>1, <1>2, <2>1, NothingTaken
<1>3. CASE call[c].ok
  <2>1. shown' = Drop(call[c].item) /\ seen' = seen \cup ({call[c].wrote} \ {0})
    BY <1>0, <1>3 DEF With
  <2>2. \A j \in Items : j # call[c].item => shown'[j] = shown[j]
    BY <1>1, <2>1 DEF Drop
  <2>3. PICK x \in Calls : /\ Answer(c, x)
                           /\ Asks(x) => /\ kind = "budget" /\ x.op = "sum" /\ x.at = "out"
                                         /\ x.item = None /\ x.wrote = 0
                                         /\ x.crossed = call[c].crossed
    BY <1>0, EndsTo
  <2>4. ASSUME NEW j \in Items, shown[j] = <<>>, Lacks(call[c], j) PROVE shown'[j] = <<>>
    BY <2>2, <2>4 DEF Lacks
  <2>5. shown'[call[c].item] = Listing[call[c].item]
    <3>1. rows[call[c].item] = "gone"
      BY <1>0, <1>1, <1>3 DEF Standing
    <3>2. Listing[call[c].item] = <<>>
      BY <1>0, <1>1, <3>1 DEF Listing, Values
    <3> QED  BY <1>1, <2>1, <3>2 DEF Drop
  <2> QED  BY <1>0, <1>1, <2>1, <2>2, <2>3, <2>4, <2>5, TakenExact
<1> QED  BY <1>2, <1>3

LEMMA ShareTaken ==
  ASSUME ListsAssumption, ListsInv, Exact, Patched, NEW c \in Slots,
         ShareOpened(c) \/ LinkSwitched(c)
  PROVE  Exact'
<1>0. /\ kind = "share" /\ call[c].at = "back" /\ Asks(call[c]) /\ Ends(c)
      /\ UNCHANGED <<server, view>> /\ seen' = With(c, Clear(c)) /\ ~Rowed
  BY DEF ShareOpened, LinkSwitched, Back, Asks, Rowed
<1>1. /\ Posted(call[c]) /\ shown = [j \in Items |-> shown[j]] /\ Link \in Items
      /\ call[c].op \in {"add", "remove", "set"} /\ ~Brings(call[c])
  BY <1>0, ListsAssumption DEF ListsInv, Sound, Exact, Orderly, Placed, Lists, Brings
<1>2. call[c].op \in {"add", "remove"} /\ call[c].item = Link
  BY <1>0, <1>1 DEF ShareOpened, LinkSwitched, Back, Posted
<1>3. call[c].ok <=> Owes(call[c])
  BY <1>0, <1>2 DEF Owes, Told1
<1>4. seen' \in {{}, seen \cup ({call[c].wrote} \ {0})} /\ (seen' # {} => Clear(c))
  BY <1>0 DEF With
<1>5. CASE ~call[c].ok
  <2>1. shown' = shown
    BY <1>5 DEF ShareOpened, LinkSwitched
  <2> QED  BY <1>0, <1>1, <1>2, <1>3, <1>4, <1>5, <2>1, NothingTaken
<1>6. CASE call[c].ok
  <2>1. PICK x \in Calls : /\ Answer(c, x)
                           /\ Asks(x) => /\ kind = "budget" /\ x.op = "sum" /\ x.at = "out"
                                         /\ x.item = None /\ x.wrote = 0
                                         /\ x.crossed = call[c].crossed
    BY <1>0, EndsTo
  <2>2. \A j \in Items : j # Link => shown'[j] = shown[j]
    BY <1>1 DEF ShareOpened, LinkSwitched
  <2>3. ASSUME seen' # {}, Whole(seen, Owed, writes) PROVE shown'[Link] = Listing[Link]
    <3>1. Tells(call[c])
      BY <1>0, <1>1, <1>2, <1>4, <2>3 DEF Exact, Shows, Clear
    <3>2. Listing[Link] = IF call[c].op = "add" THEN <<"a">> ELSE <<>>
      BY <1>0, <1>1, <1>2, <1>3, <1>6, <3>1 DEF Tells, Wants, Posted, Told1
    <3>3. CASE ShareOpened(c)
      BY <1>0, <1>1, <1>2, <3>1, <3>2, <3>3 DEF ShareOpened, Back, Tells
    <3>4. CASE LinkSwitched(c)
      BY <1>1, <1>6, <3>2, <3>4 DEF LinkSwitched
    <3> QED  BY <3>3, <3>4
  <2> QED  BY <1>0, <1>1, <1>2, <1>4, <2>1, <2>2, <2>3, TakenExact
<1> QED  BY <1>5, <1>6

LEMMA RecapTaken ==
  ASSUME ListsAssumption, ListsInv, Exact, Patched, NEW c \in Slots, RecapSwitched(c)
  PROVE  Exact'
<1>0. /\ kind = "share" /\ call[c].at = "back" /\ call[c].op = "set" /\ Ends(c) /\ Asks(call[c])
      /\ UNCHANGED <<server, view>> /\ seen' = With(c, Clear(c)) /\ ~Rowed
      /\ shown' = IF call[c].ok THEN shown ELSE Set(Recap, Flip(call[c].val))
      /\ ~Brings(call[c])
  BY DEF RecapSwitched, Back, Asks, Rowed, Brings
<1>1. /\ shown = [j \in Items |-> shown[j]] /\ Recap \in Items /\ call[c].item = Recap
      /\ call[c].ok <=> Owes(call[c])
  BY <1>0, ListsAssumption DEF ListsInv, Exact, Orderly, Posted, Placed, Lists, Owes, Told1, Patched
<1>2. PICK x \in Calls : /\ Answer(c, x)
                         /\ Asks(x) => /\ kind = "budget" /\ x.op = "sum" /\ x.at = "out"
                                       /\ x.item = None /\ x.wrote = 0
                                       /\ x.crossed = call[c].crossed
  BY <1>0, EndsTo
<1>3. seen' \in {{}, seen \cup ({call[c].wrote} \ {0})} /\ (seen' # {} => Clear(c))
  BY <1>0 DEF With
<1>4. \A j \in Items : j # Recap => shown'[j] = shown[j]
  BY <1>0, <1>1 DEF Set
<1>5. ASSUME seen' # {}, Whole(seen, Owed, writes) PROVE shown'[Recap] = Listing[Recap]
  <2>1. Tells(call[c])
    BY <1>0, <1>1, <1>3, <1>5 DEF Exact, Shows, Clear
  <2>2. shown[Recap] = <<call[c].val>>
    BY <1>0, <1>1, <2>1 DEF Tells, Wants
  <2>3. Listing[Recap] = IF call[c].ok THEN <<call[c].val>> ELSE <<Flip(call[c].val)>>
    BY <1>0, <1>1, <2>1 DEF Tells, Wants
  <2>4. Set(Recap, Flip(call[c].val))[Recap] = <<Flip(call[c].val)>>
    BY <1>1, <2>2 DEF Set
  <2> QED  BY <1>0, <2>2, <2>3, <2>4
<1> QED  BY <1>0, <1>1, <1>2, <1>3, <1>4, <1>5, TakenExact

LEMMA AnsweredExact ==
  ASSUME ListsAssumption, ListsInv, Exact, Patched, NEW c \in Slots, Answered(c)
  PROVE  Exact'
<1>p. Posted(call[c]) /\ kind \notin {"comments", "members"}
  BY DEF Exact, Orderly, Patched, Rowed
<1>1. CASE InvitesLoaded(c)
  BY <1>p, <1>1 DEF InvitesLoaded, Back, Posted, Asks
<1>2. CASE TemplateAdded(c)
  <2>1. CASE ~call[c].ok
    <3>1. /\ Asks(call[c]) /\ ~Brings(call[c]) /\ Ends(c) /\ UNCHANGED <<server, view, shown, seen>>
          /\ ~Owes(call[c]) /\ call[c].op = "template" /\ call[c].wrote = 0
      BY <1>p, <1>2, <2>1 DEF TemplateAdded, Back, Asks, Brings, Told1, Owes, Posted
    <3> QED  BY <3>1, NothingTaken
  <2> QED  BY <1>2, <2>1, TemplateTaken
<1>3. CASE SettingsSaved(c)
  <2>1. /\ Asks(call[c]) /\ ~Brings(call[c]) /\ Sums(c) /\ kind = "budget"
        /\ UNCHANGED <<server, view, shown>> /\ call[c].op = "settings"
        /\ seen' = seen \cup ({call[c].wrote} \ {0})
    BY <1>3 DEF SettingsSaved, Back, Asks, Brings, With
  <2> QED  BY <2>1, NothingTaken
<1>4. CASE BudgetReloaded(c)
  <2>1. /\ Asks(call[c]) /\ ~Brings(call[c]) /\ Ends(c) /\ UNCHANGED <<server, view, shown, seen>>
        /\ call[c].op = "sum" /\ ~Owes(call[c]) /\ call[c].wrote = 0
    BY <1>p, <1>4 DEF BudgetReloaded, Back, Asks, Brings, Owes, Posted, Told1, Reads
  <2> QED  BY <2>1, NothingTaken
<1> QED
  BY <1>p, <1>1, <1>2, <1>3, <1>4, LoadTaken, ToggleTaken, RemoveTaken, AddTaken, AmountTaken,
     ExpenseTaken, ShareTaken, RecapTaken
     DEF Answered, CommentSent, CommentRemoved, RoleChanged, InviteCreated, MemberRemoved

-----------------------------------------------------------------------------
(* The pages that fetch their rows.                                        *)

(* A call goes a step further, and nothing is shown of it.                 *)
LEMMA FetchedAfter ==
  ASSUME ListsInv, Fetched, ~Patched, NEW c \in Slots, NEW x \in Calls, Answer(c, x),
         UNCHANGED <<kind, mayEdit, shown, seen>>, writes' \in {writes, writes + 1},
         writes' = writes => rows' = rows,
         Brings(x) /\ x.upto = writes' => x.reply = Listing',
         Asks(x) => x.op # "template" /\ (x.op = "invites" => kind = "members" /\ mayEdit),
         call[c].op = "invites" /\ Asks(call[c]) => x.op = "invites" /\ Asks(x)
  PROVE  Fetched'
<1>0. /\ call \in [Slots -> Calls] /\ writes \in Nat /\ seen \subseteq 1 .. writes /\ writes >= 1
      /\ \A d \in Slots : Brings(call[d]) => call[d].upto <= writes
  BY DEF ListsInv, Placed, Past, Fetched, Sound, Brings, Told1, Asks
<1>1. call'[c] = x /\ \A d \in Slots : d # c => call'[d] = call[d]
  BY <1>0 DEF Answer
<1>2. writes' = writes => Listing' = Listing
  BY DEF Listing
<1>3. ASSUME NEW d \in Slots, Brings(call'[d]), call'[d].upto = writes'
      PROVE  call'[d].reply = Listing'
  <2>1. CASE d = c
    BY <1>1, <1>3, <2>1
  <2>2. CASE d # c
    <3>1. call'[d] = call[d] /\ call[d].upto <= writes /\ Brings(call[d])
      BY <1>0, <1>1, <1>3, <2>2
    <3>2. writes' = writes
      BY <1>0, <1>3, <3>1
    <3> QED  BY <1>2, <1>3, <3>1, <3>2 DEF Fetched
  <2> QED  BY <2>1, <2>2
<1>4. ASSUME seen' = 1 .. writes', NEW i \in Items
      PROVE  \/ shown'[i] = Listing'[i]
             \/ kind = "members" /\ mayEdit /\ i \in Invites
                /\ \E d \in Slots : Asks(call'[d]) /\ call'[d].op = "invites"
  <2>1. writes' = writes
    <3>1. writes + 1 \in 1 .. writes + 1 /\ writes + 1 \notin seen
      BY <1>0
    <3> QED  BY <1>4, <3>1
  <2>2. \A d \in Slots : Asks(call[d]) /\ call[d].op = "invites"
                         => Asks(call'[d]) /\ call'[d].op = "invites"
    BY <1>1
  <2> QED  BY <1>2, <1>4, <2>1, <2>2 DEF Fetched
<1>5. \A d \in Slots : Asks(call'[d]) => /\ call'[d].op # "template"
                                         /\ call'[d].op = "invites" => kind = "members" /\ mayEdit
  BY <1>1 DEF Fetched
<1> QED  BY <1>0, <1>3, <1>4, <1>5 DEF Fetched, Patched, Rowed, Asks, Brings, Told1

LEMMA FetchedClick ==
  ASSUME ListsInv, Fetched, ~Patched, NEW by, NEW op, NEW i, NEW v,
         Click(by, op, i, v), op \in {"set", "add", "remove"}
  PROVE  Fetched'
<1>1. PICK c \in Slots :
       /\ Free(c)
       /\ call' = [d \in Slots |->
            IF d = c THEN [Asked(by, op, i, v) EXCEPT
              !.kept = None,
              !.crossed = UNION {Marks(call[e].op, call[e].item) : e \in {e \in Slots : ~Free(e)}}]
            ELSE IF Free(d) THEN call[d]
            ELSE [call[d] EXCEPT !.crossed = @ \cup Marks(op, i)]]
  BY DEF Click, Start
<1>0. call \in [Slots -> Calls] /\ UNCHANGED <<server, page>> /\ Listing' = Listing
  BY DEF ListsInv, Click, server, Listing
<1>2. Asks(call'[c]) /\ call'[c].op = op /\ ~Brings(call'[c]) /\ ~Asks(call[c])
  BY <1>1 DEF Asked, NoCall, Asks, Brings, Told1, Free
<1>3. ASSUME NEW d \in Slots, d # c
      PROVE  /\ call'[d].at = call[d].at /\ call'[d].op = call[d].op /\ call'[d].ok = call[d].ok
             /\ call'[d].upto = call[d].upto /\ call'[d].reply = call[d].reply
  <2>1. CASE Free(d)
    BY <1>1, <1>3, <2>1
  <2>2. CASE ~Free(d)
    <3>1. call'[d] = [call[d] EXCEPT !.crossed = @ \cup Marks(op, i)]
      BY <1>1, <1>3, <2>2
    <3> QED  BY <1>0, <3>1 DEF Calls
  <2> QED  BY <2>1, <2>2
<1> QED  BY <1>0, <1>2, <1>3 DEF Fetched, Patched, Rowed, Asks, Brings, Told1, server, page

LEMMA FetchedUser ==
  ASSUME ListsInv, Fetched, ~Patched, User
  PROVE  Fetched'
<1>k. kind \notin {"packing", "budget", "share"}
  BY DEF Patched, Rowed
<1>1. CASE Reopen
  <2>1. PICK c \in Slots :
         /\ Free(c)
         /\ call' = [d \in Slots |->
                       IF d = c THEN Asked("open", "load", None, None)
                       ELSE IF call[d].by = "open" THEN NoCall ELSE call[d]]
    BY <1>1 DEF Reopen
  <2>2. kind = "comments" /\ UNCHANGED <<server, page>> /\ Listing' = Listing
    BY <1>1 DEF Reopen, server, Listing
  <2>3. \A d \in Slots : \/ call'[d] = call[d] \/ call'[d] = NoCall
                         \/ call'[d] = Asked("open", "load", None, None)
    BY <2>1
  <2>4. ~Asks(NoCall) /\ ~Brings(NoCall)
    BY NoCallSound DEF Brings, Told1, Asks
  <2>5. \A y : y = Asked("open", "load", None, None) => y.op = "load" /\ ~Brings(y)
    BY DEF Asked, NoCall, Brings, Told1
  <2> QED  BY <2>2, <2>3, <2>4, <2>5 DEF Fetched, Patched, Rowed, Asks, Brings, Told1, server, page
<1>2. CASE SendComment \/ RemoveComment
  BY <1>2, FetchedClick DEF SendComment, RemoveComment
<1>3. CASE ChangeRole \/ RemoveMember \/ LeaveTrip \/ CreateInvite \/ Revoke
  BY <1>3, FetchedClick DEF ChangeRole, RemoveMember, LeaveTrip, CreateInvite, Revoke
<1> QED
  BY <1>k, <1>1, <1>2, <1>3
     DEF User, Toggle, RemoveItem, AddItem, AddTemplate, AddExpense, UpdateAmount, RemoveExpense,
         SaveSettings, HandleToggle, RecapToggle, ReopenShare

LEMMA FailFetched ==
  ASSUME ListsInv, Fetched, ~Patched, NEW c \in Slots, Asks(call[c]), Fails(c),
         UNCHANGED <<rows, writes>>, Keep
  PROVE  Fetched'
<1> DEFINE y == [call[c] EXCEPT !.at = "back", !.ok = FALSE, !.reply = None,
                                !.upto = 0, !.wrote = 0]
<1>1. call[c] \in Calls /\ writes \in Nat
  BY DEF ListsInv, Placed
<1>2. /\ y \in Calls /\ y.op = call[c].op /\ ~Brings(y) /\ Asks(y)
  BY <1>1 DEF Calls, Brings, Told1, Asks
<1>3. Answer(c, y) /\ UNCHANGED <<kind, mayEdit, rows, writes, shown, seen>>
  BY DEF Fails, Keep, page
<1> HIDE DEF y
<1> QED  BY <1>1, <1>2, <1>3, FetchedAfter DEF Fetched

LEMMA CommitFetched ==
  ASSUME ListsInv, Fetched, ~Patched, NEW c \in Slots, call[c].at = "out",
         call[c].op \in {"add", "set", "remove", "settings"}, NEW x \in Calls, Answer(c, x), Keep,
         x.at = "back", x.op = call[c].op, writes' = writes + 1
  PROVE  Fetched'
<1>1. ~Brings(x) /\ Asks(x) /\ x.op \notin {"template", "invites"} /\ writes \in Nat
  BY DEF Brings, Asks, ListsInv, Placed
<1>2. UNCHANGED <<kind, mayEdit, shown, seen>>
  BY DEF Keep, page
<1> QED  BY <1>1, <1>2, FetchedAfter

LEMMA ServeFetched ==
  ASSUME ListsInv, Fetched, ~Patched, NEW c \in Slots, Serve(c)
  PROVE  Fetched'
<1>0. call[c] \in Calls /\ writes \in Nat /\ writes + 1 \in Nat /\ Keep
  BY DEF ListsInv, Placed, Serve
<1>1. CASE ServeAdd(c)
  <2>1. PICK i \in Items :
       /\ writes' = writes + 1
       /\ Answer(c, [call[c] EXCEPT !.at = "back", !.ok = TRUE, !.item = i, !.val = "a",
                                    !.wrote = writes', !.upto = writes'])
    BY <1>1 DEF ServeAdd
  <2> DEFINE y == [call[c] EXCEPT !.at = "back", !.ok = TRUE, !.item = i, !.val = "a",
                                  !.wrote = writes + 1, !.upto = writes + 1]
  <2>2. y \in Calls /\ y.at = "back" /\ y.op = call[c].op
    BY <1>0 DEF Calls, Values
  <2>3. Answer(c, y)
    BY <2>1 DEF Answer
  <2> HIDE DEF y
  <2> QED  BY <1>0, <1>1, <2>1, <2>2, <2>3, CommitFetched DEF ServeAdd, Out
<1>2. ASSUME NEW r, Commit(c, r), call[c].at = "out", call[c].op \in {"set", "remove", "settings"}
      PROVE  Fetched'
  <2> DEFINE y == [call[c] EXCEPT !.at = "back", !.ok = TRUE, !.wrote = writes + 1,
                                  !.upto = writes + 1]
  <2>1. y \in Calls /\ y.at = "back" /\ y.op = call[c].op
    BY <1>0 DEF Calls
  <2>2. Answer(c, y) /\ writes' = writes + 1
    BY <1>2 DEF Answer, Commit
  <2> HIDE DEF y
  <2> QED  BY <1>0, <1>2, <2>1, <2>2, CommitFetched
<1>3. CASE ServeSet(c) \/ ServeRemove(c) \/ ServeSettings(c)
  BY <1>2, <1>3 DEF ServeSet, ServeRemove, ServeSettings, Out
<1>4. CASE ServeTemplate(c)
  BY <1>4 DEF ServeTemplate, Out, Fetched, Asks
<1>5. CASE ServeMissing(c)
  BY <1>0, <1>5, FailFetched DEF ServeMissing, Out, Asks
<1>6. CASE ServeLoad(c)
  <2> DEFINE rep == IF call[c].op = "sum" THEN None ELSE Listing
             y == [call[c] EXCEPT !.at = "back", !.ok = TRUE, !.upto = writes, !.reply = rep]
  <2>1. rep \in Lists \cup {None}
    BY ListingListed DEF ListsInv
  <2>2. /\ Answer(c, y) /\ UNCHANGED <<kind, mayEdit, rows, writes, shown, seen>>
        /\ Listing' = Listing /\ Asks(call[c]) /\ (rep # Listing => call[c].op = "sum")
        /\ call[c].op \in {"load", "invites", "sum"}
    BY <1>0, <1>6 DEF ServeLoad, Keep, page, Listing, Out, Asks
  <2> HIDE DEF rep
  <2>3. y \in Calls /\ y.op = call[c].op /\ Asks(y) /\ y.reply = rep
    BY <1>0, <2>1 DEF Calls, Asks
  <2>4. Brings(y) => y.reply = Listing
    BY <2>2, <2>3 DEF Brings
  <2> HIDE DEF y
  <2> QED  BY <1>0, <2>2, <2>3, <2>4, FetchedAfter DEF Fetched
<1> QED  BY <1>1, <1>3, <1>4, <1>5, <1>6 DEF Serve

LEMMA OtherFetched ==
  ASSUME ListsInv, Fetched, ~Patched, OtherEdit
  PROVE  Fetched'
<1>0. /\ writes \in Nat /\ writes >= 1 /\ seen \subseteq 1 .. writes /\ writes' = writes + 1
      /\ \A d \in Slots : Brings(call[d]) => call[d].upto <= writes /\ call[d].upto \in Nat
      /\ UNCHANGED <<kind, mayEdit, page, call>>
  BY DEF ListsInv, Placed, Past, Fetched, OtherEdit, Sound, Brings, Told1, Asks, Calls
<1>1. writes + 1 \in 1 .. writes + 1 /\ writes + 1 \notin seen
  BY <1>0
<1>2. \A d \in Slots : ~(Brings(call'[d]) /\ call'[d].upto = writes')
  BY <1>0
<1>3. seen' # 1 .. writes'
  BY <1>0, <1>1 DEF page
<1> QED  BY <1>0, <1>2, <1>3 DEF Fetched, Patched, Rowed, Asks, Brings, Told1, page

LEMMA AnsweredFetched ==
  ASSUME ListsInv, Fetched, ~Patched, NEW c \in Slots, Answered(c)
  PROVE  Fetched'
<1>0. /\ call \in [Slots -> Calls] /\ call[c] \in Calls /\ writes \in Nat /\ writes >= 1
      /\ seen \subseteq 1 .. writes /\ kind \notin {"packing", "budget", "share"}
      /\ shown \in Lists /\ Sound(call[c])
  BY DEF ListsInv, Placed, Past, Fetched, Patched, Rowed
<1>g. ASSUME NEW op \in {"load", "invites", "sum"}, Ends(c) \/ Goes(c, op)
      PROVE  \E x \in Calls : /\ Answer(c, x) /\ ~Brings(x)
                              /\ IF Ends(c) THEN ~Asks(x) \/ x.op = op ELSE Asks(x) /\ x.op = op
                              /\ Asks(x) => x.op = op
  <2>1. CASE Ends(c)
    BY <2>1, NoCallSound DEF Ends, Brings, Told1, Asks
  <2>2. CASE Goes(c, op) /\ ~Ends(c)
    <3> DEFINE y == [Asked(call[c].by, op, None, None) EXCEPT !.crossed = call[c].crossed]
    <3>1. y \in Calls /\ y.op = op /\ y.at = "out"
      BY <1>0 DEF Asked, NoCall, Calls
    <3>2. Answer(c, y)
      BY <2>2 DEF Goes
    <3> HIDE DEF y
    <3> QED  BY <2>2, <3>1, <3>2 DEF Brings, Told1, Asks
  <2> QED  BY <1>g, <2>1, <2>2
<1>1. CASE \/ CommentSent(c) \/ CommentRemoved(c)
           \/ RoleChanged(c) \/ InviteCreated(c) \/ MemberRemoved(c)
  <2>1. /\ Ends(c) \/ Goes(c, "load")
        /\ UNCHANGED <<kind, mayEdit, rows, writes, shown, seen>>
        /\ call[c].op # "invites"
    BY <1>1 DEF CommentSent, CommentRemoved, RoleChanged, InviteCreated, MemberRemoved, Fetches,
                Back, server, page
  <2>2. PICK x \in Calls : Answer(c, x) /\ ~Brings(x) /\ (Asks(x) => x.op = "load")
    BY <1>g, <2>1
  <2> QED  BY <1>0, <2>1, <2>2, FetchedAfter
<1>2. CASE BudgetReloaded(c)
  <2>1. /\ Ends(c) /\ UNCHANGED <<kind, mayEdit, rows, writes, shown, seen>>
        /\ call[c].op = "sum"
    BY <1>2 DEF BudgetReloaded, Back, server
  <2>2. PICK x \in Calls : Answer(c, x) /\ ~Brings(x) /\ (Asks(x) => x.op = "load")
    BY <1>g, <2>1
  <2> QED  BY <1>0, <2>1, <2>2, FetchedAfter
<1>3. CASE InvitesLoaded(c)
  <2>1. /\ call[c].at = "back" /\ call[c].op = "invites" /\ Ends(c)
        /\ UNCHANGED <<kind, mayEdit, rows, writes>> /\ Listing' = Listing
        /\ kind = "members" /\ mayEdit
        /\ IF call[c].ok
           THEN /\ shown' = [i \in Items |-> IF i \in Invites THEN call[c].reply[i] ELSE shown[i]]
                /\ seen' = seen \cap (1 .. call[c].upto)
           ELSE shown' = shown /\ seen' = {}
    BY <1>3 DEF InvitesLoaded, Back, server, Listing, Fetched, Asks
  <2>2. \A d \in Slots : call'[d] = call[d] \/ call'[d] = NoCall
    BY <1>0, <2>1 DEF Ends, Answer
  <2>3. ASSUME seen' = 1 .. writes', NEW i \in Items PROVE shown'[i] = Listing'[i]
    <3>1. 1 \in 1 .. writes /\ writes \in 1 .. writes
      BY <1>0
    <3>2. call[c].ok /\ seen = 1 .. writes /\ writes \in 1 .. call[c].upto
      BY <1>0, <2>1, <2>3, <3>1
    <3>3. call[c].upto \in Nat /\ call[c].upto <= writes
      BY <1>0, <2>1 DEF Calls, Sound, Asks
    <3>4. call[c].upto = writes /\ Brings(call[c])
      BY <1>0, <2>1, <3>2, <3>3 DEF Brings, Told1
    <3>5. call[c].reply = Listing /\ (i \notin Invites => shown[i] = Listing[i])
      BY <3>2, <3>4 DEF Fetched
    <3> QED  BY <2>1, <3>2, <3>5
  <2>4. ~Asks(NoCall) /\ ~Brings(NoCall)
    BY NoCallSound DEF Brings, Told1, Asks
  <2> QED  BY <1>0, <2>1, <2>2, <2>3, <2>4 DEF Fetched, Patched, Rowed, Asks, Brings, Told1
<1>4. CASE Loaded(c)
  <2>1. /\ call[c].at = "back" /\ call[c].op = "load" /\ Asks(call[c])
        /\ UNCHANGED <<kind, mayEdit, rows, writes>> /\ Listing' = Listing
        /\ IF call[c].ok
           THEN /\ shown' = [i \in Items |-> IF kind = "members" /\ i \in Invites THEN shown[i]
                                             ELSE call[c].reply[i]]
                /\ seen' = 1 .. call[c].upto
           ELSE UNCHANGED <<shown, seen>>
        /\ IF call[c].ok /\ kind = "members" /\ mayEdit THEN Goes(c, "invites") ELSE Ends(c)
    BY <1>4 DEF Loaded, Back, server, Listing, Asks
  <2>2. PICK x \in Calls :
          /\ Answer(c, x) /\ ~Brings(x)
          /\ Asks(x) => x.op = "invites" /\ kind = "members" /\ mayEdit
          /\ call[c].ok /\ kind = "members" /\ mayEdit => Asks(x) /\ x.op = "invites"
    <3>1. CASE call[c].ok /\ kind = "members" /\ mayEdit
      <4> DEFINE y == [Asked(call[c].by, "invites", None, None) EXCEPT !.crossed = call[c].crossed]
      <4>1. y \in Calls /\ y.op = "invites" /\ y.at = "out"
        BY <1>0 DEF Asked, NoCall, Calls
      <4>2. Answer(c, y)
        BY <2>1, <3>1 DEF Goes
      <4> HIDE DEF y
      <4> QED  BY <3>1, <4>1, <4>2 DEF Brings, Told1, Asks
    <3>2. CASE ~(call[c].ok /\ kind = "members" /\ mayEdit)
      BY <2>1, <3>2, NoCallSound DEF Ends, Brings, Told1, Asks
    <3> QED  BY <3>1, <3>2
  <2>3. call'[c] = x /\ \A d \in Slots : d # c => call'[d] = call[d]
    BY <1>0, <2>2 DEF Answer
  <2>4. CASE ~call[c].ok
    BY <1>0, <2>1, <2>2, <2>4, FetchedAfter
  <2>5. CASE call[c].ok
    <3>1. kind = "members" /\ ~mayEdit => \A i \in Invites : shown'[i] = <<>>
      BY <2>1, <2>5, ListsAssumption DEF Fetched
    <3>2. ASSUME seen' = 1 .. writes', NEW i \in Items
          PROVE  \/ shown'[i] = Listing'[i]
                 \/ kind = "members" /\ mayEdit /\ i \in Invites /\ Asks(call'[c])
                    /\ call'[c].op = "invites"
      <4>1. call[c].upto \in Nat /\ call[c].upto <= writes
        BY <1>0, <2>1 DEF Calls, Sound
      <4>2. writes \in 1 .. writes /\ 1 .. call[c].upto = 1 .. writes
        BY <1>0, <2>1, <2>5, <3>2
      <4>3. call[c].upto = writes
        BY <1>0, <4>1, <4>2
      <4>4. call[c].reply = Listing
        BY <2>1, <2>5, <4>3 DEF Fetched, Brings, Told1
      <4>5. CASE kind = "members" /\ i \in Invites
        <5>1. CASE mayEdit
          BY <2>2, <2>3, <2>5, <4>5, <5>1
        <5>2. CASE ~mayEdit
          BY <2>1, <3>1, <4>5, <5>2 DEF Listing
        <5> QED  BY <5>1, <5>2
      <4> QED  BY <2>1, <2>5, <4>4, <4>5
    <3> QED
      BY <1>0, <2>1, <2>2, <2>3, <3>1, <3>2 DEF Fetched, Patched, Rowed, Asks, Brings, Told1
  <2> QED  BY <2>4, <2>5
<1> QED
  BY <1>0, <1>1, <1>2, <1>3, <1>4
     DEF Answered, ToggleAnswered, RemoveAnswered, ItemAdded, TemplateAdded, ExpenseAdded,
         AmountUpdated, ExpenseRemoved, SettingsSaved, ShareOpened, LinkSwitched, RecapSwitched

-----------------------------------------------------------------------------
ExactInv == ListsInv /\ CopyInv /\ (Patched => Exact) /\ Fetched

LEMMA InitExact ==
  ASSUME ListsAssumption, Init
  PROVE  (Patched => Exact) /\ Fetched
<1>1. PICK open \in Slots :
       call = [c \in Slots |->
                 IF c # open \/ (kind = "share" /\ rows[Link] = None) THEN NoCall
                 ELSE IF kind = "share" THEN Asked("open", "add", Link, None)
                 ELSE Asked("open", "load", None, None)]
  BY DEF Init
<1>2. /\ kind \in Kinds /\ writes = 1 /\ rows \in [Items -> {None, "a"}]
      /\ Link \in Items /\ Recap \in Items \ {Link}
      /\ kind = "share" => \A i \in Items \ {Link} : rows[i] = IF i = Recap THEN "a" ELSE None
      /\ view = IF kind \in {"packing", "budget"} THEN "loading" ELSE "ready"
      /\ shown = IF kind = "share" THEN Listing ELSE [i \in Items |-> <<>>]
      /\ seen = IF kind = "share" THEN {1} ELSE {}
  BY ListsAssumption DEF Init
<1>3. \A y : y = NoCall => ~Asks(y)
  BY NoCallSound
<1>4. \A y : y = Asked("open", "load", None, None) =>
        /\ y.at = "out" /\ y.op = "load" /\ y.item = None /\ y.wrote = 0
  BY DEF Asked, NoCall
<1>5. \A y : y = Asked("open", "add", Link, None) =>
        /\ y.at = "out" /\ y.op = "add" /\ y.item = Link /\ y.wrote = 0 /\ y.by = "open"
  BY DEF Asked, NoCall
<1>6. \A d \in Slots : Asks(call[d]) =>
        /\ d = open /\ call[d].at = "out" /\ call[d].wrote = 0
        /\ IF kind = "share"
           THEN /\ call[d].op = "add" /\ call[d].item = Link /\ call[d].by = "open"
                /\ rows[Link] # None
           ELSE call[d].op = "load" /\ call[d].item = None
  BY <1>1, <1>3, <1>4, <1>5
<1>7. \A d \in Slots : ~Owes(call[d]) /\ ~Brings(call[d]) /\ (~Asks(call[d]) \/ ~Told1(call[d]))
  BY <1>6 DEF Owes, Brings, Told1, Asks
<1>8. ASSUME Patched PROVE Exact
  <2>1. Orderly
    <3>1. \A d \in Slots : Posted(call[d])
      BY <1>2, <1>6, <1>7 DEF Posted, Rowed, Reads
    <3>2. \A d, e \in Slots : d # e => ~(Asks(call[d]) /\ Asks(call[e]))
      BY <1>6
    <3> QED  BY <1>2, <3>1, <3>2 DEF Orderly
  <2>2. \A d \in Slots : Standing(call[d])
    BY <1>7 DEF Standing
  <2>3. Unmade
    BY <1>2, <1>6, <1>7, ListsAssumption DEF Unmade, Void, Lacks, Rowed
  <2>4. Adds /\ Replies
    BY <1>7 DEF Adds, Replies
  <2>5. Switch
    BY <1>2 DEF Switch, Values
  <2>6. Shows
    <3> SUFFICES ASSUME Whole(seen, Owed, writes)
                 PROVE  /\ \A i \in Items : Right(i)
                        /\ \A d \in Slots : Asks(call[d]) => Tells(call[d])
      BY DEF Shows
    <3>1. kind = "share" /\ shown = Listing
      BY <1>2 DEF Whole
    <3>2. rows[Link] # None => shown[Link] = <<"a">>
      BY <1>2, <3>1 DEF Listing, Values
    <3> QED  BY <1>6, <1>7, <3>1, <3>2 DEF Right, Tells
  <2> QED  BY <2>1, <2>2, <2>3, <2>4, <2>5, <2>6 DEF Exact
<1>9. Fetched
  <2> SUFFICES ASSUME ~Patched PROVE Fetched
    BY DEF Fetched
  <2>1. kind # "share" /\ seen # 1 .. writes /\ \A i \in Items : shown[i] = <<>>
    BY <1>2 DEF Patched, Rowed
  <2> QED  BY <1>2, <1>6, <1>7, <2>1, ListsAssumption DEF Fetched
<1> QED  BY <1>8, <1>9

(* The page that is open stays the one that is open.                       *)
LEMMA KindStays ==
  ASSUME User \/ OtherEdit \/ CopyReplaced \/ \E c \in Slots : Serve(c) \/ Lost(c) \/ Answered(c)
  PROVE  kind' = kind
<1>1. CASE User
  <2>1. \A by, op, i, v : Click(by, op, i, v) => kind' = kind
    BY DEF Click, server
  <2> QED
    BY <1>1, <2>1
       DEF User, Toggle, RemoveItem, AddItem, AddTemplate, AddExpense, UpdateAmount,
           RemoveExpense, SaveSettings, SendComment, RemoveComment, Reopen, ChangeRole,
           RemoveMember, LeaveTrip, CreateInvite, Revoke, HandleToggle, RecapToggle,
           ReopenShare, server
<1>2. CASE OtherEdit \/ CopyReplaced
  BY <1>2 DEF OtherEdit, CopyReplaced
<1>3. ASSUME NEW c \in Slots, Serve(c) \/ Lost(c) PROVE kind' = kind
  BY <1>3 DEF Serve, Lost, Keep
<1>4. ASSUME NEW c \in Slots, Answered(c) PROVE kind' = kind
  BY <1>4
     DEF Answered, Loaded, InvitesLoaded, ToggleAnswered, RemoveAnswered, ItemAdded,
         TemplateAdded, ExpenseAdded, AmountUpdated, ExpenseRemoved, SettingsSaved,
         BudgetReloaded, CommentSent, CommentRemoved, RoleChanged, InviteCreated,
         MemberRemoved, ShareOpened, LinkSwitched, RecapSwitched, server
<1> QED  BY <1>1, <1>2, <1>3, <1>4

LEMMA ExactInvariant == Spec => []ExactInv
<1>1. Init => ExactInv
  BY ListsAssumption, InitExact, ListsInit DEF ExactInv
<1>2. ExactInv /\ [Next]_vars => ExactInv'
  <2> SUFFICES ASSUME ExactInv, [Next]_vars PROVE ExactInv'
    OBVIOUS
  <2>0. ListsInv /\ CopyInv /\ (ListsInv /\ CopyInv)' /\ (Patched => Exact) /\ Fetched
    <3>1. ListsInv /\ CopyInv /\ (Patched => Exact) /\ Fetched
      BY DEF ExactInv
    <3> QED  BY <3>1, ListsNext
  <2>1. CASE UNCHANGED vars
    <3>1. UNCHANGED <<kind, mayEdit, rows, writes, view, shown, seen, call>>
      BY <2>1 DEF vars, server, page
    <3>2. \A d \in Slots : /\ Owes(call[d])' <=> Owes(call[d])
                           /\ Brings(call[d])' <=> Brings(call[d])
      BY <3>1 DEF Owes, Brings, Told1, Patched, Rowed
    <3>3. Owed' = Owed /\ Listing' = Listing /\ (Patched' <=> Patched) /\ (Rowed' <=> Rowed)
      BY <3>1, <3>2 DEF Owed, Listing, Patched, Rowed
    <3>4. Orderly => Orderly'
      BY <3>1, <3>3 DEF Orderly, Posted, Apart, Crosses, Asks, Told1
    <3>5. ((\A d \in Slots : Standing(call[d])) => \A d \in Slots : Standing(call[d])')
          /\ (Unmade => Unmade') /\ (Adds => Adds') /\ (Replies => Replies') /\ (Switch => Switch')
      BY <3>1, <3>2, <3>3
         DEF Standing, Unmade, Void, Lacks, Adds, Made, After, Replies, Whole, Switch, Asks
    <3>6. Shows => Shows'
      BY <3>1, <3>2, <3>3 DEF Shows, Whole, Right, Excuses, Tells, Wants, Asks
    <3>7. Fetched => Fetched'
      BY <3>1, <3>2, <3>3 DEF Fetched, Asks
    <3> QED  BY <2>0, <3>3, <3>4, <3>5, <3>6, <3>7 DEF ExactInv, Exact
  <2>2. ASSUME Next PROVE ExactInv'
    <3>k. kind' = kind
      BY <2>2, KindStays DEF Next
    <3>1. ASSUME Patched PROVE Exact'
      <4>1. \/ User \/ OtherEdit \/ CopyReplaced \/ \E c \in Slots : Serve(c) \/ Lost(c) \/ Answered(c)
        BY <2>2 DEF Next
      <4>2. Exact
        BY <3>1 DEF ExactInv
      <4> QED
        BY <2>0, <3>1, <4>1, <4>2, ListsAssumption,
           UserExact, OtherEditExact, CopyReplacedExact, ServeExact, LostExact, AnsweredExact
    <3>2. ASSUME ~Patched PROVE Fetched'
      <4>1. \/ User \/ OtherEdit \/ CopyReplaced \/ \E c \in Slots : Serve(c) \/ Lost(c) \/ Answered(c)
        BY <2>2 DEF Next
      <4>2. Fetched
        BY DEF ExactInv
      <4>3. \A c \in Slots : Lost(c) => Fetched'
        BY <2>0, <3>2, <4>2, FailFetched DEF Lost, Asks
      <4>4. ~CopyReplaced
        BY <3>2 DEF CopyReplaced, Patched
      <4> QED
        BY <2>0, <3>2, <4>1, <4>2, <4>3, <4>4, FetchedUser, OtherFetched, ServeFetched, AnsweredFetched
    <3>3. (Patched' <=> Patched)
      BY <3>k DEF Patched, Rowed
    <3> QED  BY <2>0, <3>1, <3>2, <3>3 DEF ExactInv, Fetched
  <2> QED  BY <2>1, <2>2
<1> QED  BY <1>1, <1>2, PTL DEF Spec

(* A page that reflects every commit, with no call under way, shows exactly*)
(* the rows of the server.                                                 *)
LEMMA RestIsExact ==
  ASSUME ExactInv
  PROVE  ListExact
<1> SUFFICES ASSUME AtRest, seen = 1 .. writes PROVE shown = Listing
  BY DEF ListExact
<1>1. \A c \in Slots : ~Asks(call[c]) /\ ~Owes(call[c])
  BY DEF AtRest, Asks, Owes, Told1
<1>2. ASSUME NEW i \in Items PROVE shown[i] = Listing[i]
  <2>1. CASE Patched
    <3>1. writes >= 1 /\ writes \in Nat
      BY <2>1 DEF ExactInv, Exact, Orderly, ListsInv, Placed
    <3>2. Whole(seen, Owed, writes)
      BY <3>1 DEF Whole
    <3> QED  BY <1>1, <2>1, <3>2 DEF ExactInv, Exact, Shows, Right
  <2>2. CASE ~Patched
    BY <1>1, <2>2 DEF ExactInv, Fetched
  <2> QED  BY <2>1, <2>2
<1>3. shown = [i \in Items |-> shown[i]] /\ Listing = [i \in Items |-> Listing[i]]
  BY DEF ExactInv, ListsInv, Placed, Lists, Listing
<1> QED  BY <1>2, <1>3

(* For any number of rows, calls under way and edits by others: a page at  *)
(* rest that reflects every commit shows exactly the server's rows, each   *)
(* once, whether it patches them or fetches them again                     *)
(* (packing/page.tsx:74, budget/page.tsx:97, ShareModal.tsx:46).           *)
THEOREM ListsExact == Spec => []ListExact
<1>1. ExactInv => ListExact
  BY RestIsExact
<1> QED  BY <1>1, ExactInvariant, PTL
=============================================================================
