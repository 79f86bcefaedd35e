-------------------------- MODULE DiscoveryProofs --------------------------
(* The invariant of the discovery pages.  What it says of a call depends   *)
(* on how far the call has come, so its parts are stated of one call       *)
(* record and hold of every call under way.                                *)
EXTENDS Discovery, TLAPS

(* Pending: an answer that will tell the page of a new version.  Load: a   *)
(* step of the mount effect.  Going: not yet answered by the server.       *)
Pending(x) == x.at = "back" /\ x.op \in Edits /\ x.status = "ok"
Load(x) == x.mine /\ x.op \in {"trip", "list"}
Tallying(x) == x.mine /\ x.op = "votes"
Going(x) == x.at \in {"out", "running", "writing"}
Got(x, op) == x.at = "back" /\ x.op = op /\ x.status = "ok"

(* What the page shows is what the server has.                             *)
Current == list.gen = rows.gen /\ list.places = rows.places
Right == tallies = IF list.gen = rows.gen THEN votes ELSE {}

(* A call names no version and no rows that are yet to come.               *)
Bounded(x) ==
  /\ x.match # None => x.match <= version
  /\ x.gen # None => x.gen <= rows.gen
  /\ x.version # None => /\ x.version <= version
                         /\ x.at = "back" /\ x.status = "ok" /\ x.op \in {"trip"} \cup Edits

(* The page waits for an answer, and for which ones in which view.         *)
Waited(x) ==
  /\ x.at = "idle" => ~x.mine
  /\ x.at = "back" => x.mine
  /\ Load(x) => view = "loading" /\ (x.op = "list" => known # None)
  /\ x.mine /\ x.op \in Edits \cup {"vote"} => view # "loading"
  /\ Got(x, "trip") => x.version # None

(* The page sends its edits on the version it remembers, and the answer to *)
(* one that passed tells it of a later one.                                *)
Conditioned(x) ==
  /\ Going(x) /\ x.op \in Edits =>
       x.match # None /\ (x.mine => known # None /\ x.match <= known)
  /\ Pending(x) => x.version # None /\ known # None /\ known < x.version

(* A discovery that may still commit has read the rows there are, and once *)
(* it writes it has read every vote that is due.                           *)
Searching(x) ==
  /\ x.op = "discover" /\ x.at \in {"running", "writing"} /\ x.match = version =>
       x.gen = rows.gen
  /\ x.op = "discover" /\ x.at = "writing" /\ x.match = version => due \subseteq x.moved

(* An answer that makes the page remember the present version brings the   *)
(* present suggestions, or leaves them on the page.                        *)
Listing(x) ==
  /\ Got(x, "discover") => /\ x.gen # None /\ (list.gen # None => list.gen < x.gen)
                           /\ x.version = version => x.gen = rows.gen /\ x.places = rows.places
  /\ Pending(x) /\ x.op \in Builds /\ x.version = version =>
       (view = "ready" /\ list.places # {} => Current)
  /\ Got(x, "list") /\ known = version => x.gen = rows.gen /\ x.places = rows.places
  /\ Got(x, "list") => x.gen # None

(* Votes name rows the page has shown, and an answer with tallies of which *)
(* nothing has become stale brings the votes there are.                    *)
Voting(x) ==
  /\ x.mine /\ x.op = "vote" => /\ x.gen # None /\ list.gen # None /\ x.gen <= list.gen
                                /\ x.gen = list.gen => ~refetch
  /\ Got(x, "vote") /\ x.gen = list.gen => stale
  /\ Got(x, "votes") => x.gen # None
  /\ Got(x, "votes") /\ ~stale => x.gen = rows.gen /\ x.tally = votes

Fits(x) == Bounded(x) /\ Waited(x) /\ Conditioned(x) /\ Searching(x) /\ Listing(x) /\ Voting(x)

(* Edits that pass on one version are accepted once, so one answer at most *)
(* is pending; the mount effect does one step at a time.                   *)
Alone(f) == \A c, d \in Calls :
  (Pending(f[c]) /\ Pending(f[d])) \/ (Load(f[c]) /\ Load(f[d])) => c = d

Typed ==
  /\ home \in Homes
  /\ version \in Nat /\ rows \in Rows /\ votes \in SUBSET Places /\ due \in SUBSET Places
  /\ call \in [Calls -> CallRecords]
  /\ view \in Views /\ known \in Nat \cup {None}
  /\ list \in [gen : Nat \cup {None}, places : SUBSET Places, chosen : SUBSET Places]
  /\ discovering \in BOOLEAN /\ paused \in BOOLEAN /\ tallies \in SUBSET Places
  /\ refetch \in BOOLEAN /\ stale \in BOOLEAN

Shown ==
  /\ known # None => known <= version
  /\ list.gen # None => list.gen <= rows.gen
  /\ list.places # {} => list.gen # None
  /\ view = "ready" => known # None
  /\ view = "loading" => list.gen = None /\ list.places = {} /\ tallies = {}
  /\ view = "ready" /\ known = version /\ list.places # {} => Current

Tallied ==
  view = "ready" /\ home.shared /\ ~stale /\ ~refetch /\ (\A c \in Calls : ~Tallying(call[c])) => Right

DiscInv == Typed /\ Shown /\ due \subseteq votes /\ (\A c \in Calls : Fits(call[c])) /\ Alone(call) /\ Tallied
-----------------------------------------------------------------------------
LEMMA NoCallFits ==
  ASSUME DiscInv
  PROVE  NoCall \in CallRecords /\ Fits(NoCall)
<1>1. NoCall \in CallRecords
  BY DEF NoCall, CallRecords, Ops, Builds
<1>2. version \in Nat /\ rows.gen \in Nat /\ 0 <= rows.gen
  BY DEF DiscInv, Typed, Rows
<1>3. Bounded(NoCall) /\ Waited(NoCall) /\ Conditioned(NoCall)
  BY <1>2 DEF NoCall, Bounded, Waited, Conditioned, Load, Got, Going, Pending, Edits, Builds
<1>4. Searching(NoCall) /\ Listing(NoCall) /\ Voting(NoCall)
  BY DEF NoCall, Searching, Listing, Voting, Got, Pending, Edits, Builds
<1> QED  BY <1>1, <1>3, <1>4 DEF Fits

(* One call changes and nothing else of what the invariant is about.       *)
Still ==
  /\ UNCHANGED <<server, stale, view, known, list, tallies, refetch>>
  /\ discovering' \in BOOLEAN /\ paused' \in BOOLEAN

LEMMA ReadsAreStill == DiscInv /\ Reads => Still
BY DEF DiscInv, Typed, Reads, Stays, Still, server, status

LEMMA PatchedStill ==
  ASSUME DiscInv, NEW c \in Calls, NEW x \in CallRecords, Sent(c, x), Still, Fits(x),
         Tallying(call[c]) => Tallying(x), Load(x) => Load(call[c]),
         Pending(x) => Pending(call[c])
  PROVE  DiscInv'
<1>1. call \in [Calls -> CallRecords] /\ call' \in [Calls -> CallRecords]
      /\ call'[c] = x /\ \A d \in Calls : d # c => call'[d] = call[d]
  BY DEF DiscInv, Typed, Sent
<1>2. Typed'
  BY <1>1 DEF DiscInv, Typed, Still, server
<1>3. Shown' /\ (due \subseteq votes)'
  BY DEF DiscInv, Shown, Current, Still, server
<1>4. (\A d \in Calls : Fits(call[d]))'
  <2> SUFFICES ASSUME NEW d \in Calls PROVE Fits(call[d])'
    OBVIOUS
  <2>1. Fits(call'[d])
    BY <1>1 DEF DiscInv
  <2> QED
    BY <2>1 DEF Fits, Bounded, Waited, Conditioned, Searching, Listing, Voting, Current,
                Still, server, Got, Pending, Load, Going
<1>5. Alone(call)'
  <2> SUFFICES ASSUME NEW d \in Calls, NEW e \in Calls,
                      (Pending(call'[d]) /\ Pending(call'[e])) \/ (Load(call'[d]) /\ Load(call'[e]))
               PROVE  d = e
    BY DEF Alone
  <2>1. (Pending(call'[d]) => Pending(call[d])) /\ (Pending(call'[e]) => Pending(call[e]))
    BY <1>1
  <2>2. (Load(call'[d]) => Load(call[d])) /\ (Load(call'[e]) => Load(call[e]))
    BY <1>1
  <2> QED  BY <2>1, <2>2 DEF DiscInv, Alone
<1>6. Tallied'
  <2>1. (\A d \in Calls : ~Tallying(call'[d])) => \A d \in Calls : ~Tallying(call[d])
    BY <1>1
  <2>2. Tallied
    BY DEF DiscInv
  <2> QED  BY <2>1, <2>2 DEF Tallied, Right, Tallying, Still, server
<1> QED  BY <1>2, <1>3, <1>4, <1>5, <1>6 DEF DiscInv

LEMMA Patched ==
  ASSUME DiscInv, NEW c \in Calls, NEW x \in CallRecords, Sent(c, x), Reads, Fits(x),
         Tallying(call[c]) => Tallying(x), Load(x) => Load(call[c]),
         Pending(x) => Pending(call[c])
  PROVE  DiscInv'
BY ReadsAreStill, PatchedStill

(* An answer that commits nothing.                                         *)
LEMMA Replied ==
  ASSUME DiscInv, NEW c \in Calls, NEW y \in CallRecords, Answer(c, y), Reads,
         y.mine = call[c].mine, y.op = call[c].op,
         y.mine => Fits([y EXCEPT !.at = "back"]),
         y.op \in Edits => y.status # "ok"
  PROVE  DiscInv'
<1>1. CASE call[c].mine
  <2> DEFINE x == [y EXCEPT !.at = "back"]
  <2>1. x \in CallRecords /\ x.mine = y.mine /\ x.op = y.op /\ x.status = y.status
    BY DEF CallRecords
  <2>2. Sent(c, x) /\ Fits(x)
    BY <1>1 DEF Answer
  <2>3. (Tallying(call[c]) => Tallying(x)) /\ (Load(x) => Load(call[c])) /\ ~Pending(x)
    BY <2>1 DEF Tallying, Load, Pending
  <2> HIDE DEF x
  <2> QED  BY <2>1, <2>2, <2>3, Patched
<1>2. CASE ~call[c].mine
  <2>1. Sent(c, NoCall)
    BY <1>2 DEF Answer
  <2>2. ~Tallying(call[c]) /\ ~Load(NoCall) /\ ~Pending(NoCall)
    BY <1>2 DEF Tallying, Load, Pending, NoCall
  <2> QED  BY <2>1, <2>2, NoCallFits, Patched
<1> QED  BY <1>1, <1>2

(* A failure brings nothing back.                                          *)
LEMMA FailureFits ==
  ASSUME DiscInv, NEW c \in Calls, call[c].at # "idle", call[c].mine,
         NEW y \in CallRecords, y.at = "back", y.status # "ok", y.version = None,
         y.op = call[c].op, y.mine = call[c].mine, y.gen = call[c].gen, y.match = call[c].match
  PROVE  Fits(y)
<1>1. Fits(call[c])
  BY DEF DiscInv
<1>2. Bounded(y) /\ Waited(y)
  BY <1>1 DEF Fits, Bounded, Waited, Load, Got, Pending
<1>3. Conditioned(y) /\ Searching(y) /\ Listing(y) /\ Voting(y)
  BY <1>1 DEF Fits, Conditioned, Searching, Listing, Voting, Got, Going, Pending
<1> QED  BY <1>2, <1>3 DEF Fits

LEMMA FailsKeeps ==
  ASSUME DiscInv, NEW c \in Calls, call[c].at # "idle", call[c].version = None,
         NEW st \in {"refused", "conflict", "missing", "paused", "error"},
         Fails(c, st), Reads
  PROVE  DiscInv'
<1> DEFINE y == [call[c] EXCEPT !.status = st]
<1>0. call[c] \in CallRecords
  BY DEF DiscInv, Typed
<1>1. y \in CallRecords /\ [y EXCEPT !.at = "back"] \in CallRecords
  BY <1>0 DEF CallRecords
<1>2. call[c].mine => Fits([y EXCEPT !.at = "back"])
  <2> DEFINE x == [y EXCEPT !.at = "back"]
  <2>1. /\ x.at = "back" /\ x.status # "ok" /\ x.version = None /\ x.op = call[c].op
        /\ x.mine = call[c].mine /\ x.gen = call[c].gen /\ x.match = call[c].match
    BY <1>0 DEF CallRecords
  <2>2. x \in CallRecords
    BY <1>1
  <2> HIDE DEF x
  <2>3. call[c].mine => Fits(x)
    BY <2>1, <2>2, FailureFits
  <2> QED  BY <2>3 DEF x
<1>3. Answer(c, y) /\ y.mine = call[c].mine /\ y.op = call[c].op /\ y.status # "ok"
  BY <1>0, <1>1 DEF Fails, CallRecords
<1> HIDE DEF y
<1> QED  BY <1>0, <1>1, <1>2, <1>3, Replied

LEMMA Unanswered ==
  ASSUME DiscInv, NEW c \in Calls, Going(call[c]) \/ call[c].at = "writing"
  PROVE  call[c].version = None /\ call[c].at # "idle" /\ call[c] \in CallRecords
BY DEF DiscInv, Typed, Fits, Bounded, Going

LEMMA RefusalKeeps ==
  ASSUME DiscInv, NEW c \in Calls, Refuse(c)
  PROVE  DiscInv'
<1>1. Refusal(c) \in {"refused", "conflict", "missing"} /\ Fails(c, Refusal(c)) /\ Reads
  BY DEF Refuse, Refusal
<1>2. call[c].version = None /\ call[c].at # "idle"
  BY Unanswered DEF Refuse, Going
<1> QED  BY <1>1, <1>2, FailsKeeps

LEMMA StoppedKeeps ==
  ASSUME DiscInv, NEW c \in Calls, Stopped(c)
  PROVE  DiscInv'
BY Unanswered, FailsKeeps DEF Stopped, Going

LEMMA LostKeeps ==
  ASSUME DiscInv, NEW c \in Calls, Lost(c)
  PROVE  DiscInv'
<1> DEFINE y == [call[c] EXCEPT !.status = "error", !.version = None]
<1>1. call[c] \in CallRecords /\ y \in CallRecords /\ [y EXCEPT !.at = "back"] \in CallRecords
  BY DEF DiscInv, Typed, CallRecords
<1>2. call[c].mine => Fits([y EXCEPT !.at = "back"])
  BY <1>1, FailureFits DEF CallRecords, Lost
<1>3. Answer(c, y) /\ Reads /\ y.mine = call[c].mine /\ y.op = call[c].op /\ y.status # "ok"
  BY <1>1 DEF Lost, CallRecords
<1> HIDE DEF y
<1> QED  BY <1>1, <1>2, <1>3, Replied

LEMMA ServedKeeps ==
  ASSUME DiscInv, NEW c \in Calls, ServeTrip(c) \/ ServeList(c) \/ ServeVotes(c)
  PROVE  DiscInv'
<1>0. /\ call[c].version = None /\ call[c].at = "out" /\ call[c] \in CallRecords
      /\ Fits(call[c]) /\ Reads
  BY Unanswered DEF ServeTrip, ServeList, ServeVotes, Takes, Going, DiscInv
<1>t. version \in Nat /\ rows.gen \in Nat /\ rows.places \in SUBSET Places /\ votes \in SUBSET Places
  BY DEF DiscInv, Typed, Rows
<1>n. None \notin Nat
  BY DiscoveryAssumption
<1>1. CASE ServeTrip(c)
  <2> DEFINE y == [call[c] EXCEPT !.status = "ok", !.version = version]
             x == [y EXCEPT !.at = "back"]
  <2>1. y \in CallRecords /\ x \in CallRecords /\ y.mine = call[c].mine /\ y.op = "trip"
        /\ call[c].op = "trip" /\ Answer(c, y)
    BY <1>0, <1>1, <1>t DEF CallRecords, ServeTrip, Takes
  <2>2. /\ x.op = "trip" /\ x.at = "back" /\ x.mine = call[c].mine /\ x.match = call[c].match
        /\ x.gen = call[c].gen /\ x.version = version /\ x.status = "ok"
    BY <1>0, <2>1 DEF CallRecords
  <2> HIDE DEF x
  <2>3. y.mine => Fits(x)
    BY <1>0, <1>t, <1>n, <2>1, <2>2
       DEF Fits, Bounded, Waited, Conditioned, Searching, Listing, Voting, Load, Got, Going,
           Pending, Edits, Builds
  <2> QED  BY <1>0, <2>1, <2>3, Replied DEF x, Edits, Builds
<1>2. CASE ServeList(c)
  <2> DEFINE y == [call[c] EXCEPT !.status = "ok", !.gen = rows.gen, !.places = rows.places]
             x == [y EXCEPT !.at = "back"]
  <2>1. y \in CallRecords /\ x \in CallRecords /\ y.mine = call[c].mine /\ y.op = "list"
        /\ call[c].op = "list" /\ Answer(c, y)
    BY <1>0, <1>2, <1>t DEF CallRecords, ServeList, Takes
  <2>2. /\ x.op = "list" /\ x.at = "back" /\ x.mine = call[c].mine /\ x.match = call[c].match
        /\ x.gen = rows.gen /\ x.places = rows.places /\ x.version = None /\ x.status = "ok"
    BY <1>0, <2>1 DEF CallRecords
  <2> HIDE DEF x
  <2>3. y.mine => Fits(x)
    BY <1>0, <1>t, <1>n, <2>1, <2>2
       DEF Fits, Bounded, Waited, Conditioned, Searching, Listing, Voting, Load, Got, Going,
           Pending, Edits, Builds
  <2> QED  BY <1>0, <2>1, <2>3, Replied DEF x, Edits, Builds
<1>3. CASE ServeVotes(c)
  <2> DEFINE y == [call[c] EXCEPT !.status = "ok", !.gen = rows.gen, !.tally = votes]
             x == [y EXCEPT !.at = "back"]
  <2>1. y \in CallRecords /\ x \in CallRecords /\ y.mine = call[c].mine /\ y.op = "votes"
        /\ call[c].op = "votes" /\ Answer(c, y)
    BY <1>0, <1>3, <1>t DEF CallRecords, ServeVotes, Takes
  <2>2. /\ x.op = "votes" /\ x.at = "back" /\ x.mine = call[c].mine /\ x.match = call[c].match
        /\ x.gen = rows.gen /\ x.tally = votes /\ x.version = None /\ x.status = "ok"
    BY <1>0, <2>1 DEF CallRecords
  <2> HIDE DEF x
  <2>3. y.mine => Fits(x)
    BY <1>0, <1>t, <1>n, <2>1, <2>2
       DEF Fits, Bounded, Waited, Conditioned, Searching, Listing, Voting, Load, Got, Going,
           Pending, Edits, Builds
  <2> QED  BY <1>0, <2>1, <2>3, Replied DEF x, Edits, Builds
<1> QED  BY <1>1, <1>2, <1>3

LEMMA BeginKeeps ==
  ASSUME DiscInv, NEW c \in Calls, Begin(c)
  PROVE  DiscInv'
<1> DEFINE x == IF call[c].op = "discover"
                THEN [call[c] EXCEPT !.at = "running", !.gen = rows.gen, !.places = rows.places]
                ELSE [call[c] EXCEPT !.at = "running"]
<1>0. /\ call[c].version = None /\ call[c].at = "out" /\ call[c] \in CallRecords
      /\ call[c].op \in Edits /\ Fits(call[c]) /\ Reads /\ Sent(c, x)
  BY Unanswered DEF Begin, Takes, Going, DiscInv
<1>t. rows.gen \in Nat /\ rows.places \in SUBSET Places
  BY DEF DiscInv, Typed, Rows
<1>1. x \in CallRecords /\ x.at = "running" /\ x.mine = call[c].mine /\ x.op = call[c].op
      /\ x.match = call[c].match /\ x.version = None
      /\ (x.op = "discover" => x.gen = rows.gen) /\ (x.op # "discover" => x.gen = call[c].gen)
  BY <1>0, <1>t DEF CallRecords
<1> HIDE DEF x
<1>2. Fits(x)
  BY <1>0, <1>t, <1>1
     DEF Fits, Bounded, Waited, Conditioned, Searching, Listing, Voting, Load, Got, Going,
         Pending, Edits, Builds
<1>3. (Tallying(call[c]) => Tallying(x)) /\ (Load(x) => Load(call[c])) /\ ~Pending(x)
  BY <1>1 DEF Tallying, Load, Pending
<1> QED  BY <1>0, <1>1, <1>2, <1>3, Patched

(* A discovery that may still commit has read the rows there are, so it    *)
(* moves every vote.                                                       *)
LEMMA CarryOverKeeps ==
  ASSUME DiscInv, NEW c \in Calls, CarryOver(c)
  PROVE  DiscInv'
<1>0. /\ call[c].version = None /\ call[c].at = "running" /\ call[c] \in CallRecords
      /\ call[c].op = "discover" /\ Fits(call[c]) /\ Reads /\ due \subseteq votes
  BY Unanswered DEF CarryOver, Going, DiscInv
<1>t. votes \in SUBSET Places
  BY DEF DiscInv, Typed
<1>1. PICK found \in SUBSET Places :
        Sent(c, [call[c] EXCEPT !.at = "writing", !.new = found,
                                !.moved = IF call[c].gen = rows.gen THEN votes ELSE {}])
  BY DEF CarryOver
<1> DEFINE x == [call[c] EXCEPT !.at = "writing", !.new = found,
                                !.moved = IF call[c].gen = rows.gen THEN votes ELSE {}]
<1>2. x \in CallRecords /\ x.at = "writing" /\ x.mine = call[c].mine /\ x.op = "discover"
      /\ x.match = call[c].match /\ x.version = None /\ x.gen = call[c].gen
      /\ (call[c].gen = rows.gen => x.moved = votes)
  BY <1>0, <1>t DEF CallRecords
<1>3. Sent(c, x)
  BY <1>1
<1> HIDE DEF x
<1>4. Fits(x)
  BY <1>0, <1>2
     DEF Fits, Bounded, Waited, Conditioned, Searching, Listing, Voting, Load, Got, Going,
         Pending, Edits, Builds
<1>5. (Tallying(call[c]) => Tallying(x)) /\ (Load(x) => Load(call[c])) /\ ~Pending(x)
  BY <1>0, <1>2 DEF Tallying, Load, Pending
<1> QED  BY <1>0, <1>2, <1>3, <1>4, <1>5, Patched

LEMMA VoteTargetKeeps ==
  ASSUME DiscInv, NEW c \in Calls, VoteTarget(c)
  PROVE  DiscInv'
<1>0. /\ call[c].version = None /\ call[c].at = "out" /\ call[c] \in CallRecords
      /\ call[c].op = "vote" /\ Fits(call[c]) /\ Reads
  BY Unanswered DEF VoteTarget, Takes, Going, DiscInv
<1>1. CASE Fails(c, "missing")
  BY <1>0, <1>1, FailsKeeps
<1>2. CASE Sent(c, [call[c] EXCEPT !.at = "writing"])
  <2> DEFINE x == [call[c] EXCEPT !.at = "writing"]
  <2>1. x \in CallRecords /\ x.at = "writing" /\ x.mine = call[c].mine /\ x.op = "vote"
        /\ x.match = call[c].match /\ x.version = None /\ x.gen = call[c].gen
    BY <1>0 DEF CallRecords
  <2>2. Sent(c, x)
    BY <1>2
  <2> HIDE DEF x
  <2>3. Fits(x)
    BY <1>0, <2>1
       DEF Fits, Bounded, Waited, Conditioned, Searching, Listing, Voting, Load, Got, Going,
           Pending, Edits, Builds
  <2>4. (Tallying(call[c]) => Tallying(x)) /\ (Load(x) => Load(call[c])) /\ ~Pending(x)
    BY <1>0, <2>1 DEF Tallying, Load, Pending
  <2> QED  BY <1>0, <2>1, <2>2, <2>3, <2>4, Patched
<1> QED  BY <1>1, <1>2 DEF VoteTarget

(* What the page or somebody else sends.                                   *)
LEMMA OutIs ==
  ASSUME Typed, NEW op \in Ops, NEW gen \in Nat \cup {None}, NEW places \in SUBSET Places
  PROVE  /\ Out(op, gen, places) \in CallRecords
         /\ Out(op, gen, places).at = "out" /\ Out(op, gen, places).op = op
         /\ Out(op, gen, places).mine /\ Out(op, gen, places).gen = gen
         /\ Out(op, gen, places).version = None
         /\ Out(op, gen, places).match = IF op \in Edits THEN known ELSE None
BY DEF Out, NoCall, CallRecords, Typed

LEMMA OtherCallKeeps ==
  ASSUME DiscInv, NEW c \in Calls, OtherCall(c)
  PROVE  DiscInv'
<1>0. ~call[c].mine /\ Reads /\ Typed
  BY DEF OtherCall, Free, DiscInv, Fits, Waited
<1>t. version \in Nat /\ rows.gen \in Nat /\ rows.places \in SUBSET Places /\ None \notin Nat
  BY DiscoveryAssumption DEF DiscInv, Typed, Rows
<1>a. ASSUME NEW x \in CallRecords, Sent(c, x), ~x.mine, x.at = "out", x.version = None,
             x.match # None => x.match <= version, x.gen # None => x.gen <= rows.gen,
             x.op \in Edits => x.match # None
      PROVE  DiscInv'
  <2>1. Fits(x)
    BY <1>a DEF Fits, Bounded, Waited, Conditioned, Searching, Listing, Voting, Load, Got, Going,
                Pending
  <2>2. ~Tallying(call[c]) /\ ~Load(x) /\ ~Pending(x)
    BY <1>0, <1>a DEF Tallying, Load, Pending
  <2> QED  BY <1>0, <1>a, <2>1, <2>2, Patched
<1>1. CASE Sent(c, [Out("discover", 0, {}) EXCEPT !.mine = FALSE, !.match = version])
  <2> DEFINE o == Out("discover", 0, {})
             x == [o EXCEPT !.mine = FALSE, !.match = version]
  <2>0. o \in CallRecords /\ o.at = "out" /\ o.version = None /\ o.gen = 0
    BY <1>0, OutIs DEF Ops
  <2> HIDE DEF o
  <2>1. x \in CallRecords /\ ~x.mine /\ x.at = "out" /\ x.version = None /\ x.match = version
        /\ x.gen = 0
    BY <1>t, <2>0 DEF CallRecords
  <2>2. Sent(c, x)
    BY <1>1 DEF o
  <2> HIDE DEF x
  <2> QED  BY <1>a, <1>t, <2>1, <2>2
<1>2. ASSUME NEW p \in rows.places, NEW new \in {{}, {p}},
             Sent(c, [Out("vote", rows.gen, {p}) EXCEPT !.mine = FALSE, !.new = new])
      PROVE  DiscInv'
  <2> DEFINE o == Out("vote", rows.gen, {p})
             x == [o EXCEPT !.mine = FALSE, !.new = new]
  <2>a. {p} \in SUBSET Places /\ new \in SUBSET Places
    BY <1>t
  <2>0. /\ o \in CallRecords /\ o.at = "out" /\ o.version = None /\ o.gen = rows.gen
        /\ o.op = "vote" /\ o.match = None
    BY <1>0, <1>t, <2>a, OutIs DEF Ops, Edits, Builds
  <2> HIDE DEF o
  <2>1. x \in CallRecords /\ ~x.mine /\ x.at = "out" /\ x.version = None /\ x.match = None
        /\ x.gen = rows.gen /\ x.op = "vote"
    BY <2>a, <2>0 DEF CallRecords
  <2>2. Sent(c, x)
    BY <1>2 DEF o
  <2> HIDE DEF x
  <2> QED  BY <1>a, <1>t, <2>1, <2>2 DEF Edits, Builds
<1> QED  BY <1>1, <1>2 DEF OtherCall

-----------------------------------------------------------------------------
(* Commits.                                                                *)

LEMMA Assembled ==
  ASSUME DiscInv, NEW c \in Calls, NEW x \in CallRecords, Sent(c, x),
         Load(x) => Load(call[c]),
         Pending(x) => \A d \in Calls : ~Pending(call[d]),
         \A y \in CallRecords : Fits(y) /\ (\E d \in Calls \ {c} : call[d] = y) => Fits(y)',
         Fits(x)',
         Typed', Shown', (due \subseteq votes)', Tallied'
  PROVE  DiscInv'
<1>1. call \in [Calls -> CallRecords] /\ call' \in [Calls -> CallRecords]
      /\ call'[c] = x /\ \A d \in Calls : d # c => call'[d] = call[d]
  BY DEF DiscInv, Typed, Sent
<1>2. (\A d \in Calls : Fits(call[d]))'
  <2> SUFFICES ASSUME NEW d \in Calls PROVE Fits(call[d])'
    OBVIOUS
  <2>1. CASE d = c
    BY <1>1, <2>1 DEF Fits, Bounded, Waited, Conditioned, Searching, Listing, Voting, Current,
                      Got, Pending, Load, Going
  <2>2. CASE d # c
    <3> DEFINE y == call[d]
    <3>1. y \in CallRecords /\ Fits(y) /\ call'[d] = y
      BY <1>1, <2>2 DEF DiscInv
    <3>2. PICK z \in CallRecords : z = y
      BY <3>1
    <3>3. Fits(z)' /\ call'[d] = z
      <4>1. Fits(z)
        BY <3>1, <3>2 DEF DiscInv
      <4>2. \E e \in Calls \ {c} : call[e] = z
        BY <2>2, <3>2
      <4> QED  BY <3>1, <3>2, <4>1, <4>2
    <3> QED
      BY <3>3 DEF Fits, Bounded, Waited, Conditioned, Searching, Listing, Voting, Current,
                  Got, Pending, Load, Going
  <2> QED  BY <2>1, <2>2
<1>3. Alone(call)'
  <2> SUFFICES ASSUME NEW d \in Calls, NEW e \in Calls,
                      (Pending(call'[d]) /\ Pending(call'[e])) \/ (Load(call'[d]) /\ Load(call'[e]))
               PROVE  d = e
    BY DEF Alone
  <2>1. (Load(call'[d]) => Load(call[d])) /\ (Load(call'[e]) => Load(call[e]))
    BY <1>1
  <2>2. ASSUME Pending(call'[d]), Pending(call'[e]), d # e PROVE FALSE
    <3>1. (d # c => Pending(call[d])) /\ (e # c => Pending(call[e]))
      BY <1>1, <2>2
    <3>2. ~Pending(x)
      BY <2>2, <3>1
    <3>3. d # c /\ e # c
      BY <1>1, <2>2, <3>2
    <3> QED  BY <2>2, <3>1, <3>3 DEF DiscInv, Alone
  <2> QED  BY <2>1, <2>2 DEF DiscInv, Alone
<1> QED  BY <1>2, <1>3 DEF DiscInv

(* A page whose edit goes through has taken in the answers to all edits    *)
(* of its own.                                                             *)
LEMMA NothingPending ==
  ASSUME DiscInv, NEW c \in Calls, Going(call[c]), call[c].op \in Edits, Matches(c)
  PROVE  /\ call[c].match = version
         /\ call[c].mine => known = version /\ \A d \in Calls : ~Pending(call[d])
<1>1. call[c].match = version
  BY DEF DiscInv, Fits, Conditioned, Matches
<1>2. version \in Nat /\ known \in Nat \cup {None} /\ (known # None => known <= version)
  BY DEF DiscInv, Typed, Shown
<1>3. call[c].mine => known = version
  BY <1>1, <1>2 DEF DiscInv, Fits, Conditioned
<1>4. ASSUME NEW d \in Calls, Pending(call[d]), call[c].mine PROVE FALSE
  <2>1. Fits(call[d]) /\ call[d] \in CallRecords
    BY DEF DiscInv, Typed
  <2>2. call[d].version \in Nat /\ known < call[d].version /\ call[d].version <= version
    BY <1>4, <2>1 DEF Fits, Conditioned, Bounded, CallRecords
  <2> QED  BY <1>2, <1>3, <1>4, <2>2
<1> QED  BY <1>1, <1>3, <1>4

(* A commit of something else than suggestions.                            *)
LEMMA VersionFits ==
  ASSUME DiscInv, version' = version + 1, UNCHANGED <<rows, votes, due, stale>>, Stays
  PROVE  /\ Typed' <=> call' \in [Calls -> CallRecords]
         /\ Shown' /\ (due \subseteq votes)'
         /\ \A y \in CallRecords : Fits(y) => Fits(y)'
<1>t. /\ version \in Nat /\ known \in Nat \cup {None} /\ (known # None => known <= version)
      /\ None \notin Nat
  BY DiscoveryAssumption DEF DiscInv, Typed, Shown
<1>1. Typed' <=> call' \in [Calls -> CallRecords]
  BY DEF DiscInv, Typed, Stays, status
<1>2. Shown' /\ (due \subseteq votes)'
  BY <1>t DEF DiscInv, Shown, Current, Stays
<1>3. ASSUME NEW y \in CallRecords, Fits(y) PROVE Fits(y)'
  <2>1. y.match \in Nat \cup {None} /\ y.version \in Nat \cup {None} /\ y.gen \in Nat \cup {None}
    BY DEF CallRecords
  <2>2. Bounded(y)' /\ Waited(y)' /\ Conditioned(y)'
    BY <1>t, <1>3, <2>1 DEF Fits, Bounded, Waited, Conditioned, Stays, Load, Got, Going, Pending
  <2>3. Searching(y)' /\ Voting(y)'
    BY <1>t, <1>3, <2>1 DEF Fits, Bounded, Searching, Voting, Stays, Got
  <2>4. Listing(y)'
    BY <1>t, <1>3, <2>1 DEF Fits, Bounded, Listing, Stays, Got, Pending, Current
  <2> QED  BY <2>2, <2>3, <2>4 DEF Fits
<1> QED  BY <1>1, <1>2, <1>3

LEMMA OtherEditKeeps ==
  ASSUME DiscInv, OtherEdit
  PROVE  DiscInv'
<1>1. /\ version' = version + 1 /\ UNCHANGED <<rows, votes, due, stale>> /\ Stays /\ call' = call
  BY DEF OtherEdit
<1>2. call \in [Calls -> CallRecords]
  BY DEF DiscInv, Typed
<1>3. Typed' /\ Shown' /\ (due \subseteq votes)' /\ \A y \in CallRecords : Fits(y) => Fits(y)'
  BY <1>1, <1>2, VersionFits
<1>4. (\A d \in Calls : Fits(call[d]))'
  <2> SUFFICES ASSUME NEW d \in Calls PROVE Fits(call[d])'
    OBVIOUS
  <2>1. PICK z \in CallRecords : z = call[d]
    BY <1>2
  <2>2. Fits(z)' /\ call'[d] = z
    BY <1>1, <1>3, <2>1 DEF DiscInv
  <2> QED
    BY <2>2 DEF Fits, Bounded, Waited, Conditioned, Searching, Listing, Voting, Current,
                Got, Pending, Load, Going
<1>5. Alone(call)' /\ Tallied'
  BY <1>1 DEF DiscInv, Alone, Pending, Load, Tallied, Tallying, Right, Stays
<1> QED  BY <1>3, <1>4, <1>5 DEF DiscInv

(* A build leaves the suggestions; the page that hears of its new version  *)
(* showed them when it was sent.                                           *)
LEMMA BuildCommitKeeps ==
  ASSUME DiscInv, NEW c \in Calls, BuildCommit(c)
  PROVE  DiscInv'
<1>0. /\ call[c].version = None /\ call[c].at = "running" /\ call[c] \in CallRecords
      /\ call[c].op \in Builds /\ call[c].op \in Edits /\ Fits(call[c]) /\ Going(call[c])
  BY Unanswered DEF BuildCommit, Going, DiscInv, Edits
<1>t. /\ version \in Nat /\ known \in Nat \cup {None} /\ (known # None => known <= version)
      /\ None \notin Nat
  BY DiscoveryAssumption DEF DiscInv, Typed, Shown
<1>1. CASE ~Matches(c)
  BY <1>0, <1>1, FailsKeeps DEF BuildCommit
<1>2. CASE Matches(c)
  <2>0. /\ version' = version + 1 /\ UNCHANGED <<rows, votes, due, stale>> /\ Stays
    BY <1>2 DEF BuildCommit
  <2>a. call[c].match = version /\ (call[c].mine => known = version /\ \A d \in Calls : ~Pending(call[d]))
    BY <1>0, <1>2, NothingPending
  <2>k. ASSUME NEW x \in CallRecords, Sent(c, x), Fits(x)', ~Load(x), ~Tallying(call[c]),
               Pending(x) => call[c].mine
        PROVE  DiscInv'
    <3>1. call' \in [Calls -> CallRecords] /\ call'[c] = x /\ \A d \in Calls : d # c => call'[d] = call[d]
      BY <2>k DEF DiscInv, Typed, Sent
    <3>2. Typed' /\ Shown' /\ (due \subseteq votes)' /\ \A y \in CallRecords : Fits(y) => Fits(y)'
      BY <2>0, <3>1, VersionFits
    <3>3. (\A d \in Calls : ~Tallying(call'[d])) => \A d \in Calls : ~Tallying(call[d])
      BY <2>k, <3>1
    <3>4. Tallied'
      BY <2>0, <3>3 DEF DiscInv, Tallied, Tallying, Right, Stays
    <3> QED  BY <2>a, <2>k, <3>2, <3>4, Assembled
  <2>n. ~Tallying(call[c])
    BY <1>0 DEF Tallying, Builds
  <2>1. CASE ~call[c].mine
    <3>1. Sent(c, NoCall)
      BY <1>2, <2>1 DEF BuildCommit, Answer, Fails
    <3>2. NoCall \in CallRecords /\ Fits(NoCall)' /\ ~Load(NoCall) /\ ~Pending(NoCall)
      BY <2>0, NoCallFits, VersionFits DEF Load, Pending, NoCall
    <3> QED  BY <2>k, <2>n, <3>1, <3>2
  <2>2. CASE call[c].mine /\ Answer(c, [call[c] EXCEPT !.status = "ok", !.version = version'])
    <3>0. version + 1 \in Nat
      BY <1>t
    <3>a. [call[c] EXCEPT !.status = "ok", !.version = version + 1, !.at = "back"] \in CallRecords
      BY <1>0, <3>0 DEF CallRecords
    <3>b. PICK x \in CallRecords :
            x = [call[c] EXCEPT !.status = "ok", !.version = version + 1, !.at = "back"]
      BY <3>a
    <3>1. Sent(c, x)
      BY <1>0, <2>0, <2>2, <3>b DEF Answer
    <3>2. /\ x.at = "back" /\ x.op = call[c].op /\ x.mine = call[c].mine /\ x.status = "ok"
          /\ x.match = call[c].match /\ x.gen = call[c].gen /\ x.version = version + 1
      BY <1>0, <3>b DEF CallRecords
    <3>3. view = "ready" /\ list.places # {} => Current
      BY <2>2, <2>a DEF DiscInv, Shown
    <3>4. Fits(x)'
      <4>0. Bounded(x)'
        BY <1>0, <1>t, <2>0, <2>a, <3>2 DEF Fits, Bounded, Stays
      <4>1. Waited(x)'
        BY <1>0, <2>0, <2>2, <3>2 DEF Fits, Waited, Load, Got, Stays, Builds
      <4>2. Conditioned(x)' /\ Searching(x)' /\ Voting(x)'
        BY <1>0, <1>t, <2>0, <2>2, <2>a, <3>2
           DEF Fits, Conditioned, Searching, Voting, Got, Going, Pending, Stays, Builds, Edits
      <4>3. Listing(x)'
        BY <1>0, <2>0, <3>2, <3>3 DEF Fits, Listing, Got, Pending, Current, Stays, Builds, Edits
      <4> QED  BY <4>0, <4>1, <4>2, <4>3 DEF Fits
    <3>5. ~Load(x)
      BY <1>0, <3>2 DEF Load, Builds
    <3> QED  BY <2>2, <2>k, <2>n, <3>1, <3>2, <3>4, <3>5
  <2>3. CASE call[c].mine /\ Fails(c, "error")
    <3>a. [call[c] EXCEPT !.status = "error", !.at = "back"] \in CallRecords
      BY <1>0 DEF CallRecords
    <3>b. PICK x \in CallRecords : x = [call[c] EXCEPT !.status = "error", !.at = "back"]
      BY <3>a
    <3>1. Sent(c, x)
      BY <1>0, <2>3, <3>b DEF Answer, Fails
    <3>2. /\ x.at = "back" /\ x.op = call[c].op /\ x.mine = call[c].mine
          /\ x.match = call[c].match /\ x.gen = call[c].gen /\ x.version = None /\ x.status = "error"
      BY <1>0, <3>b DEF CallRecords
    <3>3. Fits(x)
      BY <1>0, <2>3, <3>2, FailureFits
    <3>4. Fits(x)'
      BY <2>0, <3>2, <3>3, VersionFits
    <3>5. ~Load(x) /\ ~Pending(x)
      BY <1>0, <3>2 DEF Load, Pending, Builds
    <3> QED  BY <2>k, <2>n, <3>1, <3>2, <3>4, <3>5
  <2> QED  BY <1>2, <2>1, <2>2, <2>3 DEF BuildCommit
<1> QED  BY <1>1, <1>2

(* A discovery commits new rows, to which it has moved every vote.         *)
LEMMA RowsFit ==
  ASSUME DiscInv, version' = version + 1, NEW c \in Calls, call[c].new \in SUBSET Places,
         rows' = [gen |-> rows.gen + 1, places |-> call[c].new],
         due' = due \cap call[c].new, stale' = TRUE, Stays,
         NEW y \in CallRecords, Fits(y)
  PROVE  Fits(y)'
<1>t. /\ version \in Nat /\ known \in Nat \cup {None} /\ (known # None => known <= version)
      /\ None \notin Nat /\ rows.gen \in Nat /\ rows'.gen = rows.gen + 1
      /\ list.gen \in Nat \cup {None} /\ (list.gen # None => list.gen <= rows.gen)
  BY DiscoveryAssumption DEF DiscInv, Typed, Shown, Rows
<1>1. y.match \in Nat \cup {None} /\ y.version \in Nat \cup {None} /\ y.gen \in Nat \cup {None}
  BY DEF CallRecords
<1>2. Bounded(y)' /\ Waited(y)' /\ Conditioned(y)'
  BY <1>t, <1>1 DEF Fits, Bounded, Waited, Conditioned, Stays, Load, Got, Going, Pending
<1>3. Searching(y)' /\ Voting(y)'
  BY <1>t, <1>1 DEF Fits, Bounded, Searching, Voting, Stays, Got
<1>4. Listing(y)'
  BY <1>t, <1>1 DEF Fits, Bounded, Listing, Stays, Got, Pending, Current
<1> QED  BY <1>2, <1>3, <1>4 DEF Fits

LEMMA DiscoverCommitKeeps ==
  ASSUME DiscInv, NEW c \in Calls, DiscoverCommit(c)
  PROVE  DiscInv'
<1>0. /\ call[c].version = None /\ call[c].at = "writing" /\ call[c] \in CallRecords
      /\ call[c].op = "discover" /\ call[c].op \in Edits /\ Fits(call[c]) /\ Going(call[c])
      /\ call[c].new \in SUBSET Places /\ call[c].moved \in SUBSET Places
  BY Unanswered DEF DiscoverCommit, Going, DiscInv, Edits, CallRecords
<1>t. /\ version \in Nat /\ known \in Nat \cup {None} /\ (known # None => known <= version)
      /\ None \notin Nat /\ rows.gen \in Nat
      /\ list.gen \in Nat \cup {None} /\ (list.gen # None => list.gen <= rows.gen)
  BY DiscoveryAssumption DEF DiscInv, Typed, Shown, Rows
<1>1. CASE ~Matches(c)
  BY <1>0, <1>1, FailsKeeps DEF DiscoverCommit
<1>2. CASE Matches(c)
  <2>0. /\ version' = version + 1 /\ rows' = [gen |-> rows.gen + 1, places |-> call[c].new]
        /\ votes' = call[c].moved \cap call[c].new /\ due' = due \cap call[c].new
        /\ stale' = TRUE /\ Stays
    BY <1>2 DEF DiscoverCommit
  <2>a. call[c].match = version /\ (call[c].mine => known = version /\ \A d \in Calls : ~Pending(call[d]))
    BY <1>0, <1>2, NothingPending
  <2>b. (due \subseteq votes)'
    BY <1>0, <2>0, <2>a DEF Fits, Searching
  <2>c. rows' \in Rows /\ rows'.gen = rows.gen + 1 /\ rows'.places = call[c].new
    BY <1>0, <1>t, <2>0 DEF Rows
  <2>d. Shown'
    BY <1>t, <2>0, <2>c DEF DiscInv, Shown, Current, Stays
  <2>e. Tallied'
    BY <2>0 DEF Tallied
  <2>k. ASSUME NEW x \in CallRecords, Sent(c, x), Fits(x)', ~Load(x), Pending(x) => call[c].mine
        PROVE  DiscInv'
    <3>1. call' \in [Calls -> CallRecords]
      BY <2>k DEF DiscInv, Typed, Sent
    <3>2. Typed'
      BY <1>0, <1>t, <2>0, <2>c, <3>1 DEF DiscInv, Typed, Stays, status
    <3>3. \A y \in CallRecords : Fits(y) => Fits(y)'
      BY <1>0, <2>0, RowsFit
    <3> QED  BY <2>a, <2>b, <2>d, <2>e, <2>k, <3>2, <3>3, Assembled
  <2>1. CASE ~call[c].mine
    <3>1. Sent(c, NoCall)
      BY <1>2, <2>1 DEF DiscoverCommit, Answer
    <3>2. NoCall \in CallRecords /\ Fits(NoCall)' /\ ~Load(NoCall) /\ ~Pending(NoCall)
      BY <1>0, <2>0, NoCallFits, RowsFit DEF Load, Pending, NoCall
    <3> QED  BY <2>k, <3>1, <3>2
  <2>2. CASE call[c].mine
    <3> DEFINE new == [call[c] EXCEPT !.status = "ok", !.version = version + 1, !.gen = rows.gen + 1,
                                      !.places = call[c].new, !.new = {}, !.moved = {},
                                      !.at = "back"]
    <3>0. version + 1 \in Nat /\ rows.gen + 1 \in Nat
      BY <1>t
    <3>a. new \in CallRecords
      BY <1>0, <3>0 DEF CallRecords
    <3>b. PICK x \in CallRecords : x = new
      BY <3>a
    <3>c. Answer(c, [call[c] EXCEPT !.status = "ok", !.version = version + 1, !.gen = rows.gen + 1,
                                    !.places = call[c].new, !.new = {}, !.moved = {}])
      BY <1>2, <2>0, <2>c DEF DiscoverCommit
    <3>1. Sent(c, x)
      BY <1>0, <2>2, <3>b, <3>c DEF Answer
    <3>2. /\ x.at = "back" /\ x.op = "discover" /\ x.mine /\ x.status = "ok"
          /\ x.match = version /\ x.gen = rows.gen + 1 /\ x.version = version + 1
          /\ x.places = call[c].new
      BY <1>0, <2>2, <2>a, <3>b DEF CallRecords
    <3>4. Fits(x)'
      <4>1. Bounded(x)'
        BY <1>t, <2>0, <2>c, <3>2 DEF Bounded, Edits
      <4>2. Waited(x)'
        BY <1>0, <2>0, <2>2, <3>2 DEF Fits, Waited, Load, Got, Stays
      <4>3. Conditioned(x)' /\ Searching(x)' /\ Voting(x)'
        BY <1>t, <2>0, <2>2, <2>a, <3>2
           DEF Conditioned, Searching, Voting, Got, Going, Pending, Stays
      <4>4. Listing(x)'
        BY <1>t, <2>0, <2>c, <3>2 DEF Listing, Got, Stays, Builds
      <4> QED  BY <4>1, <4>2, <4>3, <4>4 DEF Fits
    <3>5. ~Load(x)
      BY <3>2 DEF Load
    <3> QED  BY <2>2, <2>k, <3>1, <3>4, <3>5
  <2> QED  BY <2>1, <2>2
<1> QED  BY <1>1, <1>2

(* A vote: what is due is there, unless a discovery that may still commit  *)
(* has read the votes before.                                              *)
LEMMA VoteWriteKeeps ==
  ASSUME DiscInv, NEW c \in Calls, VoteWrite(c)
  PROVE  DiscInv'
<1>0. /\ call[c].version = None /\ call[c].at = "writing" /\ call[c] \in CallRecords
      /\ call[c].op = "vote" /\ Fits(call[c])
      /\ call[c].places \in SUBSET Places /\ call[c].new \in SUBSET Places
      /\ stale' = TRUE /\ UNCHANGED <<version, rows>> /\ Stays
  BY Unanswered DEF VoteWrite, Going, DiscInv, CallRecords
<1>1. (due \subseteq votes)' /\ votes' \in SUBSET Places /\ due' \in SUBSET Places
  BY <1>0 DEF VoteWrite, DiscInv, Typed
<1>2. \/ due' \subseteq due
      \/ \A d \in Calls : ~(call[d].at = "writing" /\ call[d].op = "discover")
  BY DEF VoteWrite
<1>3. Shown' /\ Tallied'
  BY <1>0 DEF DiscInv, Shown, Current, Tallied, Stays
<1>4. ASSUME NEW y \in CallRecords, Fits(y), y.op = "discover" /\ y.at = "writing" => due' \subseteq due
      PROVE  Fits(y)'
  <2>1. Bounded(y)' /\ Waited(y)' /\ Conditioned(y)'
    BY <1>0, <1>4 DEF Fits, Bounded, Waited, Conditioned, Stays, Load, Got, Going, Pending
  <2>2. Searching(y)'
    BY <1>0, <1>4 DEF Fits, Searching
  <2>3. Listing(y)'
    BY <1>0, <1>4 DEF Fits, Listing, Stays, Got, Pending, Current
  <2>4. Voting(y)'
    BY <1>0, <1>4 DEF Fits, Voting, Stays, Got
  <2> QED  BY <2>1, <2>2, <2>3, <2>4 DEF Fits
<1>5. PICK x \in CallRecords : Sent(c, x) /\ Fits(x)' /\ ~Load(x) /\ ~Pending(x)
  <2>1. CASE ~call[c].mine
    <3>1. Sent(c, NoCall)
      BY <2>1 DEF VoteWrite, Answer
    <3>2. NoCall \in CallRecords /\ Fits(NoCall)' /\ ~Load(NoCall) /\ ~Pending(NoCall)
      BY <1>4, NoCallFits DEF Load, Pending, NoCall
    <3> QED  BY <3>1, <3>2
  <2>2. CASE call[c].mine
    <3>a. [call[c] EXCEPT !.status = "ok", !.tally = call[c].new, !.at = "back"] \in CallRecords
      BY <1>0 DEF CallRecords
    <3>b. PICK x \in CallRecords :
            x = [call[c] EXCEPT !.status = "ok", !.tally = call[c].new, !.at = "back"]
      BY <3>a
    <3>1. Sent(c, x)
      BY <1>0, <2>2, <3>b DEF VoteWrite, Answer
    <3>2. /\ x.at = "back" /\ x.op = "vote" /\ x.mine /\ x.match = call[c].match
          /\ x.gen = call[c].gen /\ x.version = None /\ x.status = "ok"
      BY <1>0, <2>2, <3>b DEF CallRecords
    <3>3. Fits(x)'
      <4>1. Bounded(x)' /\ Waited(x)' /\ Conditioned(x)'
        BY <1>0, <2>2, <3>2
           DEF Fits, Bounded, Waited, Conditioned, Stays, Load, Got, Going, Pending, Edits, Builds
      <4>2. Searching(x)' /\ Listing(x)'
        BY <1>0, <3>2 DEF Fits, Searching, Listing, Stays, Got, Pending, Edits, Builds
      <4>3. Voting(x)'
        BY <1>0, <2>2, <3>2 DEF Fits, Voting, Stays, Got
      <4> QED  BY <4>1, <4>2, <4>3 DEF Fits
    <3> QED  BY <3>1, <3>2, <3>3 DEF Load, Pending, Edits, Builds
  <2> QED  BY <2>1, <2>2
<1>6. call \in [Calls -> CallRecords] /\ call' \in [Calls -> CallRecords]
      /\ call'[c] = x /\ \A d \in Calls : d # c => call'[d] = call[d]
  BY <1>5 DEF DiscInv, Typed, Sent
<1>7. Typed'
  BY <1>0, <1>1, <1>6 DEF DiscInv, Typed, Stays, status
<1>8. (\A d \in Calls : Fits(call[d]))'
  <2> SUFFICES ASSUME NEW d \in Calls PROVE Fits(call[d])'
    OBVIOUS
  <2>1. PICK z \in CallRecords : z = call'[d]
    BY <1>6
  <2>2. Fits(z)'
    BY <1>2, <1>4, <1>5, <1>6, <2>1 DEF DiscInv
  <2> QED
    BY <2>1, <2>2 DEF Fits, Bounded, Waited, Conditioned, Searching, Listing, Voting, Current,
                      Got, Pending, Load, Going
<1>9. Alone(call)'
  BY <1>5, <1>6 DEF DiscInv, Alone
<1> QED  BY <1>1, <1>3, <1>7, <1>8, <1>9 DEF DiscInv

-----------------------------------------------------------------------------
(* The steps of the page.                                                  *)

LEMMA PauseLiftedKeeps ==
  ASSUME DiscInv, PauseLifted
  PROVE  DiscInv'
<1>1. /\ UNCHANGED <<home, version, rows, votes, due, call, view, known, list, tallies, refetch, stale>>
      /\ discovering' = discovering /\ paused' \in BOOLEAN
  BY DEF PauseLifted, server, voting
<1>2. Typed' /\ Shown' /\ (due \subseteq votes)' /\ Alone(call)' /\ Tallied'
  BY <1>1 DEF DiscInv, Typed, Shown, Current, Alone, Pending, Load, Tallied, Tallying, Right
<1>3. (\A d \in Calls : Fits(call[d]))'
  BY <1>1 DEF DiscInv, Fits, Bounded, Waited, Conditioned, Searching, Listing, Voting, Current,
              Got, Pending, Load, Going
<1> QED  BY <1>2, <1>3 DEF DiscInv

LEMMA ToggleKeeps ==
  ASSUME DiscInv, Toggle
  PROVE  DiscInv'
<1>0. PICK p \in list.places :
        list' = [list EXCEPT !.chosen = IF p \in @ THEN @ \ {p} ELSE @ \cup {p}]
  BY DEF Toggle
<1>t. list \in [gen : Nat \cup {None}, places : SUBSET Places, chosen : SUBSET Places]
  BY DEF DiscInv, Typed
<1>1. /\ UNCHANGED <<home, version, rows, votes, due, call, view, known, discovering, paused,
                     tallies, refetch, stale>>
      /\ list'.gen = list.gen /\ list'.places = list.places
  BY <1>0, <1>t DEF Toggle, server, voting, status
<1>2. list' \in [gen : Nat \cup {None}, places : SUBSET Places, chosen : SUBSET Places]
  BY <1>0, <1>t
<1>3. Typed' /\ Shown' /\ (due \subseteq votes)' /\ Alone(call)' /\ Tallied'
  BY <1>1, <1>2 DEF DiscInv, Typed, Shown, Current, Alone, Pending, Load, Tallied, Tallying, Right
<1>4. (\A d \in Calls : Fits(call[d]))'
  BY <1>1 DEF DiscInv, Fits, Bounded, Waited, Conditioned, Searching, Listing, Voting, Current,
              Got, Pending, Load, Going
<1> QED  BY <1>3, <1>4 DEF DiscInv

(* A page that loads waits for one step of it, and for votes.              *)
LEMMA OpeningIs ==
  ASSUME DiscInv, NEW c \in Calls, NEW op \in {"trip", "list"}, Opening(c, op),
         UNCHANGED <<server, stale>>
  PROVE  /\ call[c] \in CallRecords /\ Fits(call[c]) /\ Load(call[c]) /\ view = "loading"
         /\ list.gen = None /\ list.places = {} /\ tallies = {}
         /\ known' \in Nat \cup {None} /\ (known' # None => known' <= version)
         /\ op = "list" => known' = known /\ known # None
         /\ op = "trip" /\ Ok(c) => known' # None
         /\ \A y \in CallRecords : Fits(y) /\ (\E d \in Calls \ {c} : call[d] = y) => Fits(y)'
<1>1. /\ call[c] \in CallRecords /\ Fits(call[c]) /\ view = "loading"
      /\ call[c].at = "back" /\ call[c].op = op /\ Noted(c)
  BY DEF DiscInv, Typed, Opening, Back
<1>2. Load(call[c])
  BY <1>1 DEF Fits, Waited, Load
<1>3. list.gen = None /\ list.places = {} /\ tallies = {}
  BY <1>1 DEF DiscInv, Shown
<1>4. known' \in Nat \cup {None} /\ (known' # None => known' <= version)
  BY <1>1 DEF Noted, DiscInv, Typed, Shown, Fits, Bounded, CallRecords
<1>5. op = "list" => known' = known /\ known # None
  BY <1>1, <1>2 DEF Noted, Fits, Bounded, Waited, Edits, Builds
<1>6. op = "trip" /\ Ok(c) => known' # None
  BY <1>1 DEF Noted, Fits, Waited, Got, Ok
<1>7. ASSUME NEW y \in CallRecords, Fits(y), NEW d \in Calls \ {c}, call[d] = y
      PROVE  Fits(y)'
  <2>1. ~Load(y)
    BY <1>2, <1>7 DEF DiscInv, Alone
  <2>2. ~y.mine \/ y.op = "votes"
    BY <1>1, <1>7, <2>1 DEF Fits, Waited, Load, CallRecords, Ops, Edits
  <2>3. Bounded(y)' /\ Waited(y)' /\ Conditioned(y)'
    BY <1>7, <2>2
       DEF Fits, Bounded, Waited, Conditioned, server, Load, Got, Going, Pending, Edits, Builds
  <2>4. Searching(y)' /\ Listing(y)' /\ Voting(y)'
    BY <1>7, <2>2
       DEF Fits, Waited, Searching, Listing, Voting, server, Got, Pending, Edits, Builds
  <2> QED  BY <2>3, <2>4 DEF Fits
<1> QED  BY <1>1, <1>2, <1>3, <1>4, <1>5, <1>6, <1>7

LEMMA OpeningEnds ==
  ASSUME DiscInv, NEW c \in Calls, Opening(c, "trip"), view' \in {"stuck", "left", "noroute"},
         Sent(c, NoCall), UNCHANGED <<server, list, status, tallies, stale>>, refetch' \in BOOLEAN
  PROVE  DiscInv'
<1>0. UNCHANGED <<server, stale>>
  OBVIOUS
<1>1. /\ list.gen = None /\ list.places = {}
      /\ known' \in Nat \cup {None} /\ (known' # None => known' <= version)
      /\ \A y \in CallRecords : Fits(y) /\ (\E d \in Calls \ {c} : call[d] = y) => Fits(y)'
  BY <1>0, OpeningIs
<1>2. NoCall \in CallRecords /\ Fits(NoCall) /\ ~Load(NoCall) /\ ~Pending(NoCall)
  BY NoCallFits DEF Load, Pending, NoCall
<1>3. Fits(NoCall)'
  <2>1. Bounded(NoCall)' /\ Waited(NoCall)' /\ Conditioned(NoCall)'
    BY <1>2 DEF Fits, NoCall, Bounded, Waited, Conditioned, Load, Got, Going, Pending, Edits, Builds,
                server
  <2>2. Searching(NoCall)' /\ Listing(NoCall)' /\ Voting(NoCall)'
    BY DEF NoCall, Searching, Listing, Voting, Got, Pending, Edits, Builds
  <2> QED  BY <2>1, <2>2 DEF Fits
<1>4. call' \in [Calls -> CallRecords]
  BY <1>2 DEF DiscInv, Typed, Sent
<1>5. Typed'
  BY <1>1, <1>4 DEF DiscInv, Typed, server, status, Views
<1>6. Shown' /\ (due \subseteq votes)' /\ Tallied'
  BY <1>1 DEF DiscInv, Shown, Tallied, server
<1> QED  BY <1>1, <1>2, <1>3, <1>5, <1>6, Assembled

LEMMA AskForListKeeps ==
  ASSUME DiscInv, NEW c \in Calls, AskForList(c)
  PROVE  DiscInv'
<1>0. /\ Opening(c, "trip") /\ Ok(c) /\ UNCHANGED <<server, view, list, status, tallies, stale>>
      /\ refetch' = home.shared /\ home.shared \in BOOLEAN /\ Sent(c, Out("list", 0, {}))
  BY DEF AskForList, DiscInv, Typed, Homes
<1>1. /\ Load(call[c]) /\ view = "loading" /\ list.gen = None /\ list.places = {} /\ tallies = {}
      /\ known' \in Nat \cup {None} /\ (known' # None => known' <= version) /\ known' # None
      /\ \A y \in CallRecords : Fits(y) /\ (\E d \in Calls \ {c} : call[d] = y) => Fits(y)'
  BY <1>0, OpeningIs
<1>2. Out("list", 0, {}) \in CallRecords
  BY OutIs DEF DiscInv, Ops
<1>3. PICK x \in CallRecords : x = Out("list", 0, {})
  BY <1>2
<1>4. /\ x.at = "out" /\ x.op = "list" /\ x.mine /\ x.gen = 0 /\ x.version = None /\ x.match = None
  BY <1>3, OutIs DEF DiscInv, Ops, Edits, Builds
<1>5. rows.gen \in Nat /\ 0 <= rows.gen
  BY DEF DiscInv, Typed, Rows
<1>6. Fits(x)'
  <2>1. Bounded(x)' /\ Waited(x)' /\ Conditioned(x)'
    BY <1>0, <1>1, <1>4, <1>5
       DEF Bounded, Waited, Conditioned, server, Load, Got, Going, Pending, Edits, Builds
  <2>2. Searching(x)' /\ Listing(x)' /\ Voting(x)'
    BY <1>4 DEF Searching, Listing, Voting, Got, Pending
  <2> QED  BY <2>1, <2>2 DEF Fits
<1>7. call' \in [Calls -> CallRecords]
  BY <1>0, <1>2 DEF DiscInv, Typed, Sent
<1>8. Typed' /\ (due \subseteq votes)'
  BY <1>0, <1>1, <1>7 DEF DiscInv, Typed, server, status
<1>9. Shown' /\ Tallied'
  BY <1>0, <1>1 DEF Shown, Tallied, server
<1>10. ~Pending(x) /\ Sent(c, x)
  BY <1>0, <1>3, <1>4 DEF Pending
<1> QED  BY <1>1, <1>6, <1>8, <1>9, <1>10, Assembled

LEMMA ListFoundKeeps ==
  ASSUME DiscInv, NEW c \in Calls, ListFound(c)
  PROVE  DiscInv'
<1>0. /\ Opening(c, "list") /\ Ok(c) /\ UNCHANGED <<server, status, tallies, stale>>
      /\ refetch' = home.shared /\ home.shared \in BOOLEAN /\ view' = "ready" /\ Sent(c, NoCall)
  BY DEF ListFound, DiscInv, Typed, Homes
<1>1. /\ known' = known /\ known # None /\ Fits(call[c]) /\ call[c] \in CallRecords
      /\ known' \in Nat \cup {None} /\ (known' # None => known' <= version)
      /\ \A y \in CallRecords : Fits(y) /\ (\E d \in Calls \ {c} : call[d] = y) => Fits(y)'
  BY <1>0, OpeningIs
<1>2. PICK selected \in SUBSET call[c].places :
        list' = [gen |-> call[c].gen, places |-> call[c].places, chosen |-> selected]
  BY DEF ListFound
<1>3. Got(call[c], "list")
  BY <1>0 DEF Opening, Back, Ok, Got
<1>4. /\ list'.gen = call[c].gen /\ list'.places = call[c].places
      /\ call[c].gen # None /\ call[c].gen <= rows.gen
      /\ known = version => call[c].gen = rows.gen /\ call[c].places = rows.places
  BY <1>1, <1>2, <1>3 DEF Fits, Listing, Bounded
<1>5. list' \in [gen : Nat \cup {None}, places : SUBSET Places, chosen : SUBSET Places]
  BY <1>1, <1>2 DEF CallRecords
<1>6. NoCall \in CallRecords /\ Fits(NoCall) /\ ~Load(NoCall) /\ ~Pending(NoCall)
  BY NoCallFits DEF Load, Pending, NoCall
<1>7. Fits(NoCall)'
  <2>1. Bounded(NoCall)' /\ Waited(NoCall)' /\ Conditioned(NoCall)'
    BY <1>0, <1>6 DEF Fits, NoCall, Bounded, Waited, Conditioned, Load, Got, Going, Pending, Edits,
                      Builds, server
  <2>2. Searching(NoCall)' /\ Listing(NoCall)' /\ Voting(NoCall)'
    BY DEF NoCall, Searching, Listing, Voting, Got, Pending, Edits, Builds
  <2> QED  BY <2>1, <2>2 DEF Fits
<1>8. call' \in [Calls -> CallRecords]
  BY <1>0, <1>6 DEF DiscInv, Typed, Sent
<1>9. Typed'
  BY <1>0, <1>1, <1>5, <1>8 DEF DiscInv, Typed, server, status, Views
<1>10. Shown' /\ (due \subseteq votes)' /\ Tallied'
  BY <1>0, <1>1, <1>4 DEF DiscInv, Shown, Current, Tallied, server
<1> QED  BY <1>0, <1>1, <1>6, <1>7, <1>9, <1>10, Assembled

LEMMA SearchAtOnceKeeps ==
  ASSUME DiscInv, NEW c \in Calls, SearchAtOnce(c)
  PROVE  DiscInv'
<1>0. /\ Opening(c, "list") /\ UNCHANGED <<server, list, paused, tallies, refetch, stale>>
      /\ view' = "ready" /\ discovering' = TRUE /\ Sent(c, Out("discover", 0, {}))
  BY DEF SearchAtOnce, voting
<1>1. /\ known' = known /\ known # None /\ list.gen = None /\ list.places = {} /\ tallies = {}
      /\ known' \in Nat \cup {None} /\ (known' # None => known' <= version)
      /\ \A y \in CallRecords : Fits(y) /\ (\E d \in Calls \ {c} : call[d] = y) => Fits(y)'
  BY <1>0, OpeningIs
<1>2. Out("discover", 0, {}) \in CallRecords
  BY OutIs DEF DiscInv, Ops
<1>3. PICK x \in CallRecords : x = Out("discover", 0, {})
  BY <1>2
<1>4. /\ x.at = "out" /\ x.op = "discover" /\ x.mine /\ x.gen = 0 /\ x.version = None
      /\ x.match = known
  BY <1>3, OutIs DEF DiscInv, Ops, Edits, Builds
<1>5. rows.gen \in Nat /\ 0 <= rows.gen /\ None \notin Nat
  BY DiscoveryAssumption DEF DiscInv, Typed, Rows
<1>6. Fits(x)'
  <2>1. Bounded(x)' /\ Waited(x)' /\ Conditioned(x)'
    BY <1>0, <1>1, <1>4, <1>5
       DEF Bounded, Waited, Conditioned, server, Load, Got, Going, Pending
  <2>2. Searching(x)' /\ Listing(x)' /\ Voting(x)'
    BY <1>4 DEF Searching, Listing, Voting, Got, Pending
  <2> QED  BY <2>1, <2>2 DEF Fits
<1>7. call' \in [Calls -> CallRecords]
  BY <1>0, <1>2 DEF DiscInv, Typed, Sent
<1>8. Typed' /\ (due \subseteq votes)'
  BY <1>0, <1>1, <1>7 DEF DiscInv, Typed, server, Views
<1>9. Shown'
  BY <1>0, <1>1 DEF Shown, server
<1>10. Tallied'
  BY <1>0, <1>1, <1>5 DEF Tallied, Right, server
<1>11. ~Pending(x) /\ ~Load(x) /\ Sent(c, x)
  BY <1>0, <1>3, <1>4 DEF Pending, Load
<1> QED  BY <1>1, <1>6, <1>8, <1>9, <1>10, <1>11, Assembled

LEMMA MountKeeps ==
  ASSUME DiscInv, NEW c \in Calls, DiscoverMount(c) \/ CorridorMount(c)
  PROVE  DiscInv'
<1>1. CASE OpenFails(c)
  BY <1>1, OpeningEnds DEF OpenFails, voting, DiscInv, Typed
<1>2. CASE Redirect(c)
  BY <1>2, OpeningEnds DEF Redirect, voting, DiscInv, Typed
<1>3. CASE NoRoute(c)
  BY <1>3, OpeningEnds DEF NoRoute, DiscInv, Typed, Homes
<1> QED  BY <1>1, <1>2, <1>3, AskForListKeeps, ListFoundKeeps, SearchAtOnceKeeps
         DEF DiscoverMount, CorridorMount

(* A click: what is sent fits.                                             *)
LEMMA SendKeeps ==
  ASSUME DiscInv, NEW c \in Calls, Free(c), Offered # {}, Still,
         NEW op \in Edits \cup {"vote"}, NEW gen \in {0, list.gen},
         op = "vote" => gen = list.gen /\ list.gen # None,
         NEW x \in CallRecords, Sent(c, x), x.at = "out", x.op = op, x.mine, x.gen = gen,
         x.version = None, x.match = IF op \in Edits THEN known ELSE None
  PROVE  DiscInv'
<1>1. view = "ready" /\ ~refetch
  BY DEF Offered
<1>2. ~call[c].mine
  BY DEF DiscInv, Fits, Waited, Free
<1>t. /\ version \in Nat /\ rows.gen \in Nat /\ 0 <= rows.gen /\ None \notin Nat
      /\ known # None /\ known \in Nat \cup {None} /\ known <= version
      /\ list.gen \in Nat \cup {None} /\ (list.gen # None => list.gen <= rows.gen)
  BY <1>1, DiscoveryAssumption DEF DiscInv, Typed, Shown, Rows
<1>5. Fits(x)
  <2>1. Bounded(x) /\ Waited(x) /\ Conditioned(x)
    BY <1>1, <1>t DEF Bounded, Waited, Conditioned, Load, Got, Going, Pending, Edits, Builds
  <2>2. Searching(x) /\ Listing(x) /\ Voting(x)
    BY <1>1, <1>t DEF Searching, Listing, Voting, Got, Pending, Edits, Builds
  <2> QED  BY <2>1, <2>2 DEF Fits
<1>6. ~Tallying(call[c]) /\ ~Load(x) /\ ~Pending(x)
  BY <1>2 DEF Tallying, Load, Pending, Edits, Builds
<1> QED  BY <1>5, <1>6, PatchedStill

LEMMA ClickKeeps ==
  ASSUME DiscInv, NEW c \in Calls,
         \/ Refresh(c) \/ DetourChange(c) \/ Vote(c)
         \/ \E what \in Builds : StartBuild(c, what)
  PROVE  DiscInv'
<1>t. /\ Typed /\ discovering \in BOOLEAN /\ paused \in BOOLEAN /\ {} \in SUBSET Places
      /\ list.chosen \in SUBSET Places /\ list.places \in SUBSET Places
      /\ list.gen \in Nat \cup {None} /\ (list.places # {} => list.gen # None)
  BY DEF DiscInv, Typed, Shown
<1>s. Builds \subseteq Edits /\ Edits \subseteq Ops /\ "discover" \in Edits /\ "vote" \in Ops
      /\ "vote" \notin Edits
  BY DEF Edits, Ops, Builds
<1>1. CASE Offered # {} /\ StartDiscovery(c)
  <2>1. /\ Free(c) /\ Offered # {} /\ Still /\ Sent(c, Out("discover", 0, {}))
    BY <1>1, <1>t DEF StartDiscovery, Still, server, voting
  <2> DEFINE x == Out("discover", 0, {})
  <2>2. /\ x \in CallRecords /\ x.at = "out" /\ x.op = "discover" /\ x.mine /\ x.gen = 0
        /\ x.version = None /\ x.match = known
    BY <1>t, <1>s, OutIs
  <2>3. Sent(c, x)
    BY <2>1
  <2> HIDE DEF x
  <2> QED  BY <1>s, <2>1, <2>2, <2>3, SendKeeps
<1>2. ASSUME NEW what \in Builds, StartBuild(c, what) PROVE DiscInv'
  <2>1. /\ Free(c) /\ Offered # {} /\ Still /\ Sent(c, Out(what, list.gen, list.chosen))
    BY <1>2, <1>t DEF StartBuild, Still, server, voting, status
  <2> DEFINE x == Out(what, list.gen, list.chosen)
  <2>2. /\ x \in CallRecords /\ x.at = "out" /\ x.op = what /\ x.mine /\ x.gen = list.gen
        /\ x.version = None /\ x.match = known
    BY <1>t, <1>s, OutIs
  <2>3. Sent(c, x) /\ what \in Edits
    BY <1>s, <2>1
  <2> HIDE DEF x
  <2> QED  BY <1>s, <2>1, <2>2, <2>3, SendKeeps
<1>3. CASE Vote(c)
  <2>1. /\ Free(c) /\ Offered # {} /\ Still
    BY <1>3, <1>t DEF Vote, Still, server, voting, status
  <2>2. PICK p \in list.places : Sent(c, [Out("vote", list.gen, {p}) EXCEPT !.new = {p} \ tallies])
    BY <1>3 DEF Vote
  <2> DEFINE o == Out("vote", list.gen, {p})
             x == [o EXCEPT !.new = {p} \ tallies]
  <2>3. {p} \in SUBSET Places /\ {p} \ tallies \in SUBSET Places /\ list.gen # None
    BY <1>t, <2>2
  <2>4. /\ o \in CallRecords /\ o.at = "out" /\ o.op = "vote" /\ o.mine /\ o.gen = list.gen
        /\ o.version = None /\ o.match = None
    BY <1>t, <1>s, <2>3, OutIs
  <2> HIDE DEF o
  <2>5. /\ x \in CallRecords /\ x.at = "out" /\ x.op = "vote" /\ x.mine /\ x.gen = list.gen
        /\ x.version = None /\ x.match = None
    BY <2>3, <2>4 DEF CallRecords
  <2>6. Sent(c, x)
    BY <2>2 DEF o
  <2> HIDE DEF x
  <2> QED  BY <1>s, <2>1, <2>3, <2>5, <2>6, SendKeeps
<1> QED  BY <1>1, <1>2, <1>3 DEF Refresh, DetourChange, StartBuild

(* The page that hears of a new version takes it in; no other answer with  *)
(* a version is on its way, and what it sends refers to this one or an     *)
(* earlier one.                                                            *)
LEMMA HeardFits ==
  ASSUME DiscInv, NEW c \in Calls, Pending(call[c]), known' = call[c].version,
         UNCHANGED <<server, stale>>, view' \in {view, "left"}, view # "loading",
         \/ list' = list /\ (refetch' = TRUE => refetch)
         \/ list'.gen \in Nat /\ (list.gen # None => list.gen < list'.gen),
         NEW y \in CallRecords, Fits(y), NEW d \in Calls \ {c}, call[d] = y
  PROVE  Fits(y)'
<1>1. call[c] \in CallRecords /\ Fits(call[c])
  BY DEF DiscInv, Typed
<1>2. /\ known \in Nat /\ call[c].version \in Nat /\ known < call[c].version
      /\ None \notin Nat /\ list.gen \in Nat \cup {None}
  BY <1>1, DiscoveryAssumption DEF Fits, Conditioned, CallRecords, DiscInv, Typed
<1>3. ~Pending(y) /\ ~Load(y) /\ (y.at = "back" => y.mine)
  BY DEF DiscInv, Alone, Fits, Waited
<1>4. /\ y.match \in Nat \cup {None} /\ y.gen \in Nat \cup {None}
  BY DEF CallRecords
<1>5. Bounded(y)' /\ Waited(y)'
  BY <1>3 DEF Fits, Bounded, Waited, Load, Got, server
<1>6. Conditioned(y)' /\ Searching(y)'
  BY <1>2, <1>3, <1>4 DEF Fits, Conditioned, Searching, Going, Pending, server
<1>7. Listing(y)'
  <2>1. ~Got(y, "discover") /\ ~Got(y, "list")
    BY <1>3 DEF Got, Pending, Load, Edits
  <2> QED  BY <1>3, <2>1 DEF Listing, Got, Pending
<1>8. Voting(y)'
  <2>1. y.mine /\ y.op = "vote" =>
          y.gen \in Nat /\ list.gen \in Nat /\ y.gen <= list.gen /\ (y.gen = list.gen => ~refetch)
    BY <1>2, <1>4 DEF Fits, Voting
  <2>2. CASE list' = list /\ (refetch' = TRUE => refetch)
    BY <2>1, <2>2 DEF Fits, Voting, Got, server
  <2>3. CASE list'.gen \in Nat /\ (list.gen # None => list.gen < list'.gen)
    <3>1. y.mine /\ y.op = "vote" => y.gen < list'.gen
      BY <1>2, <2>1, <2>3
    <3>2. Got(y, "vote") => y.mine /\ y.op = "vote" /\ y.gen \in Nat
      BY <1>3, <2>1 DEF Got
    <3>3. y.mine /\ y.op = "vote" => y.gen # list'.gen
      BY <2>1, <2>3, <3>1
    <3>4. y.mine /\ y.op = "vote" => y.gen # None /\ list'.gen # None /\ y.gen <= list'.gen
      BY <1>2, <2>1, <2>3, <3>1
    <3> QED  BY <3>2, <3>3, <3>4 DEF Fits, Voting, Got, server
  <2> QED  BY <2>2, <2>3
<1> QED  BY <1>5, <1>6, <1>7, <1>8 DEF Fits

(* NoCall fits whatever the page does.                                     *)
LEMMA NoCallFitsNext ==
  ASSUME DiscInv, UNCHANGED server
  PROVE  /\ NoCall \in CallRecords /\ ~Load(NoCall) /\ ~Pending(NoCall) /\ ~Tallying(NoCall)
         /\ Fits(NoCall)'
<1>1. NoCall \in CallRecords /\ Fits(NoCall)
  BY NoCallFits
<1>2. ~Load(NoCall) /\ ~Pending(NoCall) /\ ~Tallying(NoCall)
  BY DEF Load, Pending, Tallying, NoCall
<1>3. Bounded(NoCall)' /\ Waited(NoCall)' /\ Conditioned(NoCall)'
  BY <1>1 DEF Fits, NoCall, Bounded, Waited, Conditioned, Load, Got, Going, Pending, Edits, Builds,
              server
<1>4. Searching(NoCall)' /\ Listing(NoCall)' /\ Voting(NoCall)'
  BY DEF NoCall, Searching, Listing, Voting, Got, Pending, Edits, Builds
<1> QED  BY <1>1, <1>2, <1>3, <1>4 DEF Fits

LEMMA DiscoveryAnsweredKeeps ==
  ASSUME DiscInv, NEW c \in Calls, DiscoveryAnswered(c)
  PROVE  DiscInv'
<1>0. /\ call[c] \in CallRecords /\ Fits(call[c]) /\ call[c].at = "back" /\ call[c].op = "discover"
      /\ call[c].mine /\ view # "loading" /\ Noted(c) /\ Sent(c, NoCall)
      /\ UNCHANGED <<server, view, stale>> /\ discovering' = FALSE /\ home.shared \in BOOLEAN
      /\ refetch \in BOOLEAN
  BY DEF DiscoveryAnswered, Back, DiscInv, Typed, Homes, Fits, Waited, Edits
<1>p. paused' \in BOOLEAN
  BY DEF DiscoveryAnswered, NoteError, DiscInv, Typed
<1>1. CASE ~Ok(c)
  <2>1. call[c].version = None
    BY <1>0, <1>1 DEF Fits, Bounded, Ok
  <2>2. known' = known /\ list' = list /\ refetch' = refetch /\ tallies' = tallies
    BY <1>0, <1>1, <2>1 DEF DiscoveryAnswered, Noted
  <2>3. Still
    BY <1>0, <1>p, <2>2 DEF Still
  <2>4. ~Tallying(call[c]) /\ ~Load(NoCall) /\ ~Pending(NoCall)
    BY <1>0, NoCallFitsNext DEF Tallying
  <2> QED  BY <1>0, <2>3, <2>4, NoCallFits, PatchedStill
<1>2. CASE Ok(c)
  <2>0. Pending(call[c]) /\ Got(call[c], "discover")
    BY <1>0, <1>2 DEF Pending, Got, Ok, Edits
  <2>1. /\ call[c].version # None /\ call[c].version <= version /\ known' = call[c].version
        /\ call[c].version \in Nat
        /\ list' = [gen |-> call[c].gen, places |-> call[c].places, chosen |-> {}]
        /\ tallies' = {} /\ refetch' = (refetch \/ home.shared)
    BY <1>0, <1>2, <2>0 DEF Fits, Conditioned, Bounded, DiscoveryAnswered, Noted, CallRecords
  <2>2. /\ call[c].gen \in Nat /\ call[c].gen <= rows.gen
        /\ list.gen # None => list.gen < call[c].gen
        /\ call[c].version = version => call[c].gen = rows.gen /\ call[c].places = rows.places
    BY <1>0, <2>0 DEF Fits, Listing, Bounded, CallRecords
  <2>3. list' \in [gen : Nat \cup {None}, places : SUBSET Places, chosen : SUBSET Places]
    BY <1>0, <2>1, <2>2 DEF CallRecords
  <2>4. call' \in [Calls -> CallRecords]
    BY <1>0, NoCallFitsNext DEF DiscInv, Typed, Sent
  <2>5. Typed'
    BY <1>0, <1>p, <2>1, <2>3, <2>4 DEF DiscInv, Typed, server
  <2>6. Shown' /\ (due \subseteq votes)' /\ Tallied'
    BY <1>0, <2>1, <2>2, DiscoveryAssumption DEF DiscInv, Shown, Current, Tallied, server
  <2>7. \A y \in CallRecords : Fits(y) /\ (\E d \in Calls \ {c} : call[d] = y) => Fits(y)'
    BY <1>0, <2>0, <2>1, <2>2, HeardFits
  <2> QED  BY <1>0, <2>5, <2>6, <2>7, NoCallFitsNext, Assembled
<1> QED  BY <1>1, <1>2

LEMMA BuildAnsweredKeeps ==
  ASSUME DiscInv, NEW c \in Calls, NEW what \in Builds, NEW next \in {view, "left"},
         BuildAnswered(c, what, next), ~Ok(c) => next = view
  PROVE  DiscInv'
<1>0. /\ call[c] \in CallRecords /\ Fits(call[c]) /\ call[c].at = "back" /\ call[c].op = what
      /\ call[c].mine /\ view # "loading" /\ Noted(c) /\ Sent(c, NoCall)
      /\ UNCHANGED <<server, list, status, tallies, refetch, stale>> /\ view' = next
  BY DEF BuildAnswered, Back, DiscInv, Typed, Fits, Waited, Edits, voting
<1>n. ~Tallying(call[c])
  BY <1>0 DEF Tallying, Builds
<1>1. CASE ~Ok(c)
  <2>1. call[c].version = None
    BY <1>0, <1>1 DEF Fits, Bounded, Ok
  <2>2. Still
    BY <1>0, <1>1, <2>1 DEF Still, Noted, status, DiscInv, Typed
  <2> QED  BY <1>0, <1>n, <2>2, NoCallFitsNext, NoCallFits, PatchedStill
<1>2. CASE Ok(c)
  <2>0. Pending(call[c])
    BY <1>0, <1>2 DEF Pending, Ok, Edits
  <2>1. /\ call[c].version # None /\ call[c].version <= version /\ known' = call[c].version
        /\ call[c].version \in Nat
        /\ (view = "ready" /\ list.places # {} /\ call[c].version = version => Current)
    BY <1>0, <2>0 DEF Fits, Conditioned, Bounded, Listing, Noted, CallRecords
  <2>4. call' \in [Calls -> CallRecords] /\ call'[c] = NoCall
        /\ \A d \in Calls : d # c => call'[d] = call[d]
    BY <1>0, NoCallFitsNext DEF DiscInv, Typed, Sent
  <2>5. Typed'
    BY <1>0, <2>1, <2>4 DEF DiscInv, Typed, server, status, Views
  <2>6. Shown' /\ (due \subseteq votes)'
    BY <1>0, <2>1, DiscoveryAssumption DEF DiscInv, Shown, Current, server
  <2>7. (\A d \in Calls : ~Tallying(call'[d])) => \A d \in Calls : ~Tallying(call[d])
    BY <1>n, <2>4
  <2>8. Tallied'
    BY <1>0, <2>7 DEF DiscInv, Tallied, Tallying, Right, server
  <2>9. \A y \in CallRecords : Fits(y) /\ (\E d \in Calls \ {c} : call[d] = y) => Fits(y)'
    BY <1>0, <2>0, <2>1, HeardFits
  <2> QED  BY <1>0, <2>5, <2>6, <2>8, <2>9, NoCallFitsNext, Assembled
<1> QED  BY <1>1, <1>2

LEMMA BuildsKeep ==
  ASSUME DiscInv, NEW c \in Calls, BuildRoute(c) \/ BuildItinerary(c) \/ AddStops(c)
  PROVE  DiscInv'
BY ClickKeeps, BuildAnsweredKeeps DEF BuildRoute, BuildItinerary, AddStops, Builds

-----------------------------------------------------------------------------
(* useVotes.                                                               *)

LEMMA FetchVotesKeeps ==
  ASSUME DiscInv, NEW c \in Calls, FetchVotes(c)
  PROVE  DiscInv'
<1>0. /\ refetch /\ refetch' = FALSE /\ stale' = FALSE
      /\ UNCHANGED <<server, view, known, list, status, tallies>>
      /\ call' = [d \in Calls |->
                    IF d = c THEN Out("votes", 0, {})
                    ELSE IF call[d].op = "votes" /\ call[d].mine
                    THEN NoCall ELSE call[d]]
  BY DEF FetchVotes
<1>t. call \in [Calls -> CallRecords] /\ rows.gen \in Nat /\ 0 <= rows.gen /\ Typed
  BY DEF DiscInv, Typed, Rows
<1>1. /\ Out("votes", 0, {}) \in CallRecords
      /\ Out("votes", 0, {}).at = "out" /\ Out("votes", 0, {}).op = "votes"
      /\ Out("votes", 0, {}).mine /\ Out("votes", 0, {}).gen = 0
      /\ Out("votes", 0, {}).version = None /\ Out("votes", 0, {}).match = None
  BY <1>t, OutIs DEF Ops, Edits, Builds
<1>2. NoCall \in CallRecords /\ ~Load(NoCall) /\ ~Pending(NoCall) /\ Fits(NoCall)'
  BY <1>0, NoCallFitsNext
<1>3. call' \in [Calls -> CallRecords]
  BY <1>0, <1>t, <1>1, <1>2
<1>4. Typed' /\ Shown' /\ (due \subseteq votes)'
  BY <1>0, <1>3 DEF DiscInv, Typed, Shown, Current, server, status
<1>5. (\A d \in Calls : Fits(call[d]))'
  <2> SUFFICES ASSUME NEW d \in Calls PROVE Fits(call[d])'
    OBVIOUS
  <2>1. PICK z \in CallRecords : z = call'[d]
    BY <1>3
  <2>2. CASE d = c
    <3>1. /\ z.at = "out" /\ z.op = "votes" /\ z.mine /\ z.gen = 0 /\ z.version = None
          /\ z.match = None
      BY <1>0, <1>1, <2>1, <2>2
    <3>2. Bounded(z)' /\ Waited(z)' /\ Conditioned(z)'
      BY <1>0, <1>t, <3>1
         DEF Bounded, Waited, Conditioned, server, Load, Got, Going, Pending, Edits, Builds
    <3>3. Searching(z)' /\ Listing(z)' /\ Voting(z)'
      BY <3>1 DEF Searching, Listing, Voting, Got, Pending, Edits, Builds
    <3> QED
      BY <2>1, <3>2, <3>3
         DEF Fits, Bounded, Waited, Conditioned, Searching, Listing, Voting, Current,
             Got, Pending, Load, Going
  <2>3. CASE d # c /\ call[d].op = "votes" /\ call[d].mine
    <3>1. call'[d] = NoCall
      BY <1>0, <2>3
    <3> QED
      BY <1>2, <3>1 DEF Fits, Bounded, Waited, Conditioned, Searching, Listing, Voting, Current,
                        Got, Pending, Load, Going
  <2>4. CASE d # c /\ ~(call[d].op = "votes" /\ call[d].mine)
    <3>1. z = call[d] /\ Fits(z)
      BY <1>0, <2>1, <2>4 DEF DiscInv
    <3>2. Bounded(z)' /\ Waited(z)' /\ Conditioned(z)' /\ Searching(z)' /\ Listing(z)'
      BY <1>0, <3>1 DEF Fits, Bounded, Waited, Conditioned, Searching, Listing, Current, server,
                        Got, Pending, Load, Going
    <3>3. Voting(z)'
      <4>1. ~Got(z, "votes")
        BY <2>4, <3>1 DEF Fits, Waited, Got
      <4>2. Got(z, "vote") => z.gen # list.gen
        BY <1>0, <3>1 DEF Fits, Waited, Voting, Got
      <4> QED  BY <1>0, <3>1, <4>1, <4>2 DEF Fits, Voting, Got, server
    <3> QED
      BY <2>1, <3>2, <3>3
         DEF Fits, Bounded, Waited, Conditioned, Searching, Listing, Voting, Current,
             Got, Pending, Load, Going
  <2> QED  BY <2>2, <2>3, <2>4
<1>6. Alone(call)'
  <2>1. ASSUME NEW d \in Calls
        PROVE  (Pending(call'[d]) => Pending(call[d])) /\ (Load(call'[d]) => Load(call[d]))
    <3>1. CASE d = c
      BY <1>0, <1>1, <3>1 DEF Pending, Load
    <3>2. CASE d # c
      BY <1>0, <1>2, <3>2
    <3> QED  BY <3>1, <3>2
  <2> QED  BY <2>1 DEF DiscInv, Alone
<1>7. Tallied'
  <2>1. Tallying(call'[c])
    BY <1>0, <1>1 DEF Tallying
  <2> QED  BY <2>1 DEF Tallied, Tallying
<1> QED  BY <1>4, <1>5, <1>6, <1>7 DEF DiscInv

LEMMA VotesAnsweredKeeps ==
  ASSUME DiscInv, NEW c \in Calls, VotesAnswered(c)
  PROVE  DiscInv'
<1>0. /\ call[c] \in CallRecords /\ Fits(call[c]) /\ call[c].at = "back" /\ call[c].op = "votes"
      /\ UNCHANGED <<server, view, known, list, status, refetch>> /\ Sent(c, NoCall)
      /\ tallies' = IF ~Ok(c) THEN tallies ELSE IF call[c].gen = list.gen THEN call[c].tally ELSE {}
      /\ stale' = (stale \/ ~Ok(c)) /\ stale \in BOOLEAN
  BY DEF VotesAnswered, Back, DiscInv, Typed
<1>1. Ok(c) => call[c].gen # None /\ (~stale => call[c].gen = rows.gen /\ call[c].tally = votes)
  BY <1>0 DEF Fits, Voting, Got, Ok
<1>2. call' \in [Calls -> CallRecords] /\ tallies' \in SUBSET Places
  BY <1>0, NoCallFitsNext DEF DiscInv, Typed, Sent, CallRecords
<1>3. Typed'
  BY <1>0, <1>2 DEF DiscInv, Typed, server, status, Ok
<1>4. Shown' /\ (due \subseteq votes)'
  BY <1>0, <1>1 DEF DiscInv, Shown, Current, server
<1>5. Tallied'
  <2>1. CASE stale'
    BY <2>1 DEF Tallied
  <2>2. CASE ~stale'
    <3>1. Ok(c) /\ tallies' = IF list.gen = rows.gen THEN votes ELSE {}
      BY <1>0, <1>1, <2>2
    <3> QED  BY <1>0, <3>1 DEF Tallied, Right, server
  <2> QED  BY <2>1, <2>2
<1>6. ASSUME NEW y \in CallRecords, Fits(y)
      PROVE  Fits(y)'
  <2>1. Bounded(y)' /\ Waited(y)' /\ Conditioned(y)' /\ Searching(y)' /\ Listing(y)'
    BY <1>0, <1>6 DEF Fits, Bounded, Waited, Conditioned, Searching, Listing, Current, server,
                      Got, Pending, Load, Going
  <2>2. Voting(y)'
    BY <1>0, <1>6 DEF Fits, Voting, Got, server
  <2> QED  BY <2>1, <2>2 DEF Fits
<1> QED  BY <1>0, <1>3, <1>4, <1>5, <1>6, NoCallFitsNext, Assembled

LEMMA VoteAnsweredKeeps ==
  ASSUME DiscInv, NEW c \in Calls, VoteAnswered(c)
  PROVE  DiscInv'
<1>0. /\ call[c] \in CallRecords /\ Fits(call[c]) /\ call[c].at = "back" /\ call[c].op = "vote"
      /\ call[c].mine /\ view # "loading"
      /\ UNCHANGED <<server, view, known, list, status, refetch, stale>> /\ Sent(c, NoCall)
      /\ discovering \in BOOLEAN /\ paused \in BOOLEAN
      /\ tallies \in SUBSET Places /\ call[c].places \in SUBSET Places /\ call[c].tally \in SUBSET Places
  BY DEF VoteAnswered, Back, DiscInv, Typed, Fits, Waited, CallRecords
<1>1. CASE Ok(c) /\ call[c].gen = list.gen
  <2>1. stale /\ tallies' \in SUBSET Places
    BY <1>0, <1>1 DEF Fits, Voting, Got, Ok, VoteAnswered
  <2>2. call' \in [Calls -> CallRecords]
    BY <1>0, NoCallFitsNext DEF DiscInv, Typed, Sent
  <2>3. Typed' /\ (due \subseteq votes)'
    BY <1>0, <2>1, <2>2 DEF DiscInv, Typed, server, status
  <2>4. Shown' /\ Tallied'
    BY <1>0, <2>1 DEF DiscInv, Shown, Current, Tallied, server
  <2>5. ASSUME NEW y \in CallRecords, Fits(y)
        PROVE  Fits(y)'
    BY <1>0, <2>5 DEF Fits, Bounded, Waited, Conditioned, Searching, Listing, Voting, Current, server,
                      Got, Pending, Load, Going
  <2> QED  BY <1>0, <2>3, <2>4, <2>5, NoCallFitsNext, Assembled
<1>2. CASE ~(Ok(c) /\ call[c].gen = list.gen)
  <2>1. Still
    BY <1>0, <1>2 DEF Still, VoteAnswered, status
  <2>2. ~Tallying(call[c])
    BY <1>0 DEF Tallying
  <2> QED  BY <1>0, <2>1, <2>2, NoCallFitsNext, NoCallFits, PatchedStill
<1> QED  BY <1>1, <1>2

(* A page that is gone waits for nothing.                                  *)
LEMMA LeaveKeeps ==
  ASSUME DiscInv, Leave
  PROVE  DiscInv'
<1>0. /\ view' = "left" /\ UNCHANGED <<server, known, list, status, tallies, refetch, stale>>
      /\ call' = [c \in Calls |-> IF call[c].at \in {"out", "back"} /\ call[c].mine THEN NoCall
                                  ELSE [call[c] EXCEPT !.mine = FALSE]]
  BY DEF Leave, voting
<1>t. call \in [Calls -> CallRecords]
  BY DEF DiscInv, Typed
<1>2. NoCall \in CallRecords /\ ~Load(NoCall) /\ ~Pending(NoCall) /\ Fits(NoCall)'
  BY <1>0, NoCallFitsNext
<1>a. \A x \in CallRecords : [x EXCEPT !.mine = FALSE] \in CallRecords
  BY DEF CallRecords
<1>3. call' \in [Calls -> CallRecords]
  BY <1>0, <1>t, <1>2, <1>a
<1>4. Typed' /\ Shown' /\ (due \subseteq votes)' /\ Tallied'
  BY <1>0, <1>3 DEF DiscInv, Typed, Shown, Tallied, server, status, Views
<1>5. ASSUME NEW d \in Calls
      PROVE  Fits(call[d])' /\ ~Pending(call'[d]) /\ ~Load(call'[d])
  <2>0. call[d] \in CallRecords /\ Fits(call[d])
    BY <1>t DEF DiscInv
  <2>1. CASE call[d].at \in {"out", "back"} /\ call[d].mine
    <3>1. call'[d] = NoCall
      BY <1>0, <2>1
    <3> QED
      BY <1>2, <3>1 DEF Fits, Bounded, Waited, Conditioned, Searching, Listing, Voting, Current,
                        Got, Pending, Load, Going
  <2>2. CASE ~(call[d].at \in {"out", "back"} /\ call[d].mine)
    <3>1. PICK z \in CallRecords : z = [call[d] EXCEPT !.mine = FALSE]
      BY <1>a, <2>0
    <3>2. call'[d] = z
      BY <1>0, <2>2, <3>1
    <3>3. /\ ~z.mine /\ z.at = call[d].at /\ z.op = call[d].op /\ z.match = call[d].match
          /\ z.gen = call[d].gen /\ z.version = call[d].version /\ z.moved = call[d].moved
          /\ z.status = call[d].status
      BY <2>0, <3>1 DEF CallRecords
    <3>4. call[d].at # "back" /\ z.at # "back"
      BY <2>0, <2>2, <3>3 DEF Fits, Waited
    <3>5. Bounded(z)' /\ Waited(z)'
      BY <1>0, <2>0, <3>3, <3>4 DEF Fits, Bounded, Waited, server, Load, Got
    <3>6. Conditioned(z)'
      BY <1>0, <2>0, <3>3, <3>4 DEF Fits, Conditioned, Going, Pending, server
    <3>7. Searching(z)' /\ Listing(z)' /\ Voting(z)'
      BY <1>0, <2>0, <3>3, <3>4 DEF Fits, Searching, Listing, Voting, Got, Pending, server
    <3> QED
      BY <3>2, <3>3, <3>4, <3>5, <3>6, <3>7
         DEF Fits, Bounded, Waited, Conditioned, Searching, Listing, Voting, Current,
             Got, Pending, Load, Going
  <2> QED  BY <2>1, <2>2
<1>6. (\A d \in Calls : Fits(call[d]))' /\ Alone(call)'
  BY <1>5 DEF Alone
<1> QED  BY <1>4, <1>6 DEF DiscInv

-----------------------------------------------------------------------------
LEMMA DiscInit == Init => DiscInv
<1> SUFFICES ASSUME Init PROVE DiscInv
  OBVIOUS
<1>0. /\ home \in Homes /\ version = 1 /\ votes = {} /\ due = {} /\ rows \in Rows /\ rows.gen = 0
      /\ view = "loading" /\ known = None /\ list = NoList /\ None \notin Nat
      /\ discovering = FALSE /\ paused = FALSE /\ tallies = {} /\ refetch = FALSE /\ stale = FALSE
  BY DiscoveryAssumption DEF Init, Rows
<1>1. PICK c \in Calls : call = [d \in Calls |-> IF d = c THEN [NoCall EXCEPT !.at = "out", !.mine = TRUE]
                                                ELSE NoCall]
  BY DEF Init
<1>2. /\ NoCall \in CallRecords /\ [NoCall EXCEPT !.at = "out", !.mine = TRUE] \in CallRecords
  BY DEF NoCall, CallRecords, Ops
<1>3. Typed /\ Shown /\ due \subseteq votes /\ Tallied
  BY <1>0, <1>1, <1>2 DEF Typed, Shown, Tallied, NoList, Views
<1>4. ASSUME NEW d \in Calls PROVE Fits(call[d]) /\ ~Pending(call[d]) /\ (Load(call[d]) => d = c)
  <2>1. PICK z \in CallRecords : z = call[d]
    BY <1>1, <1>2
  <2>2. /\ z.op = "trip" /\ z.match = None /\ z.gen = 0 /\ z.version = None /\ z.at \in {"idle", "out"}
        /\ (z.at = "idle" => ~z.mine) /\ (z.mine => d = c)
    BY <1>1, <2>1 DEF NoCall
  <2>3. Bounded(z) /\ Waited(z) /\ Conditioned(z) /\ Searching(z) /\ Listing(z) /\ Voting(z)
    BY <1>0, <2>2 DEF Bounded, Waited, Conditioned, Searching, Listing, Voting, Load, Got, Going,
                      Pending, Edits, Builds
  <2> QED  BY <2>1, <2>2, <2>3 DEF Fits, Pending, Load
<1>5. Alone(call)
  BY <1>4 DEF Alone
<1> QED  BY <1>3, <1>4, <1>5 DEF DiscInv

LEMMA DiscNext == DiscInv /\ [Next]_vars => DiscInv'
<1> SUFFICES ASSUME DiscInv, [Next]_vars PROVE DiscInv'
  OBVIOUS
<1>1. CASE UNCHANGED vars
  <2>1. /\ UNCHANGED <<home, version, rows, votes, due, call, view, known, list, discovering, paused,
                       tallies, refetch, stale>>
    BY <1>1 DEF vars, server, status, voting
  <2>2. Typed' /\ Shown' /\ (due \subseteq votes)' /\ Alone(call)' /\ Tallied'
    BY <2>1 DEF DiscInv, Typed, Shown, Current, Alone, Pending, Load, Tallied, Tallying, Right
  <2>3. (\A d \in Calls : Fits(call[d]))'
    BY <2>1 DEF DiscInv, Fits, Bounded, Waited, Conditioned, Searching, Listing, Voting, Current,
                Got, Pending, Load, Going
  <2> QED  BY <2>2, <2>3 DEF DiscInv
<1>2. CASE OtherEdit \/ PauseLifted \/ Toggle \/ Leave
  BY <1>2, OtherEditKeeps, PauseLiftedKeeps, ToggleKeeps, LeaveKeeps
<1>3. ASSUME NEW c \in Calls, Serve(c) PROVE DiscInv'
  BY <1>3, RefusalKeeps, ServedKeeps, BeginKeeps, CarryOverKeeps, DiscoverCommitKeeps,
     BuildCommitKeeps, VoteTargetKeeps, VoteWriteKeeps DEF Serve
<1>4. ASSUME NEW c \in Calls, Stopped(c) \/ Lost(c) \/ OtherCall(c) PROVE DiscInv'
  BY <1>4, StoppedKeeps, LostKeeps, OtherCallKeeps
<1>5. ASSUME NEW c \in Calls, Page(c) PROVE DiscInv'
  BY <1>5, MountKeeps, DiscoveryAnsweredKeeps, ClickKeeps, BuildsKeep, FetchVotesKeeps,
     VotesAnsweredKeeps, VoteAnsweredKeeps DEF Page, CorridorAnswered
<1> QED  BY <1>1, <1>2, <1>3, <1>4, <1>5 DEF Next

(* What DiscInv gives holds of every behaviour: the answers under way fit  *)
(* the state of the page and of the server.                                *)
LEMMA DiscKept == Spec => []DiscInv
BY DiscInit, DiscNext, PTL DEF Spec

(* However discoveries, votes and builds of all members interleave, and    *)
(* whatever call is lost, a discovery that commits takes over every vote   *)
(* cast while none was committing (radius.py, corridor.py: the votes are   *)
(* read after the version, and the commit looks at the version again).     *)
THEOREM VotesAreKept == Spec => []VotesFollow
<1>1. DiscInv => VotesFollow
  BY DEF DiscInv, VotesFollow
<1> QED  BY <1>1, DiscKept, PTL

(* A page that remembers the version of the trip shows its suggestions, so *)
(* what the user chose is there when the version check lets a build pass.  *)
THEOREM ListStaysCurrent == Spec => []ListIsCurrent
<1>1. DiscInv => ListIsCurrent
  BY DEF DiscInv, Shown, Current, ListIsCurrent
<1> QED  BY <1>1, DiscKept, PTL

(* useVotes of the pages: once nothing is under way and nobody has voted   *)
(* since, the tallies shown are the votes of the rows shown.               *)
THEOREM TalliesStayRight == Spec => []TalliesFollow
<1>1. DiscInv => TalliesFollow
  <2> SUFFICES ASSUME DiscInv, view = "ready", home.shared, ~stale, ~refetch,
                      ~Under({"votes", "vote"})
               PROVE  tallies = IF list.gen = rows.gen THEN votes ELSE {}
    BY DEF TalliesFollow
  <2>1. ASSUME NEW c \in Calls, Tallying(call[c]) PROVE FALSE
    BY <2>1 DEF Tallying, Under, DiscInv, Fits, Waited
  <2> QED  BY <2>1 DEF DiscInv, Tallied, Right
<1> QED  BY <1>1, DiscKept, PTL

-----------------------------------------------------------------------------
(* Votes, choices and tallies are of rows there are.  The rows of one      *)
(* generation are everywhere the same places: on the server, on the page   *)
(* and in every answer.                                                    *)
Brings(x) == Got(x, "list") \/ Got(x, "discover")
Quiet(x) == ~Brings(x) /\ ~Got(x, "votes")

Named(x) ==
  /\ x.op = "vote" /\ x.at = "writing" /\ x.gen = rows.gen => x.places \subseteq rows.places
  /\ Brings(x) /\ x.gen = rows.gen => x.places = rows.places
  /\ Got(x, "votes") /\ x.gen = rows.gen => x.tally \subseteq rows.places
  /\ Got(x, "votes") /\ x.gen = list.gen => x.tally \subseteq list.places
  /\ x.op = "vote" /\ x.mine /\ x.gen = list.gen =>
       x.new \subseteq list.places /\ x.tally \subseteq list.places

Agreed(f) == \A c, d \in Calls :
  Brings(f[c]) /\ Got(f[d], "votes") /\ f[c].gen = f[d].gen => f[d].tally \subseteq f[c].places

Contained ==
  /\ home \in Home /\ votes \subseteq rows.places
  /\ list.chosen \subseteq list.places /\ tallies \subseteq list.places
  /\ list.gen = rows.gen => list.places = rows.places

RowInv == Contained /\ (\A c \in Calls : Named(call[c])) /\ Agreed(call)

-----------------------------------------------------------------------------
(* The rows stay, on the server and on the page.                           *)
Kept ==
  /\ UNCHANGED <<home, rows, list, tallies>>
  /\ votes' \subseteq rows.places

LEMMA NamedStays ==
  ASSUME rows' = rows, list'.gen = list.gen, list'.places = list.places,
         NEW x, Named(x)
  PROVE  Named(x)'
BY DEF Named, Brings, Got

LEMMA QuietCalls ==
  ASSUME RowInv, rows' = rows, list'.gen = list.gen, list'.places = list.places,
         \A d \in Calls : call'[d] = call[d] \/ (Quiet(call'[d]) /\ Named(call'[d]))
  PROVE  (\A d \in Calls : Named(call[d]))' /\ Agreed(call)'
<1>1. ASSUME NEW d \in Calls PROVE Named(call[d])'
  <2>1. Named(call'[d])
    BY DEF RowInv
  <2> QED  BY <2>1 DEF Named, Brings, Got
<1>2. Agreed(call)'
  <2> SUFFICES ASSUME NEW d \in Calls, NEW e \in Calls, Brings(call'[d]), Got(call'[e], "votes"),
                      call'[d].gen = call'[e].gen
               PROVE  call'[e].tally \subseteq call'[d].places
    BY DEF Agreed
  <2>1. call'[d] = call[d] /\ call'[e] = call[e]
    BY DEF Quiet
  <2>2. Agreed(call)
    BY DEF RowInv
  <2> QED  BY <2>1, <2>2 DEF Agreed
<1> QED  BY <1>1, <1>2

LEMMA KeptContained == RowInv /\ Kept => Contained'
BY DEF RowInv, Kept, Contained

LEMMA RowQuiet ==
  ASSUME RowInv, DiscInv, Kept, NEW c \in Calls, NEW x, Sent(c, x), Quiet(x), Named(x)
  PROVE  RowInv'
<1>1. call \in [Calls -> CallRecords]
  BY DEF DiscInv, Typed
<1>2. \A d \in Calls : call'[d] = call[d] \/ (Quiet(call'[d]) /\ Named(call'[d]))
  BY <1>1 DEF Sent
<1>3. rows' = rows /\ list'.gen = list.gen /\ list'.places = list.places
  BY DEF Kept
<1> QED  BY <1>2, <1>3, QuietCalls, KeptContained DEF RowInv

LEMMA OthersNamed == \A x : x.op # "vote" /\ Quiet(x) => Named(x)
BY DEF Quiet, Named

LEMMA NoCallNamed == Quiet(NoCall) /\ Named(NoCall)
BY DEF NoCall, Quiet, Named, Brings, Got

LEMMA Nothing ==
  ASSUME RowInv, DiscInv, Reads
  PROVE  Kept
BY DEF Reads, Stays, Kept, RowInv, Contained

LEMMA RowEnds ==
  ASSUME RowInv, DiscInv, Kept, NEW c \in Calls, Sent(c, NoCall)
  PROVE  RowInv'
BY NoCallNamed, RowQuiet

(* A failure brings no rows, and what a vote names stays as it was.        *)
LEMMA RowReplied ==
  ASSUME RowInv, DiscInv, Kept, NEW c \in Calls, NEW y \in CallRecords, Answer(c, y),
         y.status # "ok" \/ y.op \notin {"list", "discover", "votes"},
         y.op = "vote" /\ y.mine /\ y.gen = list.gen =>
           y.new \subseteq list.places /\ y.tally \subseteq list.places
  PROVE  RowInv'
<1>1. CASE call[c].mine
  <2> DEFINE x == [y EXCEPT !.at = "back"]
  <2>1. /\ x.at = "back" /\ x.status = y.status /\ x.op = y.op /\ x.mine = y.mine
        /\ x.gen = y.gen /\ x.new = y.new /\ x.tally = y.tally
    BY DEF CallRecords
  <2>2. Sent(c, x)
    BY <1>1 DEF Answer
  <2> HIDE DEF x
  <2>3. Quiet(x)
    BY <2>1 DEF Quiet, Brings, Got
  <2>4. Named(x)
    BY <2>1, <2>3 DEF Named, Quiet
  <2> QED  BY <2>2, <2>3, <2>4, RowQuiet
<1>2. CASE ~call[c].mine
  BY <1>2, RowEnds DEF Answer
<1> QED  BY <1>1, <1>2

LEMMA RowFails ==
  ASSUME RowInv, DiscInv, Kept, NEW c \in Calls,
         NEW st \in {"refused", "conflict", "missing", "paused", "error"}, Fails(c, st)
  PROVE  RowInv'
<1> DEFINE y == [call[c] EXCEPT !.status = st]
<1>0. call[c] \in CallRecords /\ Named(call[c])
  BY DEF DiscInv, Typed, RowInv
<1>1. /\ y \in CallRecords /\ y.status # "ok" /\ y.op = call[c].op /\ y.mine = call[c].mine
      /\ y.gen = call[c].gen /\ y.new = call[c].new /\ y.tally = call[c].tally
  BY <1>0 DEF CallRecords
<1>2. Answer(c, y)
  BY DEF Fails
<1> HIDE DEF y
<1> QED  BY <1>0, <1>1, <1>2, RowReplied DEF Named

LEMMA RowFailures ==
  ASSUME RowInv, DiscInv, NEW c \in Calls, Refuse(c) \/ Stopped(c) \/ Lost(c)
  PROVE  RowInv'
<1>1. CASE Refuse(c)
  <2>1. Refusal(c) \in {"refused", "conflict", "missing"} /\ Fails(c, Refusal(c)) /\ Reads
    BY <1>1 DEF Refuse, Refusal
  <2> QED  BY <2>1, Nothing, RowFails
<1>2. CASE Stopped(c)
  BY <1>2, Nothing, RowFails DEF Stopped
<1>3. CASE Lost(c)
  <2> DEFINE y == [call[c] EXCEPT !.status = "error", !.version = None]
  <2>0. call[c] \in CallRecords /\ Named(call[c])
    BY DEF DiscInv, Typed, RowInv
  <2>1. /\ y \in CallRecords /\ y.status # "ok" /\ y.op = call[c].op /\ y.mine = call[c].mine
        /\ y.gen = call[c].gen /\ y.new = call[c].new /\ y.tally = call[c].tally
    BY <2>0 DEF CallRecords
  <2>2. Answer(c, y) /\ Kept
    BY <1>3, Nothing DEF Lost
  <2> HIDE DEF y
  <2> QED  BY <2>0, <2>1, <2>2, RowReplied DEF Named
<1> QED  BY <1>1, <1>2, <1>3

LEMMA RowTrip ==
  ASSUME RowInv, DiscInv, NEW c \in Calls, ServeTrip(c)
  PROVE  RowInv'
<1> DEFINE y == [call[c] EXCEPT !.status = "ok", !.version = version]
<1>0. call[c] \in CallRecords /\ call[c].op = "trip" /\ version \in Nat
  BY DEF DiscInv, Typed, ServeTrip, Takes
<1>1. y \in CallRecords /\ y.op = "trip"
  BY <1>0 DEF CallRecords
<1>2. Answer(c, y) /\ Kept
  BY Nothing DEF ServeTrip
<1> HIDE DEF y
<1> QED  BY <1>1, <1>2, RowReplied

(* The answers with rows or tallies agree with those already under way.    *)
LEMMA RowBrought ==
  ASSUME RowInv, DiscInv, Kept, NEW c \in Calls, NEW x \in CallRecords, Sent(c, x), Named(x),
         x.gen = rows.gen,
         Brings(x) => x.places = rows.places,
         Got(x, "votes") => x.tally \subseteq rows.places
  PROVE  RowInv'
<1>1. /\ call \in [Calls -> CallRecords] /\ call' \in [Calls -> CallRecords]
      /\ call'[c] = x /\ \A d \in Calls : d # c => call'[d] = call[d]
  BY DEF DiscInv, Typed, Sent
<1>2. ASSUME NEW d \in Calls PROVE Named(call[d])'
  <2>1. Named(call'[d])
    BY <1>1 DEF RowInv
  <2> QED  BY <2>1 DEF Named, Brings, Got, Kept
<1>3. Agreed(call)'
  <2> SUFFICES ASSUME NEW d \in Calls, NEW e \in Calls, Brings(call'[d]), Got(call'[e], "votes"),
                      call'[d].gen = call'[e].gen
               PROVE  call'[e].tally \subseteq call'[d].places
    BY DEF Agreed
  <2>1. Named(call[d]) /\ Named(call[e]) /\ Agreed(call)
    BY DEF RowInv
  <2>2. ~(d = c /\ e = c)
    BY DEF Brings, Got
  <2>3. CASE d = c
    BY <1>1, <2>1, <2>2, <2>3 DEF Named
  <2>4. CASE e = c
    BY <1>1, <2>1, <2>2, <2>4 DEF Named
  <2>5. CASE d # c /\ e # c
    BY <1>1, <2>1, <2>5 DEF Agreed
  <2> QED  BY <2>3, <2>4, <2>5
<1> QED  BY <1>2, <1>3, KeptContained DEF RowInv

LEMMA RowServed ==
  ASSUME RowInv, DiscInv, NEW c \in Calls, ServeList(c) \/ ServeVotes(c)
  PROVE  RowInv'
<1>0. call[c] \in CallRecords /\ Kept
  BY Nothing DEF DiscInv, Typed, ServeList, ServeVotes
<1>t. rows.gen \in Nat /\ rows.places \in SUBSET Places /\ votes \in SUBSET Places
      /\ votes \subseteq rows.places /\ (list.gen = rows.gen => list.places = rows.places)
  BY DEF DiscInv, Typed, Rows, RowInv, Contained
<1>1. CASE ~call[c].mine
  BY <1>0, <1>1, RowEnds DEF ServeList, ServeVotes, Answer
<1>2. CASE call[c].mine /\ ServeList(c)
  <2> DEFINE y == [call[c] EXCEPT !.status = "ok", !.gen = rows.gen, !.places = rows.places]
             x == [y EXCEPT !.at = "back"]
  <2>1. /\ x \in CallRecords /\ x.op = "list" /\ x.gen = rows.gen /\ x.places = rows.places
    BY <1>0, <1>2, <1>t DEF CallRecords, ServeList, Takes
  <2>2. Sent(c, x)
    BY <1>2 DEF ServeList, Answer
  <2> HIDE DEF x
  <2>3. Named(x) /\ ~Got(x, "votes")
    BY <2>1 DEF Named, Got
  <2> QED  BY <1>0, <2>1, <2>2, <2>3, RowBrought
<1>3. CASE call[c].mine /\ ServeVotes(c)
  <2> DEFINE y == [call[c] EXCEPT !.status = "ok", !.gen = rows.gen, !.tally = votes]
             x == [y EXCEPT !.at = "back"]
  <2>1. /\ x \in CallRecords /\ x.op = "votes" /\ x.gen = rows.gen /\ x.tally = votes
    BY <1>0, <1>3, <1>t DEF CallRecords, ServeVotes, Takes
  <2>2. Sent(c, x)
    BY <1>3 DEF ServeVotes, Answer
  <2> HIDE DEF x
  <2>3. Named(x) /\ ~Brings(x)
    BY <1>t, <2>1 DEF Named, Brings, Got
  <2> QED  BY <1>0, <1>t, <2>1, <2>2, <2>3, RowBrought
<1> QED  BY <1>1, <1>2, <1>3

LEMMA RowBegin ==
  ASSUME RowInv, DiscInv, NEW c \in Calls, Begin(c)
  PROVE  RowInv'
<1> DEFINE x == IF call[c].op = "discover"
                THEN [call[c] EXCEPT !.at = "running", !.gen = rows.gen, !.places = rows.places]
                ELSE [call[c] EXCEPT !.at = "running"]
<1>0. call[c] \in CallRecords /\ call[c].op # "vote"
  BY DEF DiscInv, Typed, Begin, Takes, Edits, Builds
<1>1. x.at = "running" /\ x.op # "vote"
  BY <1>0 DEF CallRecords
<1>2. Sent(c, x) /\ Kept
  BY Nothing DEF Begin
<1> HIDE DEF x
<1>3. Quiet(x)
  BY <1>1 DEF Quiet, Brings, Got
<1> QED  BY <1>1, <1>2, <1>3, OthersNamed, RowQuiet

LEMMA RowCarryOver ==
  ASSUME RowInv, DiscInv, NEW c \in Calls, CarryOver(c)
  PROVE  RowInv'
<1>1. PICK found \in SUBSET Places :
       Sent(c, [call[c] EXCEPT !.at = "writing", !.new = found,
                               !.moved = IF call[c].gen = rows.gen THEN votes ELSE {}])
  BY DEF CarryOver
<1> DEFINE x == [call[c] EXCEPT !.at = "writing", !.new = found,
                                !.moved = IF call[c].gen = rows.gen THEN votes ELSE {}]
<1>0. call[c] \in CallRecords /\ call[c].op = "discover"
  BY DEF DiscInv, Typed, CarryOver
<1>2. x.at = "writing" /\ x.op = "discover"
  BY <1>0 DEF CallRecords
<1>3. Sent(c, x) /\ Kept
  BY <1>1, Nothing DEF CarryOver
<1> HIDE DEF x
<1>4. Quiet(x)
  BY <1>2 DEF Quiet, Brings, Got
<1> QED  BY <1>2, <1>3, <1>4, OthersNamed, RowQuiet

(* The new rows are newer than every row anybody names.                    *)
LEMMA RowCommit ==
  ASSUME RowInv, DiscInv, NEW c \in Calls, DiscoverCommit(c)
  PROVE  RowInv'
<1>0. /\ call[c].at = "writing" /\ call[c].op = "discover" /\ call[c] \in CallRecords
      /\ call \in [Calls -> CallRecords] /\ rows.gen \in Nat /\ version \in Nat
  BY DEF DiscoverCommit, DiscInv, Typed, Rows
<1>1. CASE ~Matches(c)
  BY <1>1, Nothing, RowFails DEF DiscoverCommit
<1>2. CASE Matches(c)
  <2>1. /\ rows' = [gen |-> rows.gen + 1, places |-> call[c].new] /\ version' = version + 1
        /\ votes' = call[c].moved \cap call[c].new
        /\ UNCHANGED <<home, list, tallies>>
        /\ Answer(c, [call[c] EXCEPT !.status = "ok", !.version = version', !.gen = rows'.gen,
                                     !.places = call[c].new, !.new = {}, !.moved = {}])
    BY <1>2 DEF DiscoverCommit, Stays
  <2>2. rows'.gen = rows.gen + 1 /\ rows'.places = call[c].new
    BY <2>1
  <2>3. \A n : (n # None => n <= rows.gen) => n # rows'.gen
    BY <1>0, <2>2, DiscoveryAssumption
  <2>4. list.gen # rows'.gen
    BY <2>3 DEF DiscInv, Shown
  <2>5. Contained'
    BY <2>1, <2>2, <2>4 DEF RowInv, Contained
  <2>6. \A d \in Calls : call[d].gen # rows'.gen
    BY <2>3 DEF DiscInv, Fits, Bounded
  <2>7. PICK x : /\ Sent(c, x)
                 /\ x = NoCall \/ (x.gen = rows'.gen /\ x.places = rows'.places /\ x.op = "discover")
    <3>1. CASE call[c].mine
      <4> DEFINE y == [call[c] EXCEPT !.status = "ok", !.version = version', !.gen = rows'.gen,
                                      !.places = call[c].new, !.new = {}, !.moved = {}]
                 x == [y EXCEPT !.at = "back"]
      <4>1. x.gen = rows'.gen /\ x.places = rows'.places /\ x.op = "discover"
        BY <1>0, <2>2 DEF CallRecords
      <4>2. Sent(c, x)
        BY <2>1, <3>1 DEF Answer
      <4> HIDE DEF x
      <4> QED  BY <4>1, <4>2
    <3>2. CASE ~call[c].mine
      BY <2>1, <3>2, NoCallNamed DEF Answer
    <3> QED  BY <3>1, <3>2
  <2>8. /\ call'[c] = x /\ \A d \in Calls : d # c => call'[d] = call[d]
    BY <1>0, <2>1, <2>7 DEF Sent, Answer
  <2>9. ASSUME NEW d \in Calls PROVE Named(call[d])'
    <3>1. CASE d = c /\ x = NoCall
      BY <2>8, <3>1 DEF Named, NoCall, Brings, Got
    <3>2. CASE d = c /\ x # NoCall
      BY <2>7, <2>8, <3>2 DEF Named, Brings, Got
    <3>3. CASE d # c
      <4>1. Named(call[d]) /\ call'[d] = call[d] /\ call[d].gen # rows'.gen
        BY <2>6, <2>8, <3>3 DEF RowInv
      <4> QED  BY <2>1, <4>1 DEF Named, Brings, Got
    <3> QED  BY <3>1, <3>2, <3>3
  <2>10. Agreed(call)'
    <3> SUFFICES ASSUME NEW d \in Calls, NEW e \in Calls, Brings(call'[d]), Got(call'[e], "votes"),
                        call'[d].gen = call'[e].gen
                 PROVE  call'[e].tally \subseteq call'[d].places
      BY DEF Agreed
    <3>1. ~Got(x, "votes")
      BY <2>7, NoCallNamed DEF Got, Quiet
    <3>2. e # c /\ call'[e] = call[e]
      BY <2>8, <3>1
    <3>3. d # c
      BY <2>6, <2>7, <2>8, <3>2, NoCallNamed DEF Quiet
    <3> QED  BY <2>8, <3>2, <3>3 DEF RowInv, Agreed
  <2> QED  BY <2>5, <2>9, <2>10 DEF RowInv
<1> QED  BY <1>1, <1>2

LEMMA RowBuilds ==
  ASSUME RowInv, DiscInv, NEW c \in Calls, BuildCommit(c)
  PROVE  RowInv'
<1>0. call[c] \in CallRecords /\ call[c].op \in Builds /\ version \in Nat
  BY DEF DiscInv, Typed, BuildCommit
<1>1. Kept
  BY Nothing DEF BuildCommit, Stays, Kept, RowInv, Contained
<1>2. CASE \E st \in {"conflict", "error"} : Fails(c, st)
  BY <1>1, <1>2, RowFails
<1>3. CASE Answer(c, [call[c] EXCEPT !.status = "ok", !.version = version']) /\ version' = version + 1
  <2> DEFINE y == [call[c] EXCEPT !.status = "ok", !.version = version + 1]
  <2>1. y \in CallRecords /\ y.op = call[c].op
    <3>1. PICK n \in Nat : n = version + 1
      BY <1>0
    <3>2. y = [call[c] EXCEPT !.status = "ok", !.version = n]
      BY <3>1
    <3> HIDE DEF y
    <3> QED  BY <1>0, <3>2 DEF CallRecords
  <2>2. Answer(c, y)
    BY <1>3
  <2> HIDE DEF y
  <2> QED  BY <1>0, <1>1, <2>1, <2>2, RowReplied DEF Builds
<1> QED  BY <1>2, <1>3 DEF BuildCommit

(* _require_target has found the row, the vote is written on it or is of a *)
(* row that is gone.                                                       *)
LEMMA RowVotes ==
  ASSUME RowInv, DiscInv, NEW c \in Calls, VoteTarget(c) \/ VoteWrite(c)
  PROVE  RowInv'
<1>0. call[c] \in CallRecords /\ Named(call[c]) /\ call[c].op = "vote" /\ votes \subseteq rows.places
  BY DEF DiscInv, Typed, VoteTarget, VoteWrite, Takes, RowInv, Contained
<1>1. CASE VoteTarget(c) /\ call[c].gen = rows.gen /\ call[c].places \subseteq rows.places
  <2> DEFINE x == [call[c] EXCEPT !.at = "writing"]
  <2>1. /\ x.at = "writing" /\ x.op = "vote" /\ x.mine = call[c].mine /\ x.gen = call[c].gen
        /\ x.places = call[c].places /\ x.new = call[c].new /\ x.tally = call[c].tally
    BY <1>0 DEF CallRecords
  <2>2. Sent(c, x) /\ Kept
    BY <1>1, Nothing DEF VoteTarget
  <2> HIDE DEF x
  <2>3. Quiet(x) /\ Named(x)
    BY <1>0, <1>1, <2>1 DEF Named, Quiet, Brings, Got
  <2> QED  BY <2>2, <2>3, RowQuiet
<1>2. CASE VoteTarget(c) /\ ~(call[c].gen = rows.gen /\ call[c].places \subseteq rows.places)
  BY <1>2, Nothing, RowFails DEF VoteTarget
<1>3. CASE VoteWrite(c)
  <2> DEFINE y == [call[c] EXCEPT !.status = "ok", !.tally = call[c].new]
  <2>1. /\ y \in CallRecords /\ y.op = "vote" /\ y.mine = call[c].mine /\ y.gen = call[c].gen
        /\ y.new = call[c].new /\ y.tally = call[c].new
    BY <1>0 DEF CallRecords
  <2>2. Answer(c, y)
    BY <1>3 DEF VoteWrite
  <2>3. Kept
    BY <1>0, <1>3 DEF VoteWrite, Stays, Kept, Named
  <2> HIDE DEF y
  <2> QED  BY <1>0, <2>1, <2>2, <2>3, RowReplied DEF Named
<1> QED  BY <1>1, <1>2, <1>3

-----------------------------------------------------------------------------
(* What the page sends, and what it hears.                                 *)

LEMMA OutQuiet ==
  ASSUME NEW op, NEW gen, NEW places
  PROVE  /\ Quiet(Out(op, gen, places)) /\ Out(op, gen, places).op = op
         /\ op # "vote" => Named(Out(op, gen, places))
BY DEF Out, NoCall, Quiet, Named, Brings, Got

LEMMA RowSends ==
  ASSUME RowInv, DiscInv, Kept, NEW c \in Calls, NEW op \in Ops \ {"vote"}, NEW gen, NEW places,
         Sent(c, Out(op, gen, places))
  PROVE  RowInv'
BY OutQuiet, RowQuiet

LEMMA RowOthers ==
  ASSUME RowInv, DiscInv, NEW c \in Calls, OtherCall(c)
  PROVE  RowInv'
<1>0. Kept
  BY Nothing DEF OtherCall
<1>1. CASE Sent(c, [Out("discover", 0, {}) EXCEPT !.mine = FALSE, !.match = version])
  <2> DEFINE x == [Out("discover", 0, {}) EXCEPT !.mine = FALSE, !.match = version]
  <2>1. x.at = "out" /\ x.op = "discover" /\ Sent(c, x)
    BY <1>1 DEF Out, NoCall
  <2> HIDE DEF x
  <2> QED  BY <1>0, <2>1, OthersNamed, RowQuiet DEF Quiet, Brings, Got
<1>2. ASSUME NEW p \in rows.places, NEW new \in {{}, {p}},
             Sent(c, [Out("vote", rows.gen, {p}) EXCEPT !.mine = FALSE, !.new = new])
      PROVE  RowInv'
  <2> DEFINE x == [Out("vote", rows.gen, {p}) EXCEPT !.mine = FALSE, !.new = new]
  <2>1. x.at = "out" /\ x.op = "vote" /\ ~x.mine /\ Sent(c, x)
    BY <1>2 DEF Out, NoCall
  <2> HIDE DEF x
  <2> QED  BY <1>0, <2>1, RowQuiet DEF Quiet, Named, Brings, Got
<1> QED  BY <1>1, <1>2 DEF OtherCall

LEMMA RowClicks ==
  ASSUME RowInv, DiscInv, NEW c \in Calls,
         \/ Refresh(c) \/ DetourChange(c) \/ Vote(c)
         \/ \E what \in Builds : StartBuild(c, what)
  PROVE  RowInv'
<1>t. votes \subseteq rows.places
  BY DEF RowInv, Contained
<1>1. CASE StartDiscovery(c)
  BY <1>t, <1>1, RowSends DEF StartDiscovery, Kept, server, voting, Ops, Builds
<1>2. ASSUME NEW what \in Builds, StartBuild(c, what) PROVE RowInv'
  BY <1>t, <1>2, RowSends DEF StartBuild, Kept, server, voting, Ops, Builds
<1>3. CASE Vote(c)
  <2>1. PICK p \in list.places : Sent(c, [Out("vote", list.gen, {p}) EXCEPT !.new = {p} \ tallies])
    BY <1>3 DEF Vote
  <2> DEFINE x == [Out("vote", list.gen, {p}) EXCEPT !.new = {p} \ tallies]
  <2>2. x.at = "out" /\ x.op = "vote" /\ x.new = {p} \ tallies /\ x.tally = {}
    BY DEF Out, NoCall
  <2>3. Sent(c, x) /\ Kept
    BY <1>t, <1>3, <2>1 DEF Vote, Kept, server, voting
  <2> HIDE DEF x
  <2>4. Quiet(x) /\ Named(x)
    BY <2>2 DEF Quiet, Named, Brings, Got
  <2> QED  BY <2>3, <2>4, RowQuiet
<1> QED  BY <1>1, <1>2, <1>3 DEF Refresh, DetourChange

(* The list comes with rows whose places every answer of theirs agrees to. *)
LEMMA RowFound ==
  ASSUME RowInv, DiscInv, NEW c \in Calls, Brings(call[c]),
         Sent(c, NoCall), UNCHANGED <<home, rows, votes>>,
         list'.gen = call[c].gen, list'.places = call[c].places,
         list'.chosen \subseteq call[c].places, tallies' = {},
         \A d \in Calls : call[d].op = "vote" /\ call[d].mine => call[d].gen # call[c].gen
  PROVE  RowInv'
<1>1. /\ call \in [Calls -> CallRecords] /\ call'[c] = NoCall
      /\ \A d \in Calls : d # c => call'[d] = call[d]
  BY DEF DiscInv, Typed, Sent
<1>2. Named(call[c]) /\ Agreed(call)
  BY DEF RowInv
<1>3. Contained'
  BY <1>2 DEF RowInv, Contained, Named
<1>4. ASSUME NEW d \in Calls PROVE Named(call[d])'
  <2>1. CASE d = c
    BY <1>1, <2>1 DEF NoCall, Named, Brings, Got
  <2>2. CASE d # c
    <3>1. call'[d] = call[d] /\ Named(call[d])
      BY <1>1, <2>2 DEF RowInv
    <3>2. Got(call[d], "votes") /\ call[d].gen = call[c].gen => call[d].tally \subseteq call[c].places
      BY <1>2 DEF Agreed
    <3> QED  BY <3>1, <3>2 DEF Named, Brings, Got
  <2> QED  BY <2>1, <2>2
<1>5. Agreed(call)'
  <2> SUFFICES ASSUME NEW d \in Calls, NEW e \in Calls, Brings(call'[d]), Got(call'[e], "votes"),
                      call'[d].gen = call'[e].gen
               PROVE  call'[e].tally \subseteq call'[d].places
    BY DEF Agreed
  <2>1. d # c /\ e # c
    BY <1>1, NoCallNamed DEF Quiet
  <2> QED  BY <1>1, <1>2, <2>1 DEF Agreed
<1> QED  BY <1>3, <1>4, <1>5 DEF RowInv

LEMMA RowMount ==
  ASSUME RowInv, DiscInv, NEW c \in Calls, DiscoverMount(c) \/ CorridorMount(c)
  PROVE  RowInv'
<1>t. votes \subseteq rows.places
  BY DEF RowInv, Contained
<1>1. CASE OpenFails(c) \/ Redirect(c) \/ NoRoute(c)
  BY <1>t, <1>1, RowEnds DEF OpenFails, Redirect, NoRoute, Kept, server, voting
<1>2. CASE AskForList(c)
  BY <1>t, <1>2, RowSends DEF AskForList, Kept, server, Ops, Builds
<1>3. CASE SearchAtOnce(c)
  BY <1>t, <1>3, RowSends DEF SearchAtOnce, Kept, server, voting, Ops, Builds
<1>4. CASE ListFound(c)
  <2>1. /\ view = "loading" /\ Brings(call[c]) /\ Sent(c, NoCall)
        /\ UNCHANGED <<home, rows, votes, tallies>>
    BY <1>4 DEF ListFound, Opening, Back, Ok, Brings, Got, server
  <2>2. PICK selected \in SUBSET call[c].places :
          list' = [gen |-> call[c].gen, places |-> call[c].places, chosen |-> selected]
    BY <1>4 DEF ListFound
  <2>3. tallies = {} /\ \A d \in Calls : ~(call[d].op = "vote" /\ call[d].mine)
    BY <2>1 DEF DiscInv, Shown, Fits, Waited
  <2>4. /\ list'.gen = call[c].gen /\ list'.places = call[c].places
        /\ list'.chosen \subseteq call[c].places /\ tallies' = {}
    BY <2>1, <2>2, <2>3
  <2> QED  BY <2>1, <2>3, <2>4, RowFound
<1> QED  BY <1>1, <1>2, <1>3, <1>4 DEF DiscoverMount, CorridorMount

LEMMA RowAnswered ==
  ASSUME RowInv, DiscInv, NEW c \in Calls, DiscoveryAnswered(c)
  PROVE  RowInv'
<1>0. /\ Sent(c, NoCall) /\ UNCHANGED <<home, rows, votes>>
      /\ call[c].at = "back" /\ call[c].op = "discover"
  BY DEF DiscoveryAnswered, Back, server
<1>1. CASE ~Ok(c)
  BY <1>0, <1>1, RowEnds DEF DiscoveryAnswered, Kept, RowInv, Contained
<1>2. CASE Ok(c)
  <2>1. Got(call[c], "discover") /\ Brings(call[c])
    BY <1>0, <1>2 DEF Brings, Got, Ok
  <2>2. /\ list' = [gen |-> call[c].gen, places |-> call[c].places, chosen |-> {}]
        /\ tallies' = {}
    BY <1>2 DEF DiscoveryAnswered
  <2>3. /\ list'.gen = call[c].gen /\ list'.places = call[c].places
        /\ list'.chosen \subseteq call[c].places
    BY <2>2
  <2>4. ASSUME NEW d \in Calls, call[d].op = "vote", call[d].mine PROVE call[d].gen # call[c].gen
    <3>1. /\ call[d].gen # None /\ list.gen # None /\ call[d].gen <= list.gen
      BY <2>4 DEF DiscInv, Fits, Voting
    <3>2. call[c].gen # None /\ list.gen < call[c].gen
      BY <2>1, <3>1 DEF DiscInv, Fits, Listing
    <3>3. call[c] \in CallRecords /\ call[d] \in CallRecords /\ list.gen \in Nat \cup {None}
      BY DEF DiscInv, Typed
    <3>4. call[c].gen \in Nat /\ call[d].gen \in Nat /\ list.gen \in Nat
      BY <3>1, <3>2, <3>3 DEF CallRecords
    <3> QED  BY <3>1, <3>2, <3>4
  <2> QED  BY <1>0, <2>1, <2>2, <2>3, <2>4, RowFound
<1> QED  BY <1>1, <1>2

LEMMA RowBuilt ==
  ASSUME RowInv, DiscInv, NEW c \in Calls, BuildRoute(c) \/ BuildItinerary(c) \/ AddStops(c)
  PROVE  RowInv'
<1>t. votes \subseteq rows.places
  BY DEF RowInv, Contained
<1>1. ASSUME NEW what \in Builds, NEW next, BuildAnswered(c, what, next) PROVE RowInv'
  BY <1>t, <1>1, RowEnds DEF BuildAnswered, Kept, server, voting
<1> QED  BY <1>1, RowClicks DEF BuildRoute, BuildItinerary, AddStops, Builds

LEMMA RowTallies ==
  ASSUME RowInv, DiscInv, NEW c \in Calls, VotesAnswered(c) \/ VoteAnswered(c)
  PROVE  RowInv'
<1>0. /\ votes \subseteq rows.places /\ tallies \subseteq list.places /\ Named(call[c])
      /\ Sent(c, NoCall) /\ UNCHANGED <<home, rows, votes, list>>
      /\ call[c].at = "back" => call[c].mine
  BY DEF RowInv, Contained, VotesAnswered, VoteAnswered, server, DiscInv, Fits, Waited
<1>1. tallies' \subseteq list.places
  BY <1>0 DEF VotesAnswered, VoteAnswered, Named, Got, Back, Ok
<1>2. call \in [Calls -> CallRecords]
  BY DEF DiscInv, Typed
<1>3. (\A d \in Calls : Named(call[d]))' /\ Agreed(call)'
  <2>1. \A d \in Calls : call'[d] = call[d] \/ (Quiet(call'[d]) /\ Named(call'[d]))
    BY <1>0, <1>2, NoCallNamed DEF Sent
  <2> QED  BY <1>0, <2>1, QuietCalls
<1> QED  BY <1>0, <1>1, <1>3 DEF RowInv, Contained

LEMMA RowFetch ==
  ASSUME RowInv, DiscInv, NEW c \in Calls, FetchVotes(c)
  PROVE  RowInv'
<1>0. /\ UNCHANGED <<home, rows, votes, list, tallies>>
      /\ call' = [d \in Calls |->
                    IF d = c THEN Out("votes", 0, {})
                    ELSE IF call[d].op = "votes" /\ call[d].mine
                    THEN NoCall ELSE call[d]]
  BY DEF FetchVotes, server
<1>1. \A d \in Calls : call'[d] = call[d] \/ (Quiet(call'[d]) /\ Named(call'[d]))
  BY <1>0, NoCallNamed, OutQuiet
<1>2. (\A d \in Calls : Named(call[d]))' /\ Agreed(call)'
  BY <1>0, <1>1, QuietCalls
<1> QED  BY <1>0, <1>2 DEF RowInv, Contained

LEMMA RowLeave ==
  ASSUME RowInv, DiscInv, Leave
  PROVE  RowInv'
<1>0. /\ UNCHANGED <<home, rows, votes, list, tallies>>
      /\ call' = [c \in Calls |-> IF call[c].at \in {"out", "back"} /\ call[c].mine THEN NoCall
                                  ELSE [call[c] EXCEPT !.mine = FALSE]]
  BY DEF Leave, server, voting
<1>1. ASSUME NEW d \in Calls PROVE Quiet(call'[d]) /\ Named(call'[d])
  <2>0. call[d] \in CallRecords /\ Named(call[d]) /\ (call[d].at = "back" => call[d].mine)
    BY DEF DiscInv, Typed, RowInv, Fits, Waited
  <2>1. CASE call[d].at \in {"out", "back"} /\ call[d].mine
    BY <1>0, <2>1, NoCallNamed
  <2>2. CASE ~(call[d].at \in {"out", "back"} /\ call[d].mine)
    <3> DEFINE x == [call[d] EXCEPT !.mine = FALSE]
    <3>1. call'[d] = x
      BY <1>0, <2>2
    <3>2. /\ ~x.mine /\ x.at = call[d].at /\ x.op = call[d].op /\ x.gen = call[d].gen
          /\ x.places = call[d].places /\ x.at # "back"
      BY <2>0, <2>2 DEF CallRecords
    <3> HIDE DEF x
    <3> QED  BY <2>0, <3>1, <3>2 DEF Quiet, Named, Brings, Got
  <2> QED  BY <2>1, <2>2
<1>2. (\A d \in Calls : Named(call[d]))' /\ Agreed(call)'
  BY <1>0, <1>1, QuietCalls
<1> QED  BY <1>0, <1>2 DEF RowInv, Contained

LEMMA RowAlone ==
  ASSUME RowInv, DiscInv, OtherEdit \/ PauseLifted \/ Toggle \/ UNCHANGED vars
  PROVE  RowInv'
<1>0. /\ UNCHANGED <<home, rows, votes, call, tallies>>
      /\ list'.gen = list.gen /\ list'.places = list.places
      /\ list'.chosen \subseteq list.places
  <2>1. CASE Toggle
    <3>1. PICK p \in list.places :
            list' = [list EXCEPT !.chosen = IF p \in @ THEN @ \ {p} ELSE @ \cup {p}]
      BY <2>1 DEF Toggle
    <3>2. list \in [gen : Nat \cup {None}, places : SUBSET Places, chosen : SUBSET Places]
          /\ list.chosen \subseteq list.places
      BY DEF DiscInv, Typed, RowInv, Contained
    <3> QED  BY <2>1, <3>1, <3>2 DEF Toggle, server, voting
  <2>2. CASE OtherEdit \/ PauseLifted \/ UNCHANGED vars
    BY <2>2 DEF OtherEdit, Stays, PauseLifted, vars, server, voting, RowInv, Contained
  <2> QED  BY <2>1, <2>2
<1>1. (\A d \in Calls : Named(call[d]))' /\ Agreed(call)'
  BY <1>0, QuietCalls
<1> QED  BY <1>0, <1>1 DEF RowInv, Contained

LEMMA RowInit == Init => RowInv
<1> SUFFICES ASSUME Init PROVE RowInv
  OBVIOUS
<1>1. PICK c \in Calls : call = [d \in Calls |-> IF d = c THEN [NoCall EXCEPT !.at = "out", !.mine = TRUE]
                                                ELSE NoCall]
  BY DEF Init
<1>2. Contained
  BY DiscoveryAssumption DEF Init, Contained, NoList
<1>3. ASSUME NEW d \in Calls PROVE Quiet(call[d]) /\ call[d].op = "trip"
  BY <1>1 DEF NoCall, Quiet, Brings, Got
<1>4. Agreed(call)
  BY <1>3 DEF Agreed, Quiet
<1> QED  BY <1>2, <1>3, <1>4, OthersNamed DEF RowInv

LEMMA RowNext == DiscInv /\ RowInv /\ [Next]_vars => RowInv'
<1> SUFFICES ASSUME DiscInv, RowInv, [Next]_vars PROVE RowInv'
  OBVIOUS
<1>1. CASE OtherEdit \/ PauseLifted \/ Toggle \/ Leave \/ UNCHANGED vars
  BY <1>1, RowAlone, RowLeave
<1>2. ASSUME NEW c \in Calls, Serve(c) PROVE RowInv'
  BY <1>2, RowFailures, RowTrip, RowServed, RowBegin, RowCarryOver, RowCommit, RowBuilds, RowVotes
     DEF Serve
<1>3. ASSUME NEW c \in Calls, Stopped(c) \/ Lost(c) \/ OtherCall(c) PROVE RowInv'
  BY <1>3, RowFailures, RowOthers
<1>4. ASSUME NEW c \in Calls, Page(c) PROVE RowInv'
  BY <1>4, RowMount, RowAnswered, RowClicks, RowBuilt, RowFetch, RowTallies
     DEF Page, CorridorAnswered
<1> QED  BY <1>1, <1>2, <1>3, <1>4 DEF Next

(* Votes, choices and tallies stay within the rows they are of: no vote is *)
(* left on a row a discovery removed, and nothing is chosen or counted on  *)
(* the page that its list does not show, however late an answer comes.     *)
THEOREM DiscoveryTyped == Spec => []TypeOK
<1>1. DiscInv /\ RowInv => TypeOK
  BY DEF DiscInv, Typed, RowInv, Contained, TypeOK
<1>2. Init => DiscInv /\ RowInv
  BY DiscInit, RowInit
<1>3. DiscInv /\ RowInv /\ [Next]_vars => (DiscInv /\ RowInv)'
  BY DiscNext, RowNext
<1> QED  BY <1>1, <1>2, <1>3, PTL DEF Spec
=============================================================================
