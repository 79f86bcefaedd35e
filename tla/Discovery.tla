------------------------------ MODULE Discovery ------------------------------
(***************************************************************************)
(* The two pages that suggest places: discover (round trips) and corridor  *)
(* (places along a route), with the handlers and the votes behind them.    *)
(*                                                                         *)
(* A discovery replaces the suggestions of the trip by new rows.  What the *)
(* user chose on the page and what the members voted for names rows, so    *)
(* both have to follow: the page takes the new list over from the answer,  *)
(* and the handler moves the votes to the new row of the same place.       *)
(*                                                                         *)
(* The suggestions of the trip are a generation (counted by discoveries)   *)
(* and a set of places; a row is a generation and a place.  A discovery    *)
(* reads the old rows and checks the version, asks the upstream, writes    *)
(* the new rows and reads the votes in its transaction, and commits if     *)
(* the version is still the one it was sent with.  What happens to the     *)
(* stops of the trip is left to TripOrder: a build is a new version here.  *)
(***************************************************************************)
EXTENDS Naturals, FiniteSets

CONSTANTS
  Places,      \* the places the upstream may suggest
  Calls,       \* the calls that may be under way at once
  MaxVersion,  \* bound: nobody starts an edit once the trip has this version
  Home,        \* bound: what the open page may be, a subset of Homes
  None         \* no version

Homes == [page : {"discover", "corridor"}, role : {"editor", "viewer"}, shared : BOOLEAN,
          fits : BOOLEAN,     \* the mode of the trip is the page's
          routed : BOOLEAN]   \* it has a route

ASSUME DiscoveryAssumption ==
  /\ MaxVersion \in Nat /\ None \notin Nat
  /\ Home \subseteq Homes

VARIABLES
  home,         \* the page that is open, and for whom
  version,      \* of the trip
  rows,         \* its suggestions: the generation and the places
  votes,        \* the places whose present row has a vote
  call,         \* the calls under way
  view,         \* what the page shows, see Views
  known,        \* the version the tab remembers (tripVersions)
  list,         \* the suggestions on the page, and those of them chosen
  discovering,  \* the page says that it is searching
  paused,       \* pausedUntil is set: the shared budget is spent
  tallies,      \* the places of the list with a vote, as the page knows them
  refetch,      \* the effect of useVotes is to run
  due,          \* history: places with a vote cast while no discovery was committing
  stale         \* history: the votes changed since the page last asked for them

server == <<home, version, rows, votes, due>>
voting == <<tallies, refetch, stale>>
status == <<discovering, paused>>
vars == <<server, call, view, known, list, status, voting>>

Views == {"loading", "stuck", "noroute", "ready", "left"}
Rows == [gen : Nat, places : SUBSET Places]
Builds == {"route", "itinerary"}
Ops == {"trip", "list", "discover", "votes", "vote"} \cup Builds
Edits == {"discover"} \cup Builds

CallRecords == [
  at : {"idle", "out", "running", "writing", "back"},
  op : Ops,
  mine : BOOLEAN,                \* the page waits for the answer
  match : Nat \cup {None},       \* its If-Match header
  gen : Nat \cup {None},         \* the rows it names, read or brings back
  places : SUBSET Places,
  new : SUBSET Places,           \* discover: the places found; vote: those it is for
  moved : SUBSET Places,         \* discover: those whose old row has a vote
  tally : SUBSET Places,         \* votes, vote: those with a vote, in the answer
  version : Nat \cup {None},     \* the version in the answer
  status : {"none", "ok", "refused", "conflict", "missing", "paused", "error"}]

NoCall == [at |-> "idle", op |-> "trip", mine |-> FALSE, match |-> None, gen |-> 0,
           places |-> {}, new |-> {}, moved |-> {}, tally |-> {}, version |-> None,
           status |-> "none"]
NoList == [gen |-> None, places |-> {}, chosen |-> {}]

Init ==
  /\ home \in Home
  /\ version = 1 /\ votes = {} /\ due = {}
  /\ rows \in [gen : {0}, places : SUBSET Places]
  /\ \E c \in Calls : call = [d \in Calls |-> IF d = c THEN [NoCall EXCEPT !.at = "out", !.mine = TRUE]
                                              ELSE NoCall]
  /\ view = "loading" /\ known = None /\ list = NoList
  /\ discovering = FALSE /\ paused = FALSE
  /\ tallies = {} /\ refetch = FALSE /\ stale = FALSE

-----------------------------------------------------------------------------
(* What the pages offer.                                                   *)

CanEdit == home.role # "viewer"

Under(ops) == \E c \in Calls : call[c].at # "idle" /\ call[c].mine /\ call[c].op \in ops

(* A build button is there for what is chosen, and busy until the answer.  *)
Buildable(what) ==
  IF CanEdit /\ list.chosen # {} /\ ~Under({what}) THEN {what} ELSE {}

(* The pins of the map and the floating button, which ask for less.        *)
DiscoverMap == {"toggle"} \cup Buildable("itinerary")
CorridorMap == {"toggle"} \cup Buildable("route")

(* (What is left of the day's discoveries is not kept: a user for whom the *)
(* page disables the button at zero is one who does not press it.)         *)
Refreshable == IF CanEdit /\ ~discovering /\ ~paused THEN {"refresh"} ELSE {}
Voteable == IF home.shared /\ ~discovering THEN {"vote"} ELSE {}
Cards == Voteable \cup (IF CanEdit THEN {"toggle"} ELSE {})

DiscoverSidebar ==
  Refreshable \cup Cards \cup Buildable("itinerary") \cup Buildable("route")

(* The detours are offered while a search runs, and to viewers.            *)
CorridorSidebar ==
  Refreshable \cup Cards \cup Buildable("route") \cup (IF paused THEN {} ELSE {"detour"})

(* The effects of a render run before the next click.                      *)
Offered ==
  IF view # "ready" \/ refetch THEN {}
  ELSE IF home.page = "discover" THEN DiscoverMap \cup DiscoverSidebar
  ELSE CorridorMap \cup CorridorSidebar

-----------------------------------------------------------------------------
(* api.ts.                                                                 *)

Free(c) == call[c].at = "idle"
Out(op, gen, places) ==
  [NoCall EXCEPT !.at = "out", !.op = op, !.mine = TRUE, !.gen = gen, !.places = places,
                 !.match = IF op \in Edits THEN known ELSE None]
Sent(c, x) == call' = [call EXCEPT ![c] = x]
Room == version < MaxVersion

Back(c, op) == call[c].at = "back" /\ call[c].op = op
Ok(c) == call[c].status = "ok"
Noted(c) == known' = IF call[c].version # None THEN call[c].version ELSE known

-----------------------------------------------------------------------------
(* The server.  An answer nobody waits for is dropped.                     *)

Answer(c, x) == Sent(c, IF call[c].mine THEN [x EXCEPT !.at = "back"] ELSE NoCall)
Fails(c, st) == Answer(c, [call[c] EXCEPT !.status = st])
Stays == UNCHANGED <<home, view, known, list, status, tallies, refetch>>
Reads == UNCHANGED <<version, rows, votes, due, stale>> /\ Stays

Matches(c) == call[c].match \in {None, version}

Refusal(c) ==
  IF call[c].op \in Edits /\ call[c].mine /\ ~CanEdit THEN "refused"
  ELSE IF call[c].op \in Edits /\ ~Matches(c) THEN "conflict"
  ELSE IF call[c].op \in Builds /\ (call[c].gen # rows.gen \/ ~(call[c].places \subseteq rows.places))
  THEN "missing"
  ELSE "none"

Refuse(c) == call[c].at = "out" /\ Refusal(c) # "none" /\ Fails(c, Refusal(c)) /\ Reads
Takes(c, ops) == call[c].at = "out" /\ call[c].op \in ops /\ Refusal(c) = "none"

ServeTrip(c) ==
  /\ Takes(c, {"trip"})
  /\ Answer(c, [call[c] EXCEPT !.status = "ok", !.version = version])
  /\ Reads

ServeList(c) ==
  /\ Takes(c, {"list"})
  /\ Answer(c, [call[c] EXCEPT !.status = "ok", !.gen = rows.gen, !.places = rows.places])
  /\ Reads

(* The trip is loaded with its suggestions: the old rows.                  *)
Begin(c) ==
  /\ Takes(c, Edits)
  /\ Sent(c, IF call[c].op = "discover"
             THEN [call[c] EXCEPT !.at = "running", !.gen = rows.gen, !.places = rows.places]
             ELSE [call[c] EXCEPT !.at = "running"])
  /\ Reads

(* Unless a cached list is used, the ledger refuses the charge or the      *)
(* upstream fails; a build is charged too.                                 *)
Stopped(c) ==
  /\ call[c].at = "running"
  /\ \E st \in {"paused", "error"} : Fails(c, st)
  /\ Reads

(* The new rows are written, and carry_over_votes reads the votes ...      *)
CarryOver(c) ==
  /\ call[c].at = "running" /\ call[c].op = "discover"
  /\ \E found \in SUBSET Places :
       Sent(c, [call[c] EXCEPT !.at = "writing", !.new = found,
                               !.moved = IF call[c].gen = rows.gen THEN votes ELSE {}])
  /\ Reads

(* A mistake: the commit does not look at the version.                     *)
DiscoverCommitUnchecked(c) ==
  /\ call[c].at = "writing" /\ call[c].op = "discover"
  /\ version' = version + 1
  /\ rows' = [gen |-> rows.gen + 1, places |-> call[c].new]
  /\ votes' = call[c].moved \cap call[c].new
  /\ due' = due \cap call[c].new
  /\ stale' = TRUE
  /\ Answer(c, [call[c] EXCEPT !.status = "ok", !.version = version', !.gen = rows'.gen,
                               !.places = call[c].new, !.new = {}, !.moved = {}])
  /\ Stays

(* ... and touch_trip commits all of it, or refuses.                       *)
DiscoverCommit(c) ==
  /\ call[c].at = "writing" /\ call[c].op = "discover"
  /\ IF Matches(c)
     THEN /\ version' = version + 1
          /\ rows' = [gen |-> rows.gen + 1, places |-> call[c].new]
          /\ votes' = call[c].moved \cap call[c].new
          /\ due' = due \cap call[c].new
          /\ stale' = TRUE
          /\ Answer(c, [call[c] EXCEPT !.status = "ok", !.version = version', !.gen = rows'.gen,
                                       !.places = call[c].new, !.new = {}, !.moved = {}])
          /\ Stays
     ELSE Fails(c, "conflict") /\ Reads

(* select and build_itinerary.  Round trips commit the stops before the    *)
(* route is asked for, so a failure may leave a new version behind.        *)
BuildCommit(c) ==
  /\ call[c].at = "running" /\ call[c].op \in Builds
  /\ IF Matches(c)
     THEN /\ version' = version + 1
          /\ \/ Answer(c, [call[c] EXCEPT !.status = "ok", !.version = version'])
             \/ home.page = "discover" /\ call[c].op = "route" /\ Fails(c, "error")
          /\ UNCHANGED <<rows, votes, due, stale>> /\ Stays
     ELSE Fails(c, "conflict") /\ Reads

ServeVotes(c) ==
  /\ Takes(c, {"votes"})
  /\ Answer(c, [call[c] EXCEPT !.status = "ok", !.gen = rows.gen, !.tally = votes])
  /\ Reads

(* cast_vote: _require_target finds the row ...                            *)
VoteTarget(c) ==
  /\ Takes(c, {"vote"})
  /\ IF call[c].gen = rows.gen /\ call[c].places \subseteq rows.places
     THEN Sent(c, [call[c] EXCEPT !.at = "writing"])
     ELSE Fails(c, "missing")
  /\ Reads

(* ... and the vote is written or cleared, whatever became of the row.     *)
VoteWrite(c) ==
  /\ call[c].at = "writing" /\ call[c].op = "vote"
  /\ LET there == call[c].gen = rows.gen
         cast == call[c].new # {}
         quiet == \A d \in Calls : ~(call[d].at = "writing" /\ call[d].op = "discover")
     IN /\ votes' = IF ~there THEN votes
                    ELSE IF cast THEN votes \cup call[c].places ELSE votes \ call[c].places
        /\ due' = IF ~cast THEN due \ call[c].places
                  ELSE IF there /\ quiet THEN due \cup call[c].places ELSE due
        /\ Answer(c, [call[c] EXCEPT !.status = "ok", !.tally = call[c].new])
  /\ stale' = TRUE
  /\ UNCHANGED <<version, rows>> /\ Stays

Serve(c) ==
  \/ Refuse(c) \/ ServeTrip(c) \/ ServeList(c) \/ Begin(c) \/ CarryOver(c) \/ DiscoverCommit(c)
  \/ BuildCommit(c) \/ ServeVotes(c) \/ VoteTarget(c) \/ VoteWrite(c)

Lost(c) ==
  /\ call[c].at \in {"out", "back"} /\ call[c].status # "error"
  /\ Answer(c, [call[c] EXCEPT !.status = "error", !.version = None])
  /\ Reads

(* Another member edits, votes or discovers.                               *)
OtherEdit ==
  /\ home.shared /\ view # "left" /\ Room /\ version' = version + 1
  /\ UNCHANGED <<rows, votes, due, stale, call>> /\ Stays

OtherCall(c) ==
  /\ home.shared /\ view # "left" /\ Free(c)
  /\ \/ Room /\ Sent(c, [Out("discover", 0, {}) EXCEPT !.mine = FALSE, !.match = version])
     \/ \E p \in rows.places : \E new \in {{}, {p}} :
          Sent(c, [Out("vote", rows.gen, {p}) EXCEPT !.mine = FALSE, !.new = new])
  /\ Reads

-----------------------------------------------------------------------------
(* The mount effects, step by step.                                        *)

Opening(c, op) == view = "loading" /\ Back(c, op) /\ Noted(c)

(* The error is kept but not shown: without a trip the page stays bare.    *)
OpenFails(c) ==
  /\ Opening(c, "trip") /\ ~Ok(c)
  /\ view' = "stuck" /\ Sent(c, NoCall)
  /\ UNCHANGED <<server, list, status, voting>>

(* A trip of the other mode: router.replace.                               *)
Redirect(c) ==
  /\ Opening(c, "trip") /\ Ok(c) /\ ~home.fits
  /\ view' = "left" /\ Sent(c, NoCall)
  /\ UNCHANGED <<server, list, status, voting>>

AskForList(c) ==
  /\ Opening(c, "trip") /\ Ok(c) /\ home.fits
  /\ home.page = "corridor" => home.routed
  /\ Sent(c, Out("list", 0, {}))
  /\ refetch' = home.shared
  /\ UNCHANGED <<server, view, list, status, tallies, stale>>

ListFound(c) ==
  /\ Opening(c, "list") /\ Ok(c) /\ call[c].places # {}
  /\ \E selected \in SUBSET call[c].places :
       list' = [gen |-> call[c].gen, places |-> call[c].places, chosen |-> selected]
  /\ view' = "ready" /\ Sent(c, NoCall) /\ refetch' = home.shared
  /\ UNCHANGED <<server, status, tallies, stale>>

(* No suggestions, or no answer: the page searches, for viewers too.       *)
SearchAtOnce(c) ==
  /\ Opening(c, "list") /\ ~(Ok(c) /\ call[c].places # {}) /\ Room
  /\ view' = "ready" /\ discovering' = TRUE
  /\ Sent(c, Out("discover", 0, {}))
  /\ UNCHANGED <<server, list, paused, voting>>

DiscoverMount(c) ==
  /\ home.page = "discover"
  /\ OpenFails(c) \/ Redirect(c) \/ AskForList(c) \/ ListFound(c) \/ SearchAtOnce(c)

NoRoute(c) ==
  /\ Opening(c, "trip") /\ Ok(c) /\ home.fits /\ ~home.routed
  /\ view' = "noroute" /\ Sent(c, NoCall) /\ refetch' = home.shared
  /\ UNCHANGED <<server, list, status, tallies, stale>>

CorridorMount(c) ==
  /\ home.page = "corridor"
  /\ OpenFails(c) \/ Redirect(c) \/ NoRoute(c) \/ AskForList(c) \/ ListFound(c) \/ SearchAtOnce(c)

-----------------------------------------------------------------------------
(* runDiscovery: the start, and the answer.                                *)

StartDiscovery(c) ==
  /\ Free(c) /\ Room
  /\ discovering' = TRUE
  /\ Sent(c, Out("discover", 0, {}))
  /\ UNCHANGED <<server, view, known, list, paused, voting>>

(* noteError of useDiscoveryQuota.                                         *)
NoteError(c) == paused' = (paused \/ call[c].status = "paused")

(* A mistake: an answer is dropped when another has ended the search.      *)
DiscoveryAnsweredOnce(c) ==
  /\ Back(c, "discover") /\ Noted(c) /\ Sent(c, NoCall)
  /\ list' = IF Ok(c) /\ discovering
             THEN [gen |-> call[c].gen, places |-> call[c].places, chosen |-> {}] ELSE list
  /\ refetch' = (refetch \/ (Ok(c) /\ home.shared))
  /\ tallies' = IF Ok(c) THEN {} ELSE tallies
  /\ discovering' = FALSE
  /\ NoteError(c)
  /\ UNCHANGED <<server, view, stale>>

(* A mistake: the choice made on the list before is kept.                  *)
DiscoveryAnsweredChosen(c) ==
  /\ Back(c, "discover") /\ Noted(c) /\ Sent(c, NoCall)
  /\ list' = IF Ok(c)
             THEN [gen |-> call[c].gen, places |-> call[c].places, chosen |-> list.chosen] ELSE list
  /\ refetch' = (refetch \/ (Ok(c) /\ home.shared))
  /\ tallies' = IF Ok(c) THEN {} ELSE tallies
  /\ discovering' = FALSE
  /\ NoteError(c)
  /\ UNCHANGED <<server, view, stale>>

DiscoveryAnswered(c) ==
  /\ Back(c, "discover") /\ Noted(c) /\ Sent(c, NoCall)
  /\ list' = IF Ok(c)
             THEN [gen |-> call[c].gen, places |-> call[c].places, chosen |-> {}] ELSE list
  /\ refetch' = (refetch \/ (Ok(c) /\ home.shared))
  /\ tallies' = IF Ok(c) THEN {} ELSE tallies
  /\ discovering' = FALSE
  /\ NoteError(c)
  /\ UNCHANGED <<server, view, stale>>

(* runDiscovery of the corridor page, which keeps no isochrone.            *)
CorridorAnswered(c) == home.page = "corridor" /\ DiscoveryAnswered(c)

(* The pause ends by itself.                                               *)
PauseLifted ==
  /\ paused /\ paused' = FALSE
  /\ UNCHANGED <<server, call, view, known, list, discovering, voting>>

-----------------------------------------------------------------------------
(* The user.                                                               *)

Toggle ==
  /\ "toggle" \in Offered
  /\ \E p \in list.places :
       list' = [list EXCEPT !.chosen = IF p \in @ THEN @ \ {p} ELSE @ \cup {p}]
  /\ UNCHANGED <<server, call, view, known, status, voting>>

Refresh(c) == "refresh" \in Offered /\ StartDiscovery(c)

(* handleDetourChange.                                                     *)
DetourChange(c) == "detour" \in Offered /\ StartDiscovery(c)

StartBuild(c, what) ==
  /\ what \in Offered /\ Free(c) /\ Room
  /\ Sent(c, Out(what, list.gen, list.chosen))
  /\ UNCHANGED <<server, view, known, list, status, voting>>

BuildAnswered(c, what, next) ==
  /\ Back(c, what) /\ Noted(c) /\ Sent(c, NoCall)
  /\ view' = next
  /\ UNCHANGED <<server, list, status, voting>>

(* handleBuildRoute of discover: on success the page stays busy and goes.  *)
BuildRoute(c) ==
  /\ home.page = "discover"
  /\ \/ StartBuild(c, "route")
     \/ Ok(c) /\ BuildAnswered(c, "route", "left")
     \/ ~Ok(c) /\ BuildAnswered(c, "route", view)

(* handleBuildItinerary: a plan that fits leads to the trip a while later. *)
BuildItinerary(c) ==
  /\ home.page = "discover"
  /\ \/ StartBuild(c, "itinerary")
     \/ BuildAnswered(c, "itinerary", view)

(* handleBuildRoute of corridor.                                           *)
AddStops(c) ==
  /\ home.page = "corridor"
  /\ \/ StartBuild(c, "route")
     \/ Ok(c) /\ BuildAnswered(c, "route", "left")
     \/ ~Ok(c) /\ BuildAnswered(c, "route", view)

-----------------------------------------------------------------------------
(* useVotes.                                                               *)

(* A mistake: the answer to the effect before is not cancelled.            *)
FetchVotesBoth(c) ==
  /\ refetch /\ view # "left" /\ Free(c)
  /\ refetch' = FALSE /\ stale' = FALSE
  /\ Sent(c, Out("votes", 0, {}))
  /\ UNCHANGED <<server, view, known, list, status, tallies>>

(* The effect runs again when the list has changed, and cancels the answer *)
(* it waited for.                                                          *)
FetchVotes(c) ==
  /\ refetch /\ view # "left" /\ Free(c)
  /\ refetch' = FALSE /\ stale' = FALSE
  /\ call' = [d \in Calls |->
                IF d = c THEN Out("votes", 0, {})
                ELSE IF call[d].op = "votes" /\ call[d].mine
                THEN NoCall ELSE call[d]]
  /\ UNCHANGED <<server, view, known, list, status, tallies>>

VotesAnswered(c) ==
  /\ Back(c, "votes") /\ Sent(c, NoCall)
  /\ tallies' = IF ~Ok(c) THEN tallies ELSE IF call[c].gen = list.gen THEN call[c].tally ELSE {}
  /\ stale' = (stale \/ ~Ok(c))
  /\ UNCHANGED <<server, view, known, list, status, refetch>>

(* The buttons of a place: a vote that is there is cleared.                *)
Vote(c) ==
  /\ "vote" \in Offered /\ Free(c)
  /\ \E p \in list.places :
       Sent(c, [Out("vote", list.gen, {p}) EXCEPT
                  !.new = {p} \ tallies])
  /\ UNCHANGED <<server, view, known, list, status, voting>>

VoteAnswered(c) ==
  /\ Back(c, "vote") /\ Sent(c, NoCall)
  /\ tallies' = IF Ok(c) /\ call[c].gen = list.gen
                THEN (tallies \ call[c].places) \cup call[c].tally ELSE tallies
  /\ UNCHANGED <<server, view, known, list, status, refetch, stale>>

(* The document stays, the page's calls run on and are forgotten.          *)
Leave ==
  /\ view # "left" /\ view' = "left"
  /\ call' = [c \in Calls |-> IF call[c].at \in {"out", "back"} /\ call[c].mine THEN NoCall
                              ELSE [call[c] EXCEPT !.mine = FALSE]]
  /\ UNCHANGED <<server, known, list, status, voting>>

Page(c) ==
  \/ DiscoverMount(c) \/ CorridorMount(c)
  \/ (home.page = "discover" /\ DiscoveryAnswered(c)) \/ CorridorAnswered(c)
  \/ Refresh(c) \/ DetourChange(c) \/ BuildRoute(c) \/ BuildItinerary(c) \/ AddStops(c)
  \/ FetchVotes(c) \/ VotesAnswered(c) \/ Vote(c) \/ VoteAnswered(c)

Next ==
  \/ OtherEdit \/ PauseLifted \/ Toggle \/ Leave
  \/ \E c \in Calls : Serve(c) \/ Stopped(c) \/ Lost(c) \/ OtherCall(c) \/ Page(c)

Spec == Init /\ [][Next]_vars

-----------------------------------------------------------------------------
TypeOK ==
  /\ home \in Home
  /\ version \in Nat /\ rows \in Rows /\ votes \subseteq rows.places
  /\ call \in [Calls -> CallRecords]
  /\ view \in Views /\ known \in Nat \cup {None}
  /\ list \in [gen : Nat \cup {None}, places : SUBSET Places, chosen : SUBSET Places]
  /\ list.chosen \subseteq list.places
  /\ discovering \in BOOLEAN /\ paused \in BOOLEAN
  /\ tallies \subseteq list.places /\ refetch \in BOOLEAN
  /\ due \subseteq Places /\ stale \in BOOLEAN

(* Group votes follow the place, not the row (radius.py:154): a vote on a  *)
(* place is found at its present row however many discoveries ran since.   *)
(* A vote cast while a discovery commits is not covered, see the README.   *)
VotesFollow == due \subseteq votes

(* When the tab remembers the trip's version, the rows it shows are the    *)
(* trip's rows: a build that passes the version check finds them all.      *)
ListIsCurrent ==
  view = "ready" /\ known = version /\ list.places # {} =>
    list.gen = rows.gen /\ list.places = rows.places

(* With no vote since the page last asked for them, the tallies it shows   *)
(* for its list are the votes there are, whatever answers came late.       *)
TalliesFollow ==
  view = "ready" /\ home.shared /\ ~stale /\ ~refetch /\ ~Under({"votes", "vote"}) =>
    tallies = IF list.gen = rows.gen THEN votes ELSE {}
=============================================================================
