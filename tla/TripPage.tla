------------------------------ MODULE TripPage ------------------------------
(***************************************************************************)
(* The page of one trip: its stops, its route and its details.             *)
(*                                                                         *)
(* The page keeps a copy of the trip.  An edit is sent with the version    *)
(* the tab remembers, and its answer is applied to the copy: a new stop is *)
(* appended, a deleted one filtered out, a changed one replaced, or the    *)
(* whole trip is taken over.  An edit of the stops arms a timer, which     *)
(* asks for a new route half a second after the last of them.  Nothing     *)
(* keeps the user from sending one edit while another is under way, and    *)
(* other members edit the trip too.                                        *)
(*                                                                         *)
(* The server handles an edit in one step (TripEditing has the statements  *)
(* of a handler), but the calculation of a route in two: it reads the      *)
(* stops, waits for the upstream and writes the route.                     *)
(***************************************************************************)
EXTENDS Naturals, Sequences, SequencesExt

CONSTANTS
  Stops,       \* the stops the trip may have
  Initial,     \* those it has when the page opens, in order
  MaxVersion,  \* bound: nobody starts an edit once the trip has this version
  MaxCalls,    \* bound: the calls the page has under way
  None         \* no stop, no version, no trip

ASSUME TripPageAssumption ==
  /\ Initial \in Seq(Stops) /\ IsInjective(Initial)
  /\ MaxVersion \in Nat /\ MaxCalls \in Nat
  /\ None \notin Stops /\ None \notin Nat

VARIABLES
  trip,         \* the trip as the server has it
  role,         \* what the user may do on it
  members,      \* it has other members than its owner
  mode,         \* "point_to_point" or "radius"
  view,         \* what the page shows, see Views
  shown,        \* the page's copy of the trip, or None
  known,        \* the version the tab remembers (tripVersions)
  picked,       \* the address picked in the form of a new stop, or None
  timer,        \* recalcTimer is armed
  calculating,  \* the spinner of the route
  routeError,   \* the message under the route
  call,         \* the calls under way
  reshaped,     \* history: the stops shown were last changed by this page
  blind         \* history: known comes from an answer that was not shown

server == <<trip, role, members, mode>>
routing == <<timer, calculating, routeError>>
history == <<reshaped, blind>>
page == <<view, shown, known, picked, routing>>
vars == <<server, page, call, history>>

Views == {"loading", "ready", "error", "missing", "left"}
Edits == {"add", "remove", "reorder", "detail", "title", "route"}
Ops == Edits \cup {"load", "save"}
Ids == 1 .. MaxCalls

Trips == [version : Nat, order : Seq(Stops), route : Seq(Stops)]
Copies == [order : Seq(Stops), route : Seq(Stops),
           seen : SUBSET Nat,                       \* the versions it reflects
           role : {"owner", "editor", "viewer"},    \* my_role
           members : BOOLEAN]                       \* member_count > 0
Calls == [at : {"idle", "out", "routing", "back"},
          op : Ops,
          stop : Stops \cup {None},
          order : Seq(Stops),                       \* asked for, or read for the route
          match : Nat \cup {None},                  \* its If-Match header
          status : {"none", "ok", "conflict", "refused", "missing", "error"},
          reply : Trips \cup {None}]

NoCall == [at |-> "idle", op |-> "load", stop |-> None, order |-> <<>>, match |-> None,
           status |-> "none", reply |-> None]

Without(order, s) ==
  IF Contains(order, s) THEN RemoveAt(order, CHOOSE i \in DOMAIN order : order[i] = s)
  ELSE order
Placed(order, s, i) == InsertAt(Without(order, s), i, s)  \* the stop dropped on place i
Copy(t, r, m) == [order |-> t.order, route |-> t.route, seen |-> 1 .. t.version,
                  role |-> r, members |-> m]

Init ==
  /\ trip = [version |-> 1, order |-> Initial, route |-> Initial]
  /\ role \in {"owner", "editor", "viewer"} /\ members \in BOOLEAN
  /\ role # "owner" => members
  /\ mode \in {"point_to_point", "radius"}
  /\ view = "loading" /\ shown = None /\ known = None
  /\ picked = None
  /\ timer = FALSE /\ calculating = FALSE /\ routeError = FALSE
  /\ call = [c \in Ids |-> IF c = 1 THEN [NoCall EXCEPT !.at = "out"] ELSE NoCall]
  /\ reshaped = FALSE /\ blind = FALSE

-----------------------------------------------------------------------------
(* What the page offers.                                                   *)

CanEdit == view = "ready" /\ shown.role # "viewer"
IsShared == view = "ready" /\ (shown.members \/ shown.role # "owner")

Under(op) == \E c \in Ids : call[c].op = op /\ call[c].at # "idle"

HeaderOffers ==
  IF view # "ready" THEN {}
  ELSE (IF Under("save") THEN {} ELSE {"save"}) \cup (IF CanEdit THEN {"title"} ELSE {})

RouteOffers ==
  IF CanEdit /\ mode = "point_to_point" /\ ~calculating THEN {"route"} ELSE {}

StopOffers ==
  IF CanEdit /\ mode = "point_to_point" THEN {"remove", "reorder", "detail"} ELSE {}

FormOffers ==
  IF CanEdit /\ mode = "point_to_point" /\ ~calculating THEN {"add"} ELSE {}

-----------------------------------------------------------------------------
(* api.ts: a call goes out with the version of that moment.                *)

Free(c) == call[c].at = "idle" /\ \A d \in Ids : d < c => call[d].at # "idle"

(* versionHeader names the edits that carry If-Match.                      *)
IfMatch(op) == IF op \in Edits THEN known ELSE None

Send(op, s, order) ==
  \E c \in Ids :
    /\ Free(c)
    /\ call' = [call EXCEPT ![c] = [NoCall EXCEPT !.at = "out", !.op = op, !.stop = s,
                                                 !.order = order, !.match = IfMatch(op)]]

Room(op) == op \in Edits => trip.version < MaxVersion

(* A click that sends a call and changes nothing on the page.              *)
Click(op, s, order) ==
  /\ Room(op) /\ Send(op, s, order)
  /\ UNCHANGED <<server, page, history>>

-----------------------------------------------------------------------------
(* The server.                                                             *)

Put(c, x) == call' = [call EXCEPT ![c] = x]
Answer(c, status, t) ==
  Put(c, [NoCall EXCEPT !.at = "back", !.op = call[c].op, !.stop = call[c].stop,
                        !.status = status, !.reply = t])

(* The comparison as it must not be: the version is not looked at.         *)
MatchesAlways(c) == TRUE

Matches(c) == call[c].match \in {None, trip.version}

(* Who may do what, then the early check of the version.                   *)
Refusal(c) ==
  IF call[c].op \in Edits /\ role = "viewer" THEN "refused"
  ELSE IF call[c].op \in Edits /\ ~Matches(c) THEN "conflict"
  ELSE "none"

Refuse(c) ==
  /\ call[c].at = "out" /\ Refusal(c) # "none"
  /\ Answer(c, Refusal(c), None)
  /\ UNCHANGED <<server, page, history>>

Handles(c, ops) == call[c].at = "out" /\ call[c].op \in ops /\ Refusal(c) = "none"

Commit(c, t) ==
  /\ trip' = [t EXCEPT !.version = @ + 1]
  /\ Answer(c, "ok", trip')
  /\ UNCHANGED <<role, members, mode, page, history>>

(* What is asked for does not fit the stops there are.                     *)
Reject(c) ==
  /\ Answer(c, "missing", None)
  /\ UNCHANGED <<server, page, history>>

ServeAdd(c) ==
  /\ Handles(c, {"add"})
  /\ Commit(c, [trip EXCEPT !.order = Append(@, call[c].stop)])

ServeRemove(c) ==
  /\ Handles(c, {"remove"})
  /\ IF Contains(trip.order, call[c].stop)
     THEN Commit(c, [trip EXCEPT !.order = Without(@, call[c].stop)])
     ELSE Reject(c)

ServeReorder(c) ==
  /\ Handles(c, {"reorder"})
  /\ IF ToSet(call[c].order) = ToSet(trip.order)
     THEN Commit(c, [trip EXCEPT !.order = call[c].order])
     ELSE Reject(c)

ServeDetail(c) ==
  /\ Handles(c, {"detail"})
  /\ IF Contains(Append(trip.order, None), call[c].stop) THEN Commit(c, trip) ELSE Reject(c)

ServeTitle(c) == Handles(c, {"title"}) /\ Commit(c, trip)

ServeRead(c) ==
  /\ Handles(c, {"load", "save"})
  /\ Answer(c, "ok", trip)
  /\ UNCHANGED <<server, page, history>>

(* calculate_route: the stops are read, the upstream is asked ...          *)
RouteRead(c) ==
  /\ Handles(c, {"route"})
  /\ Put(c, [call[c] EXCEPT !.at = "routing", !.order = trip.order])
  /\ UNCHANGED <<server, page, history>>

(* ... and the route is written if the version has not moved meanwhile.    *)
RouteWrite(c) ==
  /\ call[c].at = "routing"
  /\ IF Refusal(c) = "none"
     THEN Commit(c, [trip EXCEPT !.route = call[c].order])
     ELSE Answer(c, Refusal(c), None) /\ UNCHANGED <<server, page, history>>

RouteFails(c) ==
  /\ call[c].at = "routing"
  /\ Answer(c, "error", None)
  /\ UNCHANGED <<server, page, history>>

Serve(c) ==
  \/ Refuse(c) \/ ServeAdd(c) \/ ServeRemove(c) \/ ServeReorder(c) \/ ServeDetail(c)
  \/ ServeTitle(c) \/ ServeRead(c) \/ RouteRead(c) \/ RouteWrite(c)

(* The request or its answer is lost, and the call throws.                 *)
Lost(c) ==
  /\ call[c].at \in {"out", "back"} /\ call[c].status # "error"
  /\ Answer(c, "error", None)
  /\ UNCHANGED <<server, page, history>>

(* Another member edits: a detail, the stops or the route.                 *)
OtherEdit ==
  /\ members /\ trip.version < MaxVersion
  /\ \/ \E order \in {trip.order} \cup {Without(trip.order, s) : s \in ToSet(trip.order)} :
          trip' = [trip EXCEPT !.version = @ + 1, !.order = order]
     \/ trip' = [trip EXCEPT !.version = @ + 1, !.route = trip.order]
  /\ UNCHANGED <<role, members, mode, page, call, history>>

-----------------------------------------------------------------------------
(* The answers.                                                            *)

Back(c, ops) == call[c].at = "back" /\ call[c].op \in ops
Ok(c) == call[c].status = "ok"

(* A mistake: the version of a refusal is noted too.                       *)
ReceivedNoting(c) ==
  /\ known' = IF Ok(c) THEN call[c].reply.version
              ELSE IF call[c].status = "conflict" THEN trip.version ELSE known
  /\ call' = [call EXCEPT ![c] = NoCall]
  /\ UNCHANGED server

(* What api.ts does with every answer: noteVersions.                       *)
Received(c) ==
  /\ known' = IF Ok(c) THEN call[c].reply.version ELSE known
  /\ call' = [call EXCEPT ![c] = NoCall]
  /\ UNCHANGED server

(* The page's copy after an answer that changed only a part of it, and     *)
(* after one that brings the whole trip.                                   *)
Patched(c, order) ==
  [shown EXCEPT !.order = order, !.seen = @ \cup {call[c].reply.version}]
Replaced(c, r, m) == Copy(call[c].reply, r, m)

(* scheduleRecalc.                                                         *)
Schedule == IF mode = "point_to_point" THEN TRUE ELSE timer

LoadAnswered(c) ==
  /\ Back(c, {"load"})
  /\ Received(c)
  /\ shown' = IF Ok(c) THEN Replaced(c, role, members) ELSE shown
  /\ view' = IF Ok(c) THEN "ready" ELSE IF call[c].status = "missing" THEN "missing" ELSE "error"
  /\ UNCHANGED <<picked, routing, reshaped, blind>>

(* A mistake: what is in the form now is appended.                         *)
AddAnsweredPicked(c) ==
  /\ Back(c, {"add"})
  /\ Received(c)
  /\ IF Ok(c)
     THEN /\ shown' = Patched(c, Append(shown.order, picked))
          /\ timer' = Schedule /\ picked' = None /\ reshaped' = TRUE
     ELSE UNCHANGED <<shown, timer, picked, reshaped>>
  /\ UNCHANGED <<view, calculating, routeError, blind>>

(* handleAddWaypoint and the form behind it, which closes whatever has     *)
(* been picked meanwhile; an error leaves it as it is.                     *)
AddAnswered(c) ==
  /\ Back(c, {"add"})
  /\ Received(c)
  /\ IF Ok(c)
     THEN /\ shown' = Patched(c, Append(shown.order, call[c].stop))
          /\ timer' = Schedule /\ picked' = None /\ reshaped' = TRUE
     ELSE UNCHANGED <<shown, timer, picked, reshaped>>
  /\ UNCHANGED <<view, calculating, routeError, blind>>

(* A mistake: the route is not asked for again.                            *)
RemoveAnsweredQuietly(c) ==
  /\ Back(c, {"remove"})
  /\ Received(c)
  /\ IF Ok(c)
     THEN shown' = Patched(c, Without(shown.order, call[c].stop)) /\ reshaped' = TRUE
     ELSE UNCHANGED <<shown, reshaped>>
  /\ UNCHANGED <<view, picked, routing, blind>>

RemoveAnswered(c) ==
  /\ Back(c, {"remove"})
  /\ Received(c)
  /\ IF Ok(c)
     THEN /\ shown' = Patched(c, Without(shown.order, call[c].stop))
          /\ timer' = Schedule /\ reshaped' = TRUE
     ELSE UNCHANGED <<shown, timer, reshaped>>
  /\ UNCHANGED <<view, picked, calculating, routeError, blind>>

ReorderAnswered(c) ==
  /\ Back(c, {"reorder"})
  /\ Received(c)
  /\ IF Ok(c)
     THEN shown' = Patched(c, call[c].reply.order) /\ timer' = Schedule /\ reshaped' = TRUE
     ELSE UNCHANGED <<shown, timer, reshaped>>
  /\ UNCHANGED <<view, picked, calculating, routeError, blind>>

DetailAnswered(c) ==
  /\ Back(c, {"detail"})
  /\ Received(c)
  /\ shown' = IF Ok(c) THEN Patched(c, shown.order) ELSE shown
  /\ UNCHANGED <<view, picked, routing, reshaped, blind>>

TitleAnswered(c) ==
  /\ Back(c, {"title"})
  /\ Received(c)
  /\ shown' = IF Ok(c) THEN Replaced(c, role, members) ELSE shown
  /\ UNCHANGED <<view, picked, routing, reshaped, blind>>

(* The answer of calculate_route is built without the caller: my_role and  *)
(* member_count have their defaults.                                       *)
RouteAnswered(c) ==
  /\ Back(c, {"route"})
  /\ Received(c)
  /\ shown' = IF Ok(c) THEN Replaced(c, "owner", FALSE) ELSE shown
  /\ reshaped' = (reshaped /\ ~Ok(c))
  /\ routeError' = (routeError \/ ~Ok(c))
  /\ calculating' = FALSE
  /\ UNCHANGED <<view, picked, timer, blind>>

(* saveTripForOffline fetches the trip for the caches of the service       *)
(* worker, through the api that notes its version.                         *)
SaveAnswered(c) ==
  /\ Back(c, {"save"})
  /\ Received(c)
  /\ blind' = (blind \/ known' # known)
  /\ UNCHANGED <<view, shown, picked, routing, reshaped>>

Answered(c) ==
  \/ LoadAnswered(c) \/ AddAnswered(c) \/ RemoveAnswered(c) \/ ReorderAnswered(c)
  \/ DetailAnswered(c) \/ TitleAnswered(c)
  \/ RouteAnswered(c) \/ SaveAnswered(c)

-----------------------------------------------------------------------------
(* The user.                                                               *)

(* The form of a new stop: an address is picked, and sent as often as the  *)
(* button is pressed before the first answer.                              *)
Pick ==
  /\ "add" \in FormOffers
  /\ \E s \in Stops \ (ToSet(trip.order) \cup ToSet(shown.order)) :
       picked' = s /\ \A c \in Ids : call[c].stop # s
  /\ UNCHANGED <<server, view, shown, known, routing, call, history>>

Cancel ==
  /\ picked # None /\ picked' = None
  /\ UNCHANGED <<server, view, shown, known, routing, call, history>>

Confirm == "add" \in FormOffers /\ picked # None /\ Click("add", picked, <<>>)

RemoveStop == "remove" \in StopOffers /\ \E s \in ToSet(shown.order) : Click("remove", s, <<>>)

Drop ==
  /\ "reorder" \in StopOffers
  /\ \E s \in ToSet(shown.order) : \E i \in 1 .. Len(Without(shown.order, s)) + 1 :
       Placed(shown.order, s, i) # shown.order /\ Click("reorder", None, Placed(shown.order, s, i))

(* The label and the duration save when they lose the focus, changed or not. *)
BlurField == "detail" \in StopOffers /\ \E s \in ToSet(shown.order) : Click("detail", s, <<>>)

(* An error leaves the draft of the title open.                            *)
SaveTitle == "title" \in HeaderOffers /\ Click("title", None, <<>>)

(* Offered while trip.ended, which the page does not ask a viewer's role   *)
(* for.                                                                    *)
MarkComplete == view = "ready" /\ Click("detail", None, <<>>)

SaveOffline == "save" \in HeaderOffers /\ Click("save", None, <<>>)

StartRoute ==
  /\ Room("route") /\ Send("route", None, <<>>)
  /\ calculating' = TRUE /\ routeError' = FALSE

Recalculate ==
  /\ "route" \in RouteOffers
  /\ StartRoute
  /\ UNCHANGED <<server, view, shown, known, picked, timer, history>>

(* The timer of scheduleRecalc asks for the route of whatever there is.    *)
TimerFires ==
  /\ timer /\ timer' = FALSE
  /\ StartRoute
  /\ UNCHANGED <<server, view, shown, known, picked, history>>

(* The user goes away; the document keeps nothing of the page.             *)
Leave ==
  /\ view' = "left" /\ timer' = FALSE
  /\ call' = [c \in Ids |-> NoCall]
  /\ UNCHANGED <<server, shown, known, picked, calculating, routeError, history>>

User ==
  \/ Pick \/ Cancel \/ Confirm \/ RemoveStop \/ Drop \/ BlurField
  \/ SaveTitle \/ MarkComplete \/ SaveOffline
  \/ Recalculate \/ Leave

Next ==
  \/ view # "left" /\ (User \/ TimerFires \/ OtherEdit)
  \/ \E c \in Ids : Serve(c) \/ RouteFails(c) \/ Lost(c) \/ Answered(c)

Spec == Init /\ [][Next]_vars

-----------------------------------------------------------------------------
TypeOK ==
  /\ trip \in Trips
  /\ role \in {"owner", "editor", "viewer"} /\ members \in BOOLEAN
  /\ mode \in {"point_to_point", "radius"}
  /\ view \in Views /\ shown \in Copies \cup {None} /\ known \in Nat \cup {None}
  /\ picked \in Stops \cup {None}
  /\ timer \in BOOLEAN /\ calculating \in BOOLEAN /\ routeError \in BOOLEAN
  /\ call \in [Ids -> Calls]
  /\ reshaped \in BOOLEAN /\ blind \in BOOLEAN

(* When the tab remembers the version the trip has, the page shows the     *)
(* trip as it is: the answers, applied one by one to the page's copy, add  *)
(* up to the trip, so an edit that passes the version check is made on     *)
(* what is there.  (Saving the trip for offline use breaks this, see       *)
(* EditsKnowThePage.)                                                      *)
CopyIsExact ==
  view = "ready" /\ known = trip.version /\ ~blind =>
    /\ shown.order = trip.order /\ shown.route = trip.route
    /\ shown.seen = 1 .. trip.version

(* One address picked is added once, however often the button is pressed   *)
(* while the answer is under way or after it was lost (WaypointList:184).  *)
AddedOnce == blind \/ IsInjective(trip.order)

Routed == shown # None /\ shown.route = shown.order

(* After an edit of the stops the page is on its way to the route of the   *)
(* stops it shows, or says that it has none: no answer of an earlier       *)
(* calculation, and no edit that overtakes one, lets it rest on an old     *)
(* route (page.tsx:114).                                                   *)
RouteFollows ==
  view = "ready" /\ reshaped /\ ~Routed => timer \/ Under("route") \/ routeError

(* An accepted edit was made on a page that showed all there was.          *)
EditsKnowThePage ==
  [][\A c \in Ids :
       call[c].match # None /\ call'[c].status = "ok" /\ call[c].status = "none" /\ view = "ready"
         => 1 .. trip.version \subseteq shown.seen]_vars

(* A page that shows a trip with other members knows that it has them.     *)
StaysShared == members /\ view = "ready" => IsShared
=============================================================================
