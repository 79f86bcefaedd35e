------------------------------- MODULE Board -------------------------------
(***************************************************************************)
(* The itinerary builder: a board with a column for each day and one for   *)
(* the stops that have none, and the handlers of api/itinerary.py behind   *)
(* it.                                                                     *)
(*                                                                         *)
(* A chip that is dragged moves on the board while it hovers; dropping it  *)
(* saves the column it is in, and the board is fetched again only if that  *)
(* fails.  The menu of a chip, "Distribute" and the buttons of a day save  *)
(* first and then fetch the board.  The handlers are asynchronous and run  *)
(* side by side, each one call after the other; the page fetches the trip, *)
(* whose version its edits carry, and the board with two requests.         *)
(***************************************************************************)
EXTENDS Naturals, Sequences, SequencesExt

CONSTANTS
  Stops,        \* the stops of the trip
  Order,        \* them in the order of the trip (position)
  Days,         \* the identifiers days may get
  FirstPlans,   \* the days, and the days of the stops, when the page opens
  Roles,        \* "editor" or "viewer": who opens the page
  Others,       \* the stops other members move
  Enough,       \* 3: the stops a day must have to be reordered
  MaxWrites,    \* bound: no edit starts once so much has been committed
  Slots,        \* bound: as many handlers are under way at once
  Unscheduled,  \* the column of the stops without a day
  None          \* nothing

Columns == Days \cup {Unscheduled}
Plans == [days : Seq(Days), day : [Stops -> Columns], pos : [Stops -> Nat \cup {None}]]

Boards == [days : Seq([id : Days, stops : Seq(Stops)]), rest : Seq(Stops)]
Drags == [stop : Stops, origin : Columns, home : Columns, moved : BOOLEAN]

(* A day is there once, and a stop is in a day that is there or in none.   *)
Placed(p) == IsInjective(p.days) /\ \A s \in Stops : p.day[s] \in ToSet(p.days) \cup {Unscheduled}

ASSUME BoardAssumption ==
  /\ Order \in Seq(Stops) /\ IsInjective(Order) /\ ToSet(Order) = Stops
  /\ FirstPlans \subseteq {p \in Plans : Placed(p)}
  /\ Others \subseteq Stops
  /\ {Enough, MaxWrites} \subseteq Nat
  /\ Unscheduled \notin Days /\ Columns \cap Stops = {}
  /\ None \notin Columns \cup Stops \cup Nat \cup Boards \cup Drags

VARIABLES
  version,     \* trips.version
  writes,      \* commits 1..writes have been made to the itinerary
  plan,        \* the days, and the day and the day_position of each stop
  role,        \* what the user may do
  view,        \* what the page shows: "loading", "board" or "error"
  shown,       \* the board it shows (itinerary)
  known,       \* the version the tab remembers
  drag,        \* the chip that is dragged, and the column it comes from
  optimizing,  \* the day whose stops are being reordered (optimizingDayId)
  call,        \* the handlers under way, each with its call
  seen         \* history: the commits the board reflects, or None: it shows a
               \* move nobody saves, or a day twice

server == <<version, writes, plan, role>>
page == <<view, shown, known, drag, optimizing>>
vars == <<server, page, call, seen>>

Edits == {"create", "assign", "unassign", "delete", "optimize", "detail", "time"}
Handlers == Edits \cup {"open", "menu", "distribute", "drop"}

Jobs == [day : Columns, stops : Seq(Stops), order : Seq(Stops)]
Calls == [at : {"idle", "out", "between", "back"},
          by : Handlers,                 \* the handler of the page it belongs to
          op : Edits \cup {"load"},
          job : Jobs,                    \* the day and the stops it is about
          todo : Seq(Jobs),              \* what the handler assigns after it
          match : Nat \cup {None},       \* its If-Match header
          ok : BOOLEAN,
          version : Nat \cup {None},     \* the version its answer names
          board : Boards \cup {None},    \* the board its answer brings
          wrote : SUBSET Nat,            \* the commits it has made, or read
          fresh : BOOLEAN]               \* history: a drop, and no board has come in since

NoJob == [day |-> Unscheduled, stops |-> <<>>, order |-> <<>>]
NoCall == [at |-> "idle", by |-> "open", op |-> "load", job |-> NoJob, todo |-> <<>>,
           match |-> None, ok |-> FALSE, version |-> None, board |-> None, wrote |-> {},
           fresh |-> FALSE]
Job(d, stops, order) == [day |-> d, stops |-> stops, order |-> order]

-----------------------------------------------------------------------------
(* The board of a plan: _day_to_out and the query for the rest.            *)

Place(s) == CHOOSE i \in DOMAIN Order : Order[i] = s

(* sorted by day_position, those without one last; then by position.       *)
Before(p, s, t) ==
  \/ p.pos[s] # None /\ (p.pos[t] = None \/ p.pos[s] < p.pos[t])
  \/ p.pos[s] = p.pos[t] /\ Place(s) < Place(t)

Column(p, d) ==
  LET here == {s \in Stops : p.day[s] = d}
  IN  CHOOSE q \in [1 .. Cardinality(here) -> here] :
        \A i, j \in DOMAIN q : i < j => Before(p, q[i], q[j])

BoardOf(p) ==
  [days |-> [i \in DOMAIN p.days |-> [id |-> p.days[i], stops |-> Column(p, p.days[i])]],
   rest |-> Column(p, Unscheduled)]

(* A mistake: the unscheduled are not looked at.                           *)
ContainerInDays(b, s) ==
  LET i == SelectInSeq(b.days, LAMBDA d : Contains(d.stops, s))
  IN  IF i # 0 THEN b.days[i].id ELSE None

(* findWaypointContainer.                                                  *)
Container(b, s) ==
  LET i == SelectInSeq(b.days, LAMBDA d : Contains(d.stops, s))
  IN  IF i # 0 THEN b.days[i].id
      ELSE IF Contains(b.rest, s) THEN Unscheduled ELSE None

StopsOf(b, d) == b.days[SelectInSeq(b.days, LAMBDA x : x.id = d)].stops
IdsOf(b) == {b.days[i].id : i \in DOMAIN b.days}

Init ==
  /\ version = 1 /\ writes = 1
  /\ plan \in FirstPlans
  /\ role \in Roles
  /\ view = "loading" /\ shown = None
  /\ known = None /\ drag = None /\ optimizing = None
  /\ \E load \in Slots :
       call = [c \in Slots |-> IF c = load THEN [NoCall EXCEPT !.at = "out"] ELSE NoCall]
  /\ seen = {}

-----------------------------------------------------------------------------
(* Handlers of the page: each sends a call, awaits it and goes on.         *)

ReadOnly == known # None /\ role = "viewer"
Busy(by) == \E c \in Slots : call[c].at # "idle" /\ call[c].by = by
Free(c) == call[c].at = "idle"

(* versionHeader, with the version the tab remembers at that moment.       *)
Sent(by, op, job, k) ==
  [NoCall EXCEPT !.at = "out", !.by = by, !.op = op, !.job = job,
                 !.match = IF op \in Edits THEN k ELSE None, !.fresh = (by = "drop")]

Put(c, x) == call' = [call EXCEPT ![c] = x]

Start(by, op, job, todo) ==
  \E c \in Slots : Free(c) /\ Put(c, [Sent(by, op, job, known) EXCEPT !.todo = todo])

-----------------------------------------------------------------------------
(* The controls, which somebody the page takes for a viewer does not get.  *)

Editable == view = "board" /\ drag = None /\ ~ReadOnly

(* The page: a new day.                                                    *)
BoardOffers == IF Editable THEN {"create"} ELSE {}

(* A day: its title, date and notes, its deletion, its shortest order.     *)
DayOffers(d) ==
  IF ~Editable THEN {}
  ELSE {"detail", "delete"}
       \cup (IF optimizing # d /\ Len(StopsOf(shown, d)) >= Enough THEN {"optimize"} ELSE {})

(* The unscheduled: to spread them over the days.                          *)
UnscheduledOffers ==
  IF Editable /\ shown.rest # <<>> /\ ~Busy("distribute") THEN {"distribute"} ELSE {}

(* A chip has a time in a day, and can be dragged from anywhere.           *)
ChipOffers(s) ==
  IF ~Editable THEN {} ELSE {"drag"} \cup (IF Container(shown, s) \in Days THEN {"time"} ELSE {})

(* Its menu: the other days, a new day, and none if it is in one.          *)
MenuOffers(s) ==
  IF ~Editable THEN {}
  ELSE (IdsOf(shown) \ {Container(shown, s)}) \cup {"new day"}
       \cup (IF Container(shown, s) \in Days THEN {"none"} ELSE {})

(* What a chip can be dragged over: columns, even empty ones, and chips.   *)
DropTargets == IdsOf(shown) \cup {Unscheduled} \cup (Stops \ {drag.stop})

-----------------------------------------------------------------------------
Click(by, op, job, todo) ==
  /\ writes < MaxWrites
  /\ Start(by, op, job, todo)
  /\ UNCHANGED <<server, view, shown, known, drag, seen>>

Quietly == UNCHANGED optimizing

AddDay == "create" \in BoardOffers /\ Click("create", "create", NoJob, <<>>) /\ Quietly

EditDay ==
  \E d \in IdsOf(shown) :
    /\ "detail" \in DayOffers(d)
    /\ Click("detail", "detail", Job(d, <<>>, <<>>), <<>>) /\ Quietly

DeleteDay ==
  \E d \in IdsOf(shown) :
    /\ "delete" \in DayOffers(d)
    /\ Click("delete", "delete", Job(d, <<>>, <<>>), <<>>) /\ Quietly

OptimizeDay ==
  \E d \in IdsOf(shown) :
    /\ "optimize" \in DayOffers(d)
    /\ Click("optimize", "optimize", Job(d, <<>>, <<>>), <<>>)
    /\ optimizing' = d

(* The time of a chip in a day.                                            *)
EditArrival ==
  \E s \in Stops :
    /\ "time" \in ChipOffers(s)
    /\ Click("time", "time", NoJob, <<>>) /\ Quietly

(* The menu of a chip: to another day, to a new one, or to none.           *)
AssignToDay ==
  \E s \in Stops : \E d \in IdsOf(shown) \cap MenuOffers(s) :
    /\ Click("menu", "assign", Job(d, <<s>>, Append(StopsOf(shown, d), s)), <<>>)
    /\ Quietly

AssignToNewDay ==
  \E s \in Stops :
    /\ "new day" \in MenuOffers(s)
    /\ Click("menu", "create", Job(Unscheduled, <<s>>, <<s>>), <<>>) /\ Quietly

Unassign ==
  \E s \in Stops :
    /\ "none" \in MenuOffers(s)
    /\ Click("menu", "unassign", Job(Container(shown, s), <<s>>, <<>>), <<>>) /\ Quietly

Least(a, b) == IF a < b THEN a ELSE b

(* Even chunks of the unscheduled stops, the remainder over the leading    *)
(* days; days that would get none are left out.                            *)
Share(stops, i, n) ==
  LET each == Len(stops) \div n
      more == Len(stops) % n
  IN  SubSeq(stops, (i - 1) * each + Least(i - 1, more) + 1, i * each + Least(i, more))

Shares(days, stops) ==
  [i \in 1 .. Least(Len(days), Len(stops)) |->
     Job(days[i].id, Share(stops, i, Len(days)), days[i].stops \o Share(stops, i, Len(days)))]

Distribute ==
  /\ "distribute" \in UnscheduledOffers
  /\ IF shown.days = <<>>
     THEN Click("distribute", "create", Job(Unscheduled, shown.rest, shown.rest), <<>>)
     ELSE LET jobs == Shares(shown.days, shown.rest)
          IN  Click("distribute", "assign", Head(jobs), Tail(jobs))
  /\ Quietly

-----------------------------------------------------------------------------
(* Dragging.                                                               *)

DragStart ==
  /\ view = "board" /\ writes < MaxWrites
  /\ \E c \in Slots : Free(c)
  /\ \E s \in Stops :
       /\ "drag" \in ChipOffers(s)
       /\ drag' = [stop |-> s, origin |-> Container(shown, s), home |-> Container(shown, s),
                   moved |-> FALSE]
  /\ UNCHANGED <<server, view, shown, known, optimizing, call, seen>>

(* A mistake: the chip is put down without being taken up.                 *)
MovedCopy(b, s, to) ==
  [days |-> [i \in DOMAIN b.days |->
               [b.days[i] EXCEPT !.stops = IF b.days[i].id = to THEN Append(@, s) ELSE @]],
   rest |-> IF to = Unscheduled THEN Append(b.rest, s) ELSE RemoveFirst(b.rest, s)]

(* Into another column, at its end.                                        *)
Moved(b, s, to) ==
  [days |-> [i \in DOMAIN b.days |->
               [b.days[i] EXCEPT !.stops = IF b.days[i].id = to THEN Append(RemoveFirst(@, s), s)
                                           ELSE RemoveFirst(@, s)]],
   rest |-> IF to = Unscheduled THEN Append(RemoveFirst(b.rest, s), s) ELSE RemoveFirst(b.rest, s)]

(* arrayMove: to the place of another chip of the same column.             *)
Shuffled(stops, s, over) ==
  IF {s, over} \subseteq ToSet(stops)
  THEN LET i == CHOOSE j \in DOMAIN stops : stops[j] = over IN InsertAt(RemoveFirst(stops, s), i, s)
  ELSE stops

Hovered(b, s, over) ==
  LET to == IF over \in Columns THEN over ELSE Container(b, over)
  IN  IF Container(b, s) # to THEN Moved(b, s, to)
      ELSE [days |-> [i \in DOMAIN b.days |-> [b.days[i] EXCEPT !.stops = Shuffled(@, s, over)]],
            rest |-> Shuffled(b.rest, s, over)]

DragOver ==
  /\ drag # None
  /\ \E over \in DropTargets : shown' = Hovered(shown, drag.stop, over)
  /\ shown' # shown
  /\ drag' = [drag EXCEPT !.moved = TRUE]
  /\ UNCHANGED <<server, view, known, optimizing, call, seen>>

(* The drop saves the column the chip is in; moving about in the column of *)
(* the unscheduled saves nothing.  Two drops under way at once may order   *)
(* their columns in either order (AssignOrder), and when a board has come  *)
(* in meanwhile the chip may not be in the column it was taken from.       *)
DragEnd ==
  /\ drag # None
  /\ LET s == drag.stop
         to == Container(shown, s)
     IN  IF to # Unscheduled THEN Start("drop", "assign", Job(to, <<s>>, StopsOf(shown, to)), <<>>)
         ELSE IF drag.origin # Unscheduled
              THEN Start("drop", "unassign", Job(drag.origin, <<s>>, <<>>), <<>>)
              ELSE UNCHANGED call
  /\ drag' = None
  /\ seen' = IF \/ Busy("drop")
                \/ Container(shown, drag.stop) = Unscheduled /\ drag.home # drag.origin
             THEN None ELSE seen
  /\ UNCHANGED <<server, view, shown, known, optimizing>>

(* Dropped outside, or cancelled with Escape: nobody saves the move, and   *)
(* nobody takes it back.                                                   *)
DragAbandoned ==
  /\ drag # None
  /\ drag' = None
  /\ seen' = IF drag.moved THEN None ELSE seen
  /\ UNCHANGED <<server, view, shown, known, optimizing, call>>

-----------------------------------------------------------------------------
(* The server.                                                             *)

(* get_trip_with_role.                                                     *)
Allowed(c) == call[c].op \in Edits => role # "viewer" /\ call[c].match \in {None, version}

Handles(c, op) == call[c].at = "out" /\ call[c].op = op /\ Allowed(c)

(* What the rest of the handler needs to know of its call.                 *)
Kept(c) == IF call[c].op = "create" THEN call[c].job ELSE NoJob

Refuse(c) ==
  /\ call[c].at = "out"
  /\ \/ ~Allowed(c)
     \/ call[c].op \in {"assign", "unassign", "delete", "optimize", "detail"}
        /\ ~Contains(plan.days, call[c].job.day)
     \/ call[c].op = "optimize" /\ Len(Column(plan, call[c].job.day)) < Enough
  /\ Put(c, [call[c] EXCEPT !.at = "back", !.job = Kept(c), !.match = None])
  /\ UNCHANGED <<server, page, seen>>

(* The request or its answer is lost, or the handler fails; what it has    *)
(* committed by then stays.                                                *)
Lost(c) ==
  /\ call[c].at \in {"out", "between"} \/ (call[c].at = "back" /\ call[c].ok)
  /\ Put(c, [call[c] EXCEPT !.at = "back", !.ok = FALSE, !.job = Kept(c), !.match = None,
                            !.version = None, !.board = None, !.wrote = {}])
  /\ UNCHANGED <<server, page, seen>>

(* touch_trip bumps the version once for each request.                     *)
Commit(c, p, next) ==
  /\ plan' = p /\ writes' = writes + 1
  /\ version' = version + 1
  /\ Put(c, [call[c] EXCEPT !.at = next, !.ok = TRUE, !.version = version', !.match = None,
                            !.wrote = {writes'}, !.job = IF next = "back" THEN NoJob ELSE @])
  /\ UNCHANGED <<role, page, seen>>

ServeCreate(c) ==
  /\ Handles(c, "create")
  /\ \E d \in Days \ (ToSet(plan.days) \cup {call[e].job.day : e \in Slots}) :
       /\ shown # None => d \notin IdsOf(shown)
       /\ plan' = [plan EXCEPT !.days = Append(@, d)]
       /\ Put(c, [call[c] EXCEPT !.at = "back", !.ok = TRUE, !.version = version + 1, !.match = None,
                                 !.wrote = {writes + 1}, !.job.day = d])
  /\ version' = version + 1 /\ writes' = writes + 1
  /\ UNCHANGED <<role, page, seen>>

There(c) == Contains(plan.days, call[c].job.day)

Scheduled(p, stops, d) ==
  [p EXCEPT !.day = [s \in Stops |-> IF Contains(stops, s) THEN d ELSE @[s]]]
Loosened(p, S) ==
  [p EXCEPT !.day = [s \in Stops |-> IF s \in S THEN Unscheduled ELSE @[s]],
            !.pos = [s \in Stops |-> IF s \in S THEN None ELSE @[s]]]
Ordered(p, stops) ==
  [p EXCEPT !.pos = [s \in Stops |-> IF Contains(stops, s)
                                     THEN (CHOOSE i \in DOMAIN stops : stops[i] = s) - 1
                                     ELSE @[s]]]

(* assign_waypoints commits the day of the stops ...                       *)
AssignDay(c) ==
  /\ Handles(c, "assign") /\ There(c)
  /\ Commit(c, Scheduled(plan, call[c].job.stops, call[c].job.day), "between")

(* ... and then, without looking at the version, the order of the day.     *)
AssignOrder(c) ==
  /\ call[c].at = "between"
  /\ plan' = Ordered(plan, call[c].job.order) /\ writes' = writes + 1
  /\ Put(c, [call[c] EXCEPT !.at = "back", !.job = NoJob, !.wrote = @ \cup {writes'}])
  /\ UNCHANGED <<version, role, page, seen>>

ServeUnassign(c) ==
  /\ Handles(c, "unassign") /\ There(c)
  /\ Commit(c, Loosened(plan, {s \in ToSet(call[c].job.stops) : plan.day[s] = call[c].job.day}),
            "back")

(* delete_day; its second commit numbers the days anew (TripOrder).        *)
ServeDelete(c) ==
  /\ Handles(c, "delete") /\ There(c)
  /\ LET d == call[c].job.day
         p == Loosened(plan, {s \in Stops : plan.day[s] = d})
     IN  Commit(c, [p EXCEPT !.days = RemoveFirst(@, d)], "back")

(* The order the distance matrix suggests may be any.                      *)
ServeOptimize(c) ==
  /\ Handles(c, "optimize") /\ There(c)
  /\ LET stops == Column(plan, call[c].job.day)
     IN  /\ Len(stops) >= Enough
         /\ \E best \in {stops, Reverse(stops)} : Commit(c, Ordered(plan, best), "back")

ServeDetail(c) == Handles(c, "detail") /\ There(c) /\ Commit(c, plan, "back")

ServeArrival(c) == Handles(c, "time") /\ Commit(c, plan, "back")

ServeLoad(c) ==
  /\ Handles(c, "load")
  /\ Put(c, [call[c] EXCEPT !.at = "back", !.ok = TRUE, !.board = BoardOf(plan),
                            !.wrote = 1 .. writes])
  /\ UNCHANGED <<server, page, seen>>

(* Another member moves a stop.                                            *)
OtherEdit ==
  /\ writes < MaxWrites
  /\ \E s \in Others, d \in ToSet(plan.days) \cup {Unscheduled} :
       /\ plan.day[s] # d
       /\ plan' = IF d = Unscheduled THEN Loosened(plan, {s})
                  ELSE Ordered(Scheduled(plan, <<s>>, d), Append(Column(plan, d), s))
  /\ version' = version + 1 /\ writes' = writes + 1
  /\ UNCHANGED <<role, page, call, seen>>

Serve(c) ==
  \/ ServeCreate(c) \/ AssignDay(c) \/ AssignOrder(c) \/ ServeUnassign(c) \/ ServeDelete(c)
  \/ ServeOptimize(c) \/ ServeDetail(c) \/ ServeArrival(c) \/ ServeLoad(c)

-----------------------------------------------------------------------------
(* The answers.                                                            *)

Back(c, by, op) == call[c].at = "back" /\ call[c].by = by /\ call[c].op = op

(* noteVersions, which the answer of the itinerary gives no version to.    *)
Noted(c) == known' = IF call[c].ok /\ call[c].op # "load" THEN call[c].version ELSE known

(* The handler ends, sends its next call, or fetches the board.            *)
Ends(c) == Put(c, NoCall)
Goes(c, op, job, todo) == Put(c, [Sent(call[c].by, op, job, known') EXCEPT !.todo = todo])
Awaited == {"drop", "distribute", "optimize"}  \* what the page still asks for after it
Reloads(c) ==
  Put(c, Sent(IF call[c].by \in Awaited THEN call[c].by ELSE "open", "load", NoJob, None))

With(ws) == IF seen = None THEN None ELSE seen \cup ws

StillBoard == UNCHANGED <<view, shown, drag, seen>>

(* GET /trips/{id} answers early, late or never: until then the page takes *)
(* everybody for the owner and an edit carries no version.  (One that      *)
(* comes after the answer of an edit is left out.)                         *)
TripAnswered ==
  /\ known = None
  /\ known' = version
  /\ UNCHANGED <<server, view, shown, drag, optimizing, call, seen>>

(* loadItinerary; a failure leaves the page with an error for good.        *)
LoadAnswered(c) ==
  /\ call[c].at = "back" /\ call[c].op = "load" /\ Noted(c)
  /\ IF call[c].ok
     THEN /\ shown' = call[c].board /\ seen' = call[c].wrote
          /\ view' = "board"
     ELSE view' = "error" /\ UNCHANGED <<shown, seen>>
  /\ drag' = IF drag # None /\ call[c].ok
             THEN [drag EXCEPT !.moved = FALSE, !.home = Container(call[c].board, drag.stop)]
             ELSE drag
  /\ call' = [d \in Slots |-> IF d = c THEN NoCall
                            ELSE [call[d] EXCEPT !.fresh = @ /\ ~call[c].ok]]
  /\ optimizing' = IF call[c].by = "optimize" THEN None ELSE optimizing
  /\ UNCHANGED server

(* handleAddDay appends the day, whether the board has it by now or not;   *)
(* a handler that needed the day puts its stops there.                     *)
CreateAnswered(c) ==
  /\ call[c].at = "back" /\ call[c].op = "create" /\ Noted(c)
  /\ IF call[c].ok /\ shown # None
     THEN /\ shown' = [shown EXCEPT !.days = Append(@, [id |-> call[c].job.day, stops |-> <<>>])]
          /\ seen' = IF seen # None /\ call[c].wrote \subseteq seen THEN None
                     ELSE With(call[c].wrote)
     ELSE UNCHANGED <<shown, seen>>
  /\ IF call[c].ok /\ call[c].by # "create" THEN Goes(c, "assign", call[c].job, <<>>) ELSE Ends(c)
  /\ UNCHANGED <<server, view, drag, optimizing>>

(* handleAssignToDay, handleAssignToNewDay and handleUnassign fetch the    *)
(* board either way.                                                       *)
MenuAnswered(c) ==
  /\ Back(c, "menu", "assign") \/ Back(c, "menu", "unassign")
  /\ Noted(c) /\ Reloads(c)
  /\ StillBoard /\ UNCHANGED <<server, optimizing>>

(* handleDistribute goes on to the next day, or fetches the board.         *)
DistributeAnswered(c) ==
  /\ Back(c, "distribute", "assign") /\ Noted(c)
  /\ IF call[c].ok /\ call[c].todo # <<>>
     THEN Goes(c, "assign", Head(call[c].todo), Tail(call[c].todo))
     ELSE Reloads(c)
  /\ StillBoard /\ UNCHANGED <<server, optimizing>>

(* A mistake: a drop that failed stays on the board.                       *)
DropAnsweredLeft(c) ==
  /\ Back(c, "drop", "assign") \/ Back(c, "drop", "unassign")
  /\ Noted(c) /\ Ends(c)
  /\ seen' = IF call[c].ok /\ call[c].fresh THEN With(call[c].wrote) ELSE seen
  /\ UNCHANGED <<server, view, shown, drag, optimizing>>

(* The end of handleDragEnd: the board is fetched if the drop failed.      *)
DropAnswered(c) ==
  /\ Back(c, "drop", "assign") \/ Back(c, "drop", "unassign")
  /\ Noted(c) /\ IF call[c].ok THEN Ends(c) ELSE Reloads(c)
  /\ seen' = IF call[c].ok /\ call[c].fresh THEN With(call[c].wrote) ELSE seen
  /\ UNCHANGED <<server, view, shown, drag, optimizing>>

DeleteAnswered(c) ==
  /\ Back(c, "delete", "delete") /\ Noted(c)
  /\ IF call[c].ok THEN Reloads(c) ELSE Ends(c)
  /\ StillBoard /\ UNCHANGED <<server, optimizing>>

OptimizeAnswered(c) ==
  /\ Back(c, "optimize", "optimize") /\ Noted(c)
  /\ IF call[c].ok THEN Reloads(c) /\ Quietly ELSE Ends(c) /\ optimizing' = None
  /\ StillBoard /\ UNCHANGED server

(* handleUpdateTitle, -Date, -Notes: what is saved is shown.               *)
DetailAnswered(c) ==
  /\ Back(c, "detail", "detail") /\ Noted(c) /\ Ends(c)
  /\ seen' = With(call[c].wrote)
  /\ UNCHANGED <<server, view, shown, drag, optimizing>>

(* handleUpdateArrivalTime shows the time at once.                         *)
ArrivalAnswered(c) ==
  /\ Back(c, "time", "time") /\ Noted(c)
  /\ IF call[c].ok THEN Ends(c) ELSE Reloads(c)
  /\ seen' = With(call[c].wrote)
  /\ UNCHANGED <<server, view, shown, drag, optimizing>>

Answered(c) ==
  \/ LoadAnswered(c) \/ CreateAnswered(c) \/ MenuAnswered(c)
  \/ DistributeAnswered(c) \/ DropAnswered(c) \/ DeleteAnswered(c) \/ OptimizeAnswered(c)
  \/ DetailAnswered(c) \/ ArrivalAnswered(c)

User ==
  \/ view = "board" /\ (AddDay \/ EditDay \/ DeleteDay \/ OptimizeDay \/ EditArrival \/ AssignToDay
                        \/ AssignToNewDay \/ Unassign \/ Distribute)
  \/ DragStart \/ DragOver \/ DragEnd \/ DragAbandoned

Next ==
  /\ view # "error"
  /\ \/ User \/ OtherEdit \/ TripAnswered
     \/ \E c \in Slots : Serve(c) \/ Refuse(c) \/ Lost(c) \/ Answered(c)

Spec == Init /\ [][Next]_vars

-----------------------------------------------------------------------------
TypeOK ==
  /\ {version, writes} \subseteq Nat /\ plan \in Plans
  /\ role \in Roles
  /\ view \in {"loading", "board", "error"} /\ shown \in Boards \cup {None}
  /\ known \in Nat \cup {None}
  /\ drag \in Drags \cup {None}
  /\ optimizing \in Days \cup {None}
  /\ call \in [Slots -> Calls]
  /\ seen \in (SUBSET Nat) \cup {None}

ColumnOf(b, d) == IF d = Unscheduled THEN b.rest ELSE StopsOf(b, d)
Spots(b) == UNION {{d} \X DOMAIN ColumnOf(b, d) : d \in IdsOf(b) \cup {Unscheduled}}

(* Every stop of the trip is on the board, and in one place, whatever is   *)
(* dragged over whatever while boards arrive (handleDragOver) - unless a   *)
(* day is shown twice, which an answer that overtakes another can do.      *)
ChipsOnce ==
  shown # None /\ IsInjective([i \in DOMAIN shown.days |-> shown.days[i].id]) =>
    \A s \in Stops : Cardinality({at \in Spots(shown) : ColumnOf(shown, at[1])[at[2]] = s}) = 1

Same(b, p) ==
  /\ ToSet(b.days) = ToSet(BoardOf(p).days)
  /\ ToSet(b.rest) = ToSet(BoardOf(p).rest)

(* A board at rest that reflects every commit is the board the server has: *)
(* moves shown before they are saved, columns saved one at a time, days    *)
(* appended by hand and boards fetched again add up, and a save that fails *)
(* is taken back.  (The order among the unscheduled is not saved.)         *)
BoardIsExact ==
  view = "board" /\ drag = None /\ ~Busy("drop") /\ seen # None /\ seen = 1 .. writes
    => Same(shown, plan)

(* A drop that was saved stays on the board when nobody else edits.        *)
DropStays ==
  view = "board" /\ drag = None /\ Others = {} /\ seen # None
    /\ (\A c \in Slots : call[c].at = "idle")
  => Same(shown, plan)
=============================================================================
