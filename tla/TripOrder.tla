----------------------------- MODULE TripOrder -----------------------------
(***************************************************************************)
(* The order of a trip: positions of its stops, numbers of its days, and   *)
(* the requests of api/waypoints.py, itinerary.py, corridor.py and         *)
(* radius.py that change them.                                             *)
(*                                                                         *)
(* A request reads (and passes the early If-Match check), then writes. The *)
(* ORM writes one row at a time, in primary-key order, under a UNIQUE      *)
(* constraint PostgreSQL checks after every row; identifiers are random    *)
(* UUIDs, so their order is unrelated to the order of the stops. The write *)
(* holds the rows it changed until touch_trip has compared the version and *)
(* the transaction commits, and is one step here.                          *)
(***************************************************************************)
EXTENDS Naturals, FiniteSets

CONSTANTS
  Editors,     \* requests that may be in flight at once
  StopIds,     \* identifiers of stops, numbered in primary-key order
  DayIds,      \* identifiers of days, likewise
  LastNumber   \* bound: the highest day number of the model

ASSUME OrderAssumption ==
  /\ StopIds \subseteq Nat /\ IsFiniteSet(StopIds)
  /\ DayIds \subseteq Nat /\ IsFiniteSet(DayIds)
  /\ LastNumber \in Nat

VARIABLES
  position,  \* position[i]: where stop i comes in the trip, for the stops there are
  number,    \* number[d]: the day number of day d, for the days there are
  tx,        \* the transaction of each editor
  overtaken  \* history: days were renumbered while another renumbering had read them

orderVars == <<position, number, tx, overtaken>>

Table(f, ids) == DOMAIN f \subseteq ids /\ f \in [DOMAIN f -> Nat]
NoRows == [i \in {} |-> 0]   \* the empty table

(* A transaction: its stage; the edit; whether the version has moved since *)
(* it read; the place of its first new row, or of the stop it deletes; the *)
(* rows it creates or deletes; the rows it has read, and the values it     *)
(* gives them.                                                             *)
TxTyped(t) ==
  /\ t.at \in {"idle", "read", "reread", "renumber"}
  /\ t.edit \in {"add", "delete", "reorder", "replace", "append", "create_day", "delete_day"}
  /\ t.stale \in BOOLEAN
  /\ t.goal \in Nat
  /\ t.rows \subseteq StopIds \cup DayIds
  /\ Table(t.seen, StopIds \cup DayIds)
  /\ Table(t.want, StopIds \cup DayIds)
Idle == [at |-> "idle", edit |-> "add", stale |-> FALSE, goal |-> 0, rows |-> {},
         seen |-> NoRows, want |-> NoRows]
Doing(edit) == [Idle EXCEPT !.at = "read", !.edit = edit]

Reached(e, here) == tx[e].at = here
Does(e, edit) == Reached(e, "read") /\ tx[e].edit = edit
Stops == DOMAIN position
DayRows == DOMAIN number
Size(table) == Cardinality(DOMAIN table)
Values(table) == {table[i] : i \in DOMAIN table}

(* UUIDs: what a request still remembers is not given out again.           *)
NewIds(ids) == ids \ UNION {tx[e].rows \cup DOMAIN tx[e].seen : e \in Editors}

(* The rows placed by an enumeration from n on, one way for each order.    *)
Placed(ids, n) == {f \in [ids -> n .. n + Cardinality(ids) - 1] :
                     \A i, j \in ids : i # j => f[i] # f[j]}

(* One UPDATE per changed row, by identifier, then the INSERTs: none may   *)
(* meet a row that has its value at that moment.                           *)
Flushable(old, new) ==
  LET kept == DOMAIN old \cap DOMAIN new
  IN  /\ \A i \in kept : new[i] # old[i] =>
           \A j \in kept \ {i} : new[i] # IF j < i THEN new[j] ELSE old[j]
      /\ \A i \in DOMAIN new \ DOMAIN old, j \in DOMAIN new : i # j => new[i] # new[j]

(* Rows whose value the request changes from what it has read.             *)
Changed(seen, want) == {i \in DOMAIN want \cap DOMAIN seen : want[i] # seen[i]}
Updated(table, seen, want) ==
  [i \in DOMAIN table |-> IF i \in Changed(seen, want) THEN want[i] ELSE table[i]]

OrderInit ==
  /\ position = NoRows /\ number = NoRows
  /\ tx = [e \in Editors |-> Idle] /\ overtaken = FALSE

-----------------------------------------------------------------------------
(* Requests read what they need.                                           *)

Read(e, t) ==
  /\ Reached(e, "idle")
  /\ tx' = [tx EXCEPT ![e] = t]
  /\ UNCHANGED <<position, number, overtaken>>

(* The new stop goes after all there are.                                  *)
AddStop(e) ==
  \E i \in NewIds(StopIds \ Stops) :
    Read(e, [Doing("add") EXCEPT !.goal = Size(position), !.rows = {i}])

(* waypoints/{id}, and the deselection of a suggestion.                    *)
DeleteStop(e) ==
  \E i \in Stops :
    Read(e, [Doing("delete") EXCEPT !.goal = position[i], !.rows = {i}])

ReorderStops(e) ==
  \E f \in Placed(Stops, 0) :
    Read(e, [Doing("reorder") EXCEPT !.seen = position, !.want = f])

(* radius/select and build-itinerary: new stops instead of the old ones.   *)
ReplaceStops(e) ==
  \E new \in SUBSET NewIds(StopIds \ Stops) :
    Read(e, [Doing("replace") EXCEPT !.rows = new])

(* corridor/select: the stops there are in their order, then the new ones. *)
AppendStops(e) ==
  \E f \in Placed(Stops, 0), new \in SUBSET NewIds(StopIds \ Stops) :
    /\ new # {}
    /\ \A i, j \in Stops : position[i] < position[j] => f[i] < f[j]
    /\ Read(e, [Doing("append") EXCEPT !.goal = Size(position), !.rows = new,
                                       !.seen = position, !.want = f])

(* One above the highest there is, or 1.                                   *)
NextNumber(n) ==
  (n = 1 \/ n - 1 \in Values(number)) /\ \A m \in Values(number) : m < n

CreateDay(e) ==
  \E d \in NewIds(DayIds \ DayRows), n \in 1 .. LastNumber :
    /\ NextNumber(n)
    /\ Read(e, [Doing("create_day") EXCEPT !.goal = n, !.rows = {d}])

DeleteDay(e) ==
  \E d \in DayRows : Read(e, [Doing("delete_day") EXCEPT !.rows = {d}])

-----------------------------------------------------------------------------
(* The tables as the request would leave them.                             *)

Joined(table, f) ==
  [i \in DOMAIN table \cup DOMAIN f |-> IF i \in DOMAIN table THEN table[i] ELSE f[i]]
Inserted(table, e) == {Joined(table, f) : f \in Placed(tx[e].rows, tx[e].goal)}

(* Mistakes the properties must notice: the last stop fills the gap, or    *)
(* all of them move.                                                       *)
CompactedByLast(e) ==
  [i \in Stops \ tx[e].rows |->
     IF position[i] >= Size(position) - 1 THEN tx[e].goal ELSE position[i]]

(* The stops behind the deleted one are looked up after the DELETE.        *)
Compacted(e) ==
  [i \in Stops \ tx[e].rows |->
     IF position[i] > tx[e].goal THEN position[i] - 1 ELSE position[i]]

NewPositions(e) ==
  CASE Does(e, "add")     -> Inserted(position, e)
    [] Does(e, "delete")  -> {Compacted(e)}
    [] Does(e, "reorder") -> {Updated(position, tx[e].seen, tx[e].want)}
    [] Does(e, "replace") -> Placed(tx[e].rows, 0)
    [] Does(e, "append")  -> Inserted(Updated(position, tx[e].seen, tx[e].want), e)
    [] OTHER              -> {position}

NewNumbers(e) ==
  CASE Does(e, "create_day") -> Inserted(number, e)
    [] Does(e, "delete_day") -> {[d \in DayRows \ tx[e].rows |-> number[d]]}
    [] OTHER                 -> {number}

(* An UPDATE of a row somebody has deleted matches nothing: the ORM fails. *)
RowsThere(e) == Changed(tx[e].seen, tx[e].want) \subseteq Stops \cup DayRows

(* Must not be: a version that touch_trip does not compare.                *)
Unconditional(e) == TRUE
UpToDate(e) == ~tx[e].stale

(* touch_trip bumps the version: everybody else's is old now.              *)
Bumped(e, t) ==
  tx' = [f \in Editors |-> IF f = e THEN t ELSE [tx[f] EXCEPT !.stale = ~Reached(f, "idle")]]

Write(e) ==
  /\ Reached(e, "read") /\ UpToDate(e) /\ RowsThere(e)
  /\ position' \in NewPositions(e) /\ Flushable(position, position')
  /\ number' \in NewNumbers(e) /\ Flushable(number, number')
  /\ Bumped(e, IF Does(e, "delete_day") THEN [Idle EXCEPT !.at = "reread"] ELSE Idle)
  /\ UNCHANGED overtaken

(* delete_day, after its commit: what is left is read and numbered anew,   *)
(* without another look at the version.                                    *)
RankById(d) == 1 + Cardinality({c \in DayRows : c < d})   \* must not be: no ORDER BY
Rank(d) == 1 + Cardinality({c \in DayRows : number[c] < number[d]})
RereadDays(e) ==
  /\ Reached(e, "reread")
  /\ tx' = [tx EXCEPT ![e].at = "renumber", ![e].seen = number,
                      ![e].want = [d \in DayRows |-> Rank(d)]]
  /\ UNCHANGED <<position, number, overtaken>>

RenumberDays(e) ==
  /\ Reached(e, "renumber") /\ RowsThere(e)
  /\ number' = Updated(number, tx[e].seen, tx[e].want) /\ Flushable(number, number')
  /\ tx' = [tx EXCEPT ![e] = Idle]
  /\ overtaken' = (overtaken \/ \E f \in Editors \ {e} : Reached(f, "renumber"))
  /\ UNCHANGED position

(* 409, a constraint or a missing row, or a crash: PostgreSQL rolls back.  *)
Refused(e) ==
  /\ ~Reached(e, "idle")
  /\ tx' = [tx EXCEPT ![e] = Idle]
  /\ UNCHANGED <<position, number, overtaken>>

OrderNext == \E e \in Editors :
  \/ AddStop(e) \/ DeleteStop(e) \/ ReorderStops(e) \/ ReplaceStops(e) \/ AppendStops(e)
  \/ CreateDay(e) \/ DeleteDay(e)
  \/ Write(e) \/ RereadDays(e) \/ RenumberDays(e) \/ Refused(e)

OrderSpec == OrderInit /\ [][OrderNext]_orderVars

-----------------------------------------------------------------------------
OrderTypeOK ==
  /\ Table(position, StopIds) /\ Table(number, DayIds)
  /\ DOMAIN tx = Editors /\ \A e \in Editors : TxTyped(tx[e])
  /\ overtaken \in BOOLEAN

(* However edits overlap and whichever fail, the stops of a trip are       *)
(* numbered from 0 without gaps: add_waypoint relies on it to find a free  *)
(* position (docs/phase-2-implementation.md:85).                           *)
PositionsContiguous == {position[i] : i \in Stops} = 0 .. Size(position) - 1

(* Two stops swap places only when somebody asks for it: no deletion,      *)
(* insertion or selection disturbs the order of the stops that stay.       *)
SameOrder(old, new) ==
  \A i, j \in DOMAIN old \cap DOMAIN new : old[i] < old[j] <=> new[i] < new[j]
OrderStays ==
  (\A e \in Editors : Does(e, "reorder") => Does(e, "reorder")')
    => SameOrder(position, position')
OnlyReorderReorders == [][OrderStays]_orderVars

(* Renumbering, which no version check guards, never swaps two days,       *)
(* whatever was created or deleted since it read them, as long as no two   *)
(* renumberings overlap (itinerary.py:196).                                *)
DayOrderStays == overtaken \/ SameOrder(number, number')
DaysKeepOrder == [][DayOrderStays]_orderVars

(* Nor when they do.  It does not hold: a renumbering that writes what it  *)
(* read before another one may put a day behind one created since.  It     *)
(* takes five days to see that.  No run checks it.                         *)
DaysNeverSwap == [][SameOrder(number, number')]_orderVars

(* docs/phase-2-implementation.md:198-200: reordering and deleting assign  *)
(* positions in one transaction, so a request that is up to date fits.  It *)
(* does not hold: the flush may meet a value on its way.  No run checks it. *)
UpToDateEditsFit ==
  \A e \in Editors : Reached(e, "read") /\ ~tx[e].stale =>
    \E new \in NewPositions(e) : Flushable(position, new)
=============================================================================
