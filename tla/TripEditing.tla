---------------------------- MODULE TripEditing ----------------------------
(***************************************************************************)
(* Several browser tabs edit one trip at the same time.                    *)
(*                                                                         *)
(* The server keeps a version in the trips row.  An edit reads the trip    *)
(* (get_trip_with_role), reads the rows it works on, writes them, bumps    *)
(* the version with an UPDATE that compares it with the caller's If-Match  *)
(* (touch_trip), and commits; three handlers go on and commit a second     *)
(* transaction, in which touch_trip does nothing any more.  The database   *)
(* is PostgreSQL at READ COMMITTED: every statement sees what is committed *)
(* when it starts, and the UPDATE of the trips row holds the row's lock    *)
(* until the transaction ends.                                             *)
(*                                                                         *)
(* A tab remembers the last version a response named (tripVersions in      *)
(* api.ts), whether its page takes that response in or not, sends it with  *)
(* its edits, and polls for changes by others while its page takes the     *)
(* trip for one that has other members.                                    *)
(*                                                                         *)
(* The plan (stops, days, route) is abstracted to the writes committed to  *)
(* it so far, numbered 1..plan; write 1 is the creation of the trip.  What *)
(* a page shows is the set of writes it reflects.                          *)
(***************************************************************************)
EXTENDS Naturals, FiniteSets

CONSTANTS
  Tabs,         \* the tabs with the trip open, of members who may edit it
  SplitTabs,    \* those whose page loads trip and itinerary with two requests
  LegacyTabs,   \* older clients, which send no If-Match
  PollingTabs,  \* those whose page polls: it is told that the trip has other members
  Kinds,        \* the kinds of edit handlers in use, see AllKinds
  MaxWrites,    \* bound: no edit starts once so many writes are committed
  None          \* no version, no tab

AllKinds == {"single", "select", "renumber"}
(* "single": one transaction. "select": POST radius/select, which commits, *)
(* asks for a route and writes that in a second transaction. "renumber":   *)
(* DELETE days/{id}, which reads again before its second transaction.      *)

ASSUME TabsAssumption ==
  /\ SplitTabs \subseteq Tabs /\ LegacyTabs \subseteq Tabs /\ PollingTabs \subseteq Tabs
  /\ Kinds \subseteq AllKinds
  /\ MaxWrites \in Nat
  /\ None \notin Nat /\ None \notin Tabs

VARIABLES
  version,  \* trips.version, as committed
  plan,     \* writes 1..plan are committed
  lock,     \* the tab whose open transaction has updated the trips row
  edit,     \* the edit each tab has in flight, see Edits
  page,     \* "closed", "loading" or "open"
  known,    \* the version the tab remembers (tripVersions)
  shown,    \* the writes the page shows
  poll,     \* since_version of the poll that is out
  banner,   \* the "someone changed this trip" banner is up
  shared,   \* the page takes the trip for one with other members
  unshown   \* history: the writes the tab has been told the version of, and not shown

server == <<version, plan, lock>>
client == <<page, known, shown, poll, banner, shared, unshown>>
vars == <<server, edit, client>>

Phases == {"idle", "sent", "loaded", "ready", "touched", "between", "reread", "done"}

Edits == [
  at : Phases,               \* how far the handler has come
  kind : AllKinds,           \* the kind of handler that runs it
  match : Nat \cup {None},   \* its If-Match header
  basis : SUBSET Nat,        \* the writes its page showed when the user made it
  unshown : SUBSET Nat,      \* history: those it did not, though the tab was told their version
  read : Nat,                \* writes 1..read were committed when the handler read
  fresh : Nat,               \* the version touch_trip has given it
  wrote : SUBSET Nat]        \* the writes it has committed

NoEdit == [at |-> "idle", kind |-> "single", match |-> None, basis |-> {}, unshown |-> {},
           read |-> 0, fresh |-> 0, wrote |-> {}]

Writes == 1 .. plan

At(t, here) == edit[t].at = here
Conditional(t) == edit[t].match # None
IfMatch(t) == IF t \in LegacyTabs THEN None ELSE known[t]
Becomes(t, e) == edit' = [edit EXCEPT ![t] = e]

(* The comparison as it must not be: any version of the past will do.      *)
MatchesPast(t) == edit[t].match \in {None} \cup 0 .. version

Matches(t) == edit[t].match \in {None, version}

Init ==
  /\ version = 1 /\ plan = 1 /\ lock = None
  /\ edit = [t \in Tabs |-> NoEdit]
  /\ page = [t \in Tabs |-> "closed"]
  /\ known = [t \in Tabs |-> None]
  /\ shown = [t \in Tabs |-> {}]
  /\ poll = [t \in Tabs |-> None]
  /\ banner = [t \in Tabs |-> FALSE]
  /\ shared = [t \in Tabs |-> FALSE]
  /\ unshown = [t \in Tabs |-> {}]

-----------------------------------------------------------------------------
(* Mistakes the properties must notice, each in the place of one action.   *)

(* A 409 whose X-Trip-Version the tab remembers.                           *)
BeginNoted(t) ==
  /\ At(t, "sent")
  /\ Becomes(t, IF Matches(t) THEN [edit[t] EXCEPT !.at = "loaded"] ELSE NoEdit)
  /\ known' = [known EXCEPT ![t] = version]
  /\ UNCHANGED <<server, page, shown, poll, banner, shared, unshown>>

(* The version is compared when the edit begins and never again.           *)
TouchUnchecked(t) ==
  /\ At(t, "ready") /\ lock = None
  /\ lock' = t
  /\ Becomes(t, [edit[t] EXCEPT !.at = "touched", !.fresh = version + 1])
  /\ UNCHANGED <<version, plan, client>>

(* A session that is not closed on the error path.                         *)
FailLocked(t) ==
  /\ ~At(t, "idle")
  /\ Becomes(t, NoEdit)
  /\ UNCHANGED <<server, client>>

(* A poll answered from what the tab knows.                                *)
PollAnswerKnown(t) ==
  /\ poll[t] # None
  /\ banner' = [banner EXCEPT ![t] = @ \/ known[t] # poll[t]]
  /\ poll' = [poll EXCEPT ![t] = None]
  /\ UNCHANGED <<server, edit, page, known, shown, shared, unshown>>

-----------------------------------------------------------------------------
(* The page: loading, showing, polling.                                    *)

(* noteVersions takes the version of an answer the page does not show.     *)
NoteVersion(t) ==
  /\ known' = [known EXCEPT ![t] = version]
  /\ unshown' = [unshown EXCEPT ![t] = Writes \ shown[t]]

Show(t) ==
  /\ shown' = [shown EXCEPT ![t] = Writes]
  /\ unshown' = [unshown EXCEPT ![t] = {}]

(* GET /trips/{id} reads the trips row first and the stops in a later      *)
(* statement; both reach the page together.  A page that also asks for     *)
(* GET /itinerary may get this answer when it already shows the days.      *)
LoadVersion(t) ==
  /\ known[t] = None
  /\ page[t] = "closed" \/ (page[t] = "open" /\ t \in SplitTabs)
  /\ NoteVersion(t)
  /\ page' = [page EXCEPT ![t] = IF @ = "closed" THEN "loading" ELSE @]
  /\ shared' = [shared EXCEPT ![t] = t \in PollingTabs]
  /\ UNCHANGED <<server, edit, shown, poll, banner>>

(* The stops and days arrive and are rendered; only the page with two      *)
(* requests can get here before it knows a version.                        *)
LoadPlan(t) ==
  /\ page[t] # "open"
  /\ known[t] # None \/ t \in SplitTabs
  /\ page' = [page EXCEPT ![t] = "open"]
  /\ Show(t)
  /\ UNCHANGED <<server, edit, known, poll, banner, shared>>

(* loadItinerary: the days are fetched again, the version is not.          *)
Refetch(t) ==
  /\ t \in SplitTabs /\ page[t] = "open"
  /\ Show(t)
  /\ UNCHANGED <<server, edit, page, known, poll, banner, shared>>

(* saveTripForOffline: the page of the trip fetches it once more, for the  *)
(* caches of the service worker only.                                      *)
SaveOffline(t) ==
  /\ t \notin SplitTabs /\ page[t] = "open"
  /\ NoteVersion(t)
  /\ UNCHANGED <<server, edit, page, shown, poll, banner, shared>>

(* window.location.reload(): the module's state is gone.                   *)
Reload(t) ==
  /\ page[t] = "open" /\ edit[t].at = "idle"
  /\ page' = [page EXCEPT ![t] = "closed"]
  /\ known' = [known EXCEPT ![t] = None]
  /\ shown' = [shown EXCEPT ![t] = {}]
  /\ poll' = [poll EXCEPT ![t] = None]
  /\ banner' = [banner EXCEPT ![t] = FALSE]
  /\ shared' = [shared EXCEPT ![t] = FALSE]
  /\ unshown' = [unshown EXCEPT ![t] = {}]
  /\ UNCHANGED <<server, edit>>

(* useTripChanges, which runs while the page takes the trip for shared:    *)
(* the poll names the version the tab knows when it is sent ...            *)
PollSend(t) ==
  /\ shared[t] /\ page[t] = "open" /\ poll[t] = None
  /\ poll' = [poll EXCEPT ![t] = known[t]]
  /\ UNCHANGED <<server, edit, page, known, shown, banner, shared, unshown>>

(* ... and trip_changes compares it with the one it reads.                 *)
PollAnswer(t) ==
  /\ poll[t] # None
  /\ banner' = [banner EXCEPT ![t] = @ \/ version # poll[t]]
  /\ poll' = [poll EXCEPT ![t] = None]
  /\ UNCHANGED <<server, edit, page, known, shown, shared, unshown>>

(* A failed poll is skipped.                                               *)
PollLost(t) ==
  /\ poll[t] # None
  /\ poll' = [poll EXCEPT ![t] = None]
  /\ UNCHANGED <<server, edit, page, known, shown, banner, shared, unshown>>

-----------------------------------------------------------------------------
(* The edit: versionHeader, then the handler.                              *)

Send(t) ==
  /\ At(t, "idle") /\ page[t] = "open" /\ plan < MaxWrites
  /\ \E k \in Kinds :
       Becomes(t, [NoEdit EXCEPT !.at = "sent", !.kind = k,
                                 !.match = IfMatch(t), !.basis = shown[t],
                                 !.unshown = unshown[t]])
  /\ UNCHANGED <<server, client>>

(* get_trip_with_role, its early check included: a stale caller is         *)
(* refused with a 409, which the tab's memory of the version survives.     *)
Begin(t) ==
  /\ At(t, "sent")
  /\ Becomes(t, IF Matches(t) THEN [edit[t] EXCEPT !.at = "loaded"] ELSE NoEdit)
  /\ UNCHANGED <<server, client>>

(* The handler's own queries.                                              *)
ReadRows(t) ==
  /\ At(t, "loaded")
  /\ Becomes(t, [edit[t] EXCEPT !.at = "ready", !.read = plan])
  /\ UNCHANGED <<server, client>>

(* The UPDATE of touch_trip, with the comparison in its WHERE clause.  It  *)
(* waits for the row's lock and then compares the version committed last.  *)
Touch(t) ==
  /\ At(t, "ready") /\ lock = None /\ Matches(t)
  /\ lock' = t
  /\ Becomes(t, [edit[t] EXCEPT !.at = "touched", !.fresh = version + 1])
  /\ UNCHANGED <<version, plan, client>>

(* No row matched: VersionConflictError, the transaction rolls back.       *)
TouchConflict(t) ==
  /\ At(t, "ready") /\ lock = None /\ ~Matches(t)
  /\ Becomes(t, NoEdit)
  /\ UNCHANGED <<server, client>>

Commit(t) ==
  /\ At(t, "touched")
  /\ version' = edit[t].fresh
  /\ plan' = plan + 1
  /\ lock' = None
  /\ Becomes(t, [edit[t] EXCEPT !.at = IF edit[t].kind = "single" THEN "done" ELSE "between",
                                !.read = plan + 1, !.wrote = @ \cup {plan + 1}])
  /\ UNCHANGED client

(* delete_day reads the remaining days in its second transaction.          *)
ReadAgain(t) ==
  /\ At(t, "between") /\ edit[t].kind = "renumber"
  /\ Becomes(t, [edit[t] EXCEPT !.at = "reread", !.read = plan])
  /\ UNCHANGED <<server, client>>

(* The second transaction: touch_trip finds a version in the request's     *)
(* state and neither compares nor bumps. "select" writes the trips row, so *)
(* it waits for the row's lock; "renumber" writes only days.               *)
SecondCommit(t) ==
  /\ At(t, IF edit[t].kind = "renumber" THEN "reread" ELSE "between")
  /\ edit[t].kind = "select" => lock = None
  /\ plan' = plan + 1
  /\ Becomes(t, [edit[t] EXCEPT !.at = "done", !.wrote = @ \cup {plan + 1}])
  /\ UNCHANGED <<version, lock, client>>

(* An error, a lost connection or a crash: what is not committed is rolled *)
(* back, and the tab gets an error or nothing.                             *)
Fail(t) ==
  /\ ~At(t, "idle")
  /\ Becomes(t, NoEdit)
  /\ lock' = IF lock = t THEN None ELSE lock
  /\ UNCHANGED <<version, plan, client>>

(* What the page shows after the answer to an edit.  One sent without a    *)
(* version says nothing of what came before it.                            *)
ShowAnswer(t, now) ==
  /\ shown' = [shown EXCEPT ![t] = now]
  /\ unshown' = [unshown EXCEPT ![t] = (IF Conditional(t) THEN @ ELSE Writes) \ now]

(* The page patches what it shows with the answer ...                      *)
ReplyPatched(t) ==
  /\ ShowAnswer(t, shown[t] \cup edit[t].wrote)
  /\ UNCHANGED <<poll, shared>>

(* ... or takes over the whole of it, where the handler has read the trip  *)
(* again.  On the page of the trip that is the trip itself: the poll under *)
(* way is dropped, and where calculate_route has answered, which says      *)
(* nothing of the other members, the trip now looks like the user's own.   *)
ReplyWhole(t) ==
  /\ ShowAnswer(t, Writes)
  /\ IF t \in SplitTabs THEN UNCHANGED <<poll, shared>>
     ELSE /\ poll' = [poll EXCEPT ![t] = None]
          /\ \E told \in BOOLEAN :
               shared' = [shared EXCEPT ![t] = told /\ t \in PollingTabs]

(* The answer arrives: the tab remembers X-Trip-Version.                   *)
Reply(t) ==
  /\ At(t, "done")
  /\ known' = [known EXCEPT ![t] = edit[t].fresh]
  /\ ReplyPatched(t) \/ ReplyWhole(t)
  /\ Becomes(t, NoEdit)
  /\ UNCHANGED <<server, page, banner>>

Handler(t) ==
  \/ Begin(t) \/ ReadRows(t) \/ Touch(t) \/ TouchConflict(t) \/ Commit(t)
  \/ ReadAgain(t) \/ SecondCommit(t) \/ Reply(t)

Page(t) ==
  \/ LoadVersion(t) \/ LoadPlan(t) \/ Refetch(t) \/ SaveOffline(t) \/ Reload(t)
  \/ PollSend(t) \/ PollAnswer(t) \/ PollLost(t)

Next == \E t \in Tabs : Page(t) \/ Send(t) \/ Handler(t) \/ Fail(t)

Spec == Init /\ [][Next]_vars

(* The server runs every request it has taken up; PostgreSQL queues the    *)
(* transactions that wait for a row, so one that keeps waiting is served   *)
(* (strong fairness); a visible tab polls every 20 s as long as its page   *)
(* takes the trip for shared, and not every one of its polls is lost.      *)
FairSpec ==
  /\ Spec
  /\ \A t \in Tabs :
       /\ SF_vars(Handler(t))
       /\ WF_vars(PollSend(t))
       /\ SF_vars(PollAnswer(t))

-----------------------------------------------------------------------------
TypeOK ==
  /\ version \in Nat /\ plan \in Nat
  /\ lock \in Tabs \cup {None}
  /\ edit \in [Tabs -> Edits]
  /\ page \in [Tabs -> {"closed", "loading", "open"}]
  /\ known \in [Tabs -> Nat \cup {None}]
  /\ shown \in [Tabs -> SUBSET Nat]
  /\ poll \in [Tabs -> Nat \cup {None}]
  /\ banner \in [Tabs -> BOOLEAN]
  /\ shared \in [Tabs -> BOOLEAN]
  /\ unshown \in [Tabs -> SUBSET Nat]

Accepted(t) == edit[t].at \in {"touched", "between", "reread", "done"}

(* Two edits sent against the same version are never both accepted: the    *)
(* compare-and-swap of touch_trip lets one through, however far the two    *)
(* handlers had come when the first one committed (trip_access.py:127).    *)
OneWinnerPerVersion ==
  \A t, u \in Tabs :
    t # u /\ Accepted(t) /\ Accepted(u) /\ Conditional(t) => edit[t].match # edit[u].match

(* What the committing step of an edit looks like from outside.            *)
Writing(t) == plan' \in edit'[t].wrote /\ plan' # plan

(* An edit that carries If-Match never writes over a change it has not     *)
(* read: between the handler's reads and its commit nobody else commits    *)
(* (touch_trip, "instead of overwriting").  It does not hold of a handler  *)
(* that commits twice, whose second commit compares no version             *)
(* (radius.py:312).                                                        *)
NoStaleWrite ==
  [][\A t \in Tabs : Writing(t) /\ Conditional(t) => edit[t].read = plan]_vars

(* The first commit of an edit with If-Match.                              *)
Winning(t) == Writing(t) /\ At(t, "touched") /\ Conditional(t)

(* A page that misses a change gets a 409 instead of overwriting it.  What *)
(* an accepted edit writes over was on its page, or the tab had taken the  *)
(* version of it from an answer the page does not show: the version        *)
(* request of a page with two (itinerary/page.tsx:683), an offline save,   *)
(* or the answer to an edit sent before any version.  A refusal, a second  *)
(* fetch of the days and an answer that is patched in tell a tab no such   *)
(* version (api.ts:41).                                                    *)
NoSilentOverwrite ==
  [][\A t \in Tabs : Winning(t) => Writes \subseteq edit[t].basis \cup edit[t].unshown]_vars

(* Not so: what an accepted edit writes over was on its page.  A change    *)
(* that lands between the two requests of the itinerary page, or before an *)
(* offline save (offline.ts:37), is not, and the version covers it.        *)
EditsKnowTheirPage == [][\A t \in Tabs : Winning(t) => Writes \subseteq edit[t].basis]_vars

Misses(t) == page[t] = "open" /\ ~(Writes \subseteq shown[t] \cup unshown[t])

(* A page that takes the trip for shared and misses a committed change,    *)
(* whose version no other answer has told the tab, does not stay silent:   *)
(* the poll puts the banner up, or the page comes to show the change, or   *)
(* it ceases to be in that position (useTripChanges.ts:32).                *)
StaleTabWarned ==
  \A t \in PollingTabs : shared[t] /\ Misses(t) ~> banner[t] \/ ~shared[t] \/ ~Misses(t)

(* Not so: the same of every page, whatever it takes the trip for.  The    *)
(* answer of calculate_route makes it forget the other members and stop    *)
(* polling (page.tsx:125); one whose request for the trip fails never      *)
(* hears of them.                                                          *)
EveryTabWarned == \A t \in PollingTabs : Misses(t) ~> banner[t] \/ ~Misses(t)

(* Every edit the server has taken up ends: nobody waits for the row's     *)
(* lock for ever.                                                          *)
EditsEnd == \A t \in Tabs : ~At(t, "idle") ~> At(t, "idle")
=============================================================================
