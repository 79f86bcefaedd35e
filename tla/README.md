# A verification project for the Road Trip Planner

The Road Trip Planner is a FastAPI backend (`backend/app`) over PostgreSQL, a
Next.js frontend (`frontend/src`), a bucket for photos (Cloudflare R2) and
metered upstreams for maps (Google, OpenRouteService). This directory models
the parts whose correctness depends on order: who reads before whom writes, what
is committed when, which answer comes late, and what gets lost on the way. TLC
checks each module on a small instance; TLAPS proves what matters most for every
instance.

Contents: 1 the system, 2 the modules, 3 the runs, 4 the proofs, 5 what was
found, 6 what is not modelled, 7 the plan.

## 1. The system

### Components, their state and their operations

| Component | State | Operations | What makes it correct | Module |
|---|---|---|---|---|
| Trip editing (`core/trip_access.py`, every mutating handler, `lib/api.ts`, `hooks/useTripChanges.ts`) | `trips.version`; per tab the last version seen | edit with `If-Match`, load, refetch, save for offline use, poll | one edit wins per version, no edit writes over a change its page misses and its tab was told nothing of, a stale tab is told | TripEditing |
| Order of stops and days (`api/waypoints.py`, `itinerary.py`, `radius.py`, `corridor.py`) | `waypoints.position`, `itinerary_days.day_number`, both UNIQUE per trip | add, delete, reorder, replace, append, renumber | positions contiguous, no stop or day swaps places unasked | TripOrder |
| API budget (`core/budget.py`) | `api_usage_daily`, `user_action_daily` | `charge` = user quota, one upsert per SKU, commit | budgets and quotas hold under concurrency, a charge is all or nothing | ApiMeter, ApiBudget |
| Members and invites (`api/members.py`) | `trip_members`, `trip_invites` | create, accept, revoke, change role, remove | links admit at most `max_uses`, a revoked link nobody, roles change only by the owner | Members |
| Photos (`api/photos.py`, `core/objects.py`, `core/cleanup.py`) | `trip_photos`, `pending_object_deletes`, `users.storage_bytes`, the bucket | approve, PUT, confirm, delete, cleanup job | no photo without object, no object forgotten, the queue drains | PhotoStorage |
| Offline check-ins (`lib/offlineQueue.ts`, the Today page, `sw.js`, `check_in`) | IndexedDB store, `waypoints.visited_at/skipped` | check in, enqueue, replay | nothing vanishes, nothing overtakes, the queue drains | OfflineCheckIns |
| Sessions (`api/auth.py`, `core/security.py`, the `app/api/auth` routes, `proxy.ts`, `AuthContext`, the sign-in and settings pages) | `password_changed_at`, the refresh cookie, the token in memory, the profile, the page | mount, login, register, refresh, 401 and retry, change password, log out everywhere, reset, delete | one refresh serves all who wait, a late refresh ends no session, a dead session ends | Sessions |
| Trip page (`trips/[trip_id]/page.tsx`, `WaypointList`) | the page's copy of the trip, the timer of the route | add, remove, reorder, edit a stop or the trip, recalculate | the patched copy is the trip, one click adds one stop, the route follows the stops | TripPage |
| Itinerary board (`itinerary/page.tsx`, `api/itinerary.py`) | days, the day and place of each stop; the board, the chip that is dragged | drag and drop, menu, distribute, days, optimise | each stop once on the board, the board is what was saved | Board |
| Suggestions (`discover` and `corridor` pages, `api/radius.py`, `corridor.py`, `core/votes.py`, `useVotes`) | suggestions, votes; the list, the choice, the tallies shown | discover, refresh, vote, build | votes follow their places, the list is the one the trip has | Discovery |
| Rows of a trip (packing, expenses, comments, members, share dialog) | own tables; the rows shown | toggle, add, remove, template, settings, switches | a page told of everything shows exactly what there is | Lists |
| Caches, builder, routing, export, recap, map, weather, navigation, mail, usage, demo | own tables or none | single statements, arithmetic, read-only views | see section 6 | – |

### How they interact

Browser tabs call the API; every edit of a trip passes `get_trip_with_role` (role
and early version check) and `touch_trip` (compare-and-swap of the version, held
as a row lock until the commit). Discovery, routing and geocoding call `charge`
first and the upstream afterwards. Deletions of photos, trips and accounts leave
keys in `pending_object_deletes`, which a job in every backend process empties.
The Today page replays check-ins through the same endpoint, with the same
`If-Match`, as a check-in made online. The API answers the version of a trip in
`X-Trip-Version`, and the tab keeps it in a module variable of `api.ts`, shared by
all pages of the tab; each page keeps a copy of its own rows, patched or fetched
again when an answer comes. A request that is answered 401 waits for a refresh
all requests share.

### What is hard about it

* PostgreSQL runs at READ COMMITTED: every statement has its own snapshot, an
  UPDATE waits for the row and then re-evaluates its WHERE clause, but a
  subquery in it keeps the old snapshot (`core/budget.py`).
* Handlers read, wait for others and then write; some commit twice.
* The ORM flushes one row at a time, in primary-key order, under UNIQUE
  constraints that are checked after every row.
* The clock moves between the statements of one transaction (midnight UTC).
* Requests, polls and replays get lost, answered late, or answered twice; pages
  close in the middle; jobs die and run in several processes.
* Pages show a change before it is saved, start a second call while the first is
  under way, and go on after an `await` with what they read before it.

`PROJECT.json` lists each of these hazards with its line and the property that
watches it.

## 2. The modules

Every action is one point at which the code can be interleaved: a statement or a
group of statements nobody else can observe in between; in the pages, one click,
one effect, or one continuation behind an `await`. An operator whose comment calls
it a mistake or says "must not be" is a plausible bug; the checks put it in the
place of the definition beside it to show that a property notices. The theorems of
TripOrder, Sessions and OfflineCheckIns stand beside those of another component, so these
three modules put their name before `Init`, `Next`, `TypeOK` and the like.

**TripEditing** (`MCTripEditing`, `TripProofs`). One trip and several
tabs. `version`, `plan` (the number of committed writes) and `lock` are the trips
row; `edit[t]` is the request of tab t from `Send` (`versionHeader`) over `Begin`
(`get_trip_with_role`), `ReadRows`, `Touch` or `TouchConflict` (`touch_trip`) and
`Commit` to `Reply` (`noteVersions`). `SecondCommit` and `ReadAgain` are the second
transactions of `radius/select` and `delete_day`. `known` is `tripVersions`, `shown`
the set of writes the page reflects, and `unshown` is history: the writes whose version
the tab has taken from an answer its page does not show. Tabs in `SplitTabs` are on the
itinerary page, which loads trip and days with two requests; the others are on the page of
the trip, whose offline save (`SaveOffline`) fetches a version nobody looks at, and which
the answer to a change of its title or a calculation of its route replaces (`ReplyWhole`).
Tabs in `LegacyTabs` send no `If-Match`. Those in `PollingTabs` are told that the trip has
other members when they load it, and poll `/changes` as long as `shared` says so: the
answer of `calculate_route` says otherwise, and they stop. What a stop or a day contains is abstracted to the
number of the write that last changed it.

**ApiMeter, ApiBudget** (`MCApiBudget`, `ApiBudgetProofs`). `ApiMeter` is the
abstract promise: a charge is counted in one step, within the day's budgets and
the user's quota. `ApiBudget` is the code: each statement is a start (clock and
snapshot) and an execution (row free, condition), refusals roll back, midnight
may pass in between. `ApiBudget` implements `ApiMeter`: `AllOrNothing` is the
specification of the instance `Meter`, whose variables are given by a mapping.

**TripOrder** (`MCTripOrder`, `TripProofs`). `position` and `number` are the two
columns; a request reads (`AddStop`, `DeleteStop`, `ReorderStops`, `ReplaceStops`,
`AppendStops`, `CreateDay`, `DeleteDay`), then `Write`s what it makes of the tables,
provided the flush, row by row in primary-key order, meets no taken value
(`Flushable`) and the version has not moved (`UpToDate`). `RereadDays` and
`RenumberDays` are the second transaction of `delete_day`. All editors send
`If-Match`, as `api.ts` does. `overtaken` is history: a renumbering has committed between
the reading and the writing of another.

**Members** (`MCMembers`, `AccessProofs`). `LookUpMember`, `ClaimUse`, `InsertMember`,
`CommitJoin` are the statements of `accept_invite`, with the row of the invite and the
key of the member held until the commit; the owner's operations and expiry interleave.
`via` is history: the links through which a member came in.

**PhotoStorage** (`MCPhotoStorage`, `StorageProofs`). Requests (`tx`) that confirm and
delete photos or delete the trip, the bucket (`object`), the delete queue with the
number of failed tries, and cleanup jobs. The batch of 500 keys is the whole queue; each
approved upload is put and confirmed once, and a confirmation that fails is not
tried again. A photo counts as one byte of the quota.

**OfflineCheckIns** (`MCOfflineCheckIns`, `StorageProofs`). `log` and `queued` are the object
store with its autoincremented keys, `call[f]` and `todo[f]` a run of
`flushCheckIns`, `call[i]` a check-in sent at once. The server handles a request in one
step (TripEditing has the steps). The end of a session or of a membership, which also
refuses a check-in for good, is represented by the deletion of its stop. A request that
the device has given up on does not reach the server later.

**Sessions** (`MCSessions`, `AccessProofs`). One tab: `jar` is the httpOnly cookie, named
by the second its token was issued in, `token` the access token of `api.ts`, `user`,
`loading` and `loggedIn` the state of `AuthContext`, `page` the route. `call[c]` is the
exchange of a caller: the mount effect, the login and register forms, the settings page,
logout, the shared refresh, and the requests of a page. An exchange leaves with the
cookie or token of that moment (`cred`), is answered by the server (`Serve`), and changes
cookie and state when it comes back. `Guard` is the effect that sends a tab without user
to the login page, and `proxy.ts`, which looks only for a cookie, may send it back.
`RevokeElsewhere` is another device that changes the password, in whole seconds as
`password_changed_at` is kept.

**TripPage** (`MCTripPage`, `TripPageProofs`). `trip` is the trip of the server, `shown` the copy of the
page, with the set of versions it reflects; every handler of the page is a step that
sends and a step that takes the answer in. `timer` is `recalcTimer`; the calculation of a
route reads the stops, waits for the upstream and writes. `blind` is history: `known`
comes from an answer the page did not show (saving for offline use).

**Board** (`MCBoard`, `BoardProofs`). `plan` is the days, and the day and `day_position` of every stop;
`shown` the board, on which a chip moves while it hovers (`DragOver`) and which is saved a
column at a time (`DragEnd`). `Distribute`, `AssignToNewDay` and the buttons of a day are
handlers of several calls, one after the other (`todo`). Trip and board are fetched with two
requests. `seen` is history: the commits the board reflects. `FirstPlans`, `Others` and
`Enough` bound what is explored: the day of the code needs three stops to be reordered,
the instance two. Plans are `Placed`: a day is there once, and a stop's day is null or there
(the primary key of itinerary_days and the foreign key that refers to it).

**Discovery** (`MCDiscovery`, `DiscoveryProofs`). `rows` is a generation of suggestions and
its places, so a row is a generation and a place; `votes` are the places whose present row
has a vote. A discovery checks the version and reads the old rows (`Begin`), asks the
upstream (`Stopped`), writes the new rows and reads the votes (`CarryOver`), and commits if the
version has not moved (`DiscoverCommit`). A vote finds its row (`VoteTarget`) and is written
whatever became of it (`VoteWrite`). The page has its mount effect step by step, its searches,
builds, choices, and the hook `useVotes`, whose effect cancels the answer it waited for.
What a build does to the stops is in TripOrder.

**Lists** (`MCLists`, `ListsProofs`). One page at a time: packing, budget, comments, members or share.
`rows` are the server's rows, `shown` the values shown for each (a sequence: one per
copy), `seen` the commits they reflect. `copy` is what the trip page keeps of the two
switches of the share dialog: the dialog opens from it (`ReopenShare`), its switches do not
update it, and an answer with the whole trip replaces it (`CopyReplaced`); what calls of a
dialog that was closed still do at the server is an edit of others. The rows are abstracted to two values. `kept` is
the closure a handler takes its rollback from.

Abstract numbers: times are indices of check-ins or seconds, bytes are photos, days are
0..LastDay; no property depends on more.

## 3. The runs

| Run | Shows | Bounds, and why they are enough |
|---|---|---|
| `trip_edits` | one winner per version, no stale write, no silent overwrite, stale tabs warned | 2 tabs, one on the trip page and one on the itinerary page (two can collide on a version, and either can miss the other's change; an edit sent before a version is known goes without If-Match), 3 writes: a basis, an intervening one and the victim |
| `trip_handlers` | every edit ends, whatever the handlers and their second transactions | 2 tabs, one of them an older client, all kinds of handlers |
| `api_charges` | day budgets, all-or-nothing within budgets and quotas (refinement), charges end | 2 requests, 3 kinds over 3 SKUs, two shared in the same order; caps of 1 and 2; one midnight |
| `plan_order` | contiguous positions, nothing reordered unasked, days keep their order | 2 editors, 3 stops, 3 days: three rows are the least for which the flush order matters in both directions |
| `members` | link limit, revocation, roles | 3 requests (claims beside a revocation and a removal), 2 users, 2 links of one use |
| `photos` | photos keep objects, objects are not forgotten, the queue drains | 2 keys, 2 requests, 2 jobs, 2 tries: one job's failure against another's success |
| `checkins` | nothing vanishes from the queue, order is kept, the queue drains | 2 check-ins, 2 overlapping replays, 1 edit by others or lost reply (`MaxTrouble`); one stop and one action, since no property of the run looks at what a stop says |
| `sessions` | whoever waits for a refresh is served, a late refresh ends no session, a dead one ends | 2 requests sharing a refresh, 2 further calls at once, seconds 0..2: before, in and after the second of a revocation |
| `trip_page` | the copy, the stops added and the route agree with the trip | 2 stops, 2 calls at once, 3 versions: the opening one, one of the page and one of another member |
| `board` | each stop once on the board, a board that reflects all commits is the plan | 2 stops, 2 days, 2 handlers at once, 2 commits; another member moves one of the stops |
| `discovery` | votes follow, the list is the trip's, the tallies are those of the list | 1 place that may be found or not, 2 calls at once (a search and a vote, two searches), 3 versions; both pages, both roles |
| `lists` | a page told of everything shows what there is; what the user was told of is shown, in the share dialog since it was opened | 2 rows, 2 calls at once, 3 commits, each of the five pages |

Deadlock checking is off where the system may really stop: all links used or revoked,
all writes of the bound made, the trip gone and its queue empty, the last day
full, the page left. Symmetry is used for requests, editors and slots, and only where no
temporal property with fairness is checked.

**Fairness.** `TripEditing` and `ApiBudget` assume strong fairness of a handler's
steps: PostgreSQL queues those who wait for a row, so whoever is again and again
at the head of the queue is served; and weak fairness of polling (a timer, which runs only
while the page takes the trip for shared: `shared` is in the guard, so nothing is assumed
of a page that has stopped) with strong fairness of its answer (not every poll is lost). `PhotoStorage`: the job
is started daily and at every start, so `TakeQueue` is weakly fair, and it does not
die every time, so its later steps are strongly fair. R2 itself is under no
fairness: it may fail for ever. `OfflineCheckIns`: the connection returns, and now
and then page and connection last for a timer tick and one request. `Sessions`: the
server answers (or the call is lost), answers are handled and effects run; nobody has to
click, and no call has to succeed. The page modules state safety only.

## 4. The proofs

Proved with tlapm for all values of the constants that satisfy the modules'
assumptions (`TabsAssumption`, `BudgetAssumption`, `PhotoAssumption`, `InviteAssumption`,
`OrderAssumption`, `CheckInAssumption`, `SessionsAssumption`, `DiscoveryAssumption`,
`TripPageAssumption`, `BoardAssumption`, `ListsAssumption`):

* `TripProofs!TypeCorrect`, `OneWinner`, `NothingStale`, `NothingOverwritten`. The
  inductive invariant `SafeInv` adds to `OneWinnerPerVersion` that exactly the edit that
  has touched the row holds its lock, with a version one above the committed one
  (`LockInv`), and that a committed edit has left the version it was sent against behind
  (`VersionInv`). `OneWinnerPerVersion` alone is not inductive: it says nothing of an edit
  that is about to touch a version already consumed. The other two are proved under
  `Kinds = {"single"}`, since they do not hold of handlers with two transactions (section 5):
  `SingleInv` says that version and plan then move together, so an edit whose version
  still matches has read the rows there are, and `PageInv` that of the writes up to the
  version a tab remembers (`Covered`) its page shows each, or the tab has it among those it was told
  of and did not show; an edit takes both sets along (`Carried`). `NothingOverwritten` is
  about every kind of page; what it cannot rule out is stated by `EditsKnowTheirPage`
  (section 5).
* `ApiBudgetProofs!LedgerTyped`, `LedgerInvariant`, `DayBudgetHolds`, `ImplementsMeter`.
  The invariant says of each open transaction which rows it holds, that no two hold
  the same, and that what it has reserved on a day fits the cap on top of what is
  committed there. From it a commit is one step of `ApiMeter`, and every other
  step stutters.
* `TripProofs!OrderTyped`, `PositionsStayContiguous`, `OrderKept`. Positions are
  contiguous before a commit only of the rows the request has read, so `OrderInv` adds
  `Fresh`: a request that is still up to date has read the tables there are. That
  closing a gap or inserting a row leaves 0 .. n-1 is an argument about cardinalities
  and permutations (`Perm`), and that it swaps nothing one about monotone shifts.
  `DayOrderKept` (`DaysKeepOrder`) has an invariant of its own, `DayInv`: numbers are positive and distinct (`Numbered`), a day in the making comes behind
  all there are (`Behind`), what a renumbering wants lifts no number and keeps the order
  of what it has read (`Closes`), and as long as no renumbering has overtaken another, the
  days it has read have the numbers it has read, and later ones come behind them
  (`Current`). Without `overtaken` the last part is false: section 5 has the steps that
  swap two days.
* `StorageProofs!StorageTyped`, `PhotosSafe`, `NothingForgotten`, `QueueSafe`. The
  invariant follows a key through its life (approved, put, confirming, saved,
  given up), says that only keys whose photo is gone are queued or taken by a job,
  and that a job past its deletion has left no object of its keys.
* `AccessProofs!MembersTyped`, `LinksLimited`, `RevocationHolds`, `RolesKept`. `LinkLimit`
  is not inductive, since an uncommitted claim is in no row: `ClaimInv` says that such a
  claim is the only one on its link, which is neither used up nor revoked, and
  `InsertInv` that an uncommitted member is the only one with its key and meets no row.
  That a commit admits one more person for one more use is an argument about
  cardinalities (`JoinKeepsLimit`).
* `BoardProofs!BoardTyped`, `ChipsStayOnce`, `BoardExact` (`TypeOK`, `ChipsOnce`, `BoardIsExact`).
  `BoardInv` is inductive: the plan is `Placed`, the board shown and every board in an answer has
  each stop at least once, at most once in a column and, unless a day is there twice, in one
  column only (`Complete`), and a call brings the commits it has made and nobody else's
  (`Sound`, `Apart`). `ChipsOnce` follows by counting the places of a stop (`SpotsOf`). For
  `BoardIsExact`, `ExactInv` says what a board will agree with once everything on its way
  is in. A commit is owed if a handler has its answer still to take in; a board is whole
  if every commit is reflected or owed. A whole board then shows the plan as it will be when
  the drop under way has been served (`After`), but for days whose creation has not been
  answered (`Missing`) and the chip in the hand (`Nearly`): `ShownInv`. The same holds of a board in
  an answer (`RepliesInv`), and as long as the page can say what it shows, only one drop is
  under way (`OneDrop`). A drop needs both of its commits there: that the first changes the day,
  and the second the order, gives back the column on the board because a set of stops has
  one sorted column (`Sorting`), which is proved by a least counterexample and not by
  induction. `BoardAssumption` keeps columns, stops, drags and `None` apart, and says
  that the first plans are `Placed`.
* `ListsProofs!ListsTyped`, `OwnIsShown`, `ListsExact` (`TypeOK`, `OwnShown`, `ListExact`).
  `ListsInv` says of each call that its handler finds in the answer what it needs (`Sound`),
  that a page knows of no commit that has not been made (`Past`), and, as long as nothing
  overlapped or failed (`Own`), that there is at most one call, that it is the one that will
  show what the user has been told and the page does not show yet (`Lone`), and that without a
  call the page has settled. `OwnShown` alone speaks of pages at rest only. `CopyInv` is kept
  beside it: the trip behind the share dialog, if it reflects every commit, has the switches as
  they are, which is what a reopened dialog starts from.
  For `ListExact`, `ExactInv` adds one part for each way to take an answer in. A page that
  fetches its rows again (`Fetched`) shows them as they are when it reflects every commit,
  and so does an answer that does. A page that patches them (`Exact`) owes its rows the commits whose
  answers are on their way (`Owed`). Call a set of commits whole if with those it leaves none out: then
  what the page shows, and what an answer brings, is right row by row, or a call under way will put it
  right (`Shows`, `Replies`), and a rollback restores the server's row (`Tells`). The
  rest says that two calls know what the other is about (`Orderly`), that a removal is for good
  (`Standing`), and that a row which has just been made is nowhere yet, so that appending it
  leaves one copy (`Unmade`, `Adds`). What the page has missed by an edit of others it misses for
  good, so no history of the rows is needed. `ListsAssumption` keeps `None`
  apart from the values, which the first version of the assumption did not say.
* `StorageProofs!CheckInsTyped`, `NothingLost`, `ReplayOrdered` (of OfflineCheckIns:
  `TypeOK`, `NothingVanishes`, `ReplayInOrder`). A replay asks about the
  least key it has not dealt with (`CallInv`), an answer a caller holds is one the
  server has given (`AnswerInv`), and what a replay leaves out before its keys is
  answered (`TodoInv`): at its start because `NothingVanishes` holds of what is no
  longer queued, later because it drops a key only after its answer.
* `AccessProofs!SessionsTyped`, `NobodyLeftWaiting`, `LateRefreshHarmless` (of Sessions: `TypeOK`,
  `WaitersServed`, `LoginKept`). `WaitersServed` is
  inductive with the types: a refresh begins with its first waiter, and its end, whatever
  it is, moves all of them on. `LoginKept` needs no invariant besides the types, but every
  one of the fifty steps has to be looked at.
* `TripPageProofs!PageTyped`, `CopyExact`, `RouteFollowed`, `AddressOnce` (`TypeOK`, `CopyIsExact`,
  `RouteFollows`, `AddedOnce`). `WholeInv` is the conjunction of the three things to carry:
  `PageInv`, what each call may find when it is answered (a call that may still be accepted
  was sent on the present version, its answer brings the present trip); `Typed`, the types
  of what is on its way; and `OnceInv`, that no stop is twice in the trip, on the page or
  in an answer, and that an address that is picked or to be added is new as long as
  nobody has edited since.
* `DiscoveryProofs!DiscoveryTyped`, `VotesAreKept`, `ListStaysCurrent`, `TalliesStayRight`. What has to hold of a
  call depends on how far it has come, so `DiscInv` is a predicate on one call record
  (`Fits`), which holds of all, with `Alone`: of the answers that name a new version at most
  one is under way, because edits sent on one version are accepted once. A discovery that may
  still commit has read the rows there are (`Searching`); an answer that makes the page
  remember the present version brings the present rows or leaves them on the page
  (`Listing`); an answer with tallies of which nothing has become stale brings the votes
  there are (`Voting`). For the types, `RowInv` adds that votes, choices, tallies
  and what answers bring name places of their own generation of rows.

Type correctness of Members, OfflineCheckIns, Sessions, TripOrder and TripEditing is only
proved, that of the others also checked by TLC.

Only model-checked: liveness and everything about ENABLED (`StaleTabWarned`, `EditsEnd`,
`ChargesEnd`, `QueueDrains`, `CheckInsDrain`, `DeadSessionEnds`), which are out of the prover's
reach. Every invariant and every action property of the runs is a theorem.

## 5. What was found

The code keeps the properties of section 3. It does not keep those below; each is
stated in its module and can be put in a configuration to see the counterexample.

* `UpToDateEditsFit` (TripOrder): a reorder that swaps stops meets
  UNIQUE(trip_id, position) in the middle of its flush and fails; so do some deletions.
* `DaysNeverSwap` (TripOrder): the second transaction of `delete_day` (itinerary.py:194) writes
  numbers it has computed from days it has read, with no check of the version. With five
  days and two editors: one deletion reads what is left, another deletes a day and
  renumbers, a day is created, and the numbers of the first then swap two days.
  `DaysKeepOrder` holds as long as no renumbering has overtaken another. (The instance of
  the run, with three days, is too small for these steps.)
* `HardMonthBudget` (ApiBudget): the sum over the earlier days of the month is taken when
  the statement starts, so a charge after midnight misses one of the day before that
  commits meanwhile.
* `NoStaleWrite` (TripEditing) with handlers of two transactions: `radius/select` commits the
  stops, somebody else commits, and the second commit of select (radius.py:312) writes
  over it without looking at the version.
* `EditsKnowTheirPage` (TripEditing): an accepted edit may write over a change its page does
  not show, without a 409, where the tab was told the version of that change. The itinerary
  page reads the version with one request and the days with another (itinerary/page.tsx:683);
  saving for offline use moves the version and not the page (offline.ts:37: load at version 1,
  another member commits version 2, save, edit with `If-Match: 2`; the same as
  `EditsKnowThePage` of TripPage); and the answer to an edit sent before any version was known
  names one. `NoSilentOverwrite` says that these are the only ways.
* `EveryTabWarned` (TripEditing): a tab is not warned of a change if its page does not take the
  trip for shared. `calculate_route` answers the defaults `my_role="owner"`, `member_count=0`
  (schemas/trip.py:171), the trip page takes that answer for its trip after every edit of a stop on
  a point-to-point trip (page.tsx:124), and `useTripChanges` stops polling; a page whose
  request for the trip fails never starts. `StaleTabWarned` is about tabs whose page takes the
  trip for shared, and `StaysShared` (TripPage) is the same failure seen from the page.
* `UseMeansJoining` (Members): a member who accepts twice at once consumes two uses.
* `DroppedIsHopeless` (OfflineCheckIns): a queued check-in that meets a 409 is dropped for good.
* `TripLeavesNothing` (PhotoStorage): a confirmation that commits between the listing of
  `delete_trip` and its commit goes with the cascade, and its object stays in the bucket.
* `NoBouncing` (Sessions): a login whose `fetchMe` fails, or a logout request that is lost,
  leaves a cookie, and `proxy.ts` sends the tab without user back to the page it left.
* `EditsKnowThePage`, `StaysShared` (TripPage): saving for offline use refreshes the version
  but not the page; `calculate_route` and others answer `my_role="owner"`, `member_count=0`,
  so a shared trip looks like one's own afterwards.
* `DropStays` (Board, with `Others = {}`): see the itinerary page below.
* `OpeningOnlyReads` (Lists): the share dialog publishes the trip when it opens, also one that
  was made private elsewhere meanwhile.
* `ReopenShowsOwn` (Lists): the share dialog opens from the trip the page keeps (page.tsx:530),
  which its switches do not update. After a switch, closing and reopening shows the old
  position, with no call overlapping or failing; once the link was switched off, reopening
  publishes the trip again (`OpeningOnlyReads`). `OwnShown` speaks of the dialog since it
  was opened.

Met while modelling, where no property can be stated that the code keeps:

* Sessions: a refresh answered after a logout restores cookie and token; a profile saved
  after a logout sets the user again; a change of password racing a refresh may end with
  the old cookie; a refresh in the second of the change mints a token that survives it
  (security.py:60); calls to `/auth/*` with an expired token are not retried.
* Itinerary page: a reload during a drag leaves `origin` stale; the answer of "add day" after
  a reload shows the day twice; a drop that is cancelled or ends outside keeps a move
  nobody saves; the second commit of assign is unguarded.
* Discovery pages: a failed first GET leaves the skeleton for ever; a viewer of a trip
  without suggestions starts a search that is refused, and may press the detour buttons; two
  overlapping detour searches refuse each other; `radius/select` may commit and then answer
  502, so the page keeps an old version; a vote cast while a discovery commits is lost or
  names a row that is gone (hence `due` in `VotesFollow`); the tallies may be overtaken by a
  vote (hence `stale` in `TalliesFollow`).
* Packing, budget, comments, members: the rollback of a removal puts back the list of the
  click, so it revives or drops other items; an item answered after a template is shown
  twice; late totals overwrite newer ones; two loads of a thread are taken in as they come;
  revoking a link may clear a newer one from the dialog. (`ListExact` speaks of pages that
  reflect every commit, `OwnShown` of pages whose calls did not overlap.)
* Check-ins: a 401 whose refresh is lost ends the session for the request, and the replay
  drops its check-in (api.ts:107, offlineQueue.ts:62), although the session may be alive; one made online overtakes those still queued for the stop, and the
  replay then restores the older one; after a lost reply the tab's version is old,
  so all that is queued behind it is refused and dropped, with nobody else editing; a
  logout leaves the queue to the next user of the device.
* Photos: two deletions of one photo count its bytes twice.
* `useTripChanges`: a poll sent before the tab's own save and answered after it
  raises the banner for the tab's own edit.
* `radius/select` computes its route from stops the session had loaded before it
  replaced them; `build-itinerary` expires the session before its route totals are
  flushed, and they are lost.

## 6. What is not modelled

* The daily purge of suggestions nobody selected for a while (cleanup.py:74): it removes rows
  without a new version of the trip, so a page that was told of everything may list some
  that are gone.
* The caches of discovery: rows per rounded key, written with ON CONFLICT; an answer is the
  same whichever request wrote it. That a search may be answered without a charge is a
  choice of `Stopped` and of ApiBudget's requests.
* The itinerary builder (nearest neighbour, 2-opt, dropping of stops), sampling of routes,
  isochrones, costs, sums, schedules, polylines, images: arithmetic on data that one
  request holds alone; Board, Discovery and TripOrder take any result.
* Export, recap, map, weather, navigation links, usage and demo: read-only views.
* Validation, formatting, rendering, the map, mail, the rate limiter, logging, migrations,
  scripts: nothing in them depends on an order that the database does not decide alone.
* Of the trip page: deleting the trip, the title draft, links and polling (the latter is in
  TripEditing). Of Sessions: several tabs at once, throttling of logins, e-mail addresses.
  Of Discovery: who voted (a place has a vote or not). What else the modules leave out of
  their own files is named in the notes of `PROJECT.json`.

## 7. The plan

Done, the most used part first: TripEditing, ApiMeter and ApiBudget, TripOrder, Members,
PhotoStorage, OfflineCheckIns, Sessions, TripPage, Discovery, Board, Lists, with the
theorems of section 4. Left, in the order of what it would add:

1. Check-ins composed with Sessions: the queue of a device two people use.
2. The builder's 2-opt as a recursive function against brute force over small matrices.
3. Two tabs of one browser over one cookie.
