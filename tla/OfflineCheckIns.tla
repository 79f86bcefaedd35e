--------------------------- MODULE OfflineCheckIns ---------------------------
(***************************************************************************)
(* Check-ins on the road, from the Today page of one device.               *)
(*                                                                         *)
(* A check-in goes to the server at once, or, without a connection, into a *)
(* queue in IndexedDB (lib/offlineQueue.ts).  The page replays the queue   *)
(* when it opens, when the connection returns and every few seconds while  *)
(* something waits, so that several replays may run at once.  A refused    *)
(* check-in is dropped, a failed request ends the replay.  Every request   *)
(* names the trip version the page remembers, and the server refuses it if *)
(* the trip has another one (see TripEditing).                             *)
(*                                                                         *)
(* The server handles a request in one step here.  A request the device    *)
(* has given up on has been handled by then or never is.                   *)
(***************************************************************************)
EXTENDS Naturals, Sequences, FiniteSets

CONSTANTS
  Stops,       \* the stops of the trip
  Actions,     \* what the user marks a stop as
  Flushes,     \* replays that may run at once
  MaxTaps,     \* bound: check-ins the user makes
  MaxTrouble,  \* bound: edits by others and lost replies
  None         \* no version

ASSUME CheckInAssumption ==
  /\ Actions \subseteq {"arrived", "skipped", "undo"}
  /\ {MaxTaps, MaxTrouble} \subseteq Nat
  /\ None \notin Nat /\ Flushes \cap Nat = {} /\ IsFiniteSet(Flushes)

VARIABLES
  version,  \* trips.version
  status,   \* what the rows of the stops that still exist say
  trouble,  \* edits by others and replies lost so far
  answer,   \* answer[i]: the answers the server has given to check-in i
  online,   \* navigator.onLine
  open,     \* the Today page is open
  known,    \* the version the page remembers (tripVersions)
  cached,   \* the version in the service worker's copy of the trip
  made,     \* the check-ins made, in order; the index is also the time
  log,      \* log[n]: the check-in stored under key n of the object store
  queued,   \* the keys still in the object store
  todo,     \* the keys a replay has read and not dealt with
  call      \* the request each replay, or check-in made online, waits for

server == <<version, status, answer>>
device == <<online, open, known, cached, made, log, queued, todo>>
checkInsVars == <<server, device, call, trouble>>

Taps == 1 .. MaxTaps
Callers == Flushes \cup Taps
Calls == [at : {"idle", "next", "sent", "accepted", "refused"},
          n : Nat,                    \* a key, or the check-in itself
          match : Nat \cup {None}]    \* If-Match, then the version answered
NoCall == [at |-> "idle", n |-> 0, match |-> None]
Turn == [NoCall EXCEPT !.at = "next"]
Untouched == [visited |-> 0, skipped |-> FALSE]

CallAt(c, here) == call[c].at = here
Becomes(c, new) == call' = [call EXCEPT ![c] = new]
CheckInOf(c) == IF c \in Flushes THEN log[call[c].n] ELSE call[c].n

(* The server has answered; replies on their way to callers that have gone *)
(* are counted.                                                            *)
Answered(c) == CallAt(c, "accepted") \/ CallAt(c, "refused")
Lost(callers) ==
  /\ trouble' = trouble + Cardinality({c \in callers : Answered(c)})
  /\ trouble' <= MaxTrouble

(* What check_in writes for check-in i.                                    *)
Marked(i) == [visited |-> IF made[i].action = "arrived" THEN i ELSE 0,
              skipped |-> made[i].action = "skipped"]

CheckInsInit ==
  /\ version = 1 /\ trouble = 0
  /\ status = [s \in Stops |-> Untouched]
  /\ answer = [i \in Taps |-> {}]
  /\ online = TRUE /\ open = FALSE /\ known = None /\ cached = 1
  /\ made = <<>> /\ log = <<>> /\ queued = {}
  /\ todo = [f \in Flushes |-> {}]
  /\ call = [c \in Callers |-> NoCall]

-----------------------------------------------------------------------------
(* The page and the connection.                                            *)
OpenPage ==
  /\ ~open /\ open' = TRUE
  /\ known' = None
  /\ UNCHANGED <<trouble, server, call, online, cached, made, log, queued, todo>>

(* From the server, or from the copy if that takes too long.               *)
LoadTrip ==
  /\ open
  /\ \/ known' = cached /\ UNCHANGED cached
     \/ online /\ known' = version /\ cached' = version
  /\ UNCHANGED <<trouble, server, call, online, open, made, log, queued, todo>>

(* Whatever runs in the page ends with it; the object store stays.         *)
ClosePage ==
  /\ open /\ open' = FALSE
  /\ Lost(Callers)
  /\ call' = [c \in Callers |-> NoCall]
  /\ todo' = [f \in Flushes |-> {}]
  /\ UNCHANGED <<server, online, known, cached, made, log, queued>>

Connection ==
  /\ online' = ~online
  /\ UNCHANGED <<trouble, server, call, open, known, cached, made, log, queued, todo>>

-----------------------------------------------------------------------------
(* The server.                                                             *)
Matches(c) == call[c].match \in {None, version}

Serve(c) ==
  /\ CallAt(c, "sent") /\ online
  /\ LET i == CheckInOf(c)
         s == made[i].stop
         ok == Matches(c) /\ s \in DOMAIN status
     IN  /\ answer' = [answer EXCEPT ![i] = @ \cup {IF ok THEN "accepted" ELSE "refused"}]
         /\ IF ok
            THEN /\ status' = [status EXCEPT ![s] = Marked(i)]
                 /\ version' = version + 1
                 /\ Becomes(c, [call[c] EXCEPT !.at = "accepted", !.match = version + 1])
            ELSE /\ Becomes(c, [call[c] EXCEPT !.at = "refused"])
                 /\ UNCHANGED <<status, version>>
  /\ UNCHANGED <<trouble, device>>

(* Another member edits the trip, and may delete a stop.                   *)
OtherEdit ==
  /\ trouble < MaxTrouble /\ trouble' = trouble + 1
  /\ version' = version + 1
  /\ \E gone \in {{}} \cup {{s} : s \in DOMAIN status} :
       status' = [s \in DOMAIN status \ gone |-> status[s]]
  /\ UNCHANGED <<answer, device, call>>

-----------------------------------------------------------------------------
(* A check-in by the user: checkIn of the page.                            *)
Tap ==
  /\ open /\ known # None /\ Len(made) < MaxTaps
  /\ \E s \in Stops, a \in Actions : made' = Append(made, [stop |-> s, action |-> a])
  /\ IF online
     THEN /\ Becomes(Len(made'), [at |-> "sent", n |-> Len(made'), match |-> known])
          /\ UNCHANGED <<log, queued>>
     ELSE /\ log' = Append(log, Len(made'))
          /\ queued' = queued \cup {Len(log')}
          /\ UNCHANGED call
  /\ UNCHANGED <<trouble, server, online, open, known, cached, todo>>

(* The answer: a refusal takes the mark back and tells the user.           *)
TapAnswered(i) ==
  /\ Answered(i)
  /\ known' = IF CallAt(i, "accepted") THEN call[i].match ELSE known
  /\ Becomes(i, NoCall)
  /\ UNCHANGED <<trouble, server, online, open, cached, made, log, queued, todo>>

(* Lie-fi: no answer, whether the server has seen the request or not.      *)
TapFails(i) ==
  /\ CallAt(i, "sent") \/ Answered(i)
  /\ Lost({i})
  /\ log' = Append(log, i)
  /\ queued' = queued \cup {Len(log')}
  /\ Becomes(i, NoCall)
  /\ UNCHANGED <<server, online, open, known, cached, made, todo>>

-----------------------------------------------------------------------------
(* A replay: flushCheckIns.                                                *)
StartFlush(f) ==
  /\ open /\ online /\ queued # {} /\ CallAt(f, "idle")
  /\ todo' = [todo EXCEPT ![f] = queued]
  /\ Becomes(f, Turn)
  /\ UNCHANGED <<trouble, server, online, open, known, cached, made, log, queued>>

SendNext(f) ==
  /\ CallAt(f, "next")
  /\ \E n \in todo[f] :
       /\ \A m \in todo[f] : n <= m
       /\ Becomes(f, [at |-> "sent", n |-> n, match |-> known])
  /\ UNCHANGED <<trouble, server, device>>

(* Must not be: a key removed without an answer, a failure skipped.        *)
FlushFailsForgetting(f) ==
  /\ CallAt(f, "sent") \/ Answered(f)
  /\ Lost({f})
  /\ queued' = queued \ {call[f].n}
  /\ todo' = [todo EXCEPT ![f] = {}]
  /\ Becomes(f, NoCall)
  /\ UNCHANGED <<server, online, open, known, cached, made, log>>
FlushFailsGoingOn(f) ==
  /\ CallAt(f, "sent") \/ Answered(f)
  /\ Lost({f})
  /\ todo' = [todo EXCEPT ![f] = @ \ {call[f].n}]
  /\ Becomes(f, IF todo'[f] = {} THEN NoCall ELSE Turn)
  /\ UNCHANGED <<server, online, open, known, cached, made, log, queued>>

(* No answer, or one that says to try later.                               *)
FlushFails(f) ==
  /\ CallAt(f, "sent") \/ Answered(f)
  /\ Lost({f})
  /\ todo' = [todo EXCEPT ![f] = {}]
  /\ Becomes(f, NoCall)
  /\ UNCHANGED <<server, online, open, known, cached, made, log, queued>>

(* The answer is noted and the key removed; a page closed in between, or a *)
(* replay that reads the key in between, does what it does just before.    *)
Finish(f, keys) ==
  /\ Answered(f)
  /\ known' = IF CallAt(f, "accepted") THEN call[f].match ELSE known
  /\ queued' = queued \ keys
  /\ todo' = [todo EXCEPT ![f] = @ \ {call[f].n}]
  /\ Becomes(f, IF todo'[f] = {} THEN NoCall ELSE Turn)
  /\ UNCHANGED <<trouble, server, online, open, cached, made, log>>

(* Must not be: a refused check-in that stays.                             *)
RemoveAccepted(f) == Finish(f, IF CallAt(f, "accepted") THEN {call[f].n} ELSE {})

Remove(f) == Finish(f, {call[f].n})

CheckInsNext ==
  \/ OpenPage \/ LoadTrip \/ ClosePage \/ Connection
  \/ Tap \/ OtherEdit
  \/ \E c \in Callers : Serve(c)
  \/ \E i \in Taps : TapAnswered(i) \/ TapFails(i)
  \/ \E f \in Flushes :
       \/ StartFlush(f) \/ SendNext(f)
       \/ FlushFails(f) \/ Remove(f)

CheckInsSpec == CheckInsInit /\ [][CheckInsNext]_checkInsVars

(* The connection returns, the page is opened while it is there, and now   *)
(* and then both last for a timer tick and a request.                      *)
CheckInsFairSpec ==
  /\ CheckInsSpec
  /\ WF_checkInsVars(~online /\ Connection)
  /\ SF_checkInsVars(online /\ OpenPage)
  /\ SF_checkInsVars(\E f \in Flushes : StartFlush(f))
  /\ SF_checkInsVars(\E f \in Flushes : online /\ SendNext(f))
  /\ SF_checkInsVars(\E f \in Flushes : Serve(f))
  /\ WF_checkInsVars(\E f \in Flushes : Remove(f))

-----------------------------------------------------------------------------
CheckInsTypeOK ==
  /\ version \in Nat /\ trouble \in 0 .. MaxTrouble
  /\ DOMAIN status \subseteq Stops
  /\ status \in [DOMAIN status -> [visited : 0 .. Len(made), skipped : BOOLEAN]]
  /\ answer \in [Taps -> SUBSET {"accepted", "refused"}]
  /\ online \in BOOLEAN /\ open \in BOOLEAN
  /\ known \in 1 .. version \cup {None} /\ cached \in 1 .. version
  /\ Len(made) <= MaxTaps /\ made \in Seq([stop : Stops, action : Actions])
  /\ log \in Seq(1 .. Len(made))
  /\ queued \subseteq DOMAIN log
  /\ todo \in [Flushes -> SUBSET DOMAIN log]
  /\ call \in [Callers -> Calls]

(* A check-in that waits leaves the queue only after the server has        *)
(* answered it, with any number of replays, failures and closed pages      *)
(* (offlineQueue.ts:69).                                                   *)
NothingVanishes == \A n \in DOMAIN log \ queued : answer[log[n]] # {}

(* No replay sends a check-in before the server has answered all that      *)
(* waited before it (offlineQueue.ts:49, "Replay in order").               *)
ReplayInOrder ==
  \A f \in Flushes : CallAt(f, "sent") => \A m \in 1 .. call[f].n - 1 : answer[log[m]] # {}

(* All that waits is dealt with in the end (page.tsx:126).                 *)
CheckInsDrain == queued # {} ~> queued = {}

(* offlineQueue.ts:63, "this item can never succeed": a check-in is        *)
(* dropped unapplied only when its stop is gone.  It does not hold: a 409  *)
(* drops what a new version would save.  No run checks it.                 *)
DroppedIsHopeless ==
  \A n \in DOMAIN log \ queued :
    "accepted" \in answer[log[n]] \/ made[log[n]].stop \notin DOMAIN status
=============================================================================
