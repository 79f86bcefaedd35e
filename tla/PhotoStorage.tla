--------------------------- MODULE PhotoStorage ---------------------------
(***************************************************************************)
(* The photos of a trip: rows in PostgreSQL, objects in a bucket (R2).     *)
(*                                                                         *)
(* The browser gets an upload approved, puts the object into the bucket    *)
(* and has the upload confirmed, which makes the row (api/photos.py).      *)
(* Deleting a photo or the trip deletes rows and queues the keys of their  *)
(* objects in the same transaction (core/objects.py); the cleanup job      *)
(* deletes the objects later, and may run in several processes, fail or    *)
(* die anywhere (core/cleanup.py).                                         *)
(***************************************************************************)
EXTENDS Naturals, Functions, FiniteSetsExt

CONSTANTS
  Keys,         \* object keys; every approved upload gets a new one
  Requests,     \* requests that may be in flight at once
  Cleaners,     \* processes that run the cleanup job
  PhotoLimit,   \* photos per trip
  MaxAttempts   \* failed tries before a key is dropped (MAX_DELETE_ATTEMPTS)

ASSUME PhotoAssumption ==
  IsFiniteSet(Keys) /\ PhotoLimit \in Nat /\ MaxAttempts \in Nat \ {0}

VARIABLES
  upload,   \* upload[k]: how far the browser has come with k
  object,   \* the keys of the objects in the bucket
  trip,     \* the trip exists
  photo,    \* the keys of its photo rows
  queue,    \* queue[k]: failed tries, for the keys in pending_object_deletes
  storage,  \* users.storage_bytes of the owner; a photo counts as one
  tx,       \* the request in each slot
  job       \* the cleanup job of each process

vars == <<upload, object, trip, photo, queue, storage, tx, job>>

Uploads == {"new", "approved", "put", "confirming", "saved", "given_up"}
Txs == [at : {"idle", "confirm", "found", "delete", "delete_trip"}, keys : SUBSET Keys]
Jobs == [at : {"idle", "taken", "deleted", "failed"}, keys : SUBSET Keys]
Idle == [at |-> "idle", keys |-> {}]

Queued == DOMAIN queue
At(r, stage) == tx[r].at = stage
TxBecomes(r, stage, keys) == tx' = [tx EXCEPT ![r] = [at |-> stage, keys |-> keys]]
JobBecomes(c, stage, keys) == job' = [job EXCEPT ![c] = [at |-> stage, keys |-> keys]]

(* Must not be: bytes given back without a floor.                          *)
LessUnfloored(n) == storage - n
Less(n) == IF n > storage THEN 0 ELSE storage - n

(* INSERT ... ON CONFLICT DO NOTHING.                                      *)
QueueUp(keys) == [k \in Queued \cup keys |-> IF k \in Queued THEN queue[k] ELSE 0]

Init ==
  /\ upload = [k \in Keys |-> "new"] /\ object = {}
  /\ trip = TRUE /\ photo = {} /\ storage = 0
  /\ queue = [k \in {} |-> 0]
  /\ tx = [r \in Requests |-> Idle]
  /\ job = [c \in Cleaners |-> Idle]

-----------------------------------------------------------------------------
(* The browser and the bucket.                                             *)
ApproveUpload(k) ==
  /\ trip /\ Cardinality(photo) < PhotoLimit
  /\ upload[k] = "new"
  /\ upload' = [upload EXCEPT ![k] = "approved"]
  /\ UNCHANGED <<object, trip, photo, queue, storage, tx, job>>

PutObject(k) ==
  /\ upload[k] = "approved"
  /\ upload' = [upload EXCEPT ![k] = "put"]
  /\ object' = object \cup {k}
  /\ UNCHANGED <<trip, photo, queue, storage, tx, job>>

-----------------------------------------------------------------------------
(* confirm_upload: the trip and the limits, then the object, then the row. *)
StartConfirm(r) ==
  /\ At(r, "idle") /\ trip /\ Cardinality(photo) < PhotoLimit
  /\ \E k \in Keys : /\ upload[k] = "put"
                     /\ upload' = [upload EXCEPT ![k] = "confirming"]
                     /\ TxBecomes(r, "confirm", {k})
  /\ UNCHANGED <<object, trip, photo, queue, storage, job>>

FindObject(r) ==
  /\ At(r, "confirm")
  /\ IF tx[r].keys \subseteq object THEN TxBecomes(r, "found", tx[r].keys)
                                    ELSE TxBecomes(r, "idle", {})
  /\ UNCHANGED <<upload, object, trip, photo, queue, storage, job>>

(* A trip that has gone meanwhile violates the foreign key.                *)
CommitConfirm(r) ==
  /\ At(r, "found")
  /\ IF trip
     THEN /\ photo' = photo \cup tx[r].keys
          /\ storage' = storage + 1
          /\ upload' = [k \in Keys |-> IF k \in tx[r].keys THEN "saved" ELSE upload[k]]
     ELSE UNCHANGED <<photo, storage, upload>>
  /\ TxBecomes(r, "idle", {})
  /\ UNCHANGED <<object, trip, queue, job>>

(* delete_photo: read the photo, then queue, count and delete at once.     *)
StartDelete(r) ==
  /\ At(r, "idle") /\ \E k \in photo : TxBecomes(r, "delete", {k})
  /\ UNCHANGED <<upload, object, trip, photo, queue, storage, job>>

(* Must not be: a row deleted before its key is queued, or after.          *)
CommitDeleteFirst(r) ==
  /\ At(r, "delete")
  /\ photo' = photo \ tx[r].keys
  /\ TxBecomes(r, "idle", {})
  /\ UNCHANGED <<upload, object, trip, queue, storage, job>>
CommitDeleteLater(r) ==
  /\ At(r, "delete")
  /\ queue' = QueueUp(tx[r].keys)
  /\ TxBecomes(r, "idle", {})
  /\ UNCHANGED <<upload, object, trip, photo, storage, job>>

CommitDelete(r) ==
  /\ At(r, "delete")
  /\ queue' = QueueUp(tx[r].keys)
  /\ storage' = Less(1)
  /\ photo' = photo \ tx[r].keys
  /\ TxBecomes(r, "idle", {})
  /\ UNCHANGED <<upload, object, trip, job>>

(* delete_trip lists the photos; the rows there are go with the trip.      *)
StartDeleteTrip(r) ==
  /\ At(r, "idle") /\ trip
  /\ TxBecomes(r, "delete_trip", photo)
  /\ UNCHANGED <<upload, object, trip, photo, queue, storage, job>>

CommitDeleteTrip(r) ==
  /\ At(r, "delete_trip")
  /\ queue' = QueueUp(tx[r].keys)
  /\ storage' = Less(Cardinality(tx[r].keys))
  /\ photo' = {} /\ trip' = FALSE
  /\ TxBecomes(r, "idle", {})
  /\ UNCHANGED <<upload, object, job>>

FailRequest(r) ==
  /\ ~At(r, "idle")
  /\ TxBecomes(r, "idle", {})
  /\ UNCHANGED <<upload, object, trip, photo, queue, storage, job>>

-----------------------------------------------------------------------------
(* process_pending_object_deletes, in one process.                         *)
TakeQueue(c) ==
  /\ job[c].at = "idle" /\ Queued # {}
  /\ JobBecomes(c, "taken", Queued)
  /\ UNCHANGED <<upload, object, trip, photo, queue, storage, tx>>

DeleteObjects(c) ==
  /\ job[c].at = "taken"
  /\ object' = object \ job[c].keys
  /\ JobBecomes(c, "deleted", job[c].keys)
  /\ UNCHANGED <<upload, trip, photo, queue, storage, tx>>

(* R2 is down, or reports errors for some of the keys.                     *)
DeleteFails(c) ==
  /\ job[c].at = "taken"
  /\ \E gone \in SUBSET job[c].keys : object' = object \ gone
  /\ JobBecomes(c, "failed", job[c].keys)
  /\ UNCHANGED <<upload, trip, photo, queue, storage, tx>>

Unqueue(keys) == queue' = Restrict(queue, Queued \ keys)

ForgetKeys(c) ==
  /\ job[c].at = "deleted"
  /\ Unqueue(job[c].keys)
  /\ JobBecomes(c, "idle", {})
  /\ UNCHANGED <<upload, object, trip, photo, storage, tx>>

(* Must not be: a failure that forgets the keys, or does not count.        *)
CountFailureForgetting(c) ==
  /\ job[c].at = "failed"
  /\ Unqueue(job[c].keys)
  /\ JobBecomes(c, "idle", {})
  /\ UNCHANGED <<upload, object, trip, photo, storage, tx>>
CountFailureNot(c) ==
  /\ job[c].at = "failed"
  /\ JobBecomes(c, "idle", {})
  /\ UNCHANGED <<upload, object, trip, photo, queue, storage, tx>>

(* One more try for these keys; what has been tried often is dropped.      *)
CountFailure(c) ==
  /\ job[c].at = "failed"
  /\ LET tried == [k \in Queued |-> IF k \in job[c].keys THEN queue[k] + 1 ELSE queue[k]]
         given_up == {k \in Queued : tried[k] >= MaxAttempts}
     IN  /\ queue' = Restrict(tried, Queued \ given_up)
         /\ upload' = [k \in Keys |-> IF k \in given_up THEN "given_up" ELSE upload[k]]
  /\ JobBecomes(c, "idle", {})
  /\ UNCHANGED <<object, trip, photo, storage, tx>>

(* A restart; whatever is not committed is lost.                           *)
Die(c) ==
  /\ job[c].at # "idle"
  /\ JobBecomes(c, "idle", {})
  /\ UNCHANGED <<upload, object, trip, photo, queue, storage, tx>>

Next ==
  \/ \E k \in Keys : ApproveUpload(k) \/ PutObject(k)
  \/ \E r \in Requests :
       \/ StartConfirm(r) \/ FindObject(r) \/ CommitConfirm(r)
       \/ StartDelete(r) \/ CommitDelete(r)
       \/ StartDeleteTrip(r) \/ CommitDeleteTrip(r)
       \/ FailRequest(r)
  \/ \E c \in Cleaners :
       \/ TakeQueue(c) \/ DeleteObjects(c) \/ DeleteFails(c)
       \/ ForgetKeys(c) \/ CountFailure(c) \/ Die(c)

Spec == Init /\ [][Next]_vars

(* The job runs every day and at every start, and does not die every time. *)
FairSpec ==
  /\ Spec
  /\ \A c \in Cleaners :
       /\ WF_vars(TakeQueue(c))
       /\ SF_vars(DeleteObjects(c) \/ DeleteFails(c))
       /\ SF_vars(ForgetKeys(c) \/ CountFailure(c))

-----------------------------------------------------------------------------
TypeOK ==
  /\ upload \in [Keys -> Uploads]
  /\ object \subseteq Keys /\ photo \subseteq Keys
  /\ trip \in BOOLEAN
  /\ storage \in Nat
  /\ Queued \subseteq Keys /\ queue \in [Queued -> 0 .. MaxAttempts - 1]
  /\ tx \in [Requests -> Txs] /\ job \in [Cleaners -> Jobs]

(* The job never deletes the object of a photo a trip still shows, however *)
(* stale the keys are it has taken (cleanup.py:42).                        *)
PhotosHaveObjects == photo \subseteq object

(* While its trip exists no photo leaves an object behind that nothing     *)
(* will delete, unless R2 refused too often (core/objects.py:1).           *)
KnownToSomebody(k) == k \in object /\ upload[k] = "saved" => k \in photo \cup Queued
NoObjectForgotten == trip => \A k \in Keys : KnownToSomebody(k)

(* A key leaves the queue only when its object has gone or R2 has failed   *)
(* MaxAttempts times for it, with however many jobs at work (cleanup.py:31).*)
QueueKeepsKeys ==
  [][\A k \in Queued \ DOMAIN queue' : k \notin object \/ queue[k] + 1 >= MaxAttempts]_vars

(* Every queued deletion ends, even if R2 never answers.                   *)
QueueDrains == \A k \in Keys : k \in Queued ~> k \notin Queued

(* core/objects.py:24: deleting a trip queues every photo object of it.    *)
TripLeavesNothing == \A k \in Keys : KnownToSomebody(k)
=============================================================================
