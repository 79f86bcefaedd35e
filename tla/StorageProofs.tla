---------------------------- MODULE StorageProofs ----------------------------
(***************************************************************************)
(* Theorems about what waits to be stored or removed and must not be lost: *)
(* about PhotoStorage, for any set of keys, any number of requests and of  *)
(* processes that run the cleanup job, and about OfflineCheckIns, for any  *)
(* number of check-ins, replays that run at once, edits by others and lost *)
(* replies.                                                                *)
(***************************************************************************)
EXTENDS PhotoStorage, OfflineCheckIns, FiniteSetTheorems, SequenceTheorems, TLAPS

(* Keys whose photo has been made; what becomes of their objects is up to  *)
(* the photo, the queue and the jobs.                                      *)
Made(k) == upload[k] \in {"saved", "given_up"}
Confirms(r) == At(r, "confirm") \/ At(r, "found")
Deletes(r) == At(r, "delete") \/ At(r, "delete_trip")

(* A key that is confirmed has no photo yet, and only one request has it.  *)
ConfirmInv ==
  /\ \A r \in Requests : Confirms(r) => \A k \in tx[r].keys : upload[k] = "confirming"
  /\ \A r \in Requests : At(r, "found") => tx[r].keys \subseteq object
  /\ \A q, r \in Requests :
       q # r /\ Confirms(q) /\ Confirms(r) => tx[q].keys \cap tx[r].keys = {}

(* Only keys whose photo is gone are queued or in the hands of a job.      *)
GoneInv ==
  /\ \A k \in photo : upload[k] = "saved"
  /\ \A r \in Requests : Deletes(r) => \A k \in tx[r].keys : Made(k)
  /\ \A k \in Queued : Made(k) /\ k \notin photo
  /\ \A c \in Cleaners : \A k \in job[c].keys : Made(k) /\ k \notin photo

(* A job that has deleted its objects has left none of them.               *)
DeletedInv == \A c \in Cleaners : job[c].at = "deleted" => job[c].keys \cap object = {}

StorageInv ==
  TypeOK /\ ConfirmInv /\ GoneInv /\ DeletedInv /\ PhotosHaveObjects /\ NoObjectForgotten

-----------------------------------------------------------------------------
(* A set of keys has a size.                                               *)
LEMMA KeysCounted == ASSUME NEW S \in SUBSET Keys PROVE Cardinality(S) \in Nat
BY PhotoAssumption, FS_Subset, FS_CardinalityType

(* Bytes are never given back below zero.                                  *)
LEMMA LessTyped == ASSUME NEW n \in Nat, storage \in Nat PROVE Less(n) \in Nat
BY DEF Less

(* The queue after keys have been queued: those there keep their count.    *)
LEMMA QueueUpTyped ==
  ASSUME TypeOK, NEW S \in SUBSET Keys
  PROVE  /\ DOMAIN QueueUp(S) = Queued \cup S
         /\ QueueUp(S) \in [Queued \cup S -> 0 .. MaxAttempts - 1]
BY PhotoAssumption DEF TypeOK, Queued, QueueUp

(* What a failure that is counted does to the queue and the keys: it drops *)
(* only keys of the job, at their last try.                                *)
LEMMA FailureCounted ==
  ASSUME TypeOK, NEW c \in Cleaners, CountFailure(c)
  PROVE  LET dropped == Queued \ DOMAIN queue'
         IN  /\ DOMAIN queue' \subseteq Queued
             /\ queue' \in [DOMAIN queue' -> 0 .. MaxAttempts - 1]
             /\ \A k \in dropped : k \in job[c].keys /\ queue[k] + 1 >= MaxAttempts
             /\ upload' = [k \in Keys |-> IF k \in dropped THEN "given_up" ELSE upload[k]]
<1> DEFINE tried == [k \in Queued |-> IF k \in job[c].keys THEN queue[k] + 1 ELSE queue[k]]
           given_up == {k \in Queued : tried[k] >= MaxAttempts}
<1>1. /\ queue' = Restrict(tried, Queued \ given_up)
      /\ upload' = [k \in Keys |-> IF k \in given_up THEN "given_up" ELSE upload[k]]
  BY DEF CountFailure
<1>2. /\ MaxAttempts \in Nat
      /\ \A k \in Queued : queue[k] \in Nat /\ queue[k] < MaxAttempts /\ tried[k] \in Nat
  BY PhotoAssumption DEF TypeOK, Queued
<1>3. \A k \in given_up : k \in job[c].keys /\ queue[k] + 1 >= MaxAttempts
  BY <1>2
<1>4. DOMAIN queue' = Queued \ given_up /\ \A k \in Queued \ given_up : queue'[k] = tried[k]
  BY <1>1 DEF Restrict
<1>5. queue' = [k \in Queued \ given_up |-> tried[k]]
  BY <1>1 DEF Restrict
<1>6. \A k \in Queued \ given_up : tried[k] \in 0 .. MaxAttempts - 1
  BY <1>2
<1>7. queue' \in [Queued \ given_up -> 0 .. MaxAttempts - 1]
  <2> HIDE DEF tried, given_up
  <2> QED  BY <1>5, <1>6
<1>8. Queued \ DOMAIN queue' = given_up
  BY <1>4
<1> QED
  BY <1>1, <1>3, <1>4, <1>7, <1>8

(* The invariant holds at first ...                                        *)
LEMMA InitOK == Init => StorageInv
BY PhotoAssumption
   DEF Init, StorageInv, TypeOK, ConfirmInv, GoneInv, DeletedInv, PhotosHaveObjects,
       NoObjectForgotten, KnownToSomebody, Queued, Idle, Txs, Jobs, Uploads, Confirms, Deletes, At

(* ... and every step keeps it.                                            *)
LEMMA StepOK == StorageInv /\ [Next]_vars => StorageInv'
<1> SUFFICES ASSUME StorageInv, [Next]_vars PROVE StorageInv'
  OBVIOUS
<1> USE PhotoAssumption
        DEF StorageInv, TypeOK, ConfirmInv, GoneInv, DeletedInv, PhotosHaveObjects,
            NoObjectForgotten, KnownToSomebody, Made, Confirms, Deletes, At
<1>1. ASSUME NEW k \in Keys, ApproveUpload(k) PROVE StorageInv'
  BY <1>1 DEF ApproveUpload, TxBecomes, JobBecomes, Txs, Jobs, Uploads, Queued
<1>2. ASSUME NEW k \in Keys, PutObject(k) PROVE StorageInv'
  BY <1>2 DEF PutObject, TxBecomes, JobBecomes, Txs, Jobs, Uploads, Queued
<1>3. ASSUME NEW r \in Requests, StartConfirm(r) PROVE StorageInv'
  BY <1>3 DEF StartConfirm, TxBecomes, JobBecomes, Txs, Jobs, Uploads, Queued
<1>4. ASSUME NEW r \in Requests, FindObject(r) PROVE StorageInv'
  BY <1>4 DEF FindObject, TxBecomes, JobBecomes, Txs, Jobs, Uploads, Queued
<1>5. ASSUME NEW r \in Requests, CommitConfirm(r) PROVE StorageInv'
  BY <1>5 DEF CommitConfirm, TxBecomes, JobBecomes, Txs, Jobs, Uploads, Queued
<1>6. ASSUME NEW r \in Requests, StartDelete(r) PROVE StorageInv'
  BY <1>6 DEF StartDelete, TxBecomes, JobBecomes, Txs, Jobs, Uploads, Queued
<1>7. ASSUME NEW r \in Requests, CommitDelete(r) PROVE StorageInv'
  <2>1. tx[r].keys \in SUBSET Keys
    BY DEF Txs
  <2>2. DOMAIN queue' = Queued \cup tx[r].keys /\ queue' \in [DOMAIN queue' -> 0 .. MaxAttempts - 1]
    BY <1>7, <2>1, QueueUpTyped DEF CommitDelete
  <2>3. storage' \in Nat
    BY <1>7, LessTyped DEF CommitDelete
  <2> QED
    BY <1>7, <2>1, <2>2, <2>3 DEF CommitDelete, TxBecomes, JobBecomes, Txs, Jobs, Uploads, Queued
<1>8. ASSUME NEW r \in Requests, StartDeleteTrip(r) PROVE StorageInv'
  BY <1>8 DEF StartDeleteTrip, TxBecomes, JobBecomes, Txs, Jobs, Uploads, Queued
<1>9. ASSUME NEW r \in Requests, CommitDeleteTrip(r) PROVE StorageInv'
  <2>1. tx[r].keys \in SUBSET Keys
    BY DEF Txs
  <2>2. DOMAIN queue' = Queued \cup tx[r].keys /\ queue' \in [DOMAIN queue' -> 0 .. MaxAttempts - 1]
    BY <1>9, <2>1, QueueUpTyped DEF CommitDeleteTrip
  <2>3. storage' \in Nat
    BY <1>9, <2>1, KeysCounted, LessTyped DEF CommitDeleteTrip
  <2> QED
    BY <1>9, <2>1, <2>2, <2>3
       DEF CommitDeleteTrip, TxBecomes, JobBecomes, Txs, Jobs, Uploads, Queued
<1>10. ASSUME NEW r \in Requests, FailRequest(r) PROVE StorageInv'
  BY <1>10 DEF FailRequest, TxBecomes, JobBecomes, Txs, Jobs, Uploads, Queued
<1>11. ASSUME NEW c \in Cleaners, TakeQueue(c) PROVE StorageInv'
  BY <1>11 DEF TakeQueue, TxBecomes, JobBecomes, Txs, Jobs, Uploads, Queued
<1>12. ASSUME NEW c \in Cleaners, DeleteObjects(c) PROVE StorageInv'
  BY <1>12 DEF DeleteObjects, TxBecomes, JobBecomes, Txs, Jobs, Uploads, Queued
<1>13. ASSUME NEW c \in Cleaners, DeleteFails(c) PROVE StorageInv'
  BY <1>13 DEF DeleteFails, TxBecomes, JobBecomes, Txs, Jobs, Uploads, Queued
<1>14. ASSUME NEW c \in Cleaners, ForgetKeys(c) PROVE StorageInv'
  <2>1. queue' = Restrict(queue, Queued \ job[c].keys)
    BY <1>14 DEF ForgetKeys, Unqueue
  <2>2. queue \in [Queued -> 0 .. MaxAttempts - 1] /\ Queued \ job[c].keys \in SUBSET Queued
    OBVIOUS
  <2>3. DOMAIN queue' = Queued \ job[c].keys /\ queue' \in [DOMAIN queue' -> 0 .. MaxAttempts - 1]
    BY <2>1, <2>2 DEF Restrict
  <2> QED
    BY <1>14, <2>1, <2>2, <2>3 DEF ForgetKeys, TxBecomes, JobBecomes, Txs, Jobs, Uploads, Queued
<1>15. ASSUME NEW c \in Cleaners, CountFailure(c) PROVE StorageInv'
  <2> DEFINE dropped == Queued \ DOMAIN queue'
  <2>a. /\ DOMAIN queue' \subseteq Queued
        /\ queue' \in [DOMAIN queue' -> 0 .. MaxAttempts - 1]
        /\ upload' = [k \in Keys |-> IF k \in dropped THEN "given_up" ELSE upload[k]]
    BY <1>15, FailureCounted
  <2>b. /\ \A k \in dropped : upload[k] \in {"saved", "given_up"} /\ k \notin photo
        /\ \A k \in Keys : upload'[k] = IF k \in dropped THEN "given_up" ELSE upload[k]
    BY <2>a
  <2>c. \A r \in Requests : tx[r].keys \subseteq Keys
    BY DEF Txs
  <2>d. UNCHANGED <<tx, object, photo>>
    BY <1>15 DEF CountFailure
  <2>1. TypeOK'
    BY <1>15, <2>a DEF CountFailure, JobBecomes, Jobs, Uploads, Queued
  <2>2. ConfirmInv'
    BY <2>b, <2>c, <2>d
  <2>3. GoneInv'
    <3>1. \A k \in photo' : upload'[k] = "saved"
      BY <2>b, <2>d
    <3>2. \A k \in Keys : Made(k) => Made(k)'
      BY <2>b
    <3>3. \A d \in Cleaners : job'[d].keys \subseteq job[d].keys /\ job[d].keys \subseteq Keys
      BY <1>15 DEF CountFailure, JobBecomes, Jobs
    <3> QED  BY <2>a, <2>c, <2>d, <3>1, <3>2, <3>3 DEF Queued
  <2>4. DeletedInv'
    BY <1>15 DEF CountFailure, JobBecomes, Jobs
  <2>5. PhotosHaveObjects'
    BY <1>15 DEF CountFailure
  <2>6. NoObjectForgotten'
    BY <1>15, <2>a DEF CountFailure, Queued
  <2> QED  BY <2>1, <2>2, <2>3, <2>4, <2>5, <2>6
<1>16. ASSUME NEW c \in Cleaners, Die(c) PROVE StorageInv'
  BY <1>16 DEF Die, TxBecomes, JobBecomes, Txs, Jobs, Uploads, Queued
<1>17. CASE UNCHANGED vars
  BY <1>17 DEF vars, Queued
<1> QED
  BY <1>1, <1>2, <1>3, <1>4, <1>5, <1>6, <1>7, <1>8, <1>9, <1>10, <1>11, <1>12, <1>13, <1>14,
     <1>15, <1>16, <1>17 DEF Next

(* Every reachable state satisfies the invariant.                          *)
THEOREM StorageInvariant == Spec => []StorageInv
BY InitOK, StepOK, PTL DEF Spec

(* Every reachable state is well typed; in particular the bytes an owner   *)
(* uses are never negative and no key stays queued past its last try.      *)
THEOREM StorageTyped == Spec => []TypeOK
<1>1. StorageInv => TypeOK
  BY DEF StorageInv
<1> QED  BY <1>1, StorageInvariant, PTL

(* The cleanup job, in any number of processes, never deletes the object   *)
(* of a photo that is shown.                                               *)
THEOREM PhotosSafe == Spec => []PhotosHaveObjects
<1>1. StorageInv => PhotosHaveObjects
  BY DEF StorageInv
<1> QED  BY <1>1, StorageInvariant, PTL

(* No photo of a trip that exists leaves an object behind that nothing     *)
(* will delete.                                                            *)
THEOREM NothingForgotten == Spec => []NoObjectForgotten
<1>1. StorageInv => NoObjectForgotten
  BY DEF StorageInv
<1> QED  BY <1>1, StorageInvariant, PTL

(* A key leaves the queue only without its object or after its last try.   *)
THEOREM QueueSafe == Spec => QueueKeepsKeys
<1> DEFINE Kept == \A k \in Queued \ DOMAIN queue' : k \notin object \/ queue[k] + 1 >= MaxAttempts
<1>1. StorageInv /\ [Next]_vars => [Kept]_vars
  <2> SUFFICES ASSUME StorageInv, Next PROVE Kept
    OBVIOUS
  <2>1. TypeOK /\ DeletedInv
    BY DEF StorageInv
  <2>2. CASE \E k \in Keys : ApproveUpload(k) \/ PutObject(k)
    BY <2>2 DEF ApproveUpload, PutObject, Queued
  <2>3. ASSUME NEW r \in Requests, CommitDelete(r) \/ CommitDeleteTrip(r) PROVE Kept
    <3>1. tx[r].keys \in SUBSET Keys
      BY <2>1 DEF TypeOK, Txs
    <3> QED  BY <2>1, <2>3, <3>1, QueueUpTyped DEF CommitDelete, CommitDeleteTrip
  <2>4. ASSUME NEW r \in Requests,
               \/ StartConfirm(r) \/ FindObject(r) \/ CommitConfirm(r)
               \/ StartDelete(r) \/ StartDeleteTrip(r) \/ FailRequest(r)
        PROVE  Kept
    BY <2>4 DEF StartConfirm, FindObject, CommitConfirm, StartDelete, StartDeleteTrip,
                FailRequest, Queued
  <2>5. ASSUME NEW c \in Cleaners, ForgetKeys(c) PROVE Kept
    BY <2>1, <2>5 DEF ForgetKeys, Unqueue, Restrict, DeletedInv, Queued
  <2>6. ASSUME NEW c \in Cleaners, CountFailure(c) PROVE Kept
    BY <2>1, <2>6, FailureCounted
  <2>7. ASSUME NEW c \in Cleaners, TakeQueue(c) \/ DeleteObjects(c) \/ DeleteFails(c) \/ Die(c)
        PROVE  Kept
    BY <2>7 DEF TakeQueue, DeleteObjects, DeleteFails, Die, Queued
  <2> QED  BY <2>2, <2>3, <2>4, <2>5, <2>6, <2>7 DEF Next
<1> QED  BY <1>1, StorageInvariant, PTL DEF Spec, QueueKeepsKeys

-----------------------------------------------------------------------------
(* The check-ins made offline.                                             *)
Asks(c) == CallAt(c, "sent") \/ Answered(c)

(* A replay asks about the first key it has not dealt with, the page about *)
(* the check-in the user has just made.                                    *)
CallInv ==
  /\ \A f \in Flushes : Asks(f) => call[f].n \in todo[f] /\ \A m \in todo[f] : call[f].n <= m
  /\ \A i \in Taps : Asks(i) => call[i].n = i /\ i <= Len(made)

(* Who has an answer got it from the server, with a version it has had.    *)
AnswerInv ==
  \A c \in Callers : /\ Answered(c) => answer[CheckInOf(c)] # {}
                     /\ CallAt(c, "accepted") => call[c].match \in 1 .. version

(* What a replay leaves out is answered, or waits behind all it has read.  *)
TodoInv ==
  \A f \in Flushes : \A m \in DOMAIN log : \A n \in todo[f] :
    m < n /\ m \notin todo[f] => answer[log[m]] # {}

CheckInInv == CheckInsTypeOK /\ CallInv /\ AnswerInv /\ TodoInv /\ NothingVanishes

-----------------------------------------------------------------------------
LEMMA ConstantFacts ==
  /\ MaxTaps \in Nat /\ MaxTrouble \in Nat /\ None \notin Nat
  /\ \A f \in Flushes : f \notin Taps
  /\ NoCall \in Calls /\ NoCall.at = "idle" /\ Turn \in Calls /\ Turn.at = "next"
BY CheckInAssumption DEF Taps, NoCall, Turn, Calls

(* Lost replies are counted within the bound.                              *)
LEMMA LostTyped ==
  ASSUME CheckInsTypeOK, NEW S \in SUBSET Callers, Lost(S)
  PROVE  trouble' \in 0 .. MaxTrouble
<1>1. IsFiniteSet(Callers)
  <2>1. 1 \in Int /\ MaxTaps \in Int /\ IsFiniteSet(Flushes)
    BY CheckInAssumption
  <2>2. IsFiniteSet(Taps)
    BY <2>1, FS_Interval DEF Taps
  <2> QED  BY <2>1, <2>2, FS_Union DEF Callers
<1>2. {c \in S : Answered(c)} \in SUBSET Callers
  OBVIOUS
<1>3. Cardinality({c \in S : Answered(c)}) \in Nat
  BY <1>1, <1>2, FS_Subset, FS_CardinalityType
<1> QED  BY <1>3, CheckInAssumption DEF Lost, CheckInsTypeOK

(* The call of one caller is replaced by a well-typed one.                 *)
LEMMA CallAfter ==
  ASSUME CheckInsTypeOK, NEW c \in Callers, NEW new \in Calls, Becomes(c, new)
  PROVE  /\ call' \in [Callers -> Calls]
         /\ call'[c] = new
         /\ \A d \in Callers \ {c} : call'[d] = call[d]
BY DEF CheckInsTypeOK, Becomes

(* Appending a check-in to the object store leaves what is in it.          *)
LEMMA Appended ==
  ASSUME CheckInsTypeOK, NEW N \in Nat, Len(made) <= N, NEW i \in 1 .. N, log' = Append(log, i)
  PROVE  /\ log' \in Seq(1 .. N)
         /\ DOMAIN log = 1 .. Len(log) /\ Len(log) \in Nat
         /\ Len(log') = Len(log) + 1 /\ DOMAIN log' = DOMAIN log \cup {Len(log')}
         /\ Len(log') \notin DOMAIN log
         /\ \A n \in DOMAIN log : log'[n] = log[n] /\ n < Len(log')
<1>1. log \in Seq(1 .. Len(made)) /\ Len(made) \in Nat
  BY DEF CheckInsTypeOK
<1>2. log \in Seq(1 .. N)
  BY <1>1, SeqMonotonic
<1>3. DOMAIN log = 1 .. Len(log) /\ Len(log) \in Nat
  BY <1>2, LenProperties
<1> QED  BY <1>2, <1>3

(* What a caller asks about is a check-in that was made.                   *)
LEMMA AsksOfMade ==
  ASSUME CheckInsTypeOK, CallInv, NEW c \in Callers, Asks(c)
  PROVE  /\ CheckInOf(c) \in 1 .. Len(made) /\ CheckInOf(c) \in Taps
         /\ c \in Flushes => call[c].n \in DOMAIN log
<1>1. Len(made) \in Nat /\ Len(made) <= MaxTaps /\ log \in Seq(1 .. Len(made))
  BY DEF CheckInsTypeOK
<1>2. CASE c \in Flushes
  <2>1. call[c].n \in DOMAIN log
    BY <1>2 DEF CallInv, CheckInsTypeOK
  <2> QED  BY <1>1, <1>2, <2>1, ConstantFacts DEF CheckInOf, Taps
<1>3. CASE c \in Taps
  BY <1>1, <1>3, ConstantFacts DEF CheckInOf, CallInv, Taps
<1> QED  BY <1>2, <1>3 DEF Callers

-----------------------------------------------------------------------------
LEMMA CheckInsStart ==
  CheckInsInit => CheckInInv
<1> SUFFICES ASSUME CheckInsInit PROVE CheckInInv
  OBVIOUS
<1>1. CheckInsTypeOK
  <2>1. Untouched \in [visited : 0 .. Len(made), skipped : BOOLEAN]
    BY DEF CheckInsInit, Untouched
  <2>2. status \in [DOMAIN status -> [visited : 0 .. Len(made), skipped : BOOLEAN]]
        /\ DOMAIN status \subseteq Stops
    <3> HIDE DEF Untouched
    <3> QED  BY <2>1 DEF CheckInsInit
  <2>3. /\ Len(made) <= MaxTaps /\ made \in Seq([stop : Stops, action : Actions])
        /\ log \in Seq(1 .. Len(made)) /\ DOMAIN log = {}
    BY ConstantFacts DEF CheckInsInit
  <2>4. /\ answer \in [Taps -> SUBSET {"accepted", "refused"}]
        /\ todo \in [Flushes -> SUBSET DOMAIN log] /\ call \in [Callers -> Calls]
    <3> HIDE DEF NoCall
    <3> QED  BY ConstantFacts DEF CheckInsInit
  <2>5. /\ version \in Nat /\ trouble \in 0 .. MaxTrouble /\ queued \subseteq DOMAIN log
        /\ known \in 1 .. version \cup {None} /\ cached \in 1 .. version
    BY ConstantFacts DEF CheckInsInit
  <2>6. online \in BOOLEAN /\ open \in BOOLEAN
    BY DEF CheckInsInit
  <2> QED  BY <2>2, <2>3, <2>4, <2>5, <2>6 DEF CheckInsTypeOK
<1>2. CallInv /\ AnswerInv /\ TodoInv /\ NothingVanishes
  BY ConstantFacts
     DEF CheckInsInit, CallInv, AnswerInv, TodoInv, NothingVanishes, Asks, Answered, CallAt, Callers
<1> QED  BY <1>1, <1>2 DEF CheckInInv

(* Steps of the page and the connection that touch no check-in.            *)
LEMMA PageSteps ==
  ASSUME CheckInInv, OpenPage \/ LoadTrip \/ Connection
  PROVE  CheckInInv'
<1>1. CheckInsTypeOK'
  <2>1. online' \in BOOLEAN /\ open' \in BOOLEAN
    BY DEF OpenPage, LoadTrip, Connection, CheckInInv, CheckInsTypeOK
  <2>2. version' = version /\ known' \in 1 .. version' \cup {None} /\ cached' \in 1 .. version'
    BY DEF OpenPage, LoadTrip, Connection, CheckInInv, CheckInsTypeOK, server
  <2>3. UNCHANGED <<trouble, status, answer, made, log, queued, todo, call>>
    BY DEF OpenPage, LoadTrip, Connection, server
  <2> QED  BY <2>1, <2>2, <2>3 DEF CheckInInv, CheckInsTypeOK
<1>2. UNCHANGED <<version, answer, made, log, queued, todo, call>>
  BY DEF OpenPage, LoadTrip, Connection, server
<1> QED
  BY <1>1, <1>2
     DEF CheckInInv, CallInv, AnswerInv, TodoInv, NothingVanishes, Asks, Answered, CallAt, CheckInOf

LEMMA ClosePageStep ==
  ASSUME CheckInInv, ClosePage
  PROVE  CheckInInv'
<1>1. trouble' \in 0 .. MaxTrouble
  BY LostTyped DEF ClosePage, CheckInInv
<1>2. CheckInsTypeOK'
  BY <1>1, ConstantFacts DEF ClosePage, CheckInInv, CheckInsTypeOK, server
<1> QED
  BY <1>2, ConstantFacts
     DEF ClosePage, CheckInInv, CallInv, AnswerInv, TodoInv, NothingVanishes, server,
         Asks, Answered, CallAt, Callers

(* The server forgets no answer, and versions only grow.                   *)
LEMMA ServerSteps ==
  ASSUME CheckInInv, OtherEdit \/ \E c \in Callers : Serve(c)
  PROVE  CheckInInv'
<1>1. CASE OtherEdit
  <2>1. CheckInsTypeOK'
    <3>1. PICK gone \in {{}} \cup {{s} : s \in DOMAIN status} :
            status' = [s \in DOMAIN status \ gone |-> status[s]]
      BY <1>1 DEF OtherEdit
    <3>2. DOMAIN status' \subseteq Stops
          /\ status' \in [DOMAIN status' -> [visited : 0 .. Len(made), skipped : BOOLEAN]]
      BY <3>1 DEF CheckInInv, CheckInsTypeOK
    <3> QED  BY <1>1, <3>2, ConstantFacts DEF OtherEdit, CheckInInv, CheckInsTypeOK, device
  <2>2. version \in Nat
    BY DEF CheckInInv, CheckInsTypeOK
  <2> QED
    BY <1>1, <2>1, <2>2
       DEF OtherEdit, device, CheckInInv, CallInv, AnswerInv, TodoInv, NothingVanishes,
           Asks, Answered, CallAt, CheckInOf
<1>2. ASSUME NEW c \in Callers, Serve(c) PROVE CheckInInv'
  <2> DEFINE i == CheckInOf(c)
             ok == Matches(c) /\ made[i].stop \in DOMAIN status
  <2>1. /\ i \in 1 .. Len(made) /\ i \in Taps
        /\ version \in Nat /\ Len(made) \in Nat /\ call \in [Callers -> Calls]
        /\ answer \in [Taps -> SUBSET {"accepted", "refused"}]
    <3>1. Asks(c)
      BY <1>2 DEF Serve, Asks
    <3>2. i \in 1 .. Len(made) /\ i \in Taps
      BY <3>1, AsksOfMade DEF CheckInInv
    <3> HIDE DEF i
    <3> QED  BY <3>2 DEF CheckInInv, CheckInsTypeOK
  <2>2. /\ answer' = [answer EXCEPT ![i] = @ \cup {IF ok THEN "accepted" ELSE "refused"}]
        /\ IF ok
           THEN /\ status' = [status EXCEPT ![made[i].stop] = Marked(i)]
                /\ version' = version + 1
                /\ Becomes(c, [call[c] EXCEPT !.at = "accepted", !.match = version + 1])
           ELSE /\ Becomes(c, [call[c] EXCEPT !.at = "refused"])
                /\ UNCHANGED <<status, version>>
        /\ UNCHANGED <<online, open, known, cached, made, log, queued, todo, trouble>>
        /\ CallAt(c, "sent")
    BY <1>2 DEF Serve, device
  <2>3. /\ answer' \in [Taps -> SUBSET {"accepted", "refused"}]
        /\ answer'[i] # {} /\ \A j \in Taps : answer[j] \subseteq answer'[j]
        /\ version' \in Nat /\ version <= version'
    <3> HIDE DEF i, ok
    <3> QED  BY <2>1, <2>2
  <2>4. /\ call' \in [Callers -> Calls]
        /\ call'[c].at \in {"accepted", "refused"} /\ call'[c].n = call[c].n
        /\ call'[c].at = "accepted" => call'[c].match \in 1 .. version'
        /\ \A d \in Callers \ {c} : call'[d] = call[d]
    <3>1. /\ [call[c] EXCEPT !.at = "accepted", !.match = version + 1] \in Calls
          /\ [call[c] EXCEPT !.at = "refused"] \in Calls
      <4>1. call[c] \in Calls /\ version + 1 \in Nat
        BY <2>1
      <4> QED  BY <4>1 DEF Calls
    <3>2. CASE ok
      <4>1. Becomes(c, [call[c] EXCEPT !.at = "accepted", !.match = version + 1])
            /\ version' = version + 1
        BY <2>2, <3>2
      <4> QED  BY <2>1, <3>1, <4>1 DEF Becomes, Calls
    <3>3. CASE ~ok
      <4>1. Becomes(c, [call[c] EXCEPT !.at = "refused"])
        BY <2>2, <3>3
      <4> QED  BY <2>1, <3>1, <4>1 DEF Becomes, Calls
    <3> QED  BY <3>2, <3>3
  <2>5. /\ DOMAIN status' \subseteq Stops
        /\ status' \in [DOMAIN status' -> [visited : 0 .. Len(made), skipped : BOOLEAN]]
    <3>1. Marked(i) \in [visited : 0 .. Len(made), skipped : BOOLEAN]
      BY <2>1 DEF Marked
    <3> HIDE DEF i, ok
    <3> QED  BY <2>2, <3>1 DEF CheckInInv, CheckInsTypeOK
  <2>6. CheckInsTypeOK'
    BY <2>2, <2>3, <2>4, <2>5 DEF CheckInInv, CheckInsTypeOK
  <2>7. CallInv'
    BY <2>2, <2>4 DEF CheckInInv, CallInv, Asks, Answered, CallAt, Callers
  <2>8. \A d \in Callers : Asks(d) => CheckInOf(d)' = CheckInOf(d) /\ CheckInOf(d) \in Taps
    BY <2>2, <2>4, AsksOfMade DEF CheckInOf, CheckInInv
  <2>9. AnswerInv'
    <3> SUFFICES ASSUME NEW d \in Callers
                 PROVE  /\ Answered(d)' => answer'[CheckInOf(d)'] # {}
                        /\ CallAt(d, "accepted")' => call'[d].match \in 1 .. version'
      BY DEF AnswerInv
    <3>1. CASE d = c
      BY <3>1, <2>2, <2>3, <2>4, <2>8 DEF Asks, CallAt
    <3>2. CASE d # c
      BY <3>2, <2>1, <2>3, <2>4, <2>8 DEF CheckInInv, AnswerInv, Asks, Answered, CallAt
    <3> QED  BY <3>1, <3>2
  <2>10. \A n \in DOMAIN log : log[n] \in Taps
    BY ConstantFacts DEF CheckInInv, CheckInsTypeOK, Taps
  <2>11. TodoInv' /\ NothingVanishes'
    BY <2>2, <2>3, <2>10 DEF CheckInInv, TodoInv, NothingVanishes, CheckInsTypeOK
  <2> QED  BY <2>6, <2>7, <2>9, <2>11 DEF CheckInInv
<1> QED  BY <1>1, <1>2

-----------------------------------------------------------------------------
(* A call that ends, or a replay that turns to its next item, takes from   *)
(* the queue only what is answered.                                        *)
LEMMA FinishStep ==
  ASSUME CheckInInv, NEW f \in Flushes, Remove(f)
  PROVE  CheckInInv'
<1> DEFINE n == call[f].n
<1>1. /\ UNCHANGED <<trouble, version, status, answer, online, open, cached, made, log>>
      /\ Answered(f) /\ queued' = queued \ {n}
      /\ known' = IF CallAt(f, "accepted") THEN call[f].match ELSE known
      /\ todo' = [todo EXCEPT ![f] = @ \ {n}]
      /\ Becomes(f, IF todo'[f] = {} THEN NoCall ELSE Turn)
  BY DEF Remove, Finish, server
<1>2. f \in Callers /\ CheckInsTypeOK /\ n \in todo[f] /\ n \in DOMAIN log /\ answer[log[n]] # {}
  <2>1. f \in Callers /\ Asks(f) /\ CheckInsTypeOK /\ CallInv
    BY <1>1 DEF Callers, Asks, CheckInInv
  <2>2. n \in todo[f] /\ n \in DOMAIN log
    BY <2>1 DEF CallInv, CheckInsTypeOK
  <2>3. answer[CheckInOf(f)] # {} /\ CheckInOf(f) = log[n]
    BY <1>1, <2>1 DEF CheckInInv, AnswerInv, CheckInOf
  <2> QED  BY <2>1, <2>2, <2>3
<1>3. /\ call' \in [Callers -> Calls] /\ call'[f].at \in {"idle", "next"}
      /\ \A d \in Callers \ {f} : call'[d] = call[d]
  <2>1. PICK new \in {NoCall, Turn} : Becomes(f, new)
    BY <1>1
  <2>2. new \in Calls /\ new.at \in {"idle", "next"}
    BY <2>1, ConstantFacts
  <2> QED  BY <1>2, <2>1, <2>2, CallAfter
<1>4. /\ todo' \in [Flushes -> SUBSET DOMAIN log] /\ todo'[f] = todo[f] \ {n}
      /\ \A g \in Flushes \ {f} : todo'[g] = todo[g]
  BY <1>1, <1>2 DEF CheckInsTypeOK
<1> HIDE DEF n
<1>5. CheckInsTypeOK'
  <2>1. known' \in 1 .. version \cup {None}
    BY <1>1, <1>2 DEF CheckInInv, AnswerInv, CheckInsTypeOK
  <2> QED  BY <1>1, <1>3, <1>4, <2>1, <1>2 DEF CheckInsTypeOK
<1>6. CallInv'
  BY <1>1, <1>3, <1>4, ConstantFacts DEF CheckInInv, CallInv, Asks, Answered, CallAt, Callers
<1>7. AnswerInv'
  BY <1>1, <1>3 DEF CheckInInv, AnswerInv, Answered, CallAt, CheckInOf
<1>8. TodoInv'
  BY <1>1, <1>2, <1>4 DEF CheckInInv, TodoInv
<1>9. NothingVanishes'
  BY <1>1, <1>2 DEF CheckInInv, NothingVanishes
<1> QED  BY <1>5, <1>6, <1>7, <1>8, <1>9 DEF CheckInInv

(* A replay reads all keys and turns to the first; nobody else's call      *)
(* changes.                                                                *)
LEMMA ReplaySteps ==
  ASSUME CheckInInv, NEW f \in Flushes, StartFlush(f) \/ SendNext(f) \/ FlushFails(f)
  PROVE  CheckInInv'
<1>1. f \in Callers /\ CheckInsTypeOK /\ {f} \subseteq Callers
  BY DEF Callers, CheckInInv
<1>2. UNCHANGED <<version, status, answer, online, open, known, cached, made, log, queued>>
  BY DEF StartFlush, SendNext, FlushFails, server, device
<1>3. CASE StartFlush(f)
  <2>1. todo' = [todo EXCEPT ![f] = queued] /\ Becomes(f, Turn) /\ trouble' = trouble
    BY <1>3 DEF StartFlush
  <2>2. /\ call' \in [Callers -> Calls] /\ call'[f].at = "next"
        /\ \A d \in Callers \ {f} : call'[d] = call[d]
    BY <1>1, <2>1, ConstantFacts, CallAfter
  <2>3. /\ todo' \in [Flushes -> SUBSET DOMAIN log] /\ todo'[f] = queued
        /\ \A g \in Flushes \ {f} : todo'[g] = todo[g]
    BY <1>1, <2>1 DEF CheckInsTypeOK
  <2>4. CheckInsTypeOK'
    BY <1>1, <1>2, <2>1, <2>2, <2>3 DEF CheckInsTypeOK
  <2>5. CallInv' /\ AnswerInv'
    BY <1>2, <2>2, <2>3, ConstantFacts
       DEF CheckInInv, CallInv, AnswerInv, Asks, Answered, CallAt, CheckInOf, Callers
  <2>6. TodoInv' /\ NothingVanishes'
    BY <1>2, <2>3 DEF CheckInInv, TodoInv, NothingVanishes
  <2> QED  BY <2>4, <2>5, <2>6 DEF CheckInInv
<1>4. CASE SendNext(f)
  <2>1. PICK n \in todo[f] : /\ \A m \in todo[f] : n <= m
                             /\ Becomes(f, [at |-> "sent", n |-> n, match |-> known])
    BY <1>4 DEF SendNext
  <2>2. todo' = todo /\ trouble' = trouble
    BY <1>4 DEF SendNext, device
  <2>3. [at |-> "sent", n |-> n, match |-> known] \in Calls
    <3>1. n \in DOMAIN log /\ log \in Seq(1 .. Len(made)) /\ version \in Nat
          /\ known \in 1 .. version \cup {None}
      BY <1>1 DEF CheckInsTypeOK
    <3>2. n \in Nat
      BY <3>1, LenProperties
    <3> QED  BY <3>1, <3>2 DEF Calls
  <2>4. /\ call' \in [Callers -> Calls] /\ call'[f].at = "sent" /\ call'[f].n = n
        /\ \A d \in Callers \ {f} : call'[d] = call[d]
    BY <1>1, <2>1, <2>3, CallAfter
  <2>5. CheckInsTypeOK'
    BY <1>1, <1>2, <2>2, <2>4 DEF CheckInsTypeOK
  <2>6. CallInv' /\ AnswerInv'
    BY <1>2, <2>1, <2>2, <2>4, ConstantFacts
       DEF CheckInInv, CallInv, AnswerInv, Asks, Answered, CallAt, CheckInOf, Callers
  <2>7. TodoInv' /\ NothingVanishes'
    BY <1>2, <2>2 DEF CheckInInv, TodoInv, NothingVanishes
  <2> QED  BY <2>5, <2>6, <2>7 DEF CheckInInv
<1>5. CASE FlushFails(f)
  <2>1. todo' = [todo EXCEPT ![f] = {}] /\ Becomes(f, NoCall) /\ Lost({f})
    BY <1>5 DEF FlushFails
  <2>2. trouble' \in 0 .. MaxTrouble
    BY <1>1, <2>1, LostTyped
  <2>3. /\ call' \in [Callers -> Calls] /\ call'[f].at = "idle"
        /\ \A d \in Callers \ {f} : call'[d] = call[d]
    BY <1>1, <2>1, ConstantFacts, CallAfter
  <2>4. /\ todo' \in [Flushes -> SUBSET DOMAIN log] /\ todo'[f] = {}
        /\ \A g \in Flushes \ {f} : todo'[g] = todo[g]
    BY <1>1, <2>1 DEF CheckInsTypeOK
  <2>5. CheckInsTypeOK'
    BY <1>1, <1>2, <2>2, <2>3, <2>4 DEF CheckInsTypeOK
  <2>6. CallInv' /\ AnswerInv'
    BY <1>2, <2>3, <2>4, ConstantFacts
       DEF CheckInInv, CallInv, AnswerInv, Asks, Answered, CallAt, CheckInOf, Callers
  <2>7. TodoInv' /\ NothingVanishes'
    BY <1>2, <2>4 DEF CheckInInv, TodoInv, NothingVanishes
  <2> QED  BY <2>5, <2>6, <2>7 DEF CheckInInv
<1> QED  BY <1>3, <1>4, <1>5

(* The end of a check-in made online, with an answer.                      *)
LEMMA TapAnsweredStep ==
  ASSUME CheckInInv, NEW i \in Taps, TapAnswered(i)
  PROVE  CheckInInv'
<1>1. /\ i \in Callers /\ CheckInsTypeOK /\ Answered(i) /\ Becomes(i, NoCall)
      /\ known' = IF CallAt(i, "accepted") THEN call[i].match ELSE known
      /\ UNCHANGED <<trouble, version, status, answer, online, open, cached, made, log, queued,
                     todo>>
  BY DEF TapAnswered, Callers, CheckInInv, server
<1>2. /\ call' \in [Callers -> Calls] /\ call'[i].at = "idle"
      /\ \A d \in Callers \ {i} : call'[d] = call[d]
  BY <1>1, ConstantFacts, CallAfter
<1>3. known' \in 1 .. version \cup {None}
  BY <1>1 DEF CheckInInv, AnswerInv, CheckInsTypeOK
<1>4. CheckInsTypeOK'
  BY <1>1, <1>2, <1>3 DEF CheckInsTypeOK
<1>5. CallInv' /\ AnswerInv'
  BY <1>1, <1>2, ConstantFacts
     DEF CheckInInv, CallInv, AnswerInv, Asks, Answered, CallAt, CheckInOf, Callers
<1>6. TodoInv' /\ NothingVanishes'
  BY <1>1 DEF CheckInInv, TodoInv, NothingVanishes
<1> QED  BY <1>4, <1>5, <1>6 DEF CheckInInv

(* A check-in is put into the queue: its key is behind all others.         *)
LEMMA Enqueued ==
  ASSUME CheckInInv, NEW i \in Nat, i <= Len(made'), 1 <= i,
         made' \in Seq([stop : Stops, action : Actions]), Len(made) <= Len(made'),
         log' = Append(log, i), queued' = queued \cup {Len(log')},
         UNCHANGED <<answer, todo>>
  PROVE  /\ log' \in Seq(1 .. Len(made')) /\ queued' \subseteq DOMAIN log'
         /\ todo' \in [Flushes -> SUBSET DOMAIN log']
         /\ \A n \in DOMAIN log : log'[n] = log[n]
         /\ TodoInv' /\ NothingVanishes'
<1>1. CheckInsTypeOK /\ Len(made') \in Nat /\ i \in 1 .. Len(made')
  BY LenProperties DEF CheckInInv
<1>2. /\ log' \in Seq(1 .. Len(made'))
      /\ DOMAIN log = 1 .. Len(log) /\ Len(log) \in Nat
      /\ DOMAIN log' = DOMAIN log \cup {Len(log')}
      /\ Len(log') \notin DOMAIN log
      /\ \A n \in DOMAIN log : log'[n] = log[n] /\ n < Len(log')
  BY <1>1, Appended
<1>3. queued' \subseteq DOMAIN log' /\ todo' \in [Flushes -> SUBSET DOMAIN log']
  BY <1>1, <1>2 DEF CheckInsTypeOK
<1>4. NothingVanishes'
  BY <1>2 DEF CheckInInv, NothingVanishes
<1>5. TodoInv'
  <2> SUFFICES ASSUME NEW f \in Flushes, NEW m \in DOMAIN log', NEW n \in todo[f],
                      m < n, m \notin todo[f]
               PROVE  answer[log'[m]] # {}
    BY DEF TodoInv
  <2>1. n \in DOMAIN log /\ n < Len(log')
    BY <1>1, <1>2 DEF CheckInsTypeOK
  <2>2. m \in DOMAIN log
    BY <1>2, <2>1
  <2> QED  BY <1>2, <2>2 DEF CheckInInv, TodoInv
<1> QED  BY <1>2, <1>3, <1>4, <1>5

(* A check-in that could not be sent.                                      *)
LEMMA TapFailsStep ==
  ASSUME CheckInInv, NEW i \in Taps, TapFails(i)
  PROVE  CheckInInv'
<1>1. /\ i \in Callers /\ CheckInsTypeOK /\ Asks(i) /\ Becomes(i, NoCall) /\ Lost({i})
      /\ log' = Append(log, i) /\ queued' = queued \cup {Len(log')}
      /\ UNCHANGED <<version, status, answer, online, open, known, cached, made, todo>>
  BY DEF TapFails, Callers, CheckInInv, Asks, server
<1>2. i \in Nat /\ 1 <= i /\ i <= Len(made) /\ Len(made) \in Nat
  BY <1>1, ConstantFacts DEF CheckInInv, CallInv, Taps, CheckInsTypeOK
<1>3. /\ call' \in [Callers -> Calls] /\ call'[i].at = "idle"
      /\ \A d \in Callers \ {i} : call'[d] = call[d]
  BY <1>1, ConstantFacts, CallAfter
<1>4. trouble' \in 0 .. MaxTrouble
  BY <1>1, LostTyped
<1>5. /\ log' \in Seq(1 .. Len(made')) /\ queued' \subseteq DOMAIN log'
      /\ todo' \in [Flushes -> SUBSET DOMAIN log']
      /\ \A n \in DOMAIN log : log'[n] = log[n]
      /\ TodoInv' /\ NothingVanishes'
  <2>1. /\ made' \in Seq([stop : Stops, action : Actions]) /\ Len(made) <= Len(made')
        /\ i <= Len(made') /\ 1 <= i /\ i \in Nat /\ UNCHANGED <<answer, todo>>
    BY <1>1, <1>2 DEF CheckInsTypeOK
  <2>2. log' = Append(log, i) /\ queued' = queued \cup {Len(log')}
    BY <1>1
  <2> QED  BY <2>1, <2>2, Enqueued
<1>6. CheckInsTypeOK'
  BY <1>1, <1>3, <1>4, <1>5 DEF CheckInsTypeOK
<1>7. CallInv'
  BY <1>1, <1>3 DEF CheckInInv, CallInv, Asks, Answered, CallAt, Callers
<1>8. \A d \in Callers \ {i} : Asks(d) => CheckInOf(d)' = CheckInOf(d)
  BY <1>1, <1>3, <1>5, AsksOfMade DEF CheckInInv, CheckInOf
<1>9. AnswerInv'
  BY <1>1, <1>3, <1>8 DEF CheckInInv, AnswerInv, Asks, Answered, CallAt
<1> QED  BY <1>5, <1>6, <1>7, <1>9 DEF CheckInInv

(* The user checks in.                                                     *)
LEMMA TapStep ==
  ASSUME CheckInInv, Tap
  PROVE  CheckInInv'
<1> DEFINE i == Len(made')
<1>1. PICK s \in Stops, a \in Actions : made' = Append(made, [stop |-> s, action |-> a])
  BY DEF Tap
<1>2. /\ CheckInsTypeOK /\ Len(made) < MaxTaps
      /\ known # None
      /\ UNCHANGED <<trouble, version, status, answer, online, open, known, cached, todo>>
  BY DEF Tap, CheckInInv, server
<1>3. /\ made' \in Seq([stop : Stops, action : Actions]) /\ Len(made) \in Nat
      /\ i = Len(made) + 1 /\ i <= MaxTaps /\ i \in Nat
  BY <1>1, <1>2, ConstantFacts DEF CheckInsTypeOK
<1>4. i \in Taps /\ i \in Callers
  BY <1>3, ConstantFacts DEF Taps, Callers
<1>5. /\ status' \in [DOMAIN status' -> [visited : 0 .. Len(made'), skipped : BOOLEAN]]
      /\ DOMAIN status' \subseteq Stops
  <2>1. [visited : 0 .. Len(made), skipped : BOOLEAN]
          \subseteq [visited : 0 .. Len(made'), skipped : BOOLEAN]
    BY <1>3
  <2> QED  BY <1>2, <2>1 DEF CheckInsTypeOK
<1>6. CASE online
  <2>1. Becomes(i, [at |-> "sent", n |-> i, match |-> known]) /\ UNCHANGED <<log, queued>>
    BY <1>6 DEF Tap
  <2>2. [at |-> "sent", n |-> i, match |-> known] \in Calls
    BY <1>2, <1>3 DEF Calls, CheckInsTypeOK
  <2>3. /\ call' \in [Callers -> Calls] /\ call'[i].at = "sent" /\ call'[i].n = i
        /\ \A d \in Callers \ {i} : call'[d] = call[d]
    BY <1>2, <1>4, <2>1, <2>2, CallAfter
  <2>4. log \in Seq(1 .. Len(made'))
    <3>1. 1 .. Len(made) \subseteq 1 .. Len(made')
      BY <1>3
    <3> QED  BY <1>2, <3>1, SeqMonotonic DEF CheckInsTypeOK
  <2> HIDE DEF i
  <2>5. CheckInsTypeOK'
    BY <1>2, <1>3, <1>5, <2>1, <2>3, <2>4 DEF CheckInsTypeOK, i
  <2>6. CallInv'
    <3>1. \A f \in Flushes : call'[f] = call[f]
      BY <1>4, <2>3, ConstantFacts DEF Callers
    <3>2. \A j \in Taps \ {i} : call'[j] = call[j]
      BY <2>3 DEF Callers
    <3>3. i <= Len(made') /\ Len(made) <= Len(made') /\ todo' = todo
      BY <1>2, <1>3 DEF i
    <3>4. \A j \in Taps : Asks(j)' => call'[j].n = j /\ j <= Len(made')
      BY <1>2, <1>3, <2>3, <3>2, <3>3 DEF CheckInInv, CallInv, Asks, Answered, CallAt, Taps
    <3> QED  BY <3>1, <3>3, <3>4 DEF CheckInInv, CallInv, Asks, Answered, CallAt
  <2>7. AnswerInv'
    BY <1>2, <2>1, <2>3 DEF CheckInInv, AnswerInv, Answered, CallAt, CheckInOf
  <2>8. TodoInv' /\ NothingVanishes'
    BY <1>2, <2>1 DEF CheckInInv, TodoInv, NothingVanishes
  <2> QED  BY <2>5, <2>6, <2>7, <2>8 DEF CheckInInv
<1>7. CASE ~online
  <2>1. log' = Append(log, i) /\ queued' = queued \cup {Len(log')} /\ call' = call
    BY <1>7 DEF Tap
  <2>2. /\ log' \in Seq(1 .. Len(made')) /\ queued' \subseteq DOMAIN log'
        /\ todo' \in [Flushes -> SUBSET DOMAIN log']
        /\ \A n \in DOMAIN log : log'[n] = log[n]
        /\ TodoInv' /\ NothingVanishes'
    <3>1. /\ made' \in Seq([stop : Stops, action : Actions]) /\ Len(made) <= Len(made')
          /\ i <= Len(made') /\ 1 <= i /\ i \in Nat /\ UNCHANGED <<answer, todo>>
      BY <1>2, <1>3
    <3> HIDE DEF i
    <3> QED  BY <3>1, <2>1, Enqueued
  <2>3. CheckInsTypeOK'
    BY <1>2, <1>3, <1>5, <2>1, <2>2 DEF CheckInsTypeOK
  <2>4. CallInv'
    BY <1>2, <1>3, <2>1 DEF CheckInInv, CallInv, Asks, Answered, CallAt, Taps
  <2>5. \A d \in Callers : Asks(d) => CheckInOf(d)' = CheckInOf(d)
    BY <2>1, <2>2, AsksOfMade DEF CheckInInv, CheckInOf
  <2>6. AnswerInv'
    BY <1>2, <2>1, <2>5 DEF CheckInInv, AnswerInv, Asks, Answered, CallAt
  <2> QED  BY <2>2, <2>3, <2>4, <2>6 DEF CheckInInv
<1> QED  BY <1>6, <1>7

-----------------------------------------------------------------------------
LEMMA CheckInsStep ==
  CheckInInv /\ [CheckInsNext]_checkInsVars => CheckInInv'
<1> SUFFICES ASSUME CheckInInv, [CheckInsNext]_checkInsVars PROVE CheckInInv'
  OBVIOUS
<1>1. CASE OpenPage \/ LoadTrip \/ Connection  BY <1>1, PageSteps
<1>2. CASE ClosePage                           BY <1>2, ClosePageStep
<1>3. CASE Tap                                 BY <1>3, TapStep
<1>4. CASE OtherEdit \/ \E c \in Callers : Serve(c)
  BY <1>4, ServerSteps
<1>5. ASSUME NEW i \in Taps, TapAnswered(i) \/ TapFails(i) PROVE CheckInInv'
  BY <1>5, TapAnsweredStep, TapFailsStep
<1>6. ASSUME NEW f \in Flushes, StartFlush(f) \/ SendNext(f) \/ FlushFails(f) PROVE CheckInInv'
  BY <1>6, ReplaySteps
<1>7. ASSUME NEW f \in Flushes, Remove(f) PROVE CheckInInv'
  BY <1>7, FinishStep
<1>8. CASE UNCHANGED checkInsVars
  BY <1>8 DEF checkInsVars, server, device, CheckInInv, CheckInsTypeOK, CallInv, AnswerInv, TodoInv,
              NothingVanishes, Asks, Answered, CallAt, CheckInOf
<1> QED  BY <1>1, <1>2, <1>3, <1>4, <1>5, <1>6, <1>7, <1>8 DEF CheckInsNext

(* The invariant holds in every reachable state.                           *)
THEOREM CheckInInvariant ==
  CheckInsSpec => []CheckInInv
BY CheckInsStart, CheckInsStep, PTL DEF CheckInsSpec

(* Every reachable state is well typed: keys are in the store, check-ins   *)
(* were made, versions have existed.                                       *)
THEOREM CheckInsTyped ==
  CheckInsSpec => []CheckInsTypeOK
<1>1. CheckInInv => CheckInsTypeOK
  BY DEF CheckInInv
<1> QED  BY <1>1, CheckInInvariant, PTL

(* No check-in leaves the queue unanswered, however many replays run at    *)
(* once and whenever the page closes or requests fail.                     *)
THEOREM NothingLost ==
  CheckInsSpec => []NothingVanishes
<1>1. CheckInInv => NothingVanishes
  BY DEF CheckInInv
<1> QED  BY <1>1, CheckInInvariant, PTL

(* No replay overtakes what waited before.                                 *)
THEOREM ReplayOrdered ==
  CheckInsSpec => []ReplayInOrder
<1>1. CheckInInv => ReplayInOrder
  <2> SUFFICES ASSUME CheckInInv, NEW f \in Flushes, CallAt(f, "sent"), NEW m \in 1 .. call[f].n - 1
               PROVE  answer[log[m]] # {}
    BY DEF ReplayInOrder
  <2>1. /\ call[f].n \in todo[f] /\ \A k \in todo[f] : call[f].n <= k
        /\ todo[f] \subseteq DOMAIN log /\ log \in Seq(1 .. Len(made))
    BY DEF CheckInInv, CallInv, CheckInsTypeOK, Asks
  <2>2. DOMAIN log = 1 .. Len(log) /\ Len(log) \in Nat
    BY <2>1, LenProperties
  <2>3. m \in DOMAIN log /\ m < call[f].n /\ m \notin todo[f]
    BY <2>1, <2>2
  <2> QED  BY <2>1, <2>3 DEF CheckInInv, TodoInv
<1> QED  BY <1>1, CheckInInvariant, PTL
==============================================================================
