----------------------------- MODULE TripProofs -----------------------------
(***************************************************************************)
(* Theorems about the edits of one trip: about TripEditing, for any set of *)
(* tabs and any number of writes, and about TripOrder, for any number of   *)
(* editors, stops and days.                                                *)
(***************************************************************************)
EXTENDS TripEditing, TripOrder, FiniteSetTheorems, TLAPS

Committed(t) == edit[t].at \in {"between", "reread", "done"}

(* Exactly the edit that has updated the trips row holds its lock, and the *)
(* version it was given is still the next one.                             *)
LockInv ==
  \A t \in Tabs :
    /\ At(t, "touched") <=> lock = t
    /\ At(t, "touched") => edit[t].fresh = version + 1 /\ Matches(t)

(* An edit that has committed left the version it was sent against behind. *)
VersionInv ==
  \A t \in Tabs :
    Committed(t) => /\ edit[t].fresh <= version
                    /\ Conditional(t) => edit[t].match < edit[t].fresh

SafeInv == LockInv /\ VersionInv /\ OneWinnerPerVersion

-----------------------------------------------------------------------------
(* Replacing one tab's edit by a well-typed one leaves the edits well      *)
(* typed and the others as they were.                                      *)
LEMMA BecomesOK ==
  ASSUME NEW t \in Tabs, NEW e \in Edits, edit \in [Tabs -> Edits], Becomes(t, e)
  PROVE  /\ edit' \in [Tabs -> Edits]
         /\ edit'[t] = e
         /\ \A u \in Tabs \ {t} : edit'[u] = edit[u]
BY DEF Becomes

LEMMA NoEditOK == NoEdit \in Edits
BY TabsAssumption DEF NoEdit, Edits, Phases, AllKinds

(* The records the handlers' steps make of a well-typed edit.              *)
LEMMA EditUpdates ==
  ASSUME NEW e \in Edits, NEW p \in Phases, NEW n \in Nat
  PROVE  /\ [e EXCEPT !.at = p] \in Edits
         /\ [e EXCEPT !.at = p, !.read = n] \in Edits
         /\ [e EXCEPT !.at = p, !.fresh = n] \in Edits
         /\ [e EXCEPT !.at = p, !.wrote = @ \cup {n}] \in Edits
         /\ [e EXCEPT !.at = p, !.read = n, !.wrote = @ \cup {n}] \in Edits
BY DEF Edits

(* Each step of a handler keeps the edits well typed.                      *)
LEMMA EditsTyped ==
  ASSUME TypeOK, NEW t \in Tabs, Send(t) \/ Handler(t) \/ Fail(t)
  PROVE  edit' \in [Tabs -> Edits]
<1>1. /\ edit \in [Tabs -> Edits] /\ edit[t] \in Edits /\ plan \in Nat
      /\ plan + 1 \in Nat /\ version + 1 \in Nat
  BY DEF TypeOK
<1>2. {"sent", "loaded", "ready", "touched", "between", "reread", "done"} \subseteq Phases
  BY DEF Phases
<1> USE NoEditOK, EditUpdates, BecomesOK
<1>3. CASE Send(t)
  <2>1. PICK k \in Kinds :
          Becomes(t, [NoEdit EXCEPT !.at = "sent", !.kind = k,
                                    !.match = IfMatch(t), !.basis = shown[t],
                                    !.unshown = unshown[t]])
    BY <1>3 DEF Send
  <2>2. /\ k \in AllKinds /\ IfMatch(t) \in Nat \cup {None}
        /\ shown[t] \in SUBSET Nat /\ unshown[t] \in SUBSET Nat
    BY TabsAssumption DEF TypeOK, IfMatch
  <2>3. [NoEdit EXCEPT !.at = "sent", !.kind = k, !.match = IfMatch(t),
                       !.basis = shown[t], !.unshown = unshown[t]] \in Edits
    BY <2>2, <1>2 DEF NoEdit, Edits
  <2> HIDE EditUpdates, NoEditOK
  <2> QED  BY <1>1, <2>1, <2>3, BecomesOK
<1>4. CASE Begin(t)         BY <1>1, <1>2, <1>4 DEF Begin
<1>5. CASE ReadRows(t)      BY <1>1, <1>2, <1>5 DEF ReadRows
<1>6. CASE Touch(t)         BY <1>1, <1>2, <1>6 DEF Touch
<1>7. CASE TouchConflict(t) BY <1>1, <1>2, <1>7 DEF TouchConflict
<1>8. CASE Commit(t)        BY <1>1, <1>2, <1>8 DEF Commit
<1>9. CASE ReadAgain(t)     BY <1>1, <1>2, <1>9 DEF ReadAgain
<1>10. CASE SecondCommit(t) BY <1>1, <1>2, <1>10 DEF SecondCommit
<1>11. CASE Reply(t)        BY <1>1, <1>2, <1>11 DEF Reply
<1>12. CASE Fail(t)         BY <1>1, <1>2, <1>12 DEF Fail
<1> QED
  BY <1>3, <1>4, <1>5, <1>6, <1>7, <1>8, <1>9, <1>10, <1>11, <1>12 DEF Handler

(* Every reachable state is well typed.                                    *)
THEOREM TypeCorrect == Spec => []TypeOK
<1>1. Init => TypeOK
  BY NoEditOK, TabsAssumption DEF Init, TypeOK
<1>2. TypeOK /\ [Next]_vars => TypeOK'
  <2> SUFFICES ASSUME TypeOK, [Next]_vars PROVE TypeOK'
    OBVIOUS
  <2> USE TabsAssumption DEF TypeOK, server, client
  <2>1. ASSUME NEW t \in Tabs, Page(t) PROVE TypeOK'
    <3>1. CASE LoadVersion(t)  BY <3>1 DEF LoadVersion, NoteVersion, Writes
    <3>2. CASE LoadPlan(t)     BY <3>2 DEF LoadPlan, Show, Writes
    <3>3. CASE Refetch(t)      BY <3>3 DEF Refetch, Show, Writes
    <3>4. CASE Reload(t)       BY <3>4 DEF Reload
    <3>5. CASE PollSend(t)     BY <3>5 DEF PollSend
    <3>6. CASE PollAnswer(t)   BY <3>6 DEF PollAnswer
    <3>7. CASE PollLost(t)     BY <3>7 DEF PollLost
    <3>8. CASE SaveOffline(t)  BY <3>8 DEF SaveOffline, NoteVersion, Writes
    <3> QED  BY <2>1, <3>1, <3>2, <3>3, <3>4, <3>5, <3>6, <3>7, <3>8 DEF Page
  <2>2. ASSUME NEW t \in Tabs, Send(t) \/ Handler(t) \/ Fail(t) PROVE TypeOK'
    <3>0. edit' \in [Tabs -> Edits] /\ edit[t] \in Edits
      BY <2>2, EditsTyped
    <3>1. CASE Send(t)          BY <3>0, <3>1 DEF Send
    <3>2. CASE Begin(t)         BY <3>0, <3>2 DEF Begin
    <3>3. CASE ReadRows(t)      BY <3>0, <3>3 DEF ReadRows
    <3>4. CASE Touch(t)         BY <3>0, <3>4 DEF Touch
    <3>5. CASE TouchConflict(t) BY <3>0, <3>5 DEF TouchConflict
    <3>6. CASE Commit(t)        BY <3>0, <3>6 DEF Commit, Edits
    <3>7. CASE ReadAgain(t)     BY <3>0, <3>7 DEF ReadAgain
    <3>8. CASE SecondCommit(t)  BY <3>0, <3>8 DEF SecondCommit
    <3>9. CASE Reply(t)
      <4>1. edit[t].fresh \in Nat /\ edit[t].wrote \in SUBSET Nat /\ Writes \in SUBSET Nat
        BY <3>0 DEF Edits, Writes
      <4>2. PICK now \in SUBSET Nat : ShowAnswer(t, now)
        BY <3>9, <4>1 DEF Reply, ReplyPatched, ReplyWhole
      <4>3. shown' \in [Tabs -> SUBSET Nat] /\ unshown' \in [Tabs -> SUBSET Nat]
        BY <4>1, <4>2 DEF ShowAnswer
      <4>4. poll' \in [Tabs -> Nat \cup {None}] /\ shared' \in [Tabs -> BOOLEAN]
        BY <3>9 DEF Reply, ReplyPatched, ReplyWhole
      <4> QED  BY <3>0, <3>9, <4>1, <4>3, <4>4 DEF Reply
    <3>10. CASE Fail(t)         BY <3>0, <3>10 DEF Fail
    <3> QED  BY <2>2, <3>1, <3>2, <3>3, <3>4, <3>5, <3>6, <3>7, <3>8, <3>9, <3>10 DEF Handler
  <2>3. CASE UNCHANGED vars
    BY <2>3 DEF vars
  <2> QED  BY <2>1, <2>2, <2>3 DEF Next
<1>3. QED  BY <1>1, <1>2, PTL DEF Spec
-----------------------------------------------------------------------------
(* What a step leaves of its tab's edit; the edits of the other tabs are   *)
(* untouched.                                                              *)
OthersKept(t) == \A u \in Tabs \ {t} : edit'[u] = edit[u]

LEMMA EditAfter ==
  ASSUME TypeOK, NEW t \in Tabs
  PROVE
    /\ Send(t) => OthersKept(t) /\ edit'[t].at = "sent"
    /\ Begin(t) => OthersKept(t) /\ edit'[t].at \in {"loaded", "idle"}
    /\ ReadRows(t) => OthersKept(t) /\ edit'[t].at = "ready"
    /\ Touch(t) => /\ OthersKept(t) /\ edit'[t].at = "touched"
                   /\ edit'[t].fresh = version + 1 /\ edit'[t].match = edit[t].match
    /\ TouchConflict(t) \/ Fail(t) \/ Reply(t) => OthersKept(t) /\ edit'[t].at = "idle"
    /\ Commit(t) => /\ OthersKept(t) /\ edit'[t].at \in {"between", "done"}
                    /\ edit'[t].fresh = edit[t].fresh /\ edit'[t].match = edit[t].match
    /\ ReadAgain(t) \/ SecondCommit(t) =>
                    /\ OthersKept(t) /\ edit'[t].at \in {"reread", "done"}
                    /\ edit'[t].fresh = edit[t].fresh /\ edit'[t].match = edit[t].match
<1>0. edit \in [Tabs -> Edits] /\ edit[t] \in Edits
  BY DEF TypeOK
<1> USE <1>0 DEF Becomes, OthersKept, Edits, NoEdit
<1>1. Send(t) => OthersKept(t) /\ edit'[t].at = "sent"
  BY DEF Send
<1>2. Begin(t) => OthersKept(t) /\ edit'[t].at \in {"loaded", "idle"}
  BY DEF Begin
<1>3. ReadRows(t) => OthersKept(t) /\ edit'[t].at = "ready"
  BY DEF ReadRows
<1>4. Touch(t) => /\ OthersKept(t) /\ edit'[t].at = "touched"
                  /\ edit'[t].fresh = version + 1 /\ edit'[t].match = edit[t].match
  BY DEF Touch
<1>5. TouchConflict(t) \/ Fail(t) \/ Reply(t) => OthersKept(t) /\ edit'[t].at = "idle"
  BY DEF TouchConflict, Fail, Reply
<1>6. Commit(t) => /\ OthersKept(t) /\ edit'[t].at \in {"between", "done"}
                   /\ edit'[t].fresh = edit[t].fresh /\ edit'[t].match = edit[t].match
  BY DEF Commit
<1>7. ReadAgain(t) \/ SecondCommit(t) =>
        /\ OthersKept(t) /\ edit'[t].at \in {"reread", "done"}
        /\ edit'[t].fresh = edit[t].fresh /\ edit'[t].match = edit[t].match
  BY DEF ReadAgain, SecondCommit
<1> QED  BY <1>1, <1>2, <1>3, <1>4, <1>5, <1>6, <1>7

(* The lock, the versions and the single winner per version are preserved  *)
(* together: the winner is alone because the row's lock keeps the version  *)
(* an edit was compared with in place until the edit commits.              *)
LEMMA SafeStep ==
  ASSUME TypeOK, SafeInv, [Next]_vars
  PROVE  SafeInv'
<1> USE DEF SafeInv, LockInv, VersionInv, OneWinnerPerVersion,
            Committed, Accepted, Conditional, Matches, At
<1>1. \A u \in Tabs : edit[u].match \in Nat \cup {None} /\ edit[u].fresh \in Nat
  BY DEF TypeOK, Edits
<1>2. version \in Nat /\ lock \in Tabs \cup {None} /\ None \notin Nat /\ None \notin Tabs
  BY TabsAssumption DEF TypeOK
<1>3. CASE UNCHANGED <<version, lock, edit>>
  BY <1>3
<1>4. ASSUME NEW t \in Tabs, Page(t) PROVE SafeInv'
  <2>1. UNCHANGED <<version, lock, edit>>
    BY <1>4 DEF Page, LoadVersion, LoadPlan, Refetch, SaveOffline, Reload, PollSend, PollAnswer,
        PollLost, server
  <2> QED  BY <2>1, <1>3
<1>5. ASSUME NEW t \in Tabs, Send(t) \/ Begin(t) \/ ReadRows(t) \/ TouchConflict(t) \/ Reply(t)
      PROVE SafeInv'
  <2>1. version' = version /\ lock' = lock
    BY <1>5 DEF Send, Begin, ReadRows, TouchConflict, Reply, server
  <2>2. edit[t].at # "touched" /\ ~Accepted(t)'
    BY <1>5, EditAfter DEF Send, Begin, ReadRows, TouchConflict, Reply
  <2>3. OthersKept(t)
    BY <1>5, EditAfter
  <2> QED  BY <2>1, <2>2, <2>3, <1>1, <1>2 DEF OthersKept
<1>6. ASSUME NEW t \in Tabs, Fail(t) PROVE SafeInv'
  <2>1. version' = version /\ lock' = (IF lock = t THEN None ELSE lock)
    BY <1>6 DEF Fail
  <2>2. ~At(t, "touched")' /\ ~Accepted(t)' /\ OthersKept(t)
    BY <1>6, EditAfter
  <2> QED  BY <2>1, <2>2, <1>1, <1>2 DEF OthersKept
<1>7. ASSUME NEW t \in Tabs, Touch(t) PROVE SafeInv'
  <2>1. lock = None /\ lock' = t /\ version' = version /\ Matches(t)
    BY <1>7 DEF Touch
  <2>2. /\ OthersKept(t) /\ edit'[t].at = "touched"
        /\ edit'[t].fresh = version + 1 /\ edit'[t].match = edit[t].match
    BY <1>7, EditAfter
  <2>3. \A u \in Tabs \ {t} : Accepted(u) => Committed(u)
    BY <2>1, <1>2
  <2>4. LockInv' /\ VersionInv'
    BY <2>1, <2>2, <1>2 DEF OthersKept
  <2>5. OneWinnerPerVersion'
    <3>1. \A u \in Tabs \ {t} :
            Accepted(u)' /\ Conditional(u)' => edit'[u].match < version
      BY <2>2, <2>3, <1>1, <1>2 DEF OthersKept
    <3>2. Conditional(t)' => edit'[t].match = version
      BY <2>1, <2>2
    <3> QED  BY <3>1, <3>2, <2>2, <1>2 DEF OthersKept
  <2> QED  BY <2>4, <2>5
<1>8. ASSUME NEW t \in Tabs, Commit(t) PROVE SafeInv'
  <2>1. /\ At(t, "touched") /\ lock = t /\ lock' = None
        /\ version' = edit[t].fresh /\ edit[t].fresh = version + 1 /\ Matches(t)
    BY <1>8 DEF Commit
  <2>2. /\ OthersKept(t) /\ edit'[t].at \in {"between", "done"}
        /\ edit'[t].fresh = edit[t].fresh /\ edit'[t].match = edit[t].match
    BY <1>8, EditAfter
  <2>3. LockInv' /\ VersionInv'
    BY <2>1, <2>2, <1>1, <1>2 DEF OthersKept
  <2>4. OneWinnerPerVersion'
    BY <2>1, <2>2 DEF OthersKept
  <2> QED  BY <2>3, <2>4
<1>9. ASSUME NEW t \in Tabs, ReadAgain(t) \/ SecondCommit(t) PROVE SafeInv'
  <2>1. version' = version /\ lock' = lock /\ Committed(t)
    BY <1>9 DEF ReadAgain, SecondCommit, server
  <2>2. /\ OthersKept(t) /\ edit'[t].at \in {"reread", "done"}
        /\ edit'[t].fresh = edit[t].fresh /\ edit'[t].match = edit[t].match
    BY <1>9, EditAfter
  <2> QED  BY <2>1, <2>2, <1>1, <1>2 DEF OthersKept
<1>10. CASE UNCHANGED vars
  BY <1>3, <1>10 DEF vars, server
<1> QED
  BY <1>4, <1>5, <1>6, <1>7, <1>8, <1>9, <1>10 DEF Next, Handler

(* Of several edits sent against one version of the trip at most one is    *)
(* accepted, for any number of tabs, any mix of handlers and any failures. *)
THEOREM OneWinner == Spec => []OneWinnerPerVersion
<1>1. Init => SafeInv
  BY TabsAssumption DEF Init, NoEdit, SafeInv, LockInv, VersionInv, OneWinnerPerVersion,
                        Committed, Accepted, At
<1>2. SafeInv => OneWinnerPerVersion
  BY DEF SafeInv
<1>3. QED  BY <1>1, <1>2, TypeCorrect, SafeStep, PTL DEF Spec

-----------------------------------------------------------------------------
(* Handlers of one transaction.  Every commit then makes one version and   *)
(* one write, and what is read after the early check is at least as new as *)
(* the version the edit names.                                             *)
SingleInv ==
  /\ version = plan
  /\ \A t \in Tabs :
       /\ edit[t].kind = "single" /\ edit[t].at \notin {"between", "reread"}
       /\ edit[t].wrote \subseteq Writes
       /\ At(t, "loaded") /\ Conditional(t) => edit[t].match <= plan
       /\ edit[t].at \in {"ready", "touched"} =>
            edit[t].read <= plan /\ (Conditional(t) => edit[t].match <= edit[t].read)

LEMMA SingleStep ==
  ASSUME Kinds = {"single"}, TypeOK, LockInv, SingleInv, [Next]_vars
  PROVE  SingleInv'
<1> USE DEF Conditional, At, Writes
<1>0. /\ plan \in Nat /\ version = plan /\ None \notin Nat
      /\ \A u \in Tabs : /\ edit[u] \in Edits /\ edit[u].match \in Nat \cup {None}
                         /\ edit[u].read \in Nat
  BY TabsAssumption DEF TypeOK, Edits, SingleInv
<1>a. \A u \in Tabs : edit[u].kind = "single" /\ edit[u].wrote \subseteq Writes
  BY DEF SingleInv
<1>1. CASE UNCHANGED <<version, plan, edit>>
  BY <1>1 DEF SingleInv
<1>2. ASSUME NEW t \in Tabs, NEW e \in Edits, Becomes(t, e), version' = version, plan' = plan,
             e.kind = "single", e.at \notin {"between", "reread"}, e.wrote \subseteq Writes,
             e.at = "loaded" /\ e.match # None => e.match <= plan,
             e.at \in {"ready", "touched"} => /\ e.read <= plan
                                              /\ e.match # None => e.match <= e.read
      PROVE  SingleInv'
  <2>1. edit'[t] = e /\ \A u \in Tabs \ {t} : edit'[u] = edit[u]
    BY <1>2, BecomesOK DEF TypeOK
  <2> QED  BY <1>2, <2>1 DEF SingleInv
<1>3. NoEdit.at = "idle" /\ NoEdit.kind = "single" /\ NoEdit.wrote = {} /\ NoEdit \in Edits
  BY NoEditOK DEF NoEdit
<1>4. ASSUME NEW t \in Tabs, Page(t) PROVE SingleInv'
  BY <1>1, <1>4
  DEF Page, LoadVersion, LoadPlan, Refetch, SaveOffline, Reload, PollSend, PollAnswer,
        PollLost, server
<1>5. ASSUME NEW t \in Tabs, Send(t) PROVE SingleInv'
  <2> DEFINE e == [NoEdit EXCEPT !.at = "sent", !.kind = "single", !.match = IfMatch(t),
                                 !.basis = shown[t], !.unshown = unshown[t]]
  <2>1. Becomes(t, e) /\ version' = version /\ plan' = plan
    BY <1>5 DEF Send, server
  <2>2. e \in Edits
    BY <1>5, <2>1, TabsAssumption DEF TypeOK, IfMatch, NoEdit, Edits, Phases, AllKinds
  <2>3. e.at = "sent" /\ e.kind = "single" /\ e.wrote = {}
    BY DEF NoEdit
  <2> HIDE DEF e
  <2> QED  BY <1>2, <2>1, <2>2, <2>3
<1>6. ASSUME NEW t \in Tabs, TouchConflict(t) \/ Fail(t) \/ Reply(t) PROVE SingleInv'
  BY <1>2, <1>3, <1>6 DEF TouchConflict, Fail, Reply, server
<1>7. ASSUME NEW t \in Tabs, Begin(t) PROVE SingleInv'
  <2>1. CASE ~Matches(t)
    BY <1>2, <1>3, <1>7, <2>1 DEF Begin, server
  <2>2. CASE Matches(t)
    <3> DEFINE e == [edit[t] EXCEPT !.at = "loaded"]
    <3>1. Becomes(t, e) /\ version' = version /\ plan' = plan
      BY <1>7, <2>2 DEF Begin, server
    <3>2a. e \in Edits
      BY <1>0 DEF Edits, Phases
    <3>2. e \in Edits /\ e.at = "loaded" /\ e.kind = "single" /\ e.wrote \subseteq Writes
      BY <1>0, <1>a, <3>2a DEF Edits
    <3>3. e.match # None => e.match <= plan
      BY <1>0, <2>2 DEF Matches, Edits
    <3> HIDE DEF e
    <3> QED  BY <1>2, <3>1, <3>2, <3>3
  <2> QED  BY <2>1, <2>2
<1>8. ASSUME NEW t \in Tabs, ReadRows(t) PROVE SingleInv'
  <2> DEFINE e == [edit[t] EXCEPT !.at = "ready", !.read = plan]
  <2>1. Becomes(t, e) /\ version' = version /\ plan' = plan
    BY <1>8 DEF ReadRows, server
  <2>2a. e \in Edits
    BY <1>0 DEF Edits, Phases
  <2>2. e \in Edits /\ e.at = "ready" /\ e.kind = "single" /\ e.wrote \subseteq Writes
    BY <1>0, <1>a, <2>2a DEF Edits
  <2>3. e.read = plan /\ (e.match # None => e.match <= plan)
    BY <1>0, <1>8 DEF ReadRows, Edits, SingleInv
  <2> HIDE DEF e
  <2> QED  BY <1>0, <1>2, <2>1, <2>2, <2>3
<1>9. ASSUME NEW t \in Tabs, Touch(t) PROVE SingleInv'
  <2> DEFINE e == [edit[t] EXCEPT !.at = "touched", !.fresh = version + 1]
  <2>1. Becomes(t, e) /\ version' = version /\ plan' = plan
    BY <1>9 DEF Touch
  <2>2a. e \in Edits
    <3>1. version + 1 \in Nat /\ edit[t] \in Edits
      BY <1>0
    <3> QED  BY <3>1 DEF Edits, Phases
  <2>2. e \in Edits /\ e.at = "touched" /\ e.kind = "single" /\ e.wrote \subseteq Writes
    BY <1>0, <1>a, <2>2a DEF Edits
  <2>3. e.read <= plan /\ (e.match # None => e.match <= e.read)
    BY <1>0, <1>9 DEF Touch, Edits, SingleInv
  <2> HIDE DEF e
  <2> QED  BY <1>2, <2>1, <2>2, <2>3
<1>10. ASSUME NEW t \in Tabs, Commit(t) PROVE SingleInv'
  <2>1. /\ version' = plan + 1 /\ plan' = plan + 1
        /\ \A u \in Tabs \ {t} : edit'[u] = edit[u]
        /\ edit'[t].at = "done" /\ edit'[t].kind = "single"
        /\ edit'[t].wrote = edit[t].wrote \cup {plan + 1}
    BY <1>0, <1>10 DEF Commit, Becomes, TypeOK, Edits, LockInv, SingleInv
  <2>2. \A u \in Tabs : edit'[u].wrote \subseteq 1 .. plan + 1
    BY <1>0, <2>1 DEF SingleInv
  <2>3. \A u \in Tabs \ {t} :
          /\ edit'[u].at = "loaded" /\ edit'[u].match # None => edit'[u].match <= plan + 1
          /\ edit'[u].at \in {"ready", "touched"} => edit'[u].read <= plan + 1
               /\ (edit'[u].match # None => edit'[u].match <= edit'[u].read)
    BY <1>0, <2>1 DEF SingleInv
  <2> QED  BY <2>1, <2>2, <2>3 DEF SingleInv
<1>11. ASSUME NEW t \in Tabs, ReadAgain(t) \/ SecondCommit(t) PROVE FALSE
  BY <1>11 DEF ReadAgain, SecondCommit, SingleInv
<1>12. CASE UNCHANGED vars
  BY <1>1, <1>12 DEF vars, server
<1> QED
  BY <1>4, <1>5, <1>6, <1>7, <1>8, <1>9, <1>10, <1>11, <1>12 DEF Next, Handler

SafeSingle == TypeOK /\ SafeInv /\ SingleInv

LEMMA SafeSingleKept ==
  ASSUME Kinds = {"single"}
  PROVE  Spec => []SafeSingle
<1>1. Init => SafeInv
  BY TabsAssumption DEF Init, NoEdit, SafeInv, LockInv, VersionInv, OneWinnerPerVersion,
                        Committed, Accepted, At
<1>2. Init => SingleInv
  BY DEF Init, NoEdit, SingleInv, At
<1>3. TypeOK /\ SafeInv /\ SingleInv /\ [Next]_vars => SafeInv' /\ SingleInv'
  BY SafeStep, SingleStep DEF SafeInv
<1> QED  BY <1>1, <1>2, <1>3, TypeCorrect, PTL DEF Spec, SafeSingle

(* What a step writes it writes by committing the edit that has the lock.  *)
LEMMA OnlyCommitWrites ==
  ASSUME SafeSingle, [Next]_vars, NEW t \in Tabs, Writing(t)
  PROVE  Commit(t) /\ (Conditional(t) => edit[t].match = plan)
<1>0. /\ plan \in Nat /\ edit[t].wrote \subseteq 1 .. plan
      /\ \A u \in Tabs : edit[u].at \notin {"between", "reread"} /\ edit[u].kind = "single"
  BY DEF SafeSingle, TypeOK, SingleInv, Writes
<1>1. PICK u \in Tabs : Page(u) \/ Send(u) \/ Handler(u) \/ Fail(u)
  BY DEF Writing, Next, vars, server
<1>2. Commit(u)
  BY <1>0, <1>1 DEF Writing, Page, LoadVersion, LoadPlan, Refetch, SaveOffline, Reload, PollSend, PollAnswer,
    PollLost, Send, Handler, Begin, ReadRows, Touch, TouchConflict, ReadAgain, SecondCommit,
    Reply, Fail, server, At
<1>3. u = t
  <2>1. SUFFICES ASSUME u # t PROVE FALSE
    OBVIOUS
  <2>2. edit'[t] = edit[t] /\ plan' = plan + 1
    BY <1>2, <2>1, EditAfter DEF OthersKept, Commit, SafeSingle
  <2> QED  BY <1>0, <2>2 DEF Writing
<1>4. Conditional(t) => edit[t].match = version /\ version = plan
  BY <1>2, <1>3 DEF SafeSingle, SafeInv, LockInv, SingleInv, Commit, Matches, Conditional
<1> QED  BY <1>2, <1>3, <1>4

(* Where every handler has one transaction, an edit with If-Match writes   *)
(* only on rows it has read as they are, for any number of tabs.           *)
THEOREM NothingStale ==
  ASSUME Kinds = {"single"}
  PROVE  Spec => NoStaleWrite
<1>1. SafeSingle /\ [Next]_vars =>
        [\A t \in Tabs : Writing(t) /\ Conditional(t) => edit[t].read = plan]_vars
  <2> SUFFICES ASSUME SafeSingle, [Next]_vars, NEW t \in Tabs, Writing(t), Conditional(t)
               PROVE  edit[t].read = plan
    OBVIOUS
  <2>1. At(t, "touched") /\ edit[t].match = plan
    BY OnlyCommitWrites DEF Commit
  <2>2. edit[t].match <= edit[t].read /\ edit[t].read <= plan
    BY <2>1 DEF SafeSingle, SingleInv, At
  <2>3. plan \in Nat /\ edit[t].read \in Nat
    BY DEF SafeSingle, TypeOK, Edits
  <2> QED  BY <2>1, <2>2, <2>3
<1> QED  BY <1>1, SafeSingleKept, PTL DEF Spec, NoStaleWrite

-----------------------------------------------------------------------------
(* A tab that remembers a version shows what was written up to it, or has  *)
(* been told it by an answer its page does not show; an edit takes along   *)
(* the version and both sets.                                              *)
Covered(t) == shown[t] \cup unshown[t]
Carried(t) == edit[t].basis \cup edit[t].unshown

PageInv ==
  \A t \in Tabs :
    /\ Covered(t) \subseteq Writes
    /\ known[t] # None => known[t] <= plan /\ 1 .. known[t] \subseteq Covered(t)
    /\ ~At(t, "idle") => /\ Carried(t) \subseteq Covered(t)
                         /\ Conditional(t) => 1 .. edit[t].match \subseteq Carried(t)
    /\ At(t, "done") => /\ edit[t].fresh \in edit[t].wrote
                        /\ Conditional(t) => edit[t].fresh = edit[t].match + 1

(* What the handlers leave of what an edit was sent with.                  *)
LEMMA SentWith ==
  ASSUME TypeOK, NEW t \in Tabs, Handler(t) \/ Fail(t)
  PROVE  \/ edit'[t] = NoEdit
         \/ /\ edit'[t].match = edit[t].match /\ edit'[t].basis = edit[t].basis
            /\ edit'[t].unshown = edit[t].unshown /\ ~At(t, "idle")
<1> USE DEF Becomes, At, TypeOK, Edits
<1>1. CASE Begin(t)         BY <1>1 DEF Begin
<1>2. CASE ReadRows(t)      BY <1>2 DEF ReadRows
<1>3. CASE Touch(t)         BY <1>3 DEF Touch
<1>4. CASE TouchConflict(t) BY <1>4 DEF TouchConflict
<1>5. CASE Commit(t)        BY <1>5 DEF Commit
<1>6. CASE ReadAgain(t)     BY <1>6 DEF ReadAgain
<1>7. CASE SecondCommit(t)  BY <1>7 DEF SecondCommit
<1>8. CASE Reply(t)         BY <1>8 DEF Reply
<1>9. CASE Fail(t)          BY <1>9 DEF Fail
<1> QED
  BY <1>1, <1>2, <1>3, <1>4, <1>5, <1>6, <1>7, <1>8, <1>9 DEF Handler

(* A step of the page: the edits stay, what is covered grows or is dropped *)
(* together with the version.                                              *)
LEMMA PageShows ==
  ASSUME SafeSingle, PageInv, NEW t \in Tabs, Page(t)
  PROVE  PageInv'
<1> USE DEF At, Conditional, Covered, Carried
<1>0. /\ plan \in Nat /\ version = plan /\ None \notin Nat
      /\ known \in [Tabs -> Nat \cup {None}]
      /\ shown \in [Tabs -> SUBSET Nat] /\ unshown \in [Tabs -> SUBSET Nat]
  BY TabsAssumption DEF SafeSingle, SingleInv, TypeOK
<1>1. edit' = edit /\ plan' = plan
  BY DEF Page, LoadVersion, LoadPlan, Refetch, SaveOffline, Reload, PollSend, PollAnswer,
         PollLost, server
<1>2. Writes' = Writes /\ Writes = 1 .. plan
  BY <1>1 DEF Writes
<1>3. CASE UNCHANGED <<known, shown, unshown>>
  BY <1>1, <1>2, <1>3 DEF PageInv
<1>4. CASE LoadVersion(t) \/ SaveOffline(t)
  <2>1. /\ known' = [known EXCEPT ![t] = plan] /\ shown' = shown
        /\ unshown' = [unshown EXCEPT ![t] = Writes \ shown[t]]
    BY <1>4, <1>0 DEF LoadVersion, SaveOffline, NoteVersion
  <2>2. Covered(t)' = Writes
    BY <2>1, <1>0 DEF PageInv
  <2>3. known'[t] = plan /\ \A u \in Tabs \ {t} : known'[u] = known[u] /\ Covered(u)' = Covered(u)
    BY <2>1, <1>0
  <2> HIDE DEF Covered
  <2> QED  BY <2>2, <2>3, <1>0, <1>1, <1>2 DEF PageInv
<1>5. CASE LoadPlan(t) \/ Refetch(t)
  <2>1. /\ known' = known /\ shown' = [shown EXCEPT ![t] = Writes]
        /\ unshown' = [unshown EXCEPT ![t] = {}]
    BY <1>5 DEF LoadPlan, Refetch, Show
  <2>2. Covered(t)' = Writes /\ \A u \in Tabs \ {t} : Covered(u)' = Covered(u)
    BY <2>1, <1>0
  <2> HIDE DEF Covered
  <2> QED  BY <2>1, <2>2, <1>0, <1>1, <1>2 DEF PageInv
<1>6. CASE Reload(t)
  <2>1. /\ known' = [known EXCEPT ![t] = None] /\ shown' = [shown EXCEPT ![t] = {}]
        /\ unshown' = [unshown EXCEPT ![t] = {}] /\ edit[t].at = "idle"
    BY <1>6 DEF Reload
  <2>2. /\ Covered(t)' = {} /\ known'[t] = None
        /\ \A u \in Tabs \ {t} : known'[u] = known[u] /\ Covered(u)' = Covered(u)
    BY <2>1, <1>0
  <2> HIDE DEF Covered
  <2> QED  BY <2>1, <2>2, <1>0, <1>1, <1>2 DEF PageInv
<1> QED
  BY <1>3, <1>4, <1>5, <1>6 DEF Page, PollSend, PollAnswer, PollLost

LEMMA PageStep ==
  ASSUME SafeSingle, PageInv, [Next]_vars
  PROVE  PageInv'
<1> USE DEF At, Conditional, Carried
<1>0. /\ plan \in Nat /\ version = plan /\ None \notin Nat
      /\ edit \in [Tabs -> Edits] /\ TypeOK /\ LockInv /\ VersionInv /\ SingleInv
      /\ known \in [Tabs -> Nat \cup {None}]
      /\ shown \in [Tabs -> SUBSET Nat] /\ unshown \in [Tabs -> SUBSET Nat]
      /\ \A u \in Tabs : /\ edit[u].at \notin {"between", "reread"} /\ edit[u].kind = "single"
                         /\ edit[u].match \in Nat \cup {None} /\ edit[u].fresh \in Nat
                         /\ edit[u].wrote \subseteq Writes
  BY TabsAssumption DEF SafeSingle, SafeInv, SingleInv, TypeOK, Edits
<1>1. NoEdit.at = "idle" /\ NoEdit.match = None
  BY DEF NoEdit
<1>2. ASSUME NEW t \in Tabs, Page(t) PROVE PageInv'
  BY <1>2, PageShows
<1>3. ASSUME NEW t \in Tabs, Send(t) PROVE PageInv'
  <2>1. UNCHANGED <<plan, known, shown, unshown>>
    BY <1>3 DEF Send, server, client
  <2>2. /\ edit'[t].at = "sent" /\ edit'[t].match = IfMatch(t) /\ Carried(t)' = Covered(t)
        /\ \A u \in Tabs \ {t} : edit'[u] = edit[u]
    BY <1>3, <1>0 DEF Send, Becomes, NoEdit, Covered
  <2> QED  BY <2>1, <2>2, <1>0 DEF PageInv, IfMatch, Covered, Writes
<1>4. ASSUME NEW t \in Tabs, Begin(t) \/ ReadRows(t) \/ Touch(t) \/ TouchConflict(t) \/ Fail(t)
      PROVE  PageInv'
  <2>1. UNCHANGED <<plan, known, shown, unshown>>
    BY <1>4 DEF Begin, ReadRows, Touch, TouchConflict, Fail, server, client
  <2>2. edit'[t].at # "done" /\ \A u \in Tabs \ {t} : edit'[u] = edit[u]
    BY <1>0, <1>4, EditAfter DEF OthersKept
  <2>3. \/ edit'[t] = NoEdit
        \/ edit'[t].match = edit[t].match /\ Carried(t)' = Carried(t) /\ ~At(t, "idle")
    BY <1>0, <1>4, SentWith DEF Handler
  <2> QED  BY <2>1, <2>2, <2>3, <1>0, <1>1 DEF PageInv, Covered, Writes
<1>5. ASSUME NEW t \in Tabs, Commit(t) PROVE PageInv'
  <2>1. UNCHANGED <<known, shown, unshown>> /\ plan' = plan + 1 /\ edit[t].at = "touched"
    BY <1>5 DEF Commit, client
  <2>2. /\ edit'[t].match = edit[t].match /\ Carried(t)' = Carried(t)
        /\ edit'[t].fresh = edit[t].fresh /\ plan + 1 \in edit'[t].wrote
        /\ \A u \in Tabs \ {t} : edit'[u] = edit[u]
    BY <1>5, <1>0 DEF Commit, Becomes, Edits
  <2>3. edit[t].fresh = plan + 1 /\ (edit[t].match # None => edit[t].match = plan)
    BY <2>1, <1>0 DEF LockInv, Matches
  <2>4. ASSUME NEW u \in Tabs
        PROVE  /\ (shown'[u] \cup unshown'[u]) \subseteq 1 .. plan + 1
               /\ known'[u] # None => /\ known'[u] <= plan + 1
                                      /\ 1 .. known'[u] \subseteq shown'[u] \cup unshown'[u]
    BY <2>1, <1>0 DEF Covered, PageInv, Writes
  <2>5. ASSUME NEW u \in Tabs, edit'[u].at # "idle"
        PROVE  /\ edit'[u].basis \cup edit'[u].unshown \subseteq shown'[u] \cup unshown'[u]
               /\ edit'[u].match # None =>
                    1 .. edit'[u].match \subseteq edit'[u].basis \cup edit'[u].unshown
    <3>1. /\ edit[u].at # "idle" /\ edit'[u].match = edit[u].match
          /\ edit'[u].basis \cup edit'[u].unshown = edit[u].basis \cup edit[u].unshown
      BY <2>1, <2>2, <2>5
    <3> QED  BY <2>1, <3>1 DEF PageInv, Covered
  <2>6. ASSUME NEW u \in Tabs, edit'[u].at = "done"
        PROVE  /\ edit'[u].fresh \in edit'[u].wrote
               /\ edit'[u].match # None => edit'[u].fresh = edit'[u].match + 1
    BY <2>2, <2>3, <2>6 DEF PageInv
  <2> QED  BY <2>1, <2>4, <2>5, <2>6 DEF PageInv, Covered, Writes
<1>6. ASSUME NEW t \in Tabs, Reply(t) PROVE PageInv'
  <2>1. /\ plan' = plan /\ Writes' = Writes /\ edit[t].at = "done" /\ edit'[t] = NoEdit
        /\ known' = [known EXCEPT ![t] = edit[t].fresh]
        /\ \A u \in Tabs \ {t} : edit'[u] = edit[u]
    BY <1>6, <1>0 DEF Reply, Becomes, server, Writes
  <2>2. PICK now \in SUBSET Nat :
          ShowAnswer(t, now) /\ (now = shown[t] \cup edit[t].wrote \/ now = Writes)
    BY <1>6, <1>0 DEF Reply, ReplyPatched, ReplyWhole, Writes
  <2>3. /\ Covered(t)' = now \cup (IF edit[t].match # None THEN unshown[t] ELSE Writes)
        /\ \A u \in Tabs \ {t} : Covered(u)' = Covered(u)
    BY <2>2, <1>0 DEF ShowAnswer, Covered
  <2>4. edit[t].fresh \in Nat /\ edit[t].fresh <= plan /\ edit[t].fresh \in edit[t].wrote
        /\ edit[t].wrote \subseteq Writes /\ Covered(t) \subseteq Writes
    BY <2>1, <1>0 DEF VersionInv, Committed, PageInv
  <2>5. Covered(t)' \subseteq Writes
    BY <2>2, <2>3, <2>4 DEF Covered
  <2>6. 1 .. edit[t].fresh \subseteq Covered(t)'
    <3>1. CASE edit[t].match = None
      BY <3>1, <2>3, <2>4, <1>0 DEF Writes
    <3>2. CASE edit[t].match # None
      <4>1. /\ edit[t].match \in Nat /\ edit[t].fresh = edit[t].match + 1
            /\ 1 .. edit[t].match \subseteq Covered(t)
        BY <3>2, <2>1, <1>0 DEF PageInv
      <4>2. 1 .. edit[t].fresh = 1 .. edit[t].match \cup {edit[t].fresh}
        BY <4>1
      <4>3. shown[t] \subseteq Writes /\ Covered(t) = shown[t] \cup unshown[t]
        BY <2>4 DEF Covered
      <4>4. Covered(t) \cup {edit[t].fresh} \subseteq now \cup unshown[t]
        BY <4>3, <2>2, <2>4
      <4> QED  BY <3>2, <4>1, <4>2, <4>4, <2>3
    <3> QED  BY <3>1, <3>2
  <2>7. known'[t] = edit[t].fresh /\ \A u \in Tabs \ {t} : known'[u] = known[u]
    BY <2>1, <1>0
  <2>8. \A u \in Tabs \ {t} : Carried(u)' = Carried(u)
    BY <2>1
  <2> HIDE DEF Carried
  <2> QED  BY <2>1, <2>3, <2>4, <2>5, <2>6, <2>7, <2>8, <1>0, <1>1 DEF PageInv
<1>7. ASSUME NEW t \in Tabs, ReadAgain(t) \/ SecondCommit(t) PROVE FALSE
  BY <1>0, <1>7 DEF ReadAgain, SecondCommit
<1>8. CASE UNCHANGED vars
  BY <1>8 DEF vars, server, client, PageInv, Covered, Writes
<1> QED
  BY <1>2, <1>3, <1>4, <1>5, <1>6, <1>7, <1>8 DEF Next, Handler

(* Where every handler has one transaction, a tab that sends If-Match      *)
(* writes over nothing but what its page showed or what it was told the    *)
(* version of: it is refused, however the edits, the loads, the offline    *)
(* saves and the answers interleave.                                       *)
THEOREM NothingOverwritten ==
  ASSUME Kinds = {"single"}
  PROVE  Spec => NoSilentOverwrite
<1>1. Init => PageInv
  BY TabsAssumption DEF Init, PageInv, Covered, NoEdit, At
<1>2. SafeSingle /\ PageInv /\ [Next]_vars => PageInv'
  BY PageStep
<1>3. SafeSingle /\ PageInv /\ [Next]_vars =>
        [\A t \in Tabs : Winning(t) => Writes \subseteq edit[t].basis \cup edit[t].unshown]_vars
  <2> SUFFICES ASSUME SafeSingle, PageInv, [Next]_vars, NEW t \in Tabs, Winning(t)
               PROVE  Writes \subseteq edit[t].basis \cup edit[t].unshown
    OBVIOUS
  <2>1. At(t, "touched") /\ Conditional(t) /\ edit[t].match = plan
    BY OnlyCommitWrites DEF Winning
  <2>2. 1 .. edit[t].match \subseteq Carried(t)
    BY <2>1 DEF PageInv, At, Conditional
  <2> QED  BY <2>1, <2>2 DEF Carried, Writes
<1> QED  BY <1>1, <1>2, <1>3, SafeSingleKept, PTL DEF Spec, NoSilentOverwrite

-----------------------------------------------------------------------------
(* The order of the trip: its stops stay numbered from 0 without gaps,     *)
(* nothing but a reorder swaps two stops, and renumberings that do not     *)
(* overlap swap no days.                                                   *)

(* A table whose rows are numbered from 0 without gaps or repetitions.     *)
Perm(f) ==
  /\ f \in [DOMAIN f -> Nat] /\ IsFiniteSet(DOMAIN f)
  /\ \A i, j \in DOMAIN f : i # j => f[i] # f[j]
  /\ Values(f) = 0 .. Size(f) - 1

-----------------------------------------------------------------------------
(* An enumeration of a finite set uses every number it may.                *)
LEMMA PlacedFills ==
  ASSUME NEW ids, IsFiniteSet(ids), NEW n \in Nat, NEW f \in Placed(ids, n)
  PROVE  /\ f \in [ids -> Nat] /\ Cardinality(ids) \in Nat
         /\ \A i \in ids : f[i] \in n .. n + Cardinality(ids) - 1
         /\ \A i, j \in ids : i # j => f[i] # f[j]
         /\ {f[i] : i \in ids} = n .. n + Cardinality(ids) - 1
<1> DEFINE T == n .. n + Cardinality(ids) - 1
<1>1. Cardinality(ids) \in Nat
  BY FS_CardinalityType
<1>2. IsFiniteSet(T) /\ Cardinality(T) = Cardinality(ids)
  <2>1. n \in Int /\ n + Cardinality(ids) - 1 \in Int
    BY <1>1
  <2>2. Cardinality(T) = IF n > n + Cardinality(ids) - 1 THEN 0
                         ELSE (n + Cardinality(ids) - 1) - n + 1
    BY <2>1, FS_Interval
  <2>3. IsFiniteSet(T)
    BY <2>1, FS_Interval
  <2> HIDE DEF T
  <2> QED  BY <1>1, <2>2, <2>3
<1>3. f \in [ids -> T] /\ \A i, j \in ids : i # j => f[i] # f[j]
  BY DEF Placed
<1>4. f \in Injection(ids, T)
  BY <1>3 DEF Injection, IsInjective
<1>5. f \in Surjection(ids, T)
  BY <1>2, <1>4, FS_Injection
<1>6. {f[i] : i \in ids} = T
  BY <1>3, <1>5 DEF Surjection
<1>7. T \subseteq Nat
  BY <1>1
<1> QED  BY <1>1, <1>3, <1>6, <1>7

LEMMA PlacedPerm ==
  ASSUME NEW ids, IsFiniteSet(ids), NEW f \in Placed(ids, 0)
  PROVE  DOMAIN f = ids /\ Perm(f)
<1>1. /\ f \in [ids -> Nat] /\ Cardinality(ids) \in Nat
      /\ \A i, j \in ids : i # j => f[i] # f[j]
      /\ {f[i] : i \in ids} = 0 .. Cardinality(ids) - 1
  BY PlacedFills
<1> QED  BY <1>1 DEF Perm, Values, Size

(* New rows numbered on from a table without gaps leave none.              *)
LEMMA AppendPerm ==
  ASSUME NEW p, Perm(p), NEW ids, IsFiniteSet(ids), ids \cap DOMAIN p = {},
         NEW f \in Placed(ids, Size(p))
  PROVE  /\ DOMAIN Joined(p, f) = DOMAIN p \cup ids /\ Perm(Joined(p, f))
         /\ \A i \in DOMAIN p : Joined(p, f)[i] = p[i]
<1> DEFINE n == Size(p)
           m == Cardinality(ids)
           q == Joined(p, f)
<1>1. n \in Nat /\ m \in Nat
  BY FS_CardinalityType DEF Perm, Size
<1>2. /\ f \in [ids -> Nat] /\ \A i \in ids : f[i] \in n .. n + m - 1
      /\ \A i, j \in ids : i # j => f[i] # f[j]
      /\ {f[i] : i \in ids} = n .. n + m - 1
  BY <1>1, PlacedFills
<1>3. /\ DOMAIN q = DOMAIN p \cup ids /\ \A i \in DOMAIN p : q[i] = p[i]
      /\ \A i \in ids : q[i] = f[i]
  BY <1>2 DEF Joined
<1>4. IsFiniteSet(DOMAIN q) /\ Size(q) = n + m
  <2>1. IsFiniteSet(DOMAIN p \cup ids)
        /\ Cardinality(DOMAIN p \cup ids) = n + m - Cardinality(DOMAIN p \cap ids)
    BY FS_Union DEF Perm, Size
  <2>2. Cardinality(DOMAIN p \cap ids) = 0
    BY FS_EmptySet
  <2>3. DOMAIN q = DOMAIN p \cup ids
    BY <1>3
  <2> HIDE DEF n, m, q
  <2> QED  BY <1>1, <2>1, <2>2, <2>3 DEF Size
<1>5. q \in [DOMAIN q -> Nat]
  <2>1. \A i \in DOMAIN p : p[i] \in Nat
    BY DEF Perm
  <2>2. \A i \in DOMAIN f : f[i] \in Nat
    BY <1>2
  <2> QED  BY <2>1, <2>2 DEF Joined
<1>6. \A i \in DOMAIN p : p[i] \in 0 .. n - 1
  BY DEF Perm, Values
<1>7. \A i, j \in DOMAIN q : i # j => q[i] # q[j]
  BY <1>1, <1>2, <1>3, <1>6 DEF Perm
<1>8. Values(q) = Values(p) \cup {f[i] : i \in ids}
  BY <1>3 DEF Values
<1>9. Values(q) = 0 .. Size(q) - 1
  <2>1. Values(p) = 0 .. n - 1 /\ Values(q) = Values(p) \cup (n .. n + m - 1)
    BY <1>2, <1>8 DEF Perm
  <2> HIDE DEF n, m, q
  <2> QED  BY <1>1, <1>4, <2>1
<1> QED  BY <1>3, <1>4, <1>5, <1>7, <1>9 DEF Perm

(* Moving the rows behind a deleted one up closes its gap.                 *)
LEMMA CompactPerm ==
  ASSUME NEW p, Perm(p), NEW i \in DOMAIN p,
         NEW g, g = [j \in DOMAIN p \ {i} |-> IF p[j] > p[i] THEN p[j] - 1 ELSE p[j]]
  PROVE  Perm(g)
<1> DEFINE n == Size(p)
<1>1. n \in Nat /\ IsFiniteSet(DOMAIN g) /\ Size(g) = n - 1
  BY FS_CardinalityType, FS_RemoveElement DEF Perm, Size
<1>2. \A j \in DOMAIN p : p[j] \in 0 .. n - 1
  BY DEF Perm, Values
<1>3. \A j \in DOMAIN g : j \in DOMAIN p /\ j # i /\ p[j] # p[i]
  BY DEF Perm
<1> HIDE DEF n
<1>4. \A j \in DOMAIN g : g[j] \in 0 .. n - 2
  BY <1>1, <1>2, <1>3
<1>5. \A j, k \in DOMAIN g : j # k => g[j] # g[k]
  <2> SUFFICES ASSUME NEW j \in DOMAIN g, NEW k \in DOMAIN g, j # k PROVE g[j] # g[k]
    OBVIOUS
  <2>1. p[j] # p[k] /\ p[j] # p[i] /\ p[k] # p[i]
    BY <1>3 DEF Perm
  <2>2. p[j] \in Nat /\ p[k] \in Nat /\ p[i] \in Nat
    BY <1>1, <1>2, <1>3
  <2> QED  BY <2>1, <2>2
<1>6. ASSUME NEW v \in 0 .. n - 2 PROVE v \in Values(g)
  <2>0. \A w \in 0 .. n - 1 : \E j \in DOMAIN p : p[j] = w
    BY DEF Perm, Values, n
  <2>1. CASE v < p[i]
    <3>1. PICK j \in DOMAIN p : p[j] = v
      BY <1>1, <2>0
    <3>2. j # i /\ g[j] = v
      BY <1>1, <1>2, <2>1, <3>1
    <3> QED  BY <3>1, <3>2 DEF Values
  <2>2. CASE v >= p[i]
    <3>1. PICK j \in DOMAIN p : p[j] = v + 1
      BY <1>1, <2>0
    <3>2. j # i /\ g[j] = v
      BY <1>1, <1>2, <2>2, <3>1
    <3> QED  BY <3>1, <3>2 DEF Values
  <2> QED  BY <1>1, <1>2, <2>1, <2>2
<1>7. Values(g) = 0 .. Size(g) - 1
  BY <1>1, <1>4, <1>6 DEF Values
<1>8. g \in [DOMAIN g -> Nat]
  BY <1>1, <1>4
<1> QED  BY <1>1, <1>5, <1>7, <1>8 DEF Perm

-----------------------------------------------------------------------------
(* TypeOK with the transactions as a set of records.                       *)
Tables(ids) == UNION {[rows -> Nat] : rows \in SUBSET ids}
Txs == [
  at : {"idle", "read", "reread", "renumber"},
  edit : {"add", "delete", "reorder", "replace", "append", "create_day", "delete_day"},
  stale : BOOLEAN,
  goal : Nat,
  rows : SUBSET (StopIds \cup DayIds),
  seen : Tables(StopIds \cup DayIds),
  want : Tables(StopIds \cup DayIds)]

Typed ==
  /\ position \in Tables(StopIds) /\ number \in Tables(DayIds)
  /\ tx \in [Editors -> Txs]
  /\ overtaken \in BOOLEAN

(* What an edit that may still be written has read is what there is.       *)
Fresh(e) ==
  Reached(e, "read") /\ ~tx[e].stale =>
    /\ tx[e].edit \in {"add", "append", "replace"} => tx[e].rows \subseteq StopIds \ Stops
    /\ tx[e].edit \in {"add", "append"} => tx[e].goal = Size(position)
    /\ tx[e].edit = "delete" => \E i \in Stops : tx[e].rows = {i} /\ tx[e].goal = position[i]
    /\ tx[e].edit \in {"reorder", "append"} =>
         tx[e].seen = position /\ tx[e].want \in Placed(Stops, 0)
    /\ tx[e].edit = "append" => SameOrder(position, tx[e].want)

(* New days have identifiers of days, whatever else has happened.          *)
DaysMade(e) ==
  Reached(e, "read") /\ tx[e].edit = "create_day" => tx[e].rows \subseteq DayIds

OrderInv ==
  /\ Typed /\ Perm(position)
  /\ \A e \in Editors : Fresh(e) /\ DaysMade(e)

LEMMA InTables ==
  ASSUME NEW f, NEW ids
  PROVE  f \in Tables(ids) <=> f \in [DOMAIN f -> Nat] /\ DOMAIN f \subseteq ids
BY DEF Tables

LEMMA IdsFinite ==
  /\ \A ids \in SUBSET StopIds : IsFiniteSet(ids)
  /\ \A ids \in SUBSET DayIds : IsFiniteSet(ids)
BY OrderAssumption, FS_Subset

LEMMA IdleTyped == Idle \in Txs /\ Idle.at = "idle"
<1>1. NoRows \in Tables(StopIds \cup DayIds)
  BY InTables DEF NoRows
<1> QED  BY <1>1 DEF Idle, Txs

-----------------------------------------------------------------------------
(* A request that reads starts up to date, and disturbs no other.          *)
LEMMA ReadKeeps ==
  ASSUME OrderInv, NEW e \in Editors, NEW t \in Txs, Read(e, t),
         t.edit \in {"add", "append", "replace"} => t.rows \subseteq StopIds \ Stops,
         t.edit \in {"add", "append"} => t.goal = Size(position),
         t.edit = "delete" => \E i \in Stops : t.rows = {i} /\ t.goal = position[i],
         t.edit \in {"reorder", "append"} => t.seen = position /\ t.want \in Placed(Stops, 0),
         t.edit = "append" => SameOrder(position, t.want),
         t.edit = "create_day" => t.rows \subseteq DayIds
  PROVE  OrderInv'
<1>1. tx \in [Editors -> Txs]
  BY DEF OrderInv, Typed
<1>2. /\ tx' \in [Editors -> Txs] /\ tx'[e] = t /\ \A f \in Editors \ {e} : tx'[f] = tx[f]
      /\ position' = position /\ number' = number /\ overtaken' = overtaken
  BY <1>1 DEF Read
<1>3. Fresh(e)' /\ DaysMade(e)'
  BY <1>2 DEF Fresh, DaysMade, Reached, Stops, Size, SameOrder
<1>4. ASSUME NEW f \in Editors \ {e} PROVE Fresh(f)' /\ DaysMade(f)'
  <2>1. Fresh(f) /\ DaysMade(f)
    BY DEF OrderInv
  <2> QED  BY <1>2, <2>1 DEF Fresh, DaysMade, Reached, Stops, Size, SameOrder
<1> QED  BY <1>2, <1>3, <1>4 DEF OrderInv, Typed

LEMMA ReadsKeep ==
  ASSUME OrderInv, NEW e \in Editors,
         \/ AddStop(e) \/ DeleteStop(e) \/ ReorderStops(e) \/ ReplaceStops(e) \/ AppendStops(e)
         \/ CreateDay(e) \/ DeleteDay(e)
  PROVE  OrderInv' /\ position' = position
<1>0. /\ Stops \subseteq StopIds /\ DayRows \subseteq DayIds /\ position \in Tables(StopIds)
      /\ IsFiniteSet(Stops) /\ Size(position) \in Nat /\ Perm(position)
      /\ \A i \in Stops : position[i] \in Nat
  <2>1. position \in Tables(StopIds) /\ number \in Tables(DayIds) /\ Perm(position)
    BY DEF OrderInv, Typed
  <2>2. Stops \subseteq StopIds /\ DayRows \subseteq DayIds
    BY <2>1, InTables DEF Stops, DayRows
  <2>3. IsFiniteSet(Stops) /\ position \in [Stops -> Nat]
    BY <2>1 DEF Perm, Stops
  <2> QED  BY <2>1, <2>2, <2>3, FS_CardinalityType DEF Size, Stops
<1>1. position \in Tables(StopIds \cup DayIds)
  BY <1>0, InTables
<1>2. ASSUME NEW f \in Placed(Stops, 0) PROVE f \in Tables(StopIds \cup DayIds)
  BY <1>0, <1>2, PlacedFills, InTables
<1>3. position' = position
  BY DEF AddStop, DeleteStop, ReorderStops, ReplaceStops, AppendStops, CreateDay, DeleteDay, Read
<1>a. CASE AddStop(e)
  <2>1. PICK i \in StopIds \ Stops :
          Read(e, [Doing("add") EXCEPT !.goal = Size(position), !.rows = {i}])
    BY <1>a DEF AddStop, NewIds
  <2> DEFINE t == [Doing("add") EXCEPT !.goal = Size(position), !.rows = {i}]
  <2>2. t \in Txs /\ t.edit = "add" /\ t.rows = {i} /\ t.goal = Size(position)
    BY <1>0, IdleTyped DEF Doing, Txs, Idle
  <2> HIDE DEF t
  <2> QED  BY <1>3, <2>1, <2>2, ReadKeeps DEF t
<1>b. CASE DeleteStop(e)
  <2>1. PICK i \in Stops : Read(e, [Doing("delete") EXCEPT !.goal = position[i], !.rows = {i}])
    BY <1>b DEF DeleteStop
  <2> DEFINE t == [Doing("delete") EXCEPT !.goal = position[i], !.rows = {i}]
  <2>2. t \in Txs /\ t.edit = "delete" /\ t.rows = {i} /\ t.goal = position[i]
    BY <1>0, IdleTyped DEF Doing, Txs, Idle
  <2> HIDE DEF t
  <2> QED  BY <1>3, <2>1, <2>2, ReadKeeps DEF t
<1>c. CASE ReorderStops(e)
  <2>1. PICK f \in Placed(Stops, 0) :
          Read(e, [Doing("reorder") EXCEPT !.seen = position, !.want = f])
    BY <1>c DEF ReorderStops
  <2> DEFINE t == [Doing("reorder") EXCEPT !.seen = position, !.want = f]
  <2>2. t \in Txs /\ t.edit = "reorder" /\ t.seen = position /\ t.want = f
    BY <1>1, <1>2, IdleTyped DEF Doing, Txs, Idle
  <2> HIDE DEF t
  <2> QED  BY <1>3, <2>1, <2>2, ReadKeeps DEF t
<1>d. CASE ReplaceStops(e)
  <2>1. PICK new \in SUBSET (StopIds \ Stops) : Read(e, [Doing("replace") EXCEPT !.rows = new])
    BY <1>d DEF ReplaceStops, NewIds
  <2> DEFINE t == [Doing("replace") EXCEPT !.rows = new]
  <2>2. t \in Txs /\ t.edit = "replace" /\ t.rows = new
    BY IdleTyped DEF Doing, Txs, Idle
  <2> HIDE DEF t
  <2> QED  BY <1>3, <2>1, <2>2, ReadKeeps DEF t
<1>e. CASE AppendStops(e)
  <2>1. PICK f \in Placed(Stops, 0), new \in SUBSET (StopIds \ Stops) :
          /\ \A i, j \in Stops : position[i] < position[j] => f[i] < f[j]
          /\ Read(e, [Doing("append") EXCEPT !.goal = Size(position), !.rows = new,
                                             !.seen = position, !.want = f])
    BY <1>e DEF AppendStops, NewIds
  <2> DEFINE t == [Doing("append") EXCEPT !.goal = Size(position), !.rows = new,
                                          !.seen = position, !.want = f]
  <2>2. /\ t \in Txs /\ t.edit = "append" /\ t.rows = new /\ t.goal = Size(position)
        /\ t.seen = position /\ t.want = f
    BY <1>0, <1>1, <1>2, IdleTyped DEF Doing, Txs, Idle
  <2>3. SameOrder(position, f)
    <3>1. DOMAIN f = Stops /\ \A i \in Stops : f[i] \in Nat
      BY <1>0, PlacedFills
    <3>2. \A i, j \in Stops : position[i] < position[j] <=> f[i] < f[j]
      <4> SUFFICES ASSUME NEW i \in Stops, NEW j \in Stops
                   PROVE  position[i] < position[j] <=> f[i] < f[j]
        OBVIOUS
      <4>1. i # j => position[i] # position[j]
        BY <1>0 DEF Perm, Stops
      <4>2. position[i] \in Nat /\ position[j] \in Nat /\ f[i] \in Nat /\ f[j] \in Nat
        BY <1>0, <3>1
      <4> QED  BY <2>1, <4>1, <4>2
    <3> QED  BY <3>1, <3>2 DEF SameOrder
  <2> HIDE DEF t
  <2> QED  BY <1>3, <2>1, <2>2, <2>3, ReadKeeps DEF t
<1>f. CASE CreateDay(e)
  <2>1. PICK d \in DayIds \ DayRows, n \in 1 .. LastNumber :
          Read(e, [Doing("create_day") EXCEPT !.goal = n, !.rows = {d}])
    BY <1>f DEF CreateDay, NewIds
  <2> DEFINE t == [Doing("create_day") EXCEPT !.goal = n, !.rows = {d}]
  <2>2. t \in Txs /\ t.edit = "create_day" /\ t.rows = {d}
    <3>1. n \in Nat /\ {d} \in SUBSET (StopIds \cup DayIds)
      BY OrderAssumption
    <3> QED  BY <3>1, IdleTyped DEF Doing, Txs, Idle
  <2> HIDE DEF t
  <2> QED  BY <1>3, <2>1, <2>2, ReadKeeps DEF t
<1>g. CASE DeleteDay(e)
  <2>1. PICK d \in DayRows : Read(e, [Doing("delete_day") EXCEPT !.rows = {d}])
    BY <1>g DEF DeleteDay
  <2> DEFINE t == [Doing("delete_day") EXCEPT !.rows = {d}]
  <2>2. t \in Txs /\ t.edit = "delete_day" /\ t.rows = {d}
    BY <1>0, IdleTyped DEF Doing, Txs, Idle
  <2> HIDE DEF t
  <2> QED  BY <1>3, <2>1, <2>2, ReadKeeps DEF t
<1> QED  BY <1>a, <1>b, <1>c, <1>d, <1>e, <1>f, <1>g, <1>3

-----------------------------------------------------------------------------
(* Writing.                                                                *)
LEMMA UpdatedTyped ==
  ASSUME NEW ids, NEW table \in Tables(ids), NEW seen, NEW more, NEW want \in Tables(more)
  PROVE  Updated(table, seen, want) \in Tables(ids)
<1>1. table \in [DOMAIN table -> Nat] /\ DOMAIN table \subseteq ids
  BY InTables
<1>2. \A i \in DOMAIN want : want[i] \in Nat
  BY InTables
<1>3. Updated(table, seen, want) \in [DOMAIN table -> Nat]
  BY <1>1, <1>2 DEF Updated, Changed
<1> QED  BY <1>1, <1>3, InTables

(* An up-to-date request that gives every stop a new place gives them all  *)
(* the places it has chosen.                                               *)
LEMMA UpdatedAll ==
  ASSUME NEW p, Perm(p), NEW want \in Placed(DOMAIN p, 0)
  PROVE  Updated(p, p, want) = want
<1>1. want \in [DOMAIN p -> Nat]
  BY PlacedFills DEF Perm
<1>2. \A i \in DOMAIN p : Updated(p, p, want)[i] = want[i]
  BY <1>1 DEF Updated, Changed
<1> QED  BY <1>1, <1>2 DEF Updated

(* However a request writes the stops, they are numbered without gaps, and *)
(* unless it reorders, those that stay keep their order.                   *)
LEMMA WritePositions ==
  ASSUME OrderInv, NEW e \in Editors, Write(e)
  PROVE  /\ Perm(position') /\ DOMAIN position' \subseteq StopIds
         /\ Does(e, "reorder") \/ SameOrder(position, position')
<1> DEFINE t == tx[e]
<1>0. /\ Perm(position) /\ Stops = DOMAIN position /\ Stops \subseteq StopIds
      /\ IsFiniteSet(Stops) /\ Size(position) \in Nat
      /\ \A i \in Stops : position[i] \in Nat
  <2>1. Perm(position) /\ position \in Tables(StopIds)
    BY DEF OrderInv, Typed
  <2> QED  BY <2>1, InTables, FS_CardinalityType DEF Perm, Size, Stops
<1>1. Reached(e, "read") /\ ~t.stale /\ Fresh(e) /\ position' \in NewPositions(e)
  BY DEF Write, UpToDate, OrderInv
<1>2. t \in Txs
  BY DEF OrderInv, Typed
<1>3. SameOrder(position, position)
  BY DEF SameOrder
<1>4. ASSUME NEW f, Perm(f), DOMAIN f = Stops, NEW ids \in SUBSET (StopIds \ Stops),
             position' \in {Joined(f, g) : g \in Placed(ids, Size(f))}, SameOrder(position, f)
      PROVE  /\ Perm(position') /\ DOMAIN position' \subseteq StopIds
             /\ SameOrder(position, position')
  <2>1. PICK g \in Placed(ids, Size(f)) : position' = Joined(f, g)
    BY <1>4
  <2>2. IsFiniteSet(ids) /\ ids \cap DOMAIN f = {}
    BY <1>4, IdsFinite
  <2>3. /\ DOMAIN position' = Stops \cup ids /\ Perm(position')
        /\ \A i \in Stops : position'[i] = f[i]
    BY <1>4, <2>1, <2>2, AppendPerm
  <2>4. SameOrder(position, position')
    BY <1>0, <1>4, <2>3 DEF SameOrder
  <2> QED  BY <1>0, <2>3, <2>4
<1>a. CASE t.edit = "add"
  <2>1. position' \in {Joined(position, g) : g \in Placed(t.rows, Size(position))}
    BY <1>1, <1>a DEF NewPositions, Does, Inserted, Fresh
  <2>2. t.rows \in SUBSET (StopIds \ Stops)
    BY <1>1, <1>a DEF Fresh
  <2> HIDE DEF t
  <2> QED  BY <1>0, <1>3, <1>4, <2>1, <2>2
<1>b. CASE t.edit = "delete"
  <2>1. PICK i \in Stops : t.rows = {i} /\ t.goal = position[i]
    BY <1>1, <1>b DEF Fresh
  <2>2. position' = [j \in Stops \ {i} |->
                       IF position[j] > position[i] THEN position[j] - 1 ELSE position[j]]
    BY <1>1, <1>b, <2>1 DEF NewPositions, Does, Compacted
  <2>3. Perm(position')
    BY <1>0, <2>2, CompactPerm DEF Stops
  <2>4. SameOrder(position, position')
    <3> SUFFICES ASSUME NEW j \in Stops \ {i}, NEW k \in Stops \ {i}
                 PROVE  position[j] < position[k] <=> position'[j] < position'[k]
      BY <1>0, <2>2 DEF SameOrder
    <3>1. /\ position[j] \in Nat /\ position[k] \in Nat /\ position[i] \in Nat
          /\ position[j] # position[i] /\ position[k] # position[i]
      BY <1>0 DEF Perm
    <3>2. /\ position'[j] = IF position[j] > position[i] THEN position[j] - 1 ELSE position[j]
          /\ position'[k] = IF position[k] > position[i] THEN position[k] - 1 ELSE position[k]
      BY <2>2
    <3> QED  BY <3>1, <3>2
  <2> QED  BY <1>0, <2>2, <2>3, <2>4
<1>c. CASE t.edit = "reorder"
  <2>1. t.seen = position /\ t.want \in Placed(Stops, 0)
    BY <1>1, <1>c DEF Fresh
  <2>2. position' = t.want
    BY <1>0, <1>1, <1>c, <2>1, UpdatedAll DEF NewPositions, Does
  <2> QED  BY <1>0, <1>1, <1>c, <2>1, <2>2, PlacedPerm DEF Does
<1>d. CASE t.edit = "replace"
  <2>1. t.rows \subseteq StopIds \ Stops /\ position' \in Placed(t.rows, 0)
    BY <1>1, <1>d DEF Fresh, NewPositions, Does
  <2>2. IsFiniteSet(t.rows)
    BY <2>1, IdsFinite
  <2>3. Perm(position') /\ DOMAIN position' = t.rows
    BY <2>1, <2>2, PlacedPerm
  <2> QED  BY <1>0, <2>1, <2>3 DEF SameOrder
<1>e. CASE t.edit = "append"
  <2>1. /\ t.rows \in SUBSET (StopIds \ Stops) /\ t.goal = Size(position)
        /\ t.seen = position /\ t.want \in Placed(Stops, 0) /\ SameOrder(position, t.want)
    BY <1>1, <1>e DEF Fresh
  <2>2. Updated(position, t.seen, t.want) = t.want
    BY <1>0, <2>1, UpdatedAll
  <2>3. Perm(t.want) /\ DOMAIN t.want = Stops
    BY <1>0, <2>1, PlacedPerm
  <2>4. Size(t.want) = Size(position)
    BY <1>0, <2>3 DEF Size
  <2>5. position' \in {Joined(t.want, g) : g \in Placed(t.rows, Size(t.want))}
    BY <1>1, <1>e, <2>1, <2>2, <2>4 DEF NewPositions, Does, Inserted
  <2> HIDE DEF t
  <2> QED  BY <1>4, <2>1, <2>3, <2>5
<1>f. CASE t.edit \in {"create_day", "delete_day"}
  <2>1. position' = position
    BY <1>1, <1>f DEF NewPositions, Does
  <2> QED  BY <1>0, <1>3, <2>1
<1> QED  BY <1>2, <1>a, <1>b, <1>c, <1>d, <1>e, <1>f DEF Txs

LEMMA WriteNumbers ==
  ASSUME OrderInv, NEW e \in Editors, Write(e)
  PROVE  number' \in Tables(DayIds)
<1>0. /\ number \in Tables(DayIds) /\ tx[e] \in Txs /\ DaysMade(e)
      /\ number \in [DayRows -> Nat] /\ DayRows \subseteq DayIds
  BY InTables DEF OrderInv, Typed, DayRows
<1>1. number' \in NewNumbers(e)
  BY DEF Write
<1>2. CASE Does(e, "create_day")
  <2>1. tx[e].rows \subseteq DayIds /\ tx[e].goal \in Nat
    BY <1>0, <1>2 DEF Does, DaysMade, Txs
  <2>0. number' \in Inserted(number, e)
    BY <1>1, <1>2 DEF NewNumbers, Does
  <2>2. PICK f \in Placed(tx[e].rows, tx[e].goal) : number' = Joined(number, f)
    BY <2>0 DEF Inserted
  <2>3. f \in [tx[e].rows -> Nat]
    BY <2>1, IdsFinite, PlacedFills
  <2>4. number' \in [DayRows \cup tx[e].rows -> Nat]
    BY <1>0, <2>2, <2>3 DEF Joined
  <2> QED  BY <1>0, <2>1, <2>4, InTables
<1>3. CASE Does(e, "delete_day")
  <2>1. number' = [d \in DayRows \ tx[e].rows |-> number[d]]
    BY <1>1, <1>3 DEF NewNumbers, Does
  <2>2. number' \in [DayRows \ tx[e].rows -> Nat]
    BY <1>0, <2>1
  <2> QED  BY <1>0, <2>2, InTables
<1>4. CASE ~Does(e, "create_day") /\ ~Does(e, "delete_day")
  BY <1>0, <1>1, <1>4 DEF NewNumbers
<1> QED  BY <1>2, <1>3, <1>4

(* After a write every other request is old, so nothing is claimed of it.  *)
LEMMA WriteKeeps ==
  ASSUME OrderInv, NEW e \in Editors, Write(e)
  PROVE  OrderInv'
<1>1. Perm(position') /\ DOMAIN position' \subseteq StopIds /\ number' \in Tables(DayIds)
  BY WritePositions, WriteNumbers
<1>2. position' \in Tables(StopIds)
  BY <1>1, InTables DEF Perm
<1> DEFINE t == IF Does(e, "delete_day") THEN [Idle EXCEPT !.at = "reread"] ELSE Idle
<1>3. tx \in [Editors -> Txs] /\ \A f \in Editors : tx[f] \in Txs
  BY DEF OrderInv, Typed
<1>4. t \in Txs /\ t.at # "read"
  BY IdleTyped DEF Txs
<1>5. tx' = [f \in Editors |-> IF f = e THEN t ELSE [tx[f] EXCEPT !.stale = ~Reached(f, "idle")]]
  BY DEF Write, Bumped
<1> HIDE DEF t
<1>6. \A f \in Editors : [tx[f] EXCEPT !.stale = ~Reached(f, "idle")] \in Txs
  BY <1>3 DEF Txs
<1>7. tx' \in [Editors -> Txs]
  BY <1>4, <1>5, <1>6
<1>8. tx'[e].at # "read"
  BY <1>4, <1>5
<1>9. \A f \in Editors \ {e} :
        /\ tx'[f].at = tx[f].at /\ tx'[f].edit = tx[f].edit /\ tx'[f].rows = tx[f].rows
        /\ tx'[f].stale = (tx[f].at # "idle")
  BY <1>3, <1>5 DEF Txs, Reached
<1>10. \A f \in Editors : Fresh(f)'
  BY <1>8, <1>9 DEF Fresh, Reached
<1>11. \A f \in Editors : DaysMade(f)'
  BY <1>8, <1>9 DEF DaysMade, OrderInv, Reached
<1>12. overtaken' \in BOOLEAN
  BY DEF Write, OrderInv, Typed
<1> QED  BY <1>1, <1>2, <1>7, <1>10, <1>11, <1>12 DEF OrderInv, Typed

(* The second transaction of delete_day, and a request that ends.          *)
LEMMA RestKeeps ==
  ASSUME OrderInv, NEW e \in Editors, RereadDays(e) \/ RenumberDays(e) \/ Refused(e)
  PROVE  OrderInv' /\ position' = position
<1>0. /\ position \in Tables(StopIds) /\ number \in Tables(DayIds) /\ Perm(position)
      /\ tx \in [Editors -> Txs] /\ tx[e] \in Txs /\ \A f \in Editors : Fresh(f) /\ DaysMade(f)
  BY DEF OrderInv, Typed
<1>1. position' = position
  BY DEF RereadDays, RenumberDays, Refused
<1>t. overtaken' \in BOOLEAN
  BY DEF RereadDays, RenumberDays, Refused, OrderInv, Typed
<1>2. ASSUME NEW t \in Txs, t.at # "read", tx' = [tx EXCEPT ![e] = t], number' \in Tables(DayIds)
      PROVE  OrderInv'
  <2>1. tx' \in [Editors -> Txs] /\ tx'[e] = t /\ \A f \in Editors \ {e} : tx'[f] = tx[f]
    BY <1>0, <1>2
  <2>2. \A f \in Editors : Fresh(f)' /\ DaysMade(f)'
    BY <1>0, <1>1, <1>2, <2>1 DEF Fresh, DaysMade, Reached, Stops, Size, SameOrder
  <2> QED  BY <1>0, <1>1, <1>t, <1>2, <2>1, <2>2 DEF OrderInv, Typed
<1>3. CASE RereadDays(e)
  <2> DEFINE ranks == [d \in DayRows |-> Rank(d)]
             t == [tx[e] EXCEPT !.at = "renumber", !.seen = number, !.want = ranks]
  <2>1. DayRows \subseteq DayIds /\ IsFiniteSet(DayRows)
    BY <1>0, InTables, IdsFinite DEF DayRows
  <2>2. \A d \in DayRows : Rank(d) \in Nat
    <3> SUFFICES ASSUME NEW d \in DayRows PROVE Rank(d) \in Nat
      OBVIOUS
    <3> DEFINE before == {c \in DayRows : number[c] < number[d]}
    <3>1. IsFiniteSet(before)
      BY <2>1, FS_Subset
    <3>2. Cardinality(before) \in Nat
      BY <3>1, FS_CardinalityType
    <3> QED  BY <3>2 DEF Rank
  <2>3. ranks \in [DayRows -> Nat]
    BY <2>2
  <2> HIDE DEF ranks
  <2>4. ranks \in Tables(StopIds \cup DayIds) /\ number \in Tables(StopIds \cup DayIds)
    BY <1>0, <2>1, <2>3, InTables
  <2>5. t \in Txs /\ t.at = "renumber"
    BY <1>0, <2>4 DEF Txs
  <2>6. tx' = [tx EXCEPT ![e] = t] /\ number' = number
    BY <1>0, <1>3 DEF RereadDays, Txs, ranks
  <2> HIDE DEF t
  <2> QED  BY <1>0, <1>1, <1>2, <2>5, <2>6
<1>4. CASE RenumberDays(e)
  <2>1. number' \in Tables(DayIds)
    <3>1. tx[e].want \in Tables(StopIds \cup DayIds)
      BY <1>0 DEF Txs
    <3> QED  BY <1>0, <1>4, <3>1, UpdatedTyped DEF RenumberDays
  <2> QED  BY <1>1, <1>2, <1>4, <2>1, IdleTyped DEF RenumberDays
<1>5. CASE Refused(e)
  BY <1>0, <1>1, <1>2, <1>5, IdleTyped DEF Refused
<1> QED  BY <1>1, <1>3, <1>4, <1>5

-----------------------------------------------------------------------------
(* Day numbers: from 1 on, and no two the same.                            *)
Numbered(f) ==
  /\ \A d \in DOMAIN f : f[d] \in Nat \ {0}
  /\ \A c, d \in DOMAIN f : c # d => f[c] # f[d]

(* A day in the making comes behind all there are, and nobody has read it. *)
(* Renumbering lifts no number; only one that was overtaken can.           *)
Making(e) == Reached(e, "read") /\ tx[e].edit = "create_day"
Behind(e) ==
  Making(e) =>
    /\ tx[e].goal >= 1 /\ \E d \in DayIds : tx[e].rows = {d}
    /\ ~tx[e].stale =>
         /\ tx[e].rows \cap DayRows = {}
         /\ \A f \in Editors : Reached(f, "renumber") => tx[e].rows \cap DOMAIN tx[f].seen = {}
         /\ ~overtaken => \A c \in DayRows : number[c] < tx[e].goal

(* What a renumbering wants closes the gaps in what it has read.           *)
Closes(e) ==
  Reached(e, "renumber") =>
    /\ DOMAIN tx[e].want = DOMAIN tx[e].seen
    /\ \A d \in DOMAIN tx[e].seen :
         tx[e].want[d] \in Nat \ {0} /\ tx[e].seen[d] \in Nat /\ tx[e].want[d] <= tx[e].seen[d]
    /\ SameOrder(tx[e].seen, tx[e].want)

(* As long as none overtakes another, the days it has read have the        *)
(* numbers it has read, and those made since come behind them.             *)
Current(e) ==
  Reached(e, "renumber") =>
    /\ \A d \in DOMAIN tx[e].seen \cap DayRows : number[d] = tx[e].seen[d]
    /\ \A d \in DOMAIN tx[e].seen \cap DayRows : \A c \in DayRows \ DOMAIN tx[e].seen :
         number[d] < number[c]

DayInv ==
  /\ Numbered(number)
  /\ \A e \in Editors : Behind(e) /\ Closes(e) /\ (~overtaken => Current(e))

(* Ranks are numbers in the same order, and none is above what it ranks.   *)
LEMMA Ranks ==
  ASSUME IsFiniteSet(DayRows), Numbered(number), NEW d \in DayRows
  PROVE  /\ Rank(d) \in Nat \ {0} /\ Rank(d) <= number[d]
         /\ \A c \in DayRows : number[c] < number[d] => Rank(c) < Rank(d)
<1> DEFINE Below(c) == {b \in DayRows : number[b] < number[c]}
<1>1. \A c \in DayRows : IsFiniteSet(Below(c)) /\ Cardinality(Below(c)) \in Nat
  <2> SUFFICES ASSUME NEW c \in DayRows
               PROVE  IsFiniteSet(Below(c)) /\ Cardinality(Below(c)) \in Nat
    OBVIOUS
  <2>1. IsFiniteSet(Below(c))
    BY FS_Subset
  <2> HIDE DEF Below
  <2> QED  BY <2>1, FS_CardinalityType
<1>2. \A c \in DayRows : Rank(c) = 1 + Cardinality(Below(c))
  BY DEF Rank
<1>3. \A b, c \in DayRows :
        number[b] \in Nat /\ number[b] >= 1 /\ (b # c => number[b] # number[c])
  BY DEF Numbered, DayRows
<1>4. Cardinality(Below(d)) <= number[d] - 1
  <2>1. 1 \in Int /\ number[d] - 1 \in Int
    BY <1>3
  <2>2. /\ IsFiniteSet(1 .. number[d] - 1)
        /\ Cardinality(1 .. number[d] - 1) = number[d] - 1
    <3>1. Cardinality(1 .. number[d] - 1)
            = IF 1 > number[d] - 1 THEN 0 ELSE (number[d] - 1) - 1 + 1
      BY <2>1, FS_Interval
    <3>2. IsFiniteSet(1 .. number[d] - 1)
      BY <2>1, FS_Interval
    <3> QED  BY <1>3, <3>1, <3>2
  <2> DEFINE T == 1 .. number[d] - 1
             f == [b \in Below(d) |-> number[b]]
  <2>3. f \in [Below(d) -> T] /\ \A b, c \in Below(d) : b # c => f[b] # f[c]
    BY <1>3
  <2>4. IsFiniteSet(T) /\ Cardinality(T) = number[d] - 1
    BY <2>2
  <2> SUFFICES ASSUME ~(Cardinality(Below(d)) <= number[d] - 1) PROVE FALSE
    OBVIOUS
  <2>5. Cardinality(T) < Cardinality(Below(d)) /\ IsFiniteSet(Below(d))
    BY <1>1, <1>3, <2>4
  <2> HIDE DEF T, f, Below
  <2> QED  BY <2>3, <2>4, <2>5, FS_PigeonHole
<1>5. ASSUME NEW c \in DayRows, number[c] < number[d] PROVE Rank(c) < Rank(d)
  <2>1. Below(c) \in SUBSET Below(d) /\ c \in Below(d) /\ c \notin Below(c)
    BY <1>3, <1>5
  <2> HIDE DEF Below
  <2>2. /\ Cardinality(Below(c)) <= Cardinality(Below(d))
        /\ Cardinality(Below(c)) # Cardinality(Below(d))
    BY <1>1, <2>1, FS_Subset
  <2> QED  BY <1>1, <1>2, <2>2
<1> HIDE DEF Below
<1> QED  BY <1>1, <1>2, <1>3, <1>4, <1>5

(* A flush leaves no two rows with one value.                              *)
LEMMA FlushedNumbers ==
  ASSUME NEW old, Numbered(old), NEW new, Flushable(old, new),
         DOMAIN old \subseteq Nat, DOMAIN new \subseteq Nat,
         \A d \in DOMAIN new : new[d] \in Nat \ {0}
  PROVE  Numbered(new)
<1> SUFFICES ASSUME NEW c \in DOMAIN new, NEW d \in DOMAIN new, c < d
             PROVE  new[c] # new[d]
  BY DEF Numbered
<1>1. CASE c \notin DOMAIN old \/ d \notin DOMAIN old
  BY <1>1 DEF Flushable
<1>2. CASE c \in DOMAIN old /\ d \in DOMAIN old
  <2>1. new[d] # old[d] => new[d] # new[c]
    BY <1>2 DEF Flushable
  <2>2. new[c] # old[c] => new[c] # old[d]
    BY <1>2 DEF Flushable
  <2> QED  BY <1>2, <2>1, <2>2 DEF Numbered
<1> QED  BY <1>1, <1>2

(* A request that reads has read no days but the last number.              *)
LEMMA DayReads ==
  ASSUME OrderInv, DayInv, NEW e \in Editors,
         \/ AddStop(e) \/ DeleteStop(e) \/ ReorderStops(e) \/ ReplaceStops(e) \/ AppendStops(e)
         \/ CreateDay(e) \/ DeleteDay(e)
  PROVE  DayInv' /\ number' = number
<1>0. tx \in [Editors -> Txs]
  BY DEF OrderInv, Typed
<1> DEFINE Reads(kind) ==
      /\ tx[e].at = "idle" /\ number' = number /\ overtaken' = overtaken
      /\ tx'[e].at = "read" /\ tx'[e].edit = kind
      /\ \A f \in Editors \ {e} : tx'[f] = tx[f]
<1>a. AddStop(e) => Reads("add")
  BY <1>0 DEF AddStop, Read, Reached, Doing, Idle
<1>b. DeleteStop(e) => Reads("delete")
  BY <1>0 DEF DeleteStop, Read, Reached, Doing, Idle
<1>c. ReorderStops(e) => Reads("reorder")
  BY <1>0 DEF ReorderStops, Read, Reached, Doing, Idle
<1>d. ReplaceStops(e) => Reads("replace")
  BY <1>0 DEF ReplaceStops, Read, Reached, Doing, Idle
<1>e. AppendStops(e) => Reads("append")
  BY <1>0 DEF AppendStops, Read, Reached, Doing, Idle
<1>f. CreateDay(e) => Reads("create_day")
  BY <1>0 DEF CreateDay, Read, Reached, Doing, Idle
<1>g. DeleteDay(e) => Reads("delete_day")
  BY <1>0 DEF DeleteDay, Read, Reached, Doing, Idle
<1>2. /\ tx[e].at = "idle" /\ number' = number /\ overtaken' = overtaken
      /\ tx'[e].at = "read" /\ (tx'[e].edit = "create_day" => CreateDay(e))
  BY <1>a, <1>b, <1>c, <1>d, <1>e, <1>f, <1>g
<1>3. \A f \in Editors \ {e} : tx'[f] = tx[f]
  BY <1>a, <1>b, <1>c, <1>d, <1>e, <1>f, <1>g
<1>4. \A f \in Editors :
        Reached(f, "renumber")' => f # e /\ Reached(f, "renumber") /\ tx'[f] = tx[f]
  BY <1>2, <1>3 DEF Reached
<1>5. \A f \in Editors : Closes(f)' /\ (~overtaken' => Current(f)')
  BY <1>2, <1>4 DEF DayInv, Closes, Current, DayRows, Reached, SameOrder
<1>6. \A f \in Editors \ {e} : Behind(f)'
  BY <1>2, <1>3, <1>4 DEF DayInv, Behind, Making, DayRows, Reached
<1>7. ASSUME tx'[e].edit = "create_day" PROVE Behind(e)'
  <2>1. PICK d \in NewIds(DayIds \ DayRows), n \in 1 .. LastNumber :
          NextNumber(n) /\ Read(e, [Doing("create_day") EXCEPT !.goal = n, !.rows = {d}])
    BY <1>2, <1>7 DEF CreateDay
  <2>2. tx' = [tx EXCEPT ![e] = [Doing("create_day") EXCEPT !.goal = n, !.rows = {d}]]
    BY <2>1 DEF Read
  <2>3. tx'[e].goal = n /\ tx'[e].rows = {d}
    BY <1>0, <2>2 DEF Doing, Idle
  <2>4. d \in DayIds \ DayRows /\ \A f \in Editors : d \notin DOMAIN tx[f].seen
    BY DEF NewIds
  <2>5. \A c \in DayRows : number[c] < n
    BY <2>1 DEF NextNumber, Values, DayRows
  <2>6. n >= 1
    BY OrderAssumption
  <2> QED  BY <1>2, <1>4, <2>3, <2>4, <2>5, <2>6 DEF Behind, DayRows, Reached
<1>8. Behind(e)'
  BY <1>3, <1>7 DEF Behind, Making
<1>9. Numbered(number)'
  BY <1>2 DEF DayInv
<1> QED  BY <1>2, <1>5, <1>6, <1>8, <1>9 DEF DayInv

(* A write makes every other request old; a new day comes behind all, and  *)
(* what is deleted leaves the others where they are.                       *)
LEMMA DayWrites ==
  ASSUME OrderInv, DayInv, NEW e \in Editors, Write(e)
  PROVE  DayInv' /\ SameOrder(number, number')
<1> DEFINE t == IF Does(e, "delete_day") THEN [Idle EXCEPT !.at = "reread"] ELSE Idle
<1>1. /\ tx \in [Editors -> Txs] /\ tx[e] \in Txs /\ DOMAIN number' \subseteq DayIds
      /\ number \in [DayRows -> Nat] /\ DayRows \subseteq DayIds
      /\ tx' = [f \in Editors |-> IF f = e THEN t ELSE [tx[f] EXCEPT !.stale = ~Reached(f, "idle")]]
      /\ overtaken' = overtaken /\ Reached(e, "read") /\ ~tx[e].stale
      /\ number' \in NewNumbers(e) /\ Flushable(number, number')
  BY WriteNumbers, InTables DEF Write, UpToDate, Bumped, OrderInv, Typed, DayRows
<1>2. t.at \in {"idle", "reread"}
  BY DEF Idle
<1> HIDE DEF t
<1>3. /\ tx'[e].at \in {"idle", "reread"}
      /\ \A f \in Editors \ {e} :
           /\ tx'[f].at = tx[f].at /\ tx'[f].edit = tx[f].edit /\ tx'[f].rows = tx[f].rows
           /\ tx'[f].goal = tx[f].goal /\ tx'[f].seen = tx[f].seen /\ tx'[f].want = tx[f].want
           /\ tx'[f].stale = (tx[f].at # "idle")
  BY <1>1, <1>2 DEF Txs, Reached
<1>4. \A f \in Editors : Reached(f, "renumber")' =>
        /\ Reached(f, "renumber") /\ tx'[f].seen = tx[f].seen /\ tx'[f].want = tx[f].want
  BY <1>3 DEF Reached
(* The rows there were keep their numbers, those added come behind.        *)
<1>5. /\ \A d \in DOMAIN number' : number'[d] \in Nat \ {0}
      /\ \A d \in DayRows \cap DOMAIN number' : number'[d] = number[d]
      /\ \A d \in DOMAIN number' \ DayRows :
           /\ \A f \in Editors : Reached(f, "renumber") => d \notin DOMAIN tx[f].seen
           /\ ~overtaken => \A c \in DayRows : number[c] < number'[d]
  <2>0. \A d \in DayRows : number[d] \in Nat \ {0}
    BY DEF DayInv, Numbered, DayRows
  <2>1. CASE Does(e, "create_day")
    <3>0. Behind(e) /\ Making(e) /\ tx[e].goal \in Nat
      BY <1>1, <2>1 DEF DayInv, Making, Does, Txs
    <3>1. PICK d \in DayIds : tx[e].rows = {d}
      BY <3>0 DEF Behind
    <3>2. number' \in Inserted(number, e)
      BY <1>1, <2>1 DEF NewNumbers, Does
    <3>3. PICK f \in Placed({d}, tx[e].goal) : number' = Joined(number, f)
      BY <3>1, <3>2 DEF Inserted
    <3>4. IsFiniteSet({d}) /\ Cardinality({d}) = 1
      BY FS_Singleton
    <3>5. f \in [{d} -> Nat] /\ f[d] = tx[e].goal
      BY <3>0, <3>3, <3>4, PlacedFills
    <3>6. /\ DOMAIN number' = DayRows \cup {d}
          /\ \A c \in DayRows : number'[c] = number[c]
          /\ d \notin DayRows => number'[d] = tx[e].goal
      BY <1>1, <3>3, <3>5 DEF Joined, DayRows
    <3>7. /\ tx[e].goal >= 1 /\ d \notin DayRows
          /\ \A g \in Editors : Reached(g, "renumber") => d \notin DOMAIN tx[g].seen
          /\ ~overtaken => \A c \in DayRows : number[c] < tx[e].goal
      BY <1>1, <3>0, <3>1 DEF Behind
    <3> QED  BY <2>0, <3>0, <3>6, <3>7
  <2>2. CASE Does(e, "delete_day")
    <3>1. number' = [d \in DayRows \ tx[e].rows |-> number[d]]
      BY <1>1, <2>2 DEF NewNumbers, Does
    <3> QED  BY <2>0, <3>1
  <2>3. CASE ~Does(e, "create_day") /\ ~Does(e, "delete_day")
    <3>1. number' = number
      BY <1>1, <2>3 DEF NewNumbers
    <3> QED  BY <2>0, <3>1 DEF DayRows
  <2> QED  BY <2>1, <2>2, <2>3
<1>6. Numbered(number')
  <2>1. DOMAIN number \subseteq Nat /\ DOMAIN number' \subseteq Nat
    BY <1>1, OrderAssumption DEF DayRows
  <2> QED  BY <1>1, <1>5, <2>1, FlushedNumbers DEF DayInv
<1>7. \A f \in Editors : Behind(f)'
  BY <1>3 DEF DayInv, Behind, Making, Reached
<1>8. \A f \in Editors : Closes(f)'
  BY <1>4 DEF DayInv, Closes
<1>9. ASSUME NEW f \in Editors, ~overtaken PROVE Current(f)'
  <2> SUFFICES ASSUME Reached(f, "renumber")'
               PROVE  /\ \A d \in DOMAIN tx[f].seen \cap DOMAIN number' : number'[d] = tx[f].seen[d]
                      /\ \A d \in DOMAIN tx[f].seen \cap DOMAIN number' :
                           \A c \in DOMAIN number' \ DOMAIN tx[f].seen : number'[d] < number'[c]
    BY <1>4 DEF Current, DayRows
  <2>1. Current(f) /\ Reached(f, "renumber")
    BY <1>4, <1>9 DEF DayInv
  <2>2. \A d \in DOMAIN tx[f].seen \cap DOMAIN number' :
          d \in DayRows /\ number'[d] = number[d] /\ number[d] = tx[f].seen[d]
    BY <1>5, <2>1 DEF Current
  <2>3. \A d \in DOMAIN tx[f].seen \cap DOMAIN number' :
          \A c \in DOMAIN number' \ DOMAIN tx[f].seen : number[d] < number'[c]
    BY <1>5, <1>9, <2>1, <2>2 DEF Current
  <2> QED  BY <2>2, <2>3
<1>10. SameOrder(number, number')
  BY <1>5 DEF SameOrder, DayRows
<1> QED  BY <1>1, <1>6, <1>7, <1>8, <1>9, <1>10 DEF DayInv

(* The second transaction of delete_day, and a request that ends.          *)
LEMMA DaysReread ==
  ASSUME OrderInv, DayInv, NEW e \in Editors, RereadDays(e)
  PROVE  DayInv' /\ number' = number
<1>1. /\ tx \in [Editors -> Txs] /\ number \in Tables(DayIds) /\ Reached(e, "reread")
      /\ number' = number /\ overtaken' = overtaken
      /\ tx' = [tx EXCEPT ![e].at = "renumber", ![e].seen = number,
                          ![e].want = [d \in DayRows |-> Rank(d)]]
  BY DEF RereadDays, OrderInv, Typed
<1>2. DayRows \subseteq DayIds /\ IsFiniteSet(DayRows) /\ Numbered(number)
  BY <1>1, InTables, IdsFinite DEF DayRows, DayInv
<1> DEFINE ranks == [d \in DayRows |-> Rank(d)]
<1>3. /\ tx'[e].at = "renumber" /\ tx'[e].seen = number /\ tx'[e].want = ranks
      /\ \A f \in Editors \ {e} : tx'[f] = tx[f]
  BY <1>1 DEF Txs
<1>4. /\ \A d \in DayRows : Rank(d) \in Nat \ {0} /\ Rank(d) <= number[d]
      /\ \A c, d \in DayRows : number[c] < number[d] => Rank(c) < Rank(d)
  BY <1>2, Ranks
<1>5. \A c, d \in DayRows : /\ number[c] \in Nat /\ (c # d => number[c] # number[d])
                            /\ number[c] < number[d] <=> Rank(c) < Rank(d)
  <2>1. \A c, d \in DayRows : number[c] \in Nat /\ (c # d => number[c] # number[d])
    BY <1>2 DEF Numbered, DayRows
  <2>2. ASSUME NEW c \in DayRows, NEW d \in DayRows, Rank(c) < Rank(d), ~(number[c] < number[d])
        PROVE  FALSE
    <3>1. Rank(c) \in Nat /\ Rank(d) \in Nat /\ (number[d] < number[c] => Rank(d) < Rank(c))
      BY <1>4
    <3> HIDE DEF Rank
    <3>2. c # d
      BY <2>2, <3>1
    <3> QED  BY <2>1, <2>2, <3>1, <3>2
  <2> QED  BY <1>4, <2>1, <2>2
<1>6. SameOrder(number, ranks)
  BY <1>5 DEF SameOrder, DayRows
<1>7. Closes(e)'
  BY <1>3, <1>4, <1>5, <1>6 DEF Closes, DayRows
<1>8. Current(e)'
  BY <1>1, <1>3 DEF Current, DayRows
<1> HIDE DEF ranks
<1>9. \A f \in Editors \ {e} : Closes(f)' /\ (~overtaken' => Current(f)')
  BY <1>1, <1>3 DEF DayInv, Closes, Current, DayRows, Reached
<1>10. \A f \in Editors : Behind(f)'
  <2> SUFFICES ASSUME NEW f \in Editors, Making(f)' PROVE Behind(f)'
    BY DEF Behind
  <2>1. f # e /\ tx'[f] = tx[f] /\ Making(f) /\ Behind(f)
    BY <1>3 DEF DayInv, Making, Reached
  <2>2. ~tx[f].stale =>
          \A g \in Editors : Reached(g, "renumber")' => tx[f].rows \cap DOMAIN tx'[g].seen = {}
    BY <1>3, <2>1 DEF Behind, Reached, DayRows
  <2> QED  BY <1>1, <2>1, <2>2 DEF Behind, DayRows
<1> QED  BY <1>1, <1>2, <1>7, <1>8, <1>9, <1>10 DEF DayInv

(* Unless it is overtaken, renumbering gives every day it has read the     *)
(* place it wants, and lifts none of them over a day behind.               *)
LEMMA DaysRenumbered ==
  ASSUME OrderInv, DayInv, NEW e \in Editors, RenumberDays(e)
  PROVE  DayInv' /\ (overtaken \/ SameOrder(number, number'))
<1>1. /\ tx \in [Editors -> Txs] /\ number \in Tables(DayIds) /\ Reached(e, "renumber")
      /\ number' = Updated(number, tx[e].seen, tx[e].want) /\ Flushable(number, number')
      /\ tx' = [tx EXCEPT ![e] = Idle] /\ overtaken \in BOOLEAN
      /\ overtaken' = (overtaken \/ \E f \in Editors \ {e} : Reached(f, "renumber"))
  BY DEF RenumberDays, OrderInv, Typed
<1>2. tx'[e] = Idle /\ tx'[e].at = "idle" /\ \A f \in Editors \ {e} : tx'[f] = tx[f]
  BY <1>1, IdleTyped
<1>3. /\ DOMAIN number' = DayRows /\ DayRows \subseteq DayIds
      /\ \A d \in DayRows : number'[d] = IF d \in Changed(tx[e].seen, tx[e].want)
                                         THEN tx[e].want[d] ELSE number[d]
  BY <1>1, InTables DEF Updated, DayRows
<1>4. Closes(e) /\ Numbered(number) /\ \A d \in DayRows : number[d] \in Nat \ {0}
  BY DEF DayInv, Numbered, DayRows
<1>5. \A d \in DOMAIN number' : number'[d] \in Nat \ {0}
  BY <1>1, <1>3, <1>4 DEF Closes, Changed
<1>6. Numbered(number')
  <2>1. DOMAIN number \subseteq Nat /\ DOMAIN number' \subseteq Nat
    BY <1>3, OrderAssumption DEF DayRows
  <2> QED  BY <1>1, <1>4, <1>5, <2>1, FlushedNumbers
<1>7. ASSUME ~overtaken
      PROVE  /\ \A d \in DayRows \cap DOMAIN tx[e].seen :
                  number'[d] = tx[e].want[d] /\ number[d] = tx[e].seen[d]
             /\ \A d \in DayRows \ DOMAIN tx[e].seen : number'[d] = number[d]
             /\ \A d \in DayRows : number'[d] \in Nat /\ number'[d] <= number[d]
             /\ \A d \in DayRows \cap DOMAIN tx[e].seen :
                  \A c \in DayRows \ DOMAIN tx[e].seen : number[d] < number[c]
  <2>1. Current(e)
    BY <1>7 DEF DayInv
  <2>2. \A d \in DayRows \cap DOMAIN tx[e].seen :
          number'[d] = tx[e].want[d] /\ number[d] = tx[e].seen[d]
    BY <1>1, <1>3, <1>4, <2>1 DEF Current, Closes, Changed
  <2>3. \A d \in DayRows \ DOMAIN tx[e].seen : number'[d] = number[d]
    BY <1>3 DEF Changed
  <2>4. \A d \in DayRows : number'[d] \in Nat /\ number'[d] <= number[d]
    BY <1>1, <1>3, <1>4, <1>5, <2>2, <2>3 DEF Closes
  <2> QED  BY <1>1, <2>1, <2>2, <2>3, <2>4 DEF Current
<1>8. ASSUME ~overtaken PROVE SameOrder(number, number')
  <2> SUFFICES ASSUME NEW c \in DayRows, NEW d \in DayRows
               PROVE  number[c] < number[d] <=> number'[c] < number'[d]
    BY <1>3 DEF SameOrder, DayRows
  <2>0. number[c] \in Nat /\ number[d] \in Nat /\ number'[c] \in Nat /\ number'[d] \in Nat
    BY <1>3, <1>4, <1>5
  <2>1. CASE c \in DOMAIN tx[e].seen /\ d \in DOMAIN tx[e].seen
    <3>1. DOMAIN tx[e].want = DOMAIN tx[e].seen /\ SameOrder(tx[e].seen, tx[e].want)
      BY <1>1, <1>4 DEF Closes
    <3>2. tx[e].seen[c] < tx[e].seen[d] <=> tx[e].want[c] < tx[e].want[d]
      BY <2>1, <3>1 DEF SameOrder
    <3> QED  BY <1>7, <1>8, <2>1, <3>2
  <2>2. CASE c \in DOMAIN tx[e].seen /\ d \notin DOMAIN tx[e].seen
    <3>1. number[c] < number[d] /\ number'[c] <= number[c] /\ number'[d] = number[d]
      BY <1>7, <1>8, <2>2
    <3> QED  BY <2>0, <3>1
  <2>3. CASE c \notin DOMAIN tx[e].seen /\ d \in DOMAIN tx[e].seen
    <3>1. number[d] < number[c] /\ number'[d] <= number[d] /\ number'[c] = number[c]
      BY <1>7, <1>8, <2>3
    <3> QED  BY <2>0, <3>1
  <2>4. CASE c \notin DOMAIN tx[e].seen /\ d \notin DOMAIN tx[e].seen
    BY <1>7, <1>8, <2>4
  <2> QED  BY <2>1, <2>2, <2>3, <2>4
<1>9. \A f \in Editors : Closes(f)'
  BY <1>2 DEF DayInv, Closes, Reached
<1>10. ASSUME NEW f \in Editors, ~overtaken' PROVE Current(f)'
  <2>1. ~Reached(f, "renumber")'
    BY <1>1, <1>2, <1>10 DEF Reached
  <2> QED  BY <2>1 DEF Current
<1>11. ASSUME NEW f \in Editors PROVE Behind(f)'
  <2> SUFFICES ASSUME Making(f)' PROVE Behind(f)'
    BY DEF Behind
  <2>1. f # e /\ tx'[f] = tx[f] /\ Making(f) /\ Behind(f)
    BY <1>2 DEF DayInv, Making, Reached
  <2>2. \A g \in Editors : Reached(g, "renumber")' => Reached(g, "renumber") /\ tx'[g] = tx[g]
    BY <1>2 DEF Reached
  <2>3. ~tx[f].stale /\ ~overtaken' => \A c \in DayRows : number'[c] < tx[f].goal
    <3> SUFFICES ASSUME ~tx[f].stale, ~overtaken', NEW c \in DayRows
                 PROVE  number'[c] < tx[f].goal
      OBVIOUS
    <3>1. ~overtaken
      BY <1>1
    <3>2. number[c] < tx[f].goal /\ tx[f].goal \in Nat /\ number[c] \in Nat
      BY <1>1, <1>4, <2>1, <3>1 DEF Behind, Txs
    <3>3. number'[c] \in Nat /\ number'[c] <= number[c]
      BY <1>7, <3>1
    <3> QED  BY <3>2, <3>3
  <2> QED  BY <1>3, <2>1, <2>2, <2>3 DEF Behind, DayRows
<1> QED  BY <1>6, <1>8, <1>9, <1>10, <1>11 DEF DayInv

LEMMA DayRefused ==
  ASSUME OrderInv, DayInv, NEW e \in Editors, Refused(e)
  PROVE  DayInv' /\ number' = number
<1>1. /\ tx \in [Editors -> Txs] /\ number' = number /\ overtaken' = overtaken
      /\ tx' = [tx EXCEPT ![e] = Idle]
  BY DEF Refused, OrderInv, Typed
<1>2. tx'[e].at = "idle" /\ \A f \in Editors \ {e} : tx'[f] = tx[f]
  BY <1>1, IdleTyped
<1>3. \A f \in Editors : Closes(f)' /\ (~overtaken' => Current(f)')
  BY <1>1, <1>2 DEF DayInv, Closes, Current, DayRows, Reached, SameOrder
<1>4. \A f \in Editors : Behind(f)'
  BY <1>1, <1>2 DEF DayInv, Behind, Making, DayRows, Reached
<1> QED  BY <1>1, <1>3, <1>4 DEF DayInv

-----------------------------------------------------------------------------
LEMMA OrderInvKept == OrderSpec => []OrderInv
<1>1. OrderInit => OrderInv
  <2> SUFFICES ASSUME OrderInit PROVE OrderInv
    OBVIOUS
  <2>1. NoRows \in [{} -> Nat] /\ DOMAIN NoRows = {}
    BY DEF NoRows
  <2>2. position \in Tables(StopIds) /\ number \in Tables(DayIds)
    BY <2>1, InTables DEF OrderInit
  <2>3. Perm(position)
    <3>1. IsFiniteSet({}) /\ Cardinality({}) = 0
      BY FS_EmptySet
    <3> QED  BY <2>1, <3>1 DEF OrderInit, Perm, Values, Size
  <2>4. \A e \in Editors : tx[e].at # "read"
    BY IdleTyped DEF OrderInit
  <2> QED  BY <2>2, <2>3, <2>4, IdleTyped DEF OrderInit, OrderInv, Typed, Fresh, DaysMade, Reached
<1>2. OrderInv /\ [OrderNext]_orderVars => OrderInv'
  <2> SUFFICES ASSUME OrderInv, [OrderNext]_orderVars PROVE OrderInv'
    OBVIOUS
  <2>1. CASE UNCHANGED orderVars
    BY <2>1 DEF orderVars, OrderInv, Typed, Fresh, DaysMade, Reached, Stops, Size, SameOrder, Perm,
                Values
  <2> QED  BY <2>1, ReadsKeep, WriteKeeps, RestKeeps DEF OrderNext
<1> QED  BY <1>1, <1>2, PTL DEF OrderSpec

(* Every reachable state is well typed.                                    *)
THEOREM OrderTyped == OrderSpec => []OrderTypeOK
<1>1. OrderInv => OrderTypeOK
  <2> SUFFICES ASSUME OrderInv PROVE OrderTypeOK
    OBVIOUS
  <2>1. /\ position \in Tables(StopIds) /\ number \in Tables(DayIds) /\ tx \in [Editors -> Txs]
        /\ overtaken \in BOOLEAN
    BY DEF OrderInv, Typed
  <2>2. \A e \in Editors : TxTyped(tx[e])
    <3> SUFFICES ASSUME NEW e \in Editors PROVE TxTyped(tx[e])
      OBVIOUS
    <3>1. tx[e] \in Txs
      BY <2>1
    <3>2. Table(tx[e].seen, StopIds \cup DayIds) /\ Table(tx[e].want, StopIds \cup DayIds)
      BY <3>1, InTables DEF Txs, Table
    <3> QED  BY <3>1, <3>2 DEF Txs, TxTyped
  <2> QED  BY <2>1, <2>2, InTables DEF OrderTypeOK, Table
<1> QED  BY <1>1, OrderInvKept, PTL

(* The stops of a trip stay numbered from 0 without gaps, for any number   *)
(* of editors, whatever overlaps and whatever fails: a request writes only *)
(* when nobody has written since it read, and from such positions every    *)
(* edit makes such positions (docs/phase-2-implementation.md:85).          *)
THEOREM PositionsStayContiguous == OrderSpec => []PositionsContiguous
<1>1. OrderInv => PositionsContiguous
  BY DEF OrderInv, Perm, PositionsContiguous, Values, Size, Stops
<1> QED  BY <1>1, OrderInvKept, PTL

(* No edit but a reorder makes two stops swap places.                      *)
THEOREM OrderKept == OrderSpec => OnlyReorderReorders
<1>1. OrderInv /\ [OrderNext]_orderVars => [OrderStays]_orderVars
  <2> SUFFICES ASSUME OrderInv, OrderNext,
                      \A e \in Editors : Does(e, "reorder") => Does(e, "reorder")'
               PROVE  SameOrder(position, position')
    BY DEF orderVars, OrderStays
  <2>1. CASE position' = position
    BY <2>1 DEF SameOrder
  <2>2. ASSUME NEW e \in Editors, Write(e) PROVE SameOrder(position, position')
    <3>1. ~Does(e, "reorder")'
      <4>1. tx'[e].at # "read"
        BY <2>2, IdleTyped DEF Write, Bumped, Idle
      <4> QED  BY <4>1 DEF Does, Reached
    <3> QED  BY <2>2, <3>1, WritePositions
  <2> QED  BY <2>1, <2>2, ReadsKeep, RestKeeps DEF OrderNext
<1> QED  BY <1>1, OrderInvKept, PTL DEF OnlyReorderReorders, OrderSpec

LEMMA DayInvKept == OrderSpec => [](OrderInv /\ DayInv)
<1>1. OrderInit => DayInv
  BY IdleTyped DEF OrderInit, DayInv, Numbered, NoRows, Behind, Making, Closes, Current, Reached
<1>2. OrderInv /\ DayInv /\ [OrderNext]_orderVars => DayInv'
  <2> SUFFICES ASSUME OrderInv, DayInv, [OrderNext]_orderVars PROVE DayInv'
    OBVIOUS
  <2>1. CASE UNCHANGED orderVars
    BY <2>1 DEF orderVars, DayInv, Numbered, Behind, Making, Closes, Current, DayRows, Reached,
                SameOrder
  <2> QED  BY <2>1, DayReads, DayWrites, DaysReread, DaysRenumbered, DayRefused DEF OrderNext
<1> QED  BY <1>1, <1>2, OrderInvKept, PTL DEF OrderSpec

(* No two days swap places, whatever is created or deleted while a         *)
(* renumbering is between its read and its write, until one renumbering    *)
(* overtakes another (itinerary.py:196).                                   *)
THEOREM DayOrderKept == OrderSpec => DaysKeepOrder
<1>1. OrderInv /\ DayInv /\ [OrderNext]_orderVars => [DayOrderStays]_orderVars
  <2> SUFFICES ASSUME OrderInv, DayInv, OrderNext PROVE overtaken \/ SameOrder(number, number')
    BY DEF DayOrderStays
  <2>1. number' = number => SameOrder(number, number')
    BY DEF SameOrder
  <2> QED  BY <2>1, DayReads, DayWrites, DaysReread, DaysRenumbered, DayRefused DEF OrderNext
<1> QED  BY <1>1, DayInvKept, PTL DEF DaysKeepOrder, OrderSpec
=============================================================================
