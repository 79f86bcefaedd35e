---------------------------- MODULE AccessProofs ----------------------------
(***************************************************************************)
(* Theorems about who gets in: about Members, for any finite set of users, *)
(* any set of links and any number of requests at once, and about          *)
(* Sessions, the session of the tab such a request comes from, whatever    *)
(* the clock, the requests of its page and the bounds.                     *)
(***************************************************************************)
EXTENDS Members, Sessions, FiniteSetTheorems, TLAPS

Claims(r) == At(r, "claimed") \/ At(r, "inserted")
Admits(r) == At(r, "inserted") /\ tx[r].adds
Admitted(i) == {u \in Users : i \in via[u]}

(* A claim that is not committed is the only one on its link, which is     *)
(* neither used up nor revoked: others wait for the row.                   *)
ClaimInv ==
  /\ \A r \in Requests : Claims(r) => /\ invite[tx[r].by].uses < MaxUses
                                      /\ ~invite[tx[r].by].revoked
  /\ \A q, r \in Requests : q # r /\ Claims(q) /\ Claims(r) => tx[q].by # tx[r].by

(* A row of trip_members that is not committed is the only one with its    *)
(* key.                                                                    *)
InsertInv ==
  /\ \A r \in Requests : Admits(r) => member[tx[r].user] = Nobody
  /\ \A q, r \in Requests : q # r /\ Admits(q) /\ Admits(r) => tx[q].user # tx[r].user

MembersInv == TypeOK /\ ClaimInv /\ InsertInv /\ LinkLimit

-----------------------------------------------------------------------------
LEMMA IdleTyped == Idle \in Txs
BY InviteAssumption DEF Idle, Txs, Stages, Roles

(* What the steps that only move a request leave of it.                    *)
LEMMA TxAfter ==
  ASSUME TypeOK, NEW r \in Requests, NEW t \in Txs, Becomes(r, t)
  PROVE  /\ tx' \in [Requests -> Txs]
         /\ tx'[r] = t
         /\ \A q \in Requests \ {r} : tx'[q] = tx[q]
BY DEF TypeOK, Becomes

(* As long as members and links stay, a request that ends, or goes on      *)
(* without a claim, disturbs nothing.                                      *)
LEMMA Harmless ==
  ASSUME MembersInv, NEW r \in Requests, NEW t \in Txs, Becomes(r, t),
         t.at \notin {"claimed", "inserted"}, UNCHANGED <<member, via, invite>>
  PROVE  MembersInv'
<1>1. /\ tx' \in [Requests -> Txs]
      /\ tx'[r] = t
      /\ \A q \in Requests \ {r} : tx'[q] = tx[q]
  BY TxAfter DEF MembersInv
<1>2. TypeOK' /\ LinkLimit'
  BY <1>1 DEF MembersInv, TypeOK, LinkLimit
<1>3. ClaimInv' /\ InsertInv'
  BY <1>1 DEF MembersInv, ClaimInv, InsertInv, Claims, Admits, At
<1> QED  BY <1>2, <1>3 DEF MembersInv

LEMMA AdmittedFinite ==
  ASSUME NEW i \in Invites
  PROVE  IsFiniteSet(Admitted(i)) /\ Cardinality(Admitted(i)) \in Nat
BY InviteAssumption, FS_Subset, FS_CardinalityType DEF Admitted

(* The people admitted by a link are counted by its uses as long as no     *)
(* user's links grow.                                                      *)
LEMMA FewerAdmitted ==
  ASSUME MembersInv, NEW i \in Invites,
         \A u \in Users : via'[u] \subseteq via[u], invite'[i].uses = invite[i].uses
  PROVE  /\ invite'[i].uses <= MaxUses
         /\ Cardinality({u \in Users : i \in via'[u]}) <= invite'[i].uses
<1>1. {u \in Users : i \in via'[u]} \subseteq Admitted(i)
  BY DEF Admitted
<1>2. /\ Cardinality({u \in Users : i \in via'[u]}) <= Cardinality(Admitted(i))
      /\ Cardinality({u \in Users : i \in via'[u]}) \in Nat
  BY <1>1, AdmittedFinite, FS_Subset, FS_CardinalityType
<1>3. Cardinality(Admitted(i)) <= invite[i].uses /\ invite[i].uses <= MaxUses
  BY DEF MembersInv, LinkLimit, Admitted
<1>4. invite[i].uses \in Nat
  BY DEF MembersInv, TypeOK, InviteRows
<1> QED  BY <1>2, <1>3, <1>4, AdmittedFinite

(* Committing a claim admits at most one more person, for one more use.    *)
LEMMA JoinKeepsLimit ==
  ASSUME MembersInv, NEW r \in Requests, CommitJoin(r)
  PROVE  LinkLimit'
<1>1. /\ tx[r].by \in Invites /\ tx[r].user \in Users
      /\ invite[tx[r].by].uses \in Nat /\ MaxUses \in Nat
      /\ invite \in [Invites -> InviteRows] /\ via \in [Users -> SUBSET Invites]
  BY InviteAssumption DEF MembersInv, TypeOK, Txs, InviteRows
<1>2. invite[tx[r].by].uses < MaxUses
  BY DEF CommitJoin, MembersInv, ClaimInv, Claims
<1>3. invite' = [invite EXCEPT ![tx[r].by].uses = @ + 1]
  BY DEF CommitJoin
<1>4. \A u \in Users : via'[u] \subseteq via[u] \/ (u = tx[r].user /\ via'[u] = {tx[r].by})
  BY <1>1 DEF CommitJoin
<1> SUFFICES ASSUME NEW i \in Invites
             PROVE  /\ invite'[i].uses <= MaxUses
                    /\ Cardinality({u \in Users : i \in via'[u]}) <= invite'[i].uses
  BY DEF LinkLimit
<1> DEFINE joined == {u \in Users : i \in via'[u]}
<1>5. CASE i = tx[r].by
  <2>1. invite'[i].uses = invite[i].uses + 1
    BY <1>1, <1>3, <1>5 DEF InviteRows
  <2>2. joined \subseteq Admitted(i) \cup {tx[r].user}
    BY <1>4 DEF Admitted
  <2>3. /\ IsFiniteSet(Admitted(i) \cup {tx[r].user})
        /\ Cardinality(Admitted(i) \cup {tx[r].user}) <= Cardinality(Admitted(i)) + 1
        /\ Cardinality(Admitted(i) \cup {tx[r].user}) \in Nat
    <3>1. IsFiniteSet(Admitted(i)) /\ Cardinality(Admitted(i)) \in Nat
      BY AdmittedFinite
    <3>2. /\ IsFiniteSet(Admitted(i) \cup {tx[r].user})
          /\ \/ Cardinality(Admitted(i) \cup {tx[r].user}) = Cardinality(Admitted(i))
             \/ Cardinality(Admitted(i) \cup {tx[r].user}) = Cardinality(Admitted(i)) + 1
      BY <3>1, FS_AddElement
    <3> QED  BY <3>1, <3>2
  <2>4. /\ Cardinality(joined) <= Cardinality(Admitted(i) \cup {tx[r].user})
        /\ Cardinality(joined) \in Nat
    BY <2>2, <2>3, FS_Subset, FS_CardinalityType
  <2>5. Cardinality(Admitted(i)) <= invite[i].uses
    BY DEF MembersInv, LinkLimit, Admitted
  <2> QED  BY <1>1, <1>2, <1>5, <2>1, <2>3, <2>4, <2>5, AdmittedFinite
<1>6. CASE i # tx[r].by
  <2>1. invite'[i].uses = invite[i].uses
    BY <1>1, <1>3, <1>6
  <2>2. joined \subseteq Admitted(i)
    BY <1>4, <1>6 DEF Admitted
  <2>3. Cardinality(joined) <= Cardinality(Admitted(i)) /\ Cardinality(joined) \in Nat
    BY <2>2, AdmittedFinite, FS_Subset, FS_CardinalityType
  <2>4. Cardinality(Admitted(i)) <= invite[i].uses /\ invite[i].uses <= MaxUses
    BY DEF MembersInv, LinkLimit, Admitted
  <2>5. invite[i].uses \in Nat
    BY DEF MembersInv, TypeOK, InviteRows
  <2> QED  BY <2>1, <2>3, <2>4, <2>5, AdmittedFinite
<1> QED  BY <1>5, <1>6

-----------------------------------------------------------------------------
LEMMA InitOK == Init => MembersInv
<1> SUFFICES ASSUME Init PROVE MembersInv
  OBVIOUS
<1>1. TypeOK
  BY IdleTyped, InviteAssumption DEF Init, TypeOK, InviteRows, Roles
<1>2. ClaimInv /\ InsertInv
  BY DEF Init, ClaimInv, InsertInv, Claims, Admits, At, Idle
<1>3. \A i \in Invites : {u \in Users : i \in via[u]} = {} /\ invite[i].uses = 0
  BY DEF Init
<1>4. LinkLimit
  BY <1>3, FS_EmptySet, InviteAssumption DEF LinkLimit
<1> QED  BY <1>1, <1>2, <1>4 DEF MembersInv

(* The owner's changes to a link: none while somebody claims it, but for   *)
(* its expiry, which only those who come later notice.                     *)
LEMMA InviteSteps ==
  ASSUME MembersInv, NEW i \in Invites, CreateInvite(i) \/ RevokeInvite(i) \/ Expire(i)
  PROVE  MembersInv'
<1>1. UNCHANGED <<member, via, tx>>
  BY DEF CreateInvite, RevokeInvite, Expire
<1>2. invite \in [Invites -> InviteRows]
  BY DEF MembersInv, TypeOK
<1>3. invite' \in [Invites -> InviteRows] /\ \A j \in Invites : invite'[j].uses = invite[j].uses
  <2>1. CASE CreateInvite(i)
    <3>1. PICK role \in Roles : invite' = [invite EXCEPT ![i].state = "live", ![i].role = role]
      BY <2>1 DEF CreateInvite
    <3>2. [invite[i] EXCEPT !.state = "live", !.role = role] \in InviteRows
      BY <1>2 DEF InviteRows
    <3>3. invite' = [invite EXCEPT ![i] = [invite[i] EXCEPT !.state = "live", !.role = role]]
      BY <1>2, <3>1 DEF InviteRows
    <3> QED  BY <1>2, <3>2, <3>3 DEF InviteRows
  <2>2. CASE RevokeInvite(i)  BY <1>2, <2>2 DEF RevokeInvite, InviteRows
  <2>3. CASE Expire(i)        BY <1>2, <2>3 DEF Expire, InviteRows
  <2> QED  BY <2>1, <2>2, <2>3
<1>4. TypeOK' /\ LinkLimit'
  BY <1>1, <1>3, FewerAdmitted DEF MembersInv, TypeOK, LinkLimit
<1>5. \A r \in Requests : Claims(r) =>
         tx[r].by \in Invites /\ invite'[tx[r].by].revoked = invite[tx[r].by].revoked
  <2> SUFFICES ASSUME NEW r \in Requests, Claims(r)
               PROVE  /\ tx[r].by \in Invites
                      /\ invite'[tx[r].by].revoked = invite[tx[r].by].revoked
    OBVIOUS
  <2>1. tx[r].by \in Invites
    BY DEF MembersInv, TypeOK, Txs
  <2>2. CASE CreateInvite(i) \/ Expire(i)
    BY <1>2, <2>1, <2>2 DEF CreateInvite, Expire, InviteRows
  <2>3. CASE RevokeInvite(i)
    <3>1. tx[r].by # i
      BY <2>3 DEF RevokeInvite, Claims
    <3> QED  BY <1>2, <2>1, <2>3, <3>1 DEF RevokeInvite
  <2> QED  BY <2>1, <2>2, <2>3
<1>6. ClaimInv' /\ InsertInv'
  BY <1>1, <1>3, <1>5 DEF MembersInv, ClaimInv, InsertInv, Claims, Admits, At
<1> QED  BY <1>4, <1>6 DEF MembersInv

(* Steps that change members but never make one: who is no member stays    *)
(* none, so that no row that is being inserted meets another.              *)
LEMMA OwnerSteps ==
  ASSUME MembersInv, NEW r \in Requests, ChangeRole(r) \/ RemoveMember(r)
  PROVE  MembersInv'
<1>1. /\ tx' \in [Requests -> Txs]
      /\ tx'[r] = Idle
      /\ \A q \in Requests \ {r} : tx'[q] = tx[q]
  BY TxAfter, IdleTyped DEF MembersInv, ChangeRole, RemoveMember, Ends
<1>2. tx[r].user \in Users /\ tx[r].role \in Roles /\ invite' = invite
  BY DEF MembersInv, TypeOK, Txs, ChangeRole, RemoveMember
<1>3. TypeOK'
  BY <1>1, <1>2 DEF MembersInv, TypeOK, ChangeRole, RemoveMember, Roles, Nobody
<1>4. \A u \in Users : via'[u] \subseteq via[u] /\ (member[u] = Nobody => member'[u] = Nobody)
  BY <1>2 DEF MembersInv, TypeOK, ChangeRole, RemoveMember
<1>5. LinkLimit'
  BY <1>2, <1>4, FewerAdmitted DEF LinkLimit
<1>6. \A q \in Requests : tx[q].user \in Users
  BY DEF MembersInv, TypeOK, Txs
<1>7. ClaimInv' /\ InsertInv'
  BY <1>1, <1>2, <1>4, <1>6
     DEF MembersInv, ClaimInv, InsertInv, Claims, Admits, At, Idle
<1> QED  BY <1>3, <1>5, <1>7 DEF MembersInv

LEMMA StepOK == MembersInv /\ [Next]_vars => MembersInv'
<1> SUFFICES ASSUME MembersInv, [Next]_vars PROVE MembersInv'
  OBVIOUS
<1>t. \A r \in Requests : tx[r] \in Txs
  BY DEF MembersInv, TypeOK
<1>1. ASSUME NEW i \in Invites, CreateInvite(i) \/ RevokeInvite(i) \/ Expire(i) PROVE MembersInv'
  BY <1>1, InviteSteps
<1>2. ASSUME NEW r \in Requests, Accept(r) PROVE MembersInv'
  <2>1. PICK u \in Users, i \in Invites :
          Becomes(r, [Idle EXCEPT !.at = "usable", !.user = u, !.by = i, !.role = invite[i].role])
    BY <1>2 DEF Accept
  <2>2. invite[i].role \in Roles
    BY DEF MembersInv, TypeOK, InviteRows
  <2> DEFINE t == [Idle EXCEPT !.at = "usable", !.user = u, !.by = i, !.role = invite[i].role]
  <2>3. t \in Txs /\ t.at = "usable"
    BY <2>2, IdleTyped DEF Txs, Stages
  <2> QED  BY <1>2, <2>1, <2>3, Harmless DEF Accept
<1>3. ASSUME NEW r \in Requests, StartRoleChange(r) PROVE MembersInv'
  <2>1. PICK u \in Users, role \in Roles :
          Becomes(r, [Idle EXCEPT !.at = "role", !.user = u, !.role = role])
    BY <1>3 DEF StartRoleChange
  <2> DEFINE t == [Idle EXCEPT !.at = "role", !.user = u, !.role = role]
  <2>2. t \in Txs /\ t.at = "role"
    BY IdleTyped DEF Txs, Stages
  <2> QED  BY <1>3, <2>1, <2>2, Harmless DEF StartRoleChange
<1>4. ASSUME NEW r \in Requests, StartRemoval(r) PROVE MembersInv'
  <2>1. PICK u \in Users : Becomes(r, [Idle EXCEPT !.at = "remove", !.user = u])
    BY <1>4 DEF StartRemoval
  <2> DEFINE t == [Idle EXCEPT !.at = "remove", !.user = u]
  <2>2. t \in Txs /\ t.at = "remove"
    BY IdleTyped DEF Txs, Stages
  <2> QED  BY <1>4, <2>1, <2>2, Harmless DEF StartRemoval
<1>5. ASSUME NEW r \in Requests, LookUpMember(r) PROVE MembersInv'
  <2> DEFINE t == [tx[r] EXCEPT !.at = "newcomer"]
  <2>1. t \in Txs /\ t.at = "newcomer" /\ Idle.at = "idle"
    BY <1>t DEF Txs, Stages, Idle
  <2> QED  BY <1>5, <2>1, IdleTyped, Harmless DEF LookUpMember, Moves, Ends
<1>6. ASSUME NEW r \in Requests, RefuseClaim(r) \/ Fail(r) PROVE MembersInv'
  <2>1. Idle.at = "idle"
    BY DEF Idle
  <2> QED  BY <1>6, <2>1, IdleTyped, Harmless DEF RefuseClaim, Fail, Ends
<1>7. ASSUME NEW r \in Requests, ClaimUse(r) PROVE MembersInv'
  <2> DEFINE t == [tx[r] EXCEPT !.at = "claimed"]
  <2>1. t \in Txs /\ t.at = "claimed" /\ t.by = tx[r].by
    BY <1>t DEF Txs, Stages
  <2>2. /\ tx' \in [Requests -> Txs]
        /\ tx'[r] = t
        /\ \A q \in Requests \ {r} : tx'[q] = tx[q]
    BY <1>7, <2>1, TxAfter DEF MembersInv, ClaimUse, Moves
  <2>3. UNCHANGED <<member, via, invite>> /\ InviteFree(r, tx[r].by) /\ Usable(tx[r].by)
    BY <1>7 DEF ClaimUse
  <2>4. TypeOK' /\ LinkLimit'
    BY <2>2, <2>3 DEF MembersInv, TypeOK, LinkLimit
  <2> HIDE DEF t
  <2>5. ClaimInv'
    BY <2>1, <2>2, <2>3 DEF MembersInv, ClaimInv, Claims, At, InviteFree, Usable
  <2>6. InsertInv'
    BY <2>1, <2>2, <2>3 DEF MembersInv, InsertInv, Admits, At
  <2> QED  BY <2>4, <2>5, <2>6 DEF MembersInv
<1>8. ASSUME NEW r \in Requests, InsertMember(r) PROVE MembersInv'
  <2> DEFINE t == [tx[r] EXCEPT !.at = "inserted", !.adds = (member[tx[r].user] = Nobody)]
  <2>1. /\ t \in Txs /\ t.at = "inserted" /\ t.by = tx[r].by /\ t.user = tx[r].user
        /\ t.adds => member[tx[r].user] = Nobody
    BY <1>t DEF Txs, Stages
  <2>2. /\ tx' \in [Requests -> Txs]
        /\ tx'[r] = t
        /\ \A q \in Requests \ {r} : tx'[q] = tx[q]
    BY <1>8, <2>1, TxAfter DEF MembersInv, InsertMember
  <2>3. UNCHANGED <<member, via, invite>> /\ KeyFree(r, tx[r].user) /\ At(r, "claimed")
    BY <1>8 DEF InsertMember
  <2>4. TypeOK' /\ LinkLimit'
    BY <2>2, <2>3 DEF MembersInv, TypeOK, LinkLimit
  <2> HIDE DEF t
  <2>5. ClaimInv'
    BY <2>1, <2>2, <2>3 DEF MembersInv, ClaimInv, Claims, At
  <2>6. InsertInv'
    BY <2>1, <2>2, <2>3 DEF MembersInv, InsertInv, Admits, At, KeyFree
  <2> QED  BY <2>4, <2>5, <2>6 DEF MembersInv
<1>9. ASSUME NEW r \in Requests, CommitJoin(r) PROVE MembersInv'
  <2>1. /\ tx' \in [Requests -> Txs]
        /\ tx'[r] = Idle
        /\ \A q \in Requests \ {r} : tx'[q] = tx[q]
    BY <1>9, IdleTyped, TxAfter DEF MembersInv, CommitJoin, Ends
  <2>2. tx[r].by \in Invites /\ tx[r].user \in Users /\ tx[r].role \in Roles
    BY <1>t DEF Txs
  <2>3. TypeOK'
    <3>1. invite' \in [Invites -> InviteRows]
      BY <1>9, <2>2 DEF MembersInv, TypeOK, CommitJoin, InviteRows
    <3>2. /\ member' \in [Users -> Roles \cup {Nobody}] /\ via' \in [Users -> SUBSET Invites]
          /\ \A u \in Users : via'[u] = {} <=> member'[u] = Nobody
      BY <1>9, <2>2 DEF MembersInv, TypeOK, CommitJoin, Roles, Nobody
    <3> QED  BY <2>1, <3>1, <3>2 DEF TypeOK
  <2>4. \A q \in Requests \ {r} : Claims(q) => tx[q].by \in Invites /\ tx[q].by # tx[r].by
    BY <1>9, <1>t DEF MembersInv, ClaimInv, CommitJoin, Claims, Txs
  <2>5. \A i \in Invites \ {tx[r].by} : invite'[i] = invite[i]
    BY <1>9 DEF MembersInv, TypeOK, CommitJoin
  <2>6. ClaimInv'
    BY <2>1, <2>4, <2>5 DEF MembersInv, ClaimInv, Claims, At, Idle
  <2>7. \A q \in Requests \ {r} : Admits(q) => member'[tx[q].user] = Nobody
    BY <1>9, <1>t, <2>2 DEF MembersInv, InsertInv, CommitJoin, Admits, TypeOK, Txs
  <2>8. InsertInv'
    BY <2>1, <2>7 DEF MembersInv, InsertInv, Admits, At, Idle
  <2> QED  BY <1>9, <2>3, <2>6, <2>8, JoinKeepsLimit DEF MembersInv
<1>10. ASSUME NEW r \in Requests, ChangeRole(r) \/ RemoveMember(r) PROVE MembersInv'
  BY <1>10, OwnerSteps
<1>11. CASE UNCHANGED vars
  BY <1>11 DEF vars, MembersInv, TypeOK, ClaimInv, InsertInv, LinkLimit, Claims, Admits, At
<1> QED
  BY <1>1, <1>2, <1>3, <1>4, <1>5, <1>6, <1>7, <1>8, <1>9, <1>10, <1>11 DEF Next, Answer

-----------------------------------------------------------------------------
(* The invariant holds in every reachable state.                          *)
THEOREM MembersInvariant == Spec => []MembersInv
BY InitOK, StepOK, PTL DEF Spec

(* Every reachable state is well typed, and whoever is a member got in     *)
(* through a link.                                                         *)
THEOREM MembersTyped == Spec => []TypeOK
<1>1. MembersInv => TypeOK
  BY DEF MembersInv
<1> QED  BY <1>1, MembersInvariant, PTL

(* However many people accept a link at once, it admits at most MaxUses of *)
(* them.                                                                   *)
THEOREM LinksLimited == Spec => []LinkLimit
<1>1. MembersInv => LinkLimit
  BY DEF MembersInv
<1> QED  BY <1>1, MembersInvariant, PTL

(* A member changes only by the commit of an acceptance or by the owner's  *)
(* request.                                                                *)
LEMMA WhoChangesMembers ==
  ASSUME Next, member' # member
  PROVE  \E r \in Requests : CommitJoin(r) \/ ChangeRole(r) \/ RemoveMember(r)
<1>1. ASSUME NEW i \in Invites, CreateInvite(i) \/ RevokeInvite(i) \/ Expire(i) PROVE FALSE
  BY <1>1 DEF CreateInvite, RevokeInvite, Expire
<1>2. ASSUME NEW r \in Requests,
             \/ Accept(r) \/ StartRoleChange(r) \/ StartRemoval(r) \/ Fail(r)
             \/ LookUpMember(r) \/ ClaimUse(r) \/ RefuseClaim(r) \/ InsertMember(r)
      PROVE  FALSE
  BY <1>2 DEF Accept, StartRoleChange, StartRemoval, Fail, LookUpMember, ClaimUse, RefuseClaim,
              InsertMember
<1> QED  BY <1>1, <1>2 DEF Next, Answer

(* Once a revocation is committed, its link admits nobody.                 *)
THEOREM RevocationHolds == Spec => RevokedAdmitsNobody
<1> DEFINE Admission == \A u \in Users : member[u] = Nobody /\ member'[u] # Nobody =>
                          \E i \in via'[u] : ~invite[i].revoked
<1>1. MembersInv /\ [Next]_vars => [Admission]_vars
  <2> SUFFICES ASSUME MembersInv, Next,
                      NEW u \in Users, member[u] = Nobody, member'[u] # Nobody
               PROVE  \E i \in via'[u] : ~invite[i].revoked
    OBVIOUS
  <2>1. PICK r \in Requests : CommitJoin(r) \/ ChangeRole(r) \/ RemoveMember(r)
    BY WhoChangesMembers
  <2>2. member \in [Users -> Roles \cup {Nobody}] /\ via \in [Users -> SUBSET Invites]
    BY DEF MembersInv, TypeOK
  <2>3. ~ChangeRole(r) /\ ~RemoveMember(r)
    BY <2>2 DEF ChangeRole, RemoveMember
  <2>4. via'[u] = {tx[r].by}
    BY <2>1, <2>2, <2>3 DEF CommitJoin
  <2>5. ~invite[tx[r].by].revoked
    BY <2>1, <2>3 DEF CommitJoin, MembersInv, ClaimInv, Claims
  <2> QED  BY <2>4, <2>5
<1> QED  BY <1>1, MembersInvariant, PTL DEF Spec, RevokedAdmitsNobody

(* A member's role is changed by the owner's request and by nothing else.  *)
THEOREM RolesKept == Spec => OnlyOwnerChangesRoles
<1> DEFINE Kept == \A u \in Users : member[u] # Nobody /\ member'[u] \notin {Nobody, member[u]} =>
                     \E r \in Requests : At(r, "role") /\ tx[r].user = u /\ At(r, "idle")'
<1>1. MembersInv /\ [Next]_vars => [Kept]_vars
  <2> SUFFICES ASSUME MembersInv, Next, NEW u \in Users,
                      member[u] # Nobody, member'[u] \notin {Nobody, member[u]}
               PROVE  \E r \in Requests : At(r, "role") /\ tx[r].user = u /\ At(r, "idle")'
    OBVIOUS
  <2>1. PICK r \in Requests : CommitJoin(r) \/ ChangeRole(r) \/ RemoveMember(r)
    BY WhoChangesMembers
  <2>2. member \in [Users -> Roles \cup {Nobody}] /\ tx \in [Requests -> Txs]
    BY DEF MembersInv, TypeOK
  <2>3. ~RemoveMember(r)
    BY <2>2 DEF RemoveMember
  <2>4. ~CommitJoin(r)
    BY <2>2 DEF CommitJoin, MembersInv, InsertInv, Admits
  <2>5. At(r, "role") /\ tx[r].user = u /\ At(r, "idle")'
    BY <2>1, <2>2, <2>3, <2>4 DEF ChangeRole, Ends, Becomes, At, Idle
  <2> QED  BY <2>5
<1> QED  BY <1>1, MembersInvariant, PTL DEF Spec, OnlyOwnerChangesRoles

-----------------------------------------------------------------------------
(* The session: the tab is well typed, nobody waits for a refresh that is  *)
(* not under way, and a late refresh does not sign out who has just signed *)
(* in.                                                                     *)
SessionInv == SessionsTypeOK /\ WaitersServed

Statuses == {"none", "ok", "unauthorized", "refused", "error"}

(* The callers of the page are not among the tab's own.                    *)
LEMMA CallersKnown ==
  /\ {"mount", "login", "save", "secure", "logout", "refresh"} \subseteq Callers
  /\ Fetches \subseteq Callers /\ "refresh" \notin Fetches
  /\ \A r \in Fetches : r \notin {"mount", "login", "save", "secure", "logout"}
BY SessionsAssumption DEF Callers

LEMMA TokensKnown ==
  None \in Tokens /\ 0 \in Times /\ 1 \in Times /\ Times \subseteq Tokens
BY SessionsAssumption DEF Tokens, Times

LEMMA OutTyped ==
  /\ NoCall \in Calls /\ NoCall.at = "idle"
  /\ \A op \in Ops, cred \in Tokens :
       Out(op, cred) \in Calls /\ Out(op, cred).at = "out"
BY TokensKnown DEF NoCall, Out, Calls, Ops, ProfileOps

LEMMA ProxyTyped == \A p \in Pages, cookie \in Tokens : Proxy(p, cookie) \in Pages
BY DEF Proxy, Pages, AuthRoutes

(* A caller that goes on to anything but waiting disturbs nobody who       *)
(* waits, unless it is the refresh that ends.                              *)
LEMMA PutKeeps ==
  ASSUME SessionInv, NEW c \in Callers, NEW x \in Calls, Put(c, x),
         x.at # "wait", c = "refresh" => x.at # "idle"
  PROVE  call' \in [Callers -> Calls] /\ WaitersServed'
<1>1. call \in [Callers -> Calls]
  BY DEF SessionInv, SessionsTypeOK
<1>2. /\ call' \in [Callers -> Calls] /\ call'[c] = x
      /\ \A d \in Callers \ {c} : call'[d] = call[d]
  BY <1>1 DEF Put
<1>3. ASSUME NEW r \in Fetches, call'[r].at = "wait" PROVE call'["refresh"].at # "idle"
  <2>1. r # c
    BY <1>2, <1>3
  <2>2. call[r].at = "wait"
    BY <1>2, <1>3, <2>1, CallersKnown
  <2>3. call["refresh"].at # "idle"
    BY <2>2 DEF SessionInv, WaitersServed, Quiet
  <2> QED  BY <1>2, <2>3, CallersKnown
<1> QED  BY <1>2, <1>3 DEF WaitersServed, Quiet

LEMMA AnswerKeeps ==
  ASSUME SessionInv, NEW c \in Callers, NEW status \in Statuses,
         NEW mint \in Tokens, Responds(c, status, mint)
  PROVE  call' \in [Callers -> Calls] /\ WaitersServed'
<1> DEFINE x == [call[c] EXCEPT !.at = "back", !.status = status, !.mint = mint,
                    !.cred = IF call[c].op \in ProfileOps \cup {"refresh"} THEN @ ELSE None]
<1>1. call[c] \in Calls
  BY DEF SessionInv, SessionsTypeOK
<1>2. x \in Calls /\ x.at = "back"
  BY <1>1, TokensKnown DEF Calls, Statuses
<1>3. Put(c, x)
  BY DEF Responds
<1> HIDE DEF x
<1> QED  BY <1>2, <1>3, PutKeeps

LEMMA LoadKeeps ==
  ASSUME NEW p \in Pages, NEW cookie \in Tokens, Load(p, cookie)
  PROVE  /\ page' \in Pages /\ token' \in Tokens
         /\ user' \in BOOLEAN /\ loading' \in BOOLEAN /\ loggedIn' \in BOOLEAN
         /\ call' \in [Callers -> Calls] /\ WaitersServed'
<1>1. page' \in Pages
  BY ProxyTyped DEF Load
<1>2. Out("refresh", cookie) \in Calls /\ Out("refresh", cookie).at = "out"
  BY OutTyped DEF Ops
<1>3. call' \in [Callers -> Calls]
  BY <1>2, OutTyped DEF Load
<1>4. \A r \in Fetches : call'[r].at # "wait"
  BY <1>2, OutTyped, CallersKnown DEF Load
<1> QED  BY <1>1, <1>3, <1>4, TokensKnown DEF Load, WaitersServed

(* The cookie after an answer is the old one, the one it brings, or none.  *)
LEMMA JarTyped ==
  ASSUME SessionInv, NEW c \in Callers
  PROVE  JarAfter(c) \in Tokens
<1>1. call[c] \in Calls /\ jar \in Tokens /\ call[c].mint \in Tokens
  BY DEF SessionInv, SessionsTypeOK, Calls
<1> QED  BY <1>1, TokensKnown DEF JarAfter, RefreshJar, LoginJar, RegisterJar, ChangeJar,
            LogoutAllJar, DeleteJar, ResetJar, LogoutJar, Mirrored, Dropped

(* A refresh that ends without a token lets go of everybody who waits.     *)
LEMMA RefreshFailedKeeps ==
  ASSUME SessionInv, NEW cookie \in Tokens, RefreshFailed(cookie)
  PROVE  SessionInv'
<1>0. SessionsTypeOK /\ UNCHANGED <<server, cached>> /\ jar' \in Tokens
  BY DEF SessionInv, RefreshFailed
<1>1. CASE page # "login"
  <2>1. Load("login", cookie) /\ "login" \in Pages
    BY <1>1 DEF RefreshFailed, Pages, AuthRoutes
  <2> QED  BY <1>0, <2>1, LoadKeeps DEF SessionInv, SessionsTypeOK, server
<1>2. CASE page = "login"
  <2>1. call' = [c \in Callers |->
          IF c = "refresh" \/ call[c].at = "wait" THEN NoCall ELSE call[c]]
    BY <1>2 DEF RefreshFailed
  <2>2. call' \in [Callers -> Calls]
    BY <2>1, <1>0, OutTyped DEF SessionsTypeOK
  <2>3. \A r \in Fetches : call'[r].at # "wait"
    BY <2>1, OutTyped, CallersKnown
  <2> QED  BY <1>0, <1>2, <2>2, <2>3, TokensKnown
           DEF RefreshFailed, SessionInv, SessionsTypeOK, WaitersServed, server
<1> QED  BY <1>1, <1>2

-----------------------------------------------------------------------------
(* The server's steps.                                                     *)
LEMMA ServeKeeps ==
  ASSUME SessionInv, NEW c \in Callers, Serve(c)
  PROVE  SessionInv'
<1>0. /\ now \in Times /\ changed \in Times /\ links \in 0 .. MaxLinks
      /\ account \in {"absent", "present", "deleted"}
  BY DEF SessionInv, SessionsTypeOK
<1>1. ASSUME NEW status \in Statuses, NEW mint \in Tokens, Responds(c, status, mint),
             account' \in {"absent", "present", "deleted"}, now' \in Times,
             changed' \in Times, links' \in 0 .. MaxLinks, UNCHANGED <<jar, page, auth>>
      PROVE  SessionInv'
  BY <1>1, AnswerKeeps DEF SessionInv, SessionsTypeOK, auth
<1>2. now \in Tokens /\ None \in Tokens
  BY <1>0, TokensKnown
<1>3. \A s \in BearerStatuses(c) : s \in {"ok", "unauthorized"}
  BY DEF BearerStatuses
<1>4. UNCHANGED <<jar, page, auth>>
  BY DEF Serve
<1>a. CASE ServeRefresh(c)
  BY <1>a, <1>0, <1>1, <1>2, <1>4 DEF ServeRefresh, Statuses
<1>b. CASE ServeLogin(c)
  BY <1>b, <1>0, <1>1, <1>2, <1>4 DEF ServeLogin, Statuses
<1>c. CASE ServeRegister(c)
  BY <1>c, <1>0, <1>1, <1>2, <1>4 DEF ServeRegister, Statuses
<1>d. CASE ServeData(c)
  BY <1>d, <1>0, <1>1, <1>2, <1>3, <1>4 DEF ServeData, Statuses
<1>e. CASE ServeChange(c)
  BY <1>e, <1>0, <1>1, <1>2, <1>3, <1>4 DEF ServeChange, Statuses
<1>f. CASE ServeLogoutAll(c)
  BY <1>f, <1>0, <1>1, <1>2, <1>3, <1>4 DEF ServeLogoutAll, Statuses
<1>g. CASE ServeDelete(c)
  BY <1>g, <1>0, <1>1, <1>2, <1>3, <1>4 DEF ServeDelete, Statuses
<1>h. CASE ServeLogout(c)
  BY <1>h, <1>0, <1>1, <1>2, <1>4 DEF ServeLogout, Statuses
<1>i. CASE ServeForgot(c)
  <2>1. links' \in 0 .. MaxLinks
    BY <1>i, <1>0, SessionsAssumption DEF ServeForgot
  <2> QED  BY <1>i, <2>1, <1>0, <1>1, <1>2, <1>4 DEF ServeForgot, Statuses
<1>j. CASE ServeReset(c)
  <2>1. links' \in 0 .. MaxLinks /\ changed' \in Times
    BY <1>j, <1>0, SessionsAssumption DEF ServeReset
  <2> QED  BY <1>j, <2>1, <1>0, <1>1, <1>2, <1>4 DEF ServeReset, Statuses
<1> QED
  BY <1>a, <1>b, <1>c, <1>d, <1>e, <1>f, <1>g, <1>h, <1>i, <1>j DEF Serve

-----------------------------------------------------------------------------
(* What the tab does when an answer is there.                              *)
LEMMA DeliverKeeps ==
  ASSUME SessionInv, Deliver
  PROVE  SessionInv'
<1>0. /\ jar \in Tokens /\ token \in Tokens /\ page \in Pages
      /\ user \in BOOLEAN /\ loading \in BOOLEAN /\ loggedIn \in BOOLEAN /\ cached \in BOOLEAN
      /\ call \in [Callers -> Calls]
  BY DEF SessionInv, SessionsTypeOK
<1>1. ASSUME call' \in [Callers -> Calls], WaitersServed', UNCHANGED server,
             jar' \in Tokens, token' \in Tokens, page' \in Pages, user' \in BOOLEAN,
             loading' \in BOOLEAN, loggedIn' \in BOOLEAN, cached' \in BOOLEAN
      PROVE  SessionInv'
  BY <1>1 DEF SessionInv, SessionsTypeOK, server
<1>2. \A c \in Callers : /\ call[c].mint \in Tokens /\ call[c].cred \in Tokens
                         /\ JarAfter(c) \in Tokens
  BY <1>0, JarTyped DEF Calls
<1>3. \A c \in Callers \ {"refresh"} :
         Put(c, NoCall) => call' \in [Callers -> Calls] /\ WaitersServed'
  BY PutKeeps, OutTyped
<1>4. \A c \in Callers, op \in Ops, cred \in Tokens :
         Put(c, Out(op, cred)) => call' \in [Callers -> Calls] /\ WaitersServed'
  BY PutKeeps, OutTyped
<1>5. {"me", "loginMe", "registerMe", "leave", "logout", "refresh"} \subseteq Ops
  BY DEF Ops, ProfileOps
<1>6. {"login", "app", "home"} \subseteq Pages
  BY DEF Pages, AuthRoutes
<1>a. CASE MountRefused
  BY <1>a, <1>0, <1>1, <1>2, <1>3, CallersKnown DEF MountRefused
<1>b. CASE MountRefreshed
  BY <1>b, <1>0, <1>1, <1>2, <1>4, <1>5, CallersKnown DEF MountRefreshed, auth
<1>c. CASE MountProfile
  BY <1>c, <1>0, <1>1, <1>2, <1>3, CallersKnown DEF MountProfile, Ok
<1>d. CASE SubmitAnswered
  <2>1. CASE Ok("login")
    <3> DEFINE op == IF Back("login", "login") THEN "loginMe" ELSE "registerMe"
    <3>1. op \in Ops
      BY <1>5
    <3>2. Put("login", Out(op, call["login"].mint))
      BY <1>d, <2>1 DEF SubmitAnswered
    <3> HIDE DEF op
    <3> QED  BY <1>d, <1>0, <1>1, <1>2, <1>4, <3>1, <3>2, CallersKnown DEF SubmitAnswered, auth
  <2>2. CASE ~Ok("login")
    BY <1>d, <2>2, <1>0, <1>1, <1>2, <1>3, CallersKnown DEF SubmitAnswered, auth
  <2> QED  BY <2>1, <2>2
<1>e. CASE SignedIn
  <2>1. page' \in Pages
    BY <1>e, <1>0, <1>6, ProxyTyped DEF SignedIn
  <2> QED  BY <1>e, <2>1, <1>0, <1>1, <1>2, <1>3, CallersKnown DEF SignedIn
<1>f. CASE SignInFailed
  BY <1>f, <1>0, <1>1, <1>3, CallersKnown DEF SignInFailed, auth
<1>g. CASE ResetAnswered
  <2>1. jar' \in Tokens
    BY <1>g, <1>2, CallersKnown DEF ResetAnswered
  <2>2. page' \in Pages
    BY <1>g, <2>1, <1>0, <1>6, ProxyTyped DEF ResetAnswered
  <2> QED  BY <1>g, <2>1, <2>2, <1>0, <1>1, <1>3, CallersKnown DEF ResetAnswered, auth
<1>h. CASE ProfileSaved
  BY <1>h, <1>0, <1>1, <1>3, CallersKnown DEF ProfileSaved, Ok
<1>i. CASE PasswordChanged
  BY <1>i, <1>0, <1>1, <1>2, <1>3, CallersKnown DEF PasswordChanged
<1>j. CASE SessionEnded
  <2>1. CASE Ok("secure")
    <3> DEFINE op == IF Back("secure", "delete") THEN "leave" ELSE "logout"
    <3>1. op \in Ops /\ jar' \in Tokens
      BY <1>j, <1>2, <1>5, CallersKnown DEF SessionEnded
    <3>2. Put("secure", Out(op, jar'))
      BY <1>j, <2>1 DEF SessionEnded
    <3> HIDE DEF op
    <3>3. call' \in [Callers -> Calls] /\ WaitersServed'
      BY <1>4, <3>1, <3>2, CallersKnown
    <3> QED  BY <1>j, <1>0, <1>1, <3>1, <3>3 DEF SessionEnded, auth
  <2>2. CASE ~Ok("secure")
    BY <1>j, <2>2, <1>0, <1>1, <1>2, <1>3, CallersKnown DEF SessionEnded, auth
  <2> QED  BY <2>1, <2>2
<1>k. CASE LogoutAnswered
  <2>1. PICK c \in {"logout", "secure"} : SignedOut(c, JarAfter(c))
    BY <1>k DEF LogoutAnswered
  <2>2. c \in Callers \ {"refresh"} /\ JarAfter(c) \in Tokens
    BY <1>2, CallersKnown
  <2>3. page' \in Pages
    BY <2>1, <2>2, <1>6, ProxyTyped DEF SignedOut
  <2> QED  BY <2>1, <2>2, <2>3, <1>1, <1>3, TokensKnown DEF SignedOut
<1>l. CASE Refreshed
  <2> DEFINE mint == call["refresh"].mint
  <2>1. mint \in Tokens /\ Out("retry", mint) \in Calls /\ Out("retry", mint).at = "out"
    BY <1>2, CallersKnown, OutTyped DEF Ops
  <2>2. call' = Resume(mint)
    BY <1>l DEF Refreshed
  <2> HIDE DEF mint
  <2>3. call' \in [Callers -> Calls]
    BY <2>1, <2>2, <1>0, OutTyped DEF Resume
  <2>4. \A r \in Fetches : call'[r].at # "wait"
    BY <2>1, <2>2, CallersKnown DEF Resume
  <2> QED
    BY <1>l, <2>1, <2>3, <2>4, <1>0, <1>1, <1>2, CallersKnown DEF Refreshed, WaitersServed, mint
<1>m. CASE RefreshRefused
  BY <1>m, <1>0, <1>1, <1>2, CallersKnown, RefreshFailedKeeps DEF RefreshRefused
<1>n. ASSUME NEW r \in Fetches, FetchDone(r) PROVE SessionInv'
  BY <1>n, <1>0, <1>1, <1>3, CallersKnown DEF FetchDone, auth
<1>o. ASSUME NEW r \in Fetches, FetchRefused(r) PROVE SessionInv'
  <2> DEFINE waiting == [call[r] EXCEPT !.at = "wait"]
             next == IF Quiet("refresh") THEN Out("refresh", jar) ELSE call["refresh"]
  <2>1. waiting \in Calls /\ next \in Calls
    BY <1>0, <1>5, OutTyped, CallersKnown DEF Calls
  <2>2. next.at # "idle"
    BY <1>0, <1>5, OutTyped DEF Quiet
  <2>3. call' = [call EXCEPT ![r] = waiting, !["refresh"] = next]
    BY <1>o DEF FetchRefused
  <2> HIDE DEF waiting, next
  <2>4. call' \in [Callers -> Calls] /\ call'["refresh"] = next
    BY <2>1, <2>3, <1>0, CallersKnown
  <2>5. WaitersServed'
    BY <2>2, <2>4 DEF WaitersServed, Quiet
  <2> QED  BY <1>o, <2>4, <2>5, <1>0, <1>1 DEF FetchRefused, auth
<1> QED
  BY <1>a, <1>b, <1>c, <1>d, <1>e, <1>f, <1>g, <1>h, <1>i, <1>j, <1>k, <1>l, <1>m, <1>n, <1>o
  DEF Deliver

-----------------------------------------------------------------------------
(* What the user does, and what fails.                                     *)
LEMMA ActKeeps ==
  ASSUME SessionInv, Act
  PROVE  SessionInv'
<1>0. /\ jar \in Tokens /\ token \in Tokens /\ page \in Pages /\ SessionsTypeOK
  BY DEF SessionInv, SessionsTypeOK
<1>1. ASSUME NEW c \in Callers, NEW op \in Ops, NEW cred \in Tokens,
             Put(c, Out(op, cred)), UNCHANGED <<server, jar, page, auth>>
      PROVE  SessionInv'
  BY <1>1, PutKeeps, OutTyped DEF SessionInv, SessionsTypeOK, server, auth
<1>2. ASSUME NEW p \in Pages, Submit(p), p \in Ops PROVE SessionInv'
  BY <1>1, <1>2, TokensKnown, CallersKnown DEF Submit
<1>3. ASSUME NEW c \in {"save", "secure"}, NEW op \in Ops, Setting(c, op) PROVE SessionInv'
  BY <1>0, <1>1, <1>3, CallersKnown DEF Setting
<1>a. CASE SubmitLogin \/ SubmitRegister \/ SubmitForgot \/ SubmitReset
  BY <1>a, <1>2
  DEF SubmitLogin, SubmitRegister, SubmitForgot, SubmitReset, Pages, AuthRoutes, Ops
<1>b. CASE SaveProfile \/ SavePreferences \/ ChangePassword \/ SignOutEverywhere
           \/ DeleteAccount
  BY <1>b, <1>3
  DEF SaveProfile, SavePreferences, ChangePassword, SignOutEverywhere,
      DeleteAccount, Ops
<1>c. CASE SignOut
  BY <1>c, <1>0, <1>1, CallersKnown DEF SignOut, Ops
<1>d. CASE Reload
  <2>1. PICK p \in Pages : Load(p, jar)
    BY <1>d, <1>0 DEF Reload, Pages
  <2>2. UNCHANGED <<server, jar, cached>>
    BY <1>d DEF Reload
  <2> QED  BY <1>0, <2>1, <2>2, LoadKeeps DEF SessionInv, SessionsTypeOK, server
<1>e. CASE Follow
  <2>1. \A p \in Links(page) : p \in Pages
    BY <1>0 DEF Links, Pages, AuthRoutes
  <2>2. page' \in Pages
    BY <1>e, <1>0, <2>1, ProxyTyped DEF Follow
  <2> QED  BY <1>e, <1>0, <2>2
           DEF Follow, SessionInv, SessionsTypeOK, WaitersServed, Quiet, server, auth
<1>f. ASSUME NEW r \in Fetches, Fetch(r) PROVE SessionInv'
  BY <1>f, <1>0, <1>1, CallersKnown DEF Fetch, Ops
<1> QED  BY <1>a, <1>b, <1>c, <1>d, <1>e, <1>f DEF Act

LEMMA FailKeeps ==
  ASSUME SessionInv, Fails
  PROVE  SessionInv'
<1>0. SessionsTypeOK /\ jar \in Tokens
  BY DEF SessionInv, SessionsTypeOK
<1>1. ASSUME NEW c \in Callers, Responds(c, "error", None),
             UNCHANGED <<server, jar, page, auth>>
      PROVE  SessionInv'
  BY <1>1, <1>0, AnswerKeeps, TokensKnown DEF SessionInv, SessionsTypeOK, server, auth, Statuses
<1>2. ASSUME NEW c \in Callers \ {"refresh"}, Put(c, NoCall)
      PROVE  call' \in [Callers -> Calls] /\ WaitersServed'
  BY <1>2, PutKeeps, OutTyped
<1>a. CASE MountLost
  <2>1. call' \in [Callers -> Calls] /\ WaitersServed'
    BY <1>a, <1>2, CallersKnown DEF MountLost
  <2>2. user' \in BOOLEAN /\ loading' \in BOOLEAN
    BY <1>a, <1>0 DEF MountLost, SessionsTypeOK
  <2> QED  BY <1>a, <2>1, <2>2, <1>0 DEF MountLost, SessionInv, SessionsTypeOK, server
<1>b. CASE LogoutLost
  <2>1. PICK c \in {"logout", "secure"} : SignedOut(c, jar)
    BY <1>b DEF LogoutLost
  <2>2. call' \in [Callers -> Calls] /\ WaitersServed'
    BY <2>1, <1>2, CallersKnown DEF SignedOut
  <2>3. page' \in Pages
    BY <2>1, <1>0, ProxyTyped DEF SignedOut, Pages, AuthRoutes
  <2> QED  BY <2>1, <2>2, <2>3, <1>0, TokensKnown DEF SignedOut, SessionInv, SessionsTypeOK, server
<1>c. CASE RefreshLost
  BY <1>c, <1>0, RefreshFailedKeeps DEF RefreshLost
<1>d. ASSUME NEW c \in Callers, ServeError(c) PROVE SessionInv'
  BY <1>d, <1>1 DEF ServeError
<1>e. ASSUME NEW c \in Callers, Lost(c) PROVE SessionInv'
  <2>1. UNCHANGED <<server, jar, page, auth>> /\ c \in Callers \ {"refresh"}
    BY <1>e DEF Lost
  <2>2. CASE Put(c, NoCall)
    BY <2>1, <2>2, <1>0, <1>2 DEF SessionInv, SessionsTypeOK, server, auth
  <2>3. CASE Responds(c, "error", None)
    BY <2>1, <2>3, <1>1
  <2> QED  BY <1>e, <2>2, <2>3 DEF Lost
<1> QED  BY <1>a, <1>b, <1>c, <1>d, <1>e DEF Fails

-----------------------------------------------------------------------------
LEMMA SessionInvKept ==
  SessionsSpec => []SessionInv
<1>1. SessionsInit => SessionInv
  <2> SUFFICES ASSUME SessionsInit PROVE SessionInv
    OBVIOUS
  <2>1. jar \in Tokens /\ page \in Pages
    BY TokensKnown, ProxyTyped DEF SessionsInit, Pages, AuthRoutes
  <2>2. Out("refresh", jar) \in Calls /\ Out("refresh", jar).at = "out"
    BY <2>1, OutTyped DEF Ops
  <2>3. call \in [Callers -> Calls] /\ \A r \in Fetches : call[r].at # "wait"
    BY <2>2, OutTyped, CallersKnown DEF SessionsInit
  <2>4. links \in 0 .. MaxLinks /\ now \in Times /\ changed \in Times /\ token \in Tokens
    BY TokensKnown, SessionsAssumption DEF SessionsInit
  <2>5. /\ user \in BOOLEAN /\ loading \in BOOLEAN /\ loggedIn \in BOOLEAN /\ cached \in BOOLEAN
        /\ account \in {"absent", "present", "deleted"}
    BY DEF SessionsInit
  <2> QED  BY <2>1, <2>3, <2>4, <2>5 DEF SessionInv, SessionsTypeOK, WaitersServed
<1>2. SessionInv /\ [SessionsNext]_sessionsVars => SessionInv'
  <2> SUFFICES ASSUME SessionInv, [SessionsNext]_sessionsVars PROVE SessionInv'
    OBVIOUS
  <2>1. CASE Guard
    BY <2>1, ProxyTyped
    DEF Guard, SessionInv, SessionsTypeOK, WaitersServed, Quiet, server, auth, Pages,
      AuthRoutes
  <2>2. CASE Tick
    BY <2>2, SessionsAssumption
       DEF Tick, SessionInv, SessionsTypeOK, WaitersServed, Quiet, auth, Times
  <2>3. CASE RevokeElsewhere
    BY <2>3 DEF RevokeElsewhere, SessionInv, SessionsTypeOK, WaitersServed, Quiet, auth
  <2>4. CASE UNCHANGED sessionsVars
    BY <2>4 DEF sessionsVars, SessionInv, SessionsTypeOK, WaitersServed, Quiet, server, auth
  <2> QED
    BY <2>1, <2>2, <2>3, <2>4, DeliverKeeps, ActKeeps, FailKeeps, ServeKeeps DEF SessionsNext
<1> QED  BY <1>1, <1>2, PTL DEF SessionsSpec

(* Every reachable state is well typed, whatever overlaps.                 *)
THEOREM SessionsTyped ==
  SessionsSpec => []SessionsTypeOK
BY SessionInvKept, PTL DEF SessionInv

(* A request that waits for the shared refresh finds one under way: no end *)
(* of a refresh, and no new document, leaves it waiting (api.ts:18).       *)
THEOREM NobodyLeftWaiting ==
  SessionsSpec => []WaitersServed
BY SessionInvKept, PTL DEF SessionInv

(* While the document lives and the user is signed in by hand, only a      *)
(* logout takes the user away: no late answer does (AuthContext.tsx:68).   *)
THEOREM LateRefreshHarmless ==
  SessionsSpec => LoginKept
<1>1. SessionInv /\ [SessionsNext]_sessionsVars =>
        [loggedIn /\ user /\ loggedIn' => user']_sessionsVars
  <2> SUFFICES ASSUME SessionInv, SessionsNext, loggedIn, user, loggedIn' PROVE user'
    BY DEF sessionsVars
  <2>1. loggedIn' = FALSE \/ user' = user \/ user' = TRUE \/ user' = (loggedIn /\ user)
    <3>1. CASE Deliver
      BY <3>1 DEF Deliver, MountRefused, MountRefreshed, MountProfile,
        SubmitAnswered, SignedIn, SignInFailed, ResetAnswered, ProfileSaved,
        PasswordChanged, SessionEnded, LogoutAnswered, Refreshed, RefreshRefused,
        RefreshFailed, FetchDone, FetchRefused, SignedOut, Load, auth
    <3>2. CASE Act
      BY <3>2 DEF Act, SubmitLogin, SubmitRegister, SubmitForgot, SubmitReset,
        Submit, SaveProfile, SavePreferences, ChangePassword, SignOutEverywhere,
        DeleteAccount, Setting, SignOut, Reload, Follow, Fetch, Load, auth
    <3>3. CASE Fails
      BY <3>3 DEF Fails, MountLost, LogoutLost, RefreshLost, RefreshFailed,
        ServeError, Lost, SignedOut, Load, auth
    <3>4. CASE Guard \/ Tick \/ RevokeElsewhere \/ \E c \in Callers : Serve(c)
      BY <3>4 DEF Guard, Tick, RevokeElsewhere, Serve, auth
    <3> QED  BY <3>1, <3>2, <3>3, <3>4 DEF SessionsNext
  <2> QED  BY <2>1
<1> QED  BY <1>1, SessionInvKept, PTL DEF SessionsSpec, LoginKept
=============================================================================
