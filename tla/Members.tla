------------------------------ MODULE Members ------------------------------
(***************************************************************************)
(* Who may open a trip: members and invite links (api/members.py).         *)
(*                                                                         *)
(* accept_invite looks at the invite and at the membership, claims one of  *)
(* the invite's uses with an UPDATE that compares again, inserts the       *)
(* member unless there is one, and commits. The UPDATE holds the row of    *)
(* the invite until then, the INSERT the key of the member; whoever needs  *)
(* the same row waits (PostgreSQL, READ COMMITTED). The owner changes      *)
(* roles, removes members and revokes links meanwhile, and time passes.    *)
(***************************************************************************)
EXTENDS Naturals, FiniteSets

CONSTANTS
  Requests,  \* requests that may be in flight at once
  Users,     \* everybody but the owner
  Invites,   \* the invite links the owner may create
  MaxUses    \* how often one link admits somebody (DEFAULT_MAX_USES)

Roles == {"viewer", "editor"}
Nobody == "none"

ASSUME InviteAssumption == MaxUses \in Nat /\ Users # {} /\ Invites # {} /\ IsFiniteSet(Users)

VARIABLES
  member,  \* member[u]: the role of u, "none" if u is no member
  via,     \* via[u]: the invites through which u joined, since u was last no member
  invite,  \* invite[i]: the row of the link
  tx       \* the request in each slot

vars == <<member, via, invite, tx>>

InviteRows == [state : {"absent", "live", "expired"}, revoked : BOOLEAN, role : Roles, uses : Nat]
Stages == {"idle",
           "usable", "newcomer", "claimed", "inserted",   \* accept_invite
           "role", "remove"}                              \* the member has been read
Txs == [at : Stages, user : Users, by : Invites, role : Roles, adds : BOOLEAN]

Idle == [at |-> "idle", user |-> CHOOSE u \in Users : TRUE, by |-> CHOOSE i \in Invites : TRUE,
         role |-> "viewer", adds |-> FALSE]
At(r, stage) == tx[r].at = stage
Becomes(r, t) == tx' = [tx EXCEPT ![r] = t]
Moves(r, stage) == Becomes(r, [tx[r] EXCEPT !.at = stage])
Ends(r) == Becomes(r, Idle)

(* Must not be: a link that ignores how often it was used.                 *)
UsableAgain(i) == invite[i].state = "live" /\ ~invite[i].revoked

Usable(i) == invite[i].state = "live" /\ ~invite[i].revoked /\ invite[i].uses < MaxUses

(* Rows that other transactions have changed and not committed.            *)
InviteFree(r, i) ==
  \A q \in Requests \ {r} : tx[q].by = i => ~At(q, "claimed") /\ ~At(q, "inserted")
KeyFree(r, u) == \A q \in Requests \ {r} : At(q, "inserted") => ~(tx[q].user = u /\ tx[q].adds)

Init ==
  /\ member = [u \in Users |-> Nobody] /\ via = [u \in Users |-> {}]
  /\ invite = [i \in Invites |->
                 [state |-> "absent", revoked |-> FALSE, role |-> "viewer", uses |-> 0]]
  /\ tx = [r \in Requests |-> Idle]

-----------------------------------------------------------------------------
(* The owner's links. Revoking waits for the row; time does not.           *)
CreateInvite(i) ==
  /\ invite[i].state = "absent"
  /\ \E role \in Roles : invite' = [invite EXCEPT ![i].state = "live", ![i].role = role]
  /\ UNCHANGED <<member, via, tx>>

(* Must not be: revoking beside a claim that is not committed.             *)
RevokeUnwaiting(i) ==
  /\ invite[i].state # "absent" /\ ~invite[i].revoked
  /\ invite' = [invite EXCEPT ![i].revoked = TRUE]
  /\ UNCHANGED <<member, via, tx>>

RevokeInvite(i) ==
  /\ invite[i].state # "absent" /\ ~invite[i].revoked
  /\ \A r \in Requests : tx[r].by = i => ~At(r, "claimed") /\ ~At(r, "inserted")
  /\ invite' = [invite EXCEPT ![i].revoked = TRUE]
  /\ UNCHANGED <<member, via, tx>>

Expire(i) ==
  /\ invite[i].state = "live"
  /\ invite' = [invite EXCEPT ![i].state = "expired"]
  /\ UNCHANGED <<member, via, tx>>

-----------------------------------------------------------------------------
(* accept_invite, one statement after the other.                           *)
Accept(r) ==
  /\ At(r, "idle")
  /\ \E u \in Users, i \in Invites :
       /\ Usable(i)
       /\ Becomes(r, [Idle EXCEPT !.at = "usable", !.user = u, !.by = i, !.role = invite[i].role])
  /\ UNCHANGED <<member, via, invite>>

LookUpMember(r) ==
  /\ At(r, "usable")
  /\ IF member[tx[r].user] = Nobody THEN Moves(r, "newcomer") ELSE Ends(r)
  /\ UNCHANGED <<member, via, invite>>

ClaimUse(r) ==
  /\ At(r, "newcomer") /\ InviteFree(r, tx[r].by) /\ Usable(tx[r].by)
  /\ Moves(r, "claimed")
  /\ UNCHANGED <<member, via, invite>>

RefuseClaim(r) ==
  /\ At(r, "newcomer") /\ InviteFree(r, tx[r].by) /\ ~Usable(tx[r].by)
  /\ Ends(r)
  /\ UNCHANGED <<member, via, invite>>

(* Must not be: an upsert that gives the role to a member too.             *)
InsertOrUpdate(r) ==
  /\ At(r, "claimed") /\ KeyFree(r, tx[r].user)
  /\ Becomes(r, [tx[r] EXCEPT !.at = "inserted", !.adds = TRUE])
  /\ UNCHANGED <<member, via, invite>>

(* ON CONFLICT DO NOTHING.                                                 *)
InsertMember(r) ==
  /\ At(r, "claimed") /\ KeyFree(r, tx[r].user)
  /\ Becomes(r, [tx[r] EXCEPT !.at = "inserted", !.adds = (member[tx[r].user] = Nobody)])
  /\ UNCHANGED <<member, via, invite>>

CommitJoin(r) ==
  /\ At(r, "inserted")
  /\ invite' = [invite EXCEPT ![tx[r].by].uses = @ + 1]
  /\ IF tx[r].adds
     THEN /\ member' = [member EXCEPT ![tx[r].user] = tx[r].role]
          /\ via' = [via EXCEPT ![tx[r].user] = {tx[r].by}]
     ELSE UNCHANGED <<member, via>>
  /\ Ends(r)

-----------------------------------------------------------------------------
(* change_member_role and remove_member: read the member, then write.      *)
StartRoleChange(r) ==
  /\ At(r, "idle")
  /\ \E u \in Users, role \in Roles :
       /\ member[u] # Nobody
       /\ Becomes(r, [Idle EXCEPT !.at = "role", !.user = u, !.role = role])
  /\ UNCHANGED <<member, via, invite>>

(* The UPDATE of a member who has gone matches nothing, and fails.         *)
ChangeRole(r) ==
  /\ At(r, "role")
  /\ member' = [member EXCEPT ![tx[r].user] = IF @ = Nobody THEN @ ELSE tx[r].role]
  /\ Ends(r)
  /\ UNCHANGED <<via, invite>>

StartRemoval(r) ==
  /\ At(r, "idle")
  /\ \E u \in Users : /\ member[u] # Nobody
                      /\ Becomes(r, [Idle EXCEPT !.at = "remove", !.user = u])
  /\ UNCHANGED <<member, via, invite>>

(* A member removed twice is removed once; links stay as they are.         *)
RemoveMember(r) ==
  /\ At(r, "remove")
  /\ member' = [member EXCEPT ![tx[r].user] = Nobody]
  /\ via' = [via EXCEPT ![tx[r].user] = {}]
  /\ Ends(r)
  /\ UNCHANGED invite

Fail(r) ==
  /\ ~At(r, "idle")
  /\ Ends(r)
  /\ UNCHANGED <<member, via, invite>>

Answer(r) ==
  \/ LookUpMember(r) \/ ClaimUse(r) \/ RefuseClaim(r) \/ InsertMember(r) \/ CommitJoin(r)
  \/ ChangeRole(r) \/ RemoveMember(r)

Next ==
  \/ \E i \in Invites : CreateInvite(i) \/ RevokeInvite(i) \/ Expire(i)
  \/ \E r \in Requests : Accept(r) \/ StartRoleChange(r) \/ StartRemoval(r) \/ Answer(r) \/ Fail(r)

Spec == Init /\ [][Next]_vars

-----------------------------------------------------------------------------
TypeOK ==
  /\ member \in [Users -> Roles \cup {Nobody}]
  /\ via \in [Users -> SUBSET Invites]
  /\ \A u \in Users : via[u] = {} <=> member[u] = Nobody
  /\ invite \in [Invites -> InviteRows]
  /\ tx \in [Requests -> Txs]

(* A link never admits more people than it may, however many accept it at  *)
(* once: "concurrent acceptances can't push uses past max_uses"            *)
(* (members.py:279), and nobody gets in without a use.                     *)
LinkLimit ==
  \A i \in Invites : /\ invite[i].uses <= MaxUses
                     /\ Cardinality({u \in Users : i \in via[u]}) <= invite[i].uses

(* Once the owner's revocation is committed, the link admits nobody, not   *)
(* even somebody who had looked at it before (members.py:212).             *)
RevokedAdmitsNobody ==
  [][\A u \in Users : member[u] = Nobody /\ member'[u] # Nobody =>
       \E i \in via'[u] : ~invite[i].revoked]_vars

(* Accepting a link never changes the role of a member; only the owner     *)
(* does (members.py:264).                                                  *)
OnlyOwnerChangesRoles ==
  [][\A u \in Users : member[u] # Nobody /\ member'[u] \notin {Nobody, member[u]} =>
       \E r \in Requests : At(r, "role") /\ tx[r].user = u /\ At(r, "idle")']_vars

(* A member consumes no use (members.py:265): a use goes to whoever joins. *)
(* It does not hold when one user accepts twice at once; no run checks it. *)
UseMeansJoining ==
  [][\A i \in Invites : invite'[i].uses > invite[i].uses =>
       \E u \in Users : member[u] = Nobody /\ member'[u] # Nobody]_vars
=============================================================================
