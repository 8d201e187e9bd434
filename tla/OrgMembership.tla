---------------------------- MODULE OrgMembership ----------------------------
(***************************************************************************)
(* Who belongs to one organization and with which role, as concurrent      *)
(* requests change it: services/org_service.py over the memberships and    *)
(* invites tables, behind the RBAC gate of api/authz.py and the routes of  *)
(* api/orgs.py.                                                            *)
(*                                                                         *)
(* A request reads the caller's membership, then the target's, then counts *)
(* the owners, and writes last; each read is a statement of its own on a   *)
(* READ COMMITTED transaction and locks nothing, so each is an action and  *)
(* the request remembers what it saw.  A membership row has an id: one     *)
(* that is deleted and inserted again is another row.                      *)
(***************************************************************************)
EXTENDS Naturals, FiniteSets

CONSTANTS
  Users,
  Invites,  \* invite tokens
  NoUser,
  NoInvite,
  MaxRows,     \* bound: membership rows ever inserted
  MaxInFlight  \* bound: requests that overlap


\* "member" stands for member and viewer: neither may manage anything here.
Roles == {"owner", "admin", "member"}

VARIABLES
  live,     \* the organization exists
  personal, \* it is its owner's own workspace
  member,   \* each user's membership row, or NotMember
  rowsMade, \* membership rows inserted so far
  invite,   \* the invites table
  req,      \* the request each user has in flight, or Idle
  width     \* how many requests may be in flight at once; with 1 they take turns

vars == <<live, personal, member, rowsMade, invite, req, width>>

NotMember == [role |-> "none", id |-> 0]
Membership == [role : {"none"} \cup Roles, id : 0 .. MaxRows]

Invite == [state : {"unsent", "open", "expired", "accepted"}, role : Roles]

Steps == {"idle", "authorized", "found", "allowed", "offered", "matched", "deleting"}
Request == [
  step   : Steps,
  actor  : Membership,                   \* the caller's row, when it was authorized
  target : {NoUser} \cup Users,
  role   : {"none"} \cup Roles,          \* the role asked for; "none" is a removal
  seen   : Membership,                   \* the target's row, when it was read
  token  : {NoInvite} \cup Invites       \* the invite being accepted
]
Idle == [step |-> "idle", actor |-> NotMember, target |-> NoUser, role |-> "none",
         seen |-> NotMember, token |-> NoInvite]

TypeOK ==
  /\ live \in BOOLEAN /\ personal \in BOOLEAN /\ width \in 1 .. MaxInFlight
  /\ member \in [Users -> Membership]
  /\ rowsMade \in 0 .. MaxRows
  /\ \A u \in Users : (member[u].role = "none") <=> (member[u].id = 0)
  /\ invite \in [Invites -> Invite]
  /\ req \in [Users -> Request]

\* Signing up creates a personal organization, create_org a team: either way the
\* creator owns it.
Init ==
  /\ live = TRUE
  /\ personal \in BOOLEAN
  /\ \E creator \in Users :
       member = [u \in Users |-> IF u = creator THEN [role |-> "owner", id |-> 1]
                                                ELSE NotMember]
  /\ rowsMade = 1
  /\ invite = [i \in Invites |-> [state |-> "unsent", role |-> "member"]]
  /\ req = [u \in Users |-> Idle]
  /\ width \in 1 .. MaxInFlight

----------------------------------------------------------------------------
(* Reading and answering *)

Owners == {u \in Users : member[u].role = "owner"}

\* OrganizationRepository.count_owners(org) <= 1.
AtMostOneOwner == \A u, v \in Owners : u = v

MayManageMembers(role) == role \in {"owner", "admin"}

Admits == Cardinality({v \in Users : req[v] # Idle}) < width

\* A request of u starts.
Begin(u, r) ==
  /\ live
  /\ req[u] = Idle
  /\ Admits
  /\ req' = [req EXCEPT ![u] = r]
  /\ UNCHANGED <<live, personal, member, rowsMade, invite, width>>

\* It goes on to its next step, with what it read.
Proceed(u, r) ==
  /\ req' = [req EXCEPT ![u] = r]
  /\ UNCHANGED <<live, personal, member, rowsMade, invite, width>>

\* It ends in an error, and its transaction rolls back.
Refuse(u) == Proceed(u, Idle)

\* It ends with a commit.
Done(u) == req' = [req EXCEPT ![u] = Idle]

----------------------------------------------------------------------------
(* Changing a role and removing a member *)

\* The gate: MANAGE_MEMBERS, judged on the caller's row as it is now.
Authorize(u, target, role) ==
  /\ MayManageMembers(member[u].role)
  /\ Begin(u, [Idle EXCEPT !.step = "authorized", !.actor = member[u],
                           !.target = target, !.role = role])

\* The target's row as the session knows it: a row the session already loaded (the
\* caller's own) keeps the attributes it was loaded with.
Loaded(u) ==
  LET r == req[u]
      row == member[r.target] IN
  IF row.id = r.actor.id THEN r.actor ELSE row

\* Mutant: granting the owner role is not guarded.
GuardOwnerManagementMutant(actor, target, role) ==
  actor.role = "owner" \/ target.role # "owner"

\* _guard_owner_management: only an owner manages an owner or grants the role.
GuardOwnerManagement(actor, target, role) ==
  actor.role = "owner" \/ (target.role # "owner" /\ role # "owner")

\* Whether the request would take the owner role from its target.
LosesOwner(target, role) == target.role = "owner" /\ role # "owner"

\* get_membership of the target and the guard on it.
FindTarget(u) ==
  LET r == req[u]
      seen == Loaded(u) IN
  /\ r.step = "authorized"
  /\ IF member[r.target] # NotMember /\ GuardOwnerManagement(r.actor, seen, r.role)
       THEN Proceed(u, [r EXCEPT !.seen = seen,
                          !.step = IF LosesOwner(seen, r.role) THEN "found" ELSE "allowed"])
       ELSE Refuse(u)

\* Mutant: the guard compares with zero.
CountOwnersMutant(u) ==
  /\ req[u].step = "found"
  /\ IF Owners = {} THEN Refuse(u)
                    ELSE Proceed(u, [req[u] EXCEPT !.step = "allowed"])

\* The last-owner guard.
CountOwners(u) ==
  /\ req[u].step = "found"
  /\ IF AtMostOneOwner THEN Refuse(u)
                       ELSE Proceed(u, [req[u] EXCEPT !.step = "allowed"])

\* change_role's write goes to the row it loaded: if that is gone, the flush fails
\* (StaleDataError).  A role that equals the loaded one is not written.
ChangeRole(u) ==
  LET r == req[u] IN
  /\ r.step = "allowed" /\ r.role # "none"
  /\ member' = IF r.seen.role # r.role /\ member[r.target].id = r.seen.id
                 THEN [member EXCEPT ![r.target].role = r.role] ELSE member
  /\ Done(u)
  /\ UNCHANGED <<live, personal, rowsMade, invite, width>>

\* Mutant: the membership is blanked and its row kept.
RemoveMemberMutant(u) ==
  LET r == req[u] IN
  /\ r.step = "allowed" /\ r.role = "none"
  /\ member' = [member EXCEPT ![r.target].role = "none"]
  /\ Done(u)
  /\ UNCHANGED <<live, personal, rowsMade, invite, width>>

\* remove_member deletes by organization and user, whatever row that is by now.
RemoveMember(u) ==
  LET r == req[u] IN
  /\ r.step = "allowed" /\ r.role = "none"
  /\ member' = [member EXCEPT ![r.target] = NotMember]
  /\ Done(u)
  /\ UNCHANGED <<live, personal, rowsMade, invite, width>>

----------------------------------------------------------------------------
(* Invites *)

\* invite: the gate, the owner-role rule, the already-a-member conflict.  The token
\* is not bound to the address it is mailed to.
SendInvite(u, i, role, addressee) ==
  /\ live
  /\ req[u] = Idle
  /\ Admits
  /\ MayManageMembers(member[u].role)
  /\ role = "owner" => member[u].role = "owner"
  /\ member[addressee] = NotMember
  /\ invite[i].state = "unsent"
  /\ invite' = [invite EXCEPT ![i] = [state |-> "open", role |-> role]]
  /\ UNCHANGED <<live, personal, member, rowsMade, req, width>>

Expire(i) ==
  /\ invite[i].state = "open"
  /\ invite' = [invite EXCEPT ![i].state = "expired"]
  /\ UNCHANGED <<live, personal, member, rowsMade, req, width>>

\* Mutant: accepted_at is not consulted.
AcceptReadMutant(u, i) ==
  /\ invite[i].state \in {"open", "accepted"}
  /\ Begin(u, [Idle EXCEPT !.step = "offered", !.token = i])

\* accept_invite: the token is looked up, neither accepted nor expired.
AcceptRead(u, i) ==
  /\ invite[i].state = "open"
  /\ Begin(u, [Idle EXCEPT !.step = "offered", !.token = i])

\* ... the caller's own membership is looked up ...
AcceptMatch(u) ==
  /\ req[u].step = "offered"
  /\ Proceed(u, [req[u] EXCEPT !.step = "matched", !.seen = member[u]])

\* ... and the token is consumed, with a new membership if there was none.  A row
\* inserted meanwhile breaks the unique constraint, and nothing is written; so does
\* an organization deleted meanwhile.
AcceptWrite(u) ==
  LET r == req[u]
      joins == r.seen = NotMember
      row == [role |-> invite[r.token].role, id |-> rowsMade + 1] IN
  /\ r.step = "matched"
  /\ Done(u)
  /\ IF live /\ (joins => member[u] = NotMember)
       THEN /\ joins => rowsMade < MaxRows
            /\ member' = IF joins THEN [member EXCEPT ![u] = row] ELSE member
            /\ rowsMade' = IF joins THEN rowsMade + 1 ELSE rowsMade
            /\ invite' = [invite EXCEPT ![r.token].state = "accepted"]
       ELSE UNCHANGED <<member, rowsMade, invite>>
  /\ UNCHANGED <<live, personal, width>>

----------------------------------------------------------------------------
(* Deleting the organization *)

\* The gate: MANAGE_ORG, and the refusal of a personal organization.
AuthorizeDelete(u) ==
  /\ member[u].role = "owner"
  /\ ~personal
  /\ Begin(u, [Idle EXCEPT !.step = "deleting", !.actor = member[u]])

\* delete_org: its memberships and invites go with it.
DeleteOrg(u) ==
  /\ req[u].step = "deleting"
  /\ live' = FALSE
  /\ member' = [v \in Users |-> NotMember]
  /\ Done(u)
  /\ UNCHANGED <<personal, rowsMade, invite, width>>

Next ==
  \/ \E u \in Users :
       \/ \E target \in Users, role \in {"none"} \cup Roles : Authorize(u, target, role)
       \/ FindTarget(u)
       \/ CountOwners(u)
       \/ ChangeRole(u)
       \/ RemoveMember(u)
       \/ \E i \in Invites, role \in Roles, addressee \in Users :
            SendInvite(u, i, role, addressee)
       \/ \E i \in Invites : AcceptRead(u, i)
       \/ AcceptMatch(u)
       \/ AcceptWrite(u)
       \/ AuthorizeDelete(u)
       \/ DeleteOrg(u)
  \/ \E i \in Invites : Expire(i)

Spec == Init /\ [][Next]_vars

----------------------------------------------------------------------------
(* Properties *)

\* "An org keeps >= 1 owner" (org_service): while it exists, someone owns it.
KeepsAnOwner == live => Owners # {}

\* The last-owner guard keeps it through every sequence of requests, self-demotions
\* and self-removals included, as long as they do not overlap.
KeepsAnOwnerInTurn == width = 1 => KeepsAnOwner

\* u's request in flight ends in this step.
Ends(u) == req[u] # Idle /\ req'[u] = Idle

\* "Only an owner manages owners": when requests do not overlap, an owner row is
\* changed or removed, or the role granted to a member, only by someone who owns the
\* organization in that very step.
OnlyOwnersManageOwners ==
  [][\A u \in Users :
       /\ width = 1 /\ live'
       /\ member[u] # NotMember
       /\ (member[u].role = "owner") # (member'[u].role = "owner")
       => \E a \in Owners : Ends(a)]_vars

\* Membership is granted.  Removal is final: whatever stale request is still in
\* flight, nobody becomes a member again except through an invite of their own.  And
\* an invite is single-use (org_service, ADR-0033): when requests do not overlap,
\* nobody joins on an invite that was already accepted.
MembershipIsGranted ==
  [][\A u \in Users :
       member[u] = NotMember /\ member'[u] # NotMember =>
         /\ Ends(u) /\ req[u].token # NoInvite
         /\ \A v \in Users : member'[u].id # member[v].id
         /\ width = 1 => invite[req[u].token].state # "accepted"]_vars
=============================================================================
