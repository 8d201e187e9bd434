---------------------------- MODULE ServicesProofs ---------------------------
(***************************************************************************)
(* Proofs about the membership of an organization, for every number of     *)
(* users, invites, membership rows and overlapping requests; about         *)
(* self-healing, for every number of addresses, reviewers and runs and     *)
(* every window; about accounts, sessions and staff, for every number of   *)
(* accounts, tokens and requests; and about the properties that the        *)
(* services' run states of several services.                               *)
(*                                                                         *)
(* While requests of an organization take turns, what a request has read   *)
(* is still so when it writes (OrgInTurn); whatever overlaps, a membership *)
(* row that was found has an id of its own (OrgRows).                      *)
(***************************************************************************)
EXTENDS MCServices, FiniteSetTheorems, TLAPS

USE DEF orgVars

\* Membership rows are numbered as they are inserted.
OrgRows ==
  /\ \A u \in Users : member[u].id <= rowsMade
  /\ \A u, v \in Users : u # v /\ member[u].id = member[v].id => member[u].id = 0

\* What a request in flight holds: a target and the row it found, or a token.
OrgHolds(r) ==
  /\ r.step \in {"authorized", "found", "allowed"} => r.target \in Users /\ r.token = NoInvite
  /\ r.step \in {"found", "allowed"} => r.seen.id # 0
  /\ r.step \in {"offered", "matched"} => r.token \in Invites
  /\ r.step \notin {"offered", "matched"} => r.token = NoInvite

\* What it has read is as it was.
OrgSteady(u) ==
  LET r == req[u] IN
  /\ r.step \in {"authorized", "found", "allowed"} => r.actor = member[u] /\ r.actor.id # 0
  /\ r.step \in {"found", "allowed"} =>
       r.seen = member[r.target] /\ Org!GuardOwnerManagement(r.actor, r.seen, r.role)
  /\ r.step = "allowed" /\ Org!LosesOwner(r.seen, r.role) =>
       \E v \in Org!Owners : v # r.target
  /\ r.step \in {"offered", "matched"} => invite[r.token].state # "accepted"
  /\ r.step = "matched" => r.seen = member[u]

\* With one request at a time.
OrgInTurn ==
  width = 1 =>
    /\ live => \E u \in Users : member[u].role = "owner"
    /\ \A u \in Users : req[u] # Org!Idle =>
         /\ live /\ OrgSteady(u)
         /\ \A v \in Users : req[v] # Org!Idle => v = u

OrgInv ==
  /\ Org!TypeOK
  /\ OrgRows
  /\ \A u \in Users : OrgHolds(req[u])
  /\ OrgInTurn

-----------------------------------------------------------------------------
\* Requests, as they start and as they go on.
LEMMA OrgRequests ==
  /\ Org!Idle \in Org!Request
  /\ \A m \in Org!Membership, target \in Users, role \in {"none"} \cup Org!Roles :
       [Org!Idle EXCEPT !.step = "authorized", !.actor = m, !.target = target, !.role = role]
         \in Org!Request
  /\ \A i \in Invites : [Org!Idle EXCEPT !.step = "offered", !.token = i] \in Org!Request
  /\ \A m \in Org!Membership :
       [Org!Idle EXCEPT !.step = "deleting", !.actor = m] \in Org!Request
  /\ \A r \in Org!Request, s \in Org!Steps : [r EXCEPT !.step = s] \in Org!Request
  /\ \A r \in Org!Request, s \in Org!Steps, m \in Org!Membership :
       /\ [r EXCEPT !.seen = m, !.step = s] \in Org!Request
       /\ [r EXCEPT !.step = s, !.seen = m] \in Org!Request
<1>1. Org!NotMember \in Org!Membership
  BY OrgBoundsAssumption DEF Org!NotMember, Org!Membership
<1>2. {"idle", "authorized", "offered", "deleting"} \subseteq Org!Steps
  BY DEF Org!Steps
<1>3. Org!Idle \in Org!Request
  BY <1>1, <1>2 DEF Org!Request, Org!Idle
<1>4. \A m \in Org!Membership, target \in Users, role \in {"none"} \cup Org!Roles :
       [Org!Idle EXCEPT !.step = "authorized", !.actor = m, !.target = target, !.role = role]
         \in Org!Request
  BY <1>1, <1>2 DEF Org!Request, Org!Idle
<1>5. \A i \in Invites : [Org!Idle EXCEPT !.step = "offered", !.token = i] \in Org!Request
  BY <1>1, <1>2 DEF Org!Request, Org!Idle
<1>6. \A m \in Org!Membership :
       [Org!Idle EXCEPT !.step = "deleting", !.actor = m] \in Org!Request
  BY <1>1, <1>2 DEF Org!Request, Org!Idle
<1>7. \A r \in Org!Request, s \in Org!Steps : [r EXCEPT !.step = s] \in Org!Request
  BY DEF Org!Request
<1>8. \A r \in Org!Request, s \in Org!Steps, m \in Org!Membership :
       /\ [r EXCEPT !.seen = m, !.step = s] \in Org!Request
       /\ [r EXCEPT !.step = s, !.seen = m] \in Org!Request
  BY DEF Org!Request
<1> QED
  BY <1>3, <1>4, <1>5, <1>6, <1>7, <1>8

\* What the fields of a request, a membership row and an invite hold.
LEMMA OrgFields ==
  /\ \A r \in Org!Request :
       /\ r.step \in Org!Steps /\ r.actor \in Org!Membership /\ r.seen \in Org!Membership
       /\ r.role \in {"none"} \cup Org!Roles
  /\ \A m \in Org!Membership : m.role \in {"none"} \cup Org!Roles /\ m.id \in 0 .. MaxRows
  /\ \A m \in Org!Membership, role \in Org!Roles : [m EXCEPT !.role = role] \in Org!Membership
  /\ \A role \in Org!Roles, n \in 0 .. MaxRows : [role |-> role, id |-> n] \in Org!Membership
  /\ Org!NotMember \in Org!Membership /\ Org!NotMember.id = 0 /\ Org!NotMember.role = "none"
  /\ \A i \in Org!Invite : i.role \in Org!Roles /\ [i EXCEPT !.state = "accepted"] \in Org!Invite
                          /\ [i EXCEPT !.state = "expired"] \in Org!Invite
  /\ \A role \in Org!Roles : [state |-> "open", role |-> role] \in Org!Invite
  /\ "none" \notin Org!Roles
<1> USE OrgBoundsAssumption
<1>1. \A r \in Org!Request :
       /\ r.step \in Org!Steps /\ r.actor \in Org!Membership /\ r.seen \in Org!Membership
       /\ r.role \in {"none"} \cup Org!Roles
  BY DEF Org!Request
<1>2. /\ \A m \in Org!Membership : m.role \in {"none"} \cup Org!Roles /\ m.id \in 0 .. MaxRows
      /\ \A m \in Org!Membership, role \in Org!Roles : [m EXCEPT !.role = role] \in Org!Membership
      /\ \A role \in Org!Roles, n \in 0 .. MaxRows : [role |-> role, id |-> n] \in Org!Membership
      /\ Org!NotMember \in Org!Membership /\ Org!NotMember.id = 0 /\ Org!NotMember.role = "none"
  BY DEF Org!Membership, Org!NotMember
<1>3. /\ \A i \in Org!Invite : i.role \in Org!Roles /\ [i EXCEPT !.state = "accepted"] \in Org!Invite
                          /\ [i EXCEPT !.state = "expired"] \in Org!Invite
      /\ \A role \in Org!Roles : [state |-> "open", role |-> role] \in Org!Invite
  BY DEF Org!Invite
<1> QED
  BY <1>1, <1>2, <1>3 DEF Org!Roles

\* Every step keeps the types.
LEMMA OrgTypeStep ==
  ASSUME Org!TypeOK, \A u \in Users : OrgHolds(req[u]), [Org!Next]_orgVars
  PROVE  Org!TypeOK'
<1>0. /\ rowsMade + 1 # 0
      /\ rowsMade < MaxRows => rowsMade + 1 \in 0 .. MaxRows
  BY OrgBoundsAssumption DEF Org!TypeOK
<1> USE OrgRequests DEF Org!TypeOK, Org!Begin, Org!Proceed, Org!Refuse, Org!Done
<1>1. ASSUME NEW u \in Users, NEW target \in Users, NEW role \in {"none"} \cup Org!Roles,
             Org!Authorize(u, target, role)
      PROVE  Org!TypeOK'
  BY <1>1 DEF Org!Authorize
<1>2. ASSUME NEW u \in Users, Org!FindTarget(u) PROVE Org!TypeOK'
  <2> DEFINE s == Org!Loaded(u)
             next == [req[u] EXCEPT !.seen = s,
                        !.step = IF Org!LosesOwner(s, req[u].role) THEN "found" ELSE "allowed"]
  <2>1. req[u].target \in Users
    BY <1>2 DEF Org!FindTarget, OrgHolds
  <2>2. s \in Org!Membership
    BY <2>1, OrgFields DEF Org!Loaded
  <2>3. {"found", "allowed"} \subseteq Org!Steps
    BY DEF Org!Steps
  <2>4. next \in Org!Request
    <3>1. (IF Org!LosesOwner(s, req[u].role) THEN "found" ELSE "allowed") \in Org!Steps
      BY <2>3
    <3> QED
      BY <2>2, <3>1
  <2>5. Org!Proceed(u, next) \/ Org!Refuse(u)
    BY <1>2 DEF Org!FindTarget
  <2> HIDE DEF s, next
  <2> QED
    BY <2>4, <2>5
<1>3. ASSUME NEW u \in Users, Org!CountOwners(u) PROVE Org!TypeOK'
  <2>1. [req[u] EXCEPT !.step = "allowed"] \in Org!Request
    BY DEF Org!Steps
  <2>2. Org!Proceed(u, [req[u] EXCEPT !.step = "allowed"]) \/ Org!Refuse(u)
    BY <1>3 DEF Org!CountOwners
  <2> QED
    BY <2>1, <2>2
<1>4. ASSUME NEW u \in Users, Org!ChangeRole(u) PROVE Org!TypeOK'
  <2> DEFINE t == req[u].target
  <2>1. t \in Users /\ req[u].role \in Org!Roles /\ req[u].seen.id # 0
    BY <1>4, OrgFields DEF Org!ChangeRole, OrgHolds
  <2>2. \/ member' = member
        \/ member[t].id # 0 /\ member' = [member EXCEPT ![t].role = req[u].role]
    BY <1>4, <2>1 DEF Org!ChangeRole
  <2>3. /\ member' \in [Users -> Org!Membership]
        /\ \A v \in Users : (member'[v].role = "none") <=> (member'[v].id = 0)
    <3>1. CASE member' = member
      BY <3>1
    <3>2. CASE member[t].id # 0 /\ member' = [member EXCEPT ![t].role = req[u].role]
      <4>1. \A v \in Users : member'[v] = IF v = t THEN [member[t] EXCEPT !.role = req[u].role]
                                                   ELSE member[v]
        BY <3>2
      <4>2. /\ [member[t] EXCEPT !.role = req[u].role].role # "none"
            /\ [member[t] EXCEPT !.role = req[u].role].id # 0
        <5>1. req[u].role # "none"
          BY <2>1, OrgFields
        <5>2. DOMAIN member[t] = {"role", "id"}
          BY <2>1 DEF Org!Membership
        <5> QED
          BY <3>2, <5>1, <5>2
      <4>3. member' \in [Users -> Org!Membership]
        BY <2>1, <3>2, OrgFields
      <4> QED
        BY <4>1, <4>2, <4>3
    <3> QED
      BY <2>2, <3>1, <3>2
  <2> QED
    BY <1>4, <2>3 DEF Org!ChangeRole
<1>5. ASSUME NEW u \in Users, Org!RemoveMember(u) PROVE Org!TypeOK'
  BY <1>5, OrgFields DEF Org!RemoveMember
<1>6. ASSUME NEW u \in Users, NEW i \in Invites, NEW role \in Org!Roles,
             NEW addressee \in Users, Org!SendInvite(u, i, role, addressee)
      PROVE  Org!TypeOK'
  BY <1>6, OrgFields DEF Org!SendInvite
<1>7. ASSUME NEW u \in Users, NEW i \in Invites, Org!AcceptRead(u, i) PROVE Org!TypeOK'
  BY <1>7 DEF Org!AcceptRead
<1>8. ASSUME NEW u \in Users, Org!AcceptMatch(u) PROVE Org!TypeOK'
  <2>1. [req[u] EXCEPT !.step = "matched", !.seen = member[u]] \in Org!Request
    BY DEF Org!Steps
  <2> QED
    BY <1>8, <2>1 DEF Org!AcceptMatch
<1>9. ASSUME NEW u \in Users, Org!AcceptWrite(u) PROVE Org!TypeOK'
  <2>1. req[u].token \in Invites /\ invite[req[u].token] \in Org!Invite
    BY <1>9 DEF Org!AcceptWrite, OrgHolds
  <2> DEFINE row == [role |-> invite[req[u].token].role, id |-> rowsMade + 1]
  <2>2. \/ /\ member' = [member EXCEPT ![u] = row]
           /\ rowsMade < MaxRows /\ rowsMade' = rowsMade + 1
        \/ member' = member /\ rowsMade' = rowsMade
    BY <1>9 DEF Org!AcceptWrite
  <2>3. row.role # "none" /\ row.id # 0
    BY <1>0, <2>1, OrgFields
  <2>4. rowsMade < MaxRows => row \in Org!Membership
    BY <1>0, <2>1, OrgFields
  <2>5. rowsMade' \in 0 .. MaxRows
    BY <1>0, <2>2
  <2>6. \/ invite' = [invite EXCEPT ![req[u].token].state = "accepted"]
        \/ invite' = invite
    BY <1>9 DEF Org!AcceptWrite
  <2>7. invite' \in [Invites -> Org!Invite]
    BY <2>1, <2>6, OrgFields
  <2> HIDE DEF row
  <2>8. /\ member' \in [Users -> Org!Membership]
        /\ \A v \in Users : (member'[v].role = "none") <=> (member'[v].id = 0)
    BY <2>2, <2>3, <2>4
  <2> QED
    BY <1>9, <2>5, <2>7, <2>8 DEF Org!AcceptWrite
<1>10. ASSUME NEW u \in Users, Org!AuthorizeDelete(u) PROVE Org!TypeOK'
  BY <1>10 DEF Org!AuthorizeDelete
<1>11. ASSUME NEW u \in Users, Org!DeleteOrg(u) PROVE Org!TypeOK'
  BY <1>11, OrgFields DEF Org!DeleteOrg
<1>12. ASSUME NEW i \in Invites, Org!Expire(i) PROVE Org!TypeOK'
  BY <1>12, OrgFields DEF Org!Expire
<1>13. CASE UNCHANGED orgVars
  BY <1>13
<1> QED
  BY <1>1, <1>2, <1>3, <1>4, <1>5, <1>6, <1>7, <1>8, <1>9, <1>10, <1>11, <1>12, <1>13
  DEF Org!Next

\* Rows keep their ids, lose them, or get the next one.
LEMMA OrgRowsStep ==
  ASSUME Org!TypeOK, \A u \in Users : OrgHolds(req[u]), OrgRows, [Org!Next]_orgVars
  PROVE  OrgRows'
<1>0. /\ rowsMade \in Nat /\ rowsMade + 1 > rowsMade
      /\ \A v \in Users : member[v].id \in Nat /\ member[v].role \in {"none"} \cup Org!Roles
  BY OrgFields, OrgBoundsAssumption DEF Org!TypeOK
<1>1. SUFFICES
        \/ rowsMade' = rowsMade /\ \A v \in Users : member'[v].id \in {0, member[v].id}
        \/ /\ rowsMade' = rowsMade + 1
           /\ \E u \in Users : \A v \in Users :
                member'[v].id = IF v = u THEN rowsMade + 1 ELSE member[v].id
  BY <1>0 DEF OrgRows
<1>2. CASE rowsMade' = rowsMade /\ member' = member
  BY <1>2
<1>3. ASSUME NEW u \in Users, Org!ChangeRole(u)
      PROVE  rowsMade' = rowsMade /\ \A v \in Users : member'[v].id \in {0, member[v].id}
  <2> DEFINE t == req[u].target
  <2>1. t \in Users
    BY <1>3 DEF Org!ChangeRole, OrgHolds
  <2>2. \/ member' = member
        \/ member' = [member EXCEPT ![t].role = req[u].role]
    BY <1>3 DEF Org!ChangeRole
  <2>3. DOMAIN member[t] = {"role", "id"} /\ member \in [Users -> Org!Membership]
    BY <2>1 DEF Org!TypeOK, Org!Membership
  <2> HIDE DEF t
  <2>4. \A v \in Users : member'[v].id = member[v].id
    BY <2>1, <2>2, <2>3
  <2> QED
    BY <1>3, <2>4 DEF Org!ChangeRole
<1>4. ASSUME NEW u \in Users, Org!RemoveMember(u)
      PROVE  rowsMade' = rowsMade /\ \A v \in Users : member'[v].id \in {0, member[v].id}
  BY <1>4, OrgFields DEF Org!RemoveMember, Org!TypeOK
<1>5. ASSUME NEW u \in Users, Org!AcceptWrite(u), ~UNCHANGED <<rowsMade, member>>
      PROVE  /\ rowsMade' = rowsMade + 1
             /\ \E w \in Users : \A v \in Users :
                  member'[v].id = IF v = w THEN rowsMade + 1 ELSE member[v].id
  <2> DEFINE row == [role |-> invite[req[u].token].role, id |-> rowsMade + 1]
  <2>1. member' = [member EXCEPT ![u] = row] /\ rowsMade' = rowsMade + 1
    BY <1>5 DEF Org!AcceptWrite
  <2>2. row.id = rowsMade + 1
    OBVIOUS
  <2> HIDE DEF row
  <2>3. \A v \in Users : member'[v].id = IF v = u THEN rowsMade + 1 ELSE member[v].id
    BY <2>1, <2>2 DEF Org!TypeOK
  <2> QED
    BY <2>1, <2>3
<1>6. ASSUME NEW u \in Users, Org!DeleteOrg(u)
      PROVE  rowsMade' = rowsMade /\ \A v \in Users : member'[v].id \in {0, member[v].id}
  BY <1>6, OrgFields DEF Org!DeleteOrg
<1> QED
  BY <1>2, <1>3, <1>4, <1>5, <1>6
  DEF Org!Next, Org!Authorize, Org!FindTarget, Org!CountOwners, Org!SendInvite, Org!AcceptRead,
      Org!AcceptMatch, Org!AuthorizeDelete, Org!Expire, Org!Begin, Org!Proceed, Org!Refuse

\* What a step leaves in flight: one request, of its user, that starts, goes on or ends.
LEMMA OrgHoldsStep ==
  ASSUME Org!TypeOK, \A u \in Users : OrgHolds(req[u]), [Org!Next]_orgVars
  PROVE  \A u \in Users : OrgHolds(req'[u])
<1> USE DEF Org!TypeOK, Org!Begin, Org!Proceed, Org!Refuse, Org!Done
<1>0. OrgHolds(Org!Idle)
  BY DEF OrgHolds, Org!Idle
<1>1. ASSUME NEW u \in Users, NEW target \in Users, NEW role \in {"none"} \cup Org!Roles,
             Org!Authorize(u, target, role)
      PROVE  \A v \in Users : OrgHolds(req'[v])
  <2>1. OrgHolds([Org!Idle EXCEPT !.step = "authorized", !.actor = member[u],
                                  !.target = target, !.role = role])
    BY DEF OrgHolds, Org!Idle
  <2> QED
    BY <1>1, <2>1 DEF Org!Authorize
<1>2. ASSUME NEW u \in Users, Org!FindTarget(u) PROVE \A v \in Users : OrgHolds(req'[v])
  <2> DEFINE s == Org!Loaded(u)
             next == [req[u] EXCEPT !.seen = s,
                        !.step = IF Org!LosesOwner(s, req[u].role) THEN "found" ELSE "allowed"]
  <2>1. \/ req' = [req EXCEPT ![u] = next] /\ member[req[u].target] # Org!NotMember
        \/ req' = [req EXCEPT ![u] = Org!Idle]
    BY <1>2 DEF Org!FindTarget
  <2>2. req[u] \in Org!Request /\ req[u].step = "authorized"
    BY <1>2 DEF Org!FindTarget
  <2>3. req[u].target \in Users /\ req[u].token = NoInvite
    BY <2>2 DEF OrgHolds
  <2>4. /\ next.seen = s /\ next.step \in {"found", "allowed"}
        /\ next.target = req[u].target /\ next.token = req[u].token
    BY <2>2 DEF Org!Request
  <2>5. member[req[u].target] # Org!NotMember => s.id # 0
    <3> SUFFICES ASSUME member[req[u].target] # Org!NotMember PROVE s.id # 0
      OBVIOUS
    <3>1. member[req[u].target].id # 0
      BY <2>3 DEF Org!Membership, Org!NotMember
    <3> QED
      BY <3>1 DEF Org!Loaded
  <2> HIDE DEF s, next
  <2>6. member[req[u].target] # Org!NotMember => OrgHolds(next)
    BY <2>3, <2>4, <2>5 DEF OrgHolds
  <2> QED
    BY <1>0, <2>1, <2>6
<1>3. ASSUME NEW u \in Users, Org!CountOwners(u) PROVE \A v \in Users : OrgHolds(req'[v])
  <2>1. req[u] \in Org!Request /\ req[u].step = "found"
    BY <1>3 DEF Org!CountOwners
  <2>2. OrgHolds([req[u] EXCEPT !.step = "allowed"])
    BY <2>1 DEF OrgHolds, Org!Request
  <2> QED
    BY <1>0, <1>3, <2>2 DEF Org!CountOwners
<1>4. ASSUME NEW u \in Users, NEW i \in Invites, Org!AcceptRead(u, i)
      PROVE  \A v \in Users : OrgHolds(req'[v])
  <2>1. OrgHolds([Org!Idle EXCEPT !.step = "offered", !.token = i])
    BY DEF OrgHolds, Org!Idle
  <2> QED
    BY <1>4, <2>1 DEF Org!AcceptRead
<1>5. ASSUME NEW u \in Users, Org!AcceptMatch(u) PROVE \A v \in Users : OrgHolds(req'[v])
  <2>1. req[u] \in Org!Request /\ req[u].step = "offered"
    BY <1>5 DEF Org!AcceptMatch
  <2>2. OrgHolds([req[u] EXCEPT !.step = "matched", !.seen = member[u]])
    BY <2>1 DEF OrgHolds, Org!Request
  <2> QED
    BY <1>5, <2>2 DEF Org!AcceptMatch
<1>6. ASSUME NEW u \in Users, Org!AuthorizeDelete(u) PROVE \A v \in Users : OrgHolds(req'[v])
  <2>1. OrgHolds([Org!Idle EXCEPT !.step = "deleting", !.actor = member[u]])
    BY DEF OrgHolds, Org!Idle
  <2> QED
    BY <1>6, <2>1 DEF Org!AuthorizeDelete
<1>7. ASSUME NEW u \in Users, req' = [req EXCEPT ![u] = Org!Idle]
      PROVE  \A v \in Users : OrgHolds(req'[v])
  BY <1>0, <1>7
<1>8. CASE req' = req
  BY <1>8
<1> QED
  BY <1>1, <1>2, <1>3, <1>4, <1>5, <1>6, <1>7, <1>8
  DEF Org!Next, Org!ChangeRole, Org!RemoveMember, Org!SendInvite, Org!AcceptWrite,
      Org!DeleteOrg, Org!Expire

\* Admission with one request at a time: nobody else has one in flight.
LEMMA OrgTurn ==
  ASSUME width = 1, Org!Admits
  PROVE  \A v \in Users : req[v] = Org!Idle
<1> DEFINE busy == {v \in Users : req[v] # Org!Idle}
<1>1. IsFiniteSet(busy)
  BY UsersAssumption, FS_Subset
<1>2. Cardinality(busy) \in Nat
  BY <1>1, FS_CardinalityType
<1>3. Cardinality(busy) < 1
  BY DEF Org!Admits, Org!Cardinality, Cardinality
<1>4. Cardinality(busy) = 0
  BY <1>2, <1>3
<1>5. busy = {}
  BY <1>1, <1>4, FS_EmptySet
<1> QED
  BY <1>5

\* When u is the only one with a request before or after the step, what u holds
\* and who is an owner is all there is to see.
LEMMA OrgOnlyOne ==
  ASSUME NEW u \in Users, width' = width,
         width = 1 => \A v \in Users : v # u => req'[v] = Org!Idle,
         width = 1 /\ req'[u] # Org!Idle => live' /\ OrgSteady(u)',
         width = 1 /\ live' => \E v \in Users : member'[v].role = "owner"
  PROVE  OrgInTurn'
BY DEF OrgInTurn

\* The row a request loads is the row that is there.
LEMMA OrgLoads ==
  ASSUME OrgRows, NEW u \in Users, req[u].target \in Users,
         req[u].actor = member[u], req[u].actor.id # 0
  PROVE  Org!Loaded(u) = member[req[u].target]
BY DEF OrgRows, Org!Loaded

\* Every step keeps what is so while requests take turns, an action at a time.
LEMMA OrgInTurnStep ==
  ASSUME Org!TypeOK, \A u \in Users : OrgHolds(req[u]), OrgRows, OrgInTurn, [Org!Next]_orgVars
  PROVE  OrgInTurn'
<1> USE DEF Org!Begin, Org!Proceed, Org!Refuse, Org!Done
<1>a. req \in [Users -> Org!Request] /\ member \in [Users -> Org!Membership]
  BY DEF Org!TypeOK
<1>b. \A u \in Users : req[u].step # "idle" => req[u] # Org!Idle
  BY DEF Org!Idle
<1>c. ASSUME NEW u \in Users, req[u] # Org!Idle
      PROVE  width = 1 => live /\ OrgSteady(u) /\ \A v \in Users : v # u => req[v] = Org!Idle
  BY <1>c DEF OrgInTurn
<1>d. width = 1 /\ live => \E v \in Users : member[v].role = "owner"
  BY DEF OrgInTurn
<1>1. ASSUME NEW u \in Users, NEW target \in Users, NEW role \in {"none"} \cup Org!Roles,
             Org!Authorize(u, target, role)
      PROVE  OrgInTurn'
  <2> DEFINE next == [Org!Idle EXCEPT !.step = "authorized", !.actor = member[u],
                                      !.target = target, !.role = role]
  <2>1. /\ live /\ req' = [req EXCEPT ![u] = next] /\ Org!Admits
        /\ UNCHANGED <<live, personal, member, rowsMade, invite, width>>
    BY <1>1 DEF Org!Authorize
  <2>2. next.step = "authorized" /\ next.actor = member[u]
    BY DEF Org!Idle
  <2>3. member[u].id # 0
    BY <1>1 DEF Org!Authorize, Org!MayManageMembers, Org!TypeOK
  <2> HIDE DEF next
  <2>4. req'[u] = next /\ \A v \in Users : v # u => req'[v] = req[v]
    BY <2>1, <1>a
  <2>5. OrgSteady(u)'
    BY <2>1, <2>2, <2>3, <2>4 DEF OrgSteady
  <2> QED
    BY <2>1, <2>4, <2>5, <1>d, OrgTurn, OrgOnlyOne
<1>2. ASSUME NEW u \in Users, Org!FindTarget(u) PROVE OrgInTurn'
  <2> DEFINE s == Org!Loaded(u)
             next == [req[u] EXCEPT !.seen = s,
                        !.step = IF Org!LosesOwner(s, req[u].role) THEN "found" ELSE "allowed"]
  <2>1. /\ req[u].step = "authorized"
        /\ UNCHANGED <<live, personal, member, rowsMade, invite, width>>
        /\ \/ /\ req' = [req EXCEPT ![u] = next]
              /\ Org!GuardOwnerManagement(req[u].actor, s, req[u].role)
           \/ req' = [req EXCEPT ![u] = Org!Idle]
    BY <1>2 DEF Org!FindTarget
  <2>2. DOMAIN req[u] = {"step", "actor", "target", "role", "seen", "token"}
    BY <1>a DEF Org!Request
  <2>3. /\ next.step = IF Org!LosesOwner(s, req[u].role) THEN "found" ELSE "allowed"
        /\ next.seen = s /\ next.actor = req[u].actor
        /\ next.role = req[u].role /\ next.target = req[u].target
    BY <2>2
  <2>4. /\ width = 1 => live /\ OrgSteady(u)
        /\ width = 1 => \A v \in Users : v # u => req[v] = Org!Idle
    BY <1>b, <1>c, <2>1
  <2>5. req[u].target \in Users
    BY <2>1 DEF OrgHolds
  <2>6. width = 1 => req[u].actor = member[u] /\ req[u].actor.id # 0
    BY <2>1, <2>4 DEF OrgSteady
  <2>7. width = 1 => s = member[req[u].target]
    BY <2>5, <2>6, OrgLoads
  <2> HIDE DEF s, next
  <2>8. ASSUME req' = [req EXCEPT ![u] = next], width = 1,
               Org!GuardOwnerManagement(req[u].actor, s, req[u].role)
        PROVE  OrgSteady(u)'
    <3>1. req'[u] = next
      BY <1>a, <2>8
    <3>2. next.step = "allowed" => ~Org!LosesOwner(next.seen, next.role)
      BY <2>3
    <3>3. next.step \in {"found", "allowed"}
      BY <2>3
    <3>4. /\ next.actor = member'[u] /\ next.actor.id # 0
          /\ next.seen = member'[next.target]
          /\ Org!GuardOwnerManagement(next.actor, next.seen, next.role)
      BY <2>1, <2>3, <2>6, <2>7, <2>8
    <3> QED
      BY <3>1, <3>2, <3>3, <3>4 DEF OrgSteady
  <2>9. \A v \in Users : v # u => req'[v] = req[v]
    BY <1>a, <2>1
  <2>10. req' = [req EXCEPT ![u] = Org!Idle] => req'[u] = Org!Idle
    BY <1>a
  <2> QED
    BY <2>1, <2>4, <2>8, <2>9, <2>10, <1>d, OrgOnlyOne
<1>3. ASSUME NEW u \in Users, Org!CountOwners(u) PROVE OrgInTurn'
  <2> DEFINE next == [req[u] EXCEPT !.step = "allowed"]
  <2>1. /\ req[u].step = "found"
        /\ UNCHANGED <<live, personal, member, rowsMade, invite, width>>
        /\ \/ req' = [req EXCEPT ![u] = next] /\ ~Org!AtMostOneOwner
           \/ req' = [req EXCEPT ![u] = Org!Idle]
    BY <1>3 DEF Org!CountOwners
  <2>2. DOMAIN req[u] = {"step", "actor", "target", "role", "seen", "token"}
    BY <1>a DEF Org!Request
  <2>3. /\ next.step = "allowed" /\ next.seen = req[u].seen /\ next.actor = req[u].actor
        /\ next.role = req[u].role /\ next.target = req[u].target
    BY <2>2
  <2>4. /\ width = 1 => live /\ OrgSteady(u)
        /\ width = 1 => \A v \in Users : v # u => req[v] = Org!Idle
    BY <1>b, <1>c, <2>1
  <2>5. ~Org!AtMostOneOwner => \A t : \E v \in Org!Owners : v # t
    BY DEF Org!AtMostOneOwner
  <2> HIDE DEF next
  <2>6. ASSUME req' = [req EXCEPT ![u] = next], width = 1, ~Org!AtMostOneOwner
        PROVE  OrgSteady(u)'
    <3>1. req'[u] = next /\ Org!Owners' = Org!Owners
      BY <1>a, <2>1, <2>6 DEF Org!Owners
    <3>2. /\ req[u].actor = member[u] /\ req[u].actor.id # 0
          /\ req[u].seen = member[req[u].target]
          /\ Org!GuardOwnerManagement(req[u].actor, req[u].seen, req[u].role)
      BY <2>1, <2>4, <2>6 DEF OrgSteady
    <3> QED
      BY <2>1, <2>3, <2>5, <2>6, <3>1, <3>2 DEF OrgSteady
  <2>7. \A v \in Users : v # u => req'[v] = req[v]
    BY <1>a, <2>1
  <2>8. req' = [req EXCEPT ![u] = Org!Idle] => req'[u] = Org!Idle
    BY <1>a
  <2> QED
    BY <2>1, <2>4, <2>6, <2>7, <2>8, <1>d, OrgOnlyOne
<1>4. ASSUME NEW u \in Users, Org!ChangeRole(u) PROVE OrgInTurn'
  <2> DEFINE t == req[u].target
  <2>1. /\ req[u].step = "allowed" /\ req[u].role \in Org!Roles
        /\ req' = [req EXCEPT ![u] = Org!Idle] /\ UNCHANGED <<live, width>>
    BY <1>4, <1>a, OrgFields DEF Org!ChangeRole
  <2>2. t \in Users
    BY <2>1 DEF OrgHolds
  <2>3. width = 1 => live /\ OrgSteady(u) /\ \A v \in Users : v # u => req[v] = Org!Idle
    BY <1>b, <1>c, <2>1
  <2>4. width = 1 => /\ req[u].seen = member[t]
                     /\ Org!LosesOwner(member[t], req[u].role) =>
                          \E v \in Users : member[v].role = "owner" /\ v # t
    BY <2>1, <2>3 DEF OrgSteady, Org!Owners
  <2>5. DOMAIN member[t] = {"role", "id"}
    BY <1>a, <2>2 DEF Org!Membership
  <2>6. \/ member' = member
        \/ member' = [member EXCEPT ![t].role = req[u].role]
    BY <1>4 DEF Org!ChangeRole
  <2>7. width = 1 => (member' = member => req[u].seen.role = req[u].role)
    BY <1>4, <1>a, <2>2, <2>4, <2>5 DEF Org!ChangeRole
  <2>8. width = 1 => \E v \in Users : member'[v].role = "owner"
    <3> SUFFICES ASSUME width = 1 PROVE \E v \in Users : member'[v].role = "owner"
      OBVIOUS
    <3>1. CASE member' = member
      BY <1>d, <2>3, <3>1
    <3>2. CASE member' = [member EXCEPT ![t].role = req[u].role]
      <4>1. /\ \A v \in Users : v # t => member'[v] = member[v]
            /\ member'[t].role = req[u].role
        BY <1>a, <2>2, <2>5, <3>2
      <4>2. PICK w \in Users : member[w].role = "owner"
        BY <1>d, <2>3
      <4>3. CASE req[u].role = "owner"
        BY <2>2, <4>1, <4>3
      <4>4. CASE req[u].role # "owner"
        BY <2>4, <4>1, <4>2, <4>4 DEF Org!LosesOwner
      <4> QED
        BY <4>3, <4>4
    <3> QED
      BY <2>6, <3>1, <3>2
  <2>9. req'[u] = Org!Idle /\ \A v \in Users : v # u => req'[v] = req[v]
    BY <1>a, <2>1
  <2> QED
    BY <2>1, <2>3, <2>8, <2>9, OrgOnlyOne
<1>5. ASSUME NEW u \in Users, Org!RemoveMember(u) PROVE OrgInTurn'
  <2> DEFINE t == req[u].target
  <2>1. /\ req[u].step = "allowed" /\ req[u].role = "none"
        /\ req' = [req EXCEPT ![u] = Org!Idle] /\ UNCHANGED <<live, width>>
        /\ member' = [member EXCEPT ![t] = Org!NotMember]
    BY <1>5 DEF Org!RemoveMember
  <2>2. t \in Users
    BY <2>1 DEF OrgHolds
  <2>3. width = 1 => live /\ OrgSteady(u) /\ \A v \in Users : v # u => req[v] = Org!Idle
    BY <1>b, <1>c, <2>1
  <2>4. width = 1 => /\ req[u].seen = member[t]
                     /\ Org!LosesOwner(member[t], req[u].role) =>
                          \E v \in Users : member[v].role = "owner" /\ v # t
    BY <2>1, <2>3 DEF OrgSteady, Org!Owners
  <2>5. width = 1 => \E v \in Users : member[v].role = "owner" /\ v # t
    BY <1>d, <2>1, <2>3, <2>4 DEF Org!LosesOwner
  <2>6. width = 1 => \E v \in Users : member'[v].role = "owner"
    BY <1>a, <2>1, <2>5
  <2>7. req'[u] = Org!Idle /\ \A v \in Users : v # u => req'[v] = req[v]
    BY <1>a, <2>1
  <2> QED
    BY <2>1, <2>3, <2>6, <2>7, OrgOnlyOne
<1>6. ASSUME NEW u \in Users, NEW i \in Invites, NEW role \in Org!Roles,
             NEW addressee \in Users, Org!SendInvite(u, i, role, addressee)
      PROVE  OrgInTurn'
  <2>1. /\ UNCHANGED <<live, member, req, width>> /\ Org!Admits
    BY <1>6 DEF Org!SendInvite
  <2> QED
    BY <2>1, <1>d, OrgTurn, OrgOnlyOne
<1>7. ASSUME NEW u \in Users, NEW i \in Invites, Org!AcceptRead(u, i) PROVE OrgInTurn'
  <2> DEFINE next == [Org!Idle EXCEPT !.step = "offered", !.token = i]
  <2>1. /\ live /\ req' = [req EXCEPT ![u] = next] /\ Org!Admits /\ invite[i].state = "open"
        /\ UNCHANGED <<live, personal, member, rowsMade, invite, width>>
    BY <1>7 DEF Org!AcceptRead
  <2>2. next.step = "offered" /\ next.token = i
    BY DEF Org!Idle
  <2> HIDE DEF next
  <2>3. req'[u] = next /\ \A v \in Users : v # u => req'[v] = req[v]
    BY <2>1, <1>a
  <2>4. OrgSteady(u)'
    BY <2>1, <2>2, <2>3 DEF OrgSteady
  <2> QED
    BY <2>1, <2>3, <2>4, <1>d, OrgTurn, OrgOnlyOne
<1>8. ASSUME NEW u \in Users, Org!AcceptMatch(u) PROVE OrgInTurn'
  <2> DEFINE next == [req[u] EXCEPT !.step = "matched", !.seen = member[u]]
  <2>1. /\ req[u].step = "offered" /\ req' = [req EXCEPT ![u] = next]
        /\ UNCHANGED <<live, personal, member, rowsMade, invite, width>>
    BY <1>8 DEF Org!AcceptMatch
  <2>2. DOMAIN req[u] = {"step", "actor", "target", "role", "seen", "token"}
    BY <1>a DEF Org!Request
  <2>3. next.step = "matched" /\ next.token = req[u].token /\ next.seen = member[u]
    BY <2>2
  <2>4. width = 1 => live /\ OrgSteady(u) /\ \A v \in Users : v # u => req[v] = Org!Idle
    BY <1>b, <1>c, <2>1
  <2>5. width = 1 => invite[req[u].token].state # "accepted"
    BY <2>1, <2>4 DEF OrgSteady
  <2> HIDE DEF next
  <2>6. req'[u] = next /\ \A v \in Users : v # u => req'[v] = req[v]
    BY <2>1, <1>a
  <2>7. width = 1 => OrgSteady(u)'
    BY <2>1, <2>3, <2>5, <2>6 DEF OrgSteady
  <2> QED
    BY <2>1, <2>4, <2>6, <2>7, <1>d, OrgOnlyOne
<1>9. ASSUME NEW u \in Users, Org!AcceptWrite(u) PROVE OrgInTurn'
  <2>1. /\ req[u].step = "matched" /\ req' = [req EXCEPT ![u] = Org!Idle]
        /\ UNCHANGED <<live, width>>
    BY <1>9 DEF Org!AcceptWrite
  <2>2. width = 1 => live /\ OrgSteady(u) /\ \A v \in Users : v # u => req[v] = Org!Idle
    BY <1>b, <1>c, <2>1
  <2>3. \/ member' = member
        \/ req[u].seen = Org!NotMember /\ \E row : member' = [member EXCEPT ![u] = row]
    BY <1>9 DEF Org!AcceptWrite
  <2>4. width = 1 => req[u].seen = member[u]
    BY <2>1, <2>2 DEF OrgSteady
  <2>5. \A w \in Users : width = 1 /\ member[w].role = "owner" => member'[w].role = "owner"
    BY <1>a, <2>3, <2>4, OrgFields
  <2>6. req'[u] = Org!Idle /\ \A v \in Users : v # u => req'[v] = req[v]
    BY <1>a, <2>1
  <2> QED
    BY <2>1, <2>2, <2>5, <2>6, <1>d, OrgOnlyOne
<1>10. ASSUME NEW u \in Users, Org!AuthorizeDelete(u) PROVE OrgInTurn'
  <2> DEFINE next == [Org!Idle EXCEPT !.step = "deleting", !.actor = member[u]]
  <2>1. /\ live /\ req' = [req EXCEPT ![u] = next] /\ Org!Admits
        /\ UNCHANGED <<live, personal, member, rowsMade, invite, width>>
    BY <1>10 DEF Org!AuthorizeDelete
  <2>2. next.step = "deleting"
    BY DEF Org!Idle
  <2> HIDE DEF next
  <2>3. req'[u] = next /\ \A v \in Users : v # u => req'[v] = req[v]
    BY <2>1, <1>a
  <2>4. OrgSteady(u)'
    BY <2>2, <2>3 DEF OrgSteady
  <2> QED
    BY <2>1, <2>3, <2>4, <1>d, OrgTurn, OrgOnlyOne
<1>11. ASSUME NEW u \in Users, Org!DeleteOrg(u) PROVE OrgInTurn'
  <2>1. /\ req[u].step = "deleting" /\ req' = [req EXCEPT ![u] = Org!Idle]
        /\ live' = FALSE /\ width' = width
    BY <1>11 DEF Org!DeleteOrg
  <2>2. width = 1 => \A v \in Users : v # u => req[v] = Org!Idle
    BY <1>b, <1>c, <2>1
  <2>3. req'[u] = Org!Idle /\ \A v \in Users : v # u => req'[v] = req[v]
    BY <1>a, <2>1
  <2> QED
    BY <2>1, <2>2, <2>3, OrgOnlyOne
<1>12. ASSUME NEW i \in Invites, Org!Expire(i) PROVE OrgInTurn'
  <2>1. /\ invite' = [invite EXCEPT ![i].state = "expired"]
        /\ UNCHANGED <<live, personal, member, rowsMade, req, width>>
    BY <1>12 DEF Org!Expire
  <2>2. invite \in [Invites -> Org!Invite]
    BY DEF Org!TypeOK
  <2>3. \A j \in Invites : invite[j].state # "accepted" => invite'[j].state # "accepted"
    BY <2>1, <2>2 DEF Org!Invite
  <2>4. ASSUME NEW u \in Users, OrgSteady(u) PROVE OrgSteady(u)'
    <3>1. req[u].step \in {"offered", "matched"} => req[u].token \in Invites
      BY DEF OrgHolds
    <3>2. Org!Owners' = Org!Owners
      BY <2>1 DEF Org!Owners
    <3> QED
      BY <2>1, <2>3, <2>4, <3>1, <3>2 DEF OrgSteady
  <2> QED
    BY <2>1, <2>4 DEF OrgInTurn
<1>13. CASE UNCHANGED orgVars
  BY <1>13 DEF OrgInTurn, OrgSteady, Org!Owners
<1> QED
  BY <1>1, <1>2, <1>3, <1>4, <1>5, <1>6, <1>7, <1>8, <1>9, <1>10, <1>11, <1>12, <1>13
  DEF Org!Next

\* The invariant holds of the organization as it is created.
LEMMA OrgInit == Org!Init => OrgInv
<1> SUFFICES ASSUME Org!Init PROVE OrgInv
  OBVIOUS
<1>1. PICK creator \in Users :
        member = [u \in Users |-> IF u = creator THEN [role |-> "owner", id |-> 1]
                                                 ELSE Org!NotMember]
  BY DEF Org!Init
<1>2. [role |-> "owner", id |-> 1] \in Org!Membership
  BY OrgBoundsAssumption DEF Org!Membership, Org!Roles
<1>3. Org!TypeOK
  <2>1. member \in [Users -> Org!Membership]
    BY <1>1, <1>2, OrgFields
  <2>2. \A u \in Users : (member[u].role = "none") <=> (member[u].id = 0)
    BY <1>1, OrgFields
  <2>3. invite \in [Invites -> Org!Invite]
    BY DEF Org!Init, Org!Invite, Org!Roles
  <2>4. req \in [Users -> Org!Request]
    BY OrgRequests DEF Org!Init
  <2>5. rowsMade \in 0 .. MaxRows
    BY OrgBoundsAssumption DEF Org!Init
  <2> QED
    BY <2>1, <2>2, <2>3, <2>4, <2>5 DEF Org!Init, Org!TypeOK
<1>4. OrgRows
  BY <1>1, OrgFields DEF OrgRows, Org!Init
<1>5. \A u \in Users : OrgHolds(req[u])
  BY DEF Org!Init, OrgHolds, Org!Idle
<1>6. OrgInTurn
  BY <1>1 DEF OrgInTurn, Org!Init
<1> QED
  BY <1>3, <1>4, <1>5, <1>6 DEF OrgInv

\* The inductive invariant: types, rows with an id each, what a request in flight
\* holds, and what is so while requests take turns.
THEOREM OrgInvariantHolds == Spec => []OrgInv
<1>1. Init => OrgInv
  BY OrgInit DEF Init
<1>2. OrgInv /\ [Next]_vars => OrgInv'
  <2> SUFFICES ASSUME OrgInv, [Next]_vars PROVE OrgInv'
    OBVIOUS
  <2>1. [Org!Next]_orgVars
    BY DEF Next, vars
  <2> QED
    BY <2>1, OrgTypeStep, OrgRowsStep, OrgHoldsStep, OrgInTurnStep DEF OrgInv
<1> QED
  BY <1>1, <1>2, PTL DEF Spec

\* The organization keeps an owner through every sequence of requests that do not
\* overlap (org_service's last-owner guard).
THEOREM OwnerIsKept == Spec => []Org!KeepsAnOwnerInTurn
<1>1. OrgInv => Org!KeepsAnOwnerInTurn
  BY DEF OrgInv, OrgInTurn, Org!KeepsAnOwnerInTurn, Org!KeepsAnOwner, Org!Owners
<1> QED
  BY <1>1, OrgInvariantHolds, PTL

\* Only an owner manages owners (_guard_owner_management), when requests do not
\* overlap: the request that changes who owns the organization is an owner's.
THEOREM OnlyOwnersManageOwnersHolds == Spec => OnlyOwnersManageOwners
<1> DEFINE A == \A u \in Users :
       /\ width = 1 /\ live'
       /\ member[u] # Org!NotMember
       /\ (member[u].role = "owner") # (member'[u].role = "owner")
       => \E a \in Org!Owners : Org!Ends(a)
<1>1. ASSUME OrgInv, Org!Next PROVE A
  <2> SUFFICES ASSUME width = 1, live', NEW u \in Users, member[u] # Org!NotMember,
                      (member[u].role = "owner") # (member'[u].role = "owner")
               PROVE  \E a \in Org!Owners : Org!Ends(a)
    OBVIOUS
  <2>a. /\ req \in [Users -> Org!Request] /\ member \in [Users -> Org!Membership]
        /\ \A a \in Users : OrgHolds(req[a])
    BY <1>1 DEF OrgInv, Org!TypeOK
  <2>b. \A a \in Users : req[a].step # "idle" => req[a] # Org!Idle /\ OrgSteady(a)
    BY <1>1 DEF Org!Idle, OrgInv, OrgInTurn
  <2>1. ASSUME NEW a \in Users, req[a].step = "allowed", Org!Done(a),
               \A v \in Users : v # req[a].target => member'[v] = member[v],
               member[req[a].target].role # "owner" => member'[req[a].target].role \in
                 {member[req[a].target].role, req[a].role}
        PROVE  \E b \in Org!Owners : Org!Ends(b)
    <3>1. Org!Ends(a)
      BY <2>a, <2>b, <2>1 DEF Org!Ends, Org!Done
    <3>2. /\ req[a].actor = member[a] /\ req[a].seen = member[req[a].target]
          /\ Org!GuardOwnerManagement(req[a].actor, req[a].seen, req[a].role)
      BY <2>b, <2>1 DEF OrgSteady
    <3>3. u = req[a].target
      BY <2>1
    <3>4. member[u].role # "owner" => req[a].role = "owner"
      BY <2>1, <3>3
    <3>5. member[a].role = "owner"
      BY <3>2, <3>3, <3>4 DEF Org!GuardOwnerManagement
    <3> QED
      BY <3>1, <3>5 DEF Org!Owners
  <2>2. ASSUME NEW a \in Users, Org!ChangeRole(a) PROVE \E b \in Org!Owners : Org!Ends(b)
    <3>1. req[a].step = "allowed" /\ Org!Done(a)
      BY <2>2 DEF Org!ChangeRole
    <3>2. req[a].target \in Users
      BY <2>a, <3>1 DEF OrgHolds
    <3>3. DOMAIN member[req[a].target] = {"role", "id"}
      BY <2>a, <3>2 DEF Org!Membership
    <3>4. \/ member' = member
          \/ member' = [member EXCEPT ![req[a].target].role = req[a].role]
      BY <2>2 DEF Org!ChangeRole
    <3>5. /\ \A v \in Users : v # req[a].target => member'[v] = member[v]
          /\ member'[req[a].target].role \in {member[req[a].target].role, req[a].role}
      BY <2>a, <3>2, <3>3, <3>4
    <3> QED
      BY <2>1, <3>1, <3>5
  <2>3. ASSUME NEW a \in Users, Org!RemoveMember(a) PROVE \E b \in Org!Owners : Org!Ends(b)
    <3>1. /\ req[a].step = "allowed" /\ Org!Done(a) /\ req[a].role = "none"
          /\ member' = [member EXCEPT ![req[a].target] = Org!NotMember]
      BY <2>3 DEF Org!RemoveMember
    <3>2. req[a].target \in Users
      BY <2>a, <3>1 DEF OrgHolds
    <3>3. /\ \A v \in Users : v # req[a].target => member'[v] = member[v]
          /\ member'[req[a].target].role = "none"
      BY <2>a, <3>1, <3>2, OrgFields
    <3> QED
      BY <2>1, <3>1, <3>3
  <2>4. ASSUME NEW a \in Users, Org!AcceptWrite(a) PROVE FALSE
    <3>1. \/ member' = member
          \/ req[a].seen = Org!NotMember /\ \E row : member' = [member EXCEPT ![a] = row]
      BY <2>4 DEF Org!AcceptWrite
    <3>2. req[a].seen = member[a]
      BY <2>b, <2>4 DEF Org!AcceptWrite, OrgSteady
    <3> QED
      BY <2>a, <3>1, <3>2
  <2>5. \/ member' = member
        \/ \E a \in Users : Org!ChangeRole(a) \/ Org!RemoveMember(a) \/ Org!AcceptWrite(a)
        \/ live' = FALSE
    BY <1>1 DEF Org!Next, Org!Authorize, Org!FindTarget, Org!CountOwners, Org!SendInvite,
                Org!AcceptRead, Org!AcceptMatch, Org!AuthorizeDelete, Org!DeleteOrg, Org!Expire,
                Org!Begin, Org!Proceed, Org!Refuse
  <2> QED
    BY <2>2, <2>3, <2>4, <2>5
<1>2. OrgInv /\ [Next]_vars => [A]_(Org!vars)
  BY <1>1 DEF Next, vars, Org!vars
<1> QED
  BY <1>2, OrgInvariantHolds, PTL DEF Spec, OnlyOwnersManageOwners, Org!OnlyOwnersManageOwners

\* Membership is granted: a user becomes a member only by the end of an accept of
\* their own, with a row nobody had, and on an invite not yet used when requests
\* take turns.
THEOREM MembershipIsGrantedHolds == Spec => MembershipIsGranted
<1> DEFINE A == \A u \in Users :
       member[u] = Org!NotMember /\ member'[u] # Org!NotMember =>
         /\ Org!Ends(u) /\ req[u].token # NoInvite
         /\ \A v \in Users : member'[u].id # member[v].id
         /\ width = 1 => invite[req[u].token].state # "accepted"
<1>1. ASSUME OrgInv, Org!Next PROVE A
  <2> SUFFICES ASSUME NEW u \in Users, member[u] = Org!NotMember, member'[u] # Org!NotMember
               PROVE  /\ Org!Ends(u) /\ req[u].token # NoInvite
                      /\ \A v \in Users : member'[u].id # member[v].id
                      /\ width = 1 => invite[req[u].token].state # "accepted"
    OBVIOUS
  <2>a. /\ req \in [Users -> Org!Request] /\ member \in [Users -> Org!Membership]
        /\ \A a \in Users : OrgHolds(req[a])
        /\ \A a \in Users : (member[a].role = "none") <=> (member[a].id = 0)
    BY <1>1 DEF OrgInv, Org!TypeOK
  <2>b. \A a \in Users : req[a].step # "idle" =>
          req[a] # Org!Idle /\ (width = 1 => OrgSteady(a))
    BY <1>1 DEF Org!Idle, OrgInv, OrgInTurn
  <2>1. ASSUME NEW a \in Users, Org!ChangeRole(a) PROVE FALSE
    <3> DEFINE t == req[a].target
    <3>1. t \in Users /\ req[a].seen.id # 0
      BY <2>a, <2>1 DEF Org!ChangeRole, OrgHolds
    <3>2. \/ member' = member
          \/ member[t].id # 0 /\ member' = [member EXCEPT ![t].role = req[a].role]
      BY <2>1, <3>1 DEF Org!ChangeRole
    <3> QED
      BY <2>a, <3>1, <3>2, OrgFields
  <2>2. ASSUME NEW a \in Users, Org!AcceptWrite(a)
        PROVE  /\ Org!Ends(u) /\ req[u].token # NoInvite
               /\ \A v \in Users : member'[u].id # member[v].id
               /\ width = 1 => invite[req[u].token].state # "accepted"
    <3> DEFINE row == [role |-> invite[req[a].token].role, id |-> rowsMade + 1]
    <3>1. \/ member' = member
          \/ member' = [member EXCEPT ![a] = row]
      BY <2>2 DEF Org!AcceptWrite
    <3>2. row.id = rowsMade + 1
      OBVIOUS
    <3> HIDE DEF row
    <3>3. u = a /\ member'[u] = row
      BY <2>a, <3>1
    <3>4. req[a].step = "matched" /\ Org!Done(a)
      BY <2>2 DEF Org!AcceptWrite
    <3>5. Org!Ends(u)
      BY <2>a, <2>b, <3>3, <3>4 DEF Org!Ends, Org!Done
    <3>6. req[a].token \in Invites
      BY <2>a, <3>4 DEF OrgHolds
    <3>7. \A v \in Users : member'[u].id # member[v].id
      <4>1. \A v \in Users : member[v].id \in Nat /\ member[v].id <= rowsMade
        BY <1>1, <2>a, OrgFields, OrgBoundsAssumption DEF OrgInv, OrgRows
      <4>2. rowsMade \in Nat
        BY <1>1, OrgBoundsAssumption DEF OrgInv, Org!TypeOK
      <4> QED
        BY <3>2, <3>3, <4>1, <4>2
    <3>8. width = 1 => invite[req[a].token].state # "accepted"
      BY <2>b, <3>4 DEF OrgSteady
    <3> QED
      BY <3>3, <3>5, <3>6, <3>7, <3>8, NobodyAssumption
  <2>3. \/ member' = member
        \/ \E a \in Users : member' = [member EXCEPT ![a] = Org!NotMember]
        \/ \E a \in Users : Org!ChangeRole(a) \/ Org!AcceptWrite(a)
        \/ \E a \in Users : Org!RemoveMember(a)
        \/ member' = [v \in Users |-> Org!NotMember]
    BY <1>1 DEF Org!Next, Org!Authorize, Org!FindTarget, Org!CountOwners, Org!SendInvite,
                Org!AcceptRead, Org!AcceptMatch, Org!AuthorizeDelete, Org!DeleteOrg, Org!Expire,
                Org!Begin, Org!Proceed, Org!Refuse
  <2>4. ASSUME NEW a \in Users, Org!RemoveMember(a) PROVE FALSE
    BY <2>a, <2>4 DEF Org!RemoveMember
  <2> QED
    BY <2>a, <2>1, <2>2, <2>3, <2>4
<1>2. OrgInv /\ [Next]_vars => [A]_(Org!vars)
  BY <1>1 DEF Next, vars, Org!vars
<1> QED
  BY <1>2, OrgInvariantHolds, PTL DEF Spec, MembershipIsGranted, Org!MembershipIsGranted

-----------------------------------------------------------------------------
(* Self-healing, accounts and staff. *)

HIDE DEF orgVars
USE DEF healVars

HealTargets == Addrs \ {Home}

\* A heal was surfaced by a run that took place, and earned there.
HealEarned(a) ==
  heals[a].status # "none" =>
    /\ heals[a].run \in 1 .. Len(outcomes)
    /\ outcomes[heals[a].run] = "location"
    /\ \E q \in 1 .. (heals[a].run - 1) :
         outcomes[q] = "pass" /\ heals[a].run - q <= Window

\* A review in flight is of a heal that exists.
HealReviewed(s) ==
  reviews[s] # Heal!NoReview =>
    /\ reviews[s].verdict \in Heal!Verdicts
    /\ reviews[s].heal \in HealTargets
    /\ heals[reviews[s].heal].status # "none"

\* While reviews take turns, the heal under review is still open, and the script was
\* only ever moved by a heal that stands confirmed.
HealInTurn ==
  reviewWidth = 1 =>
    /\ \A s \in Reviewers : reviews[s] # Heal!NoReview =>
         /\ heals[reviews[s].heal].status = "proposed"
         /\ \A t \in Reviewers : reviews[t] # Heal!NoReview => t = s
    /\ script # Home => heals[script].status = "confirmed"

HealInv ==
  /\ Heal!TypeOK
  /\ \A a \in HealTargets : HealEarned(a)
  /\ \A s \in Reviewers : HealReviewed(s)
  /\ HealInTurn

-----------------------------------------------------------------------------
HealRow == [status : {"none", "proposed"} \cup Heal!Verdicts, run : 0 .. MaxRuns]
HealReview == [verdict : Heal!Verdicts \cup {"none"}, heal : Addrs]

\* The rows and the reviews that steps write.
LEMMA HealRows ==
  /\ Heal!NoHeal \in HealRow /\ Heal!NoHeal.status = "none" /\ Heal!NoHeal.run = 0
  /\ \A r \in 1 .. MaxRuns : [status |-> "proposed", run |-> r] \in HealRow
  /\ \A h \in HealRow, v \in Heal!Verdicts :
       /\ [h EXCEPT !.status = v] \in HealRow
       /\ [h EXCEPT !.status = v].status = v
       /\ [h EXCEPT !.status = v].run = h.run
  /\ \A h \in HealRow : h.run \in 0 .. MaxRuns
  /\ \A v \in Heal!Verdicts, a \in HealTargets :
       /\ [verdict |-> v, heal |-> a] \in HealReview
       /\ [verdict |-> v, heal |-> a] # Heal!NoReview
  /\ Heal!NoReview \in HealReview /\ Heal!NoReview.verdict \notin Heal!Verdicts
  /\ "proposed" \notin Heal!Verdicts /\ "none" \notin Heal!Verdicts
<1> USE HealAssumption DEF HealRow, HealReview, HealTargets, Heal!Verdicts
<1>1. /\ Heal!NoHeal \in HealRow /\ Heal!NoHeal.status = "none" /\ Heal!NoHeal.run = 0
      /\ \A r \in 1 .. MaxRuns : [status |-> "proposed", run |-> r] \in HealRow
  BY DEF Heal!NoHeal
<1>2. \A h \in HealRow, v \in Heal!Verdicts :
        /\ [h EXCEPT !.status = v] \in HealRow
        /\ [h EXCEPT !.status = v].status = v
        /\ [h EXCEPT !.status = v].run = h.run
        /\ h.run \in 0 .. MaxRuns
  OBVIOUS
<1>3. /\ \A v \in Heal!Verdicts, a \in HealTargets :
           /\ [verdict |-> v, heal |-> a] \in HealReview
           /\ [verdict |-> v, heal |-> a] # Heal!NoReview
      /\ Heal!NoReview \in HealReview /\ Heal!NoReview.verdict \notin Heal!Verdicts
      /\ "proposed" \notin Heal!Verdicts /\ "none" \notin Heal!Verdicts
  BY DEF Heal!NoReview
<1> QED
  BY <1>1, <1>2, <1>3

\* The type invariant, in the words of these proofs.
LEMMA HealTypes ==
  Heal!TypeOK <=>
    /\ route \in Addrs /\ script \in Addrs /\ nodes \subseteq Addrs
    /\ answers \in {"ok", "wrong", "gone"}
    /\ outcomes \in Seq({"pass", "assertion", "location"})
    /\ heals \in [HealTargets -> HealRow]
    /\ \A a \in HealTargets : heals[a].status = "none" <=> heals[a].run = 0
    /\ reviews \in [Reviewers -> HealReview]
BY DEF Heal!TypeOK, Heal!Targets, HealTargets, HealRow, HealReview

\* A candidate of a scan: a run that failed, with one that passed in the window before it.
LEMMA HealCandidates ==
  ASSUME NEW r \in Nat, Heal!Candidate(r)
  PROVE  \E q \in 1 .. (r - 1) : outcomes[q] = "pass" /\ r - q <= Window
BY HealAssumption DEF Heal!Candidate, Heal!PassingBefore, Heal!PriorRuns

\* Admission with one review at a time: nobody else reviews.
LEMMA HealTurn ==
  ASSUME reviewWidth = 1, Heal!Cardinality(Heal!Reviewing) < reviewWidth
  PROVE  \A s \in Reviewers : reviews[s] = Heal!NoReview
<1>1. IsFiniteSet(Heal!Reviewing)
  BY HealAssumption, FS_Subset DEF Heal!Reviewing
<1>2. Cardinality(Heal!Reviewing) \in Nat
  BY <1>1, FS_CardinalityType
<1>3. Cardinality(Heal!Reviewing) < 1
  BY DEF Heal!Cardinality, Cardinality
<1>4. Cardinality(Heal!Reviewing) = 0
  BY <1>2, <1>3
<1>5. Heal!Reviewing = {}
  BY <1>1, <1>4, FS_EmptySet
<1> QED
  BY <1>5 DEF Heal!Reviewing

\* A run adds an outcome and leaves the earlier ones.
LEMMA HealOutcomes ==
  ASSUME Heal!TypeOK, Heal!Run
  PROVE  /\ outcomes' \in Seq({"pass", "assertion", "location"})
         /\ Len(outcomes') = Len(outcomes) + 1
         /\ \A i \in 1 .. Len(outcomes) : outcomes'[i] = outcomes[i]
<1>1. Heal!Outcome \in {"pass", "assertion", "location"}
  BY DEF Heal!TypeOK, Heal!Outcome
<1> QED
  BY <1>1 DEF Heal!TypeOK, Heal!Run

\* A review in flight ends by settling its heal one way or the other.
LEMMA HealSettles ==
  ASSUME HealInv, NEW s \in Reviewers, NEW v \in Heal!Verdicts, reviews[s].verdict = v,
         heals' = [heals EXCEPT ![reviews[s].heal].status = v],
         reviews' = [reviews EXCEPT ![s] = Heal!NoReview]
  PROVE  /\ reviews[s].heal \in HealTargets
         /\ heals[reviews[s].heal].status # "none"
         /\ heals' \in [HealTargets -> HealRow]
         /\ heals'[reviews[s].heal].status = v
         /\ \A a \in HealTargets :
              /\ heals'[a].run = heals[a].run
              /\ heals'[a].status = "none" <=> heals[a].status = "none"
              /\ a # reviews[s].heal => heals'[a] = heals[a]
         /\ reviews' \in [Reviewers -> HealReview]
         /\ \A t \in Reviewers : t # s => reviews'[t] = reviews[t]
         /\ reviews'[s] = Heal!NoReview
<1> DEFINE b == reviews[s].heal
<1>1. heals \in [HealTargets -> HealRow] /\ reviews \in [Reviewers -> HealReview]
  BY HealTypes DEF HealInv
<1>2. b \in HealTargets /\ heals[b].status # "none"
  BY HealRows DEF HealInv, HealReviewed
<1> HIDE DEF b
<1>3. heals' = [heals EXCEPT ![b].status = v]
  BY DEF b
<1>4. /\ heals' = [heals EXCEPT ![b] = [heals[b] EXCEPT !.status = v]]
      /\ [heals[b] EXCEPT !.status = v] \in HealRow
      /\ [heals[b] EXCEPT !.status = v].status = v
      /\ [heals[b] EXCEPT !.status = v].run = heals[b].run
  BY <1>1, <1>2, <1>3, HealRows
<1>5. /\ heals' \in [HealTargets -> HealRow]
      /\ heals'[b].status = v /\ heals'[b].run = heals[b].run
      /\ \A a \in HealTargets : a # b => heals'[a] = heals[a]
  BY <1>1, <1>2, <1>4
<1>6. \A a \in HealTargets :
         /\ heals'[a].run = heals[a].run
         /\ heals'[a].status = "none" <=> heals[a].status = "none"
  BY <1>2, <1>5, HealRows
<1>7. /\ reviews' \in [Reviewers -> HealReview] /\ reviews'[s] = Heal!NoReview
      /\ \A t \in Reviewers : t # s => reviews'[t] = reviews[t]
  BY <1>1, HealRows
<1> QED
  BY <1>2, <1>5, <1>6, <1>7 DEF b

LEMMA HealInit == Heal!Init => HealInv
<1> SUFFICES ASSUME Heal!Init PROVE HealInv
  OBVIOUS
<1>1. Heal!TypeOK
  BY HealTypes, HealRows, HealAssumption DEF Heal!Init, Heal!Targets, HealTargets
<1>2. \A a \in HealTargets : HealEarned(a)
  BY HealRows DEF Heal!Init, Heal!Targets, HealTargets, HealEarned
<1>3. \A s \in Reviewers : HealReviewed(s)
  BY DEF Heal!Init, HealReviewed
<1>4. HealInTurn
  BY DEF Heal!Init, HealInTurn
<1> QED
  BY <1>1, <1>2, <1>3, <1>4 DEF HealInv

\* Every step of the application, a run, a scan or a review keeps the invariant.
LEMMA HealStep ==
  ASSUME HealInv, [Heal!Next]_healVars
  PROVE  HealInv'
<1>a. /\ heals \in [HealTargets -> HealRow] /\ reviews \in [Reviewers -> HealReview]
      /\ outcomes \in Seq({"pass", "assertion", "location"}) /\ script \in Addrs
      /\ \A a \in HealTargets : heals[a].status = "none" <=> heals[a].run = 0
  BY HealTypes DEF HealInv
<1>b. /\ Heal!TypeOK /\ HealInTurn
      /\ \A a \in HealTargets : HealEarned(a)
      /\ \A s \in Reviewers : HealReviewed(s)
  BY DEF HealInv
<1>1. ASSUME UNCHANGED <<outcomes, script, heals, reviews, reviewWidth>>,
             route' \in Addrs, nodes' \subseteq Addrs, answers' \in {"ok", "wrong", "gone"}
      PROVE  HealInv'
  BY <1>1, <1>b DEF HealInv, Heal!TypeOK, HealEarned, HealReviewed, HealInTurn
<1>2. ASSUME Heal!Run PROVE HealInv'
  <2>1. /\ outcomes' \in Seq({"pass", "assertion", "location"})
        /\ Len(outcomes') = Len(outcomes) + 1
        /\ \A i \in 1 .. Len(outcomes) : outcomes'[i] = outcomes[i]
    BY <1>2, <1>b, HealOutcomes
  <2>2. UNCHANGED <<route, answers, nodes, script, heals, reviews, reviewWidth>>
    BY <1>2 DEF Heal!Run
  <2>3. ASSUME NEW a \in HealTargets PROVE HealEarned(a)'
    <3>1. HealEarned(a) /\ Len(outcomes) \in Nat
      BY <1>a, <1>b
    <3> QED
      BY <2>1, <2>2, <3>1 DEF HealEarned
  <2>4. Heal!TypeOK'
    BY <1>b, <2>1, <2>2 DEF Heal!TypeOK
  <2> QED
    BY <1>b, <2>2, <2>3, <2>4 DEF HealInv, HealReviewed, HealInTurn
<1>3. ASSUME NEW r \in 1 .. MaxRuns, Heal!Scan(r) PROVE HealInv'
  <2>1. PICK a \in HealTargets :
          /\ script = Home /\ heals[a].status = "none"
          /\ heals' = [heals EXCEPT ![a] = [status |-> "proposed", run |-> r]]
    BY <1>3 DEF Heal!Scan, Heal!Targets, HealTargets
  <2>2. /\ r \in 1 .. Len(outcomes) /\ outcomes[r] = "location" /\ Heal!Candidate(r)
        /\ UNCHANGED <<route, answers, nodes, script, outcomes, reviews, reviewWidth>>
    BY <1>3, <1>a DEF Heal!Scan
  <2>3. /\ heals' \in [HealTargets -> HealRow]
        /\ heals'[a].status = "proposed" /\ heals'[a].run = r
        /\ \A b \in HealTargets : b # a => heals'[b] = heals[b]
    BY <1>a, <2>1, HealRows
  <2>4. Heal!TypeOK'
    <3>1. \A b \in HealTargets : heals'[b].status = "none" <=> heals'[b].run = 0
      BY <1>a, <2>3
    <3> QED
      BY <1>b, <2>2, <2>3, <3>1 DEF Heal!TypeOK, HealRow, Heal!Targets, HealTargets
  <2>5. ASSUME NEW b \in HealTargets PROVE HealEarned(b)'
    <3>1. CASE b = a
      <4>1. \E q \in 1 .. (r - 1) : outcomes[q] = "pass" /\ r - q <= Window
        BY <2>2, HealCandidates
      <4> QED
        BY <2>2, <2>3, <3>1, <4>1 DEF HealEarned
    <3>2. CASE b # a
      BY <1>b, <2>2, <2>3, <3>2 DEF HealEarned
    <3> QED
      BY <3>1, <3>2
  <2>6. ASSUME NEW s \in Reviewers PROVE HealReviewed(s)'
    BY <1>b, <2>1, <2>2, <2>3 DEF HealReviewed
  <2>7. HealInTurn'
    BY <1>b, <2>1, <2>2, <2>3 DEF HealInTurn, HealReviewed
  <2> QED
    BY <2>4, <2>5, <2>6, <2>7 DEF HealInv
<1>4. ASSUME NEW s \in Reviewers, NEW a \in HealTargets, NEW v \in Heal!Verdicts,
             Heal!ReviewRead(s, a, v)
      PROVE  HealInv'
  <2> DEFINE review == [verdict |-> v, heal |-> a]
  <2>1. /\ heals[a].status = "proposed" /\ reviews' = [reviews EXCEPT ![s] = review]
        /\ Heal!Cardinality(Heal!Reviewing) < reviewWidth
        /\ UNCHANGED <<route, answers, nodes, script, outcomes, heals, reviewWidth>>
    BY <1>4 DEF Heal!ReviewRead
  <2>2. /\ review \in HealReview /\ review.verdict = v /\ review.heal = a
    BY HealRows
  <2> HIDE DEF review
  <2>3. /\ reviews' \in [Reviewers -> HealReview] /\ reviews'[s] = review
        /\ \A t \in Reviewers : t # s => reviews'[t] = reviews[t]
    BY <1>a, <2>1, <2>2
  <2>4. Heal!TypeOK'
    BY <1>b, <2>1, <2>3 DEF Heal!TypeOK, HealReview
  <2>5. \A b \in HealTargets : HealEarned(b)'
    BY <1>b, <2>1 DEF HealEarned
  <2>6. ASSUME NEW t \in Reviewers PROVE HealReviewed(t)'
    BY <1>b, <2>1, <2>2, <2>3 DEF HealReviewed
  <2>7. HealInTurn'
    BY <1>b, <2>1, <2>2, <2>3, HealTurn DEF HealInTurn
  <2> QED
    BY <2>4, <2>5, <2>6, <2>7 DEF HealInv
<1>5. ASSUME NEW s \in Reviewers, NEW v \in Heal!Verdicts, reviews[s].verdict = v,
             heals' = [heals EXCEPT ![reviews[s].heal].status = v],
             reviews' = [reviews EXCEPT ![s] = Heal!NoReview],
             script' = IF v = "confirmed" THEN reviews[s].heal ELSE script,
             UNCHANGED <<route, answers, nodes, outcomes, reviewWidth>>
      PROVE  HealInv'
  <2> DEFINE b == reviews[s].heal
  <2>1. /\ b \in HealTargets /\ heals[b].status # "none"
        /\ heals' \in [HealTargets -> HealRow] /\ heals'[b].status = v
        /\ \A a \in HealTargets :
             /\ heals'[a].run = heals[a].run
             /\ heals'[a].status = "none" <=> heals[a].status = "none"
             /\ a # b => heals'[a] = heals[a]
        /\ reviews' \in [Reviewers -> HealReview] /\ reviews'[s] = Heal!NoReview
        /\ \A t \in Reviewers : t # s => reviews'[t] = reviews[t]
    BY <1>5, HealSettles
  <2>2. reviews[s] # Heal!NoReview
    BY <1>5, HealRows
  <2> HIDE DEF b
  <2>3. Heal!TypeOK'
    <3>1. \A a \in HealTargets : heals'[a].status = "none" <=> heals'[a].run = 0
      BY <1>a, <2>1
    <3>2. script' \in Addrs
      BY <1>a, <1>5, <2>1 DEF HealTargets, b
    <3> QED
      BY <1>b, <1>5, <2>1, <3>1, <3>2 DEF Heal!TypeOK, HealRow, HealReview, Heal!Targets, HealTargets
  <2>4. ASSUME NEW a \in HealTargets PROVE HealEarned(a)'
    BY <1>b, <1>5, <2>1 DEF HealEarned
  <2>5. ASSUME NEW t \in Reviewers PROVE HealReviewed(t)'
    BY <1>b, <2>1 DEF HealReviewed
  <2>6. HealInTurn'
    <3> SUFFICES ASSUME reviewWidth = 1
                 PROVE  /\ \A t \in Reviewers : reviews'[t] = Heal!NoReview
                        /\ script' # Home => heals'[script'].status = "confirmed"
      BY <1>5 DEF HealInTurn
    <3>1. /\ heals[b].status = "proposed"
          /\ \A t \in Reviewers : reviews[t] # Heal!NoReview => t = s
          /\ script # Home => heals[script].status = "confirmed"
      BY <1>b, <2>2 DEF HealInTurn, b
    <3>2. \A t \in Reviewers : reviews'[t] = Heal!NoReview
      BY <2>1, <3>1
    <3>3. CASE v = "confirmed"
      <4>1. script' = b
        BY <1>5, <3>3 DEF b
      <4> QED
        BY <2>1, <3>2, <3>3, <4>1
    <3>4. CASE v # "confirmed"
      BY <1>5, <1>a, <2>1, <3>1, <3>4 DEF HealTargets
    <3> QED
      BY <3>2, <3>3, <3>4
  <2> QED
    BY <2>3, <2>4, <2>5, <2>6 DEF HealInv
<1>6. ASSUME NEW s \in Reviewers, Heal!ConfirmHeal(s) \/ Heal!RejectHeal(s) PROVE HealInv'
  BY <1>5, <1>6 DEF Heal!ConfirmHeal, Heal!RejectHeal, Heal!Verdicts
<1>7. ASSUME NEW a \in Addrs, Heal!MoveRoute(a) PROVE HealInv'
  BY <1>1, <1>7, <1>b DEF Heal!MoveRoute, Heal!TypeOK
<1>8. ASSUME NEW kind \in {"ok", "wrong", "gone"}, Heal!Answer(kind) PROVE HealInv'
  BY <1>1, <1>8, <1>b DEF Heal!Answer, Heal!TypeOK
<1>9. ASSUME Heal!Ingest PROVE HealInv'
  BY <1>1, <1>9, <1>b DEF Heal!Ingest, Heal!TypeOK
<1>10. CASE UNCHANGED healVars
  BY <1>1, <1>10, <1>b DEF Heal!TypeOK
<1> QED
  BY <1>2, <1>3, <1>4, <1>6, <1>7, <1>8, <1>9, <1>10
  DEF Heal!Next, Heal!Targets, HealTargets

\* The inductive invariant: types, heals that were earned, reviews of heals that exist, and
\* what is so while reviews take turns.
THEOREM HealInvariantHolds == Spec => []HealInv
<1>1. Init => HealInv
  BY HealInit DEF Init
<1>2. HealInv /\ [Next]_vars => HealInv'
  <2> SUFFICES ASSUME HealInv, [Next]_vars PROVE HealInv'
    OBVIOUS
  <2>1. [Heal!Next]_healVars
    BY DEF Next, vars
  <2> QED
    BY <2>1, HealStep
<1> QED
  BY <1>1, <1>2, PTL DEF Spec

\* A heal exists only for a location failure of a test that had passed in the window
\* before it (scan_run).
THEOREM HealsAreEarnedHolds == Spec => []HealsAreEarned
<1>1. HealInv => HealsAreEarned
  BY DEF HealInv, HealEarned, HealsAreEarned, Heal!HealsAreEarned, Heal!Targets, HealTargets
<1> QED
  BY <1>1, HealInvariantHolds, PTL

\* The live script changes only by confirming a heal that was proposed, and becomes what
\* it proposed; while reviews take turns a verdict is final and a rejected heal leaves the
\* script alone (confirm_heal, reject_heal).
THEOREM ReviewDecidesHolds == Spec => ReviewDecides
<1> DEFINE A ==
      /\ script' # script => /\ heals[script'].status # "none"
                             /\ heals'[script'].status = "confirmed"
      /\ reviewWidth = 1 =>
           /\ \A a \in Heal!Targets :
                heals[a].status \in Heal!Verdicts => heals'[a] = heals[a]
           /\ Heal!RejectedUntouched'
<1>1. ASSUME HealInv, HealInv', Heal!Next, reviewWidth' = reviewWidth PROVE A
  <2>a. heals \in [HealTargets -> HealRow] /\ HealInTurn /\ HealInTurn'
    BY <1>1, HealTypes DEF HealInv
  <2>1. ASSUME reviewWidth = 1 PROVE Heal!RejectedUntouched'
    BY <1>1, <2>a, <2>1 DEF HealInTurn, Heal!RejectedUntouched, Heal!Targets
  <2>2. ASSUME NEW s \in Reviewers, NEW v \in Heal!Verdicts, reviews[s].verdict = v,
               heals' = [heals EXCEPT ![reviews[s].heal].status = v],
               reviews' = [reviews EXCEPT ![s] = Heal!NoReview],
               script' = IF v = "confirmed" THEN reviews[s].heal ELSE script
        PROVE  A
    <3> DEFINE b == reviews[s].heal
    <3>1. /\ heals[b].status # "none" /\ heals'[b].status = v
          /\ \A a \in HealTargets : a # b => heals'[a] = heals[a]
      BY <1>1, <2>2, HealSettles
    <3>2. reviews[s] # Heal!NoReview
      BY <2>2, HealRows
    <3>3. reviewWidth = 1 => heals[b].status = "proposed"
      BY <2>a, <3>2 DEF HealInTurn
    <3>4. reviewWidth = 1 => \A a \in HealTargets :
            heals[a].status \in Heal!Verdicts => heals'[a] = heals[a]
      BY <3>1, <3>3, HealRows
    <3> QED
      BY <2>1, <2>2, <3>1, <3>4 DEF Heal!Targets, HealTargets
  <2>3. ASSUME NEW s \in Reviewers, Heal!ConfirmHeal(s) \/ Heal!RejectHeal(s) PROVE A
    <3> HIDE DEF A
    <3> QED
      BY <2>2, <2>3 DEF Heal!ConfirmHeal, Heal!RejectHeal, Heal!Verdicts
  <2>4. ASSUME NEW r \in 1 .. MaxRuns, Heal!Scan(r) PROVE A
    <3>1. PICK a \in HealTargets :
            /\ heals[a].status = "none"
            /\ heals' = [heals EXCEPT ![a] = [status |-> "proposed", run |-> r]]
      BY <2>4 DEF Heal!Scan, Heal!Targets, HealTargets
    <3>2. \A b \in HealTargets : heals[b].status \in Heal!Verdicts => heals'[b] = heals[b]
      BY <2>a, <3>1, HealRows
    <3>3. script' = script
      BY <2>4 DEF Heal!Scan
    <3> QED
      BY <2>1, <3>2, <3>3 DEF Heal!Targets, HealTargets
  <2>5. CASE UNCHANGED <<script, heals>>
    BY <2>1, <2>5
  <2> HIDE DEF A
  <2> QED
    BY <1>1, <2>3, <2>4, <2>5
    DEF Heal!Next, Heal!MoveRoute, Heal!Answer, Heal!Ingest, Heal!Run, Heal!ReviewRead
<1>2. HealInv /\ HealInv' /\ [Next]_vars => [A]_(Heal!healVars)
  <2>1. Heal!Next => reviewWidth' = reviewWidth
    BY DEF Heal!Next, Heal!MoveRoute, Heal!Answer, Heal!Ingest, Heal!Run, Heal!Scan,
           Heal!ReviewRead, Heal!ConfirmHeal, Heal!RejectHeal
  <2> HIDE DEF A
  <2> QED
    BY <1>1, <2>1 DEF Next, vars, Heal!healVars
<1> QED
  BY <1>2, HealInvariantHolds, PTL DEF Spec, ReviewDecides, Heal!ReviewDecides

-----------------------------------------------------------------------------
(* Accounts, sessions and staff.                                           *)

USE DEF accountVars

\* Whatever refers to an account refers to one that signed up.
AccountsExist ==
  /\ \A p \in Users : account[p].active => account[p].exists
  /\ \A t \in Tokens : session[t] # Acc!NoSession => session[t].owner \in Users
  /\ \A r \in Resets : reset[r] # NoUser => account[reset[r]].exists

\* A request in flight is about an account, with a token of its kind.
AccountHolds(r) ==
  /\ r.doing # "nothing" => r.who \in Users /\ account[r.who].exists
  /\ r.doing = "reset" => r.token \in Resets
  /\ r.doing = "change" => r.token \in Tokens

InChargeOtherThan(q) ==
  \E p \in Users : /\ p # handling[q].who
                   /\ account[p].active /\ account[p].staff = "superadmin"

\* With one request at a time: the passwords that sessions and requests were granted under
\* are the present ones, and whoever is acted on is not the only superadmin.
AccountsInTurn ==
  slotsOpen = 1 =>
    /\ \A t \in Tokens : session[t].fresh
    /\ \E p \in Users : account[p].active /\ account[p].staff = "superadmin"
    /\ \A q \in Slots : handling[q] # Acc!Waiting =>
         /\ handling[q].fresh
         /\ handling[q].doing \in {"deactivate", "set role"} => InChargeOtherThan(q)
         /\ \A s \in Slots : handling[s] # Acc!Waiting => s = q

AccountInv ==
  /\ Acc!TypeOK
  /\ AccountsExist
  /\ \A q \in Slots : AccountHolds(handling[q])
  /\ AccountsInTurn

-----------------------------------------------------------------------------
\* The rows and the requests that steps write.
LEMMA AccountRows ==
  /\ Acc!Member \in Acc!Account /\ Acc!Member.exists /\ Acc!Member.active
  /\ Acc!Nobody \in Acc!Account /\ ~Acc!Nobody.active /\ ~Acc!Nobody.exists
  /\ [Acc!Member EXCEPT !.staff = "superadmin"] \in Acc!Account
  /\ [Acc!Member EXCEPT !.staff = "superadmin"].active
  /\ [Acc!Member EXCEPT !.staff = "superadmin"].exists
  /\ [Acc!Member EXCEPT !.staff = "superadmin"].staff = "superadmin"
  /\ \A a \in Acc!Account, b \in BOOLEAN :
       /\ [a EXCEPT !.active = b] \in Acc!Account
       /\ [a EXCEPT !.active = b].exists = a.exists
       /\ [a EXCEPT !.active = b].staff = a.staff
  /\ \A a \in Acc!Account, role \in Acc!StaffRoles :
       /\ [a EXCEPT !.staff = role] \in Acc!Account
       /\ [a EXCEPT !.staff = role].exists = a.exists
       /\ [a EXCEPT !.staff = role].active = a.active
  /\ Acc!NoSession \in Acc!Session /\ Acc!NoSession.fresh
  /\ \A p \in Users, b \in BOOLEAN : [owner |-> p, fresh |-> b] \in Acc!Session
  /\ \A s \in Acc!Session :
       /\ [s EXCEPT !.fresh = TRUE] \in Acc!Session
       /\ [s EXCEPT !.fresh = TRUE].owner = s.owner
       /\ [s EXCEPT !.fresh = TRUE].fresh
<1>1. /\ Acc!Member \in Acc!Account /\ Acc!Member.exists /\ Acc!Member.active
      /\ Acc!Nobody \in Acc!Account /\ ~Acc!Nobody.active /\ ~Acc!Nobody.exists
      /\ [Acc!Member EXCEPT !.staff = "superadmin"] \in Acc!Account
      /\ [Acc!Member EXCEPT !.staff = "superadmin"].active
      /\ [Acc!Member EXCEPT !.staff = "superadmin"].exists
      /\ [Acc!Member EXCEPT !.staff = "superadmin"].staff = "superadmin"
  BY DEF Acc!Member, Acc!Nobody, Acc!Account, Acc!StaffRoles
<1>2. /\ \A a \in Acc!Account, b \in BOOLEAN :
           /\ [a EXCEPT !.active = b] \in Acc!Account
           /\ [a EXCEPT !.active = b].exists = a.exists
           /\ [a EXCEPT !.active = b].staff = a.staff
      /\ \A a \in Acc!Account, role \in Acc!StaffRoles :
           /\ [a EXCEPT !.staff = role] \in Acc!Account
           /\ [a EXCEPT !.staff = role].exists = a.exists
           /\ [a EXCEPT !.staff = role].active = a.active
  BY DEF Acc!Account
<1>3. /\ Acc!NoSession \in Acc!Session /\ Acc!NoSession.fresh
      /\ \A p \in Users, b \in BOOLEAN : [owner |-> p, fresh |-> b] \in Acc!Session
      /\ \A s \in Acc!Session :
           /\ [s EXCEPT !.fresh = TRUE] \in Acc!Session
           /\ [s EXCEPT !.fresh = TRUE].owner = s.owner
           /\ [s EXCEPT !.fresh = TRUE].fresh
  BY DEF Acc!NoSession, Acc!Session
<1> QED
  BY <1>1, <1>2, <1>3

\* What is kept of a request in flight, and the request as it enters.
AccountRequest(r, doing, who, token) ==
  r \in Acc!Request /\ r.doing = doing /\ r.who = who /\ r.token = token /\ r.fresh

LEMMA AccountRequests ==
  /\ Acc!Waiting \in Acc!Request /\ Acc!Waiting.doing = "nothing" /\ Acc!Waiting.who = NoUser
  /\ \A r \in Acc!Request :
       /\ r.fresh \in BOOLEAN /\ r.role \in Acc!StaffRoles
       /\ [r EXCEPT !.fresh = FALSE] \in Acc!Request
       /\ [r EXCEPT !.fresh = FALSE].doing = r.doing
       /\ [r EXCEPT !.fresh = FALSE].who = r.who
       /\ [r EXCEPT !.fresh = FALSE].token = r.token
  /\ \A p \in Users :
       /\ AccountRequest([Acc!Waiting EXCEPT !.doing = "sign in", !.who = p],
                         "sign in", p, NoUser)
       /\ \A t \in Resets :
            AccountRequest([Acc!Waiting EXCEPT !.doing = "reset", !.who = p, !.token = t],
                           "reset", p, t)
       /\ \A t \in Tokens :
            AccountRequest([Acc!Waiting EXCEPT !.doing = "change", !.who = p, !.token = t],
                           "change", p, t)
       /\ \A chore \in Acc!Chores, role \in Acc!StaffRoles :
            AccountRequest([Acc!Waiting EXCEPT !.doing = chore, !.who = p, !.role = role],
                           chore, p, NoUser)
<1>1. Acc!Waiting \in Acc!Request /\ Acc!Waiting.doing = "nothing" /\ Acc!Waiting.who = NoUser
  BY DEF Acc!Waiting, Acc!Request, Acc!StaffRoles
<1>2. \A r \in Acc!Request :
       /\ r.fresh \in BOOLEAN /\ r.role \in Acc!StaffRoles
       /\ [r EXCEPT !.fresh = FALSE] \in Acc!Request
       /\ [r EXCEPT !.fresh = FALSE].doing = r.doing
       /\ [r EXCEPT !.fresh = FALSE].who = r.who
       /\ [r EXCEPT !.fresh = FALSE].token = r.token
  BY DEF Acc!Request
<1> USE DEF AccountRequest, Acc!Waiting, Acc!Request, Acc!StaffRoles
<1>3. \A p \in Users :
        AccountRequest([Acc!Waiting EXCEPT !.doing = "sign in", !.who = p], "sign in", p, NoUser)
  OBVIOUS
<1>4. \A p \in Users, t \in Resets :
        AccountRequest([Acc!Waiting EXCEPT !.doing = "reset", !.who = p, !.token = t],
                       "reset", p, t)
  OBVIOUS
<1>5. \A p \in Users, t \in Tokens :
        AccountRequest([Acc!Waiting EXCEPT !.doing = "change", !.who = p, !.token = t],
                       "change", p, t)
  OBVIOUS
<1>6. \A p \in Users, chore \in Acc!Chores, role \in Acc!StaffRoles :
        AccountRequest([Acc!Waiting EXCEPT !.doing = chore, !.who = p, !.role = role],
                       chore, p, NoUser)
  OBVIOUS
<1> HIDE DEF AccountRequest, Acc!Waiting, Acc!Request, Acc!StaffRoles
<1> QED
  BY <1>1, <1>2, <1>3, <1>4, <1>5, <1>6

\* Entering with one lane: no other slot has a request.
LEMMA AccountTurn ==
  ASSUME slotsOpen = 1, NEW q \in Slots, NEW r, Acc!Enter(q, r)
  PROVE  \A s \in Slots : handling[s] = Acc!Waiting
<1> DEFINE busy == {s \in Slots : handling[s] # Acc!Waiting}
<1>1. IsFiniteSet(busy)
  BY SlotsAssumption, FS_Subset
<1>2. Cardinality(busy) \in Nat
  BY <1>1, FS_CardinalityType
<1>3. Cardinality(busy) < 1
  BY DEF Acc!Enter, Acc!Cardinality, Cardinality
<1>4. Cardinality(busy) = 0
  BY <1>2, <1>3
<1>5. busy = {}
  BY <1>1, <1>4, FS_EmptySet
<1> QED
  BY <1>5

\* The parts of the invariant that do not depend on the requests in flight.
AccountTables ==
  /\ account \in [Users -> Acc!Account] /\ session \in [Tokens -> Acc!Session]
  /\ reset \in [Resets -> {NoUser} \cup Users]
  /\ \A p \in Users : account[p].active => account[p].exists
  /\ \A t \in Tokens : session[t] # Acc!NoSession =>
       session[t].owner \in Users /\ account[session[t].owner].exists
  /\ \A r \in Resets : reset[r] # NoUser => account[reset[r]].exists

\* The invariant, part by part.
LEMMA AccountParts ==
  AccountInv <=>
    /\ AccountTables
    /\ handling \in [Slots -> Acc!Request] /\ slotsOpen \in 1 .. Acc!Cardinality(Slots)
    /\ \A q \in Slots : AccountHolds(handling[q])
    /\ AccountsInTurn
BY DEF AccountInv, AccountTables, Acc!TypeOK, AccountsExist

\* A request enters: nothing else changes.
LEMMA AccountEnters ==
  ASSUME AccountInv, NEW q \in Slots, NEW r, Acc!Enter(q, r),
         NEW d, d # "nothing", NEW p \in Users, account[p].exists, NEW t,
         AccountRequest(r, d, p, t),
         d = "reset" => t \in Resets,
         d = "change" => t \in Tokens,
         d \in {"deactivate", "set role"} =>
           \E b \in Users : b # p /\ account[b].active /\ account[b].staff = "superadmin"
  PROVE  AccountInv'
<1>1. /\ AccountTables /\ handling \in [Slots -> Acc!Request]
      /\ slotsOpen \in 1 .. Acc!Cardinality(Slots)
      /\ \A s \in Slots : AccountHolds(handling[s])
      /\ AccountsInTurn
  BY AccountParts
<1>2. /\ handling' = [handling EXCEPT ![q] = r]
      /\ UNCHANGED <<account, session, reset, slotsOpen>>
  BY DEF Acc!Enter
<1>3. /\ handling' \in [Slots -> Acc!Request] /\ handling'[q] = r
      /\ \A s \in Slots : s # q => handling'[s] = handling[s]
  BY <1>1, <1>2 DEF AccountRequest
<1>4. AccountTables'
  BY <1>1, <1>2 DEF AccountTables
<1>5. ASSUME NEW s \in Slots PROVE AccountHolds(handling[s])'
  BY <1>1, <1>2, <1>3 DEF AccountHolds, AccountRequest
<1>6. AccountsInTurn'
  <2> SUFFICES ASSUME slotsOpen = 1
               PROVE  /\ \A s \in Slots : s # q => handling'[s] = Acc!Waiting
                      /\ handling'[q].fresh
                      /\ handling'[q].doing \in {"deactivate", "set role"} => InChargeOtherThan(q)'
    BY <1>1, <1>2 DEF AccountsInTurn
  <2>1. \A s \in Slots : s # q => handling'[s] = Acc!Waiting
    BY <1>3, AccountTurn
  <2> QED
    BY <1>2, <1>3, <2>1 DEF AccountRequest, InChargeOtherThan
<1>7. slotsOpen' \in 1 .. Acc!Cardinality(Slots)
  BY <1>1, <1>2
<1> QED
  BY <1>3, <1>4, <1>5, <1>6, <1>7
  DEF AccountInv, AccountTables, Acc!TypeOK, AccountsExist, AccountHolds

\* A request ends: what the others hold is still about the same accounts.
LEMMA AccountLeaves ==
  ASSUME AccountInv, AccountTables', NEW q \in Slots, handling[q].doing # "nothing",
         handling' \in [Slots -> Acc!Request], handling'[q] = Acc!Waiting,
         \A s \in Slots : s # q =>
           /\ handling[s] = Acc!Waiting => handling'[s] = Acc!Waiting
           /\ handling'[s].doing = handling[s].doing /\ handling'[s].who = handling[s].who
           /\ handling'[s].token = handling[s].token,
         \A p \in Users : account[p].exists => account'[p].exists,
         slotsOpen' = slotsOpen,
         slotsOpen = 1 =>
           /\ \A t \in Tokens : session'[t].fresh
           /\ \E p \in Users : account'[p].active /\ account'[p].staff = "superadmin"
  PROVE  AccountInv'
<1>1. /\ slotsOpen \in 1 .. Acc!Cardinality(Slots)
      /\ \A s \in Slots : AccountHolds(handling[s])
      /\ AccountsInTurn
  BY AccountParts
<1>2. ASSUME NEW s \in Slots PROVE AccountHolds(handling[s])'
  BY <1>1, AccountRequests DEF AccountHolds
<1>3. slotsOpen = 1 => \A s \in Slots : handling'[s] = Acc!Waiting
  <2>1. handling[q] # Acc!Waiting
    BY AccountRequests
  <2> QED
    BY <1>1, <2>1 DEF AccountsInTurn
<1>4. AccountsInTurn'
  BY <1>3 DEF AccountsInTurn
<1> QED
  BY <1>1, <1>2, <1>4 DEF AccountInv, AccountTables, Acc!TypeOK, AccountsExist, AccountHolds

\* Something else happens: the requests in flight and the accounts there are stay.
LEMMA AccountStays ==
  ASSUME AccountInv, AccountTables', UNCHANGED <<handling, slotsOpen>>,
         \A p \in Users : account[p].exists => account'[p] = account[p],
         slotsOpen = 1 => \A t \in Tokens : session'[t].fresh
  PROVE  AccountInv'
<1>1. /\ AccountTables /\ slotsOpen \in 1 .. Acc!Cardinality(Slots)
      /\ handling \in [Slots -> Acc!Request]
      /\ \A s \in Slots : AccountHolds(handling[s])
      /\ AccountsInTurn
  BY AccountParts
<1>2. \A p \in Users : account[p].active => account'[p] = account[p]
  BY <1>1 DEF AccountTables
<1>3. ASSUME NEW s \in Slots PROVE AccountHolds(handling[s])'
  BY <1>1 DEF AccountHolds
<1>4. AccountsInTurn'
  <2>1. \A q \in Slots : InChargeOtherThan(q) => InChargeOtherThan(q)'
    BY <1>2 DEF InChargeOtherThan
  <2>2. slotsOpen = 1 => \E p \in Users : account'[p].active /\ account'[p].staff = "superadmin"
    BY <1>1, <1>2 DEF AccountsInTurn
  <2> QED
    BY <1>1, <2>1, <2>2 DEF AccountsInTurn
<1> QED
  BY <1>1, <1>3, <1>4 DEF AccountInv, AccountTables, Acc!TypeOK, AccountsExist, AccountHolds

\* A session is issued to an account that exists.
LEMMA AccountIssues ==
  ASSUME AccountTables, NEW t \in Tokens, NEW p \in Users, NEW fresh \in BOOLEAN,
         Acc!Issue(t, p, fresh),
         account' \in [Users -> Acc!Account], reset' = reset, account'[p].exists,
         \A u \in Users : account[u].exists => account'[u].exists,
         \A u \in Users : account'[u].active => account'[u].exists
  PROVE  /\ AccountTables'
         /\ fresh /\ (\A s \in Tokens : session[s].fresh) =>
              \A s \in Tokens : session'[s].fresh
<1> DEFINE row == [owner |-> p, fresh |-> fresh]
<1>1. row \in Acc!Session /\ row.owner = p /\ row.fresh = fresh
  BY AccountRows
<1>2. session' = [session EXCEPT ![t] = row]
  BY DEF Acc!Issue
<1> HIDE DEF row
<1>3. /\ session' \in [Tokens -> Acc!Session] /\ session'[t] = row
      /\ \A s \in Tokens : s # t => session'[s] = session[s]
  BY <1>1, <1>2 DEF AccountTables
<1>4. \A s \in Tokens : session'[s] # Acc!NoSession =>
        session'[s].owner \in Users /\ account'[session'[s].owner].exists
  BY <1>1, <1>3 DEF AccountTables
<1>5. \A r \in Resets : reset[r] # NoUser => account'[reset[r]].exists
  BY DEF AccountTables
<1> QED
  BY <1>1, <1>3, <1>4, <1>5 DEF AccountTables

\* The sessions a password change leaves.
LEMMA AccountRevokes ==
  ASSUME AccountTables, NEW p \in Users, NEW kept, session' = Acc!Revoked(p, kept), account' = account,
         reset' \in [Resets -> {NoUser} \cup Users],
         \A r \in Resets : reset'[r] \in {NoUser, reset[r]}
  PROVE  /\ AccountTables'
         /\ (\A s \in Tokens : session[s].fresh) => \A s \in Tokens : session'[s].fresh
<1>1. \A s \in Tokens : session'[s] = IF session[s].owner # p THEN session[s]
                                     ELSE IF s = kept THEN [session[s] EXCEPT !.fresh = TRUE]
                                     ELSE Acc!NoSession
  BY DEF Acc!Revoked
<1>2. DOMAIN session' = Tokens /\ session' = [s \in Tokens |-> session'[s]]
  BY DEF Acc!Revoked
<1>3. \A s \in Tokens : session[s] \in Acc!Session
  BY DEF AccountTables
<1>4. \A s \in Tokens :
        /\ session'[s] \in Acc!Session
        /\ session'[s] # Acc!NoSession => session'[s].owner = session[s].owner
        /\ session[s].fresh => session'[s].fresh
  <2>1. /\ Acc!NoSession \in Acc!Session /\ Acc!NoSession.fresh
        /\ \A s \in Tokens : /\ [session[s] EXCEPT !.fresh = TRUE] \in Acc!Session
                            /\ [session[s] EXCEPT !.fresh = TRUE].owner = session[s].owner
                            /\ [session[s] EXCEPT !.fresh = TRUE].fresh
    BY <1>3, AccountRows
  <2> QED
    BY <1>1, <1>3, <2>1
<1>5. session' \in [Tokens -> Acc!Session]
  BY <1>2, <1>4
<1>6. \A s \in Tokens : session'[s] # Acc!NoSession => session[s] # Acc!NoSession
  <2>1. Acc!NoSession.owner # p
    BY NobodyAssumption DEF Acc!NoSession
  <2> QED
    BY <1>1, <2>1
<1>7. \A r \in Resets : reset'[r] # NoUser => reset'[r] = reset[r]
  OBVIOUS
<1> QED
  BY <1>4, <1>5, <1>6, <1>7 DEF AccountTables

\* The invariant holds before the first request.
LEMMA AccountInit == Acc!Init => AccountInv
<1> SUFFICES ASSUME Acc!Init PROVE AccountInv
  OBVIOUS
<1>1. PICK root \in Users :
        account = [p \in Users |-> IF p = root THEN [Acc!Member EXCEPT !.staff = "superadmin"]
                                              ELSE Acc!Nobody]
  BY DEF Acc!Init
<1>2. AccountTables
  BY <1>1, AccountRows DEF Acc!Init, AccountTables
<1>3. handling \in [Slots -> Acc!Request] /\ \A q \in Slots : AccountHolds(handling[q])
  BY AccountRequests DEF Acc!Init, AccountHolds
<1>4. AccountsInTurn
  BY <1>1, AccountRows DEF Acc!Init, AccountsInTurn
<1>5. slotsOpen \in 1 .. Acc!Cardinality(Slots)
  BY DEF Acc!Init
<1> QED
  BY <1>2, <1>3, <1>4, <1>5, AccountParts

\* Every step of a request keeps the invariant.
LEMMA AccountStep ==
  ASSUME AccountInv, [Acc!Next]_accountVars
  PROVE  AccountInv'
<1>a. /\ AccountTables /\ handling \in [Slots -> Acc!Request]
      /\ slotsOpen \in 1 .. Acc!Cardinality(Slots)
      /\ \A s \in Slots : AccountHolds(handling[s])
      /\ AccountsInTurn
  BY AccountParts
<1>b. ASSUME NEW q \in Slots, handling[q].doing # "nothing"
      PROVE  /\ handling[q].who \in Users /\ account[handling[q].who].exists
             /\ handling[q].fresh \in BOOLEAN /\ handling[q].role \in Acc!StaffRoles
             /\ handling[q] # Acc!Waiting
             /\ slotsOpen = 1 =>
                  /\ handling[q].fresh
                  /\ handling[q].doing \in {"deactivate", "set role"} => InChargeOtherThan(q)
  BY <1>a, <1>b, AccountRequests DEF AccountHolds, AccountsInTurn
<1>c. /\ slotsOpen = 1 => \A t \in Tokens : session[t].fresh
      /\ slotsOpen = 1 => \E p \in Users : account[p].active /\ account[p].staff = "superadmin"
  BY <1>a DEF AccountsInTurn
<1>d. ASSUME NEW q \in Slots, Acc!Leave(q)
      PROVE  /\ handling' \in [Slots -> Acc!Request] /\ handling'[q] = Acc!Waiting
             /\ \A s \in Slots : s # q => handling'[s] = handling[s]
  BY <1>a, <1>d, AccountRequests DEF Acc!Leave
<1>e. ASSUME NEW q \in Slots, NEW p \in Users, Acc!LeaveOutdating(q, p)
      PROVE  /\ handling' \in [Slots -> Acc!Request] /\ handling'[q] = Acc!Waiting
             /\ \A s \in Slots : s # q =>
                  /\ handling[s] = Acc!Waiting => handling'[s] = Acc!Waiting
                  /\ handling'[s].doing = handling[s].doing /\ handling'[s].who = handling[s].who
                  /\ handling'[s].token = handling[s].token
  <2>1. \A s \in Slots : /\ [handling[s] EXCEPT !.fresh = FALSE] \in Acc!Request
                         /\ [handling[s] EXCEPT !.fresh = FALSE].doing = handling[s].doing
                         /\ [handling[s] EXCEPT !.fresh = FALSE].who = handling[s].who
                         /\ [handling[s] EXCEPT !.fresh = FALSE].token = handling[s].token
    BY <1>a, AccountRequests
  <2>2. handling' \in [Slots -> Acc!Request] /\ handling'[q] = Acc!Waiting
    BY <1>a, <1>e, <2>1, AccountRequests DEF Acc!LeaveOutdating
  <2>3. \A s \in Slots : s # q =>
          handling'[s] = IF handling[s].who = p THEN [handling[s] EXCEPT !.fresh = FALSE]
                                                ELSE handling[s]
    BY <1>e DEF Acc!LeaveOutdating
  <2>4. Acc!Waiting.who # p
    BY AccountRequests, NobodyAssumption
  <2> QED
    BY <2>1, <2>2, <2>3, <2>4
<1>1. ASSUME NEW p \in Users, NEW t \in Tokens, Acc!SignUp(p, t) PROVE AccountInv'
  <2>1. /\ account' = [account EXCEPT ![p] = Acc!Member] /\ ~account[p].exists
        /\ Acc!Issue(t, p, TRUE) /\ UNCHANGED <<reset, handling, slotsOpen>>
    BY <1>1 DEF Acc!SignUp
  <2>2. /\ account' \in [Users -> Acc!Account] /\ account'[p] = Acc!Member
        /\ \A u \in Users : u # p => account'[u] = account[u]
    BY <1>a, <2>1, AccountRows DEF AccountTables
  <2>3. /\ account'[p].exists
        /\ \A u \in Users : account[u].exists => account'[u] = account[u]
        /\ \A u \in Users : account'[u].active => account'[u].exists
    BY <1>a, <2>1, <2>2, AccountRows DEF AccountTables
  <2>4. \A u \in Users : account[u].exists => account'[u].exists
    BY <2>3
  <2>5. /\ AccountTables'
        /\ (\A s \in Tokens : session[s].fresh) => \A s \in Tokens : session'[s].fresh
    BY <1>a, <2>1, <2>2, <2>3, <2>4, AccountIssues
  <2> QED
    BY <1>c, <2>1, <2>3, <2>5, AccountStays
<1>2. ASSUME NEW t \in Tokens, Acc!End(t) PROVE AccountInv'
  <2>1. /\ session' = [session EXCEPT ![t] = Acc!NoSession]
        /\ UNCHANGED <<account, reset, handling, slotsOpen>>
    BY <1>2 DEF Acc!End
  <2>2. AccountTables' /\ \A s \in Tokens : session[s].fresh => session'[s].fresh
    BY <1>a, <2>1, AccountRows DEF AccountTables
  <2> QED
    BY <1>c, <2>1, <2>2, AccountStays
<1>3. ASSUME NEW r \in Resets,
             Acc!ExpireReset(r) \/ \E p \in Users : Acc!RequestReset(p, r)
      PROVE  AccountInv'
  <2>1. PICK p \in {NoUser} \cup Users :
          /\ reset' = [reset EXCEPT ![r] = p]
          /\ p # NoUser => account[p].exists
          /\ UNCHANGED <<account, session, handling, slotsOpen>>
    BY <1>3 DEF Acc!ExpireReset, Acc!RequestReset
  <2>2. /\ reset' \in [Resets -> {NoUser} \cup Users]
        /\ \A x \in Resets : reset'[x] # NoUser => account[reset'[x]].exists
    <3>1. /\ reset \in [Resets -> {NoUser} \cup Users]
          /\ \A x \in Resets : reset[x] # NoUser => account[reset[x]].exists
      BY <1>a DEF AccountTables
    <3> QED
      BY <2>1, <3>1
  <2>3. AccountTables'
    BY <1>a, <2>1, <2>2 DEF AccountTables
  <2> QED
    BY <1>c, <2>1, <2>3, AccountStays
<1>4. ASSUME NEW q \in Slots, NEW p \in Users, Acc!SignInRead(q, p) PROVE AccountInv'
  <2> DEFINE r == [Acc!Waiting EXCEPT !.doing = "sign in", !.who = p]
  <2>1. Acc!Enter(q, r) /\ account[p].exists
    BY <1>4 DEF Acc!SignInRead
  <2>2. AccountRequest(r, "sign in", p, NoUser)
    BY AccountRequests
  <2> HIDE DEF r
  <2> QED
    BY <2>1, <2>2, AccountEnters
<1>5. ASSUME NEW q \in Slots, NEW r \in Resets, Acc!ResetRead(q, r) PROVE AccountInv'
  <2>1. reset[r] \in Users /\ account[reset[r]].exists
    BY <1>a, <1>5 DEF Acc!ResetRead, AccountTables
  <2> DEFINE p == reset[r]
             n == [Acc!Waiting EXCEPT !.doing = "reset", !.who = p, !.token = r]
  <2>2. Acc!Enter(q, n)
    BY <1>5 DEF Acc!ResetRead
  <2>3. AccountRequest(n, "reset", p, r)
    BY <2>1, AccountRequests
  <2> HIDE DEF p, n
  <2> QED
    BY <2>1, <2>2, <2>3, AccountEnters DEF p
<1>6. ASSUME NEW q \in Slots, NEW t \in Tokens, Acc!ChangeRead(q, t) PROVE AccountInv'
  <2>1. session[t].owner \in Users /\ account[session[t].owner].exists
    BY <1>a, <1>6 DEF Acc!ChangeRead, Acc!Current, AccountTables
  <2> DEFINE p == session[t].owner
             n == [Acc!Waiting EXCEPT !.doing = "change", !.who = p, !.token = t]
  <2>2. Acc!Enter(q, n)
    BY <1>6 DEF Acc!ChangeRead
  <2>3. AccountRequest(n, "change", p, t)
    BY <2>1, AccountRequests
  <2> HIDE DEF p, n
  <2> QED
    BY <2>1, <2>2, <2>3, AccountEnters DEF p
<1>7. ASSUME NEW q \in Slots, NEW t \in Tokens, NEW chore \in Acc!Chores, NEW p \in Users,
             NEW role \in Acc!StaffRoles, Acc!StaffRead(q, t, chore, p, role)
      PROVE  AccountInv'
  <2> DEFINE by == session[t].owner
             r == [Acc!Waiting EXCEPT !.doing = chore, !.who = p, !.role = role]
  <2>1. by \in Users /\ account[by].active
    BY <1>a, <1>7 DEF Acc!StaffRead, Acc!Current, AccountTables
  <2>2. chore \in {"deactivate", "set role"} =>
          by # p /\ account[by].staff = "superadmin"
    BY <1>7 DEF Acc!StaffRead, Acc!MayDo, Acc!NotOnSelf
  <2>3. Acc!Enter(q, r) /\ account[p].exists
    BY <1>7 DEF Acc!StaffRead
  <2>4. AccountRequest(r, chore, p, NoUser)
    BY AccountRequests
  <2>5. chore \notin {"nothing", "reset", "change"}
    BY DEF Acc!Chores
  <2> HIDE DEF by, r
  <2> QED
    BY <2>1, <2>2, <2>3, <2>4, <2>5, AccountEnters
<1>8. ASSUME NEW q \in Slots, NEW t \in Tokens,
             Acc!SignInWrite(q, t) \/ Acc!Impersonate(q, t)
      PROVE  AccountInv'
  <2> DEFINE p == handling[q].who
             fresh == handling[q].fresh
  <2>1. /\ handling[q].doing # "nothing" /\ Acc!Leave(q) /\ Acc!Issue(t, p, fresh)
        /\ UNCHANGED <<account, reset, slotsOpen>>
    BY <1>8 DEF Acc!SignInWrite, Acc!Impersonate
  <2>2. /\ p \in Users /\ account[p].exists /\ fresh \in BOOLEAN
        /\ slotsOpen = 1 => fresh
    BY <1>b, <2>1
  <2> HIDE DEF p, fresh
  <2>3. /\ account' \in [Users -> Acc!Account]
        /\ \A u \in Users : account'[u].active => account'[u].exists
    BY <1>a, <2>1 DEF AccountTables
  <2>4. /\ AccountTables'
        /\ fresh /\ (\A s \in Tokens : session[s].fresh) =>
             \A s \in Tokens : session'[s].fresh
    BY <1>a, <2>1, <2>2, <2>3, AccountIssues
  <2> QED
    BY <1>c, <1>d, <2>1, <2>2, <2>4, AccountLeaves
<1>9. ASSUME NEW q \in Slots, Acc!ResetWrite(q) PROVE AccountInv'
  <2> DEFINE p == handling[q].who
  <2>1. /\ handling[q].doing = "reset" /\ Acc!LeaveOutdating(q, p)
        /\ reset' = [reset EXCEPT ![handling[q].token] = NoUser]
        /\ session' = Acc!Revoked(p, NoUser) /\ UNCHANGED <<account, slotsOpen>>
    BY <1>9 DEF Acc!ResetWrite
  <2>2. p \in Users
    BY <1>b, <2>1
  <2>3. /\ reset' \in [Resets -> {NoUser} \cup Users]
        /\ \A r \in Resets : reset'[r] \in {NoUser, reset[r]}
    BY <1>a, <2>1 DEF AccountTables
  <2> HIDE DEF p
  <2>4. /\ AccountTables'
        /\ (\A s \in Tokens : session[s].fresh) => \A s \in Tokens : session'[s].fresh
    BY <1>a, <2>1, <2>2, <2>3, AccountRevokes
  <2> QED
    BY <1>c, <1>e, <2>1, <2>2, <2>4, AccountLeaves
<1>10. ASSUME NEW q \in Slots, Acc!ChangeWrite(q) PROVE AccountInv'
  <2> DEFINE p == handling[q].who
  <2>1. /\ handling[q].doing = "change" /\ Acc!LeaveOutdating(q, p)
        /\ session' = Acc!Revoked(p, handling[q].token)
        /\ UNCHANGED <<account, reset, slotsOpen>>
    BY <1>10 DEF Acc!ChangeWrite
  <2>2. p \in Users
    BY <1>b, <2>1
  <2>3. /\ reset' \in [Resets -> {NoUser} \cup Users]
        /\ \A r \in Resets : reset'[r] \in {NoUser, reset[r]}
    BY <1>a, <2>1 DEF AccountTables
  <2> HIDE DEF p
  <2>4. /\ AccountTables'
        /\ (\A s \in Tokens : session[s].fresh) => \A s \in Tokens : session'[s].fresh
    BY <1>a, <2>1, <2>2, <2>3, AccountRevokes
  <2> QED
    BY <1>c, <1>e, <2>1, <2>2, <2>4, AccountLeaves
<1>11. ASSUME NEW q \in Slots, handling[q].doing # "nothing", Acc!Leave(q),
              account' \in [Users -> Acc!Account],
              \A u \in Users : /\ u # handling[q].who => account'[u] = account[u]
                               /\ account[u].exists => account'[u].exists,
              UNCHANGED <<session, reset, slotsOpen>>,
              slotsOpen = 1 => \E p \in Users : account'[p].active /\ account'[p].staff = "superadmin"
       PROVE  AccountInv'
  <2>1. account[handling[q].who].exists /\ handling[q].who \in Users
    BY <1>b, <1>11
  <2>2. AccountTables'
    BY <1>a, <1>11, <2>1 DEF AccountTables
  <2> QED
    BY <1>c, <1>d, <1>11, <2>2, AccountLeaves
<1>12. ASSUME NEW q \in Slots, Acc!SetActive(q) PROVE AccountInv'
  <2> DEFINE p == handling[q].who
             row == [account[p] EXCEPT !.active = (handling[q].doing = "reactivate")]
  <2>1. /\ handling[q].doing \in {"deactivate", "reactivate"} /\ Acc!Leave(q)
        /\ account' = [account EXCEPT ![p].active = (handling[q].doing = "reactivate")]
        /\ UNCHANGED <<session, reset, slotsOpen>>
    BY <1>12 DEF Acc!SetActive
  <2>2. /\ p \in Users
        /\ slotsOpen = 1 /\ handling[q].doing = "deactivate" => InChargeOtherThan(q)
    BY <1>b, <2>1
  <2>3. /\ row \in Acc!Account /\ row.exists = account[p].exists
        /\ row.staff = account[p].staff
    BY <1>a, <2>2 DEF AccountTables, Acc!Account
  <2>4. handling[q].doing = "reactivate" => row.active
    BY <1>a, <2>2 DEF AccountTables, Acc!Account
  <2>5. account' = [account EXCEPT ![p] = row]
    BY <1>a, <2>1, <2>2 DEF AccountTables
  <2> HIDE DEF row
  <2>6. /\ account' \in [Users -> Acc!Account] /\ account'[p] = row
        /\ \A u \in Users : u # p => account'[u] = account[u]
    BY <1>a, <2>2, <2>3, <2>5 DEF AccountTables
  <2>7. \A u \in Users : account[u].exists => account'[u].exists
    BY <2>3, <2>6
  <2>8. slotsOpen = 1 => \E u \in Users : account'[u].active /\ account'[u].staff = "superadmin"
    <3> SUFFICES ASSUME slotsOpen = 1
                 PROVE  \E u \in Users : account'[u].active /\ account'[u].staff = "superadmin"
      OBVIOUS
    <3>1. CASE handling[q].doing = "deactivate"
      BY <2>2, <2>6, <3>1 DEF InChargeOtherThan
    <3>2. CASE handling[q].doing = "reactivate"
      BY <1>c, <2>2, <2>3, <2>4, <2>6, <3>2
    <3> QED
      BY <2>1, <3>1, <3>2
  <2> QED
    BY <1>11, <2>1, <2>6, <2>7, <2>8
<1>13. ASSUME NEW q \in Slots, Acc!SetStaffRole(q) PROVE AccountInv'
  <2> DEFINE p == handling[q].who
             row == [account[p] EXCEPT !.staff = handling[q].role]
  <2>1. /\ handling[q].doing = "set role" /\ Acc!Leave(q)
        /\ account' = [account EXCEPT ![p].staff = handling[q].role]
        /\ UNCHANGED <<session, reset, slotsOpen>>
    BY <1>13 DEF Acc!SetStaffRole
  <2>2. /\ p \in Users /\ handling[q].role \in Acc!StaffRoles
        /\ slotsOpen = 1 => InChargeOtherThan(q)
    BY <1>b, <2>1
  <2>3. row \in Acc!Account /\ row.exists = account[p].exists
    BY <1>a, <2>2, AccountRows DEF AccountTables
  <2>4. account' = [account EXCEPT ![p] = row]
    BY <1>a, <2>1, <2>2 DEF AccountTables
  <2> HIDE DEF row
  <2>5. /\ account' \in [Users -> Acc!Account] /\ account'[p] = row
        /\ \A u \in Users : u # p => account'[u] = account[u]
    BY <1>a, <2>2, <2>3, <2>4 DEF AccountTables
  <2>6. \A u \in Users : account[u].exists => account'[u].exists
    BY <2>3, <2>5
  <2>7. slotsOpen = 1 => \E u \in Users : account'[u].active /\ account'[u].staff = "superadmin"
    BY <2>2, <2>5 DEF InChargeOtherThan
  <2> QED
    BY <1>11, <2>1, <2>5, <2>6, <2>7
<1>14. CASE UNCHANGED accountVars
  <2>1. AccountTables'
    BY <1>a, <1>14 DEF AccountTables
  <2> QED
    BY <1>c, <1>14, <2>1, AccountStays
<1> QED
  BY <1>1, <1>2, <1>3, <1>4, <1>5, <1>6, <1>7, <1>8, <1>9, <1>10, <1>12, <1>13, <1>14
  DEF Acc!Next

\* The inductive invariant: types, references to accounts that exist, and what is so while
\* requests take turns.
THEOREM AccountInvariantHolds == Spec => []AccountInv
<1>1. Init => AccountInv
  BY AccountInit DEF Init
<1>2. AccountInv /\ [Next]_vars => AccountInv'
  <2> SUFFICES ASSUME AccountInv, [Next]_vars PROVE AccountInv'
    OBVIOUS
  <2>1. [Acc!Next]_accountVars
    BY DEF Next, vars
  <2> QED
    BY <2>1, AccountStep
<1> QED
  BY <1>1, <1>2, PTL DEF Spec

\* Every session that still answers was opened, or kept, under the account's present
\* password, when requests do not overlap (reset_password, change_password).
THEOREM SessionsFollowThePasswordHolds == Spec => []SessionsFollowThePassword
<1>1. AccountInv => SessionsFollowThePassword
  BY DEF AccountInv, AccountsInTurn, SessionsFollowThePassword, Acc!SessionsFollowThePassword
<1> QED
  BY <1>1, AccountInvariantHolds, PTL

\* When requests do not overlap somebody stays in charge: an organization keeps an owner
\* (org_service's last-owner guard) and the platform an active superadmin (api/admin's
\* rules against acting on oneself).
THEOREM SomeoneIsInChargeHolds == Spec => []SomeoneIsInCharge
<1>1. AccountInv => Acc!KeepsASuperadmin
  BY DEF AccountInv, AccountsInTurn, Acc!KeepsASuperadmin
<1>2. Acc!KeepsASuperadmin /\ Org!KeepsAnOwnerInTurn => SomeoneIsInCharge
  BY DEF SomeoneIsInCharge
<1> QED
  BY <1>1, <1>2, AccountInvariantHolds, OwnerIsKept, PTL

-----------------------------------------------------------------------------
\* The tables of an import stay within their bounds.
LEMMA CsvTypes == Spec => []Csv!CsvTypeOK
<1>1. Init => Csv!CsvTypeOK
  BY CsvBoundsAssumption DEF Init, Csv!Init, Csv!CsvTypeOK
<1>2. Csv!CsvTypeOK /\ [Next]_vars => Csv!CsvTypeOK'
  <2> SUFFICES ASSUME Csv!CsvTypeOK, [Next]_vars PROVE Csv!CsvTypeOK'
    OBVIOUS
  <2>1. CASE \E file \in MCFiles : Csv!Import(file)
    BY <2>1, CsvBoundsAssumption DEF Csv!Import, Csv!CsvTypeOK
  <2>2. CASE \E i \in DOMAIN table : Csv!Edit(i)
    BY <2>2, CsvBoundsAssumption DEF Csv!Edit, Csv!CsvTypeOK
  <2>3. CASE UNCHANGED csvVars
    BY <2>3 DEF csvVars, Csv!CsvTypeOK
  <2> QED
    BY <2>1, <2>2, <2>3 DEF Next, vars, Csv!Next
<1> QED
  BY <1>1, <1>2, PTL DEF Spec

\* The types of all the services.
THEOREM ServicesTypesOKHolds == Spec => []TypesOK
<1>1. OrgInv /\ HealInv /\ AccountInv /\ Csv!CsvTypeOK => TypesOK
  BY DEF OrgInv, HealInv, AccountInv, TypesOK
<1> QED
  BY <1>1, OrgInvariantHolds, HealInvariantHolds, AccountInvariantHolds, CsvTypes, PTL
=============================================================================
