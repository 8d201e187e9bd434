------------------------------ MODULE Accounts ------------------------------
(***************************************************************************)
(* Accounts, their sessions and reset tokens, and the staff who administer *)
(* them: services/auth_service.py, api/auth.py, and the user routes of     *)
(* api/admin.py.                                                           *)
(*                                                                         *)
(* A request reads and checks what it depends on, and writes and commits   *)
(* later; nothing is locked in between, so each of the two is an action.   *)
(* An account stands for its e-mail address: the unique index settles      *)
(* sign-ups that overlap.  Of a password it only matters whether it is     *)
(* still the one a session, or a request in flight, was granted under.     *)
(***************************************************************************)
EXTENDS Naturals, FiniteSets

CONSTANTS
  People,
  Tokens,       \* session tokens
  Resets,       \* password reset tokens
  Slots,        \* requests that may overlap
  NoOne

VARIABLES
  account,  \* the users table
  session,  \* the sessions table
  reset,    \* whose password each reset token opens, or NoOne
  handling, \* the request each slot handles, or Waiting
  lanes     \* how many requests may be in flight at once; with 1 they take turns

vars == <<account, session, reset, handling, lanes>>

StaffRoles == {"none", "support", "superadmin"}
Account == [exists : BOOLEAN, active : BOOLEAN, staff : StaffRoles]
Nobody == [exists |-> FALSE, active |-> FALSE, staff |-> "none"]
Member == [exists |-> TRUE, active |-> TRUE, staff |-> "none"]

\* A session that expired, was deleted or was never opened answers alike: NoSession.
Session == [owner : {NoOne} \cup People, fresh : BOOLEAN]
NoSession == [owner |-> NoOne, fresh |-> TRUE]

\* A token that expired, was used or was never sent answers alike: its owner is NoOne.

Chores == {"deactivate", "reactivate", "set role", "impersonate"}
Request == [
  doing  : {"nothing", "sign in", "reset", "change"} \cup Chores,
  who    : {NoOne} \cup People,          \* the account it is about
  role   : StaffRoles,                   \* the staff role to set
  fresh  : BOOLEAN,                      \* the password is the one it verified
  token  : {NoOne} \cup Tokens \cup Resets  \* the token it was made with
]
Waiting == [doing |-> "nothing", who |-> NoOne, role |-> "none",
            fresh |-> TRUE, token |-> NoOne]

TypeOK ==
  /\ account \in [People -> Account]
  /\ session \in [Tokens -> Session]
  /\ reset \in [Resets -> {NoOne} \cup People]
  /\ handling \in [Slots -> Request]
  /\ lanes \in 1 .. Cardinality(Slots)
  /\ \A t \in Tokens :
       session[t] # NoSession => account[session[t].owner].exists

\* The first superadmin is made by hand; everybody else signs up.
Init ==
  /\ \E root \in People :
       account = [p \in People |-> IF p = root
                    THEN [Member EXCEPT !.staff = "superadmin"]
                    ELSE Nobody]
  /\ session = [t \in Tokens |-> NoSession]
  /\ reset = [r \in Resets |-> NoOne]
  /\ handling = [q \in Slots |-> Waiting]
  /\ lanes \in 1 .. Cardinality(Slots)

----------------------------------------------------------------------------
(* Sessions *)

\* get_current_user: a live session of an active account.
Current(t) == session[t] # NoSession /\ account[session[t].owner].active

\* A token is as good as new once no request holds it.
Held(t) == \E q \in Slots : handling[q].token = t

\* A request enters, with what it has read.
Enter(q, r) ==
  /\ handling[q] = Waiting
  /\ Cardinality({s \in Slots : handling[s] # Waiting}) < lanes
  /\ handling' = [handling EXCEPT ![q] = r]
  /\ UNCHANGED <<account, session, reset, lanes>>

Leave(q) == handling' = [handling EXCEPT ![q] = Waiting]

\* _issue_session.
Issue(t, owner, fresh) ==
  /\ session[t] = NoSession /\ ~Held(t)
  /\ session' = [session EXCEPT ![t] = [owner |-> owner, fresh |-> fresh]]

\* sign_up, with the session it opens.
SignUp(p, t) ==
  /\ ~account[p].exists
  /\ account' = [account EXCEPT ![p] = Member]
  /\ Issue(t, p, TRUE)
  /\ UNCHANGED <<reset, handling, lanes>>

\* sign_in: an active account, and its password ...
SignInRead(q, p) ==
  /\ account[p].exists /\ account[p].active
  /\ Enter(q, [Waiting EXCEPT !.doing = "sign in", !.who = p])

\* ... then the session, whatever the account has become.
SignInWrite(q, t) ==
  LET r == handling[q] IN
  /\ r.doing = "sign in"
  /\ Issue(t, r.who, r.fresh)
  /\ Leave(q)
  /\ UNCHANGED <<account, reset, lanes>>

\* sign_out deletes the row; time does as well.
End(t) ==
  /\ session[t] # NoSession
  /\ session' = [session EXCEPT ![t] = NoSession]
  /\ UNCHANGED <<account, reset, handling, lanes>>

\* Mutant: the other sessions go on.
RevokedMutant(p, kept) ==
  [t \in Tokens |-> IF session[t].owner = p THEN [session[t] EXCEPT !.fresh = (t = kept)]
                                            ELSE session[t]]

\* delete_for_user and delete_for_user_except: of p's sessions only the one kept is
\* left, if it is still there, and goes on under the new password.
Revoked(p, kept) ==
  [t \in Tokens |-> IF session[t].owner # p THEN session[t]
                    ELSE IF t = kept THEN [session[t] EXCEPT !.fresh = TRUE]
                    ELSE NoSession]

\* What the others in flight verified of p's password no longer holds.
LeaveOutdating(q, p) ==
  handling' = [s \in Slots |-> IF s = q THEN Waiting
                               ELSE IF handling[s].who = p
                                 THEN [handling[s] EXCEPT !.fresh = FALSE]
                               ELSE handling[s]]

----------------------------------------------------------------------------
(* Passwords *)

\* request_password_reset: earlier tokens stay good.
RequestReset(p, r) ==
  /\ account[p].exists
  /\ reset[r] = NoOne /\ ~Held(r)
  /\ reset' = [reset EXCEPT ![r] = p]
  /\ UNCHANGED <<account, session, handling, lanes>>

ExpireReset(r) ==
  /\ reset[r] # NoOne
  /\ reset' = [reset EXCEPT ![r] = NoOne]
  /\ UNCHANGED <<account, session, handling, lanes>>

\* reset_password: the token is known, unused and not expired ...
ResetRead(q, r) ==
  /\ reset[r] # NoOne
  /\ Enter(q, [Waiting EXCEPT !.doing = "reset", !.who = reset[r], !.token = r])

\* ... then the new password, the token's use, and every session's end.
ResetWrite(q) ==
  LET r == handling[q] IN
  /\ r.doing = "reset"
  /\ reset' = [reset EXCEPT ![r.token] = NoOne]
  /\ session' = Revoked(r.who, NoOne)
  /\ LeaveOutdating(q, r.who)
  /\ UNCHANGED <<account, lanes>>

\* change_password: signed in, and the current password given once more ...
ChangeRead(q, t) ==
  /\ Current(t)
  /\ Enter(q, [Waiting EXCEPT !.doing = "change", !.who = session[t].owner, !.token = t])

\* ... then the new password, and the end of every session but this one.
ChangeWrite(q) ==
  LET r == handling[q] IN
  /\ r.doing = "change"
  /\ session' = Revoked(r.who, r.token)
  /\ LeaveOutdating(q, r.who)
  /\ UNCHANGED <<account, reset, lanes>>

----------------------------------------------------------------------------
(* Staff *)

\* staff_role_can: MANAGE_USERS is the superadmins'; support may impersonate as well.
MayDo(role, chore) ==
  role = "superadmin" \/ (role = "support" /\ chore = "impersonate")

\* Mutant: a superadmin may change their own role.
NotOnSelfMutant(chore) == chore \in {"deactivate", "impersonate"}

\* What a staff member may not do to themselves.
NotOnSelf(chore) == chore \in {"deactivate", "set role", "impersonate"}

\* require_staff, and the rules on the target.
StaffRead(q, t, chore, p, role) ==
  LET by == session[t].owner IN
  /\ Current(t)
  /\ MayDo(account[by].staff, chore)
  /\ NotOnSelf(chore) => p # by
  /\ account[p].exists
  /\ chore = "impersonate" => account[p].staff = "none" /\ account[p].active
  /\ chore # "set role" => role = "none"
  /\ Enter(q, [Waiting EXCEPT !.doing = chore, !.who = p, !.role = role])

\* deactivate_user and reactivate_user: the sessions stay, and answer nothing until
\* the account is active again.
SetActive(q) ==
  LET r == handling[q] IN
  /\ r.doing \in {"deactivate", "reactivate"}
  /\ account' = [account EXCEPT ![r.who].active = (r.doing = "reactivate")]
  /\ Leave(q)
  /\ UNCHANGED <<session, reset, lanes>>

\* set_user_staff_role.
SetStaffRole(q) ==
  LET r == handling[q] IN
  /\ r.doing = "set role"
  /\ account' = [account EXCEPT ![r.who].staff = r.role]
  /\ Leave(q)
  /\ UNCHANGED <<session, reset, lanes>>

\* impersonate_user.
Impersonate(q, t) ==
  LET r == handling[q] IN
  /\ r.doing = "impersonate"
  /\ Issue(t, r.who, r.fresh)
  /\ Leave(q)
  /\ UNCHANGED <<account, reset, lanes>>

Next ==
  \/ \E p \in People :
       \/ \E t \in Tokens : SignUp(p, t)
       \/ \E r \in Resets : RequestReset(p, r)
       \/ \E q \in Slots : SignInRead(q, p)
  \/ \E t \in Tokens : End(t)
  \/ \E r \in Resets : ExpireReset(r)
  \/ \E q \in Slots :
       \/ \E r \in Resets : ResetRead(q, r)
       \/ ResetWrite(q)
       \/ ChangeWrite(q)
       \/ SetActive(q)
       \/ SetStaffRole(q)
       \/ \E t \in Tokens :
            \/ SignInWrite(q, t)
            \/ ChangeRead(q, t)
            \/ Impersonate(q, t)
            \/ \E chore \in Chores, p \in People, role \in StaffRoles :
                 StaffRead(q, t, chore, p, role)

Spec == Init /\ [][Next]_vars

----------------------------------------------------------------------------
(* Properties *)

\* "Force re-login" (auth_service): when requests do not overlap, every session that
\* still answers was opened, or kept by the device that set it, under the account's
\* present password, an impersonation included.  (A sign-in that verified the old
\* password before a reset committed opens a session that outlives it.)
SessionsFollowThePassword ==
  lanes = 1 =>
    \A t \in Tokens : session[t].fresh

\* "No self-lockout" (admin): when requests do not overlap, whatever the staff do to
\* each other, an active superadmin remains.  (Two who act on each other at once are
\* both gone.)
KeepsASuperadmin ==
  lanes = 1 =>
    \E p \in People : account[p].active /\ account[p].staff = "superadmin"
=============================================================================
