----------------------------- MODULE MCServices -----------------------------
(***************************************************************************)
(* The services that share no state, checked by one run: a behaviour is a  *)
(* behaviour of the one in focus, and the others stay in their initial     *)
(* states.  They share their model values, which permute together.         *)
(***************************************************************************)
EXTENDS Naturals, Sequences, FiniteSets, TLC

VARIABLE focus

CONSTANTS Users, Invites, NoUser, NoInvite, MaxRows, MaxInFlight
ASSUME NobodyAssumption == NoUser \notin Users /\ NoInvite \notin Invites
ASSUME OrgBoundsAssumption == MaxRows \in Nat \ {0} /\ MaxInFlight \in Nat \ {0}
ASSUME UsersAssumption == IsFiniteSet(Users)
VARIABLES live, personal, member, rowsMade, invite, req, width
orgVars == <<live, personal, member, rowsMade, invite, req, width>>
Org == INSTANCE OrgMembership

CONSTANTS Addrs, Home, Reviewers, MaxRuns, Window
ASSUME HealAssumption ==
  Home \in Addrs /\ IsFiniteSet(Reviewers) /\ MaxRuns \in Nat /\ Window \in Nat
VARIABLES route, answers, nodes, script, outcomes, heals, reviews, reviewWidth
healVars ==
  <<route, answers, nodes, script, outcomes, heals, reviews, reviewWidth>>
Heal == INSTANCE HealLifecycle WITH width <- reviewWidth

CONSTANTS Tokens, Resets, Slots
ASSUME SlotsAssumption == IsFiniteSet(Slots)
VARIABLES account, session, reset, handling, slotsOpen
accountVars == <<account, session, reset, handling, slotsOpen>>
Acc == INSTANCE Accounts
         WITH People <- Users, NoOne <- NoUser, lanes <- slotsOpen

\* Files of up to three rows, the last of which is cut off.
CONSTANTS MaxCsvRows, MaxVersions, MaxImports
ASSUME CsvBoundsAssumption == MaxVersions \in Nat /\ MaxImports \in Nat
VARIABLES table, last, result, imports
csvVars == <<table, last, result, imports>>
Row(layer, method, status, payload) ==
  [layer |-> layer, method |-> method, path |-> "p", status |-> status, name |-> "",
   payload |-> payload, authenticated |-> "", text |-> ""]
MCRows ==
  {Row("", "POST", 201, "object"), Row("api", "POST", 201, "another"),
   Row("", "POST", 422, "object"), Row("ui", "", 0, ""), Row("", "POST", 99, "object"),
   [Row("", "", 0, "") EXCEPT !.path = ""]}
MCFiles ==
  [header : {"with path"}, rows : UNION {[1 .. n -> MCRows] : n \in 1 .. MaxCsvRows + 1}]
    \cup {[header |-> "without path", rows |-> << >>]}
Csv == INSTANCE CsvImport WITH Files <- MCFiles

vars == <<focus, orgVars, healVars, accountVars, csvVars>>

Init ==
  /\ focus \in {"org", "heal", "accounts", "csv"}
  /\ Org!Init /\ (focus # "org" => width = 1 /\ personal)
  /\ Heal!Init /\ (focus # "heal" => reviewWidth = 1)
  /\ Acc!Init /\ (focus # "accounts" => slotsOpen = 1)
  /\ Csv!Init
  /\ \A u \in Users : member[u].role = "owner" <=> account[u].staff = "superadmin"

Next ==
  \/ focus = "org" /\ Org!Next /\ UNCHANGED <<focus, healVars, accountVars, csvVars>>
  \/ focus = "heal" /\ Heal!Next /\ UNCHANGED <<focus, orgVars, accountVars, csvVars>>
  \/ focus = "accounts" /\ Acc!Next /\ UNCHANGED <<focus, orgVars, healVars, csvVars>>
  \/ focus = "csv" /\ Csv!Next /\ UNCHANGED <<focus, orgVars, healVars, accountVars>>

Spec == Init /\ [][Next]_vars

MCSymmetry ==
  Permutations(Users) \cup Permutations(Invites) \cup Permutations(Reviewers)
    \cup Permutations(Slots)

\* The types of all, and the properties of each.
TypesOK ==
  /\ focus = "org" => Org!TypeOK
  /\ focus = "heal" => Heal!TypeOK
  /\ focus = "accounts" => Acc!TypeOK
  /\ focus = "csv" => Csv!CsvTypeOK
SomeoneIsInCharge == Org!KeepsAnOwnerInTurn /\ Acc!KeepsASuperadmin
OnlyOwnersManageOwners == Org!OnlyOwnersManageOwners
MembershipIsGranted == Org!MembershipIsGranted
HealsAreEarned == Heal!HealsAreEarned
ReviewDecides == Heal!ReviewDecides
CsvIsFaithful == Csv!CsvIsFaithful
SessionsFollowThePassword == Acc!SessionsFollowThePassword
=============================================================================
