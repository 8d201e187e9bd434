SPECIFICATION Spec
CONSTANTS
  Users = {u1, u2}
  Invites = {i1, i2}
  NoUser = NoUser
  NoInvite = NoInvite
  MaxRows = 3
  MaxInFlight = 2
  Addrs = {home, away, far}
  Home = home
  Reviewers = {u1, u2}
  MaxRuns = 4
  Window = 2
  Tokens = {i1, i2}
  Resets = {r1}
  Slots = {q1, q2}
  MaxCsvRows = 2
  MaxVersions = 5
  MaxImports = 2
INVARIANTS TypesOK SomeoneIsInCharge  SessionsFollowThePassword
PROPERTIES OnlyOwnersManageOwners MembershipIsGranted ReviewDecides CsvIsFaithful
SYMMETRY MCSymmetry
\* A deleted organization takes no more requests.
CHECK_DEADLOCK FALSE
