SPECIFICATION Spec
CONSTANTS
  Users = {u1, u2}
  Invites = {i1, i2}
  NoUser = NoUser
  NoInvite = NoInvite
  MaxRows = 4
  MaxInFlight = 2
INVARIANT KeepsAnOwner
SYMMETRY MCSymmetry
\* A deleted organization takes no more requests.
CHECK_DEADLOCK FALSE
