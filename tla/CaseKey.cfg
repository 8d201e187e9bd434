SPECIFICATION Spec
CONSTANTS
  Sessions = {s1, s2}
  Services <- MCReview
  Sources <- MCModes
  MaxRows = 3
INVARIANTS KeyNamesOneCurrent
SYMMETRY MCSymmetry
\* Nothing is left to do once the bound on versions is reached.
CHECK_DEADLOCK FALSE
