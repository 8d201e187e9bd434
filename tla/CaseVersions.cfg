SPECIFICATION Spec
CONSTANTS
  Sessions = {s1, s2}
  Services <- MCAllServices
  Sources <- MCAllSources
  MaxRows = 4
INVARIANTS TypeOK CurrentUnlessReviewed
PROPERTIES NeverClobber NoBlindReplace
SYMMETRY MCSymmetry
\* Nothing is left to do once the bound on versions is reached.
CHECK_DEADLOCK FALSE
