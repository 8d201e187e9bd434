SPECIFICATION Spec
CONSTANTS
  p = p
  q = q
  Projects = {p, q}
  Scripts = {"s"}
  s1 = s1
  s2 = s2
  Slots = {s1, s2}
  Tellings = {{}, {"pass"}, {"pass", "fail"}}
  Deletes = {"delete"}
  Soft = {"orders"}
  Cases = {p, q}
  Outcomes = {"pass", "wrong", "drifted"}
  MaxRuns = 3
  RunsAtOnce = 1
  Window = 2
  Jobs = {1, 2, 3}
  NoProject = NoProject
  Limit = 2
  WindowTicks = 5
  Second = 2
  Horizon = 12
  Accounts = {"a", "b"}
  Challenged = {"a"}
  Passwords = {"old", "new"}
  VaultKeys = {1, 2}
  SessionTtl = 1
  MaxEdits = 3
  MaxLogins = 2
  MaxChars = 3
  TopK = 2
  MaxDocs = 2
INVARIANTS TypesOK   
   
  
SYMMETRY MCSymmetry
\* The last run of a project, and of the phase, end a behaviour.
CHECK_DEADLOCK FALSE
