SPECIFICATION Spec
CONSTANTS
  Endpoints = {"e1", "e2"}
  Pages = {"p1"}
  Order <- MCOrder
  MaxTargets = 2
  MaxRuns = 2
  Urls = {"home", "a", "b", "ext"}
  StartUrl = "home"
  OffOrigin = {"ext"}
  PathOf <- MCPathOf
  Routes = {"r1"}
  Sites <- MCSites
  MaxPages = 3
  MaxDepth = 2
  MaxVersion = 2
  Files <- MCFiles
  Artisan <- MCArtisan
  Sources <- MCSources
  t1 = t1
  t2 = t2
  Threads = {t1, t2}
  ChainLength = 2
  MaxAttempts = 2
  MaxMinuteRetries = 2
  MaxDay = 2
  Budget = 20
  Fixed = 40
  MaxContext = 64
  BrainNodes = {"p", "q", "e", "t"}
  MaxNodes = 3
  TopK = 2
  JourneyPages = {"p", "q"}
  Graphs <- MCGraphs
  FormSets <- MCFormSets
  PlanFields = {"f", "password"}
  Hidden = {"password"}
  RuleSets <- MCRuleSets
  SampleRules <- MCSampleRules
  CaseContents <- MCContents
  Class <- MCClass
INVARIANTS TypesOK  CancelFreesWorker BrainIsFaithful 
  ChainIsHonest ProposalsAreFair
\* A project's last run, and a file that was read, end a behaviour.
CHECK_DEADLOCK FALSE
