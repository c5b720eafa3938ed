SPECIFICATION OneSpec
CONSTANTS
  Shared = Shared
  Crew = {t1, t2}
  TestCases = {"c1", "c2"}
  Methods = {"m", "n", "k"}
  Imports <- Answers
  Twins <- Duplicates
  NoFile = Nil
  NoPlan = Nil
  Free = Nil
  MaxPasses = 2
  MaxForeign = 1
  Users = {"u1"}
  Tabs = {t1, t2}
  NoUser = Nil
  NoCookie = Nil
  Sso = TRUE
  MaxSessions = 1
  MaxRotations = 2
  MaxChanges = 0
  MaxOutages = 1
  MaxAccountEdits = 0
  SharedScope = Shared
  ScopeOwners = {"u1"}
  Sels = {"a", "b"}
  Scans <- OneScan
  NoRow = Nil
  NoWork = Nil
  HubOn = TRUE
  MaxBuilds = 1
  MaxPatches = 1
  MaxMerges = 1
  MaxMirrors = 1
  MaxBuildRestarts = 1
  Cases = {"c1", "c2"}
  NoSpec = {"c2"}
  Requests = {"q1", "q2"}
  Devices = {"d1"}
  Mortal = {}
  NoDevice = Nil
  MaxExecs = 2
  MaxFaults = 0
  Files = {"f1"}
  MaxCount = 2
  MaxAttempts = 3
  Agents = {"d1", "d2"}
  Workers = {t1, t2}
  Origins = {"o1"}
  None = Nil
  FailMax = 1
  MaxClicks = 2
  MaxEdits = 1
  MaxRestarts = 1
  MaxLosses = 1
  Nothing = Nil
  Members = {"u1"}
  Terms = {"refund"}
  MaxVersion = 2
  MaxFacts = 3
  MaxSyncs = 3
  MaxProbes = 1
  MaxDistils = 1
  MaxClones = 1
  MaxHumanEdits = 2
  MaxBusinessRestarts = 1
  MaxInAll = 4
  Sessions = {"s1"}
  Pages = {"home", "list", "screen"}
  Locators = {"button"}
  NoSession = Nil
  MaxSteps = 3
  Budget = 2
  MaxCost = 1
  MaxSpend = 1
  MaxMishaps = 1
  RunCases = {"c1"}
  Slots = {t1, t2}
  MaxStarts = 2
  HealAttempts = 2
  MaxStops = 1
  Items = {"i1"}
  Clerks = {t1, t2}
  NoComment = Nil
  MaxPublishing = 3
  MaxBreaks = 1
  WorkItems = {"a1", "a2", "a3"}
  Visitors = {t1, t2}
  NoTicket = Nil
  PageCap = 2
  MaxConnections = 2
  MaxVisits = 2
  MaxTurns = 1
  Persons = {"u1"}
  TeamKey = "shared"
  HubRuns = {"r1"}
  EmeHub = "hub"
  Callers = {t1, t2}
  Hosts = {"d1"}
  NoToken = Nil
  SignedOut = Out
  LoginCount = 2
  MaxIssued = 3
  MaxGestures = 3
SYMMETRY Symmetry
INVARIANTS
  TypesOK     VerifiedWorked DoneIsFinal  SnapshotKept PublishingIsHeld
  DoneAfterReached FiledUnderItsLogin
PROPERTIES
   AcceptedByItsPass OutageSignsNobodyOut  HumanDecisionsStand 
  ContentKept
CHECK_DEADLOCK FALSE
