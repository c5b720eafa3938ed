SPECIFICATION OneSpec
CONSTANTS
  Cases = {c1}
  NoSpec = {}
  Requests = {}
  Devices = {d1, d2}
  Mortal = {d2}
  NoDevice = NoDevice
  MaxExecs = 2
  MaxFaults = 1
  Users = {User, OtherUser}
  Tabs = {Tab}
  Sso = TRUE
  MaxSessions = 1
  MaxRotations = 2
  MaxChanges = 1
  MaxOutages = 1
  MaxAccountEdits = 1
  NoUser = NoUser
  NoCookie = NoCookie
  Screen = {"execution", "projectAuth"}
  First <- Opened
  Gestures = {"startExecution", "captureProjectAuth", "clearProjectAuth"}
  Elsewhere = {}
  MaxDrops = 1
INVARIANTS
  RunningIsHeld CountsMatchRows
PROPERTIES
  ExecutionClaimedOnce QueuedEnds  OlderAsksAgain IdentityFollowsHub
CHECK_DEADLOCK FALSE
