SPECIFICATION SignSpec
CONSTANTS
  NoUser = NoUser
  NoCookie = NoCookie
  Users = {u}
  Tabs = {t}
  Sso = FALSE
  MaxSessions = 1
  MaxRotations = 2
  MaxChanges = 0
  MaxOutages = 0
  MaxAccountEdits = 1
PROPERTY DeadSessionEnds
CHECK_DEADLOCK FALSE
