SPECIFICATION BusinessSpec
CONSTANTS
  Shared = Shared
  Nothing = Nothing
  Members = {m}
  Terms = {t}
  MaxVersion = 1
  MaxFacts = 3
  MaxSyncs = 1
  MaxProbes = 0
  MaxDistils = 1
  MaxClones = 0
  MaxHumanEdits = 2
  MaxBusinessRestarts = 0
  MaxInAll = 4
INVARIANT OverriddenStaysOut
CHECK_DEADLOCK FALSE
