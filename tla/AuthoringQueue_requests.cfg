SPECIFICATION Spec
CONSTANTS
  Cases = {c1}
  Sids = {s1, s2}
  Devices = {d1}
  Requests = {r1, r2}
  Turns = {t1}
  Ceiling = 1
  MaxResumes = 1
  CostBound = 2
  NoCase = NoCase
  NoSid = NoSid
SYMMETRY Symmetry
INVARIANTS
  OneRowPerCase
  ResumeCap
  SessionBudget
PROPERTY BootReconciles
