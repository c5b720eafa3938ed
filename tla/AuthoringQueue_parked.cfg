SPECIFICATION FairSpec
CONSTANTS
  Cases = {c1}
  Sids = {s1, s2}
  Devices = {d1}
  Requests = {r1}
  Turns = {}
  Ceiling = 1
  MaxResumes = 1
  CostBound = 2
  NoCase = NoCase
  NoSid = NoSid
PROPERTY ParkedEnds
