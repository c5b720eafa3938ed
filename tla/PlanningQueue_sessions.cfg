SPECIFICATION FairSpec
CONSTANTS
  Tickets = {t1}
  Passes = {p1, p2}
  Devices = {d1, d2}
  NoDevice = NoDevice
  MaxSessions = 2
INVARIANTS
  LiveIsAwaited
PROPERTIES
  OneShot PassEnds
