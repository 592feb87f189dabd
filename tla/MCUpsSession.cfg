\* Three faults of any kind, three world ids, restarts by script or by hand.
SPECIFICATION FairSpec
CONSTANTS
  Worlds = {w1, w2, w3}
  None = None
  MaxFaults = 3
INVARIANTS
  TypeOK
  ScriptHandshakesFirst
  FleetRegistered
PROPERTIES
  LiveWorldIsKept
  AlwaysReconnects
