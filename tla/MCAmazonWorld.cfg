SPECIFICATION FairSpec
CONSTANTS
  Packages = {p1}
  Kinds = {"buy", "pack"}
  Worlds = {w1, w2}
  None = None
  Configured = None
  Numbers = {1, 2}
  MaxFaults = 2
INVARIANTS TypeOK MapsAgree OneWorld DoneIsSaved RetriesAreHarmless
PROPERTIES CommandsSettle
