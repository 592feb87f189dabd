\* In-flight guards: room for a pickup, its delivery and re-enqueued rows.
SPECIFICATION Spec
CONSTANTS
  Shipments = {s1}
  Trucks = {t1}
  Malformed = {}
  Threads = {h1}
  None = None
  MaxRetries = 1
  BatchSize = 1
  MaxSeq = 3
  MaxCrashes = 0
  MaxErrors = 2
INVARIANTS
  QueriesDoNotPileUp
