\* Budgets, verdicts and liveness: two commands, one of which may be a row
\* that cannot be encoded, a budget of one retry, two deaths of the daemon.
SPECIFICATION FairSpec
CONSTANTS
  Shipments = {s1, s2}
  Trucks = {t1}
  Malformed = {s2}
  Threads = {h1}
  None = None
  MaxRetries = 1
  BatchSize = 2
  MaxSeq = 2
  MaxCrashes = 2
  MaxErrors = 3
INVARIANTS
  TypeOK
  ResendBudget
  AckSettles
  BudgetMatchesStatus
PROPERTIES
  SpentStaysQuiet
  RetryingEnds
