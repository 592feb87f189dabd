\* Two waiting packages share the callback loop, one fault; no thread is needed
\* for a package to wait.
\* Rows and faults are bounded: the system may stop.
SPECIFICATION FairSpec
CONSTANTS
  Packages = {1, 2}
  Trucks = {t1}
  Dests = {d1}
  None = None
  Threads = {}
  FailureLimit = 2
  Window = 1
  MaxSeq = 2
  MaxFaults = 1
PROPERTIES
  CallbackSettles
CHECK_DEADLOCK FALSE
