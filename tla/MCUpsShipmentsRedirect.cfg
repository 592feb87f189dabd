\* A redirect against a /package-loaded request, nothing lost.
\* A package delivered and accounted for is the end: the system may stop.
SPECIFICATION Spec
CONSTANTS
  Packages = {1}
  Trucks = {t1}
  Dests = {d1, d2}
  None = None
  Threads = {c1, c2}
  FailureLimit = 1
  Window = 1
  MaxSeq = 2
  MaxFaults = 0
PROPERTIES
  RedirectsRejected
CHECK_DEADLOCK FALSE
