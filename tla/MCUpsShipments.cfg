\* One package, two trucks, one slow request, one fault.
\* A package delivered and accounted for is the end: the system may stop.
SPECIFICATION Spec
CONSTANTS
  Packages = {1}
  Trucks = {t1, t2}
  Dests = {d1, d2}
  None = None
  Threads = {c1}
  FailureLimit = 2
  Window = 1
  MaxSeq = 2
  MaxFaults = 1
INVARIANTS
  TypeOK
  DeliverAsReported
  RetriesBounded
  DeliveredIsClosed
PROPERTIES
  NeverBackwards
CHECK_DEADLOCK FALSE
