\* Two packages at two warehouses share a truck, nothing lost.
\* A package delivered and accounted for is the end: the system may stop.
SPECIFICATION Spec
CONSTANTS
  Packages = {1, 2}
  Trucks = {t1}
  Dests = {d1}
  None = None
  Threads = {c1}
  FailureLimit = 1
  Window = 2
  MaxSeq = 2
  MaxFaults = 0
INVARIANTS
  ArrivalIsReal
CHECK_DEADLOCK FALSE
