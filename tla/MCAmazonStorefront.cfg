SPECIFICATION Spec
CONSTANTS
  Customers = {c1}
  Products = {p1, p2}
  Threads = {h1, h2}
  None = None
  Quantities = {0, 1}
  MaxQuantity = 1
  MaxAsked = 2
  MaxItems = 3
  MaxOrders = 3
  MaxFaults = 1
SYMMETRY SameThreads
INVARIANTS TypeOK IdsDense NothingLost NothingTwice
CHECK_DEADLOCK FALSE
