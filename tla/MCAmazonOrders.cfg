\* One order that is redirected, two trucks, one request thread, one fault of
\* any kind; a request to UPS fails in all its attempts or in none.
CONSTANTS
  Packages = {1}
  Dests = {home, away}
  Home = home
  Trucks = {t1, t2}
  Threads = {h1}
  None = None
  Attempts = 1
  MaxFaults = 1
SYMMETRY SameTrucks
SPECIFICATION Spec
INVARIANTS TypeOK StatusNeverAhead FailedLeavesQueues StockExact
PROPERTIES RedirectReachesUps Implements
