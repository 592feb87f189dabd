\* The same order without redirects and with one truck, under fairness.
CONSTANTS
  Packages = {1}
  Dests = {home}
  Home = home
  Trucks = {t1}
  Threads = {h1}
  None = None
  Attempts = 1
  MaxFaults = 1
SPECIFICATION FairSpec
PROPERTIES OrderSettles
