\* The container is started again by hand: the row keeps its flag.
SPECIFICATION Spec
CONSTANTS
  Worlds = {w1, w2}
  None = None
  MaxFaults = 1
INVARIANTS
  HandshakeFirst
