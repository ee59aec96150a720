SPECIFICATION Spec
CONSTANTS
  Inits = {i1, i2}
  PeerCerts = {c1}
  Daemons = {d1}
  None = None
INVARIANTS
  PersonKeyKept
CHECK_DEADLOCK FALSE
