SPECIFICATION Spec
CONSTANTS
  alice = alice
  bob = bob
  ka = ka
  own = own
  n = n
  Persons = {alice, bob}
  Keys = {ka, own}
  Peers = {n}
  OwnKey = own
  Weights = {1, 2}
  Full = 2
  Bundles <- MCBundles
  WireCerts <- MCWireCerts
  Installed <- MCInstalled
  HandEdits <- MCHandEdits
  Cmds = {c1, c2}
  ReloadEvery = 1
  MaxNow = 2
  MaxEdits = 2
  Missing = Missing
  Garbage = Garbage
  None = None
  c1 = c1
  c2 = c2
INVARIANTS
  TypeOK
  Fresh
  RevocationHolds
PROPERTIES
  TrustIsKept
  ReloadKeepsVouches
SYMMETRY TwoCommands
CHECK_DEADLOCK FALSE
