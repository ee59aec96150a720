SPECIFICATION Spec
CONSTANTS
  A = A
  B = B
  a = a
  b = b
  x = x
  y = y
  ra = ra
  rb = rb
  va = va
  Nodes = {a, b, x, y}
  Subnets = {A, B}
  Home <- MCHome
  BridgeSubnets <- MCBridgeSubnets
  IPv6Prefix <- MCPrefix
  Reports = {ra}
  Votes = {va}
  Reporter <- MCReporter
  Ranges = {}
  Protected <- MCProtected
  Blocked <- MCBlocked
  MaxTrace = 4
  MaxSeen = 1
  TTL = 1
  NoSig = 0
  Raw = 128
  MaxNow = 1
  MaxFaults = 1
INVARIANTS
  TypeOK
  TraceIsPath
  CountedOnce
  CacheBounded
PROPERTIES
  ReportsArrive
CHECK_DEADLOCK FALSE
