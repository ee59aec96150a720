SPECIFICATION FairSpec
CONSTANTS
  Buckets = 3
  MaxPerSec = 3
  ExitNum = 1
  ExitDen = 2
  MaxStep = 2
  RateBound = 3
INVARIANTS
  TypeOK
  RateExact
PROPERTIES
  NoFlapping
  OverloadEnds
