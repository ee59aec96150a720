SPECIFICATION SideSpec
CONSTANTS
  i1 = i1
  i2 = i2
  g1 = g1
  g2 = g2
  c1 = c1
  c2 = c2
  s1 = s1
  s2 = s2
  s3 = s3
  alice = alice
  bob = bob
  NoIP = NoIP
  NoSubnet = NoSubnet
  NoPerson = NoPerson
  Full = 20
  Unit = 10
  MaxAge = 2
  Retained <- MCRetained
  RecordTTL = 3
  StrangerCap = 3
  DiversityRepeat = 2
  DisputeWeight = 6
  Subnets = {s1, s2, s3}
  Persons = {alice, bob}
  FederationDiscount = 8
  MaxEvidenceFolds = 3
  Callers = {c1, c2}
  IPs = {i1, i2}
  Aggregators = {g1, g2}
  Verdicts <- MCVerdicts
  MaxEntries = 1
  CacheTTL = 2
  NegShare = 2
  Timeout = 1
  Reports <- MCReports
  Votes <- MCVotes
  Claims <- MCClaims
INVARIANTS
  QuerierTypeOK
  CacheBounded
  AnswersCurrent
  BestAnswerWins
  EvidenceIsBounded
  StrangersStayCapped
  ReportsCount
PROPERTIES
  QueriesReturn
