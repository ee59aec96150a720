SPECIFICATION FairSpec
CONSTANTS
  a = a
  p1 = p1
  alice = alice
  s1 = s1
  s2 = s2
  hit = hit
  Self = Self
  NoIP = NoIP
  NoSubnet = NoSubnet
  NoPerson = NoPerson
  Full = 4
  Unit = 2
  MaxAge = 1
  Retained <- MCRetained
  RecordTTL = 2
  StrangerCap = 1
  DiversityRepeat = 1
  DisputeWeight = 4
  Subnets = {s1, s2}
  Persons = {Self, alice}
  Reasons = {hit}
  RuleList <- MCRules
  Fallback = 3
  IPs = {a}
  NeverBlock = {}
  Peers = {p1}
  VouchedBy <- MCVouchedBy
  BlockedPeers = {}
  HomeSubnet = NoSubnet
  Weight <- MCWeight
  AnchorTrust = 2
  StrangerTrust = 1
  FederationDiscount = 1
  BurstCounts <- MCBurstCounts
  UnblockThreshold = 1
  DisputeUnblockMinSubnets = 2
  Lookups = {1}
  Verdicts <- MCVerdicts
  FederationBlockThreshold = 3
  FederationBlockMinSubnets = 2
  FederationBlockTTL = 1
  Backend = "nftables"
  BanDuration = 1
  SinkMayFail = FALSE
  MayCrash = FALSE
INVARIANTS
  FederatedBlockTracked
PROPERTIES
  DisputedBlockLapses
  QuietBlockLifted
