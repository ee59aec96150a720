----------------------------- MODULE NodeProofs -----------------------------
(***************************************************************************)
(* Theorems about a federloom node, for every set of addresses, peers,     *)
(* subnets and lookups, every rule file and every backend.                 *)
(***************************************************************************)
EXTENDS Node, FiniteSetTheorems, TLAPS

(***************************************************************************)
(* The scoring arithmetic: every operation maps records to records, decay  *)
(* only lowers a score, and the stranger budgets hold.                     *)
(***************************************************************************)

(* A part p of u taken of s, rounded down, is between 0 and s.             *)
LEMMA PartOf ==
  ASSUME NEW s \in Nat, NEW u \in Nat \ {0}, NEW p \in 0..u
  PROVE  (s * p) \div u \in 0..s
<1>1. s * p \in Nat /\ s * p <= s * u
  OBVIOUS
<1>2. QED
  BY <1>1

(* DecayScore never raises a score and never makes it negative.            *)
LEMMA DecayScoreBounds ==
  ASSUME NEW s \in Nat, NEW age \in 0..MaxAge
  PROVE  DecayScore(s, age) \in 0..s
<1>1. Retained[age] \in 0..Unit /\ Unit \in Nat \ {0}
  BY ScoringAssumption
<1>2. QED
  BY <1>1, PartOf DEF DecayScore

(* The score a fold starts from is at most the stored one.                 *)
LEMMA DecayedBounds ==
  ASSUME NEW rec \in ScoreRecord
  PROVE  Decayed(rec) \in 0..rec.score
<1>1. rec.score \in Nat /\ rec.age \in 0..MaxAge /\ rec.known \in BOOLEAN
  BY ScoringAssumption DEF ScoreRecord
<1>2. QED
  BY <1>1, DecayScoreBounds DEF Decayed

(* A stranger's budget is a natural number within the cap.                 *)
LEMMA RemainingBounds ==
  ASSUME NEW used \in Nat
  PROVE  /\ Remaining(used) \in 0..StrangerCap
         /\ used <= StrangerCap => used + Remaining(used) = StrangerCap
  BY ScoringAssumption DEF Remaining

(* What Accumulate adds is a natural number, and no more than the rest of  *)
(* the budget when the reporter is a stranger.                             *)
LEMMA ContributionBounds ==
  ASSUME NEW rec \in ScoreRecord, NEW obs \in Observation
  PROVE  /\ Contribution(rec, obs) \in Nat
         /\ ~obs.anchored => Contribution(rec, obs) <= Remaining(rec.strangerContrib)
<1> DEFINE rest == Full - Decayed(rec)
<1> DEFINE div == DivFactor(obs.subnet, rec.subnets)
<1> DEFINE raw == (obs.trust * obs.weight * rest * div) \div (Unit * Unit * Full)
<1>1. obs.trust \in Nat /\ obs.weight \in Nat /\ obs.anchored \in BOOLEAN
  BY ScoringAssumption DEF Observation
<1>2. rest \in Nat
  BY DecayedBounds, ScoringAssumption DEF ScoreRecord
<1>3. div \in Nat
  BY ScoringAssumption DEF DivFactor
<1>4. obs.trust * obs.weight * rest * div \in Nat
  <2> HIDE DEF rest, div
  <2>1. obs.trust * obs.weight \in Nat
    BY <1>1
  <2>2. obs.trust * obs.weight * rest \in Nat
    BY <2>1, <1>2
  <2>3. QED
    BY <2>2, <1>3
<1>5. Unit * Unit * Full \in Nat \ {0}
  BY ScoringAssumption
<1>6. raw \in Nat
  <2> HIDE DEF rest, div
  <2>1. QED
    BY <1>4, <1>5
<1>7. Remaining(rec.strangerContrib) \in Nat
  BY RemainingBounds, ScoringAssumption DEF ScoreRecord
<1>8. Contribution(rec, obs)
        = IF obs.anchored THEN raw ELSE Lesser(raw, Remaining(rec.strangerContrib))
  BY DEF Contribution
<1>9. QED
  <2> HIDE DEF raw
  <2>1. QED
    BY <1>1, <1>6, <1>7, <1>8 DEF Lesser

(* What ApplyDispute takes off is a natural number.                        *)
LEMMA ReductionBounds ==
  ASSUME NEW rec \in ScoreRecord, NEW obs \in Observation
  PROVE  Reduction(rec, obs) \in Nat
<1> DEFINE div == IF obs.anchored THEN DivFactor(obs.subnet, rec.disputeSubnets)
                                  ELSE Unit
<1> DEFINE raw == (obs.trust * DisputeWeight * Decayed(rec) * div)
                     \div (Unit * Unit * Full)
<1>1. obs.trust \in Nat /\ DisputeWeight \in Nat
  BY ScoringAssumption DEF Observation
<1>2. Decayed(rec) \in Nat
  <2>1. Decayed(rec) \in 0..rec.score
    BY DecayedBounds
  <2>2. QED
    BY <2>1
<1>3. div \in Nat
  BY ScoringAssumption DEF DivFactor
<1>4. obs.trust * DisputeWeight * Decayed(rec) * div \in Nat
  <2> HIDE DEF div
  <2>1. obs.trust * DisputeWeight \in Nat
    BY <1>1
  <2>2. obs.trust * DisputeWeight * Decayed(rec) \in Nat
    BY <2>1, <1>2
  <2>3. QED
    BY <2>2, <1>3
<1>5. Unit * Unit * Full \in Nat \ {0}
  BY ScoringAssumption
<1>6. raw \in Nat
  <2> HIDE DEF div
  <2>1. QED
    BY <1>4, <1>5
<1>7. Remaining(rec.disputeContrib) \in Nat
  BY RemainingBounds, ScoringAssumption DEF ScoreRecord
<1>8. Reduction(rec, obs)
        = IF obs.anchored THEN raw ELSE Lesser(raw, Remaining(rec.disputeContrib))
  BY DEF Reduction
<1>9. QED
  <2> HIDE DEF raw
  <2>1. QED
    BY <1>6, <1>7, <1>8 DEF Lesser

(* Accumulate maps a record and a report to a record.                      *)
LEMMA AccumulateType ==
  ASSUME NEW rec \in ScoreRecord, NEW obs \in Observation
  PROVE  Accumulate(rec, obs) \in ScoreRecord
<1>1. Contribution(rec, obs) \in Nat
  BY ContributionBounds
<1>2. Decayed(rec) \in 0..rec.score /\ rec.score \in 0..Full
  BY DecayedBounds DEF ScoreRecord
<1>3. Lesser(Decayed(rec) + Contribution(rec, obs), Full) \in 0..Full
  BY <1>1, <1>2, ScoringAssumption DEF Lesser
<1>4. {obs.subnet} \ {NoSubnet} \subseteq Subnets
  BY DEF Observation
<1>5. {obs.group} \ {NoPerson} \subseteq Persons
  BY DEF Observation
<1>6. 0 \in 0..MaxAge
  BY ScoringAssumption
<1> DEFINE score == Lesser(Decayed(rec) + Contribution(rec, obs), Full)
           seen == rec.strangerSeen \/ ~obs.anchored
           spent == IF obs.anchored THEN rec.strangerContrib
                                    ELSE rec.strangerContrib + Contribution(rec, obs)
           groups == IF obs.anchored THEN rec.groups \cup ({obs.group} \ {NoPerson})
                                     ELSE rec.groups
           subnets == rec.subnets \cup ({obs.subnet} \ {NoSubnet})
<1>7. spent \in Nat
  BY <1>1 DEF ScoreRecord
<1>8. groups \subseteq Persons /\ subnets \subseteq Subnets
  BY <1>4, <1>5 DEF ScoreRecord
<1>9. seen \in BOOLEAN
  OBVIOUS
<1>10. Accumulate(rec, obs)
         = [ rec EXCEPT !.known = TRUE, !.score = score, !.age = 0,
                        !.strangerSeen = seen, !.strangerContrib = spent,
                        !.groups = groups, !.subnets = subnets ]
  BY DEF Accumulate
<1>11. QED
  <2> HIDE DEF score, seen, spent, groups, subnets
  <2>1. score \in 0..Full
    BY <1>3 DEF score
  <2>2. QED
    BY <2>1, <1>6, <1>7, <1>8, <1>9, <1>10 DEF ScoreRecord

(* ApplyDispute maps a record and a vote to a record.                      *)
LEMMA ApplyDisputeType ==
  ASSUME NEW rec \in ScoreRecord, NEW obs \in Observation
  PROVE  ApplyDispute(rec, obs) \in ScoreRecord
<1>1. Reduction(rec, obs) \in Nat
  BY ReductionBounds
<1>2. Decayed(rec) \in 0..rec.score /\ rec.score \in 0..Full
  BY DecayedBounds DEF ScoreRecord
<1>3. (IF Reduction(rec, obs) <= Decayed(rec)
         THEN Decayed(rec) - Reduction(rec, obs) ELSE 0) \in 0..Full
  BY <1>1, <1>2, ScoringAssumption
<1>4. {obs.subnet} \ {NoSubnet} \subseteq Subnets
  BY DEF Observation
<1>5. 0 \in 0..MaxAge
  BY ScoringAssumption
<1> DEFINE score == IF Reduction(rec, obs) <= Decayed(rec)
                      THEN Decayed(rec) - Reduction(rec, obs) ELSE 0
           spent == IF obs.anchored THEN rec.disputeContrib
                                    ELSE rec.disputeContrib + Reduction(rec, obs)
           subnets == IF obs.anchored
                        THEN rec.disputeSubnets \cup ({obs.subnet} \ {NoSubnet})
                        ELSE rec.disputeSubnets
<1>6. spent \in Nat
  BY <1>1 DEF ScoreRecord
<1>7. subnets \subseteq Subnets
  BY <1>4 DEF ScoreRecord
<1>8. ApplyDispute(rec, obs)
        = [ rec EXCEPT !.known = TRUE, !.score = score, !.age = 0,
                       !.disputeContrib = spent, !.disputeSubnets = subnets ]
  BY DEF ApplyDispute
<1>9. QED
  <2> HIDE DEF score, spent, subnets
  <2>1. score \in 0..Full
    BY <1>3 DEF score
  <2>2. QED
    BY <2>1, <1>5, <1>6, <1>7, <1>8 DEF ScoreRecord

(* Every operation of the engine, and the passage of time, maps records to *)
(* records.                                                                *)
LEMMA RecordTypes ==
  ASSUME NEW rec \in ScoreRecord
  PROVE  /\ \A obs \in Observation : Record(rec, obs) \in ScoreRecord
         /\ \A obs \in Observation : RecordDispute(rec, obs) \in ScoreRecord
         /\ Decay(rec) \in ScoreRecord
         /\ Aged(rec) \in ScoreRecord
         /\ NoRecord \in ScoreRecord
<1>1. RecordTTL \in 0..RecordTTL
  BY ScoringAssumption
<1>2. ASSUME NEW obs \in Observation
      PROVE  Record(rec, obs) \in ScoreRecord
  BY <1>1, AccumulateType DEF Record, ScoreRecord
<1>3. ASSUME NEW obs \in Observation
      PROVE  RecordDispute(rec, obs) \in ScoreRecord
  BY <1>1, ApplyDisputeType DEF RecordDispute, ScoreRecord
<1>4. NoRecord \in ScoreRecord
  BY ScoringAssumption DEF NoRecord, ScoreRecord
<1>5. Decay(rec) \in ScoreRecord
  <2>1. Decayed(rec) \in 0..Full
    <3>1. Decayed(rec) \in 0..rec.score /\ rec.score \in 0..Full
      BY DecayedBounds DEF ScoreRecord
    <3>2. QED
      BY <3>1, ScoringAssumption
  <2>2. QED
    BY <1>1, <2>1 DEF Decay, ScoreRecord
<1>6. Aged(rec) \in ScoreRecord
  <2>1. rec.age \in 0..MaxAge /\ rec.ttl \in 0..RecordTTL /\ rec.known \in BOOLEAN
    BY DEF ScoreRecord
  <2>2. CASE rec.known /\ ~(rec.ttl <= 1)
    <3>1. Lesser(rec.age + 1, MaxAge) \in 0..MaxAge /\ rec.ttl - 1 \in 0..RecordTTL
      BY <2>1, <2>2, ScoringAssumption DEF Lesser
    <3>2. Aged(rec) = [ rec EXCEPT !.age = Lesser(rec.age + 1, MaxAge),
                                   !.ttl = rec.ttl - 1 ]
      BY <2>2 DEF Aged
    <3>3. QED
      BY <3>1, <3>2 DEF ScoreRecord
  <2>3. CASE ~rec.known \/ rec.ttl <= 1
    BY <2>1, <2>3, <1>4 DEF Aged
  <2>4. QED
    BY <2>1, <2>2, <2>3
<1>7. QED
  BY <1>2, <1>3, <1>4, <1>5, <1>6

(* The stranger bound of one record: what strangers added is within the    *)
(* cap, and it accounts for the whole score.                               *)
OnlyStrangers(rec) ==
  /\ rec.strangerContrib <= StrangerCap
  /\ rec.score <= rec.strangerContrib

(* A stranger's report keeps the bound: Accumulate clips its contribution  *)
(* to what is left of the budget and books it there.                       *)
LEMMA StrangerReportBounded ==
  ASSUME NEW rec \in ScoreRecord, NEW obs \in Observation,
         ~obs.anchored, OnlyStrangers(rec)
  PROVE  OnlyStrangers(Record(rec, obs))
<1> DEFINE c == Contribution(rec, obs)
<1>1. c \in Nat /\ c <= Remaining(rec.strangerContrib)
  BY ContributionBounds
<1>2. rec.score \in Nat /\ rec.strangerContrib \in Nat /\ StrangerCap \in Nat
  BY ScoringAssumption DEF ScoreRecord
<1>3. Decayed(rec) \in 0..rec.score
  BY DecayedBounds
<1>4. rec.strangerContrib + Remaining(rec.strangerContrib) = StrangerCap
      /\ Remaining(rec.strangerContrib) \in Nat
  BY <1>2, RemainingBounds DEF OnlyStrangers
<1>5. Record(rec, obs).strangerContrib = rec.strangerContrib + c
  BY DEF Record, Accumulate, ScoreRecord
<1>6. Record(rec, obs).score = Lesser(Decayed(rec) + c, Full)
  BY DEF Record, Accumulate, ScoreRecord
<1>7. Lesser(Decayed(rec) + c, Full) <= Decayed(rec) + c
  <2> HIDE DEF c
  <2>1. QED
    BY <1>1, <1>2, <1>3, ScoringAssumption DEF Lesser
<1>8. Lesser(Decayed(rec) + c, Full) \in Nat
  <2> HIDE DEF c
  <2>1. QED
    BY <1>1, <1>2, <1>3, ScoringAssumption DEF Lesser
<1>9. QED
  <2> HIDE DEF c
  <2>1. QED
    BY <1>1, <1>2, <1>3, <1>4, <1>5, <1>6, <1>7, <1>8 DEF OnlyStrangers

(* Votes, decay and time keep the bound: they only lower the score.        *)
LEMMA OthersKeepBound ==
  ASSUME NEW rec \in ScoreRecord, OnlyStrangers(rec)
  PROVE  /\ \A obs \in Observation : OnlyStrangers(RecordDispute(rec, obs))
         /\ OnlyStrangers(Decay(rec))
         /\ OnlyStrangers(Aged(rec))
         /\ OnlyStrangers(NoRecord)
<1>1. rec.score \in Nat /\ rec.strangerContrib \in Nat /\ StrangerCap \in Nat
  BY ScoringAssumption DEF ScoreRecord
<1>2. Decayed(rec) \in 0..rec.score
  BY DecayedBounds
<1>3. ASSUME NEW obs \in Observation
      PROVE  OnlyStrangers(RecordDispute(rec, obs))
  <2> DEFINE r == Reduction(rec, obs)
  <2>1. r \in Nat
    BY ReductionBounds
  <2>2. RecordDispute(rec, obs).strangerContrib = rec.strangerContrib
    BY DEF RecordDispute, ApplyDispute, ScoreRecord
  <2>3. RecordDispute(rec, obs).score
          = IF r <= Decayed(rec) THEN Decayed(rec) - r ELSE 0
    BY DEF RecordDispute, ApplyDispute, ScoreRecord
  <2>4. QED
    <3> HIDE DEF r
    <3>1. QED
      BY <1>1, <1>2, <2>1, <2>2, <2>3 DEF OnlyStrangers
<1>4. OnlyStrangers(Decay(rec))
  BY <1>1, <1>2 DEF OnlyStrangers, Decay, ScoreRecord
<1>5. OnlyStrangers(NoRecord)
  BY <1>1 DEF OnlyStrangers, NoRecord
<1>6. OnlyStrangers(Aged(rec))
  BY <1>5 DEF OnlyStrangers, Aged, ScoreRecord
<1>7. QED
  BY <1>3, <1>4, <1>5, <1>6

(* Who stands behind a record: only an anchored report adds a group.       *)
LEMMA GroupsOf ==
  ASSUME NEW rec \in ScoreRecord
  PROVE  /\ \A obs \in Observation :
                ~obs.anchored => Record(rec, obs).groups = rec.groups
         /\ \A obs \in Observation : RecordDispute(rec, obs).groups = rec.groups
         /\ Decay(rec).groups = rec.groups
         /\ Aged(rec).groups \subseteq rec.groups
         /\ NoRecord.groups = {}
<1>1. ASSUME NEW obs \in Observation, ~obs.anchored
      PROVE  Record(rec, obs).groups = rec.groups
  BY <1>1 DEF Record, Accumulate, ScoreRecord
<1>2. ASSUME NEW obs \in Observation
      PROVE  RecordDispute(rec, obs).groups = rec.groups
  BY DEF RecordDispute, ApplyDispute, ScoreRecord
<1>3. Decay(rec).groups = rec.groups
  BY DEF Decay, ScoreRecord
<1>4. NoRecord.groups = {}
  BY DEF NoRecord
<1>5. Aged(rec).groups \subseteq rec.groups
  BY <1>4 DEF Aged, ScoreRecord
<1>6. QED
  BY <1>1, <1>2, <1>3, <1>4, <1>5

(* Which subnets dispute a record: only an anchored vote adds its own.     *)
LEMMA DisputersOf ==
  ASSUME NEW rec \in ScoreRecord
  PROVE  /\ \A obs \in Observation :
                Record(rec, obs).disputeSubnets = rec.disputeSubnets
         /\ \A obs \in Observation :
                RecordDispute(rec, obs).disputeSubnets
                  = IF obs.anchored
                      THEN rec.disputeSubnets \cup ({obs.subnet} \ {NoSubnet})
                      ELSE rec.disputeSubnets
         /\ Decay(rec).disputeSubnets = rec.disputeSubnets
         /\ Aged(rec).disputeSubnets \subseteq rec.disputeSubnets
         /\ NoRecord.disputeSubnets = {}
<1>1. ASSUME NEW obs \in Observation
      PROVE  Record(rec, obs).disputeSubnets = rec.disputeSubnets
  BY DEF Record, Accumulate, ScoreRecord
<1>2. ASSUME NEW obs \in Observation
      PROVE  RecordDispute(rec, obs).disputeSubnets
               = IF obs.anchored
                   THEN rec.disputeSubnets \cup ({obs.subnet} \ {NoSubnet})
                   ELSE rec.disputeSubnets
  BY DEF RecordDispute, ApplyDispute, ScoreRecord
<1>3. Decay(rec).disputeSubnets = rec.disputeSubnets
  BY DEF Decay, ScoreRecord
<1>4. NoRecord.disputeSubnets = {}
  BY DEF NoRecord
<1>5. Aged(rec).disputeSubnets \subseteq rec.disputeSubnets
  BY <1>4 DEF Aged, ScoreRecord
<1>6. QED
  BY <1>1, <1>2, <1>3, <1>4, <1>5

(***************************************************************************)
(* Types of the operators the actions are built from.                      *)
(***************************************************************************)

(* Reports and votes are well-formed observations.                         *)
LEMMA ObservationTypes ==
  ASSUME anchors \subseteq Persons
  PROVE  /\ \A reason \in Reasons : LocalObservation(reason) \in Observation
         /\ \A peer \in Peers, reason \in Reasons, subnet \in Subnets \cup {NoSubnet} :
              RemoteObservation(peer, reason, subnet) \in Observation
         /\ \A peer \in Peers \cup {Self}, subnet \in Subnets \cup {NoSubnet} :
              Vote(peer, subnet) \in Observation
<1>1. Unit \in 0..Unit /\ 0 \in 0..Full
  BY ScoringAssumption
<1>2. ASSUME NEW peer \in Peers \cup {Self}
      PROVE  ReporterTrust(peer) \in 0..Unit /\ Anchored(peer) \in BOOLEAN
             /\ (Anchored(peer) => VouchedBy[peer] \in Persons)
  BY NodeAssumption DEF ReporterTrust, Anchored
<1>3. (StrangerTrust * FederationDiscount) \div Unit \in 0..Unit
  <2>1. StrangerTrust \in Nat /\ FederationDiscount \in 0..Unit /\ Unit \in Nat \ {0}
        /\ StrangerTrust <= Unit
    BY NodeAssumption, ScoringAssumption
  <2>2. (StrangerTrust * FederationDiscount) \div Unit \in 0..StrangerTrust
    BY <2>1, PartOf
  <2>3. QED
    BY <2>1, <2>2
<1>4. ASSUME NEW reason \in Reasons
      PROVE  LocalObservation(reason) \in Observation
  BY <1>1, NodeAssumption DEF LocalObservation, Observation
<1>5. ASSUME NEW peer \in Peers, NEW reason \in Reasons,
             NEW subnet \in Subnets \cup {NoSubnet}
      PROVE  RemoteObservation(peer, reason, subnet) \in Observation
  <2>1. RemoteTrust(peer, subnet) \in 0..Unit
    BY <1>2, <1>3 DEF RemoteTrust
  <2>2. (IF Anchored(peer) THEN VouchedBy[peer] ELSE NoPerson)
          \in Persons \cup {NoPerson}
    BY <1>2
  <2>3. QED
    BY <1>2, <2>1, <2>2, NodeAssumption DEF RemoteObservation, Observation
<1>6. ASSUME NEW peer \in Peers \cup {Self}, NEW subnet \in Subnets \cup {NoSubnet}
      PROVE  Vote(peer, subnet) \in Observation
  BY <1>1, <1>2 DEF Vote, Observation
<1>7. QED
  BY <1>4, <1>5, <1>6

(* The firewall backends add, drop and expire decisions only.              *)
LEMMA SinkTypes ==
  ASSUME NEW held \in SUBSET Decision
  PROVE  /\ Added(held, LocalDecision) \subseteq SUBSET Decision
         /\ Added(held, FederatedDecision) \subseteq SUBSET Decision
         /\ Lapsed(held) \in SUBSET Decision
<1>1. LongestTTL \in Nat /\ FederationBlockTTL \in 0..LongestTTL
      /\ BanDuration \in 0..LongestTTL
  BY NodeAssumption DEF LongestTTL
<1>2. LocalDecision \in Decision /\ FederatedDecision \in Decision
  BY <1>1 DEF LocalDecision, FederatedDecision, Decision
<1>3. ASSUME NEW d \in Decision
      PROVE  Added(held, d) \subseteq SUBSET Decision
  BY NodeAssumption DEF Added, IpsetAdded, NftablesAdded, CrowdSecAdded
<1>4. Lapsed(held) \in SUBSET Decision
  <2>1. ASSUME NEW e \in held, e.left > 1
        PROVE  [e EXCEPT !.left = @ - 1] \in Decision
    BY <1>1, <2>1 DEF Decision
  <2>2. QED
    BY <2>1 DEF Lapsed
<1>5. QED
  BY <1>2, <1>3, <1>4

(* What the firewall operations leave is a deny set.                       *)
LEMMA SinkSteps ==
  ASSUME sink \in [IPs -> SUBSET Decision], NEW ip \in IPs
  PROVE  /\ Block(ip) => sink' \in [IPs -> SUBSET Decision]
         /\ BlockFor(ip) => sink' \in [IPs -> SUBSET Decision]
         /\ Unblock(ip) => sink' \in [IPs -> SUBSET Decision]
         /\ SinkError => sink' \in [IPs -> SUBSET Decision]
         /\ \A action : Enforce(ip, action) => sink' \in [IPs -> SUBSET Decision]
<1>1. sink[ip] \in SUBSET Decision
  OBVIOUS
<1>2. Block(ip) => sink' \in [IPs -> SUBSET Decision]
  BY <1>1, SinkTypes DEF Block
<1>3. BlockFor(ip) => sink' \in [IPs -> SUBSET Decision]
  BY <1>1, SinkTypes DEF BlockFor
<1>4. Unblock(ip) => sink' \in [IPs -> SUBSET Decision]
  BY DEF Unblock
<1>5. SinkError => sink' \in [IPs -> SUBSET Decision]
  BY DEF SinkError
<1>6. QED
  BY <1>2, <1>3, <1>4, <1>5 DEF Enforce

(***************************************************************************)
(* Type correctness.                                                       *)
(***************************************************************************)

(* Every step of the event loop, of a lookup and of the process keeps the  *)
(* types.                                                                  *)
LEMMA TypeStep == TypeOK /\ [Next]_vars => TypeOK'
<1> SUFFICES ASSUME TypeOK, [Next]_vars PROVE TypeOK'
  OBVIOUS
<1>1. ASSUME NEW ip \in IPs, NEW reason \in Reasons, ProcessLocal(ip, reason)
      PROVE  TypeOK'
  <2>1. Record(store[ip], LocalObservation(reason)) \in ScoreRecord
    BY ObservationTypes, RecordTypes DEF TypeOK
  <2>2. store' \in [IPs -> ScoreRecord]
    BY <1>1, <2>1 DEF ProcessLocal, TypeOK
  <2>3. sink' \in [IPs -> SUBSET Decision]
    BY <1>1, SinkSteps DEF ProcessLocal, TypeOK
  <2>4. QED
    BY <1>1, <2>2, <2>3 DEF ProcessLocal, TypeOK, nodeVars
<1>2. ASSUME NEW peer \in Peers, NEW ip \in IPs, NEW reason \in Reasons,
             NEW subnet \in Subnets \cup {NoSubnet},
             ProcessRemote(peer, ip, reason, subnet)
      PROVE  TypeOK'
  <2>1. Record(store[ip], RemoteObservation(peer, reason, subnet)) \in ScoreRecord
    BY ObservationTypes, RecordTypes DEF TypeOK
  <2>2. store' \in [IPs -> ScoreRecord]
    BY <1>2, <2>1 DEF ProcessRemote, TypeOK
  <2>3. sink' \in [IPs -> SUBSET Decision]
    BY <1>2, SinkSteps DEF ProcessRemote, TypeOK
  <2>4. QED
    BY <1>2, <2>2, <2>3 DEF ProcessRemote, TypeOK, nodeVars
<1>3. ASSUME NEW peer \in Peers, NEW ip \in IPs, NEW subnet \in Subnets \cup {NoSubnet},
             ProcessDispute(peer, ip, subnet)
      PROVE  TypeOK'
  <2>1. RecordDispute(store[ip], Vote(peer, subnet)) \in ScoreRecord
    BY ObservationTypes, RecordTypes DEF TypeOK
  <2>2. store' \in [IPs -> ScoreRecord]
    BY <1>3, <2>1 DEF ProcessDispute, TypeOK
  <2>3. disputers' \in [IPs -> SUBSET Subnets]
    BY <1>3 DEF ProcessDispute, TypeOK
  <2>4. QED
    BY <1>3, <2>2, <2>3 DEF ProcessDispute, TypeOK
<1>4. CASE DisputeUnblock
  <2>1. sink' \in [IPs -> SUBSET Decision]
    BY <1>4, SinkSteps DEF DisputeUnblock, TypeOK
  <2>2. QED
    BY <1>4, <2>1 DEF DisputeUnblock, TypeOK, history
<1>5. CASE RunDecay
  <2>1. store' \in [IPs -> ScoreRecord]
    BY <1>5, RecordTypes DEF RunDecay, TypeOK
  <2>2. sink' \in [IPs -> SUBSET Decision]
    BY <1>5 DEF RunDecay, TypeOK
  <2>3. QED
    BY <1>5, <2>1, <2>2 DEF RunDecay, TypeOK, nodeVars, history
<1>6. ASSUME NEW t \in Lookups, NEW ip \in IPs, LookupMiss(t, ip)
      PROVE  TypeOK'
  BY <1>6 DEF LookupMiss, TypeOK, history, At
<1>7. ASSUME NEW t \in Lookups, NEW verdict \in Verdicts, LookupVerdict(t, verdict)
      PROVE  TypeOK'
  <2>1. lookup[t].ip \in IPs
    BY <1>7 DEF LookupVerdict, TypeOK, Idle
  <2>2. lookup' \in [Lookups -> {Idle} \cup [pc : {"query", "block", "record"}, ip : IPs]]
    BY <1>7, <2>1 DEF LookupVerdict, TypeOK, At
  <2>3. QED
    BY <1>7, <2>2 DEF LookupVerdict, TypeOK, history
<1>8. ASSUME NEW t \in Lookups, LookupBlock(t)
      PROVE  TypeOK'
  <2>1. lookup[t].ip \in IPs
    BY <1>8 DEF LookupBlock, TypeOK, Idle
  <2>2. lookup' \in [Lookups -> {Idle} \cup [pc : {"query", "block", "record"}, ip : IPs]]
    BY <1>8, <2>1 DEF LookupBlock, TypeOK, At
  <2>3. sink' \in [IPs -> SUBSET Decision]
    BY <1>8, <2>1, SinkSteps DEF LookupBlock, TypeOK
  <2>4. QED
    BY <1>8, <2>2, <2>3 DEF LookupBlock, TypeOK, history
<1>9. ASSUME NEW t \in Lookups, LookupRecord(t)
      PROVE  TypeOK'
  <2>1. lookup[t].ip \in IPs
    BY <1>9 DEF LookupRecord, TypeOK, Idle
  <2>2. QED
    BY <1>9, <2>1 DEF LookupRecord, TypeOK, history
<1>10. CASE Tick
  <2>1. store' \in [IPs -> ScoreRecord]
    BY <1>10, RecordTypes DEF Tick, TypeOK
  <2>2. sink' \in [IPs -> SUBSET Decision]
    BY <1>10, SinkTypes DEF Tick, TypeOK
  <2>3. QED
    BY <1>10, <2>1, <2>2 DEF Tick, TypeOK, nodeVars, history
<1>11. ASSUME NEW persons \in SUBSET (Persons \ {Self}), ReloadAnchors(persons)
       PROVE  TypeOK'
  BY <1>11 DEF ReloadAnchors, TypeOK, nodeVars, history
<1>12. ASSUME NEW entries \in SUBSET IPs, NEW shared \in SUBSET entries,
              Start(entries, shared)
       PROVE  TypeOK'
  <2>1. HomeSubnet \in Subnets \cup {NoSubnet}
    BY NodeAssumption
  <2>2. ASSUME NEW ip \in IPs
        PROVE  RecordDispute(store[ip], Vote(Self, HomeSubnet)) \in ScoreRecord
    BY <2>1, ObservationTypes, RecordTypes DEF TypeOK
  <2>3. store' \in [IPs -> ScoreRecord]
    BY <1>12, <2>2 DEF Start, TypeOK
  <2>4. disputers' \in [IPs -> SUBSET Subnets]
    BY <1>12, <2>1 DEF Start, TypeOK
  <2>5. QED
    BY <1>12, <2>3, <2>4 DEF Start, TypeOK
<1>13. CASE Stop
  BY <1>13 DEF Stop, TypeOK, history
<1>14. CASE UNCHANGED vars
  BY <1>14 DEF vars, nodeVars, history, TypeOK
<1>15. QED
  BY <1>1, <1>2, <1>3, <1>4, <1>5, <1>6, <1>7, <1>8, <1>9, <1>10, <1>11, <1>12,
     <1>13, <1>14
     DEF Next, Report, Dispute, Lookup, Life, Boot

(* The node's state stays well-formed: every score within 0..100, every    *)
(* TTL within its limit, whatever arrives in whatever order                *)
(* (Run and its handlers).                                                 *)
THEOREM TypeCorrect == Spec => []TypeOK
<1>1. Init => TypeOK
  <2>1. NoRecord \in ScoreRecord
    BY ScoringAssumption DEF NoRecord, ScoreRecord
  <2>2. QED
    BY <2>1 DEF Init, TypeOK
<1>2. QED
  BY <1>1, TypeStep, PTL DEF Spec

(***************************************************************************)
(* A local block needs anchored evidence.                                  *)
(***************************************************************************)

(* The inductive part: a record with an anchored group belongs to an       *)
(* address that was vouched for, because groups are never emptied and only *)
(* an anchored report adds one.                                            *)
VoucherInv ==
  /\ \A ip \in IPs : store[ip].groups # {} => ip \in vouched
  /\ LocalBlockNeedsVoucher

(* Only Block brings a local decision into the deny set.                   *)
LEMMA LocalAfter ==
  ASSUME sink \in [IPs -> SUBSET Decision], NEW ip \in IPs, NEW other \in IPs,
         HoldsLocal(other)'
  PROVE  /\ Block(ip) => other = ip \/ HoldsLocal(other)
         /\ BlockFor(ip) => HoldsLocal(other)
         /\ Unblock(ip) => HoldsLocal(other)
         /\ SinkError => HoldsLocal(other)
<1>1. Block(ip) => other = ip \/ HoldsLocal(other)
  BY DEF Block, HoldsLocal
<1>2. BlockFor(ip) => HoldsLocal(other)
  <2> SUFFICES ASSUME BlockFor(ip) PROVE HoldsLocal(other)
    OBVIOUS
  <2>1. PICK held \in Added(sink[ip], FederatedDecision) :
          sink' = [sink EXCEPT ![ip] = held]
    BY DEF BlockFor
  <2>2. \A d \in held : d \in sink[ip] \/ d.by = "federated"
    BY NodeAssumption DEF Added, IpsetAdded, NftablesAdded, CrowdSecAdded, FederatedDecision
  <2>3. QED
    BY <2>1, <2>2 DEF HoldsLocal
<1>3. Unblock(ip) => HoldsLocal(other)
  BY DEF Unblock, HoldsLocal
<1>4. SinkError => HoldsLocal(other)
  BY DEF SinkError, HoldsLocal
<1>5. QED
  BY <1>1, <1>2, <1>3, <1>4

(* Expiry keeps who placed an entry.                                       *)
LEMMA LapsedOrigin ==
  ASSUME NEW held \in SUBSET Decision, NEW d \in Lapsed(held)
  PROVE  \E e \in held : e.by = d.by
  BY DEF Lapsed, Decision

(* Every step keeps VoucherInv.                                            *)
LEMMA VoucherStep == TypeOK /\ VoucherInv /\ [Next]_vars => VoucherInv'
<1> SUFFICES ASSUME TypeOK, VoucherInv, [Next]_vars PROVE VoucherInv'
  OBVIOUS
<1> USE DEF LocalBlockNeedsVoucher
<1>1. ASSUME NEW ip \in IPs, NEW reason \in Reasons, ProcessLocal(ip, reason)
      PROVE  VoucherInv'
  <2>1. \A other \in IPs : store'[other].groups # {} => other \in vouched'
    BY <1>1 DEF ProcessLocal, VoucherInv, TypeOK
  <2>2. \A other \in IPs : HoldsLocal(other)' => other = ip \/ HoldsLocal(other)
    BY <1>1, LocalAfter DEF ProcessLocal, Enforce, TypeOK, HoldsLocal
  <2>3. QED
    BY <1>1, <2>1, <2>2 DEF ProcessLocal, VoucherInv
<1>2. ASSUME NEW peer \in Peers, NEW ip \in IPs, NEW reason \in Reasons,
             NEW subnet \in Subnets \cup {NoSubnet},
             ProcessRemote(peer, ip, reason, subnet)
      PROVE  VoucherInv'
  <2> DEFINE obs == RemoteObservation(peer, reason, subnet)
             rec == Record(store[ip], obs)
  <2>1. obs \in Observation /\ obs.anchored = Anchored(peer) /\ store[ip] \in ScoreRecord
    BY ObservationTypes DEF TypeOK, RemoteObservation
  <2>2. ~Anchored(peer) => rec.groups = store[ip].groups
    BY <2>1, GroupsOf
  <2>3. \A other \in IPs : store'[other].groups # {} => other \in vouched'
    <3> HIDE DEF obs
    <3>1. store' = [store EXCEPT ![ip] = rec]
      BY <1>2 DEF ProcessRemote, obs
    <3>2. vouched' = IF Anchored(peer) THEN vouched \cup {ip} ELSE vouched
      BY <1>2 DEF ProcessRemote
    <3> HIDE DEF rec
    <3>3. QED
      BY <2>2, <3>1, <3>2 DEF VoucherInv, TypeOK
  <2>4. \A other \in IPs : HoldsLocal(other)' => other \in vouched'
    <3>1. PICK action : /\ Enforce(ip, action)
                        /\ action = "block" => rec.groups # {}
      BY <1>2 DEF ProcessRemote, Backstop
    <3>2. action = "block" => ip \in vouched'
      BY <1>2, <2>3, <3>1 DEF ProcessRemote, TypeOK
    <3>3. \A other \in IPs : HoldsLocal(other)'
            => HoldsLocal(other) \/ (other = ip /\ action = "block")
      BY <3>1, LocalAfter DEF Enforce, TypeOK, HoldsLocal
    <3>4. vouched \subseteq vouched'
      BY <1>2 DEF ProcessRemote
    <3>5. QED
      BY <3>2, <3>3, <3>4 DEF VoucherInv
  <2>5. QED
    BY <2>3, <2>4 DEF VoucherInv
<1>3. ASSUME NEW peer \in Peers, NEW ip \in IPs, NEW subnet \in Subnets \cup {NoSubnet},
             ProcessDispute(peer, ip, subnet)
      PROVE  VoucherInv'
  <2>1. RecordDispute(store[ip], Vote(peer, subnet)).groups = store[ip].groups
    BY ObservationTypes, GroupsOf DEF TypeOK
  <2>2. \A other \in IPs : store'[other].groups = store[other].groups
    BY <1>3, <2>1 DEF ProcessDispute, TypeOK
  <2>3. QED
    BY <1>3, <2>2 DEF ProcessDispute, VoucherInv, HoldsLocal
<1>4. CASE DisputeUnblock
  <2>1. \A other \in IPs : HoldsLocal(other)' => HoldsLocal(other)
    BY <1>4, LocalAfter DEF DisputeUnblock, TypeOK
  <2>2. QED
    BY <1>4, <2>1 DEF DisputeUnblock, VoucherInv, history
<1>5. CASE RunDecay
  <2>1. \A other \in IPs : store'[other].groups = store[other].groups
    BY <1>5, GroupsOf DEF RunDecay, TypeOK
  <2>2. \A other \in IPs : HoldsLocal(other)' => HoldsLocal(other)
    BY <1>5 DEF RunDecay, TypeOK, HoldsLocal
  <2>3. QED
    BY <1>5, <2>1, <2>2 DEF RunDecay, VoucherInv, history
<1>6. ASSUME NEW t \in Lookups, NEW ip \in IPs, LookupMiss(t, ip)
      PROVE  VoucherInv'
  BY <1>6 DEF LookupMiss, VoucherInv, HoldsLocal, history
<1>7. ASSUME NEW t \in Lookups, NEW verdict \in Verdicts, LookupVerdict(t, verdict)
      PROVE  VoucherInv'
  BY <1>7 DEF LookupVerdict, VoucherInv, HoldsLocal, history
<1>8. ASSUME NEW t \in Lookups, LookupBlock(t)
      PROVE  VoucherInv'
  <2>1. lookup[t].ip \in IPs
    BY <1>8 DEF LookupBlock, TypeOK, Idle
  <2>2. \A other \in IPs : HoldsLocal(other)' => HoldsLocal(other)
    BY <1>8, <2>1, LocalAfter DEF LookupBlock, TypeOK
  <2>3. QED
    BY <1>8, <2>2 DEF LookupBlock, VoucherInv, history
<1>9. ASSUME NEW t \in Lookups, LookupRecord(t)
      PROVE  VoucherInv'
  BY <1>9 DEF LookupRecord, VoucherInv, HoldsLocal, history
<1>10. CASE Tick
  <2>1. \A other \in IPs : store'[other].groups \subseteq store[other].groups
    BY <1>10, GroupsOf DEF Tick, TypeOK
  <2>2. \A other \in IPs : HoldsLocal(other)' => HoldsLocal(other)
    BY <1>10, LapsedOrigin DEF Tick, TypeOK, HoldsLocal
  <2>3. QED
    BY <1>10, <2>1, <2>2 DEF Tick, VoucherInv, history
<1>11. ASSUME NEW persons \in SUBSET (Persons \ {Self}), ReloadAnchors(persons)
       PROVE  VoucherInv'
  BY <1>11 DEF ReloadAnchors, VoucherInv, HoldsLocal, history
<1>12. ASSUME NEW entries \in SUBSET IPs, NEW shared \in SUBSET entries,
              Start(entries, shared)
       PROVE  VoucherInv'
  <2>1. HomeSubnet \in Subnets \cup {NoSubnet}
    BY NodeAssumption
  <2>2. ASSUME NEW ip \in IPs
        PROVE  RecordDispute(store[ip], Vote(Self, HomeSubnet)).groups = store[ip].groups
    BY <2>1, ObservationTypes, GroupsOf DEF TypeOK
  <2>3. \A other \in IPs : store'[other].groups = store[other].groups
    BY <1>12, <2>2 DEF Start, TypeOK
  <2>4. QED
    BY <1>12, <2>3 DEF Start, VoucherInv, HoldsLocal
<1>13. CASE Stop
  BY <1>13 DEF Stop, VoucherInv, HoldsLocal, history
<1>14. CASE UNCHANGED vars
  BY <1>14 DEF vars, history, VoucherInv, HoldsLocal
<1>15. QED
  BY <1>1, <1>2, <1>3, <1>4, <1>5, <1>6, <1>7, <1>8, <1>9, <1>10, <1>11, <1>12,
     <1>13, <1>14
     DEF Next, Report, Dispute, Lookup, Life, Boot

(* No rule file, however written, and no crowd of strangers makes the      *)
(* event loop block an address that neither this node nor an anchored peer *)
(* reported (the backstop of ProcessRemote).                               *)
THEOREM LocalBlocksAreVouched == Spec => []LocalBlockNeedsVoucher
<1>1. Init => VoucherInv
  BY DEF Init, VoucherInv, LocalBlockNeedsVoucher, HoldsLocal, NoRecord
<1>2. VoucherInv => LocalBlockNeedsVoucher
  BY DEF VoucherInv
<1>3. QED
  BY <1>1, <1>2, VoucherStep, TypeCorrect, PTL DEF Spec

(***************************************************************************)
(* Strangers stay within their cap.                                        *)
(***************************************************************************)

(* The inductive form: the score of an address nobody vouched for is       *)
(* covered by what strangers have spent of their budget.                   *)
StrangerInv == \A ip \in IPs : ip \notin vouched => OnlyStrangers(store[ip])

(* Every step keeps StrangerInv.                                           *)
LEMMA StrangerStep == TypeOK /\ StrangerInv /\ [Next]_vars => StrangerInv'
<1> SUFFICES ASSUME TypeOK, StrangerInv, [Next]_vars,
                    NEW other \in IPs, other \notin vouched'
             PROVE  OnlyStrangers(store'[other])
  BY DEF StrangerInv
<1>0. store[other] \in ScoreRecord
  BY DEF TypeOK
<1>1. ASSUME NEW ip \in IPs, NEW reason \in Reasons, ProcessLocal(ip, reason)
      PROVE  OnlyStrangers(store'[other])
  <2>1. other \notin vouched /\ other # ip
    BY <1>1 DEF ProcessLocal
  <2>2. store'[other] = store[other]
    BY <1>1, <2>1 DEF ProcessLocal, TypeOK
  <2>3. QED
    BY <2>1, <2>2 DEF StrangerInv
<1>2. ASSUME NEW peer \in Peers, NEW ip \in IPs, NEW reason \in Reasons,
             NEW subnet \in Subnets \cup {NoSubnet},
             ProcessRemote(peer, ip, reason, subnet)
      PROVE  OnlyStrangers(store'[other])
  <2>1. other \notin vouched /\ (other = ip => ~Anchored(peer))
    BY <1>2 DEF ProcessRemote
  <2>2. OnlyStrangers(store[other])
    BY <2>1 DEF StrangerInv
  <2>3. CASE other # ip
    <3>1. store'[other] = store[other]
      BY <1>2, <2>3 DEF ProcessRemote, TypeOK
    <3>2. QED
      BY <2>2, <3>1
  <2>4. CASE other = ip
    <3> DEFINE obs == RemoteObservation(peer, reason, subnet)
    <3>1. obs \in Observation /\ ~obs.anchored
      BY <2>1, <2>4, ObservationTypes DEF TypeOK, RemoteObservation
    <3>2. store'[other] = Record(store[other], obs)
      BY <1>2, <2>4 DEF ProcessRemote, TypeOK
    <3>3. QED
      BY <1>0, <2>2, <3>1, <3>2, StrangerReportBounded
  <2>5. QED
    BY <2>3, <2>4
<1>3. ASSUME NEW peer \in Peers, NEW ip \in IPs, NEW subnet \in Subnets \cup {NoSubnet},
             ProcessDispute(peer, ip, subnet)
      PROVE  OnlyStrangers(store'[other])
  <2>1. OnlyStrangers(store[other])
    BY <1>3 DEF ProcessDispute, StrangerInv
  <2>2. Vote(peer, subnet) \in Observation
    BY ObservationTypes DEF TypeOK
  <2>3. store'[other] = IF other = ip THEN RecordDispute(store[other], Vote(peer, subnet))
                                      ELSE store[other]
    BY <1>3 DEF ProcessDispute, TypeOK
  <2>4. QED
    BY <1>0, <2>1, <2>2, <2>3, OthersKeepBound
<1>4. CASE RunDecay
  <2>1. OnlyStrangers(store[other]) /\ store'[other] = Decay(store[other])
    BY <1>4 DEF RunDecay, StrangerInv, history
  <2>2. QED
    BY <1>0, <2>1, OthersKeepBound
<1>5. CASE Tick
  <2>1. OnlyStrangers(store[other]) /\ store'[other] = Aged(store[other])
    BY <1>5 DEF Tick, StrangerInv, history
  <2>2. QED
    BY <1>0, <2>1, OthersKeepBound
<1>6. ASSUME NEW entries \in SUBSET IPs, NEW shared \in SUBSET entries,
             Start(entries, shared)
      PROVE  OnlyStrangers(store'[other])
  <2>1. Vote(Self, HomeSubnet) \in Observation
    BY NodeAssumption, ObservationTypes DEF TypeOK
  <2>2. OnlyStrangers(store[other])
    BY <1>6 DEF Start, StrangerInv
  <2>3. store'[other] = IF other \in shared
                          THEN RecordDispute(store[other], Vote(Self, HomeSubnet))
                          ELSE store[other]
    BY <1>6 DEF Start
  <2>4. QED
    BY <1>0, <2>1, <2>2, <2>3, OthersKeepBound
<1>7. CASE UNCHANGED <<store, vouched>>
  BY <1>7 DEF StrangerInv
<1>8. ASSUME NEW t \in Lookups,
             \/ \E ip \in IPs : LookupMiss(t, ip)
             \/ \E verdict \in Verdicts : LookupVerdict(t, verdict)
             \/ LookupBlock(t)
             \/ LookupRecord(t)
      PROVE  UNCHANGED <<store, vouched>>
  BY <1>8 DEF LookupMiss, LookupVerdict, LookupBlock, LookupRecord, history
<1>9. ASSUME NEW persons \in SUBSET (Persons \ {Self}), ReloadAnchors(persons)
      PROVE  UNCHANGED <<store, vouched>>
  BY <1>9 DEF ReloadAnchors, history
<1>10. DisputeUnblock \/ Stop \/ UNCHANGED vars => UNCHANGED <<store, vouched>>
  BY DEF DisputeUnblock, Stop, vars, history
<1>11. QED
  BY <1>1, <1>2, <1>3, <1>4, <1>5, <1>6, <1>7, <1>8, <1>9, <1>10
     DEF Next, Report, Dispute, Lookup, Life, Boot

(* Any number of strangers, over any time, with votes, decay and restarts  *)
(* in between, lifts an address by at most stranger_score_cap              *)
(* (Accumulate and the StrangerContrib it books).                          *)
THEOREM StrangersAreBounded == Spec => []StrangerScoreBounded
<1>1. Init => StrangerInv
  <2>1. OnlyStrangers(NoRecord)
    BY ScoringAssumption DEF OnlyStrangers, NoRecord
  <2>2. QED
    BY <2>1 DEF Init, StrangerInv
<1>2. TypeOK /\ StrangerInv => StrangerScoreBounded
  <2> SUFFICES ASSUME TypeOK, StrangerInv, NEW ip \in IPs, ip \notin vouched
               PROVE  store[ip].score <= StrangerCap
    BY DEF StrangerScoreBounded
  <2>1. OnlyStrangers(store[ip]) /\ store[ip] \in ScoreRecord
    BY DEF StrangerInv, TypeOK
  <2>2. store[ip].score \in Nat /\ store[ip].strangerContrib \in Nat /\ StrangerCap \in Nat
    BY <2>1, ScoringAssumption DEF ScoreRecord
  <2>3. QED
    BY <2>1, <2>2 DEF OnlyStrangers
<1>3. QED
  BY <1>1, <1>2, StrangerStep, TypeCorrect, PTL DEF Spec

(***************************************************************************)
(* Suppression needs diverse anchored disputes.                            *)
(***************************************************************************)

(* The inductive form: the subnets a record counts are subnets of anchored *)
(* votes, of which there are finitely many.                                *)
DiversityInv ==
  /\ \A ip \in IPs : store[ip].disputeSubnets \subseteq disputers[ip]
  /\ \A ip \in IPs : IsFiniteSet(disputers[ip])
  /\ SuppressionNeedsDiversity

(* Adding a subnet to a finite set keeps it finite and no smaller.         *)
LEMMA AddSubnet ==
  ASSUME NEW S, IsFiniteSet(S), NEW subnet
  PROVE  LET T == S \cup ({subnet} \ {NoSubnet})
         IN  IsFiniteSet(T) /\ Cardinality(S) <= Cardinality(T)
             /\ Cardinality(S) \in Nat /\ Cardinality(T) \in Nat
<1> DEFINE T == S \cup ({subnet} \ {NoSubnet})
<1>1. IsFiniteSet(S \cup {subnet})
  BY FS_AddElement
<1>2. T \subseteq S \cup {subnet} /\ S \subseteq T
  OBVIOUS
<1>3. IsFiniteSet(T)
  BY <1>1, <1>2, FS_Subset
<1>4. Cardinality(S) <= Cardinality(T)
  BY <1>2, <1>3, FS_Subset
<1>5. QED
  BY <1>3, <1>4, FS_CardinalityType

(* Every step keeps DiversityInv.                                          *)
LEMMA DiversityStep == TypeOK /\ DiversityInv /\ [Next]_vars => DiversityInv'
<1> SUFFICES ASSUME TypeOK, DiversityInv, [Next]_vars PROVE DiversityInv'
  OBVIOUS
<1> USE DEF SuppressionNeedsDiversity
<1>1. ASSUME \A ip \in IPs : store'[ip].disputeSubnets \subseteq store[ip].disputeSubnets,
             disputers' = disputers, disputed' \subseteq disputed
      PROVE  DiversityInv'
  BY <1>1 DEF DiversityInv
<1>2. ASSUME NEW ip \in IPs, NEW reason \in Reasons, ProcessLocal(ip, reason)
      PROVE  DiversityInv'
  <2>1. Record(store[ip], LocalObservation(reason)).disputeSubnets
          = store[ip].disputeSubnets
    BY ObservationTypes, DisputersOf DEF TypeOK
  <2>2. \A other \in IPs : store'[other].disputeSubnets = store[other].disputeSubnets
    BY <1>2, <2>1 DEF ProcessLocal, TypeOK
  <2>3. QED
    BY <1>1, <1>2, <2>2 DEF ProcessLocal, nodeVars
<1>3. ASSUME NEW peer \in Peers, NEW ip \in IPs, NEW reason \in Reasons,
             NEW subnet \in Subnets \cup {NoSubnet},
             ProcessRemote(peer, ip, reason, subnet)
      PROVE  DiversityInv'
  <2>1. Record(store[ip], RemoteObservation(peer, reason, subnet)).disputeSubnets
          = store[ip].disputeSubnets
    BY ObservationTypes, DisputersOf DEF TypeOK
  <2>2. \A other \in IPs : store'[other].disputeSubnets = store[other].disputeSubnets
    BY <1>3, <2>1 DEF ProcessRemote, TypeOK
  <2>3. QED
    BY <1>1, <1>3, <2>2 DEF ProcessRemote, nodeVars
<1>4. ASSUME NEW peer \in Peers, NEW ip \in IPs, NEW subnet \in Subnets \cup {NoSubnet},
             ProcessDispute(peer, ip, subnet)
      PROVE  DiversityInv'
  <2> DEFINE rec == RecordDispute(store[ip], Vote(peer, subnet))
             more == disputers[ip] \cup ({subnet} \ {NoSubnet})
  <2>1. rec.disputeSubnets = IF Anchored(peer)
                               THEN store[ip].disputeSubnets \cup ({subnet} \ {NoSubnet})
                               ELSE store[ip].disputeSubnets
    <3>1. Vote(peer, subnet) \in Observation /\ store[ip] \in ScoreRecord
      BY ObservationTypes DEF TypeOK
    <3>2. (Vote(peer, subnet).anchored <=> Anchored(peer))
          /\ Vote(peer, subnet).subnet = subnet
      BY DEF Vote
    <3>3. rec.disputeSubnets
            = IF Vote(peer, subnet).anchored
                THEN store[ip].disputeSubnets \cup ({Vote(peer, subnet).subnet} \ {NoSubnet})
                ELSE store[ip].disputeSubnets
      BY <3>1, DisputersOf
    <3>4. QED
      BY <3>2, <3>3
  <2>2. store' = [store EXCEPT ![ip] = rec]
    BY <1>4 DEF ProcessDispute
  <2>3. disputers' = IF Anchored(peer) THEN [disputers EXCEPT ![ip] = more] ELSE disputers
    BY <1>4 DEF ProcessDispute
  <2>4. IsFiniteSet(more) /\ Cardinality(disputers[ip]) <= Cardinality(more)
        /\ Cardinality(disputers[ip]) \in Nat /\ Cardinality(more) \in Nat
    BY AddSubnet DEF DiversityInv
  <2> HIDE DEF rec, more
  <2>5. \A other \in IPs : /\ disputers[other] \subseteq disputers'[other]
                           /\ IsFiniteSet(disputers'[other])
                           /\ store'[other].disputeSubnets \subseteq disputers'[other]
    BY <2>1, <2>2, <2>3, <2>4 DEF DiversityInv, TypeOK, more
  <2>6. disputed' \subseteq disputed
        \/ /\ disputed' = disputed \cup {ip}
           /\ Cardinality(rec.disputeSubnets) >= DisputeUnblockMinSubnets
    BY <1>4 DEF ProcessDispute, rec
  <2>7. \A other \in IPs : /\ Cardinality(disputers[other]) \in Nat
                           /\ Cardinality(disputers'[other]) \in Nat
                           /\ Cardinality(disputers[other]) <= Cardinality(disputers'[other])
    BY <2>5, FS_Subset, FS_CardinalityType DEF DiversityInv
  <2>8. Cardinality(rec.disputeSubnets) \in Nat
        /\ Cardinality(rec.disputeSubnets) <= Cardinality(disputers'[ip])
    <3>1. rec.disputeSubnets \subseteq disputers'[ip]
      BY <2>2, <2>5 DEF TypeOK
    <3>2. QED
      BY <2>5, <3>1, FS_Subset, FS_CardinalityType
  <2>9. \A other \in disputed : Cardinality(disputers'[other]) >= DisputeUnblockMinSubnets
    BY <2>7, NodeAssumption DEF DiversityInv, TypeOK
  <2>10. disputed' = disputed \cup {ip} /\ Cardinality(rec.disputeSubnets) >= DisputeUnblockMinSubnets
           => Cardinality(disputers'[ip]) >= DisputeUnblockMinSubnets
    BY <2>7, <2>8, NodeAssumption
  <2>11. QED
    BY <2>5, <2>6, <2>9, <2>10 DEF DiversityInv
<1>5. CASE RunDecay
  <2>1. \A other \in IPs : store'[other].disputeSubnets = store[other].disputeSubnets
    BY <1>5, DisputersOf DEF RunDecay, TypeOK
  <2>2. QED
    BY <1>1, <1>5, <2>1 DEF RunDecay, nodeVars, history
<1>6. CASE Tick
  <2>1. \A other \in IPs :
          store'[other].disputeSubnets \subseteq store[other].disputeSubnets
    BY <1>6, DisputersOf DEF Tick, TypeOK
  <2>2. QED
    BY <1>1, <1>6, <2>1 DEF Tick, nodeVars, history
<1>7. ASSUME NEW entries \in SUBSET IPs, NEW shared \in SUBSET entries,
             Start(entries, shared)
      PROVE  DiversityInv'
  <2> DEFINE own(ip) == disputers[ip] \cup ({HomeSubnet} \ {NoSubnet})
  <2>1. ASSUME NEW ip \in IPs
        PROVE  /\ disputers[ip] \subseteq disputers'[ip]
               /\ IsFiniteSet(disputers'[ip])
               /\ Cardinality(disputers[ip]) \in Nat
               /\ Cardinality(disputers'[ip]) \in Nat
               /\ Cardinality(disputers[ip]) <= Cardinality(disputers'[ip])
               /\ store'[ip].disputeSubnets \subseteq disputers'[ip]
    <3>1. disputers'[ip] = IF ip \in shared /\ Anchored(Self) THEN own(ip) ELSE disputers[ip]
      BY <1>7 DEF Start
    <3>2. IsFiniteSet(disputers[ip]) /\ store[ip].disputeSubnets \subseteq disputers[ip]
      BY DEF DiversityInv
    <3>3. IsFiniteSet(own(ip)) /\ Cardinality(disputers[ip]) <= Cardinality(own(ip))
          /\ Cardinality(disputers[ip]) \in Nat /\ Cardinality(own(ip)) \in Nat
      BY <3>2, AddSubnet
    <3>4. Vote(Self, HomeSubnet) \in Observation /\ store[ip] \in ScoreRecord
          /\ (Vote(Self, HomeSubnet).anchored <=> Anchored(Self))
          /\ Vote(Self, HomeSubnet).subnet = HomeSubnet
      BY NodeAssumption, ObservationTypes DEF TypeOK, Vote
    <3>5. store'[ip].disputeSubnets
            = IF ip \in shared /\ Anchored(Self)
                THEN store[ip].disputeSubnets \cup ({HomeSubnet} \ {NoSubnet})
                ELSE store[ip].disputeSubnets
      <4>1. store'[ip] = IF ip \in shared
                           THEN RecordDispute(store[ip], Vote(Self, HomeSubnet))
                           ELSE store[ip]
        BY <1>7 DEF Start
      <4>2. RecordDispute(store[ip], Vote(Self, HomeSubnet)).disputeSubnets
              = IF Vote(Self, HomeSubnet).anchored
                  THEN store[ip].disputeSubnets
                         \cup ({Vote(Self, HomeSubnet).subnet} \ {NoSubnet})
                  ELSE store[ip].disputeSubnets
        BY <3>4, DisputersOf
      <4>3. QED
        BY <3>4, <4>1, <4>2
    <3>6. store'[ip].disputeSubnets \subseteq disputers'[ip]
      BY <3>1, <3>2, <3>5
    <3>7. QED
      BY <3>1, <3>2, <3>3, <3>6
  <2>2. \A ip \in disputed : Cardinality(disputers'[ip]) >= DisputeUnblockMinSubnets
    BY <2>1, NodeAssumption DEF DiversityInv, TypeOK
  <2>3. disputed' = disputed
    BY <1>7 DEF Start
  <2>4. QED
    BY <2>1, <2>2, <2>3 DEF DiversityInv
<1>8. ASSUME NEW t \in Lookups,
             \/ \E ip \in IPs : LookupMiss(t, ip)
             \/ \E verdict \in Verdicts : LookupVerdict(t, verdict)
             \/ LookupBlock(t)
             \/ LookupRecord(t)
      PROVE  UNCHANGED <<store, disputers, disputed>>
  BY <1>8 DEF LookupMiss, LookupVerdict, LookupBlock, LookupRecord, history
<1>9. ASSUME NEW persons \in SUBSET (Persons \ {Self}), ReloadAnchors(persons)
      PROVE  UNCHANGED <<store, disputers, disputed>>
  BY <1>9 DEF ReloadAnchors, history, nodeVars
<1>10. DisputeUnblock \/ UNCHANGED vars => UNCHANGED <<store, disputers, disputed>>
  BY DEF DisputeUnblock, vars, history, nodeVars
<1>11. Stop => store' = store /\ disputers' = disputers /\ disputed' \subseteq disputed
  BY DEF Stop, history
<1>12. QED
  BY <1>1, <1>2, <1>3, <1>4, <1>5, <1>6, <1>7, <1>8, <1>9, <1>10, <1>11
     DEF Next, Report, Dispute, Lookup, Life, Boot

(* An address is suppressed from materialising only after anchored votes   *)
(* from dispute_unblock_min_subnets different subnets; strangers add none, *)
(* whatever subnets they claim (ApplyDispute, maybeUnblockDisputed).       *)
THEOREM SuppressionIsDiverse == Spec => []SuppressionNeedsDiversity
<1>1. Init => DiversityInv
  BY FS_EmptySet DEF Init, DiversityInv, SuppressionNeedsDiversity, NoRecord
<1>2. DiversityInv => SuppressionNeedsDiversity
  BY DEF DiversityInv
<1>3. QED
  BY <1>1, <1>2, DiversityStep, TypeCorrect, PTL DEF Spec

(***************************************************************************)
(* Every federated block can still be retracted.                           *)
(***************************************************************************)

(* Only BlockFor brings a federated decision into the deny set.            *)
LEMMA FederatedAfter ==
  ASSUME sink \in [IPs -> SUBSET Decision], NEW ip \in IPs, NEW other \in IPs,
         HoldsFederated(other)'
  PROVE  /\ Block(ip) => HoldsFederated(other)
         /\ BlockFor(ip) => other = ip \/ HoldsFederated(other)
         /\ Unblock(ip) => other # ip /\ HoldsFederated(other)
         /\ SinkError => HoldsFederated(other)
<1>1. Block(ip) => HoldsFederated(other)
  <2> SUFFICES ASSUME Block(ip) PROVE HoldsFederated(other)
    OBVIOUS
  <2>1. PICK held \in Added(sink[ip], LocalDecision) : sink' = [sink EXCEPT ![ip] = held]
    BY DEF Block
  <2>2. \A d \in held : d \in sink[ip] \/ d.by = "local"
    BY NodeAssumption DEF Added, IpsetAdded, NftablesAdded, CrowdSecAdded, LocalDecision
  <2>3. QED
    BY <2>1, <2>2 DEF HoldsFederated
<1>2. BlockFor(ip) => other = ip \/ HoldsFederated(other)
  BY DEF BlockFor, HoldsFederated
<1>3. Unblock(ip) => other # ip /\ HoldsFederated(other)
  BY DEF Unblock, HoldsFederated
<1>4. SinkError => HoldsFederated(other)
  BY DEF SinkError, HoldsFederated
<1>5. QED
  BY <1>1, <1>2, <1>3, <1>4

(* Without crashes and firewall errors every step keeps the tracking.      *)
LEMMA TrackedStep ==
  ASSUME ~MayCrash, ~SinkMayFail
  PROVE  TypeOK /\ FederatedBlockTracked /\ [Next]_vars => FederatedBlockTracked'
<1> SUFFICES ASSUME TypeOK, FederatedBlockTracked, [Next]_vars,
                    NEW other \in IPs, HoldsFederated(other)'
             PROVE  \/ other \in materialised'
                    \/ main' = other
                    \/ \E t \in Lookups : lookup'[t] = At("record", other)
  BY DEF FederatedBlockTracked
<1> DEFINE Goal == \/ other \in materialised'
                   \/ main' = other
                   \/ \E t \in Lookups : lookup'[t] = At("record", other)
<1>0. NoIP \notin IPs /\ main \in IPs \cup {NoIP}
  BY NodeAssumption DEF TypeOK
<1>1. ASSUME HoldsFederated(other), UNCHANGED <<materialised, main, lookup>>
      PROVE  Goal
  BY <1>1 DEF FederatedBlockTracked
<1>2. ASSUME NEW ip \in IPs, NEW reason \in Reasons, ProcessLocal(ip, reason)
      PROVE  Goal
  <2>1. HoldsFederated(other)
    BY <1>2, FederatedAfter DEF ProcessLocal, Enforce, TypeOK, HoldsFederated
  <2>2. QED
    BY <1>1, <1>2, <2>1 DEF ProcessLocal, nodeVars
<1>3. ASSUME NEW peer \in Peers, NEW ip \in IPs, NEW reason \in Reasons,
             NEW subnet \in Subnets \cup {NoSubnet},
             ProcessRemote(peer, ip, reason, subnet)
      PROVE  Goal
  <2>1. HoldsFederated(other)
    BY <1>3, FederatedAfter DEF ProcessRemote, Enforce, TypeOK, HoldsFederated
  <2>2. QED
    BY <1>1, <1>3, <2>1 DEF ProcessRemote, nodeVars
<1>4. ASSUME NEW peer \in Peers, NEW ip \in IPs, NEW subnet \in Subnets \cup {NoSubnet},
             ProcessDispute(peer, ip, subnet)
      PROVE  Goal
  <2>1. HoldsFederated(other)
    BY <1>4 DEF ProcessDispute, HoldsFederated
  <2>2. \/ other \in materialised
        \/ \E t \in Lookups : lookup[t] = At("record", other)
    BY <1>0, <1>4, <2>1 DEF FederatedBlockTracked, ProcessDispute, InSelect
  <2>3. other \in materialised => other \in materialised' \/ main' = other
    BY <1>4 DEF ProcessDispute
  <2>4. lookup' = lookup
    BY <1>4 DEF ProcessDispute
  <2>5. QED
    BY <2>2, <2>3, <2>4
<1>5. CASE DisputeUnblock
  <2>1. main \in IPs /\ Unblock(main)
    BY <1>0, <1>5 DEF DisputeUnblock, SinkError
  <2>2. other # main /\ HoldsFederated(other)
    BY <2>1, FederatedAfter DEF TypeOK
  <2>3. QED
    BY <1>5, <2>2 DEF DisputeUnblock, FederatedBlockTracked
<1>6. CASE RunDecay
  <2>1. HoldsFederated(other)
    BY <1>6 DEF RunDecay, HoldsFederated
  <2>2. QED
    BY <1>1, <1>6, <2>1 DEF RunDecay, nodeVars
<1>7. ASSUME NEW t \in Lookups, NEW ip \in IPs, LookupMiss(t, ip)
      PROVE  Goal
  <2>1. HoldsFederated(other)
    BY <1>7 DEF LookupMiss, HoldsFederated
  <2>2. \A u \in Lookups : lookup[u] = At("record", other) => lookup'[u] = lookup[u]
    BY <1>7 DEF LookupMiss, TypeOK, Idle, At
  <2>3. QED
    BY <1>7, <2>1, <2>2 DEF LookupMiss, FederatedBlockTracked
<1>8. ASSUME NEW t \in Lookups, NEW verdict \in Verdicts, LookupVerdict(t, verdict)
      PROVE  Goal
  <2>1. HoldsFederated(other)
    BY <1>8 DEF LookupVerdict, HoldsFederated
  <2>2. \A u \in Lookups : lookup[u] = At("record", other) => lookup'[u] = lookup[u]
    BY <1>8 DEF LookupVerdict, TypeOK, At
  <2>3. QED
    BY <1>8, <2>1, <2>2 DEF LookupVerdict, FederatedBlockTracked
<1>9. ASSUME NEW t \in Lookups, LookupBlock(t)
      PROVE  Goal
  <2>1. lookup[t].ip \in IPs
    BY <1>9 DEF LookupBlock, TypeOK, Idle
  <2>2. BlockFor(lookup[t].ip)
        /\ lookup' = [lookup EXCEPT ![t] = At("record", lookup[t].ip)]
    BY <1>9 DEF LookupBlock, SinkError
  <2>3. other = lookup[t].ip \/ HoldsFederated(other)
    BY <2>1, <2>2, FederatedAfter DEF TypeOK
  <2>4. CASE other = lookup[t].ip
    <3>1. lookup'[t] = At("record", other)
      BY <2>2, <2>4 DEF TypeOK
    <3>2. QED
      BY <3>1
  <2>5. CASE HoldsFederated(other)
    <3>1. \A u \in Lookups : lookup[u] = At("record", other) => lookup'[u] = lookup[u]
      BY <1>9, <2>2 DEF LookupBlock, TypeOK, At
    <3>2. QED
      BY <1>9, <2>5, <3>1 DEF LookupBlock, FederatedBlockTracked
  <2>6. QED
    BY <2>3, <2>4, <2>5
<1>10. ASSUME NEW t \in Lookups, LookupRecord(t)
       PROVE  Goal
  <2>1. HoldsFederated(other)
    BY <1>10 DEF LookupRecord, HoldsFederated
  <2>2. lookup[t] = At("record", other) => other \in materialised'
    BY <1>10 DEF LookupRecord, At
  <2>3. \A u \in Lookups : u # t => lookup'[u] = lookup[u]
    BY <1>10 DEF LookupRecord, TypeOK
  <2>4. QED
    BY <1>10, <2>1, <2>2, <2>3 DEF LookupRecord, FederatedBlockTracked
<1>11. CASE Tick
  <2>1. HoldsFederated(other)
    BY <1>11, LapsedOrigin DEF Tick, TypeOK, HoldsFederated
  <2>2. QED
    BY <1>1, <1>11, <2>1 DEF Tick, nodeVars
<1>12. ASSUME NEW persons \in SUBSET (Persons \ {Self}), ReloadAnchors(persons)
       PROVE  Goal
  BY <1>1, <1>12 DEF ReloadAnchors, nodeVars, HoldsFederated
<1>13. ASSUME NEW entries \in SUBSET IPs, NEW shared \in SUBSET entries,
              Start(entries, shared)
       PROVE  Goal
  BY <1>1, <1>13 DEF Start, HoldsFederated
<1>14. CASE UNCHANGED vars
  BY <1>1, <1>14 DEF vars, nodeVars, HoldsFederated
<1>15. ~Stop
  BY DEF Stop
<1>16. QED
  BY <1>2, <1>3, <1>4, <1>5, <1>6, <1>7, <1>8, <1>9, <1>10, <1>11, <1>12, <1>13,
     <1>14, <1>15
     DEF Next, Report, Dispute, Lookup, Life, Boot

(* In a process that lives, with a firewall that obeys, no interleaving of *)
(* lookups with dispute handling leaves a federated block that the node    *)
(* has forgotten it placed (the two critical sections of                   *)
(* materialiseFederated and the one of maybeUnblockDisputed).              *)
THEOREM FederatedBlocksAreTracked ==
  ASSUME ~MayCrash, ~SinkMayFail
  PROVE  Spec => []FederatedBlockTracked
<1>1. Init => FederatedBlockTracked
  BY DEF Init, FederatedBlockTracked, HoldsFederated
<1>2. TypeOK /\ FederatedBlockTracked /\ [Next]_vars => FederatedBlockTracked'
  BY TrackedStep
<1>3. QED
  BY <1>1, <1>2, TypeCorrect, PTL DEF Spec

(***************************************************************************)
(* Never-block and whitelist always win.                                   *)
(***************************************************************************)

(* Why a late BlockFor is safe: a stopped node has no lookups, and one     *)
(* that passed the gate is about an address that is still unprotected,     *)
(* because the whitelist changes only while the node is stopped.           *)
GateInv ==
  /\ ~up => \A t \in Lookups : lookup[t] = Idle
  /\ \A t \in Lookups : lookup[t].pc = "block" => ~Protected(lookup[t].ip)

(* Every step keeps GateInv.                                               *)
LEMMA GateStep == TypeOK /\ GateInv /\ [Next]_vars => GateInv'
<1> SUFFICES ASSUME TypeOK, GateInv, [Next]_vars PROVE GateInv'
  OBVIOUS
<1> USE DEF Protected, Idle, At
<1>1. ASSUME UNCHANGED <<up, lookup, whitelist>> PROVE GateInv'
  BY <1>1 DEF GateInv
<1>2. ASSUME Report \/ Dispute \/ RunDecay \/ Tick \/ UNCHANGED vars
      PROVE  UNCHANGED <<up, lookup, whitelist>>
  BY <1>2 DEF Report, Dispute, ProcessLocal, ProcessRemote, ProcessDispute,
              DisputeUnblock, RunDecay, Tick, vars, nodeVars
<1>3. ASSUME NEW t \in Lookups, NEW ip \in IPs, LookupMiss(t, ip)
      PROVE  GateInv'
  BY <1>3 DEF LookupMiss, GateInv, TypeOK
<1>4. ASSUME NEW t \in Lookups, NEW verdict \in Verdicts, LookupVerdict(t, verdict)
      PROVE  GateInv'
  BY <1>4 DEF LookupVerdict, GateInv, TypeOK, Gate
<1>5. ASSUME NEW t \in Lookups, LookupBlock(t) \/ LookupRecord(t)
      PROVE  GateInv'
  BY <1>5 DEF LookupBlock, LookupRecord, GateInv, TypeOK
<1>6. ASSUME NEW persons \in SUBSET (Persons \ {Self}), ReloadAnchors(persons)
      PROVE  GateInv'
  BY <1>1, <1>6 DEF ReloadAnchors, nodeVars
<1>7. ASSUME NEW entries \in SUBSET IPs, NEW shared \in SUBSET entries,
             Start(entries, shared)
      PROVE  GateInv'
  BY <1>7 DEF Start, GateInv
<1>8. CASE Stop
  BY <1>8 DEF Stop, GateInv
<1>9. QED
  BY <1>1, <1>2, <1>3, <1>4, <1>5, <1>6, <1>7, <1>8 DEF Next, Lookup, Life, Boot

(* No handler and no lookup blocks a protected address, however late a     *)
(* lookup comes to its BlockFor (processLocal, ProcessRemote and           *)
(* materialiseFederated).                                                  *)
THEOREM ProtectedAddressesStayFree == Spec => ProtectedNeverNewlyBlocked
<1> DEFINE Free == \A ip \in IPs : Protected(ip) /\ sink[ip] = {} => sink'[ip] = {}
<1>1. TypeOK /\ GateInv /\ [Next]_vars => [Free]_vars
  <2> SUFFICES ASSUME TypeOK, GateInv, Next, NEW other \in IPs,
                      Protected(other), sink[other] = {}
               PROVE  sink'[other] = {}
    BY DEF Free
  <2>1. CASE sink' = sink
    BY <2>1
  <2>2. ASSUME NEW ip \in IPs, NEW action, Enforce(ip, action), ~Protected(ip)
        PROVE  sink'[other] = {}
    BY <2>2 DEF Enforce, Block, SinkError, TypeOK
  <2>3. CASE Report
    BY <2>2, <2>3 DEF Report, ProcessLocal, ProcessRemote
  <2>4. CASE Dispute
    <3>1. CASE DisputeUnblock
      BY <3>1 DEF DisputeUnblock, Unblock, SinkError, TypeOK
    <3>2. CASE ~DisputeUnblock
      BY <2>1, <2>4, <3>2 DEF Dispute, ProcessDispute
    <3>3. QED
      BY <3>1, <3>2
  <2>5. CASE RunDecay
    BY <2>5 DEF RunDecay
  <2>6. ASSUME NEW t \in Lookups, LookupBlock(t)
        PROVE  sink'[other] = {}
    <3>1. ~Protected(lookup[t].ip)
      BY <2>6 DEF LookupBlock, GateInv
    <3>2. QED
      BY <2>6, <3>1 DEF LookupBlock, BlockFor, SinkError, TypeOK
  <2>7. CASE Lookup
    BY <2>1, <2>6, <2>7 DEF Lookup, LookupMiss, LookupVerdict, LookupRecord
  <2>8. CASE Tick
    BY <2>8 DEF Tick, Lapsed
  <2>9. CASE Life
    BY <2>1, <2>9 DEF Life, Boot, ReloadAnchors, Start, Stop
  <2>10. QED
    BY <2>3, <2>4, <2>5, <2>7, <2>8, <2>9 DEF Next
<1>2. Init => GateInv
  BY DEF Init, GateInv, Idle
<1>3. QED
  BY <1>1, <1>2, GateStep, TypeCorrect, PTL DEF Spec, ProtectedNeverNewlyBlocked

=============================================================================
