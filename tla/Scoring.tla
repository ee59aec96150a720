------------------------------ MODULE Scoring ------------------------------
(***************************************************************************)
(* The pure scoring arithmetic of internal/reputation: lazy decay,         *)
(* accumulation of a report, application of a dispute.  The engine works   *)
(* in floating point on a scale of 0..100; here a score is a whole number  *)
(* of units, Full of them standing for 100, and every fraction of one      *)
(* (trust, diversity factor, share of a score that survives decay) is a    *)
(* whole number of Units.  Products are rounded down.                      *)
(*                                                                         *)
(* Time is kept as ages: a record holds the time since its LastSeen, in    *)
(* ticks, and the time the store will still keep it.                       *)
(***************************************************************************)
EXTENDS Integers, FiniteSets

CONSTANTS
  Full,             \* score units that stand for 100
  Unit,             \* fraction units that stand for 1.0
  Retained,         \* Retained[a]: share of a score left after a ticks
  MaxAge,           \* ages from MaxAge on decay alike
  RecordTTL,        \* ticks the store keeps a record (3 half-lives)
  StrangerCap,      \* trust.stranger_score_cap
  DiversityRepeat,  \* diversity_repeat_factor
  DisputeWeight,    \* dispute_weight
  Subnets,          \* subnet names a report or a vote may carry
  NoSubnet,         \* the empty subnet: diversity is not tracked
  Persons,          \* names an anchored report may count for
  NoPerson          \* the empty group of a stranger

ASSUME ScoringAssumption ==
  /\ Full \in Nat \ {0}
  /\ Unit \in Nat \ {0}
  /\ MaxAge \in Nat \ {0}
  /\ RecordTTL \in Nat \ {0}
  /\ StrangerCap \in Nat
  /\ DiversityRepeat \in 0..Unit
  /\ DisputeWeight \in Nat
  /\ Retained \in [0..MaxAge -> 0..Unit]
  /\ Retained[0] = Unit
  /\ NoSubnet \notin Subnets
  /\ NoPerson \notin Persons

Lesser(a, b) == IF a <= b THEN a ELSE b

(***************************************************************************)
(* ScoreRecord.  known stands for a non-zero LastSeen.  Corroboration is   *)
(* the number of groups; reasons, reporter names and FirstSeen decide      *)
(* nothing and are left out.                                               *)
(***************************************************************************)
ScoreRecord ==
  [ known           : BOOLEAN,
    score           : 0..Full,
    age             : 0..MaxAge,
    ttl             : 0..RecordTTL,
    groups          : SUBSET Persons,
    strangerSeen    : BOOLEAN,
    strangerContrib : Nat,
    subnets         : SUBSET Subnets,
    disputeSubnets  : SUBSET Subnets,
    disputeContrib  : Nat ]

NoRecord ==
  [ known |-> FALSE, score |-> 0, age |-> 0, ttl |-> 0, groups |-> {},
    strangerSeen |-> FALSE, strangerContrib |-> 0, subnets |-> {},
    disputeSubnets |-> {}, disputeContrib |-> 0 ]

Observation ==
  [ weight : 0..Full, trust : 0..Unit, group : Persons \cup {NoPerson},
    subnet : Subnets \cup {NoSubnet}, anchored : BOOLEAN ]

(* Mutant: the sign of the exponent is lost.                               *)
DecayScoreGrows(score, age) == (score * Unit) \div Retained[age]

(* score * exp(-ln2 * elapsed / halfLife), as the share kept at that age.  *)
DecayScore(score, age) == (score * Retained[age]) \div Unit

(* The score Accumulate and ApplyDispute start from: decayed to now.       *)
Decayed(rec) == IF rec.known THEN DecayScore(rec.score, rec.age) ELSE rec.score

(* Mutant: the cap holds per report instead of over the record's life.     *)
RemainingPerReport(used) == StrangerCap

(* What is left of a stranger budget of which `used' is spent.             *)
Remaining(used) == IF used < StrangerCap THEN StrangerCap - used ELSE 0

(* A repeat from a subnet already in `seen' is damped, any other counts full. *)
DivFactor(subnet, seen) == IF subnet \in seen THEN DiversityRepeat ELSE Unit

Contribution(rec, obs) ==
  LET raw == (obs.trust * obs.weight * (Full - Decayed(rec))
                * DivFactor(obs.subnet, rec.subnets)) \div (Unit * Unit * Full)
  IN IF obs.anchored THEN raw ELSE Lesser(raw, Remaining(rec.strangerContrib))

(* Accumulate: fold one report into a record.                              *)
Accumulate(rec, obs) ==
  LET contrib == Contribution(rec, obs)
  IN [ rec EXCEPT
         !.known = TRUE,
         !.score = Lesser(Decayed(rec) + contrib, Full),
         !.age = 0,
         !.strangerSeen = @ \/ ~obs.anchored,
         !.strangerContrib = IF obs.anchored THEN @ ELSE @ + contrib,
         !.groups = IF obs.anchored THEN @ \cup ({obs.group} \ {NoPerson}) ELSE @,
         !.subnets = @ \cup ({obs.subnet} \ {NoSubnet}) ]

Reduction(rec, obs) ==
  LET div == IF obs.anchored THEN DivFactor(obs.subnet, rec.disputeSubnets)
                             ELSE Unit
      raw == (obs.trust * DisputeWeight * Decayed(rec) * div)
                \div (Unit * Unit * Full)
  IN IF obs.anchored THEN raw ELSE Lesser(raw, Remaining(rec.disputeContrib))

(* Mutant: a stranger's vote adds its subnet too.                          *)
ApplyDisputeOfAnyone(rec, obs) ==
  LET reduction == Reduction(rec, obs)
  IN [ rec EXCEPT
         !.known = TRUE,
         !.score = IF reduction <= Decayed(rec) THEN Decayed(rec) - reduction ELSE 0,
         !.age = 0,
         !.disputeSubnets = @ \cup ({obs.subnet} \ {NoSubnet}) ]

(* ApplyDispute: fold one negative vote; only anchored votes add a subnet. *)
ApplyDispute(rec, obs) ==
  LET reduction == Reduction(rec, obs)
  IN [ rec EXCEPT
         !.known = TRUE,
         !.score = IF reduction <= Decayed(rec) THEN Decayed(rec) - reduction ELSE 0,
         !.age = 0,
         !.disputeContrib = IF obs.anchored THEN @ ELSE @ + reduction,
         !.disputeSubnets = IF obs.anchored THEN @ \cup ({obs.subnet} \ {NoSubnet})
                                            ELSE @ ]

(* Engine.Record and Engine.RecordDispute: fold, then PutScore with a fresh TTL. *)
Record(rec, obs) == [Accumulate(rec, obs) EXCEPT !.ttl = RecordTTL]

RecordDispute(rec, obs) == [ApplyDispute(rec, obs) EXCEPT !.ttl = RecordTTL]

(* Mutant: only the TTL is refreshed, the decayed score is not stored.     *)
DecayUnsaved(rec) == IF rec.known THEN [rec EXCEPT !.ttl = RecordTTL] ELSE rec

(* Engine.Decay: the decayed score is stored with a fresh TTL; LastSeen,   *)
(* and with it the age the next decay will use, stays as it was.           *)
Decay(rec) ==
  IF rec.known THEN [rec EXCEPT !.score = Decayed(rec), !.ttl = RecordTTL] ELSE rec

(* One tick of time: the record ages; at the end of its TTL it is gone.    *)
Aged(rec) ==
  IF ~rec.known THEN rec
  ELSE IF rec.ttl <= 1 THEN NoRecord
  ELSE [rec EXCEPT !.age = Lesser(@ + 1, MaxAge), !.ttl = @ - 1]

=============================================================================
