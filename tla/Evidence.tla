------------------------------ MODULE Evidence ------------------------------
(***************************************************************************)
(* The evidence an aggregator sends about an address, and the score the    *)
(* asking node recomputes from it under its own parameters                 *)
(* (internal/repquery: AggregateFromRecord, RecordFromEvidence).  Pure.    *)
(*                                                                         *)
(* The recompute folds one synthetic vote per counted group through        *)
(* Accumulate and one per disputing subnet through ApplyDispute, all at    *)
(* the time of the evidence, and decays the result to now.                 *)
(***************************************************************************)
EXTENDS Scoring

CONSTANTS
  FederationDiscount,  \* trust.federation_discount
  MaxEvidenceFolds     \* maxEvidenceFolds

ASSUME EvidenceAssumption ==
  /\ FederationDiscount \in 0..Unit
  /\ MaxEvidenceFolds \in Nat \ {0}
  /\ NoSubnet \notin 0..MaxEvidenceFolds

(* An EvidenceAggregate.  Counts and weight come off the wire and may be   *)
(* any number; top is the local weight of its gravest scenario.            *)
EvidenceAggregate ==
  [ groups : Int, subnets : Int, disputeSubnets : Int, strangers : BOOLEAN,
    weight : Int, top : 0..Full, age : 0..MaxAge ]

(* Mutant: the subnets are counted as groups.                              *)
AggregateOfSubnets(rec, top) ==
  [ groups |-> Cardinality(rec.subnets), subnets |-> Cardinality(rec.subnets),
    disputeSubnets |-> Cardinality(rec.disputeSubnets),
    strangers |-> rec.strangerSeen, weight |-> Unit, top |-> top, age |-> rec.age ]

(* AggregateFromRecord: a record is shared as counts, at full weight.      *)
AggregateFromRecord(rec, top) ==
  [ groups |-> Cardinality(rec.groups), subnets |-> Cardinality(rec.subnets),
    disputeSubnets |-> Cardinality(rec.disputeSubnets),
    strangers |-> rec.strangerSeen, weight |-> Unit, top |-> top, age |-> rec.age ]

Clamp(n, low, high) == IF n < low THEN low ELSE Lesser(n, high)

(* The votes counted, of which FullVotes are from subnets of their own.    *)
Folds(count) == Clamp(count, 0, MaxEvidenceFolds)
FullVotes(ev) == Lesser(Folds(ev.groups), IF ev.subnets < 1 THEN 1 ELSE ev.subnets)

SyntheticVote(ev, subnet, anchored) ==
  [ weight |-> ev.top, group |-> NoPerson, subnet |-> subnet, anchored |-> anchored,
    trust |-> (Clamp(ev.weight, 0, Unit) * FederationDiscount) \div Unit ]

(* The synthetic subnet of the i-th group vote; MaxEvidenceFolds is the    *)
(* one that the votes beyond FullVotes share.                              *)
VoteSubnet(ev, i) == IF i <= FullVotes(ev) THEN i - 1 ELSE MaxEvidenceFolds

GroupsFolded(ev) ==
  LET folded[n \in 0..Folds(ev.groups)] ==
        IF n = 0 THEN NoRecord
                 ELSE Accumulate(folded[n - 1], SyntheticVote(ev, VoteSubnet(ev, n), TRUE))
  IN  folded[Folds(ev.groups)]

(* Mutant: the strangers' vote is folded as an anchored one.               *)
StrangersFoldedAnchored(ev) ==
  IF ev.strangers THEN Accumulate(GroupsFolded(ev), SyntheticVote(ev, NoSubnet, TRUE))
                  ELSE GroupsFolded(ev)

(* All strangers together are one capped vote.                             *)
StrangersFolded(ev) ==
  IF ev.strangers THEN Accumulate(GroupsFolded(ev), SyntheticVote(ev, NoSubnet, FALSE))
                  ELSE GroupsFolded(ev)

(* Mutant: the disputes are counted from the reports' bucket.              *)
DisputesFoldedByReports(ev) ==
  LET folded[n \in 0..Folds(ev.subnets)] ==
        IF n = 0 THEN StrangersFolded(ev)
                 ELSE ApplyDispute(folded[n - 1], SyntheticVote(ev, n - 1, TRUE))
  IN  folded[Folds(ev.subnets)]

DisputesFolded(ev) ==
  LET folded[n \in 0..Folds(ev.disputeSubnets)] ==
        IF n = 0 THEN StrangersFolded(ev)
                 ELSE ApplyDispute(folded[n - 1], SyntheticVote(ev, n - 1, TRUE))
  IN  folded[Folds(ev.disputeSubnets)]

(* RecordFromEvidence: only the score is kept.                             *)
RecordFromEvidence(ev) == DecayScore(DisputesFolded(ev).score, ev.age)

=============================================================================
