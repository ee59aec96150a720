-------------------------- MODULE MCFederatedQuery --------------------------
(* Instances of FederatedQuery for TLC.  100 score points are 20 units,    *)
(* 1.0 is 10 units; of the querier a tick is the shortest time-out, of the *)
(* aggregator one half-life.                                               *)
EXTENDS FederatedQuery

CONSTANTS i1, i2, g1, g2, c1, c2, s1, s2, s3, alice, bob

MCRetained == [age \in 0..2 |-> IF age = 0 THEN 10 ELSE IF age = 1 THEN 5 ELSE 2]

(* Records the aggregators asked may hold: two Persons from two subnets,   *)
(* and strangers from three.  Their answers are recomputed from evidence.  *)
MCRecords ==
  { [NoRecord EXCEPT !.known = TRUE, !.groups = {alice, bob}, !.subnets = {s1, s2}],
    [NoRecord EXCEPT !.known = TRUE, !.strangerSeen = TRUE, !.subnets = {s1, s2, s3}] }

MCVerdicts ==
  {[score |-> RecordFromEvidence(evidence), subnets |-> evidence.subnets] :
     evidence \in {AggregateFromRecord(record, 8) : record \in MCRecords}}

From(weight, trust, group, subnet, anchored) ==
  [ weight |-> weight, trust |-> trust, group |-> group, subnet |-> subnet,
    anchored |-> anchored ]

(* Two Persons, one of them reporting from either subnet, and strangers.   *)
MCReports ==
  { From(8, 10, alice, s1, TRUE), From(2, 10, alice, s2, TRUE),
    From(4, 6, bob, s1, TRUE), From(8, 3, NoPerson, s2, FALSE) }

MCVotes ==
  { From(0, 10, alice, s1, TRUE), From(0, 10, bob, s2, TRUE),
    From(0, 3, NoPerson, s1, FALSE) }

(* Aggregates around every limit of the recompute.                         *)
MCClaims ==
  [ groups : -1..4, subnets : 0..3, disputeSubnets : {-1, 0, 1, 4}, strangers : BOOLEAN,
    weight : {-1, 6, 10, 12}, top : {2, 8}, age : 0..2 ]

=============================================================================
