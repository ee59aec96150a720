----------------------------- MODULE Aggregator -----------------------------
(***************************************************************************)
(* What a node learns of one address through an aggregator                 *)
(* (internal/repquery: responder, AggregateFromRecord, RecordFromEvidence).*)
(* The aggregator's record grows, is disputed, decays and expires; asked,  *)
(* its responder answers with counts.  The asking node recomputes a score  *)
(* from the answer.  An answer need not come from such a record (an older  *)
(* node fills other buckets, and the numbers are not checked on the wire): *)
(* the first one read is any of Claims.                                    *)
(***************************************************************************)
EXTENDS Evidence

CONSTANTS
  Reports,   \* observations the aggregator may fold in
  Votes,     \* dispute votes it may receive
  Claims     \* other aggregates that may come off the wire

ASSUME AggregatorAssumption ==
  /\ Reports \cup Votes \subseteq Observation
  /\ Claims \subseteq EvidenceAggregate

VARIABLES
  rec,  \* the aggregator's record of the address
  top,  \* the local weight of the gravest scenario among its reasons
  ev    \* the answer just read from the stream, if any

vars == <<rec, top, ev>>

NoEvidence == AggregateFromRecord(NoRecord, 0)

TypeOK == rec \in ScoreRecord /\ top \in 0..Full /\ ev \in EvidenceAggregate

(* A report adds its reason to the record, a vote adds none.               *)
Graver(obs) == IF obs.weight > top THEN obs.weight ELSE top

(* Engine.Record.                                                          *)
Report(obs) ==
  /\ rec' = Record(rec, obs)
  /\ top' = Graver(obs)
  /\ ev' = NoEvidence

(* Engine.RecordDispute.                                                   *)
Dispute(obs) ==
  /\ rec' = RecordDispute(rec, obs)
  /\ ev' = NoEvidence
  /\ UNCHANGED top

(* Engine.Decay, which the aggregator's ticker runs on every address.      *)
RunDecay ==
  /\ rec' = Decay(rec)
  /\ ev' = NoEvidence
  /\ UNCHANGED top

(* A query is answered; without a record there is no evidence.             *)
Respond ==
  /\ rec.known
  /\ ev' = AggregateFromRecord(rec, top)
  /\ UNCHANGED <<rec, top>>

Tick ==
  /\ rec' = Aged(rec)
  /\ top' = IF Aged(rec).known THEN top ELSE 0
  /\ ev' = NoEvidence

Init == rec = NoRecord /\ top = 0 /\ ev \in Claims \cup {NoEvidence}

Next ==
  \/ \E obs \in Votes : Dispute(obs)
  \/ \E obs \in Reports : Report(obs)
  \/ RunDecay
  \/ Respond
  \/ Tick

Spec == Init /\ [][Next]_vars

(***************************************************************************)
(* Properties.                                                             *)
(***************************************************************************)

(* What a node that asks makes of a record whose gravest reason weighs t.  *)
Worth(r, t) == IF r.known THEN RecordFromEvidence(AggregateFromRecord(r, t)) ELSE 0

(* Whatever came off the wire buys no more than its evidence is worth:     *)
(* strangers alone stay within the asking node's cap; without weight it    *)
(* scores nothing; one more group or subnet never lowers the score and one *)
(* more dispute never raises it; counts beyond the fold limit and weights  *)
(* beyond 1.0 change nothing (RecordFromEvidence).                         *)
EvidenceIsBounded ==
  LET score == RecordFromEvidence(ev) IN
  /\ score \in 0..Full
  /\ ev.groups <= 0 => score <= StrangerCap
  /\ ev.weight <= 0 => score = 0
  /\ RecordFromEvidence([ev EXCEPT !.groups = @ + 1]) >= score
  /\ RecordFromEvidence([ev EXCEPT !.subnets = @ + 1]) >= score
  /\ RecordFromEvidence([ev EXCEPT !.disputeSubnets = @ + 1]) <= score
  /\ ev.groups >= MaxEvidenceFolds =>
       RecordFromEvidence([ev EXCEPT !.groups = MaxEvidenceFolds]) = score
  /\ ev.weight >= Unit => RecordFromEvidence([ev EXCEPT !.weight = Unit]) = score

(* The next report, whoever sends it and whatever the record holds,        *)
(* disputes included, never lowers what asking nodes make of the address   *)
(* (Accumulate, AggregateFromRecord, RecordFromEvidence).                  *)
ReportsCount ==
  \A obs \in Reports : Worth(Record(rec, obs), Graver(obs)) >= Worth(rec, top)

(* An address that only strangers ever reported to the aggregator scores,  *)
(* for any node that asks, at most that node's stranger cap                *)
(* (AggregateFromRecord, RecordFromEvidence).                              *)
StrangersStayCapped == rec.groups = {} => Worth(rec, top) <= StrangerCap

=============================================================================
