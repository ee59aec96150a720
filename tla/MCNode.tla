------------------------------- MODULE MCNode -------------------------------
(* Instances of Node for TLC.  100 score points are 4 units, 1.0 is 2      *)
(* units, a tick is one half-life.                                         *)
EXTENDS Node, TLC

CONSTANTS a, p1, alice, s1, s2, hit

MCRetained == [age \in 0..1 |-> IF age = 0 THEN 2 ELSE 1]
MCVouchedBy == [p \in Peers \cup {Self} |-> IF p = Self THEN NoPerson ELSE alice]
MCWeight == [r \in Reasons |-> 3]
MCRules == << [ reasons |-> Reasons, minScore |-> 1, minCorroboration |-> 0,
                anchoredOnly |-> FALSE, minBurst |-> 0, burstWindow |-> 0,
                action |-> "block" ] >>
MCSymmetry == Permutations({s1, s2})
MCBurstCounts == {<< >>}
MCVerdicts == {[score |-> 4, subnets |-> 2], [score |-> 0, subnets |-> 0]}

=============================================================================
