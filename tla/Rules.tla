------------------------------- MODULE Rules -------------------------------
(***************************************************************************)
(* internal/rules, the decision: which action a reported address earns,    *)
(* given its reputation record and its recent burst counts.  Pure.         *)
(***************************************************************************)
EXTENDS Scoring, Sequences

CONSTANTS
  Reasons,     \* reason codes of events
  RuleList,    \* the loaded rules, in file order; empty in legacy mode
  Fallback     \* reputation.block_threshold, used in legacy mode

Actions == {"block", "watch", "ignore", "none"}

(* A rule.  The reason pattern is the set of reasons it matches; where a   *)
(* minimum is zero or less the rule sets no such condition.                *)
Rule ==
  [ reasons : SUBSET Reasons, minScore : Int, minCorroboration : Int,
    anchoredOnly : BOOLEAN, minBurst : Int, burstWindow : Int,
    action : {"block", "watch", "ignore"} ]

ASSUME RulesAssumption ==
  /\ RuleList \in Seq(Rule)
  /\ Fallback \in Nat
  /\ \A i \in DOMAIN RuleList : RuleList[i].minBurst > 0 => RuleList[i].burstWindow # 0

(* Every condition the rule sets holds; burst[w] events fell in window w.  *)
Matches(rule, reason, rec, burst) ==
  /\ reason \in rule.reasons
  /\ rule.minScore > 0 => rec.score >= rule.minScore
  /\ rule.minCorroboration > 0 => Cardinality(rec.groups) >= rule.minCorroboration
  /\ rule.anchoredOnly => ~rec.strangerSeen
  /\ rule.minBurst > 0 => burst[rule.burstWindow] >= rule.minBurst

(* The first matching rule decides.                                        *)
FirstMatch(reason, rec, burst, action) ==
  \E i \in DOMAIN RuleList :
    /\ Matches(RuleList[i], reason, rec, burst)
    /\ \A j \in 1..(i - 1) : ~Matches(RuleList[j], reason, rec, burst)
    /\ action = RuleList[i].action

(* RuleSet.Evaluate.                                                       *)
Evaluate(reason, rec, burst) ==
  IF RuleList = << >>
    THEN IF rec.score >= Fallback THEN "block" ELSE "none"
    ELSE IF \E a \in Actions : FirstMatch(reason, rec, burst, a)
           THEN CHOOSE a \in Actions : FirstMatch(reason, rec, burst, a)
           ELSE "none"

=============================================================================
