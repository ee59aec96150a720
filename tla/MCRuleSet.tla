----------------------------- MODULE MCRuleSet ------------------------------
(* Rule lists with one and with two windows, a list with rules to drop, one *)
(* with a negative window, an empty file (legacy mode), a damaged and a     *)
(* missing one.                                                             *)
EXTENDS RuleSet

R(n, w, a) == [minBurst |-> n, window |-> w, action |-> a]
MCVersions ==
    { << >>, Garbage, Missing,
      << R(2, 1, "block") >>,
      << R(3, 1, "block"), R(0, 0, "watch") >>,
      << R(2, 1, "unknown"), R(1, 0, "block"), R(2, 2, "ignore") >>,
      << R(1, -1, "ignore"), R(1, 1, "block") >>,
      << R(3, 1, "watch"), R(2, 2, "block"), R(2, 1, "ignore") >> }

=============================================================================
