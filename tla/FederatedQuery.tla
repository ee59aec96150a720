--------------------------- MODULE FederatedQuery ---------------------------
(***************************************************************************)
(* Both sides of a federated query (internal/repquery): the node that asks *)
(* (Querier) and an aggregator that answers from its record (Aggregator).  *)
(* They share nothing but the answer on the wire, and each takes the other *)
(* for any: the querier collects any verdict from any aggregator, and the  *)
(* aggregator is asked at any time.  So a behaviour follows one side.      *)
(***************************************************************************)
EXTENDS Querier, Aggregator

VARIABLE side   \* "asks" or "answers"

sideVars == <<side, querierVars, vars>>

SideInit ==
  /\ side \in {"asks", "answers"}
  /\ QuerierInit
  /\ Init /\ (side = "asks" => ev = NoEvidence)

SideNext ==
  \/ side = "asks" /\ QuerierNext /\ UNCHANGED <<side, vars>>
  \/ side = "answers" /\ Next /\ UNCHANGED <<side, querierVars>>

SideSpec == SideInit /\ [][SideNext]_sideVars /\ QuerierFairness

=============================================================================
