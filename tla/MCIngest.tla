------------------------------ MODULE MCIngest ------------------------------
(***************************************************************************)
(* Ingest with two addresses, decisions or alerts, and three log lines.    *)
(***************************************************************************)
EXTENDS Ingest

MCPolled == [p \in Pollers |-> IF p = "mailcow" THEN 1..3 ELSE 1..2]

=============================================================================
