---------------------------- MODULE AtomicStore ----------------------------
(***************************************************************************)
(* What the reputation store promises its callers: a map from addresses to *)
(* records.  A write takes effect at once, a read answers with the current *)
(* record or fails, and a record disappears when its time is up or the     *)
(* disk has lost it.  A start may leave records out of sight: reads of     *)
(* them find nothing until they are written again, come in sight by chance *)
(* or come back with the next start.                                       *)
(***************************************************************************)
CONSTANTS Keys, Records, None, Readers, NoAnswer, Failed

VARIABLES up, map, hidden, answer

Init ==
  /\ up = FALSE
  /\ map = [k \in Keys |-> None]
  /\ hidden = {}
  /\ answer = [r \in Readers |-> NoAnswer]

Start ==
  /\ ~up /\ up' = TRUE
  /\ hidden' \in SUBSET {k \in Keys : map[k] # None}
  /\ UNCHANGED <<map, answer>>

Write(k, rec) == map' = [map EXCEPT ![k] = rec]

(* A write in progress has taken effect or has not.                        *)
Stop ==
  /\ up /\ up' = FALSE
  /\ hidden' = {}
  /\ UNCHANGED map \/ \E k \in Keys, rec \in Records : Write(k, rec)
  /\ UNCHANGED answer

Put(k, rec) ==
  /\ up
  /\ Write(k, rec)
  /\ hidden' \in SUBSET hidden
  /\ UNCHANGED <<up, answer>>

Reveal ==
  /\ up
  /\ hidden' \in SUBSET hidden
  /\ UNCHANGED <<up, map, answer>>

Forget(k) ==
  /\ Write(k, None)
  /\ UNCHANGED <<up, hidden, answer>>

Get(r, k) ==
  /\ up
  /\ answer' = [answer EXCEPT ![r] = IF k \in hidden THEN None ELSE map[k]]
  /\ UNCHANGED <<up, map, hidden>>

Fail(r) ==
  /\ up
  /\ answer' = [answer EXCEPT ![r] = Failed]
  /\ UNCHANGED <<up, map, hidden>>

Next ==
  \/ Start \/ Stop \/ Reveal
  \/ \E k \in Keys :
       \/ \E rec \in Records : Put(k, rec)
       \/ Forget(k)
       \/ \E r \in Readers : Get(r, k) \/ Fail(r)

Spec == Init /\ [][Next]_<<up, map, hidden, answer>>

=============================================================================
