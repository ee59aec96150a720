------------------------------ MODULE RepStore ------------------------------
(***************************************************************************)
(* The reputation store (internal/store): BadgerDB behind an in-memory     *)
(* Bloom filter that lets a point read skip the database.                  *)
(*                                                                         *)
(* One goroutine writes: the node's event loop, through Engine.Record,     *)
(* RecordDispute and Decay, each a GetScore followed by a PutScore.  The   *)
(* API, the DNSBL and the reputation responder read beside it.  PutScore   *)
(* commits to the database and then adds to the filter; GetScore tests the *)
(* filter and then reads the database: a reader can come in between.       *)
(*                                                                         *)
(* A record is the set of reports folded into it.                          *)
(***************************************************************************)
EXTENDS Integers

CONSTANTS
  KeyCount,   \* addresses are 1..KeyCount, in the database's key order
  Reports,    \* reports and votes
  Readers     \* concurrent point reads

Keys == 1..KeyCount

ASSUME RepStoreAssumption == KeyCount \in Nat

NoKey == 0

(* What a key can hold, and what a read can answer.                        *)
Value(kind, reports) == [kind |-> kind, reports |-> reports]
Records == [kind : {"record"}, reports : SUBSET Reports]
None == Value("none", {})
Damaged == Value("damaged", {})
NoAnswer == Value("unasked", {})

VARIABLES
  open,     \* the store is open
  db,       \* BadgerDB
  bloom,    \* the addresses that test positive in the filter
  writer,   \* the event loop inside an Engine call
  reader,   \* each point read: the address it is about to read, or NoKey
  answer,   \* the last answer of each point read
  missed,   \* history: records behind the end of the warm-up scan, not in the filter
  acked     \* history: reports recorded without error and not gone since by expiry,
            \* damage or a write over a missed record

vars == <<open, db, bloom, writer, reader, answer, missed, acked>>

Resting == [pc |-> "idle", key |-> NoKey, rec |-> None, adds |-> {}]

TypeOK ==
  /\ open \in BOOLEAN
  /\ db \in [Keys -> Records \cup {None, Damaged}]
  /\ bloom \subseteq Keys
  /\ writer \in {Resting} \cup [pc : {"put", "add"}, key : Keys, rec : Records,
                                adds : SUBSET Reports]
  /\ reader \in [Readers -> Keys \cup {NoKey}]
  /\ answer \in [Readers -> Records \cup {None, Damaged, NoAnswer}]
  /\ missed \subseteq Keys
  /\ acked \in [Keys -> SUBSET Reports]

(***************************************************************************)
(* Opening.                                                                *)
(***************************************************************************)

(* ScanScores visits the records in key order up to the first it cannot    *)
(* read.                                                                   *)
ScanReaches(k) == \A j \in 1..k : db[j] # Damaged
Scanned == {k \in Keys : db[k] \in Records /\ ScanReaches(k)}

(* Mutant: the filter is not rebuilt.                                      *)
WarmedUpCold == {}

(* What the filter holds after Open: the scanned addresses; the error of   *)
(* an incomplete scan is ignored.                                          *)
WarmedUp == Scanned

Open ==
  /\ ~open
  /\ open' = TRUE
  /\ \E collisions \in SUBSET Keys : bloom' = WarmedUp \cup collisions
  /\ missed' = {k \in Keys : db[k] \in Records /\ ~ScanReaches(k)} \ bloom'
  /\ UNCHANGED <<db, writer, reader, answer, acked>>

(* The process ends, between any two steps.                                *)
Crash ==
  /\ open
  /\ open' = FALSE
  /\ bloom' = {}
  /\ writer' = Resting
  /\ reader' = [r \in Readers |-> NoKey]
  /\ missed' = {}
  /\ UNCHANGED <<db, answer, acked>>

(***************************************************************************)
(* GetScore.                                                               *)
(***************************************************************************)

(* What one undisturbed GetScore returns.                                  *)
GetScore(k) == IF k \in bloom THEN db[k] ELSE None

(* A reader tests the filter; negative is answered at once.                *)
ReaderTest(r, k) ==
  /\ open /\ reader[r] = NoKey
  /\ IF k \in bloom
       THEN reader' = [reader EXCEPT ![r] = k] /\ UNCHANGED answer
       ELSE answer' = [answer EXCEPT ![r] = None] /\ UNCHANGED reader
  /\ UNCHANGED <<open, db, bloom, writer, missed, acked>>

(* The reader then reads the database.                                     *)
ReaderRead(r) ==
  /\ open /\ reader[r] # NoKey
  /\ answer' = [answer EXCEPT ![r] = db[reader[r]]]
  /\ reader' = [reader EXCEPT ![r] = NoKey]
  /\ UNCHANGED <<open, db, bloom, writer, missed, acked>>

(***************************************************************************)
(* The engine's read-modify-write.                                         *)
(***************************************************************************)

(* Record, RecordDispute: GetScore and the fold; an error drops the event. *)
RecordGet(k, report) ==
  LET old == GetScore(k) IN
  /\ open /\ writer = Resting
  /\ old # Damaged
  /\ writer' = [ pc |-> "put", key |-> k, adds |-> {report},
                 rec |-> Value("record", old.reports \cup {report}) ]
  /\ UNCHANGED <<open, db, bloom, reader, answer, missed, acked>>

(* Decay, called by runDecay for the addresses of a scan that began        *)
(* earlier; one that is gone by now is passed over.                        *)
DecayGet(k) ==
  /\ open /\ writer = Resting
  /\ ScanReaches(k)
  /\ GetScore(k) \in Records
  /\ writer' = [pc |-> "put", key |-> k, adds |-> {}, rec |-> GetScore(k)]
  /\ UNCHANGED <<open, db, bloom, reader, answer, missed, acked>>

(* PutScore: the transaction commits, or fails and the error is returned.  *)
PutCommit ==
  /\ open /\ writer.pc = "put"
  /\ \/ /\ db' = [db EXCEPT ![writer.key] = writer.rec]
        /\ writer' = [writer EXCEPT !.pc = "add"]
        /\ acked' = [acked EXCEPT ![writer.key] = IF writer.key \in missed THEN {} ELSE @]
     \/ /\ writer' = Resting
        /\ UNCHANGED <<db, acked>>
  /\ UNCHANGED <<open, bloom, reader, answer, missed>>

(* Mutant: the filter is not told of the new address.                      *)
AddedNothing(k) == {bloom}

(* What bloom.Add may leave: the address, and others sharing its bits.     *)
Added(k) == {bloom \cup {k} \cup collisions : collisions \in SUBSET Keys}

(* PutScore returns, and with it the engine call.                          *)
PutAdd ==
  /\ open /\ writer.pc = "add"
  /\ bloom' \in Added(writer.key)
  /\ missed' = missed \ bloom'
  /\ acked' = [acked EXCEPT ![writer.key] = @ \cup writer.adds]
  /\ writer' = Resting
  /\ UNCHANGED <<open, db, reader, answer>>

(***************************************************************************)
(* Time and the disk.                                                      *)
(***************************************************************************)

(* A record's TTL is over.  The record of a put that is still returning    *)
(* has its whole TTL before it.                                            *)
Expire(k) ==
  /\ db[k] # None
  /\ ~(writer.pc = "add" /\ writer.key = k)
  /\ db' = [db EXCEPT ![k] = None]
  /\ acked' = [acked EXCEPT ![k] = {}]
  /\ UNCHANGED <<open, bloom, writer, reader, answer, missed>>

(* A stored value becomes unreadable while the store is closed.            *)
Damage(k) ==
  /\ ~open
  /\ db[k] \in Records
  /\ db' = [db EXCEPT ![k] = Damaged]
  /\ acked' = [acked EXCEPT ![k] = {}]
  /\ UNCHANGED <<open, bloom, writer, reader, answer, missed>>

Init ==
  /\ open = FALSE
  /\ db = [k \in Keys |-> None]
  /\ bloom = {}
  /\ writer = Resting
  /\ reader = [r \in Readers |-> NoKey]
  /\ answer = [r \in Readers |-> NoAnswer]
  /\ missed = {}
  /\ acked = [k \in Keys |-> {}]

Next ==
  \/ Open
  \/ Crash
  \/ \E r \in Readers : ReaderRead(r) \/ \E k \in Keys : ReaderTest(r, k)
  \/ \E k \in Keys : (\E report \in Reports : RecordGet(k, report)) \/ DecayGet(k)
  \/ PutCommit
  \/ PutAdd
  \/ \E k \in Keys : Expire(k) \/ Damage(k)

Spec == Init /\ [][Next]_vars

(***************************************************************************)
(* Properties.                                                             *)
(***************************************************************************)

(* A put has committed and not yet told the filter.                        *)
Adding(k) == writer.pc = "add" /\ writer.key = k

(* "MightContain returning false means the IP is definitely absent from    *)
(* BadgerDB", and a partial warm-up scan is "never a false negative": an   *)
(* address with a readable record tests positive, the put in progress      *)
(* aside (repBloom, Open, GetScore).  The code breaks this.                *)
NoFalseNegative ==
  \A k \in Keys : open /\ db[k] \in Records /\ ~Adding(k) => k \in bloom

(* What the code does keep: the filter misses no readable record but those *)
(* that sorted after an unreadable one when the store was opened, whatever *)
(* puts, crashes, reopenings and damage come together (Open, ScanScores,   *)
(* PutScore, repBloom).                                                    *)
OnlyUnscannedMissed ==
  \A k \in Keys : open /\ db[k] \in Records /\ ~Adding(k) => k \in bloom \cup missed

(* No report that was recorded without an error is lost while its record   *)
(* lives and is readable, whatever crashes, failed commits and decay runs  *)
(* come between, unless a later report wrote over a record that the        *)
(* warm-up scan had missed (Engine.Record over GetScore and PutScore).     *)
EvidenceKept ==
  \A k \in Keys : acked[k] # {} => db[k] \in Records /\ acked[k] \subseteq db[k].reports

(* The map behind the store: a new address is in it from PutScore's return *)
(* on, one that is in the filter already, or was missed, from the commit.  *)
Map ==
  [k \in Keys |-> IF (open /\ k \notin bloom \cup missed) \/ db[k] = Damaged
                     THEN None ELSE db[k]]

Promise == INSTANCE AtomicStore WITH up <- open, map <- Map, hidden <- missed,
                                     Failed <- Damaged

(* Callers cannot tell the filter, the two steps of PutScore or a crash    *)
(* between them from an atomic map that a start may hide records of        *)
(* (GetScore, PutScore, Open).                                             *)
ActsAtomically == Promise!Spec

=============================================================================
