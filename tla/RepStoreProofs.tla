--------------------------- MODULE RepStoreProofs ---------------------------
(***************************************************************************)
(* The reputation store implements an atomic map and loses no evidence,    *)
(* for any number of addresses, reports and readers, up to the records     *)
(* that a damaged value hides from a warm-up scan.                         *)
(***************************************************************************)
EXTENDS RepStore, TLAPS

(* The writer's progress, the readers' filter tests and the records that   *)
(* the filter is known to miss.                                            *)
StoreInv ==
  /\ writer # Resting => open
  /\ writer.pc = "add" => db[writer.key] = writer.rec
  /\ \A r \in Readers : reader[r] # NoKey => open /\ reader[r] \in bloom
  /\ missed \cap bloom = {}
  /\ ~open => missed = {}

(* What the engine has read and not yet written back.                      *)
EvidenceInv ==
  /\ EvidenceKept
  /\ writer # Resting =>
       /\ writer.pc = "add" \/ writer.key \notin missed =>
            acked[writer.key] \subseteq writer.rec.reports
       /\ writer.adds \subseteq writer.rec.reports

IndInv == TypeOK /\ StoreInv /\ OnlyUnscannedMissed /\ EvidenceInv

(* The four kinds of value are different, and reading one is typed.        *)
LEMMA Values ==
  /\ None \notin Records /\ Damaged \notin Records /\ NoAnswer \notin Records
  /\ None # Damaged /\ NoKey \notin Keys
  /\ \A S \in SUBSET Reports : Value("record", S) \in Records
                               /\ Value("record", S).reports = S
  /\ None.reports = {}
  /\ \A v \in Records : v.reports \in SUBSET Reports
  BY RepStoreAssumption
     DEF None, Damaged, NoAnswer, NoKey, Keys, Value, Records

(* A writer that does not rest is in one of two places.                    *)
LEMMA WriterCases ==
  ASSUME TypeOK
  PROVE  /\ writer # Resting <=> writer.pc \in {"put", "add"}
         /\ writer # Resting => /\ writer.key \in Keys /\ writer.rec \in Records
                                /\ writer.adds \in SUBSET Reports
                                /\ writer \in [pc : {"put", "add"}, key : Keys,
                                               rec : Records, adds : SUBSET Reports]
  BY DEF TypeOK, Resting

(* Every step keeps the types.                                             *)
LEMMA TypeStep == TypeOK /\ [Next]_vars => TypeOK'
<1> SUFFICES ASSUME TypeOK, [Next]_vars PROVE TypeOK'
  OBVIOUS
<1> USE Values
<1>1. CASE Open
  BY <1>1 DEF Open, TypeOK, WarmedUp, Scanned
<1>2. CASE Crash
  BY <1>2 DEF Crash, TypeOK
<1>3. ASSUME NEW r \in Readers, NEW k \in Keys, ReaderTest(r, k)
      PROVE  TypeOK'
  BY <1>3 DEF ReaderTest, TypeOK
<1>4. ASSUME NEW r \in Readers, ReaderRead(r)
      PROVE  TypeOK'
  <2>1. reader[r] \in Keys
    BY <1>4 DEF ReaderRead, TypeOK
  <2>2. QED
    BY <1>4, <2>1 DEF ReaderRead, TypeOK
<1>5. ASSUME NEW k \in Keys, NEW report \in Reports, RecordGet(k, report)
      PROVE  TypeOK'
  <2>1. GetScore(k) \in Records \cup {None}
    BY <1>5 DEF RecordGet, GetScore, TypeOK
  <2>2. GetScore(k).reports \cup {report} \in SUBSET Reports
    BY <2>1
  <2>3. writer' \in [pc : {"put", "add"}, key : Keys, rec : Records, adds : SUBSET Reports]
    BY <1>5, <2>2 DEF RecordGet
  <2>4. QED
    BY <1>5, <2>3 DEF RecordGet, TypeOK
<1>6. ASSUME NEW k \in Keys, DecayGet(k)
      PROVE  TypeOK'
  <2>1. writer' \in [pc : {"put", "add"}, key : Keys, rec : Records, adds : SUBSET Reports]
    BY <1>6 DEF DecayGet
  <2>2. QED
    BY <1>6, <2>1 DEF DecayGet, TypeOK
<1>7. CASE PutCommit
  <2>1. writer \in [pc : {"put", "add"}, key : Keys, rec : Records, adds : SUBSET Reports]
    BY <1>7, WriterCases DEF PutCommit
  <2>2. writer' = Resting
        \/ writer' \in [pc : {"put", "add"}, key : Keys, rec : Records, adds : SUBSET Reports]
    BY <1>7, <2>1 DEF PutCommit
  <2>3. db' \in [Keys -> Records \cup {None, Damaged}]
    BY <1>7, <2>1 DEF PutCommit, TypeOK
  <2>4. acked' \in [Keys -> SUBSET Reports]
    BY <1>7, <2>1 DEF PutCommit, TypeOK
  <2>5. QED
    BY <1>7, <2>2, <2>3, <2>4 DEF PutCommit, TypeOK
<1>8. CASE PutAdd
  <2>1. writer.key \in Keys /\ writer.adds \in SUBSET Reports
    BY <1>8, WriterCases DEF PutAdd
  <2>2. bloom' \subseteq Keys
    BY <1>8, <2>1 DEF PutAdd, Added, TypeOK
  <2>3. acked' \in [Keys -> SUBSET Reports] /\ missed' \subseteq Keys
    BY <1>8, <2>1 DEF PutAdd, TypeOK
  <2>4. QED
    BY <1>8, <2>2, <2>3 DEF PutAdd, TypeOK
<1>9. ASSUME NEW k \in Keys, Expire(k)
      PROVE  TypeOK'
  BY <1>9 DEF Expire, TypeOK
<1>10. ASSUME NEW k \in Keys, Damage(k)
       PROVE  TypeOK'
  BY <1>10 DEF Damage, TypeOK
<1>11. CASE UNCHANGED vars
  BY <1>11 DEF vars, TypeOK
<1>12. QED
  BY <1>1, <1>2, <1>3, <1>4, <1>5, <1>6, <1>7, <1>8, <1>9, <1>10, <1>11 DEF Next

(* Every step keeps the store invariant, the filter complete but for the   *)
(* missed records, and the evidence in place.                              *)
LEMMA InvStep == IndInv /\ [Next]_vars => IndInv'
<1> SUFFICES ASSUME IndInv, [Next]_vars PROVE IndInv'
  OBVIOUS
<1>0. TypeOK'
  BY TypeStep DEF IndInv
<1> USE Values
<1>1. CASE Open
  <2>1. writer = Resting /\ \A r \in Readers : reader[r] = NoKey
    BY <1>1 DEF Open, IndInv, StoreInv
  <2>2. OnlyUnscannedMissed'
    BY <1>1 DEF Open, WarmedUp, Scanned, OnlyUnscannedMissed
  <2>3. missed' \cap bloom' = {}
    BY <1>1 DEF Open
  <2>4. StoreInv' /\ EvidenceInv'
    BY <1>1, <2>1, <2>3 DEF Open, IndInv, StoreInv, EvidenceInv, EvidenceKept, Resting
  <2>5. QED
    BY <1>0, <2>2, <2>4 DEF IndInv
<1>2. CASE Crash
  BY <1>0, <1>2 DEF Crash, IndInv, StoreInv, OnlyUnscannedMissed, EvidenceInv, EvidenceKept,
                    Resting
<1>3. ASSUME NEW r \in Readers, NEW k \in Keys, ReaderTest(r, k)
      PROVE  IndInv'
  <2>1. StoreInv'
    BY <1>3 DEF ReaderTest, IndInv, StoreInv, TypeOK
  <2>2. QED
    BY <1>0, <1>3, <2>1
       DEF ReaderTest, IndInv, OnlyUnscannedMissed, Adding, EvidenceInv, EvidenceKept
<1>4. ASSUME NEW r \in Readers, ReaderRead(r)
      PROVE  IndInv'
  <2>1. StoreInv'
    BY <1>4 DEF ReaderRead, IndInv, StoreInv, TypeOK
  <2>2. QED
    BY <1>0, <1>4, <2>1
       DEF ReaderRead, IndInv, OnlyUnscannedMissed, Adding, EvidenceInv, EvidenceKept
<1>5. ASSUME NEW k \in Keys, NEW report \in Reports, RecordGet(k, report)
      PROVE  IndInv'
  <2>1. k \notin missed => acked[k] \subseteq GetScore(k).reports
    <3>1. acked[k] # {} => db[k] \in Records /\ acked[k] \subseteq db[k].reports
      BY DEF IndInv, EvidenceInv, EvidenceKept
    <3>2. db[k] \in Records => k \in bloom \cup missed
      BY <1>5 DEF RecordGet, IndInv, OnlyUnscannedMissed, Adding, Resting
    <3>3. QED
      BY <3>1, <3>2 DEF GetScore
  <2>2. GetScore(k).reports \cup {report} \in SUBSET Reports
    <3>1. GetScore(k) \in Records \cup {None}
      BY <1>5 DEF RecordGet, GetScore, IndInv, TypeOK
    <3>2. QED
      BY <3>1
  <2>3. /\ writer'.pc = "put" /\ writer'.key = k /\ writer'.adds = {report}
        /\ writer'.rec.reports = GetScore(k).reports \cup {report}
        /\ open /\ open' = open /\ bloom' = bloom /\ db' = db /\ reader' = reader
        /\ missed' = missed /\ acked' = acked
    BY <1>5, <2>2 DEF RecordGet
  <2>4. EvidenceInv'
    BY <2>1, <2>3 DEF IndInv, EvidenceInv, EvidenceKept
  <2>5. StoreInv' /\ OnlyUnscannedMissed'
    BY <1>5, <2>3 DEF RecordGet, IndInv, StoreInv, OnlyUnscannedMissed, Adding, Resting
  <2>6. QED
    BY <1>0, <2>4, <2>5 DEF IndInv
<1>6. ASSUME NEW k \in Keys, DecayGet(k)
      PROVE  IndInv'
  <2>1. k \in bloom /\ GetScore(k) = db[k] /\ GetScore(k) \in Records
    BY <1>6 DEF DecayGet, GetScore
  <2>2. acked[k] \subseteq db[k].reports
    BY DEF IndInv, EvidenceInv, EvidenceKept
  <2>3. /\ writer'.pc = "put" /\ writer'.key = k /\ writer'.adds = {}
        /\ writer'.rec = db[k]
        /\ open /\ open' = open /\ bloom' = bloom /\ db' = db /\ reader' = reader
        /\ missed' = missed /\ acked' = acked
    BY <1>6, <2>1 DEF DecayGet
  <2>4. EvidenceInv'
    BY <2>2, <2>3 DEF IndInv, EvidenceInv, EvidenceKept
  <2>5. StoreInv' /\ OnlyUnscannedMissed'
    BY <1>6, <2>3 DEF DecayGet, IndInv, StoreInv, OnlyUnscannedMissed, Adding, Resting
  <2>6. QED
    BY <1>0, <2>4, <2>5 DEF IndInv
<1>7. CASE PutCommit
  <2> DEFINE key == writer.key
  <2>1. key \in Keys /\ writer.rec \in Records /\ writer # Resting
        /\ writer.pc = "put" /\ writer.adds \in SUBSET Reports
        /\ writer \in [pc : {"put", "add"}, key : Keys, rec : Records, adds : SUBSET Reports]
    BY <1>7, WriterCases DEF PutCommit, IndInv
  <2>2. CASE writer' = Resting /\ UNCHANGED <<db, acked>>
    BY <1>0, <1>7, <2>2
       DEF PutCommit, IndInv, StoreInv, OnlyUnscannedMissed, Adding, EvidenceInv,
           EvidenceKept, Resting
  <2>3. CASE /\ db' = [db EXCEPT ![writer.key] = writer.rec]
             /\ writer' = [writer EXCEPT !.pc = "add"]
             /\ acked' = [acked EXCEPT ![writer.key] = IF writer.key \in missed THEN {} ELSE @]
    <3>1. writer'.pc = "add" /\ writer'.key = key /\ writer'.rec = writer.rec
          /\ writer'.adds = writer.adds
      BY <2>1, <2>3
    <3>2. db'[key] = writer.rec /\ \A k \in Keys : k # key => db'[k] = db[k]
      BY <2>1, <2>3 DEF IndInv, TypeOK
    <3>3. open /\ open' = open /\ bloom' = bloom /\ reader' = reader /\ missed' = missed
      BY <1>7 DEF PutCommit
    <3>4. StoreInv'
      BY <2>1, <3>1, <3>2, <3>3 DEF IndInv, StoreInv
    <3>5. OnlyUnscannedMissed'
      BY <2>1, <3>1, <3>2, <3>3 DEF IndInv, OnlyUnscannedMissed, Adding
    <3>6. /\ acked'[key] = IF key \in missed THEN {} ELSE acked[key]
          /\ \A k \in Keys : k # key => acked'[k] = acked[k]
      BY <2>1, <2>3 DEF IndInv, TypeOK
    <3>7. acked'[key] \subseteq writer.rec.reports /\ writer.adds \subseteq writer.rec.reports
      BY <2>1, <3>6 DEF IndInv, EvidenceInv
    <3>8. EvidenceInv'
      BY <2>1, <3>1, <3>2, <3>3, <3>6, <3>7 DEF IndInv, EvidenceInv, EvidenceKept
    <3>9. QED
      BY <1>0, <3>4, <3>5, <3>8 DEF IndInv
  <2>4. QED
    BY <1>7, <2>2, <2>3 DEF PutCommit
<1>8. CASE PutAdd
  <2> DEFINE key == writer.key
  <2>1. key \in Keys /\ writer # Resting /\ writer.rec \in Records
    BY <1>8, WriterCases DEF PutAdd, IndInv
  <2>2. bloom \cup {key} \subseteq bloom' /\ missed' = missed \ bloom'
    BY <1>8 DEF PutAdd, Added
  <2>3. acked' = [acked EXCEPT ![key] = acked[key] \cup writer.adds]
        /\ writer' = Resting /\ open /\ open' = open /\ db' = db /\ reader' = reader
    BY <1>8 DEF PutAdd
  <2>4. db[key] = writer.rec
    BY <1>8 DEF PutAdd, IndInv, StoreInv
  <2>5. StoreInv'
    BY <2>2, <2>3 DEF IndInv, StoreInv, Resting
  <2>6. OnlyUnscannedMissed'
    BY <2>2, <2>3 DEF IndInv, OnlyUnscannedMissed, Adding, Resting
  <2>7. acked[key] \cup writer.adds \subseteq writer.rec.reports
    BY <1>8, <2>1 DEF PutAdd, IndInv, EvidenceInv
  <2>8. EvidenceInv'
    BY <2>1, <2>3, <2>4, <2>7 DEF IndInv, EvidenceInv, EvidenceKept, TypeOK
  <2>9. QED
    BY <1>0, <2>5, <2>6, <2>8 DEF IndInv
<1>9. ASSUME NEW k \in Keys, Expire(k) \/ Damage(k)
      PROVE  IndInv'
  <2>1. /\ db' = [db EXCEPT ![k] = None] \/ db' = [db EXCEPT ![k] = Damaged]
        /\ acked' = [acked EXCEPT ![k] = {}]
        /\ UNCHANGED <<open, bloom, writer, reader, missed>>
        /\ ~(writer.pc = "add" /\ writer.key = k)
    <3>1. CASE Expire(k)
      BY <3>1 DEF Expire
    <3>2. CASE Damage(k)
      <4>1. writer.pc # "add"
        BY <3>2 DEF Damage, IndInv, StoreInv, Resting
      <4>2. QED
        BY <3>2, <4>1 DEF Damage
    <3>3. QED
      BY <1>9, <3>1, <3>2
  <2>2. db'[k] \notin Records /\ \A j \in Keys : j # k => db'[j] = db[j]
    BY <2>1 DEF IndInv, TypeOK
  <2>3. acked'[k] = {} /\ \A j \in Keys : j # k => acked'[j] = acked[j]
    BY <2>1 DEF IndInv, TypeOK
  <2>4. StoreInv'
    BY <2>1, <2>2, WriterCases DEF IndInv, StoreInv
  <2>5. OnlyUnscannedMissed'
    BY <2>1, <2>2 DEF IndInv, OnlyUnscannedMissed, Adding
  <2>6. EvidenceInv'
    BY <2>1, <2>2, <2>3, WriterCases DEF IndInv, EvidenceInv, EvidenceKept
  <2>7. QED
    BY <1>0, <2>4, <2>5, <2>6 DEF IndInv
<1>10. CASE UNCHANGED vars
  BY <1>0, <1>10
     DEF vars, IndInv, StoreInv, OnlyUnscannedMissed, Adding, EvidenceInv, EvidenceKept
<1>11. QED
  BY <1>1, <1>2, <1>3, <1>4, <1>5, <1>6, <1>7, <1>8, <1>9, <1>10 DEF Next

(* The invariant holds in every reachable state.                           *)
LEMMA Invariant == Spec => []IndInv
<1>1. Init => IndInv
  <2> SUFFICES ASSUME Init PROVE IndInv
    OBVIOUS
  <2>1. TypeOK
    BY DEF Init, TypeOK
  <2>2. StoreInv
    BY Values DEF Init, StoreInv, Resting
  <2>3. OnlyUnscannedMissed
    BY DEF Init, OnlyUnscannedMissed
  <2>4. EvidenceInv
    BY DEF Init, EvidenceInv, EvidenceKept
  <2>5. QED
    BY <2>1, <2>2, <2>3, <2>4 DEF IndInv
<1>2. QED
  BY <1>1, InvStep, PTL DEF Spec

(* The filter hides a readable record only if it sorted after an           *)
(* unreadable one when the store was opened (Open, PutScore, repBloom).    *)
THEOREM FilterMissesOnlyUnscanned == Spec => []OnlyUnscannedMissed
<1>1. IndInv => OnlyUnscannedMissed
  BY DEF IndInv
<1>2. QED
  BY <1>1, Invariant, PTL

(* Recorded evidence survives crashes, failed commits and decay runs, and  *)
(* is lost otherwise only where a later report is written over a record    *)
(* the warm-up scan has missed (Engine.Record, GetScore, PutScore).        *)
THEOREM EvidenceIsKept == Spec => []EvidenceKept
<1>1. IndInv => EvidenceKept
  BY DEF IndInv, EvidenceInv
<1>2. QED
  BY <1>1, Invariant, PTL

(***************************************************************************)
(* Refinement.                                                             *)
(***************************************************************************)

(* One key changes in the map, to v, and the others stay.                  *)
LEMMA OneKey ==
  ASSUME NEW k \in Keys, NEW v, Map'[k] = v, \A j \in Keys : j # k => Map'[j] = Map[j]
  PROVE  Map' = [Map EXCEPT ![k] = v]
  BY DEF Map

(* Nothing changes in the map.                                             *)
LEMMA SameMap ==
  ASSUME \A j \in Keys : Map'[j] = Map[j]
  PROVE  Map' = Map
  BY DEF Map

(* The map, key by key.                                                    *)
LEMMA MapAt ==
  ASSUME NEW k \in Keys
  PROVE  /\ Map[k] = IF (open /\ k \notin bloom \cup missed) \/ db[k] = Damaged
                       THEN None ELSE db[k]
         /\ Map'[k] = IF (open' /\ k \notin bloom' \cup missed') \/ db'[k] = Damaged
                        THEN None ELSE db'[k]
  BY DEF Map

(* Every step of the store is a step of the atomic map or leaves it alone. *)
LEMMA PromiseStep ==
  IndInv /\ IndInv' /\ [Next]_vars => [Promise!Next]_<<open, Map, missed, answer>>
<1> SUFFICES ASSUME IndInv, IndInv', [Next]_vars
             PROVE  Promise!Next \/ UNCHANGED <<open, Map, missed, answer>>
  OBVIOUS
<1> USE Values
<1>1. CASE Open
  <2>1. \A j \in Keys : Map'[j] = Map[j]
    BY <1>1, MapAt DEF Open, IndInv, OnlyUnscannedMissed, Adding, TypeOK, StoreInv, Resting
  <2>2. Map' = Map
    BY <2>1, SameMap
  <2>3. missed' \in SUBSET {k \in Keys : Map[k] # None}
    BY <1>1, MapAt DEF Open
  <2>4. Promise!Start
    BY <1>1, <2>2, <2>3 DEF Open, Promise!Start
  <2>5. QED
    BY <2>4 DEF Promise!Next
<1>2. CASE Crash
  <2>1. \A j \in Keys : db[j] \notin Records \/ j \in bloom \cup missed \/ Adding(j)
    BY <1>2 DEF Crash, IndInv, OnlyUnscannedMissed
  <2>2. CASE writer.pc = "add" /\ writer.key \notin bloom \cup missed
    <3> DEFINE k == writer.key
    <3>1. k \in Keys /\ db[k] \in Records
      BY <2>2, WriterCases DEF IndInv, StoreInv
    <3>2. Map'[k] = db[k]
      BY <1>2, <3>1, MapAt DEF Crash
    <3>3. \A j \in Keys : j # k => Map'[j] = Map[j]
      BY <1>2, <2>1, MapAt DEF Crash, Adding, IndInv, TypeOK
    <3>4. Promise!Write(k, db[k])
      BY <3>1, <3>2, <3>3, OneKey DEF Promise!Write
    <3>5. Promise!Stop
      BY <1>2, <3>1, <3>4 DEF Promise!Stop, Crash
    <3>6. QED
      BY <3>5 DEF Promise!Next
  <2>3. CASE ~(writer.pc = "add" /\ writer.key \notin bloom \cup missed)
    <3>1. \A j \in Keys : Map'[j] = Map[j]
      BY <1>2, <2>1, <2>3, MapAt DEF Crash, Adding, IndInv, TypeOK
    <3>2. Promise!Stop
      BY <1>2, <3>1, SameMap DEF Promise!Stop, Crash
    <3>3. QED
      BY <3>2 DEF Promise!Next
  <2>4. QED
    BY <2>2, <2>3
<1>3. ASSUME NEW r \in Readers, NEW k \in Keys, ReaderTest(r, k)
      PROVE  Promise!Next \/ UNCHANGED <<open, Map, missed, answer>>
  <2>1. Map' = Map
    BY <1>3 DEF ReaderTest, Map
  <2>2. CASE k \in bloom
    BY <1>3, <2>1, <2>2 DEF ReaderTest
  <2>3. CASE k \notin bloom
    <3>1. k \notin missed => Map[k] = None
      BY <1>3, <2>3, MapAt DEF ReaderTest
    <3>2. Promise!Get(r, k)
      BY <1>3, <2>1, <2>3, <3>1 DEF ReaderTest, Promise!Get
    <3>3. QED
      BY <3>2 DEF Promise!Next
  <2>4. QED
    BY <2>2, <2>3
<1>4. ASSUME NEW r \in Readers, ReaderRead(r)
      PROVE  Promise!Next
  <2> DEFINE k == reader[r]
  <2>1. k \in Keys /\ k \in bloom /\ k \notin missed
    BY <1>4 DEF ReaderRead, IndInv, StoreInv, TypeOK
  <2>2. Map' = Map /\ answer' = [answer EXCEPT ![r] = db[k]]
        /\ open /\ UNCHANGED <<open, missed>>
    BY <1>4 DEF ReaderRead, Map
  <2>3. CASE db[k] = Damaged
    <3>1. Promise!Fail(r)
      BY <2>2, <2>3 DEF Promise!Fail
    <3>2. QED
      BY <2>1, <3>1 DEF Promise!Next
  <2>4. CASE db[k] # Damaged
    <3>1. Map[k] = db[k]
      BY <2>1, <2>4, MapAt
    <3>2. Promise!Get(r, k)
      BY <2>1, <2>2, <3>1 DEF Promise!Get
    <3>3. QED
      BY <2>1, <3>2 DEF Promise!Next
  <2>5. QED
    BY <2>3, <2>4
<1>5. ASSUME NEW k \in Keys, (\E report \in Reports : RecordGet(k, report)) \/ DecayGet(k)
      PROVE  UNCHANGED <<open, Map, missed, answer>>
  <2>1. UNCHANGED <<open, db, bloom, missed, answer>>
    BY <1>5 DEF RecordGet, DecayGet
  <2>2. QED
    BY <2>1 DEF Map
<1>6. CASE PutCommit
  <2> DEFINE k == writer.key
  <2>1. k \in Keys /\ writer.rec \in Records
    BY <1>6, WriterCases DEF PutCommit, IndInv
  <2>2. CASE UNCHANGED db
    BY <1>6, <2>2 DEF PutCommit, Map
  <2>3. CASE db' = [db EXCEPT ![writer.key] = writer.rec]
    <3>1. db'[k] = writer.rec /\ \A j \in Keys : j # k => db'[j] = db[j]
      BY <2>1, <2>3 DEF IndInv, TypeOK
    <3>2. \A j \in Keys : j # k => Map'[j] = Map[j]
      BY <1>6, <3>1, MapAt DEF PutCommit
    <3>3. CASE k \in bloom \cup missed
      <4>1. Map'[k] = writer.rec
        BY <1>6, <2>1, <3>1, <3>3, MapAt DEF PutCommit
      <4>2. Promise!Write(k, writer.rec)
        BY <2>1, <3>2, <4>1, OneKey DEF Promise!Write
      <4>3. Promise!Put(k, writer.rec)
        BY <1>6, <4>2 DEF Promise!Put, PutCommit
      <4>4. QED
        BY <2>1, <4>3 DEF Promise!Next
    <3>4. CASE k \notin bloom \cup missed
      <4>1. Map'[k] = Map[k]
        BY <1>6, <2>1, <3>4, MapAt DEF PutCommit
      <4>2. QED
        BY <1>6, <3>2, <4>1, SameMap DEF PutCommit
    <3>5. QED
      BY <3>3, <3>4
  <2>4. QED
    BY <1>6, <2>2, <2>3 DEF PutCommit
<1>7. CASE PutAdd
  <2> DEFINE k == writer.key
  <2>1. k \in Keys /\ writer.rec \in Records /\ db[k] = writer.rec
    BY <1>7, WriterCases DEF PutAdd, IndInv, StoreInv
  <2>2. k \in bloom' /\ bloom \subseteq bloom' /\ missed' = missed \ bloom'
        /\ open /\ open' = open /\ db' = db /\ answer' = answer
    BY <1>7 DEF PutAdd, Added
  <2>3. \A j \in Keys : j # k /\ db[j] \in Records => j \in bloom \cup missed
    BY <1>7, <2>2 DEF IndInv, OnlyUnscannedMissed, Adding
  <2>4. \A j \in Keys : j # k => Map'[j] = Map[j]
    BY <2>2, <2>3, MapAt DEF IndInv, TypeOK
  <2>5. Map'[k] = writer.rec
    BY <2>1, <2>2, MapAt
  <2>6. Promise!Write(k, writer.rec)
    BY <2>1, <2>4, <2>5, OneKey DEF Promise!Write
  <2>7. Promise!Put(k, writer.rec)
    BY <2>2, <2>6 DEF Promise!Put
  <2>8. QED
    BY <2>1, <2>7 DEF Promise!Next
<1>8. ASSUME NEW k \in Keys, Expire(k) \/ Damage(k)
      PROVE  Promise!Next
  <2>1. /\ db' = [db EXCEPT ![k] = None] \/ db' = [db EXCEPT ![k] = Damaged]
        /\ UNCHANGED <<open, bloom, missed, answer>>
    BY <1>8 DEF Expire, Damage
  <2>2. db'[k] \in {None, Damaged} /\ \A j \in Keys : j # k => db'[j] = db[j]
    BY <2>1 DEF IndInv, TypeOK
  <2>3. Map'[k] = None /\ \A j \in Keys : j # k => Map'[j] = Map[j]
    BY <2>1, <2>2, MapAt
  <2>4. Promise!Forget(k)
    BY <2>1, <2>3, OneKey DEF Promise!Forget, Promise!Write
  <2>5. QED
    BY <2>4 DEF Promise!Next
<1>9. CASE UNCHANGED vars
  BY <1>9 DEF vars, Map
<1>10. QED
  BY <1>1, <1>2, <1>3, <1>4, <1>5, <1>6, <1>7, <1>8, <1>9 DEF Next

(* To its callers the store is an atomic map that a start may hide records *)
(* of: neither the filter nor the two steps of PutScore nor a crash        *)
(* between them can be observed (GetScore, PutScore, Open).                *)
THEOREM StoreIsAtomic == Spec => ActsAtomically
<1>1. Init => Promise!Init
  BY Values DEF Init, Promise!Init, Map
<1>2. QED
  BY <1>1, PromiseStep, Invariant, PTL DEF Spec, ActsAtomically, Promise!Spec

=============================================================================
