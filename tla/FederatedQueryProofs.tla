----------------------- MODULE FederatedQueryProofs -------------------------
(***************************************************************************)
(* The two sides of a federated query, for any number of callers,          *)
(* addresses, aggregators and answers.  Of Querier: the cache limit, the   *)
(* age of answers and the best answer.  Of Aggregator: what an answer is   *)
(* worth to the node that asks, for any record, claim, weight, discount    *)
(* and fold limit.                                                         *)
(***************************************************************************)
EXTENDS Querier, Aggregator, FiniteSetTheorems, WellFoundedInduction, TLAPS

-----------------------------------------------------------------------------
(* The querier *)

(***************************************************************************)
(* Types.                                                                  *)
(***************************************************************************)

(* The constant records are of their types.                                *)
LEMMA QuerierConstants ==
  /\ NoAnswer \in Answer
  /\ NoEntry \in Entry
  /\ NoFlight \in Flight
  /\ Asked \in Flight
<1>1. NoAnswer \in Answer
  BY DEF NoAnswer, Answer, Verdict
<1>2. NoEntry \in Entry
  BY <1>1, QuerierAssumption DEF NoEntry, Entry
<1>3. NoFlight \in Flight
  BY <1>1, QuerierAssumption DEF NoFlight, Flight
<1>4. Asked \in Flight
  BY <1>1, QuerierAssumption DEF Asked, Flight
<1> QED BY <1>1, <1>2, <1>3, <1>4

(* Ageing keeps an answer an answer and an entry an entry.                 *)
LEMMA AgeingTypes ==
  /\ \A answer \in Answer : Older(answer) \in Answer
  /\ \A entry \in Entry : EntryAged(entry) \in Entry
<1>1. \A answer \in Answer : Older(answer) \in Answer
  BY DEF Older, Answer
<1>2. ASSUME NEW entry \in Entry PROVE EntryAged(entry) \in Entry
  <2>1. entry.answer \in Answer /\ entry.age \in 0..CacheTTL
    BY DEF Entry
  <2>2. Older(entry.answer) \in Answer
    BY <1>1, <2>1
  <2>3. CASE entry.set /\ entry.age < CacheTTL
    <3>1. entry.age + 1 \in 0..CacheTTL
      BY <2>1, <2>3, QuerierAssumption
    <3>2. [entry EXCEPT !.age = @ + 1, !.answer = Older(@)] \in Entry
      BY <2>2, <3>1 DEF Entry
    <3> QED BY <2>3, <3>2 DEF EntryAged
  <2>4. CASE ~(entry.set /\ entry.age < CacheTTL)
    BY <2>4 DEF EntryAged
  <2> QED BY <2>3, <2>4
<1> QED BY <1>1, <1>2

(* An answer merged with an aggregator's verdict is an answer.             *)
LEMMA MergedType ==
  ASSUME NEW best \in Answer, NEW verdict \in Verdict
  PROVE  Merged(best, verdict) \in Answer
BY DEF Merged, Answer

LEMMA TypePreserved == QuerierTypeOK /\ [QuerierNext]_querierVars => QuerierTypeOK'
<1> SUFFICES ASSUME QuerierTypeOK, [QuerierNext]_querierVars PROVE QuerierTypeOK'
  OBVIOUS
<1>1. ASSUME NEW c \in Callers, QueryDo(c) PROVE QuerierTypeOK'
  <2>1. caller[c] \in [pc : {"missed", "waiting"}, ip : IPs]
    BY <1>1 DEF QuerierTypeOK, QueryDo, Idle
  <2>2. At("waiting", caller[c].ip) \in [pc : {"missed", "waiting"}, ip : IPs]
    BY <2>1 DEF At
  <2>3. flight' \in [IPs -> Flight]
    BY <1>1, QuerierConstants DEF QuerierTypeOK, QueryDo
  <2> QED BY <1>1, <2>2, <2>3 DEF QuerierTypeOK, QueryDo
<1>2. ASSUME NEW c \in Callers, NEW ip \in IPs, QueryMiss(c, ip) PROVE QuerierTypeOK'
  <2>1. At("missed", ip) \in [pc : {"missed", "waiting"}, ip : IPs]
    BY DEF At
  <2> QED BY <1>2, <2>1 DEF QuerierTypeOK, QueryMiss
<1>3. ASSUME NEW ip \in IPs, NEW a \in Aggregators, AskFails(ip, a) PROVE QuerierTypeOK'
  BY <1>3 DEF QuerierTypeOK, AskFails, Flight
<1>4. ASSUME NEW ip \in IPs, NEW a \in Aggregators, NEW v \in Verdicts, Collect(ip, a, v)
      PROVE  QuerierTypeOK'
  <2>1. v \in Verdict
    BY QuerierAssumption
  <2>2. flight[ip] \in Flight /\ flight[ip].best \in Answer
    BY DEF QuerierTypeOK, Flight
  <2>3. Merged(flight[ip].best, v) \in Answer
    BY <2>1, <2>2, MergedType
  <2>4. [ flight[ip] EXCEPT !.pending = @ \ {a}, !.best = Merged(@, v),
                            !.heard = @ \cup {v} ] \in Flight
    BY <2>1, <2>2, <2>3 DEF Flight
  <2>5. flight' \in [IPs -> Flight]
    BY <1>4, <2>4 DEF QuerierTypeOK, Collect
  <2> QED BY <1>4, <2>5 DEF QuerierTypeOK, Collect
<1>5. ASSUME NEW ip \in IPs, FlightStore(ip) PROVE QuerierTypeOK'
  <2>1. flight[ip].best \in Answer
    BY DEF QuerierTypeOK, Flight
  <2>2. [set |-> TRUE, answer |-> flight[ip].best, age |-> 0] \in Entry
    BY <2>1, QuerierAssumption DEF Entry
  <2>3. cache' \in [IPs -> Entry]
    BY <1>5, <2>2, QuerierConstants DEF QuerierTypeOK, FlightStore
  <2>4. flight' \in [IPs -> Flight]
    <3>1. [flight[ip] EXCEPT !.pc = "stored"] \in Flight
      BY DEF QuerierTypeOK, Flight
    <3> QED BY <1>5, <3>1 DEF QuerierTypeOK, FlightStore
  <2> QED BY <1>5, <2>3, <2>4 DEF QuerierTypeOK, FlightStore
<1>6. ASSUME NEW ip \in IPs, FlightDone(ip) PROVE QuerierTypeOK'
  BY <1>6, QuerierConstants DEF QuerierTypeOK, FlightDone
<1>7. CASE TimePasses
  <2>1. cache' \in [IPs -> Entry]
    BY <1>7, AgeingTypes DEF QuerierTypeOK, TimePasses
  <2>2. ASSUME NEW ip \in IPs, flight[ip].pc # "none"
        PROVE  [flight[ip] EXCEPT !.left = @ - 1, !.best = Older(@)] \in Flight
    <3>1. flight[ip] \in Flight /\ flight[ip].left - 1 \in 0..Timeout
      <4>1. flight[ip] \in Flight
        BY DEF QuerierTypeOK
      <4>2. flight[ip].left \in 0..Timeout
        BY <4>1 DEF Flight
      <4>3. flight[ip].left > 0
        BY <1>7, <2>2 DEF TimePasses
      <4> QED BY <4>1, <4>2, <4>3, QuerierAssumption
    <3>2. Older(flight[ip].best) \in Answer
      BY <3>1, AgeingTypes DEF Flight
    <3> QED BY <3>1, <3>2 DEF Flight
  <2>3. flight' \in [IPs -> Flight]
    BY <1>7, <2>2 DEF QuerierTypeOK, TimePasses
  <2> QED BY <1>7, <2>1, <2>3 DEF QuerierTypeOK, TimePasses
<1>8. CASE UNCHANGED querierVars
  BY <1>8 DEF QuerierTypeOK, querierVars
<1> QED BY <1>1, <1>2, <1>3, <1>4, <1>5, <1>6, <1>7, <1>8 DEF QuerierNext

LEMMA InitTypes == QuerierInit => QuerierTypeOK
BY QuerierConstants DEF QuerierInit, QuerierTypeOK

(* Every reachable state of the querier is well typed (Querier, cacheEntry). *)
THEOREM QuerierTypes == QuerierSpec => []QuerierTypeOK
BY InitTypes, TypePreserved, PTL DEF QuerierSpec

(***************************************************************************)
(* The cache limit.                                                        *)
(***************************************************************************)

(* Only the end of a fan-out changes which addresses are cached.           *)
LEMMA CachedOnlyByStore ==
  ASSUME QuerierTypeOK, [QuerierNext]_querierVars, \A ip \in IPs : ~FlightStore(ip)
  PROVE  Cached' = Cached
<1>1. CASE UNCHANGED cache
  BY <1>1 DEF Cached
<1>2. CASE TimePasses
  <2>1. ASSUME NEW ip \in IPs PROVE cache'[ip].set = cache[ip].set
    <3>1. cache[ip] \in Entry /\ cache'[ip] = EntryAged(cache[ip])
      BY <1>2 DEF TimePasses, QuerierTypeOK
    <3> QED BY <3>1 DEF EntryAged, Entry
  <2> QED BY <2>1 DEF Cached
<1>3. UNCHANGED cache \/ TimePasses
  BY DEF QuerierNext, querierVars, QueryDo, QueryMiss, AskFails, Collect, FlightDone
<1> QED BY <1>1, <1>2, <1>3

(* Whatever stays when room is made leaves room for one more entry.        *)
LEMMA RoomForOne ==
  ASSUME QuerierTypeOK, CacheBounded, NEW stay \in RoomMade
  PROVE  stay \subseteq IPs /\ Cardinality(stay) < MaxEntries
<1> DEFINE live == {ip \in Cached : ~Stale(ip)}
<1>1. Cached \subseteq IPs /\ IsFiniteSet(Cached)
  BY QuerierAssumption, FS_Subset DEF Cached
<1>2. live \subseteq Cached /\ IsFiniteSet(live) /\ Cardinality(live) <= Cardinality(Cached)
  BY <1>1, FS_Subset
<1>3. Cardinality(Cached) \in Nat /\ Cardinality(live) \in Nat
  BY <1>1, <1>2, FS_CardinalityType
<1>4. CASE Cardinality(Cached) < MaxEntries
  BY <1>1, <1>3, <1>4, QuerierAssumption DEF RoomMade
<1>5. CASE Cardinality(Cached) >= MaxEntries
  <2>1. stay \in Evicted
    BY <1>5 DEF RoomMade
  <2>2. CASE Cardinality(live) < MaxEntries
    BY <1>1, <1>2, <2>1, <2>2 DEF Evicted
  <2>3. CASE Cardinality(live) >= MaxEntries
    <3>1. PICK ip \in Oldest(live) : stay = live \ {ip}
      BY <1>3, <2>1, <2>3, QuerierAssumption DEF Evicted
    <3>2. ip \in live
      BY <3>1 DEF Oldest
    <3>3. Cardinality(stay) = Cardinality(live) - 1
      BY <1>2, <3>1, <3>2, FS_RemoveElement
    <3> QED BY <1>1, <1>2, <1>3, <3>1, <3>3, QuerierAssumption DEF CacheBounded
  <2> QED BY <1>3, <2>2, <2>3, QuerierAssumption
<1> QED BY <1>3, <1>4, <1>5, QuerierAssumption

LEMMA CacheBoundPreserved == QuerierTypeOK /\ CacheBounded /\ [QuerierNext]_querierVars => CacheBounded'
<1> SUFFICES ASSUME QuerierTypeOK, CacheBounded, [QuerierNext]_querierVars PROVE CacheBounded'
  OBVIOUS
<1>1. ASSUME NEW ip \in IPs, FlightStore(ip) PROVE CacheBounded'
  <2>1. PICK stay \in RoomMade :
          cache' = [other \in IPs |->
                      IF other = ip
                        THEN [set |-> TRUE, answer |-> flight[ip].best, age |-> 0]
                        ELSE IF other \in stay THEN cache[other] ELSE NoEntry]
    BY <1>1 DEF FlightStore
  <2>2. stay \subseteq IPs /\ Cardinality(stay) < MaxEntries
    BY RoomForOne
  <2>3. IsFiniteSet(stay) /\ Cardinality(stay) \in Nat
    BY <2>2, QuerierAssumption, FS_Subset, FS_CardinalityType
  <2>4. Cached' \subseteq stay \cup {ip}
    BY <2>1 DEF Cached, NoEntry
  <2>5. /\ IsFiniteSet(stay \cup {ip})
        /\ Cardinality(stay \cup {ip}) <= Cardinality(stay) + 1
        /\ Cardinality(stay \cup {ip}) \in Nat
    <3>1. /\ IsFiniteSet(stay \cup {ip})
          /\ Cardinality(stay \cup {ip}) = Cardinality(stay) \/ Cardinality(stay \cup {ip}) = Cardinality(stay) + 1
      BY <2>3, FS_AddElement
    <3> QED BY <2>3, <3>1
  <2>6. IsFiniteSet(Cached') /\ Cardinality(Cached') <= Cardinality(stay \cup {ip})
    BY <2>4, <2>5, FS_Subset
  <2>7. Cardinality(Cached') \in Nat
    BY <2>6, FS_CardinalityType
  <2> QED BY <2>2, <2>3, <2>5, <2>6, <2>7, QuerierAssumption DEF CacheBounded
<1>2. CASE \A ip \in IPs : ~FlightStore(ip)
  BY <1>2, CachedOnlyByStore DEF CacheBounded
<1> QED BY <1>1, <1>2

(* For any number of addresses and concurrent fan-outs the cache holds at  *)
(* most maxCacheEntries answers (Query, evictLocked).                      *)
THEOREM CacheStaysBounded == QuerierSpec => []CacheBounded
<1>1. QuerierInit => CacheBounded
  <2> SUFFICES ASSUME QuerierInit PROVE CacheBounded
    OBVIOUS
  <2>1. Cached = {}
    BY DEF QuerierInit, Cached, NoEntry
  <2> QED BY <2>1, FS_EmptySet, QuerierAssumption DEF CacheBounded
<1> QED BY <1>1, InitTypes, TypePreserved, CacheBoundPreserved, PTL DEF QuerierSpec

(***************************************************************************)
(* The age of answers.                                                     *)
(***************************************************************************)

(* An entry was read at most one time-out before it was stored, and a      *)
(* fan-out's best answer after the fan-out began.                          *)
AgeInv ==
  \A ip \in IPs :
    /\ cache[ip].answer.read <= cache[ip].age + Timeout
    /\ flight[ip].pc # "none" => flight[ip].best.read + flight[ip].left <= Timeout

(* The types AgeInv's arithmetic needs.                                    *)
LEMMA AgeTypes ==
  ASSUME QuerierTypeOK, NEW ip \in IPs
  PROVE  /\ cache[ip] \in Entry /\ cache[ip].answer \in Answer
         /\ cache[ip].answer.read \in Nat /\ cache[ip].age \in 0..CacheTTL
         /\ flight[ip] \in Flight /\ flight[ip].best \in Answer
         /\ flight[ip].best.read \in Nat /\ flight[ip].left \in 0..Timeout
<1>1. cache[ip] \in Entry /\ flight[ip] \in Flight
  BY DEF QuerierTypeOK
<1>2. cache[ip].answer \in Answer /\ cache[ip].age \in 0..CacheTTL
  BY <1>1 DEF Entry
<1>3. flight[ip].best \in Answer /\ flight[ip].left \in 0..Timeout
  BY <1>1 DEF Flight
<1> QED BY <1>1, <1>2, <1>3 DEF Answer

(* A tick adds at most one to the age of an answer.                        *)
LEMMA OlderByOne ==
  ASSUME NEW answer \in Answer
  PROVE  /\ Older(answer).read \in Nat /\ Older(answer).read <= answer.read + 1
         /\ Older(answer).found = answer.found /\ Older(answer).verdict = answer.verdict
BY DEF Older, Answer

LEMMA AgePreserved == QuerierTypeOK /\ AgeInv /\ [QuerierNext]_querierVars => AgeInv'
<1> SUFFICES ASSUME QuerierTypeOK, AgeInv, [QuerierNext]_querierVars, NEW i \in IPs
             PROVE  /\ cache'[i].answer.read <= cache'[i].age + Timeout
                    /\ flight'[i].pc # "none"
                         => flight'[i].best.read + flight'[i].left <= Timeout
  BY DEF AgeInv
<1> DEFINE Goal == /\ cache'[i].answer.read <= cache'[i].age + Timeout
                   /\ flight'[i].pc # "none"
                        => flight'[i].best.read + flight'[i].left <= Timeout
<1>0. /\ cache[i].answer.read <= cache[i].age + Timeout
      /\ flight[i].pc # "none" => flight[i].best.read + flight[i].left <= Timeout
  BY DEF AgeInv
<1>t. /\ cache[i] \in Entry /\ cache[i].answer \in Answer
      /\ cache[i].answer.read \in Nat /\ cache[i].age \in 0..CacheTTL
      /\ flight[i] \in Flight /\ flight[i].best \in Answer
      /\ flight[i].best.read \in Nat /\ flight[i].left \in 0..Timeout
  BY AgeTypes
<1>1. ASSUME NEW c \in Callers, QueryDo(c) PROVE Goal
  <2>1. flight'[i] = flight[i] \/ flight'[i] = Asked
    BY <1>1 DEF QueryDo, QuerierTypeOK
  <2>2. Asked.best.read + Asked.left <= Timeout
    BY QuerierAssumption DEF Asked, NoAnswer
  <2>3. cache' = cache
    BY <1>1 DEF QueryDo
  <2> QED BY <1>0, <2>1, <2>2, <2>3
<1>2. ASSUME NEW c \in Callers, NEW ip \in IPs, QueryMiss(c, ip) PROVE Goal
  BY <1>0, <1>2 DEF QueryMiss
<1>3. ASSUME NEW ip \in IPs, NEW a \in Aggregators, AskFails(ip, a) PROVE Goal
  <2>1. /\ cache' = cache
        /\ flight'[i].pc = flight[i].pc /\ flight'[i].best = flight[i].best
        /\ flight'[i].left = flight[i].left
    BY <1>3, <1>t DEF AskFails, QuerierTypeOK, Flight
  <2> QED BY <1>0, <2>1
<1>4. ASSUME NEW ip \in IPs, NEW a \in Aggregators, NEW v \in Verdicts, Collect(ip, a, v)
      PROVE  Goal
  <2>1. /\ cache' = cache
        /\ flight'[i].pc = flight[i].pc /\ flight'[i].left = flight[i].left
        /\ flight'[i].best = flight[i].best \/ flight'[i].best = Merged(flight[i].best, v)
    BY <1>4, <1>t DEF Collect, QuerierTypeOK, Flight
  <2>2. Merged(flight[i].best, v) = flight[i].best \/ Merged(flight[i].best, v).read = 0
    BY DEF Merged
  <2> QED BY <1>0, <1>t, <2>1, <2>2, QuerierAssumption
<1>5. ASSUME NEW ip \in IPs, FlightStore(ip) PROVE Goal
  <2>1. \/ cache'[i] = cache[i]
        \/ cache'[i] = NoEntry
        \/ i = ip /\ cache'[i] = [set |-> TRUE, answer |-> flight[ip].best, age |-> 0]
    BY <1>5 DEF FlightStore
  <2>2. NoEntry.answer.read <= NoEntry.age + Timeout
    BY QuerierAssumption DEF NoEntry, NoAnswer
  <2>3. ASSUME i = ip, cache'[i] = [set |-> TRUE, answer |-> flight[ip].best, age |-> 0]
        PROVE  cache'[i].answer.read <= cache'[i].age + Timeout
    <3>1. flight[i].pc # "none"
      BY <1>5, <2>3 DEF FlightStore
    <3>2. flight[i].best.read <= Timeout
      BY <1>0, <1>t, <3>1, QuerierAssumption
    <3>3. cache'[i].answer.read = flight[i].best.read /\ cache'[i].age = 0
      BY <2>3
    <3> QED BY <3>2, <3>3, <1>t, QuerierAssumption
  <2>4. cache'[i].answer.read <= cache'[i].age + Timeout
    BY <1>0, <2>1, <2>2, <2>3
  <2>5. /\ flight'[i].best = flight[i].best /\ flight'[i].left = flight[i].left
        /\ flight'[i].pc # "none" => flight[i].pc # "none"
    BY <1>5, <1>t DEF FlightStore, QuerierTypeOK, Flight
  <2> QED BY <1>0, <2>4, <2>5
<1>6. ASSUME NEW ip \in IPs, FlightDone(ip) PROVE Goal
  <2>1. cache' = cache /\ (flight'[i] = flight[i] \/ flight'[i].pc = "none")
    BY <1>6 DEF FlightDone, QuerierTypeOK, NoFlight
  <2> QED BY <1>0, <2>1
<1>7. ASSUME TimePasses PROVE Goal
  <2>1. cache'[i].answer.read <= cache'[i].age + Timeout
    <3>1. cache'[i] = EntryAged(cache[i])
      BY <1>7 DEF TimePasses
    <3>2. CASE cache[i].set /\ cache[i].age < CacheTTL
      <4>1. /\ cache'[i].age = cache[i].age + 1
            /\ cache'[i].answer = Older(cache[i].answer)
        BY <1>t, <3>1, <3>2 DEF EntryAged, Entry
      <4>2. Older(cache[i].answer).read \in Nat
            /\ Older(cache[i].answer).read <= cache[i].answer.read + 1
        BY <1>t, OlderByOne
      <4> QED BY <1>0, <1>t, <4>1, <4>2, QuerierAssumption
    <3>3. CASE ~(cache[i].set /\ cache[i].age < CacheTTL)
      BY <1>0, <3>1, <3>3 DEF EntryAged
    <3> QED BY <3>2, <3>3
  <2>2. ASSUME flight'[i].pc # "none"
        PROVE  flight'[i].best.read + flight'[i].left <= Timeout
    <3>1. flight[i].pc # "none"
      BY <1>7, <2>2 DEF TimePasses
    <3>2. /\ flight'[i].left = flight[i].left - 1
          /\ flight'[i].best = Older(flight[i].best)
      BY <1>7, <1>t, <3>1 DEF TimePasses, Flight
    <3>3. Older(flight[i].best).read \in Nat
          /\ Older(flight[i].best).read <= flight[i].best.read + 1
      BY <1>t, OlderByOne
    <3> QED BY <1>0, <1>t, <3>1, <3>2, <3>3, QuerierAssumption
  <2> QED BY <2>1, <2>2
<1>8. ASSUME UNCHANGED querierVars PROVE Goal
  BY <1>0, <1>8 DEF querierVars
<1> HIDE DEF Goal
<1>9. Goal
  BY <1>1, <1>2, <1>3, <1>4, <1>5, <1>6, <1>7, <1>8 DEF QuerierNext
<1> QED BY <1>9 DEF Goal

(* A share of the TTL is no longer than the TTL.                           *)
LEMMA KeptWithinTTL == \A answer : KeptFor(answer) \in Int /\ KeptFor(answer) <= CacheTTL
<1>1. CacheTTL \div NegShare \in Int /\ CacheTTL \div NegShare <= CacheTTL
  BY QuerierAssumption, Z3
<1> QED BY <1>1, QuerierAssumption DEF KeptFor

LEMMA AgeSuffices == QuerierTypeOK /\ AgeInv => AnswersCurrent
<1> SUFFICES ASSUME QuerierTypeOK, AgeInv, NEW ip \in IPs
             PROVE  /\ Fresh(ip) => cache[ip].answer.read < CacheTTL + Timeout
                    /\ flight[ip].pc = "stored" => flight[ip].best.read <= Timeout
  BY DEF AnswersCurrent
<1>1. /\ cache[ip].answer.read \in Nat /\ cache[ip].age \in 0..CacheTTL
      /\ flight[ip].best.read \in Nat /\ flight[ip].left \in 0..Timeout
  BY AgeTypes
<1>2. Fresh(ip) => cache[ip].age < CacheTTL
  BY <1>1, KeptWithinTTL, QuerierAssumption DEF Fresh
<1> QED BY <1>1, <1>2, QuerierAssumption DEF AgeInv

(* For any number of callers and aggregators and any TTL and time-out, an  *)
(* answer handed out was given less than CacheTTL plus one time-out ago    *)
(* (Query, fanout).                                                        *)
THEOREM AnswersStayCurrent == QuerierSpec => []AnswersCurrent
<1>1. QuerierInit => AgeInv
  BY QuerierAssumption DEF QuerierInit, AgeInv, NoEntry, NoAnswer, NoFlight
<1> QED BY <1>1, InitTypes, TypePreserved, AgePreserved, AgeSuffices, PTL DEF QuerierSpec

(***************************************************************************)
(* The best answer.                                                        *)
(***************************************************************************)

(* What a fan-out has collected is the best of what it heard.              *)
BestOf(best, heard) ==
  /\ best.found <=> heard # {}
  /\ best.found => best.verdict \in heard /\ \A v \in heard : v.score <= best.verdict.score

(* Merging keeps the best, whatever comes next.                            *)
LEMMA MergedIsBest ==
  ASSUME NEW best \in Answer, NEW heard \in SUBSET Verdict, NEW v \in Verdict,
         BestOf(best, heard)
  PROVE  BestOf(Merged(best, v), heard \cup {v})
<1>t. v.score \in Nat /\ best.verdict.score \in Nat /\ \A w \in heard : w.score \in Nat
  BY DEF Answer, Verdict
<1>1. CASE ~best.found \/ v.score > best.verdict.score
  <2>1. Merged(best, v) = [found |-> TRUE, verdict |-> v, read |-> 0]
    BY <1>1 DEF Merged
  <2>2. \A w \in heard : w.score <= v.score
    BY <1>1, <1>t DEF BestOf
  <2> QED BY <2>1, <2>2, <1>t DEF BestOf
<1>2. CASE best.found /\ ~(v.score > best.verdict.score)
  <2>1. Merged(best, v) = best
    BY <1>2 DEF Merged
  <2> QED BY <1>2, <1>t, <2>1 DEF BestOf
<1> QED BY <1>1, <1>2

LEMMA BestPreserved == QuerierTypeOK /\ BestAnswerWins /\ [QuerierNext]_querierVars => BestAnswerWins'
<1> SUFFICES ASSUME QuerierTypeOK, BestAnswerWins, [QuerierNext]_querierVars, NEW i \in IPs, flight'[i].pc # "none"
             PROVE  BestOf(flight'[i].best, flight'[i].heard)
  BY DEF BestAnswerWins, BestOf
<1> DEFINE Goal == BestOf(flight'[i].best, flight'[i].heard)
<1>0. flight[i].pc # "none" => BestOf(flight[i].best, flight[i].heard)
  BY DEF BestAnswerWins, BestOf
<1>t. /\ flight[i] \in Flight /\ flight[i].best \in Answer
      /\ flight[i].heard \in SUBSET Verdict
  BY DEF QuerierTypeOK, Flight
<1>1. ASSUME NEW c \in Callers, QueryDo(c) PROVE Goal
  <2>1. flight'[i] = flight[i] \/ flight'[i] = Asked
    BY <1>1 DEF QueryDo, QuerierTypeOK
  <2>2. BestOf(Asked.best, Asked.heard)
    BY DEF Asked, NoAnswer, BestOf
  <2> QED BY <1>0, <2>1, <2>2
<1>2. ASSUME NEW c \in Callers, NEW ip \in IPs, QueryMiss(c, ip) PROVE Goal
  BY <1>0, <1>2 DEF QueryMiss
<1>3. ASSUME NEW ip \in IPs, NEW a \in Aggregators, AskFails(ip, a) PROVE Goal
  <2>1. /\ flight'[i].pc = flight[i].pc /\ flight'[i].best = flight[i].best
        /\ flight'[i].heard = flight[i].heard
    BY <1>3, <1>t DEF AskFails, QuerierTypeOK, Flight
  <2> QED BY <1>0, <2>1
<1>4. ASSUME NEW ip \in IPs, NEW a \in Aggregators, NEW v \in Verdicts, Collect(ip, a, v)
      PROVE  Goal
  <2>1. CASE i = ip
    <3>1. /\ flight'[i].best = Merged(flight[i].best, v)
          /\ flight'[i].heard = flight[i].heard \cup {v}
          /\ flight[i].pc # "none"
      BY <1>4, <1>t, <2>1 DEF Collect, QuerierTypeOK, Flight
    <3>2. v \in Verdict
      BY QuerierAssumption
    <3> QED BY <1>0, <1>t, <3>1, <3>2, MergedIsBest
  <2>2. CASE i # ip
    <3>1. flight'[i] = flight[i]
      BY <1>4, <2>2 DEF Collect, QuerierTypeOK
    <3> QED BY <1>0, <3>1
  <2> QED BY <2>1, <2>2
<1>5. ASSUME NEW ip \in IPs, FlightStore(ip) PROVE Goal
  <2>1. /\ flight'[i].best = flight[i].best /\ flight'[i].heard = flight[i].heard
        /\ flight[i].pc # "none"
    BY <1>5, <1>t DEF FlightStore, QuerierTypeOK, Flight
  <2> QED BY <1>0, <2>1
<1>6. ASSUME NEW ip \in IPs, FlightDone(ip) PROVE Goal
  <2>1. flight'[i] = flight[i]
    BY <1>6 DEF FlightDone, QuerierTypeOK, NoFlight
  <2> QED BY <1>0, <2>1
<1>7. ASSUME TimePasses PROVE Goal
  <2>1. flight[i].pc # "none"
    BY <1>7 DEF TimePasses
  <2>2. /\ flight'[i].best = Older(flight[i].best)
        /\ flight'[i].heard = flight[i].heard
    BY <1>7, <1>t, <2>1 DEF TimePasses, Flight
  <2>3. /\ Older(flight[i].best).found = flight[i].best.found
        /\ Older(flight[i].best).verdict = flight[i].best.verdict
    BY <1>t, OlderByOne
  <2> QED BY <1>0, <2>1, <2>2, <2>3 DEF BestOf
<1>8. ASSUME UNCHANGED querierVars PROVE Goal
  BY <1>0, <1>8 DEF querierVars
<1> HIDE DEF Goal
<1>9. Goal
  BY <1>1, <1>2, <1>3, <1>4, <1>5, <1>6, <1>7, <1>8 DEF QuerierNext
<1> QED BY <1>9 DEF Goal

(* For any number of aggregators, answering in any order, failing or       *)
(* staying silent, a fan-out ends with the best it heard (fanout).         *)
THEOREM BestAnswerIsKept == QuerierSpec => []BestAnswerWins
<1>1. QuerierInit => BestAnswerWins
  BY DEF QuerierInit, BestAnswerWins, NoFlight
<1> QED BY <1>1, InitTypes, TypePreserved, BestPreserved, PTL DEF QuerierSpec

-----------------------------------------------------------------------------
(* The aggregator's answer *)

(***************************************************************************)
(* Induction, stated with sets.                                            *)
(***************************************************************************)

LEMMA LeastNumber ==
    ASSUME NEW T \in SUBSET Nat, T # {}
    PROVE  \E n \in T : \A m \in T : n <= m
<1>1. PICK n \in T : \A m \in T : << m, n >> \notin OpToRel(<, Nat)
  BY WFMin, NatLessThanWellFounded, Zenon
<1>2. n \in Nat
  OBVIOUS
<1>3. ASSUME NEW m \in T PROVE ~ (m < n)
  <2>1. << m, n >> \in Nat \X Nat
    OBVIOUS
  <2>2. m < n => << m, n >> \in OpToRel(<, Nat)
    BY <2>1, Zenon DEF OpToRel
  <2> QED BY <1>1, <2>2
<1> QED BY <1>2, <1>3

(* A set that has 0 and with every number the next has them all.           *)
LEMMA UpTo ==
    ASSUME NEW n \in Nat, NEW G, 0 \in G, \A i \in 1..n : i - 1 \in G => i \in G
    PROVE  \A i \in 0..n : i \in G
<1> SUFFICES ASSUME NEW j \in 0..n, j \notin G PROVE FALSE
  OBVIOUS
<1> DEFINE B == {i \in 0..n : i \notin G}
<1>1. B \in SUBSET Nat /\ B # {}
  OBVIOUS
<1> HIDE DEF B
<1>2. PICK m \in B : \A k \in B : m <= k
  BY <1>1, LeastNumber
<1>3. m \in 1..n /\ m \notin G
  BY <1>2 DEF B
<1>4. m - 1 \in 0..n /\ m - 1 \notin B
  BY <1>2, <1>3 DEF B
<1> QED BY <1>3, <1>4 DEF B

(* The n steps of a recursion over S, and its values from b on.            *)
StepsOf(n, S) == [(1..n) \X S -> S]
ValuesOf(n, S, b, F) ==
    {g \in [0..n -> S] : g[0] = b /\ \A i \in 1..n : g[i] = F[<< i, g[i - 1] >>]}

LEMMA ValuesExist ==
    ASSUME NEW n \in Nat, NEW S, NEW b \in S, NEW F \in StepsOf(n, S)
    PROVE  ValuesOf(n, S, b, F) # {}
<1> DEFINE Sol(k) == ValuesOf(k, S, b, F)
           G == {k \in 0..n : Sol(k) # {}}
<1> USE DEF ValuesOf, StepsOf
<1>1. 0 \in G
  <2>1. [i \in 0..0 |-> b] \in Sol(0)
    OBVIOUS
  <2> QED BY <2>1
<1>2. ASSUME NEW k \in 1..n, k - 1 \in G PROVE k \in G
  <2>1. PICK g \in [0..(k - 1) -> S] :
            g[0] = b /\ \A i \in 1..(k - 1) : g[i] = F[<< i, g[i - 1] >>]
    BY <1>2
  <2> DEFINE h == [i \in 0..k |-> IF i = k THEN F[<< k, g[k - 1] >>] ELSE g[i]]
  <2>2. g[k - 1] \in S
    BY <2>1
  <2>3. F[<< k, g[k - 1] >>] \in S
    BY <2>2
  <2>4. h \in [0..k -> S]
    BY <2>1, <2>3
  <2>5. h[0] = b
    BY <2>1
  <2>6. h[k] = F[<< k, h[k - 1] >>]
    <3>1. k - 1 \in 0..k /\ k - 1 # k
      OBVIOUS
    <3>2. h[k - 1] = g[k - 1] /\ h[k] = F[<< k, g[k - 1] >>]
      BY <3>1
    <3> QED BY <3>2
  <2>7. ASSUME NEW i \in 1..(k - 1) PROVE h[i] = F[<< i, h[i - 1] >>]
    <3>1. h[i] = g[i] /\ h[i - 1] = g[i - 1]
      OBVIOUS
    <3> QED BY <2>1, <3>1
  <2> HIDE DEF h
  <2>8. ASSUME NEW i \in 1..k PROVE h[i] = F[<< i, h[i - 1] >>]
    <3>1. i = k \/ i \in 1..(k - 1)
      OBVIOUS
    <3> QED BY <2>6, <2>7, <3>1
  <2>9. h \in Sol(k)
    BY <2>4, <2>5, <2>8
  <2> QED BY <2>9
<1> HIDE DEF G
<1>3. n \in G
  BY <1>1, <1>2, UpTo
<1> QED BY <1>3 DEF G

(***************************************************************************)
(* Arithmetic.                                                             *)
(***************************************************************************)

LEMMA DivMonotone ==
    ASSUME NEW k \in Nat \ {0}, NEW x \in Nat, NEW y \in Nat, x <= y
    PROVE  x \div k \in Nat /\ y \div k \in Nat /\ x \div k <= y \div k
OBVIOUS

LEMMA DivShift ==
    ASSUME NEW k \in Nat \ {0}, NEW x \in Nat, NEW m \in Nat
    PROVE  /\ (x + k * m) \div k = x \div k + m
           /\ (k * m) \div k = m
OBVIOUS

LEMMA TimesMonotone ==
    ASSUME NEW c \in Nat, NEW d \in Nat, c <= d, NEW a \in Nat, NEW b \in Nat, a <= b
    PROVE  c * a \in Nat /\ d * b \in Nat /\ c * a <= d * b
<1>1. PICK e \in Nat : b = a + e
  <2>1. b - a \in Nat /\ b = a + (b - a)
    OBVIOUS
  <2> QED BY <2>1
<1>2. PICK f \in Nat : d = c + f
  <2>1. d - c \in Nat /\ d = c + (d - c)
    OBVIOUS
  <2> QED BY <2>1
<1>3. d * b = c * a + c * e + f * a + f * e
  BY <1>1, <1>2
<1>4. c * a \in Nat /\ c * e \in Nat /\ f * a \in Nat /\ f * e \in Nat
  OBVIOUS
<1> QED BY <1>3, <1>4

(* The share q of k of what a score lacks: it never exceeds it, grows with *)
(* the share, and a higher score stays ahead.                              *)
LEMMA RaiseFacts ==
    ASSUME NEW k \in Nat \ {0}, NEW q \in 0..k, NEW full \in Nat, NEW s \in 0..full
    PROVE  /\ (q * (full - s)) \div k \in 0..(full - s)
           /\ \A p \in 0..q : (p * (full - s)) \div k <= (q * (full - s)) \div k
           /\ \A l \in 0..s : l + (q * (full - l)) \div k <= s + (q * (full - s)) \div k
<1> DEFINE r == full - s
<1>1. r \in Nat /\ q \in Nat /\ k \in Nat
  OBVIOUS
<1> HIDE DEF r
<1>2. q * r \in Nat /\ k * r \in Nat /\ q * r <= k * r
  BY <1>1, TimesMonotone
<1>3. (q * r) \div k \in Nat /\ (q * r) \div k <= (k * r) \div k
  BY <1>2, DivMonotone
<1>4. (k * r) \div k = r
  BY <1>1, DivShift
<1>5. ASSUME NEW p \in 0..q PROVE (p * r) \div k <= (q * r) \div k
  <2>1. p * r \in Nat /\ p * r <= q * r
    BY <1>1, TimesMonotone
  <2> QED BY <1>2, <2>1, DivMonotone
<1>6. ASSUME NEW l \in 0..s PROVE l + (q * (full - l)) \div k <= s + (q * r) \div k
  <2>1. PICK m \in Nat : m = s - l /\ full - l = r + m
    <3>1. s - l \in Nat /\ full - l = r + (s - l)
      BY DEF r
    <3> QED BY <3>1
  <2>2. q * (r + m) = q * r + q * m /\ q * m \in Nat /\ k * m \in Nat
    BY <1>1
  <2>3. q * m <= k * m
    BY <1>1, TimesMonotone
  <2>4. q * r + q * m <= q * r + k * m /\ q * r + q * m \in Nat /\ q * r + k * m \in Nat
    BY <1>2, <2>2, <2>3
  <2>5. (q * r + q * m) \div k <= (q * r + k * m) \div k /\ (q * r + q * m) \div k \in Nat
    BY <2>4, DivMonotone
  <2>6. (q * r + k * m) \div k = (q * r) \div k + m
    BY <1>2, DivShift
  <2>7. (q * (full - l)) \div k <= (q * r) \div k + m /\ (q * (full - l)) \div k \in Nat
    BY <2>1, <2>2, <2>5, <2>6
  <2> QED BY <1>3, <2>1, <2>7
<1>7. (q * r) \div k \in 0..r
  BY <1>1, <1>3, <1>4
<1> QED BY <1>5, <1>6, <1>7 DEF r

(* What a dispute of share q of k leaves of a score: no more than it was,  *)
(* and no less than it leaves of a lower one.                              *)
Left(q, k, s) == IF (q * s) \div k <= s THEN s - (q * s) \div k ELSE 0

LEMMA LeftFacts ==
    ASSUME NEW k \in Nat \ {0}, NEW q \in Nat, NEW s \in Nat
    PROVE  /\ Left(q, k, s) \in 0..s
           /\ \A l \in 0..s : Left(q, k, l) <= Left(q, k, s)
<1>1. q * s \in Nat /\ (q * s) \div k \in Nat
  BY TimesMonotone, DivMonotone
<1>2. Left(q, k, s) \in 0..s
  BY <1>1 DEF Left
<1>3. ASSUME NEW l \in 0..s PROVE Left(q, k, l) <= Left(q, k, s)
  <2>1. l \in Nat /\ q * l \in Nat /\ (q * l) \div k \in Nat
    BY TimesMonotone, DivMonotone
  <2>2. CASE q <= k
    <3>1. PICK m \in Nat : s = l + m
      <4>1. s - l \in Nat /\ s = l + (s - l)
        OBVIOUS
      <4> QED BY <4>1
    <3>2. q * s = q * l + q * m /\ q * m \in Nat /\ k * m \in Nat
      BY <2>1, <3>1
    <3>3. q * m <= k * m
      BY <2>2, TimesMonotone
    <3>4. q * s <= q * l + k * m /\ q * l + k * m \in Nat
      BY <2>1, <3>2, <3>3
    <3>5. (q * s) \div k <= (q * l + k * m) \div k
      BY <1>1, <3>4, DivMonotone
    <3>6. (q * s) \div k <= (q * l) \div k + m
      BY <2>1, <3>5, DivShift
    <3> QED BY <1>1, <2>1, <3>1, <3>6 DEF Left
  <2>3. CASE q > k
    <3>1. k * l <= q * l /\ k * l \in Nat
      BY <2>1, <2>3, TimesMonotone
    <3>2. (k * l) \div k <= (q * l) \div k
      BY <2>1, <3>1, DivMonotone
    <3>3. l <= (q * l) \div k
      BY <2>1, <3>2, DivShift
    <3>4. Left(q, k, l) = 0
      BY <2>1, <3>3 DEF Left
    <3> QED BY <1>2, <3>4
  <2> QED BY <2>2, <2>3
<1> QED BY <1>2, <1>3

(***************************************************************************)
(* Reports and disputes, on records with Persons P and subnets S.          *)
(***************************************************************************)

Rec(P, S) ==
    [ known : BOOLEAN, score : 0..Full, age : 0..MaxAge, ttl : 0..RecordTTL,
      groups : SUBSET P, strangerSeen : BOOLEAN, strangerContrib : Nat,
      subnets : SUBSET S, disputeSubnets : SUBSET S, disputeContrib : Nat ]

Obs(P, S) ==
    [ weight : 0..Full, trust : 0..Unit, group : P \cup {NoPerson},
      subnet : S \cup {NoSubnet}, anchored : BOOLEAN ]

Scale == Unit * Unit * Full

(* The share of what the score lacks that a report adds.                   *)
ShareOf(trust, weight, div) == trust * weight * div
Raise(q, s) == (q * (Full - s)) \div Scale

LEMMA ConstantTypes ==
    /\ Full \in Nat \ {0} /\ Unit \in Nat \ {0} /\ MaxAge \in Nat \ {0}
    /\ RecordTTL \in Nat \ {0} /\ StrangerCap \in Nat /\ DiversityRepeat \in 0..Unit
    /\ DisputeWeight \in Nat /\ Scale \in Nat \ {0}
    /\ FederationDiscount \in 0..Unit /\ MaxEvidenceFolds \in Nat \ {0}
BY ScoringAssumption, EvidenceAssumption DEF Scale

LEMMA DivFactorType ==
    ASSUME NEW subnet, NEW seen
    PROVE  DivFactor(subnet, seen) \in 0..Unit
BY ConstantTypes DEF DivFactor

LEMMA ShareFacts ==
    ASSUME NEW t \in 0..Unit, NEW w \in 0..Full, NEW d \in 0..Unit
    PROVE  /\ ShareOf(t, w, d) \in 0..Scale
           /\ \A v \in 0..w, c \in 0..d : ShareOf(t, v, c) \in 0..ShareOf(t, w, d)
<1> USE ConstantTypes
<1>1. t * w \in Nat /\ Unit * Full \in Nat /\ t * w <= Unit * Full
  BY TimesMonotone
<1>2. (t * w) * d <= (Unit * Full) * Unit /\ (t * w) * d \in Nat
  BY <1>1, TimesMonotone
<1>3. (Unit * Full) * Unit = Scale
  BY DEF Scale
<1>4. ASSUME NEW v \in 0..w, NEW c \in 0..d PROVE ShareOf(t, v, c) \in 0..ShareOf(t, w, d)
  <2>1. t * v \in Nat /\ t * v <= t * w
    BY TimesMonotone
  <2>2. (t * v) * c \in Nat /\ (t * v) * c <= (t * w) * d
    BY <1>1, <2>1, TimesMonotone
  <2> QED BY <1>2, <2>2 DEF ShareOf
<1>5. ShareOf(t, w, d) \in 0..Scale
  BY <1>2, <1>3 DEF ShareOf
<1> QED BY <1>4, <1>5

LEMMA RaiseBounds ==
    ASSUME NEW q \in 0..Scale, NEW s \in 0..Full
    PROVE  Raise(q, s) \in 0..(Full - s) /\ s + Raise(q, s) \in 0..Full
BY ConstantTypes, RaiseFacts DEF Raise

LEMMA RaiseMonotone ==
    ASSUME NEW q \in 0..Scale, NEW p \in 0..q, NEW s \in 0..Full, NEW l \in 0..s
    PROVE  l + Raise(p, l) <= s + Raise(q, s)
<1> USE ConstantTypes
<1>1. p \in 0..Scale /\ l \in 0..Full
  OBVIOUS
<1>2. Raise(p, l) \in Nat /\ Raise(p, s) \in Nat /\ Raise(q, s) \in Nat
  BY <1>1, RaiseBounds
<1>3. l + Raise(p, l) <= s + Raise(p, s)
  BY <1>1, RaiseFacts DEF Raise
<1>4. Raise(p, s) <= Raise(q, s)
  BY RaiseFacts DEF Raise
<1> QED BY <1>2, <1>3, <1>4

LEMMA DecayFacts ==
    ASSUME NEW s \in Nat, NEW a \in 0..MaxAge
    PROVE  /\ DecayScore(s, a) \in 0..s
           /\ DecayScore(s, 0) = s
           /\ \A l \in 0..s, b \in 0..MaxAge :
                  Retained[b] <= Retained[a] => DecayScore(l, b) <= DecayScore(s, a)
<1> USE ConstantTypes
<1>1. Retained \in [0..MaxAge -> 0..Unit] /\ Retained[0] = Unit
  BY ScoringAssumption
<1>2. PICK x \in 0..Unit : x = Retained[a]
  BY <1>1
<1>3. s * x \in Nat /\ s * Unit \in Nat /\ s * x <= s * Unit
  BY TimesMonotone
<1>4. s * Unit = Unit * s /\ (Unit * s) \div Unit = s
  BY DivShift
<1>5. (s * x) \div Unit \in Nat /\ (s * x) \div Unit <= (s * Unit) \div Unit
  BY <1>3, DivMonotone
<1>6. DecayScore(s, a) \in 0..s
  BY <1>2, <1>4, <1>5 DEF DecayScore
<1>7. DecayScore(s, 0) = s
  BY <1>1, <1>4 DEF DecayScore
<1>8. ASSUME NEW l \in 0..s, NEW b \in 0..MaxAge, Retained[b] <= Retained[a]
      PROVE  DecayScore(l, b) <= DecayScore(s, a)
  <2>1. PICK y \in 0..Unit : y = Retained[b]
    BY <1>1
  <2>2. y <= x
    BY <1>2, <1>8, <2>1
  <2>3. l * y \in Nat /\ l * y <= s * x
    BY <2>2, TimesMonotone
  <2>4. (l * y) \div Unit <= (s * x) \div Unit
    BY <1>3, <2>3, DivMonotone
  <2> QED BY <1>2, <2>1, <2>4 DEF DecayScore
<1> QED BY <1>6, <1>7, <1>8

LEMMA DecayedFacts ==
    ASSUME NEW P, NEW S, NEW r \in Rec(P, S)
    PROVE  Decayed(r) \in 0..Full /\ (r.age = 0 => Decayed(r) = r.score)
<1>1. r.score \in 0..Full /\ r.score \in Nat /\ r.age \in 0..MaxAge /\ r.known \in BOOLEAN
  BY ConstantTypes DEF Rec
<1>2. CASE r.known
  <2>1. Decayed(r) = DecayScore(r.score, r.age)
    BY <1>2 DEF Decayed
  <2>2. DecayScore(r.score, r.age) \in 0..r.score /\ DecayScore(r.score, 0) = r.score
    BY <1>1, DecayFacts
  <2>3. r.age = 0 => Decayed(r) = r.score
    BY <2>1, <2>2
  <2>4. Decayed(r) \in 0..Full
    BY <1>1, <2>1, <2>2, ConstantTypes
  <2> QED BY <2>3, <2>4
<1>3. CASE ~ r.known
  BY <1>1, <1>3 DEF Decayed
<1> QED BY <1>1, <1>2, <1>3

(* What Accumulate makes of a record.                                      *)
LEMMA AccumulateIs ==
    ASSUME NEW P, NEW S, NoPerson \notin P, NoSubnet \notin S,
           NEW r \in Rec(P, S), NEW o \in Obs(P, S)
    PROVE  LET d   == DivFactor(o.subnet, r.subnets)
               add == Raise(ShareOf(o.trust, o.weight, d), Decayed(r))
               new == Accumulate(r, o)
           IN  /\ new \in Rec(P, S)
               /\ new.known /\ new.age = 0
               /\ new.score = Decayed(r)
                      + IF o.anchored THEN add ELSE Lesser(add, Remaining(r.strangerContrib))
               /\ o.anchored => new.strangerContrib = r.strangerContrib
               /\ r.groups \subseteq new.groups
               /\ new.groups \subseteq r.groups \cup {o.group}
               /\ ~ o.anchored => new.groups = r.groups
               /\ r.strangerSeen => new.strangerSeen
               /\ new.subnets = r.subnets \cup ({o.subnet} \ {NoSubnet})
               /\ new.disputeSubnets = r.disputeSubnets
<1> USE ConstantTypes
<1> DEFINE d == DivFactor(o.subnet, r.subnets)
           q == ShareOf(o.trust, o.weight, d)
           add == Raise(q, Decayed(r))
           new == Accumulate(r, o)
           c == Contribution(r, o)
<1>1. /\ r.known \in BOOLEAN /\ r.score \in 0..Full /\ r.age \in 0..MaxAge
      /\ r.strangerContrib \in Nat /\ r.strangerSeen \in BOOLEAN
      /\ r.groups \subseteq P /\ r.subnets \subseteq S /\ r.disputeSubnets \subseteq S
      /\ o.weight \in 0..Full /\ o.trust \in 0..Unit /\ o.anchored \in BOOLEAN
      /\ o.group \in P \cup {NoPerson} /\ o.subnet \in S \cup {NoSubnet}
  BY DEF Rec, Obs
<1>2. Decayed(r) \in 0..Full
  BY DecayedFacts
<1>3. d \in 0..Unit
  BY DivFactorType
<1> HIDE DEF d
<1>4. q \in 0..Scale
  BY <1>1, <1>3, ShareFacts
<1>5. (o.trust * o.weight * (Full - Decayed(r)) * d) \div Scale = add
  <2>1. o.trust * o.weight * (Full - Decayed(r)) * d
            = (o.trust * o.weight * d) * (Full - Decayed(r))
    BY <1>1, <1>2, <1>3
  <2> QED BY <2>1 DEF Raise, ShareOf
<1>6. add \in 0..(Full - Decayed(r))
  BY <1>2, <1>4, RaiseBounds
<1>7. c = IF o.anchored THEN add ELSE Lesser(add, Remaining(r.strangerContrib))
  BY <1>5 DEF Contribution, Scale, d
<1>8. Remaining(r.strangerContrib) \in Nat
  BY <1>1 DEF Remaining
<1> HIDE DEF q, add
<1>9. c \in 0..(Full - Decayed(r))
  BY <1>1, <1>2, <1>6, <1>7, <1>8 DEF Lesser
<1>10. Lesser(Decayed(r) + c, Full) = Decayed(r) + c
  BY <1>2, <1>9 DEF Lesser
<1> HIDE DEF c
<1> DEFINE score == Decayed(r) + c
           seen == r.strangerSeen \/ ~o.anchored
           spent == IF o.anchored THEN r.strangerContrib ELSE r.strangerContrib + c
           groups == IF o.anchored THEN r.groups \cup ({o.group} \ {NoPerson}) ELSE r.groups
           subnets == r.subnets \cup ({o.subnet} \ {NoSubnet})
<1>11. new = [ r EXCEPT !.known = TRUE, !.score = score, !.age = 0,
                        !.strangerSeen = seen, !.strangerContrib = spent,
                        !.groups = groups, !.subnets = subnets ]
  BY <1>10 DEF Accumulate, c
<1> HIDE DEF new
<1>12. score \in 0..Full /\ seen \in BOOLEAN /\ 0 \in 0..MaxAge
  BY <1>2, <1>9
<1>13. spent \in Nat
  BY <1>1, <1>2, <1>9
<1>14. groups \subseteq P /\ subnets \subseteq S
  BY <1>1
<1>15. /\ new \in Rec(P, S)
       /\ new.known /\ new.age = 0 /\ new.score = score /\ new.strangerContrib = spent
       /\ new.groups = groups /\ new.strangerSeen = seen /\ new.subnets = subnets
       /\ new.disputeSubnets = r.disputeSubnets
  <2> HIDE DEF score, seen, spent, groups, subnets
  <2> QED BY <1>11, <1>12, <1>13, <1>14 DEF Rec
<1>16. /\ r.groups \subseteq new.groups /\ new.groups \subseteq r.groups \cup {o.group}
       /\ ~ o.anchored => new.groups = r.groups
  BY <1>15
<1> QED BY <1>7, <1>15, <1>16 DEF new, add, q, d, c

(* What ApplyDispute makes of a record.                                    *)
LEMMA ApplyDisputeIs ==
    ASSUME NEW P, NEW S, NoSubnet \notin S,
           NEW r \in Rec(P, S), NEW o \in Obs(P, S)
    PROVE  LET q   == ShareOf(o.trust, DisputeWeight, DivFactor(o.subnet, r.disputeSubnets))
               new == ApplyDispute(r, o)
           IN  /\ new \in Rec(P, S)
               /\ new.age = 0
               /\ o.anchored => new.score = Left(q, Scale, Decayed(r))
               /\ new.groups = r.groups
               /\ new.subnets = r.subnets
               /\ new.disputeSubnets \subseteq r.disputeSubnets \cup {o.subnet}
<1> USE ConstantTypes
<1> DEFINE d == DivFactor(o.subnet, r.disputeSubnets)
           e == IF o.anchored THEN d ELSE Unit
           q == ShareOf(o.trust, DisputeWeight, e)
           s == Decayed(r)
           raw == (q * s) \div Scale
           c == Reduction(r, o)
           new == ApplyDispute(r, o)
           score == IF c <= s THEN s - c ELSE 0
<1>1. /\ r.known \in BOOLEAN /\ r.score \in 0..Full /\ r.age \in 0..MaxAge
      /\ r.disputeContrib \in Nat /\ r.disputeSubnets \subseteq S
      /\ o.trust \in 0..Unit /\ o.anchored \in BOOLEAN /\ o.subnet \in S \cup {NoSubnet}
  BY DEF Rec, Obs
<1>2. s \in 0..Full
  BY DecayedFacts
<1>3. d \in 0..Unit
  BY DivFactorType
<1> HIDE DEF d
<1>4. e \in 0..Unit
  BY <1>3
<1> HIDE DEF e, s
<1>5. q \in Nat /\ q * s \in Nat
  <2>1. o.trust * DisputeWeight \in Nat
    BY <1>1
  <2>2. q \in Nat
    BY <1>4, <2>1 DEF ShareOf
  <2> HIDE DEF q
  <2> QED BY <1>2, <2>2
<1>6. (o.trust * DisputeWeight * s * e) \div Scale = raw
  <2>1. o.trust * DisputeWeight * s * e = (o.trust * DisputeWeight * e) * s
    BY <1>1, <1>2, <1>4
  <2> QED BY <2>1 DEF ShareOf
<1>7. raw \in Nat
  BY <1>5, DivMonotone
<1>8. c = IF o.anchored THEN raw ELSE Lesser(raw, Remaining(r.disputeContrib))
  BY <1>6 DEF Reduction, Scale, d, e, s
<1> HIDE DEF raw
<1>9. c \in Nat
  <2>1. Remaining(r.disputeContrib) \in Nat
    BY <1>1 DEF Remaining
  <2> QED BY <1>1, <1>7, <1>8, <2>1 DEF Lesser
<1> HIDE DEF c
<1>10. score \in 0..Full
  BY <1>2, <1>9
<1>11. o.anchored => score = Left(q, Scale, s)
  BY <1>8 DEF Left, raw
<1> HIDE DEF score
<1> DEFINE spent == IF o.anchored THEN r.disputeContrib ELSE r.disputeContrib + c
           subnets == IF o.anchored THEN r.disputeSubnets \cup ({o.subnet} \ {NoSubnet})
                                    ELSE r.disputeSubnets
<1>12. new = [ r EXCEPT !.known = TRUE, !.score = score, !.age = 0,
                        !.disputeContrib = spent, !.disputeSubnets = subnets ]
  BY DEF ApplyDispute, c, score, s
<1> HIDE DEF new
<1>13. spent \in Nat /\ 0 \in 0..MaxAge
  BY <1>1, <1>9
<1>14. subnets \subseteq S
  BY <1>1
<1>15. /\ new \in Rec(P, S)
       /\ new.age = 0 /\ new.score = score /\ new.groups = r.groups /\ new.subnets = r.subnets
       /\ new.disputeSubnets = subnets
  <2> HIDE DEF spent, subnets
  <2> QED BY <1>10, <1>12, <1>13, <1>14 DEF Rec
<1>16. new.disputeSubnets \subseteq r.disputeSubnets \cup {o.subnet}
  BY <1>15
<1> QED BY <1>11, <1>15, <1>16 DEF new, q, d, e, s

(***************************************************************************)
(* The recompute.                                                          *)
(***************************************************************************)

Slots == 0..MaxEvidenceFolds
FoldRec == Rec({}, Slots)
Trust(e) == (Clamp(e.weight, 0, Unit) * FederationDiscount) \div Unit

LEMMA CountTypes ==
    ASSUME NEW e \in EvidenceAggregate
    PROVE  /\ Folds(e.groups) \in Slots /\ Folds(e.disputeSubnets) \in Slots
           /\ FullVotes(e) \in 0..Folds(e.groups)
           /\ Folds(e.groups) # 0 => FullVotes(e) # 0
           /\ Trust(e) \in 0..Unit /\ (e.weight <= 0 => Trust(e) = 0)
           /\ e.top \in 0..Full /\ e.age \in 0..MaxAge /\ e.strangers \in BOOLEAN
<1> USE ConstantTypes
<1>1. /\ e.groups \in Int /\ e.disputeSubnets \in Int /\ e.subnets \in Int /\ e.weight \in Int
      /\ e.top \in 0..Full /\ e.age \in 0..MaxAge /\ e.strangers \in BOOLEAN
  BY DEF EvidenceAggregate
<1>2. Folds(e.groups) \in Slots /\ Folds(e.disputeSubnets) \in Slots
  BY <1>1 DEF Folds, Clamp, Lesser, Slots
<1>3. PICK n \in Nat : n = Folds(e.groups)
  BY <1>2 DEF Slots
<1>4. FullVotes(e) \in 0..n /\ (n # 0 => FullVotes(e) # 0)
  BY <1>1, <1>3 DEF FullVotes, Lesser
<1>5. PICK w \in 0..Unit : w = Clamp(e.weight, 0, Unit) /\ (e.weight <= 0 => w = 0)
  <2>1. Clamp(e.weight, 0, Unit) \in 0..Unit
    BY <1>1 DEF Clamp, Lesser
  <2>2. e.weight <= 0 => Clamp(e.weight, 0, Unit) = 0
    BY <1>1 DEF Clamp, Lesser
  <2> QED BY <2>1, <2>2
<1>6. w * FederationDiscount \in Nat /\ w * FederationDiscount <= Unit * Unit
  BY TimesMonotone
<1>7. (w * FederationDiscount) \div Unit \in Nat
      /\ (w * FederationDiscount) \div Unit <= (Unit * Unit) \div Unit
  BY <1>6, DivMonotone
<1>8. (Unit * Unit) \div Unit = Unit /\ 0 \div Unit = 0
  BY DivShift
<1>9. Trust(e) \in 0..Unit
  BY <1>5, <1>7, <1>8 DEF Trust
<1>10. e.weight <= 0 => Trust(e) = 0
  BY <1>5, <1>8 DEF Trust
<1> QED BY <1>1, <1>2, <1>3, <1>4, <1>9, <1>10

LEMMA VoteTypes ==
    ASSUME NEW e \in EvidenceAggregate, NEW subnet \in Slots \cup {NoSubnet}, NEW a \in BOOLEAN
    PROVE  LET v == SyntheticVote(e, subnet, a)
           IN  /\ v \in Obs({}, Slots) /\ v.trust = Trust(e) /\ v.weight = e.top
               /\ v.subnet = subnet /\ v.anchored = a
BY CountTypes DEF SyntheticVote, Obs, Trust

LEMMA SlotsAreNamed == NoSubnet \notin Slots /\ NoPerson \notin {} /\ NoRecord \in FoldRec
BY EvidenceAssumption, ConstantTypes DEF Slots, FoldRec, Rec, NoRecord

(* The share of the n-th group vote: full up to one more than there are    *)
(* subnets, since the first vote on the shared subnet is no repeat.        *)
VoteDiv(e, n) == IF n <= FullVotes(e) + 1 THEN Unit ELSE DiversityRepeat
VoteShare(e, n) == ShareOf(Trust(e), e.top, VoteDiv(e, n))

(* The subnets of the first n votes, and which of them a vote repeats.     *)
VotedFrom(e, n) == {VoteSubnet(e, j) : j \in 1..n}

LEMMA VotesRepeat ==
    ASSUME NEW e \in EvidenceAggregate, NEW n \in 1..Folds(e.groups)
    PROVE  /\ VoteSubnet(e, n) \in Slots
           /\ DivFactor(VoteSubnet(e, n), VotedFrom(e, n - 1)) = VoteDiv(e, n)
           /\ VotedFrom(e, n) = VotedFrom(e, n - 1) \cup {VoteSubnet(e, n)}
<1> USE ConstantTypes
<1>1. PICK f \in Nat, m \in Nat : f = FullVotes(e) /\ m = MaxEvidenceFolds /\ f <= m /\ n <= m
  BY CountTypes DEF Slots
<1>2. \A j \in Nat : VoteSubnet(e, j) = IF j <= f THEN j - 1 ELSE m
  BY <1>1 DEF VoteSubnet
<1>3. VoteSubnet(e, n) \in Slots
  BY <1>1, <1>2 DEF Slots
<1>4. VotedFrom(e, n) = VotedFrom(e, n - 1) \cup {VoteSubnet(e, n)}
  BY DEF VotedFrom
<1>5. VoteSubnet(e, n) \in VotedFrom(e, n - 1) <=> n > f + 1
  <2>1. CASE n > f + 1
    <3>1. n - 1 \in 1..(n - 1) /\ VoteSubnet(e, n - 1) = m /\ VoteSubnet(e, n) = m
      BY <1>1, <1>2, <2>1
    <3> QED BY <2>1, <3>1 DEF VotedFrom
  <2>2. CASE ~ (n > f + 1)
    <3>1. ASSUME NEW j \in 1..(n - 1) PROVE VoteSubnet(e, j) # VoteSubnet(e, n)
      BY <1>1, <1>2, <2>2
    <3> QED BY <2>2, <3>1 DEF VotedFrom
  <2> QED BY <2>1, <2>2
<1> QED BY <1>1, <1>3, <1>4, <1>5 DEF DivFactor, VoteDiv

(* The scores of a fold of group votes.                                    *)
GroupScores(e) ==
    {g \in [0..Folds(e.groups) -> 0..Full] :
        /\ g[0] = 0
        /\ \A n \in 1..Folds(e.groups) : g[n] = g[n - 1] + Raise(VoteShare(e, n), g[n - 1])}

(* A record of a fold, before any dispute and any stranger.                *)
Clean == {r \in FoldRec : r.age = 0 /\ r.strangerContrib = 0 /\ r.disputeSubnets = {}}

LEMMA GroupsFoldedIs ==
    ASSUME NEW e \in EvidenceAggregate
    PROVE  /\ GroupsFolded(e) \in Clean
           /\ \E g \in GroupScores(e) : GroupsFolded(e).score = g[Folds(e.groups)]
<1> DEFINE n == Folds(e.groups)
           Next1(i, r) == Accumulate(r, SyntheticVote(e, VoteSubnet(e, i), TRUE))
           F == [t \in (1..n) \X FoldRec |-> Next1(t[1], t[2])]
           folded[i \in 0..Folds(e.groups)] ==
               IF i = 0 THEN NoRecord
                        ELSE Accumulate(folded[i - 1], SyntheticVote(e, VoteSubnet(e, i), TRUE))
<1>1. n \in Nat /\ NoRecord \in FoldRec
  BY CountTypes, SlotsAreNamed DEF Slots
<1>2. ASSUME NEW i \in 1..n
      PROVE  LET v == SyntheticVote(e, VoteSubnet(e, i), TRUE)
             IN  /\ v \in Obs({}, Slots) /\ v.trust = Trust(e) /\ v.weight = e.top
                 /\ v.subnet = VoteSubnet(e, i) /\ v.anchored /\ v.subnet # NoSubnet
  BY VoteTypes, VotesRepeat, SlotsAreNamed
<1>3. ASSUME NEW i \in 1..n, NEW r \in FoldRec PROVE Next1(i, r) \in FoldRec
  BY <1>2, AccumulateIs, SlotsAreNamed DEF FoldRec
<1>4. F \in StepsOf(n, FoldRec)
  <2>1. ASSUME NEW t \in (1..n) \X FoldRec PROVE Next1(t[1], t[2]) \in FoldRec
    <3>1. t[1] \in 1..n /\ t[2] \in FoldRec
      OBVIOUS
    <3> HIDE DEF Next1
    <3> QED BY <1>3, <3>1
  <2> HIDE DEF Next1
  <2> QED BY <2>1 DEF StepsOf
<1>5. PICK g \in [0..n -> FoldRec] :
          g[0] = NoRecord /\ \A i \in 1..n : g[i] = F[<< i, g[i - 1] >>]
  <2> HIDE DEF F, n
  <2>1. ValuesOf(n, FoldRec, NoRecord, F) # {}
    BY <1>1, <1>4, ValuesExist
  <2> QED BY <2>1 DEF ValuesOf
<1>6. ASSUME NEW i \in 1..n PROVE g[i] = Next1(i, g[i - 1])
  <2>1. g[i - 1] \in FoldRec
    BY <1>1
  <2>2. << i, g[i - 1] >> \in (1..n) \X FoldRec
    BY <2>1
  <2>3. F[<< i, g[i - 1] >>] = Next1(i, g[i - 1])
    <3> HIDE DEF Next1
    <3> QED BY <2>2
  <2> QED BY <1>5, <2>3
<1>7. g = [i \in 0..n |-> IF i = 0 THEN NoRecord ELSE Next1(i, g[i - 1])]
  <2> HIDE DEF Next1, F
  <2>1. \A i \in 0..n : i = 0 \/ i \in 1..n
    BY <1>1
  <2> HIDE DEF n
  <2>2. \A i \in 0..n : g[i] = IF i = 0 THEN NoRecord ELSE Next1(i, g[i - 1])
    BY <1>5, <1>6, <2>1
  <2> QED BY <2>2
<1>8. folded = [i \in 0..n |-> IF i = 0 THEN NoRecord ELSE Next1(i, folded[i - 1])]
  BY <1>7, Zenon
<1>9. GroupsFolded(e) = folded[n]
  BY Zenon DEF GroupsFolded
<1> HIDE DEF folded, F, Next1
<1>10. folded[0] = NoRecord /\ \A i \in 1..n : folded[i] = Next1(i, folded[i - 1])
  <2>1. 0 \in 0..n /\ \A i \in 1..n : i \in 0..n /\ i # 0
    BY <1>1
  <2> HIDE DEF n
  <2> QED BY <1>8, <2>1
<1> DEFINE Good(i) == {r \in Clean : r.subnets = VotedFrom(e, i)}
           G == {i \in 0..n : folded[i] \in Good(i)}
<1>11. ASSUME NEW i \in 1..n, NEW r \in Good(i - 1)
       PROVE  /\ Next1(i, r) \in Good(i)
              /\ Next1(i, r).score = r.score + Raise(VoteShare(e, i), r.score)
  <2> DEFINE v == SyntheticVote(e, VoteSubnet(e, i), TRUE)
             new == Accumulate(r, v)
  <2>1. /\ v \in Obs({}, Slots) /\ v.trust = Trust(e) /\ v.weight = e.top
        /\ v.subnet = VoteSubnet(e, i) /\ v.anchored /\ v.subnet # NoSubnet
    BY <1>2
  <2> HIDE DEF v
  <2>2. /\ r \in Rec({}, Slots) /\ r.age = 0 /\ r.strangerContrib = 0 /\ r.disputeSubnets = {}
        /\ r.subnets = VotedFrom(e, i - 1)
    BY DEF Clean, FoldRec
  <2>3. Decayed(r) = r.score
    BY <2>2, DecayedFacts
  <2>4. /\ new \in Rec({}, Slots) /\ new.age = 0
        /\ new.score = Decayed(r)
              + Raise(ShareOf(v.trust, v.weight, DivFactor(v.subnet, r.subnets)), Decayed(r))
        /\ new.strangerContrib = r.strangerContrib /\ new.disputeSubnets = r.disputeSubnets
        /\ new.subnets = r.subnets \cup ({v.subnet} \ {NoSubnet})
    <3> HIDE DEF new
    <3> QED BY <2>1, <2>2, AccumulateIs, SlotsAreNamed DEF new
  <2> HIDE DEF new
  <2>5. DivFactor(v.subnet, r.subnets) = VoteDiv(e, i)
    BY <2>1, <2>2, VotesRepeat
  <2>6. new.score = r.score + Raise(VoteShare(e, i), r.score)
    BY <2>1, <2>3, <2>4, <2>5 DEF VoteShare
  <2>7. new.subnets = VotedFrom(e, i)
    BY <2>1, <2>2, <2>4, VotesRepeat
  <2>8. new \in Good(i)
    BY <2>2, <2>4, <2>7 DEF Clean, FoldRec
  <2> QED BY <2>6, <2>8 DEF new, Next1, v
<1> HIDE DEF Good
<1>12. 0 \in G
  <2>1. NoRecord \in Good(0)
    BY SlotsAreNamed DEF Good, Clean, NoRecord, VotedFrom
  <2> QED BY <1>1, <1>10, <2>1
<1>13. ASSUME NEW i \in 1..n, i - 1 \in G PROVE i \in G
  BY <1>1, <1>10, <1>11, <1>13
<1>14. \A i \in 0..n : i \in G
  <2> HIDE DEF G, n
  <2> QED BY <1>1, <1>12, <1>13, UpTo
<1> DEFINE h == [i \in 0..n |-> folded[i].score]
<1>15. \A i \in 0..n : folded[i] \in Good(i) /\ folded[i].score \in 0..Full
  <2>1. ASSUME NEW i \in 0..n PROVE folded[i] \in Good(i) /\ folded[i].score \in 0..Full
    <3>1. folded[i] \in Good(i)
      BY <1>14
    <3> QED BY <3>1 DEF Good, Clean, FoldRec, Rec
  <2> QED BY <2>1
<1>16. h \in [0..n -> 0..Full] /\ h[0] = 0
  BY <1>1, <1>10, <1>15 DEF NoRecord
<1>17. ASSUME NEW i \in 1..n PROVE h[i] = h[i - 1] + Raise(VoteShare(e, i), h[i - 1])
  <2>1. i \in 0..n /\ i - 1 \in 0..n
    BY <1>1
  <2>2. folded[i].score = folded[i - 1].score + Raise(VoteShare(e, i), folded[i - 1].score)
    BY <1>10, <1>11, <1>15, <2>1
  <2> QED BY <2>1, <2>2
<1>18. h \in GroupScores(e) /\ h[n] = GroupsFolded(e).score
  <2>1. h[n] = GroupsFolded(e).score
    BY <1>1, <1>9
  <2> HIDE DEF h
  <2> QED BY <1>16, <1>17, <2>1 DEF GroupScores
<1>19. GroupsFolded(e) \in Clean
  BY <1>1, <1>9, <1>15 DEF Good
<1> QED BY <1>18, <1>19

(* The strangers' one vote, on a score s.                                  *)
WithStrangers(e, s) ==
    IF e.strangers THEN s + Lesser(Raise(ShareOf(Trust(e), e.top, Unit), s), StrangerCap) ELSE s

(* A record of a fold to which disputes are applied.                       *)
Undisputed == {r \in FoldRec : r.age = 0 /\ r.disputeSubnets = {}}

LEMMA StrangersFoldedIs ==
    ASSUME NEW e \in EvidenceAggregate
    PROVE  /\ StrangersFolded(e) \in Undisputed
           /\ StrangersFolded(e).score = WithStrangers(e, GroupsFolded(e).score)
<1> DEFINE r == GroupsFolded(e)
           v == SyntheticVote(e, NoSubnet, FALSE)
           new == Accumulate(r, v)
<1>1. r \in Clean /\ e.strangers \in BOOLEAN
  BY GroupsFoldedIs, CountTypes
<1> HIDE DEF r
<1>2. CASE ~ e.strangers
  BY <1>1, <1>2 DEF StrangersFolded, WithStrangers, Undisputed, Clean, r
<1>3. CASE e.strangers
  <2>1. /\ v \in Obs({}, Slots) /\ v.trust = Trust(e) /\ v.weight = e.top
        /\ v.subnet = NoSubnet /\ ~ v.anchored
    BY VoteTypes
  <2> HIDE DEF v
  <2>2. /\ r \in Rec({}, Slots) /\ r.age = 0 /\ r.strangerContrib = 0 /\ r.disputeSubnets = {}
        /\ r.subnets \subseteq Slots
    BY <1>1 DEF Clean, FoldRec, Rec
  <2>3. Decayed(r) = r.score
    BY <2>2, DecayedFacts
  <2>4. /\ new \in Rec({}, Slots) /\ new.age = 0
        /\ new.score = Decayed(r)
              + Lesser(Raise(ShareOf(v.trust, v.weight, DivFactor(v.subnet, r.subnets)), Decayed(r)),
                       Remaining(r.strangerContrib))
        /\ new.disputeSubnets = r.disputeSubnets
    <3> HIDE DEF new
    <3> QED BY <2>1, <2>2, AccumulateIs, SlotsAreNamed DEF new
  <2> HIDE DEF new
  <2>5. DivFactor(v.subnet, r.subnets) = Unit
    BY <2>1, <2>2, SlotsAreNamed DEF DivFactor
  <2>6. Remaining(r.strangerContrib) = StrangerCap
    BY <2>2, ConstantTypes DEF Remaining
  <2>7. new.score = WithStrangers(e, r.score)
    BY <1>3, <2>1, <2>3, <2>4, <2>5, <2>6 DEF WithStrangers
  <2>8. StrangersFolded(e) = new
    BY <1>3 DEF StrangersFolded, new, r, v
  <2> QED BY <2>2, <2>4, <2>7, <2>8 DEF Undisputed, FoldRec, r
<1> QED BY <1>1, <1>2, <1>3

(* The scores of a fold of disputes that starts at s.                      *)
DisputeShare(e) == ShareOf(Trust(e), DisputeWeight, Unit)
DisputeScores(e, s) ==
    {g \in [0..Folds(e.disputeSubnets) -> 0..Full] :
        /\ g[0] = s
        /\ \A n \in 1..Folds(e.disputeSubnets) : g[n] = Left(DisputeShare(e), Scale, g[n - 1])}

LEMMA DisputesFoldedIs ==
    ASSUME NEW e \in EvidenceAggregate
    PROVE  \E g \in DisputeScores(e, StrangersFolded(e).score) :
               DisputesFolded(e).score = g[Folds(e.disputeSubnets)]
<1> DEFINE n == Folds(e.disputeSubnets)
           b == StrangersFolded(e)
           Next1(i, r) == ApplyDispute(r, SyntheticVote(e, i - 1, TRUE))
           F == [t \in (1..n) \X FoldRec |-> Next1(t[1], t[2])]
           folded[i \in 0..Folds(e.disputeSubnets)] ==
               IF i = 0 THEN StrangersFolded(e)
                        ELSE ApplyDispute(folded[i - 1], SyntheticVote(e, i - 1, TRUE))
<1>1. n \in Nat /\ n <= MaxEvidenceFolds /\ b \in Undisputed /\ b \in FoldRec
  BY CountTypes, StrangersFoldedIs, ConstantTypes DEF Slots, Undisputed
<1> HIDE DEF b
<1>2. ASSUME NEW i \in 1..n
      PROVE  LET v == SyntheticVote(e, i - 1, TRUE)
             IN  /\ v \in Obs({}, Slots) /\ v.trust = Trust(e)
                 /\ v.subnet = i - 1 /\ v.anchored
  <2>1. i - 1 \in Slots
    BY <1>1, ConstantTypes DEF Slots
  <2> QED BY <2>1, VoteTypes
<1>3. ASSUME NEW i \in 1..n, NEW r \in FoldRec PROVE Next1(i, r) \in FoldRec
  BY <1>2, ApplyDisputeIs, SlotsAreNamed DEF FoldRec
<1>4. F \in StepsOf(n, FoldRec)
  <2>1. ASSUME NEW t \in (1..n) \X FoldRec PROVE Next1(t[1], t[2]) \in FoldRec
    <3>1. t[1] \in 1..n /\ t[2] \in FoldRec
      OBVIOUS
    <3> HIDE DEF Next1
    <3> QED BY <1>3, <3>1
  <2> HIDE DEF Next1
  <2> QED BY <2>1 DEF StepsOf
<1>5. PICK g \in [0..n -> FoldRec] :
          g[0] = b /\ \A i \in 1..n : g[i] = F[<< i, g[i - 1] >>]
  <2> HIDE DEF F, n
  <2>1. ValuesOf(n, FoldRec, b, F) # {}
    BY <1>1, <1>4, ValuesExist
  <2> QED BY <2>1 DEF ValuesOf
<1>6. ASSUME NEW i \in 1..n PROVE g[i] = Next1(i, g[i - 1])
  <2>1. g[i - 1] \in FoldRec
    BY <1>1
  <2>2. << i, g[i - 1] >> \in (1..n) \X FoldRec
    BY <2>1
  <2>3. F[<< i, g[i - 1] >>] = Next1(i, g[i - 1])
    <3> HIDE DEF Next1
    <3> QED BY <2>2
  <2> QED BY <1>5, <2>3
<1>7. g = [i \in 0..n |-> IF i = 0 THEN b ELSE Next1(i, g[i - 1])]
  <2> HIDE DEF Next1, F
  <2>1. \A i \in 0..n : i = 0 \/ i \in 1..n
    BY <1>1
  <2> HIDE DEF n
  <2>2. \A i \in 0..n : g[i] = IF i = 0 THEN b ELSE Next1(i, g[i - 1])
    BY <1>5, <1>6, <2>1
  <2> QED BY <2>2
<1>8. folded = [i \in 0..n |-> IF i = 0 THEN b ELSE Next1(i, folded[i - 1])]
  BY <1>7, Zenon DEF b
<1>9. DisputesFolded(e) = folded[n]
  BY Zenon DEF DisputesFolded
<1> HIDE DEF folded, F, Next1
<1>10. folded[0] = b /\ \A i \in 1..n : folded[i] = Next1(i, folded[i - 1])
  <2>1. 0 \in 0..n /\ \A i \in 1..n : i \in 0..n /\ i # 0
    BY <1>1
  <2> HIDE DEF n
  <2> QED BY <1>8, <2>1
<1> DEFINE Good(i) == {r \in FoldRec : r.age = 0 /\ r.disputeSubnets \subseteq 0..(i - 1)}
           G == {i \in 0..n : folded[i] \in Good(i)}
<1>11. ASSUME NEW i \in 1..n, NEW r \in Good(i - 1)
       PROVE  /\ Next1(i, r) \in Good(i)
              /\ Next1(i, r).score = Left(DisputeShare(e), Scale, r.score)
  <2> DEFINE v == SyntheticVote(e, i - 1, TRUE)
             new == ApplyDispute(r, v)
  <2>1. v \in Obs({}, Slots) /\ v.trust = Trust(e) /\ v.subnet = i - 1 /\ v.anchored
    BY <1>2
  <2> HIDE DEF v
  <2>2. r \in Rec({}, Slots) /\ r.age = 0 /\ r.disputeSubnets \subseteq 0..(i - 1 - 1)
    BY DEF FoldRec
  <2>3. Decayed(r) = r.score
    BY <2>2, DecayedFacts
  <2>4. /\ new \in Rec({}, Slots) /\ new.age = 0
        /\ new.score = Left(ShareOf(v.trust, DisputeWeight, DivFactor(v.subnet, r.disputeSubnets)),
                            Scale, Decayed(r))
        /\ new.disputeSubnets \subseteq r.disputeSubnets \cup {v.subnet}
    <3> HIDE DEF new
    <3> QED BY <2>1, <2>2, ApplyDisputeIs, SlotsAreNamed DEF new
  <2> HIDE DEF new
  <2>5. DivFactor(v.subnet, r.disputeSubnets) = Unit
    BY <2>1, <2>2 DEF DivFactor
  <2>6. new.score = Left(DisputeShare(e), Scale, r.score)
    BY <2>1, <2>3, <2>4, <2>5 DEF DisputeShare
  <2>7. new.disputeSubnets \subseteq 0..(i - 1)
    BY <2>1, <2>2, <2>4
  <2>8. new \in Good(i)
    BY <2>4, <2>7 DEF FoldRec
  <2> QED BY <2>6, <2>8 DEF new, Next1, v
<1>12. 0 \in G
  BY <1>1, <1>10 DEF Undisputed
<1> HIDE DEF Good
<1>13. ASSUME NEW i \in 1..n, i - 1 \in G PROVE i \in G
  BY <1>1, <1>10, <1>11, <1>13
<1>14. \A i \in 0..n : i \in G
  <2> HIDE DEF G, n
  <2> QED BY <1>1, <1>12, <1>13, UpTo
<1> DEFINE h == [i \in 0..n |-> folded[i].score]
<1>15. \A i \in 0..n : folded[i] \in Good(i) /\ folded[i].score \in 0..Full
  <2>1. ASSUME NEW i \in 0..n PROVE folded[i] \in Good(i) /\ folded[i].score \in 0..Full
    <3>1. folded[i] \in Good(i)
      BY <1>14
    <3> QED BY <3>1 DEF Good, FoldRec, Rec
  <2> QED BY <2>1
<1>16. h \in [0..n -> 0..Full] /\ h[0] = b.score
  BY <1>1, <1>10, <1>15
<1>17. ASSUME NEW i \in 1..n PROVE h[i] = Left(DisputeShare(e), Scale, h[i - 1])
  <2>1. i \in 0..n /\ i - 1 \in 0..n
    BY <1>1
  <2>2. folded[i].score = Left(DisputeShare(e), Scale, folded[i - 1].score)
    BY <1>10, <1>11, <1>15, <2>1
  <2> QED BY <2>1, <2>2
<1>18. h[n] = DisputesFolded(e).score
  BY <1>1, <1>9
<1> HIDE DEF h
<1>19. h \in DisputeScores(e, b.score)
  BY <1>16, <1>17 DEF DisputeScores
<1> QED BY <1>18, <1>19 DEF b

(***************************************************************************)
(* More evidence is worth more, more disputes less.                        *)
(***************************************************************************)

LEMMA VoteShareFacts ==
    ASSUME NEW e \in EvidenceAggregate, NEW n \in Nat
    PROVE  VoteDiv(e, n) \in 0..Unit /\ VoteShare(e, n) \in 0..Scale
<1>1. VoteDiv(e, n) \in 0..Unit
  BY ConstantTypes DEF VoteDiv
<1> QED BY <1>1, CountTypes, ShareFacts DEF VoteShare

LEMMA GroupScoresMonotone ==
    ASSUME NEW e \in EvidenceAggregate, NEW f \in EvidenceAggregate,
           Trust(e) = Trust(f), e.top <= f.top,
           Folds(e.groups) <= Folds(f.groups), FullVotes(e) <= FullVotes(f),
           NEW g \in GroupScores(e), NEW h \in GroupScores(f)
    PROVE  g[Folds(e.groups)] <= h[Folds(f.groups)]
<1> USE ConstantTypes
<1>1. PICK n \in Nat, m \in Nat : n = Folds(e.groups) /\ m = Folds(f.groups) /\ n <= m
  BY CountTypes DEF Slots
<1>2. /\ g \in [0..n -> 0..Full] /\ g[0] = 0
      /\ \A i \in 1..n : g[i] = g[i - 1] + Raise(VoteShare(e, i), g[i - 1])
  BY <1>1 DEF GroupScores
<1>3. /\ h \in [0..m -> 0..Full] /\ h[0] = 0
      /\ \A i \in 1..m : h[i] = h[i - 1] + Raise(VoteShare(f, i), h[i - 1])
  BY <1>1 DEF GroupScores
<1>4. ASSUME NEW i \in Nat PROVE VoteShare(e, i) \in 0..VoteShare(f, i) /\ VoteShare(f, i) \in 0..Scale
  <2>1. VoteDiv(e, i) \in 0..VoteDiv(f, i) /\ VoteDiv(f, i) \in 0..Unit
    <3>1. FullVotes(e) \in Nat /\ FullVotes(f) \in Nat
      BY CountTypes DEF Slots
    <3> QED BY <3>1 DEF VoteDiv
  <2>2. Trust(f) \in 0..Unit /\ f.top \in 0..Full /\ e.top \in 0..f.top
    BY CountTypes
  <2> QED BY <2>1, <2>2, ShareFacts DEF VoteShare
<1> DEFINE A == {i \in 0..n : g[i] <= h[i]}
           B == {i \in 0..(m - n) : g[n] <= h[n + i]}
<1>5. \A i \in 0..n : i \in A
  <2>1. 0 \in A
    BY <1>2, <1>3
  <2>2. ASSUME NEW i \in 1..n, i - 1 \in A PROVE i \in A
    <3>1. i \in 1..m /\ i - 1 \in 0..n /\ i - 1 \in 0..m /\ i \in 0..n /\ i \in Nat
      BY <1>1
    <3>2. PICK x \in 0..Full, y \in 0..Full : x = g[i - 1] /\ y = h[i - 1] /\ x <= y
      BY <1>2, <1>3, <2>2, <3>1
    <3>3. x + Raise(VoteShare(e, i), x) <= y + Raise(VoteShare(f, i), y)
      <4>1. x \in 0..y
        BY <3>2
      <4>2. VoteShare(e, i) \in 0..VoteShare(f, i) /\ VoteShare(f, i) \in 0..Scale
        BY <1>4, <3>1
      <4> QED BY <4>1, <4>2, RaiseMonotone
    <3> QED BY <1>2, <1>3, <3>1, <3>2, <3>3
  <2> HIDE DEF A
  <2> QED BY <1>1, <2>1, <2>2, UpTo
<1>6. \A i \in 0..(m - n) : i \in B
  <2>1. 0 \in B
    BY <1>1, <1>5
  <2>2. ASSUME NEW i \in 1..(m - n), i - 1 \in B PROVE i \in B
    <3>1. n + i \in 1..m /\ n + i - 1 \in 0..m /\ n + (i - 1) = n + i - 1 /\ i \in 0..(m - n)
      BY <1>1
    <3>2. PICK y \in 0..Full : y = h[n + i - 1]
      BY <1>3, <3>1
    <3>3. g[n] <= y /\ g[n] \in 0..Full
      BY <1>1, <1>2, <2>2, <3>1, <3>2
    <3>4. Raise(VoteShare(f, n + i), y) \in Nat
      BY <1>4, <3>1, RaiseBounds
    <3>5. h[n + i] = y + Raise(VoteShare(f, n + i), y)
      BY <1>3, <3>1, <3>2
    <3> QED BY <3>1, <3>3, <3>4, <3>5
  <2>3. m - n \in Nat
    BY <1>1
  <2> HIDE DEF B
  <2> QED BY <2>1, <2>2, <2>3, UpTo
<1>7. g[n] <= h[n + (m - n)] /\ n + (m - n) = m
  BY <1>1, <1>6
<1> QED BY <1>1, <1>7

LEMMA WithStrangersFacts ==
    ASSUME NEW e \in EvidenceAggregate, NEW s \in 0..Full
    PROVE  WithStrangers(e, s) \in s..Full /\ WithStrangers(e, s) <= s + StrangerCap
<1> USE ConstantTypes
<1>1. ShareOf(Trust(e), e.top, Unit) \in 0..Scale
  BY CountTypes, ShareFacts
<1>2. Raise(ShareOf(Trust(e), e.top, Unit), s) \in 0..(Full - s)
  BY <1>1, RaiseBounds
<1> QED BY <1>2, CountTypes DEF WithStrangers, Lesser

LEMMA WithStrangersMonotone ==
    ASSUME NEW e \in EvidenceAggregate, NEW f \in EvidenceAggregate,
           Trust(e) = Trust(f), e.top <= f.top, e.strangers => f.strangers,
           NEW s \in 0..Full, NEW l \in 0..s
    PROVE  WithStrangers(e, l) <= WithStrangers(f, s)
<1> USE ConstantTypes
<1>1. l \in 0..Full /\ e.strangers \in BOOLEAN /\ f.strangers \in BOOLEAN
  BY CountTypes
<1>2. CASE ~ e.strangers
  BY <1>1, <1>2, WithStrangersFacts DEF WithStrangers
<1>3. CASE e.strangers
  <2> DEFINE p == ShareOf(Trust(e), e.top, Unit)
             q == ShareOf(Trust(f), f.top, Unit)
  <2>1. q \in 0..Scale /\ p \in 0..q
    BY CountTypes, ShareFacts
  <2>2. p \in 0..Scale
    BY <2>1
  <2> HIDE DEF p, q
  <2>3. Raise(p, l) \in Nat /\ Raise(q, s) \in Nat
    BY <1>1, <2>1, <2>2, RaiseBounds
  <2>4. l + Raise(p, l) <= s + Raise(q, s)
    BY <2>1, RaiseMonotone
  <2>5. WithStrangers(e, l) = l + Lesser(Raise(p, l), StrangerCap)
        /\ WithStrangers(f, s) = s + Lesser(Raise(q, s), StrangerCap)
    BY <1>3 DEF WithStrangers, p, q
  <2> QED BY <2>3, <2>4, <2>5 DEF Lesser
<1> QED BY <1>1, <1>2, <1>3

LEMMA DisputeShareType ==
    ASSUME NEW e \in EvidenceAggregate
    PROVE  DisputeShare(e) \in Nat
<1>1. Trust(e) * DisputeWeight \in Nat
  BY CountTypes, ConstantTypes
<1> QED BY <1>1, ConstantTypes DEF DisputeShare, ShareOf

LEMMA DisputeScoresMonotone ==
    ASSUME NEW e \in EvidenceAggregate, NEW f \in EvidenceAggregate,
           Trust(e) = Trust(f), Folds(f.disputeSubnets) <= Folds(e.disputeSubnets),
           NEW s \in 0..Full, NEW l \in 0..s,
           NEW g \in DisputeScores(e, l), NEW h \in DisputeScores(f, s)
    PROVE  g[Folds(e.disputeSubnets)] <= h[Folds(f.disputeSubnets)]
<1> USE ConstantTypes
<1>1. PICK n \in Nat, m \in Nat :
          n = Folds(e.disputeSubnets) /\ m = Folds(f.disputeSubnets) /\ m <= n
  BY CountTypes DEF Slots
<1>2. PICK q \in Nat : q = DisputeShare(e) /\ q = DisputeShare(f)
  BY DisputeShareType DEF DisputeShare
<1>3. /\ g \in [0..n -> 0..Full] /\ g[0] = l
      /\ \A i \in 1..n : g[i] = Left(q, Scale, g[i - 1])
  BY <1>1, <1>2 DEF DisputeScores
<1>4. /\ h \in [0..m -> 0..Full] /\ h[0] = s
      /\ \A i \in 1..m : h[i] = Left(q, Scale, h[i - 1])
  BY <1>1, <1>2 DEF DisputeScores
<1> DEFINE A == {i \in 0..m : g[i] <= h[i]}
           B == {i \in 0..(n - m) : g[m + i] <= h[m]}
<1>5. \A i \in 0..m : i \in A
  <2>1. 0 \in A
    BY <1>3, <1>4
  <2>2. ASSUME NEW i \in 1..m, i - 1 \in A PROVE i \in A
    <3>1. i \in 1..n /\ i - 1 \in 0..n /\ i - 1 \in 0..m /\ i \in 0..m
      BY <1>1
    <3>2. PICK x \in 0..Full, y \in 0..Full : x = g[i - 1] /\ y = h[i - 1] /\ x <= y
      BY <1>3, <1>4, <2>2, <3>1
    <3>3. Left(q, Scale, x) <= Left(q, Scale, y)
      <4>1. x \in 0..y /\ y \in Nat
        BY <3>2
      <4> QED BY <4>1, LeftFacts
    <3> QED BY <1>3, <1>4, <3>1, <3>2, <3>3
  <2> HIDE DEF A
  <2> QED BY <1>1, <2>1, <2>2, UpTo
<1>6. \A i \in 0..(n - m) : i \in B
  <2>1. 0 \in B
    BY <1>1, <1>5
  <2>2. ASSUME NEW i \in 1..(n - m), i - 1 \in B PROVE i \in B
    <3>1. m + i \in 1..n /\ m + i - 1 \in 0..n /\ m + (i - 1) = m + i - 1 /\ i \in 0..(n - m)
      BY <1>1
    <3>2. PICK x \in 0..Full : x = g[m + i - 1]
      BY <1>3, <3>1
    <3>3. x <= h[m] /\ h[m] \in 0..Full
      BY <1>1, <1>4, <2>2, <3>1, <3>2
    <3>4. Left(q, Scale, x) \in 0..x
      BY LeftFacts
    <3>5. g[m + i] = Left(q, Scale, x)
      BY <1>3, <3>1, <3>2
    <3> QED BY <3>1, <3>3, <3>4, <3>5
  <2>3. n - m \in Nat
    BY <1>1
  <2> HIDE DEF B
  <2> QED BY <2>1, <2>2, <2>3, UpTo
<1>7. g[m + (n - m)] <= h[m] /\ m + (n - m) = n
  BY <1>1, <1>6
<1> QED BY <1>1, <1>7

LEMMA DisputesOnlyLower ==
    ASSUME NEW e \in EvidenceAggregate, NEW s \in 0..Full, NEW g \in DisputeScores(e, s)
    PROVE  g[Folds(e.disputeSubnets)] \in 0..s
<1> USE ConstantTypes
<1>1. PICK n \in Nat : n = Folds(e.disputeSubnets)
  BY CountTypes DEF Slots
<1>2. PICK q \in Nat : q = DisputeShare(e)
  BY DisputeShareType
<1>3. /\ g \in [0..n -> 0..Full] /\ g[0] = s
      /\ \A i \in 1..n : g[i] = Left(q, Scale, g[i - 1])
  BY <1>1, <1>2 DEF DisputeScores
<1> DEFINE A == {i \in 0..n : g[i] \in 0..s}
<1>4. 0 \in A
  BY <1>3
<1>5. ASSUME NEW i \in 1..n, i - 1 \in A PROVE i \in A
  <2>1. PICK x \in 0..s : x = g[i - 1]
    BY <1>5
  <2>2. Left(q, Scale, x) \in 0..x
    BY LeftFacts
  <2> QED BY <1>3, <2>1, <2>2
<1>6. \A i \in 0..n : i \in A
  <2> HIDE DEF A
  <2> QED BY <1>4, <1>5, UpTo
<1> QED BY <1>1, <1>6

(* The three stages of a recompute.                                        *)
LEMMA Stages ==
    ASSUME NEW e \in EvidenceAggregate
    PROVE  \E s \in 0..Full, l \in 0..Full :
              /\ \E g \in GroupScores(e) : s = g[Folds(e.groups)]
              /\ \E g \in DisputeScores(e, WithStrangers(e, s)) : l = g[Folds(e.disputeSubnets)]
              /\ WithStrangers(e, s) \in 0..Full /\ l \in 0..WithStrangers(e, s)
              /\ RecordFromEvidence(e) = DecayScore(l, e.age)
<1> USE ConstantTypes
<1>1. PICK g \in GroupScores(e) : GroupsFolded(e).score = g[Folds(e.groups)]
  BY GroupsFoldedIs
<1>2. PICK s \in 0..Full : s = g[Folds(e.groups)]
  <2>1. Folds(e.groups) \in 0..Folds(e.groups)
    BY CountTypes DEF Slots
  <2> QED BY <2>1 DEF GroupScores
<1>3. StrangersFolded(e).score = WithStrangers(e, s)
  BY <1>1, <1>2, StrangersFoldedIs
<1>4. WithStrangers(e, s) \in 0..Full
  BY WithStrangersFacts
<1>5. PICK h \in DisputeScores(e, WithStrangers(e, s)) :
          DisputesFolded(e).score = h[Folds(e.disputeSubnets)]
  BY <1>3, DisputesFoldedIs
<1>6. PICK l \in 0..WithStrangers(e, s) : l = h[Folds(e.disputeSubnets)]
  BY <1>4, DisputesOnlyLower
<1>7. l \in 0..Full
  BY <1>4
<1>8. RecordFromEvidence(e) = DecayScore(l, e.age)
  BY <1>5, <1>6 DEF RecordFromEvidence
<1> QED BY <1>1, <1>2, <1>4, <1>5, <1>6, <1>7, <1>8

(* No less evidence of the same weight, not more disputed and not more     *)
(* decayed, is worth no less.                                              *)
AtLeast(e, f) ==
    /\ Trust(e) = Trust(f) /\ e.top <= f.top /\ (e.strangers => f.strangers)
    /\ Folds(e.groups) <= Folds(f.groups) /\ FullVotes(e) <= FullVotes(f)
    /\ Folds(f.disputeSubnets) <= Folds(e.disputeSubnets)
    /\ Retained[e.age] <= Retained[f.age]

LEMMA RecomputeMonotone ==
    ASSUME NEW e \in EvidenceAggregate, NEW f \in EvidenceAggregate, AtLeast(e, f)
    PROVE  RecordFromEvidence(e) <= RecordFromEvidence(f)
<1> USE ConstantTypes
<1>1. PICK s \in 0..Full, l \in 0..Full :
          /\ \E g \in GroupScores(e) : s = g[Folds(e.groups)]
          /\ \E g \in DisputeScores(e, WithStrangers(e, s)) : l = g[Folds(e.disputeSubnets)]
          /\ WithStrangers(e, s) \in 0..Full
          /\ RecordFromEvidence(e) = DecayScore(l, e.age)
  BY Stages
<1>2. PICK t \in 0..Full, m \in 0..Full :
          /\ \E g \in GroupScores(f) : t = g[Folds(f.groups)]
          /\ \E g \in DisputeScores(f, WithStrangers(f, t)) : m = g[Folds(f.disputeSubnets)]
          /\ WithStrangers(f, t) \in 0..Full
          /\ RecordFromEvidence(f) = DecayScore(m, f.age)
  BY Stages
<1>3. s \in 0..t
  BY <1>1, <1>2, GroupScoresMonotone DEF AtLeast
<1>4. PICK x \in 0..Full, y \in 0..Full : x = WithStrangers(e, s) /\ y = WithStrangers(f, t)
  BY <1>1, <1>2
<1>5. x \in 0..y
  <2>1. x <= y
    BY <1>3, <1>4, WithStrangersMonotone DEF AtLeast
  <2> QED BY <2>1
<1>6. l \in 0..m
  <2>1. PICK g \in DisputeScores(e, x) : l = g[Folds(e.disputeSubnets)]
    BY <1>1, <1>4
  <2>2. PICK h \in DisputeScores(f, y) : m = h[Folds(f.disputeSubnets)]
    BY <1>2, <1>4
  <2>3. l <= m
    BY <1>5, <2>1, <2>2, DisputeScoresMonotone DEF AtLeast
  <2> QED BY <2>3
<1>7. e.age \in 0..MaxAge /\ f.age \in 0..MaxAge
  BY CountTypes
<1>8. m \in Nat /\ Retained[e.age] <= Retained[f.age]
  BY DEF AtLeast
<1>9. DecayScore(l, e.age) <= DecayScore(m, f.age)
  BY <1>6, <1>7, <1>8, DecayFacts
<1> QED BY <1>1, <1>2, <1>9

LEMMA RecomputeBounds ==
    ASSUME NEW e \in EvidenceAggregate
    PROVE  /\ RecordFromEvidence(e) \in 0..Full
           /\ e.groups <= 0 => RecordFromEvidence(e) <= StrangerCap
           /\ e.weight <= 0 => RecordFromEvidence(e) = 0
<1> USE ConstantTypes
<1>1. PICK s \in 0..Full, l \in 0..Full :
          /\ \E g \in GroupScores(e) : s = g[Folds(e.groups)]
          /\ WithStrangers(e, s) \in 0..Full /\ l \in 0..WithStrangers(e, s)
          /\ RecordFromEvidence(e) = DecayScore(l, e.age)
  BY Stages
<1>2. RecordFromEvidence(e) \in 0..l
  BY <1>1, CountTypes, DecayFacts
<1>3. PICK g \in GroupScores(e) : s = g[Folds(e.groups)]
  BY <1>1
<1>4. PICK n \in Nat : n = Folds(e.groups)
  BY CountTypes DEF Slots
<1>5. /\ g \in [0..n -> 0..Full] /\ g[0] = 0
      /\ \A i \in 1..n : g[i] = g[i - 1] + Raise(VoteShare(e, i), g[i - 1])
  BY <1>4 DEF GroupScores
<1>6. ASSUME e.groups <= 0 PROVE RecordFromEvidence(e) <= StrangerCap
  <2>1. n = 0
    BY <1>4, <1>6 DEF Folds, Clamp, Lesser, EvidenceAggregate
  <2>2. s = 0
    BY <1>3, <1>4, <1>5, <2>1
  <2>3. WithStrangers(e, s) <= s + StrangerCap
    BY WithStrangersFacts
  <2> QED BY <1>1, <1>2, <2>2, <2>3
<1>7. ASSUME e.weight <= 0 PROVE RecordFromEvidence(e) = 0
  <2>1. Trust(e) = 0
    BY <1>7, CountTypes
  <2>2. ASSUME NEW d \in Nat PROVE ShareOf(Trust(e), e.top, d) = 0
    BY <2>1, CountTypes DEF ShareOf
  <2>3. ASSUME NEW x \in 0..Full PROVE Raise(0, x) = 0
    <3>1. 0 * (Full - x) = 0 /\ 0 \div Scale = 0
      BY DivShift
    <3> QED BY <3>1 DEF Raise
  <2> DEFINE A == {i \in 0..n : g[i] = 0}
  <2>4. 0 \in A
    BY <1>5
  <2>5. ASSUME NEW i \in 1..n, i - 1 \in A PROVE i \in A
    <3>1. VoteShare(e, i) = 0
      BY <2>2 DEF VoteShare, VoteDiv
    <3> QED BY <1>5, <2>3, <2>5, <3>1
  <2>6. \A i \in 0..n : i \in A
    <3> HIDE DEF A
    <3> QED BY <2>4, <2>5, UpTo
  <2>7. s = 0
    BY <1>3, <1>4, <2>6
  <2>8. WithStrangers(e, s) = 0
    <3>1. Raise(ShareOf(Trust(e), e.top, Unit), s) = 0
      BY <2>2, <2>3
    <3> QED BY <2>7, <3>1, CountTypes DEF WithStrangers, Lesser
  <2> QED BY <1>1, <1>2, <2>8
<1>8. RecordFromEvidence(e) \in 0..Full
  BY <1>1, <1>2
<1> QED BY <1>6, <1>7, <1>8

(* The clauses of EvidenceIsBounded, for one aggregate.                    *)
LEMMA EvidenceBounds ==
    ASSUME ev \in EvidenceAggregate
    PROVE  EvidenceIsBounded
<1> USE ConstantTypes
<1>1. /\ ev.groups \in Int /\ ev.disputeSubnets \in Int /\ ev.subnets \in Int
      /\ ev.weight \in Int /\ ev.top \in 0..Full /\ ev.age \in 0..MaxAge
  BY DEF EvidenceAggregate
<1>2. Retained[ev.age] <= Retained[ev.age]
  <2>1. Retained[ev.age] \in 0..Unit
    BY <1>1, ScoringAssumption
  <2> QED BY <2>1
<1> DEFINE score == RecordFromEvidence(ev)
           g1 == [ev EXCEPT !.groups = @ + 1]
           s1 == [ev EXCEPT !.subnets = @ + 1]
           d1 == [ev EXCEPT !.disputeSubnets = @ + 1]
           gm == [ev EXCEPT !.groups = MaxEvidenceFolds]
           w1 == [ev EXCEPT !.weight = Unit]
<1>3. RecordFromEvidence(g1) >= score
  <2>1. g1 \in EvidenceAggregate
    BY DEF EvidenceAggregate
  <2>2. /\ g1.groups = ev.groups + 1 /\ g1.subnets = ev.subnets /\ g1.top = ev.top
        /\ g1.disputeSubnets = ev.disputeSubnets /\ g1.weight = ev.weight
        /\ g1.strangers = ev.strangers /\ g1.age = ev.age
    BY DEF EvidenceAggregate
  <2> HIDE DEF g1
  <2>3. Folds(ev.groups) <= Folds(g1.groups)
    BY <1>1, <2>2 DEF Folds, Clamp, Lesser
  <2>4. FullVotes(ev) <= FullVotes(g1)
    <3>1. Folds(ev.groups) \in Nat /\ Folds(g1.groups) \in Nat
      BY <2>1, CountTypes DEF Slots
    <3> QED BY <1>1, <2>2, <2>3, <3>1 DEF FullVotes, Lesser
  <2>5. Folds(ev.disputeSubnets) \in Nat
    BY CountTypes DEF Slots
  <2>6. AtLeast(ev, g1)
    BY <1>1, <1>2, <2>2, <2>3, <2>4, <2>5 DEF AtLeast, Trust
  <2> QED BY <2>1, <2>6, RecomputeMonotone, RecomputeBounds
<1>4. RecordFromEvidence(s1) >= score
  <2>1. s1 \in EvidenceAggregate
    BY DEF EvidenceAggregate
  <2>2. /\ s1.groups = ev.groups /\ s1.subnets = ev.subnets + 1 /\ s1.top = ev.top
        /\ s1.disputeSubnets = ev.disputeSubnets /\ s1.weight = ev.weight
        /\ s1.strangers = ev.strangers /\ s1.age = ev.age
    BY DEF EvidenceAggregate
  <2> HIDE DEF s1
  <2>3. Folds(ev.groups) \in Nat /\ Folds(ev.disputeSubnets) \in Nat
    BY CountTypes DEF Slots
  <2>4. FullVotes(ev) <= FullVotes(s1)
    BY <1>1, <2>2, <2>3 DEF FullVotes, Lesser
  <2>5. AtLeast(ev, s1)
    BY <1>1, <1>2, <2>2, <2>3, <2>4 DEF AtLeast, Trust
  <2> QED BY <2>1, <2>5, RecomputeMonotone, RecomputeBounds
<1>5. RecordFromEvidence(d1) <= score
  <2>1. d1 \in EvidenceAggregate
    BY DEF EvidenceAggregate
  <2>2. /\ d1.groups = ev.groups /\ d1.subnets = ev.subnets /\ d1.top = ev.top
        /\ d1.disputeSubnets = ev.disputeSubnets + 1 /\ d1.weight = ev.weight
        /\ d1.strangers = ev.strangers /\ d1.age = ev.age
    BY DEF EvidenceAggregate
  <2> HIDE DEF d1
  <2>3. Folds(ev.groups) \in Nat /\ FullVotes(ev) \in Nat /\ FullVotes(d1) = FullVotes(ev)
    BY <2>2, CountTypes DEF Slots, FullVotes
  <2>4. Folds(ev.disputeSubnets) <= Folds(d1.disputeSubnets)
    BY <1>1, <2>2 DEF Folds, Clamp, Lesser
  <2>5. AtLeast(d1, ev)
    BY <1>1, <1>2, <2>2, <2>3, <2>4 DEF AtLeast, Trust
  <2> QED BY <2>1, <2>5, RecomputeMonotone, RecomputeBounds
<1>6. ev.groups >= MaxEvidenceFolds => RecordFromEvidence(gm) = score
  <2> SUFFICES ASSUME ev.groups >= MaxEvidenceFolds PROVE RecordFromEvidence(gm) = score
    OBVIOUS
  <2>1. gm \in EvidenceAggregate
    BY DEF EvidenceAggregate
  <2>2. /\ gm.groups = MaxEvidenceFolds /\ gm.subnets = ev.subnets /\ gm.top = ev.top
        /\ gm.disputeSubnets = ev.disputeSubnets /\ gm.weight = ev.weight
        /\ gm.strangers = ev.strangers /\ gm.age = ev.age
    BY DEF EvidenceAggregate
  <2> HIDE DEF gm
  <2>3. Folds(ev.groups) = Folds(gm.groups) /\ Folds(ev.groups) \in Nat
    BY <1>1, <2>2 DEF Folds, Clamp, Lesser
  <2>4. FullVotes(ev) = FullVotes(gm) /\ FullVotes(ev) \in Nat
    BY <2>2, <2>3, CountTypes DEF FullVotes, Slots
  <2>5. Folds(ev.disputeSubnets) \in Nat
    BY CountTypes DEF Slots
  <2>6. AtLeast(ev, gm) /\ AtLeast(gm, ev)
    BY <1>1, <1>2, <2>2, <2>3, <2>4, <2>5 DEF AtLeast, Trust
  <2> QED BY <2>1, <2>6, RecomputeMonotone, RecomputeBounds
<1>7. ev.weight >= Unit => RecordFromEvidence(w1) = score
  <2> SUFFICES ASSUME ev.weight >= Unit PROVE RecordFromEvidence(w1) = score
    OBVIOUS
  <2>1. w1 \in EvidenceAggregate
    BY DEF EvidenceAggregate
  <2>2. /\ w1.groups = ev.groups /\ w1.subnets = ev.subnets /\ w1.top = ev.top
        /\ w1.disputeSubnets = ev.disputeSubnets /\ w1.weight = Unit
        /\ w1.strangers = ev.strangers /\ w1.age = ev.age
    BY DEF EvidenceAggregate
  <2> HIDE DEF w1
  <2>3. /\ Folds(ev.groups) \in Nat /\ Folds(ev.disputeSubnets) \in Nat
        /\ FullVotes(ev) \in Nat /\ FullVotes(w1) = FullVotes(ev)
    BY <2>2, CountTypes DEF Slots, FullVotes
  <2>4. Clamp(ev.weight, 0, Unit) = Clamp(w1.weight, 0, Unit)
    BY <1>1, <2>2 DEF Clamp, Lesser
  <2>5. AtLeast(ev, w1) /\ AtLeast(w1, ev)
    BY <1>1, <1>2, <2>2, <2>3, <2>4 DEF AtLeast, Trust
  <2> QED BY <2>1, <2>5, RecomputeMonotone, RecomputeBounds
<1>8. /\ score \in 0..Full /\ (ev.groups <= 0 => score <= StrangerCap)
      /\ (ev.weight <= 0 => score = 0)
  BY RecomputeBounds
<1> QED BY <1>3, <1>4, <1>5, <1>6, <1>7, <1>8 DEF EvidenceIsBounded

(***************************************************************************)
(* The aggregator's record.                                                *)
(***************************************************************************)

(* A record, whose sets are finite and can be counted.                     *)
Countable(r) ==
    /\ r \in Rec(Persons, Subnets)
    /\ IsFiniteSet(r.groups) /\ IsFiniteSet(r.subnets) /\ IsFiniteSet(r.disputeSubnets)

LEMMA RecordFacts ==
    ASSUME NEW r, Countable(r), NEW o \in Observation
    PROVE  LET new == Record(r, o)
           IN  /\ Countable(new) /\ new.known /\ new.age = 0
               /\ r.groups \subseteq new.groups /\ r.subnets \subseteq new.subnets
               /\ new.disputeSubnets = r.disputeSubnets
               /\ r.strangerSeen => new.strangerSeen
<1> DEFINE acc == Accumulate(r, o)
           new == Record(r, o)
<1>1. r \in Rec(Persons, Subnets) /\ o \in Obs(Persons, Subnets)
  BY DEF Countable, Obs, Observation
<1>2. NoPerson \notin Persons /\ NoSubnet \notin Subnets
  BY ScoringAssumption
<1>3. /\ acc \in Rec(Persons, Subnets) /\ acc.known /\ acc.age = 0
      /\ r.groups \subseteq acc.groups /\ acc.groups \subseteq r.groups \cup {o.group}
      /\ acc.subnets = r.subnets \cup ({o.subnet} \ {NoSubnet})
      /\ acc.disputeSubnets = r.disputeSubnets
      /\ r.strangerSeen => acc.strangerSeen
  <2> HIDE DEF acc
  <2> QED BY <1>1, <1>2, AccumulateIs DEF acc
<1> HIDE DEF acc
<1>4. new = [acc EXCEPT !.ttl = RecordTTL] /\ RecordTTL \in 0..RecordTTL
  BY ConstantTypes DEF Record, acc
<1> HIDE DEF new
<1>5. /\ new \in Rec(Persons, Subnets) /\ new.known = acc.known /\ new.age = acc.age
      /\ new.groups = acc.groups /\ new.subnets = acc.subnets
      /\ new.disputeSubnets = acc.disputeSubnets /\ new.strangerSeen = acc.strangerSeen
  BY <1>3, <1>4 DEF Rec
<1>6. IsFiniteSet(r.groups \cup {o.group}) /\ IsFiniteSet(r.subnets \cup {o.subnet})
  BY FS_AddElement DEF Countable
<1>7. IsFiniteSet(new.groups) /\ IsFiniteSet(new.subnets) /\ IsFiniteSet(new.disputeSubnets)
  <2>1. new.groups \subseteq r.groups \cup {o.group} /\ new.subnets \subseteq r.subnets \cup {o.subnet}
    BY <1>3, <1>5
  <2> QED BY <1>3, <1>5, <1>6, <2>1, FS_Subset DEF Countable
<1>8. Countable(new)
  BY <1>5, <1>7 DEF Countable
<1> QED BY <1>3, <1>5, <1>8 DEF new

LEMMA DisputeFacts ==
    ASSUME NEW r, Countable(r), NEW o \in Observation
    PROVE  Countable(RecordDispute(r, o))
<1> DEFINE acc == ApplyDispute(r, o)
           new == RecordDispute(r, o)
<1>1. r \in Rec(Persons, Subnets) /\ o \in Obs(Persons, Subnets) /\ NoSubnet \notin Subnets
  BY ScoringAssumption DEF Countable, Obs, Observation
<1>2. /\ acc \in Rec(Persons, Subnets) /\ acc.groups = r.groups /\ acc.subnets = r.subnets
      /\ acc.disputeSubnets \subseteq r.disputeSubnets \cup {o.subnet}
  <2> HIDE DEF acc
  <2> QED BY <1>1, ApplyDisputeIs DEF acc
<1> HIDE DEF acc
<1>3. new = [acc EXCEPT !.ttl = RecordTTL] /\ RecordTTL \in 0..RecordTTL
  BY ConstantTypes DEF RecordDispute, acc
<1> HIDE DEF new
<1>4. /\ new \in Rec(Persons, Subnets) /\ new.groups = acc.groups /\ new.subnets = acc.subnets
      /\ new.disputeSubnets = acc.disputeSubnets
  BY <1>2, <1>3 DEF Rec
<1>5. IsFiniteSet(r.disputeSubnets \cup {o.subnet})
  BY FS_AddElement DEF Countable
<1>6. IsFiniteSet(new.disputeSubnets)
  BY <1>2, <1>4, <1>5, FS_Subset
<1> QED BY <1>2, <1>4, <1>6 DEF Countable, new

LEMMA TimeFacts ==
    ASSUME NEW r, Countable(r)
    PROVE  Countable(Decay(r)) /\ Countable(Aged(r)) /\ Countable(NoRecord)
<1> USE ConstantTypes
<1>1. r \in Rec(Persons, Subnets) /\ Decayed(r) \in 0..Full
  BY DecayedFacts DEF Countable
<1>2. Countable(NoRecord)
  BY FS_EmptySet DEF Countable, Rec, NoRecord
<1>3. Countable(Decay(r))
  <2>1. CASE ~ r.known
    BY <2>1 DEF Decay
  <2>2. CASE r.known
    <3> DEFINE new == Decay(r)
               s == Decayed(r)
    <3>1. new = [r EXCEPT !.score = s, !.ttl = RecordTTL] /\ RecordTTL \in 0..RecordTTL
      BY <2>2 DEF Decay
    <3>2. s \in 0..Full
      BY <1>1
    <3> HIDE DEF new, s
    <3>3. /\ new \in Rec(Persons, Subnets) /\ new.groups = r.groups /\ new.subnets = r.subnets
          /\ new.disputeSubnets = r.disputeSubnets
      BY <1>1, <3>1, <3>2 DEF Rec
    <3> QED BY <3>3 DEF Countable, new
  <2>3. r.known \in BOOLEAN
    BY <1>1 DEF Rec
  <2> QED BY <2>1, <2>2, <2>3
<1>4. Countable(Aged(r))
  <2>1. CASE ~ r.known
    BY <2>1 DEF Aged
  <2>2. CASE r.known /\ r.ttl <= 1
    BY <1>2, <2>2 DEF Aged
  <2>3. CASE r.known /\ ~ (r.ttl <= 1)
    <3> DEFINE new == Aged(r)
               a == Lesser(r.age + 1, MaxAge)
               t == r.ttl - 1
    <3>1. new = [r EXCEPT !.age = a, !.ttl = t]
      BY <2>3 DEF Aged
    <3>2. a \in 0..MaxAge /\ t \in 0..RecordTTL
      BY <1>1, <2>3 DEF Rec, Lesser
    <3> HIDE DEF new, a, t
    <3>3. /\ new \in Rec(Persons, Subnets) /\ new.groups = r.groups /\ new.subnets = r.subnets
          /\ new.disputeSubnets = r.disputeSubnets
      BY <1>1, <3>1, <3>2 DEF Rec
    <3> QED BY <3>3 DEF Countable, new
  <2>4. r.known \in BOOLEAN
    BY <1>1 DEF Rec
  <2> QED BY <2>1, <2>2, <2>3, <2>4
<1> QED BY <1>2, <1>3, <1>4

LEMMA AggregateType ==
    ASSUME NEW r, Countable(r), NEW t \in 0..Full
    PROVE  LET e == AggregateFromRecord(r, t)
           IN  /\ e \in EvidenceAggregate
               /\ e.groups = Cardinality(r.groups) /\ e.subnets = Cardinality(r.subnets)
               /\ e.disputeSubnets = Cardinality(r.disputeSubnets)
               /\ e.strangers = r.strangerSeen /\ e.weight = Unit /\ e.top = t /\ e.age = r.age
               /\ e.groups \in Nat /\ e.subnets \in Nat /\ e.disputeSubnets \in Nat
<1>1. /\ Cardinality(r.groups) \in Nat /\ Cardinality(r.subnets) \in Nat
      /\ Cardinality(r.disputeSubnets) \in Nat
  BY FS_CardinalityType DEF Countable
<1>2. r.strangerSeen \in BOOLEAN /\ r.age \in 0..MaxAge /\ Unit \in Int
  BY ConstantTypes DEF Countable, Rec
<1> QED BY <1>1, <1>2 DEF AggregateFromRecord, EvidenceAggregate

(***************************************************************************)
(* Theorems.                                                               *)
(***************************************************************************)

AggregatorInv == Countable(rec) /\ top \in 0..Full /\ ev \in EvidenceAggregate

LEMMA GraverType ==
    ASSUME top \in 0..Full, NEW obs \in Observation
    PROVE  Graver(obs) \in 0..Full /\ top <= Graver(obs)
BY ConstantTypes DEF Graver, Observation

LEMMA NoEvidenceType == NoEvidence \in EvidenceAggregate
<1>1. Countable(NoRecord)
  BY FS_EmptySet, ConstantTypes DEF Countable, Rec, NoRecord
<1> QED BY <1>1, AggregateType, ConstantTypes DEF NoEvidence

LEMMA InvInit == Init => AggregatorInv
<1>1. Countable(NoRecord)
  BY FS_EmptySet, ConstantTypes DEF Countable, Rec, NoRecord
<1> QED BY <1>1, NoEvidenceType, AggregatorAssumption, ConstantTypes DEF Init, AggregatorInv

LEMMA InvStep == AggregatorInv /\ [Next]_vars => AggregatorInv'
<1> SUFFICES ASSUME AggregatorInv, [Next]_vars PROVE AggregatorInv'
  OBVIOUS
<1>1. Countable(rec) /\ top \in 0..Full /\ ev \in EvidenceAggregate
  BY DEF AggregatorInv
<1>2. ASSUME NEW obs \in Votes, Dispute(obs) PROVE AggregatorInv'
  <2>1. obs \in Observation
    BY AggregatorAssumption
  <2> QED BY <1>1, <1>2, <2>1, DisputeFacts, NoEvidenceType DEF Dispute, AggregatorInv
<1>3. ASSUME NEW obs \in Reports, Report(obs) PROVE AggregatorInv'
  <2>1. obs \in Observation
    BY AggregatorAssumption
  <2>2. Countable(Record(rec, obs))
    BY <1>1, <2>1, RecordFacts
  <2> QED BY <1>1, <1>3, <2>1, <2>2, GraverType, NoEvidenceType DEF Report, AggregatorInv
<1>4. CASE RunDecay
  BY <1>1, <1>4, TimeFacts, NoEvidenceType DEF RunDecay, AggregatorInv
<1>5. CASE Respond
  BY <1>1, <1>5, AggregateType DEF Respond, AggregatorInv
<1>6. CASE Tick
  <2>1. top' \in 0..Full
    BY <1>1, <1>6, ConstantTypes DEF Tick
  <2> QED BY <1>1, <1>6, <2>1, TimeFacts, NoEvidenceType DEF Tick, AggregatorInv
<1>7. CASE UNCHANGED vars
  BY <1>1, <1>7 DEF vars, AggregatorInv
<1> QED BY <1>2, <1>3, <1>4, <1>5, <1>6, <1>7 DEF Next

LEMMA InvAlways == Spec => []AggregatorInv
BY InvInit, InvStep, PTL DEF Spec

(* Whatever comes off the wire buys no more than its evidence is worth,    *)
(* for any parameters: strangers alone stay within the cap, no weight buys *)
(* nothing, more groups or subnets never lower the score, more disputes    *)
(* never raise it, and numbers beyond the limits change nothing            *)
(* (RecordFromEvidence).                                                   *)
THEOREM ClaimsAreBounded == Spec => []EvidenceIsBounded
<1>1. AggregatorInv => EvidenceIsBounded
  BY EvidenceBounds DEF AggregatorInv
<1> QED BY <1>1, InvAlways, PTL

(* An address that only strangers reported to an aggregator scores at most *)
(* the asking node's cap, whatever else happened to the record             *)
(* (AggregateFromRecord, RecordFromEvidence).                              *)
THEOREM SharedStrangersStayCapped == Spec => []StrangersStayCapped
<1>1. AggregatorInv => StrangersStayCapped
  <2> SUFFICES ASSUME AggregatorInv, rec.groups = {} PROVE Worth(rec, top) <= StrangerCap
    BY DEF StrangersStayCapped
  <2> DEFINE e == AggregateFromRecord(rec, top)
  <2>1. e \in EvidenceAggregate /\ e.groups = Cardinality(rec.groups)
    BY AggregateType DEF AggregatorInv
  <2>2. e.groups = 0
    BY <2>1, FS_EmptySet
  <2> HIDE DEF e
  <2>3. RecordFromEvidence(e) <= StrangerCap
    BY <2>1, <2>2, RecomputeBounds
  <2> QED BY <2>3, ConstantTypes DEF Worth, e
<1> QED BY <1>1, InvAlways, PTL

(* A further report, whoever sends it and whatever the record holds, never *)
(* lowers what asking nodes make of the address, for any parameters        *)
(* (Accumulate, AggregateFromRecord, RecordFromEvidence).                  *)
THEOREM FurtherReportsCount == Spec => []ReportsCount
<1>1. ASSUME AggregatorInv, NEW obs \in Reports
      PROVE  Worth(Record(rec, obs), Graver(obs)) >= Worth(rec, top)
  <2> USE ConstantTypes
  <2> DEFINE new == Record(rec, obs)
             e == AggregateFromRecord(rec, top)
             f == AggregateFromRecord(new, Graver(obs))
  <2>1. obs \in Observation /\ Countable(rec) /\ top \in 0..Full
    BY <1>1, AggregatorAssumption DEF AggregatorInv
  <2>2. /\ Countable(new) /\ new.known /\ new.age = 0
        /\ rec.groups \subseteq new.groups /\ rec.subnets \subseteq new.subnets
        /\ new.disputeSubnets = rec.disputeSubnets
        /\ rec.strangerSeen => new.strangerSeen
    <3> HIDE DEF new
    <3> QED BY <2>1, RecordFacts DEF new
  <2> HIDE DEF new
  <2>3. Graver(obs) \in 0..Full /\ top <= Graver(obs)
    BY <2>1, GraverType
  <2>4. /\ e \in EvidenceAggregate
        /\ e.groups = Cardinality(rec.groups) /\ e.subnets = Cardinality(rec.subnets)
        /\ e.disputeSubnets = Cardinality(rec.disputeSubnets)
        /\ e.strangers = rec.strangerSeen /\ e.weight = Unit /\ e.top = top /\ e.age = rec.age
        /\ e.groups \in Nat /\ e.subnets \in Nat /\ e.disputeSubnets \in Nat
    <3> HIDE DEF e
    <3> QED BY <2>1, AggregateType DEF e
  <2>5. /\ f \in EvidenceAggregate
        /\ f.groups = Cardinality(new.groups) /\ f.subnets = Cardinality(new.subnets)
        /\ f.disputeSubnets = Cardinality(new.disputeSubnets)
        /\ f.strangers = new.strangerSeen /\ f.weight = Unit /\ f.top = Graver(obs)
        /\ f.age = new.age
        /\ f.groups \in Nat /\ f.subnets \in Nat /\ f.disputeSubnets \in Nat
    <3> HIDE DEF f
    <3> QED BY <2>2, <2>3, AggregateType DEF f
  <2> HIDE DEF e, f
  <2>6. e.groups <= f.groups /\ e.subnets <= f.subnets
    BY <2>2, <2>4, <2>5, FS_Subset DEF Countable
  <2>7. Folds(e.groups) <= Folds(f.groups) /\ Folds(e.groups) \in Nat /\ Folds(f.groups) \in Nat
    BY <2>4, <2>5, <2>6 DEF Folds, Clamp, Lesser
  <2>8. FullVotes(e) <= FullVotes(f)
    BY <2>4, <2>5, <2>6, <2>7 DEF FullVotes, Lesser
  <2>9. Folds(f.disputeSubnets) <= Folds(e.disputeSubnets)
    <3>1. Folds(e.disputeSubnets) \in Nat /\ f.disputeSubnets = e.disputeSubnets
      BY <2>2, <2>4, <2>5, CountTypes DEF Slots
    <3> QED BY <3>1
  <2>10. Retained[e.age] <= Retained[f.age]
    <3>1. e.age \in 0..MaxAge /\ f.age = 0
      BY <2>2, <2>4, <2>5, CountTypes
    <3>2. Retained[e.age] \in 0..Unit /\ Retained[0] = Unit
      BY <3>1, ScoringAssumption
    <3> QED BY <3>1, <3>2
  <2>11. AtLeast(e, f)
    BY <2>2, <2>3, <2>4, <2>5, <2>7, <2>8, <2>9, <2>10 DEF AtLeast, Trust
  <2>12. RecordFromEvidence(e) <= RecordFromEvidence(f)
    BY <2>4, <2>5, <2>11, RecomputeMonotone
  <2>13. RecordFromEvidence(e) \in 0..Full /\ RecordFromEvidence(f) \in 0..Full
    BY <2>4, <2>5, RecomputeBounds
  <2>14. Worth(new, Graver(obs)) = RecordFromEvidence(f)
    BY <2>2 DEF Worth, f
  <2>15. Worth(rec, top) = RecordFromEvidence(e) \/ Worth(rec, top) = 0
    BY DEF Worth, e
  <2> QED BY <2>12, <2>13, <2>14, <2>15 DEF new
<1>2. AggregatorInv => ReportsCount
  BY <1>1 DEF ReportsCount
<1> QED BY <1>2, InvAlways, PTL

=============================================================================
