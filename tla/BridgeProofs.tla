---------------------------- MODULE BridgeProofs ----------------------------
(***************************************************************************)
(* What Bridge keeps for any federation: any nodes, subnets and bridges,   *)
(* events, trace and cache limits, clocks and numbers of faults.           *)
(***************************************************************************)
EXTENDS Bridge, FiniteSetTheorems, TLAPS

Cache == [Events -> Nat \cup {Never}]

(***************************************************************************)
(* The dedup cache.                                                        *)
(***************************************************************************)

(* Removing keys leaves a cache, with the other keys.                      *)
LEMMA WithoutKeys ==
    ASSUME NEW s \in Cache, NEW D
    PROVE  Without(s, D) \in Cache /\ Keys(Without(s, D)) = Keys(s) \ D
BY DEF Without, Keys, Cache, Never

(* evictOldestLocked leaves a cache without new keys.                      *)
LEMMA EvictedKeys ==
    ASSUME NEW s \in Cache, NEW t \in evictOldestLocked(s)
    PROVE  t \in Cache /\ Keys(t) \subseteq Keys(s)
<1> DEFINE left == Without(s, {k \in Keys(s) : ~ Live(s, k)})
           oldest == {k \in Keys(left) : \A j \in Keys(left) : left[k] <= left[j]}
<1>1. left \in Cache /\ Keys(left) \subseteq Keys(s)
  BY WithoutKeys
<1>2. t = left \/ \E k \in oldest : t = Without(left, {k})
  BY DEF evictOldestLocked
<1>3. \A k : Without(left, {k}) \in Cache /\ Keys(Without(left, {k})) = Keys(left) \ {k}
  BY <1>1, WithoutKeys
<1> HIDE DEF left, oldest
<1> QED BY <1>1, <1>2, <1>3

(* Seen's insertion leaves a cache that has the key, and no other new one. *)
LEMMA InsertedKeys ==
    ASSUME NEW s \in Cache, NEW k \in Events, now \in Nat, NEW t \in Inserted(s, k)
    PROVE  t \in Cache /\ k \in Keys(t) /\ Keys(t) \subseteq Keys(s) \cup {k}
<1>1. PICK r \in IF Cardinality(Keys(s)) >= MaxSeen THEN evictOldestLocked(s) ELSE {s} :
          t = [r EXCEPT ![k] = now]
  BY DEF Inserted
<1>2. r \in Cache /\ Keys(r) \subseteq Keys(s)
  BY <1>1, EvictedKeys
<1> QED BY <1>1, <1>2 DEF Keys, Cache, Never

(* The keys of a cache are finitely many: only events are keys.            *)
LEMMA KeysFinite ==
    ASSUME NEW s
    PROVE  IsFiniteSet(Keys(s)) /\ Cardinality(Keys(s)) \in Nat
<1>1. IsFiniteSet(Events)
  BY BridgeAssumption, FS_Union DEF Events
<1>2. Keys(s) \in SUBSET Events
  BY DEF Keys
<1>3. IsFiniteSet(Keys(s))
  BY <1>1, <1>2, FS_Subset
<1> QED BY <1>3, FS_CardinalityType

(* Whatever evictOldestLocked leaves, a place is free.                     *)
LEMMA RoomForOne ==
    ASSUME NEW s \in Cache, Cardinality(Keys(s)) <= MaxSeen, NEW t \in evictOldestLocked(s)
    PROVE  Cardinality(Keys(t)) < MaxSeen
<1> DEFINE left == Without(s, {k \in Keys(s) : ~ Live(s, k)})
           oldest == {k \in Keys(left) : \A j \in Keys(left) : left[k] <= left[j]}
<1>1. left \in Cache /\ Keys(left) \in SUBSET Keys(s)
  BY WithoutKeys
<1>2. Cardinality(Keys(left)) \in Nat /\ Cardinality(Keys(left)) <= MaxSeen
  <2>1. Cardinality(Keys(left)) <= Cardinality(Keys(s))
    BY <1>1, KeysFinite, FS_Subset
  <2> QED BY <2>1, KeysFinite, BridgeAssumption
<1>3. CASE Cardinality(Keys(left)) < MaxSeen
  BY <1>3 DEF evictOldestLocked
<1>4. CASE ~ (Cardinality(Keys(left)) < MaxSeen)
  <2>1. PICK k \in oldest : t = Without(left, {k})
    BY <1>4 DEF evictOldestLocked
  <2>2. k \in Keys(left) /\ Keys(t) = Keys(left) \ {k}
    BY <1>1, <2>1, WithoutKeys
  <2>3. IsFiniteSet(Keys(left))
    BY KeysFinite
  <2> HIDE DEF left, oldest
  <2>4. Cardinality(Keys(left) \ {k}) = Cardinality(Keys(left)) - 1
    BY <2>2, <2>3, FS_RemoveElement
  <2>5. Cardinality(Keys(t)) = Cardinality(Keys(left)) - 1
    BY <2>2, <2>4
  <2> QED BY <1>2, <2>5, BridgeAssumption
<1> QED BY <1>3, <1>4

(* An insertion keeps the limit.                                           *)
LEMMA InsertedBounded ==
    ASSUME NEW s \in Cache, NEW k \in Events, now \in Nat,
           Cardinality(Keys(s)) <= MaxSeen, NEW t \in Inserted(s, k)
    PROVE  Cardinality(Keys(t)) <= MaxSeen
<1>1. PICK r \in IF Cardinality(Keys(s)) >= MaxSeen THEN evictOldestLocked(s) ELSE {s} :
          t = [r EXCEPT ![k] = now]
  BY DEF Inserted
<1>2. r \in Cache
  BY <1>1, EvictedKeys
<1>3. Cardinality(Keys(r)) \in Nat /\ Cardinality(Keys(r)) < MaxSeen
  <2>1. CASE Cardinality(Keys(s)) >= MaxSeen
    BY <1>1, <2>1, RoomForOne, KeysFinite
  <2>2. CASE ~ (Cardinality(Keys(s)) >= MaxSeen)
    BY <1>1, <2>2, KeysFinite, BridgeAssumption
  <2> QED BY <2>1, <2>2
<1>4. Keys(t) = Keys(r) \cup {k}
  BY <1>1, <1>2 DEF Keys, Cache, Never
<1>5. Cardinality(Keys(t)) <= Cardinality(Keys(r)) + 1
  <2>1. IsFiniteSet(Keys(r))
    BY KeysFinite
  <2>2. Cardinality(Keys(r) \cup {k}) =
            IF k \in Keys(r) THEN Cardinality(Keys(r)) ELSE Cardinality(Keys(r)) + 1
    BY <2>1, FS_AddElement
  <2> QED BY <1>3, <1>4, <2>2
<1> QED BY <1>3, <1>5, KeysFinite, BridgeAssumption

(* What marking a key does to the caches and to what they have forgotten.  *)
LEMMA MarkEffect ==
    ASSUME TypeOK, NEW n \in Nodes, NEW k \in Events, Mark(n, k)
    PROVE  /\ seen' \in [Nodes -> Cache]
           /\ forgot' \in [Nodes -> SUBSET Events]
           /\ seen'[n] \in Inserted(seen[n], k)
           /\ \A i \in Nodes \ {n} : seen'[i] = seen[i] /\ forgot'[i] = forgot[i]
           /\ k \in Keys(seen'[n])
           /\ Keys(seen[n]) \subseteq Keys(seen'[n]) \cup forgot'[n]
           /\ forgot[n] \subseteq forgot'[n]
           /\ k \in Keys(seen[n]) => k \in forgot'[n]
<1>1. PICK t \in Inserted(seen[n], k) :
          /\ seen' = [seen EXCEPT ![n] = t]
          /\ forgot' = [forgot EXCEPT ![n] = @ \cup (Keys(seen[n]) \ Keys(t))
                                               \cup (Keys(seen[n]) \cap {k})]
  BY DEF Mark
<1>2. seen \in [Nodes -> Cache] /\ forgot \in [Nodes -> SUBSET Events] /\ now \in Nat
  BY DEF TypeOK, Cache
<1>3. t \in Cache /\ k \in Keys(t)
  BY <1>2, InsertedKeys
<1>4. Keys(seen[n]) \subseteq Events
  BY DEF Keys
<1>5. seen' \in [Nodes -> Cache] /\ forgot' \in [Nodes -> SUBSET Events]
  BY <1>1, <1>2, <1>3, <1>4
<1>6. seen'[n] = t
  BY <1>1, <1>2
<1>7. forgot'[n] = forgot[n] \cup (Keys(seen[n]) \ Keys(t)) \cup (Keys(seen[n]) \cap {k})
  BY <1>1, <1>2
<1>8. \A i \in Nodes \ {n} : seen'[i] = seen[i] /\ forgot'[i] = forgot[i]
  BY <1>1, <1>2
<1> QED BY <1>3, <1>5, <1>6, <1>7, <1>8

(***************************************************************************)
(* Copies.                                                                 *)
(***************************************************************************)

LEMMA ConfigTypes ==
    \A n \in Nodes : /\ Home[n] \in Joined(n)
                     /\ Joined(n) \subseteq Subnets
                     /\ NormalizeIP(n) \in Addresses
BY BridgeAssumption DEF Joined, NormalizeIP, Addresses, Signatures

LEMMA AddressTypes ==
    /\ Raw \in Addresses
    /\ NoSig \in Signatures
    /\ Addresses \subseteq Signatures
    /\ \A e \in Events : Reporter[e] \in Nodes
BY BridgeAssumption DEF Addresses, Signatures

(* What Publish puts under way: copies that differ in subnet and receiver. *)
LEMMA PublishedFields ==
    ASSUME NEW ev, NEW ip, NEW sig, NEW trace, NEW n, NEW sns,
           NEW m \in Publish(ev, ip, sig, trace, n, sns)
    PROVE  /\ m.ev = ev /\ m.ip = ip /\ m.sig = sig /\ m.trace = trace /\ m.from = n
           /\ m.subnet \in sns /\ m.to \in up /\ m.to # n
           /\ m.subnet \in Joined(m.to)
<1>1. PICK d \in {c \in sns \X up : c[2] # n /\ c[1] \in Joined(c[2])} :
          m = [ ev |-> ev, ip |-> ip, sig |-> sig, trace |-> trace,
                from |-> n, subnet |-> d[1], to |-> d[2] ]
  BY DEF Publish
<1>2. d[1] \in sns /\ d[2] \in up /\ d[2] # n /\ d[1] \in Joined(d[2])
  OBVIOUS
<1> QED BY <1>1, <1>2

LEMMA PublishedType ==
    ASSUME NEW ev \in Events, NEW ip \in Addresses, NEW sig \in Signatures,
           NEW trace \in Seq(Nodes), NEW n \in Nodes, NEW sns \in SUBSET Subnets,
           up \subseteq Nodes
    PROVE  Publish(ev, ip, sig, trace, n, sns) \subseteq Message
<1> SUFFICES ASSUME NEW d \in {c \in sns \X up : c[2] # n /\ c[1] \in Joined(c[2])}
             PROVE  [ ev |-> ev, ip |-> ip, sig |-> sig, trace |-> trace,
                      from |-> n, subnet |-> d[1], to |-> d[2] ] \in Message
  BY DEF Publish
<1>1. d[1] \in Subnets /\ d[2] \in Nodes
  OBVIOUS
<1> QED BY <1>1 DEF Message

(* Every copy that a step puts under way is a vote of its publisher, a     *)
(* report of its publisher, or a report relayed by the node it came to.    *)
SentAsVote(m) ==
    \E v \in Votes : m \in Publish(v, Raw, Raw, << >>, Reporter[v], {Home[Reporter[v]]})
SentAsReport(m) ==
    \E e \in Reports, sig \in Signatures :
        LET n == Reporter[e]
        IN  m \in Publish(e, NormalizeIP(n), sig, << n >>, n, {Home[n]})
SentAsRelay(m) ==
    \E c \in net : /\ c.ev \in Reports
                   /\ MayReemit(c.to, c)
                   /\ \E sns \in SUBSET Joined(c.to) :
                          m \in Publish(c.ev, c.ip, c.sig, Append(c.trace, c.to), c.to, sns)

LEMMA SentByScore ==
    ASSUME TypeOK, NEW c \in net, Score(c.to, c), NEW m \in net', m \notin net
    PROVE  SentAsRelay(m)
<1> DEFINE others == Joined(c.to) \ {c.subnet}
<1>1. c.ev \in Reports
  BY DEF Score
<1>2. PICK sns \in SUBSET others : net' = (net \ {c}) \cup Reemitted(c.to, c, sns)
  BY DEF Score
<1>3. m \in Reemitted(c.to, c, sns)
  BY <1>2
<1>4. /\ MayReemit(c.to, c)
      /\ m \in Publish(c.ev, c.ip, c.sig, Append(c.trace, c.to), c.to, sns)
  BY <1>3 DEF Reemitted
<1>5. sns \in SUBSET Joined(c.to)
  OBVIOUS
<1> QED BY <1>1, <1>4, <1>5 DEF SentAsRelay

LEMMA SentByStep ==
    ASSUME TypeOK, [Next]_vars, NEW m \in net', m \notin net
    PROVE  SentAsVote(m) \/ SentAsReport(m) \/ SentAsRelay(m)
<1>1. ASSUME NEW n \in Nodes, Start(n) PROVE SentAsVote(m)
  <2>1. PICK v \in Votes : SharedVote(n, v)
    BY <1>1 DEF Start
  <2> QED BY <2>1 DEF SharedVote, SentAsVote
<1>2. ASSUME NEW n \in Nodes, Crash(n) PROVE FALSE
  BY <1>2 DEF Crash
<1>3. ASSUME NEW n \in Nodes, NEW e \in Reports, ProcessLocal(n, e) PROVE SentAsReport(m)
  <2>1. PICK sig \in {NormalizeIP(n), NoSig} :
            m \in Publish(e, NormalizeIP(n), sig, << n >>, n, {Home[n]})
    BY <1>3 DEF ProcessLocal
  <2>2. sig \in Signatures /\ Reporter[e] = n
    BY <1>3, ConfigTypes, AddressTypes DEF ProcessLocal
  <2> QED BY <2>1, <2>2 DEF SentAsReport
<1>4. ASSUME NEW c \in net, ProcessRemote(c) PROVE SentAsRelay(m)
  <2>1. ~ Take(c)
    BY DEF Take
  <2>2. Score(c.to, c)
    BY <1>4, <2>1 DEF ProcessRemote, ShedRemote, Drop, RecordFails, CountVote
  <2> QED BY <2>2, SentByScore
<1>5. ASSUME NEW c \in net, Lose(c) PROVE FALSE
  BY <1>5 DEF Lose, Take
<1>6. CASE Tick
  BY <1>6 DEF Tick
<1>7. CASE UNCHANGED vars
  BY <1>7 DEF vars
<1> QED BY <1>1, <1>2, <1>3, <1>4, <1>5, <1>6, <1>7 DEF Next

LEMMA NetType ==
    ASSUME TypeOK, [Next]_vars
    PROVE  net' \subseteq Message
<1> SUFFICES ASSUME NEW m \in net' PROVE m \in Message
  OBVIOUS
<1>1. CASE m \in net
  BY <1>1 DEF TypeOK
<1>2. CASE m \notin net
  <2>0. up \subseteq Nodes
    BY DEF TypeOK
  <2>1. CASE SentAsVote(m)
    <3>1. PICK v \in Votes :
              m \in Publish(v, Raw, Raw, << >>, Reporter[v], {Home[Reporter[v]]})
      BY <2>1 DEF SentAsVote
    <3>2. v \in Events /\ Reporter[v] \in Nodes
      BY AddressTypes DEF Events
    <3>3. {Home[Reporter[v]]} \in SUBSET Subnets
      BY <3>2, ConfigTypes
    <3>4. << >> \in Seq(Nodes) /\ Raw \in Addresses /\ Raw \in Signatures
      BY AddressTypes
    <3> QED BY <2>0, <3>1, <3>2, <3>3, <3>4, PublishedType
  <2>2. CASE SentAsReport(m)
    <3>1. PICK e \in Reports, sig \in Signatures :
              m \in Publish(e, NormalizeIP(Reporter[e]), sig, << Reporter[e] >>,
                            Reporter[e], {Home[Reporter[e]]})
      BY <2>2 DEF SentAsReport
    <3>2. e \in Events /\ Reporter[e] \in Nodes
      BY AddressTypes DEF Events
    <3>3. {Home[Reporter[e]]} \in SUBSET Subnets
      BY <3>2, ConfigTypes
    <3>4. << Reporter[e] >> \in Seq(Nodes) /\ NormalizeIP(Reporter[e]) \in Addresses
      BY <3>2, ConfigTypes
    <3> QED BY <2>0, <3>1, <3>2, <3>3, <3>4, PublishedType
  <2>3. CASE SentAsRelay(m)
    <3>1. PICK c \in net : \E sns \in SUBSET Joined(c.to) :
              m \in Publish(c.ev, c.ip, c.sig, Append(c.trace, c.to), c.to, sns)
      BY <2>3 DEF SentAsRelay
    <3>0. PICK sns \in SUBSET Joined(c.to) :
              m \in Publish(c.ev, c.ip, c.sig, Append(c.trace, c.to), c.to, sns)
      BY <3>1
    <3>2. /\ c.ev \in Events /\ c.ip \in Addresses /\ c.sig \in Signatures
          /\ c.trace \in Seq(Nodes) /\ c.to \in Nodes
      BY DEF TypeOK, Message
    <3>3. Append(c.trace, c.to) \in Seq(Nodes) /\ sns \in SUBSET Subnets
      BY <3>2, ConfigTypes
    <3> QED BY <2>0, <3>0, <3>2, <3>3, PublishedType
  <2> QED BY <1>2, <2>1, <2>2, <2>3, SentByStep
<1> QED BY <1>1, <1>2

(***************************************************************************)
(* Types.                                                                  *)
(***************************************************************************)

LEMMA CountType ==
    ASSUME TypeOK, NEW n \in Nodes, NEW k \in Events, Count(n, k)
    PROVE  /\ counted' \in [Nodes -> [Events -> Nat]]
           /\ counted'[n][k] = counted[n][k] + 1
           /\ \A i \in Nodes, e \in Events :
                  i # n \/ e # k => counted'[i][e] = counted[i][e]
BY DEF TypeOK, Count

LEMMA FaultType ==
    ASSUME TypeOK, Fault \/ UNCHANGED faults
    PROVE  faults' \in Nat
BY DEF TypeOK, Fault

LEMMA RemoteTypes ==
    ASSUME TypeOK, NEW m \in net, ProcessRemote(m)
    PROVE  /\ seen' \in [Nodes -> Cache] /\ forgot' \in [Nodes -> SUBSET Events]
           /\ counted' \in [Nodes -> [Events -> Nat]]
           /\ faults' \in Nat /\ lost' \subseteq Events
<1>1. m.to \in Nodes /\ m.ev \in Events
  BY DEF TypeOK, Message
<1>2. /\ seen \in [Nodes -> Cache] /\ forgot \in [Nodes -> SUBSET Events]
      /\ counted \in [Nodes -> [Events -> Nat]] /\ lost \subseteq Events
  BY DEF TypeOK, Cache
<1>3. lost' \subseteq lost \cup {m.ev}
  BY DEF ProcessRemote, ShedRemote, Drop, RecordFails, CountVote, Score
<1>4. Fault \/ UNCHANGED faults
  BY DEF ProcessRemote, ShedRemote, Drop, RecordFails, CountVote, Score
<1>5. Mark(m.to, m.ev) \/ UNCHANGED << seen, forgot >>
  BY DEF ProcessRemote, ShedRemote, Drop, RecordFails, CountVote, Score
<1>6. Count(m.to, m.ev) \/ UNCHANGED counted
  BY DEF ProcessRemote, ShedRemote, Drop, RecordFails, CountVote, Score
<1>7. seen' \in [Nodes -> Cache] /\ forgot' \in [Nodes -> SUBSET Events]
  BY <1>1, <1>2, <1>5, MarkEffect
<1>8. counted' \in [Nodes -> [Events -> Nat]]
  BY <1>1, <1>2, <1>6, CountType
<1> QED BY <1>1, <1>2, <1>3, <1>4, <1>7, <1>8, FaultType

LEMMA TypePreserved == TypeOK /\ [Next]_vars => TypeOK'
<1> SUFFICES ASSUME TypeOK, [Next]_vars PROVE TypeOK'
  OBVIOUS
<1> USE NetType DEF Cache
<1>1. ASSUME NEW n \in Nodes, Start(n) PROVE TypeOK'
  <2>1. CASE \E v \in Votes : SharedVote(n, v)
    <3>1. PICK v \in Votes : SharedVote(n, v)
      BY <2>1
    <3>2. v \in Events
      BY DEF Events
    <3>3. counted' \in [Nodes -> [Events -> Nat]]
      BY <3>1, <3>2, CountType DEF SharedVote
    <3>4. published' \subseteq Events /\ lost' \subseteq Events
      BY <3>1, <3>2 DEF SharedVote, TypeOK
    <3> QED BY <1>1, <3>3, <3>4 DEF Start, TypeOK
  <2>2. CASE UNCHANGED << net, counted, history >>
    BY <1>1, <2>2 DEF Start, history, TypeOK
  <2> QED BY <1>1, <2>1, <2>2 DEF Start
<1>2. ASSUME NEW n \in Nodes, Crash(n) PROVE TypeOK'
  <2>1. Keys(seen[n]) \subseteq Events
    BY DEF Keys
  <2>2. forgot' \in [Nodes -> SUBSET Events]
    BY <1>2, <2>1 DEF Crash, TypeOK
  <2>3. seen' \in [Nodes -> [Events -> Nat \cup {Never}]]
    BY <1>2 DEF Crash, TypeOK
  <2>4. lost' \subseteq Events
    BY <1>2 DEF Crash, TypeOK, Message
  <2> QED BY <1>2, <2>2, <2>3, <2>4, FaultType DEF Crash, TypeOK
<1>3. ASSUME NEW n \in Nodes, NEW e \in Reports, ProcessLocal(n, e) PROVE TypeOK'
  <2>1. e \in Events
    BY DEF Events
  <2>2. seen' \in [Nodes -> Cache] /\ forgot' \in [Nodes -> SUBSET Events]
    BY <1>3, <2>1, MarkEffect DEF ProcessLocal
  <2>3. counted' \in [Nodes -> [Events -> Nat]]
    <3>1. Count(n, e) \/ UNCHANGED counted
      BY <1>3 DEF ProcessLocal
    <3> QED BY <2>1, <3>1, CountType DEF TypeOK
  <2>4. lost' \subseteq lost \cup {e}
    BY <1>3 DEF ProcessLocal
  <2>5. faults' \in Nat
    BY <1>3, FaultType DEF ProcessLocal
  <2> QED BY <1>3, <2>1, <2>2, <2>3, <2>4, <2>5 DEF ProcessLocal, TypeOK
<1>4. ASSUME NEW m \in net, ProcessRemote(m) PROVE TypeOK'
  <2>1. UNCHANGED << up, now, published >>
    BY <1>4 DEF ProcessRemote
  <2> QED BY <1>4, <2>1, RemoteTypes DEF TypeOK
<1>5. ASSUME NEW m \in net, Lose(m) PROVE TypeOK'
  BY <1>5, FaultType DEF Lose, TypeOK, Message
<1>6. CASE Tick
  BY <1>6 DEF Tick, TypeOK
<1>7. CASE UNCHANGED vars
  BY <1>7 DEF vars, TypeOK
<1> QED BY <1>1, <1>2, <1>3, <1>4, <1>5, <1>6, <1>7 DEF Next

LEMMA InitTypes == Init => TypeOK
BY DEF Init, TypeOK, Never

(* Every reachable state is well typed: every copy under way is a message, *)
(* every cache maps events to times (Publish, reemitIfBridge, dedupCache). *)
THEOREM BridgeTypes == Spec => []TypeOK
BY InitTypes, TypePreserved, PTL DEF Spec

(***************************************************************************)
(* The cache limit.                                                        *)
(***************************************************************************)

(* What a step does to a node's cache: it inserts a key, it empties the    *)
(* cache, or it leaves it alone.                                           *)
LEMMA CacheStep ==
    ASSUME TypeOK, [Next]_vars, NEW n \in Nodes
    PROVE  \/ \E k \in Events : Mark(n, k)
           \/ Crash(n)
           \/ seen'[n] = seen[n] /\ forgot'[n] = forgot[n]
<1>0. seen \in [Nodes -> Cache] /\ forgot \in [Nodes -> SUBSET Events]
  BY DEF TypeOK, Cache
<1>1. ASSUME NEW i \in Nodes, Start(i) PROVE UNCHANGED << seen, forgot >>
  BY <1>1 DEF Start
<1>2. ASSUME NEW i \in Nodes, Crash(i)
      PROVE  i = n \/ (seen'[n] = seen[n] /\ forgot'[n] = forgot[n])
  BY <1>0, <1>2 DEF Crash
<1>3. ASSUME NEW i \in Nodes, NEW k \in Events, Mark(i, k)
      PROVE  i = n \/ (seen'[n] = seen[n] /\ forgot'[n] = forgot[n])
  BY <1>3, MarkEffect
<1>4. ASSUME NEW i \in Nodes, NEW e \in Reports, ProcessLocal(i, e)
      PROVE  e \in Events /\ Mark(i, e)
  BY <1>4 DEF ProcessLocal, Events
<1>5. ASSUME NEW m \in net, ProcessRemote(m)
      PROVE  m.to \in Nodes /\ m.ev \in Events
             /\ (Mark(m.to, m.ev) \/ UNCHANGED << seen, forgot >>)
  <2>1. m.to \in Nodes /\ m.ev \in Events
    BY DEF TypeOK, Message
  <2> QED BY <1>5, <2>1 DEF ProcessRemote, ShedRemote, Drop, RecordFails, CountVote, Score
<1>6. ASSUME NEW m \in net, Lose(m) PROVE UNCHANGED << seen, forgot >>
  BY <1>6 DEF Lose
<1>7. CASE Tick \/ UNCHANGED vars
  BY <1>7 DEF Tick, vars
<1> QED BY <1>1, <1>2, <1>3, <1>4, <1>5, <1>6, <1>7 DEF Next

(* An empty cache is within the limit.                                     *)
LEMMA NoKeys ==
    ASSUME NEW s, s = [k \in Events |-> Never]
    PROVE  Cardinality(Keys(s)) <= MaxSeen
<1>1. Keys(s) = {}
  BY DEF Keys
<1>2. Cardinality(Keys(s)) = 0
  BY <1>1, FS_EmptySet, Zenon
<1> QED BY <1>2, BridgeAssumption

LEMMA CacheBoundPreserved == TypeOK /\ CacheBounded /\ [Next]_vars => CacheBounded'
<1> SUFFICES ASSUME TypeOK, CacheBounded, [Next]_vars, NEW n \in Nodes
             PROVE  Cardinality(Keys(seen'[n])) <= MaxSeen
  BY DEF CacheBounded, Keys
<1>1. seen \in [Nodes -> Cache] /\ now \in Nat /\ Cardinality(Keys(seen[n])) <= MaxSeen
  BY DEF TypeOK, Cache, CacheBounded
<1>2. ASSUME NEW k \in Events, Mark(n, k) PROVE Cardinality(Keys(seen'[n])) <= MaxSeen
  BY <1>1, <1>2, MarkEffect, InsertedBounded
<1>3. CASE Crash(n)
  <2>1. seen'[n] = [k \in Events |-> Never]
    BY <1>1, <1>3 DEF Crash
  <2> QED BY <2>1, NoKeys
<1> QED BY <1>1, <1>2, <1>3, CacheStep

LEMMA InitCacheBound == Init => CacheBounded
<1> SUFFICES ASSUME Init, NEW n \in Nodes PROVE Cardinality(Keys(seen[n])) <= MaxSeen
  BY DEF CacheBounded
<1>1. seen[n] = [k \in Events |-> Never]
  BY DEF Init
<1> QED BY <1>1, NoKeys

(* However many events come in and whenever they expire, no dedup cache    *)
(* outgrows its limit (Seen, evictOldestLocked).                           *)
THEOREM DedupStaysBounded == Spec => []CacheBounded
BY InitCacheBound, CacheBoundPreserved, BridgeTypes, PTL DEF Spec

(***************************************************************************)
(* Paths.                                                                  *)
(***************************************************************************)

(* t is a simple path from the reporter of e to n, within the limit.       *)
IsPath(t, e, n) ==
    /\ t # << >> /\ Len(t) <= MaxTrace
    /\ t[1] = Reporter[e] /\ t[Len(t)] = n
    /\ \A i, j \in 1..Len(t) : t[i] = t[j] => i = j
    /\ \A i \in 1..(Len(t) - 1) : SharesSubnet(t[i], t[i + 1])

(* A copy goes from a member of its subnet to another one; a report has    *)
(* its path as trace, and a vote comes from who casts it.                  *)
Routed(m) ==
    /\ m.subnet \in Joined(m.from) /\ m.subnet \in Joined(m.to) /\ m.to # m.from
    /\ m.ev \in Reports => IsPath(m.trace, m.ev, m.from)
    /\ m.ev \in Votes => m.from = Reporter[m.ev]

PathInv == \A m \in net : Routed(m)

(* A node that shares a subnet with the end of a path and is not on it     *)
(* extends it.                                                             *)
LEMMA ExtendedPath ==
    ASSUME NEW t \in Seq(Nodes), NEW e, NEW n \in Nodes, NEW k \in Nodes,
           IsPath(t, e, n), Len(t) < MaxTrace, k \notin Range(t), SharesSubnet(n, k)
    PROVE  IsPath(Append(t, k), e, k)
<1> DEFINE u == Append(t, k)
<1>1. /\ u \in Seq(Nodes) /\ Len(u) = Len(t) + 1 /\ u[Len(t) + 1] = k
      /\ \A i \in 1..Len(t) : u[i] = t[i]
  OBVIOUS
<1>2. Len(t) \in Nat /\ Len(t) > 0 /\ t[1] = Reporter[e] /\ t[Len(t)] = n
  BY DEF IsPath
<1>3. \A i \in 1..Len(t) : t[i] # k
  BY DEF Range
<1>4. \A i, j \in 1..Len(t) : t[i] = t[j] => i = j
  BY DEF IsPath
<1>5. \A i \in 1..(Len(t) - 1) : SharesSubnet(t[i], t[i + 1])
  BY DEF IsPath
<1> HIDE DEF u
<1>6. u # << >> /\ Len(u) <= MaxTrace
  BY <1>1, <1>2, BridgeAssumption
<1>7. u[1] = Reporter[e] /\ u[Len(u)] = k
  BY <1>1, <1>2
<1>8. ASSUME NEW i \in 1..Len(u), NEW j \in 1..Len(u), u[i] = u[j] PROVE i = j
  <2>1. CASE i \in 1..Len(t) /\ j \in 1..Len(t)
    BY <1>1, <1>4, <1>8, <2>1
  <2>2. CASE i = Len(t) + 1 \/ j = Len(t) + 1
    BY <1>1, <1>2, <1>3, <1>8, <2>2
  <2> QED BY <1>1, <1>2, <2>1, <2>2
<1>9. ASSUME NEW i \in 1..(Len(u) - 1) PROVE SharesSubnet(u[i], u[i + 1])
  <2>1. CASE i \in 1..(Len(t) - 1)
    <3>1. i \in 1..Len(t) /\ i + 1 \in 1..Len(t)
      BY <1>2, <2>1
    <3>2. u[i] = t[i] /\ u[i + 1] = t[i + 1]
      BY <1>1, <3>1
    <3> QED BY <1>5, <2>1, <3>2
  <2>2. CASE i = Len(t)
    <3>1. u[i] = n /\ u[i + 1] = k
      BY <1>1, <1>2, <2>2
    <3> QED BY <3>1
  <2> QED BY <1>1, <1>2, <2>1, <2>2
<1>10. IsPath(u, e, k)
  BY <1>6, <1>7, <1>8, <1>9 DEF IsPath
<1> QED BY <1>10 DEF u

LEMMA ReporterAlone ==
    ASSUME NEW e \in Events
    PROVE  IsPath(<< Reporter[e] >>, e, Reporter[e])
BY BridgeAssumption DEF IsPath

LEMMA PathPreserved == TypeOK /\ PathInv /\ [Next]_vars => PathInv'
<1> SUFFICES ASSUME TypeOK, PathInv, [Next]_vars, NEW m \in net', m \notin net
             PROVE  Routed(m)
  BY DEF PathInv
<1>1. CASE SentAsVote(m)
  <2>1. PICK v \in Votes : m \in Publish(v, Raw, Raw, << >>, Reporter[v], {Home[Reporter[v]]})
    BY <1>1 DEF SentAsVote
  <2>2. v \notin Reports /\ Reporter[v] \in Nodes
    BY BridgeAssumption, AddressTypes DEF Events
  <2>3. /\ m.ev = v /\ m.from = Reporter[v] /\ m.to # m.from
        /\ m.subnet = Home[m.from] /\ m.subnet \in Joined(m.to)
    BY <2>1, PublishedFields
  <2> QED BY <2>2, <2>3, ConfigTypes DEF Routed
<1>2. CASE SentAsReport(m)
  <2>1. PICK e \in Reports, sig \in Signatures :
            m \in Publish(e, NormalizeIP(Reporter[e]), sig, << Reporter[e] >>,
                          Reporter[e], {Home[Reporter[e]]})
    BY <1>2 DEF SentAsReport
  <2>2. e \in Events /\ e \notin Votes /\ Reporter[e] \in Nodes
    BY BridgeAssumption, AddressTypes DEF Events
  <2>3. /\ m.ev = e /\ m.from = Reporter[e] /\ m.to # m.from
        /\ m.trace = << Reporter[e] >>
        /\ m.subnet = Home[m.from] /\ m.subnet \in Joined(m.to)
    BY <2>1, PublishedFields
  <2> QED BY <2>2, <2>3, ConfigTypes, ReporterAlone DEF Routed
<1>3. CASE SentAsRelay(m)
  <2>1. PICK c \in net :
            /\ c.ev \in Reports /\ MayReemit(c.to, c)
            /\ \E sns \in SUBSET Joined(c.to) :
                  m \in Publish(c.ev, c.ip, c.sig, Append(c.trace, c.to), c.to, sns)
    BY <1>3 DEF SentAsRelay
  <2>2. /\ m.ev = c.ev /\ m.from = c.to /\ m.to # m.from
        /\ m.trace = Append(c.trace, c.to)
        /\ m.subnet \in Joined(m.from) /\ m.subnet \in Joined(m.to)
    <3> DEFINE t == Append(c.trace, c.to)
    <3>1. PICK sns \in SUBSET Joined(c.to) :
              m \in Publish(c.ev, c.ip, c.sig, t, c.to, sns)
      BY <2>1
    <3> HIDE DEF t
    <3>2. /\ m.ev = c.ev /\ m.from = c.to /\ m.to # c.to /\ m.subnet \in sns
          /\ m.trace = t /\ m.subnet \in Joined(m.to)
      BY <3>1, PublishedFields
    <3> QED BY <3>2 DEF t
  <2>3. /\ c.trace \in Seq(Nodes) /\ c.to \in Nodes /\ c.from \in Nodes
        /\ c.ev \notin Votes
    BY <2>1, BridgeAssumption DEF TypeOK, Message
  <2>4. IsPath(c.trace, c.ev, c.from) /\ SharesSubnet(c.from, c.to)
    BY <2>1 DEF PathInv, Routed, SharesSubnet
  <2>5. Len(c.trace) < MaxTrace /\ c.to \notin Range(c.trace)
    BY <2>1 DEF MayReemit, PassedThrough
  <2>6. IsPath(Append(c.trace, c.to), c.ev, c.to)
    BY <2>3, <2>4, <2>5, ExtendedPath
  <2> QED BY <2>2, <2>3, <2>6 DEF Routed
<1> QED BY <1>1, <1>2, <1>3, SentByStep

LEMMA InitPath == Init => PathInv
BY DEF Init, PathInv

LEMMA PathInvHolds == Spec => []PathInv
BY InitPath, PathPreserved, BridgeTypes, PTL DEF Spec

(* The trace of every report under way is a simple path of the federation  *)
(* within the limit, for any topology of subnets and bridges, loops        *)
(* included (reemitIfBridge).                                              *)
THEOREM TracesArePaths == Spec => []TraceIsPath
<1>1. PathInv => TraceIsPath
  BY DEF PathInv, Routed, IsPath, TraceIsPath
<1> QED BY <1>1, PathInvHolds, PTL

(***************************************************************************)
(* Counting.                                                               *)
(***************************************************************************)

(* Another node's event that has been counted is in the cache or has been  *)
(* forgotten, and forgotten if counted again; an own one is counted when   *)
(* it is published, once.                                                  *)
CountInv ==
    \A n \in Nodes, e \in Events :
        IF n = Reporter[e]
        THEN counted[n][e] <= 1 /\ (counted[n][e] > 0 => e \in published)
        ELSE /\ counted[n][e] > 0 => e \in Keys(seen[n]) \cup forgot[n]
             /\ counted[n][e] > 1 => e \in forgot[n]

(* No key leaves a cache unnoticed.                                        *)
LEMMA NothingSlipsAway ==
    ASSUME TypeOK, [Next]_vars, NEW n \in Nodes
    PROVE  /\ Keys(seen[n]) \subseteq Keys(seen'[n]) \cup forgot'[n]
           /\ forgot[n] \subseteq forgot'[n]
<1>1. ASSUME NEW k \in Events, Mark(n, k)
      PROVE  Keys(seen[n]) \subseteq Keys(seen'[n]) \cup forgot'[n] /\ forgot[n] \subseteq forgot'[n]
  BY <1>1, MarkEffect
<1>2. ASSUME Crash(n) PROVE forgot'[n] = forgot[n] \cup Keys(seen[n])
  BY <1>2 DEF Crash, TypeOK
<1> QED BY <1>1, <1>2, CacheStep

(* A copy that is admitted has not come back to its reporter.              *)
LEMMA NotOwn ==
    ASSUME TypeOK, PathInv, NEW m \in net, Admitted(m.to, m)
    PROVE  m.to # Reporter[m.ev]
<1>1. m.ev \in Events /\ m.trace \in Seq(Nodes)
  BY DEF TypeOK, Message
<1>2. CASE m.ev \in Votes
  BY <1>2 DEF PathInv, Routed
<1>3. CASE m.ev \in Reports
  <2>1. m.trace # << >> /\ m.trace[1] = Reporter[m.ev]
    BY <1>3 DEF PathInv, Routed, IsPath
  <2>2. Reporter[m.ev] \in Range(m.trace)
    BY <1>1, <2>1 DEF Range
  <2>3. m.to \notin Range(m.trace)
    BY <1>3 DEF Admitted, Scorable, PassedThrough
  <2> QED BY <2>2, <2>3
<1> QED BY <1>1, <1>2, <1>3 DEF Events

(* Who counts what in a step: a node its own event when it publishes it,   *)
(* or another node's event when it marks it.                               *)
LEMMA CountStep ==
    ASSUME TypeOK, PathInv, [Next]_vars, NEW n \in Nodes, NEW e \in Events
    PROVE  /\ published \subseteq published'
           /\ \/ counted'[n][e] = counted[n][e]
              \/ /\ counted'[n][e] = counted[n][e] + 1
                 /\ \/ n = Reporter[e] /\ e \notin published /\ e \in published'
                    \/ n # Reporter[e] /\ Mark(n, e)
<1>1. ASSUME NEW i \in Nodes, Start(i)
      PROVE  /\ published \subseteq published'
             /\ \/ counted'[n][e] = counted[n][e]
                \/ /\ counted'[n][e] = counted[n][e] + 1
                   /\ n = Reporter[e] /\ e \notin published /\ e \in published'
  <2>1. ASSUME NEW v \in Votes, SharedVote(i, v)
        PROVE  /\ published \subseteq published' /\ v \notin published /\ v \in published'
               /\ i = Reporter[v] /\ v \in Events /\ Count(i, v)
    BY <2>1 DEF SharedVote, Events
  <2>2. CASE UNCHANGED << net, counted, history >>
    BY <2>2 DEF history
  <2> QED BY <1>1, <2>1, <2>2, CountType DEF Start
<1>2. ASSUME NEW i \in Nodes, Crash(i) PROVE UNCHANGED << counted, published >>
  BY <1>2 DEF Crash
<1>3. ASSUME NEW i \in Nodes, NEW r \in Reports, ProcessLocal(i, r)
      PROVE  /\ published \subseteq published'
             /\ \/ counted'[n][e] = counted[n][e]
                \/ /\ counted'[n][e] = counted[n][e] + 1
                   /\ n = Reporter[e] /\ e \notin published /\ e \in published'
  <2>1. /\ published' = published \cup {r} /\ r \notin published
        /\ i = Reporter[r] /\ r \in Events
    BY <1>3 DEF ProcessLocal, Events
  <2>2. Count(i, r) \/ UNCHANGED counted
    BY <1>3 DEF ProcessLocal
  <2> QED BY <2>1, <2>2, CountType
<1>4. ASSUME NEW m \in net, ProcessRemote(m)
      PROVE  /\ UNCHANGED published
             /\ \/ counted'[n][e] = counted[n][e]
                \/ /\ counted'[n][e] = counted[n][e] + 1
                   /\ n # Reporter[e] /\ Mark(n, e)
  <2>1. m.to \in Nodes /\ m.ev \in Events
    BY DEF TypeOK, Message
  <2>2. UNCHANGED published
    BY <1>4 DEF ProcessRemote
  <2>3. \/ UNCHANGED counted
        \/ Count(m.to, m.ev) /\ Mark(m.to, m.ev) /\ Admitted(m.to, m)
    BY <1>4 DEF ProcessRemote, ShedRemote, Drop, RecordFails, CountVote, Score
  <2> QED BY <2>1, <2>2, <2>3, CountType, NotOwn
<1>5. ASSUME NEW m \in net, Lose(m) PROVE UNCHANGED << counted, published >>
  BY <1>5 DEF Lose
<1>6. CASE Tick \/ UNCHANGED vars
  BY <1>6 DEF Tick, vars
<1> QED BY <1>1, <1>2, <1>3, <1>4, <1>5, <1>6 DEF Next

LEMMA CountPreserved == TypeOK /\ PathInv /\ CountInv /\ [Next]_vars => CountInv'
<1> SUFFICES ASSUME TypeOK, PathInv, CountInv, [Next]_vars, NEW n \in Nodes, NEW e \in Events
             PROVE  IF n = Reporter[e]
                    THEN counted'[n][e] <= 1 /\ (counted'[n][e] > 0 => e \in published')
                    ELSE /\ counted'[n][e] > 0 => e \in Keys(seen'[n]) \cup forgot'[n]
                         /\ counted'[n][e] > 1 => e \in forgot'[n]
  BY DEF CountInv, Keys
<1>1. counted[n][e] \in Nat
  BY DEF TypeOK
<1>2. CASE counted'[n][e] = counted[n][e]
  BY <1>2, CountStep, NothingSlipsAway DEF CountInv
<1>3. CASE /\ counted'[n][e] = counted[n][e] + 1
           /\ n = Reporter[e] /\ e \notin published /\ e \in published'
  BY <1>1, <1>3 DEF CountInv
<1>4. CASE counted'[n][e] = counted[n][e] + 1 /\ n # Reporter[e] /\ Mark(n, e)
  <2>1. /\ e \in Keys(seen'[n]) /\ forgot[n] \subseteq forgot'[n]
        /\ e \in Keys(seen[n]) => e \in forgot'[n]
    BY <1>4, MarkEffect
  <2>2. counted[n][e] > 0 => e \in Keys(seen[n]) \cup forgot[n]
    BY <1>4 DEF CountInv
  <2> QED BY <1>1, <1>4, <2>1, <2>2
<1> QED BY <1>2, <1>3, <1>4, CountStep

LEMMA InitCount == Init => CountInv
BY DEF Init, CountInv

(* A node counts an event at most once as long as its cache has not lost   *)
(* the key, and its own events at most once in any case, whatever paths,   *)
(* orders, duplicates and restarts (Seen, ProcessRemote, processLocal).    *)
THEOREM EventsCountOnce == Spec => []CountedOnce
<1>1. TypeOK /\ CountInv => CountedOnce
  <2> SUFFICES ASSUME TypeOK, CountInv, NEW n \in Nodes, NEW e \in Events
               PROVE  /\ counted[n][e] > 1 => e \in forgot[n]
                      /\ n = Reporter[e] => counted[n][e] <= 1
    BY DEF CountedOnce
  <2>1. counted[n][e] \in Nat
    BY DEF TypeOK
  <2> QED BY <2>1 DEF CountInv
<1> QED BY <1>1, InitCount, CountPreserved, PathInvHolds, BridgeTypes, PTL DEF Spec

=============================================================================
