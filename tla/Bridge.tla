------------------------------- MODULE Bridge -------------------------------
(***************************************************************************)
(* Subnets joined by bridges (internal/transport/gossip.go, the receive    *)
(* path and reemitIfBridge of internal/node/node.go, internal/node/dedup). *)
(*                                                                         *)
(* Every node runs the same code.  A node publishes its own reports and    *)
(* its shared votes on its home subnet.  A node with bridge subnets        *)
(* publishes what it has accepted again on its other subnets, with its own *)
(* id appended to OriginTrace.  Copies of one event therefore travel       *)
(* several paths; what keeps them from looping and from being counted      *)
(* twice is the trace, its length limit and the dedup cache.               *)
(*                                                                         *)
(* An event stands for its dedup key (reporter, address, reason, time).    *)
(* What counting does to the score is Node; here it is a counter.          *)
(***************************************************************************)
EXTENDS Integers, Sequences, FiniteSets, Functions

CONSTANTS
    Nodes, Subnets,
    Home,           \* cfg.FederationSubnet, canonical
    BridgeSubnets,  \* cfg.FederationBridgeSubnets, canonical, a set
    IPv6Prefix,     \* cfg.Reputation.EffectiveIPv6Prefix()
    Reports, Votes, \* events of kind "" and "vote"
    Reporter,       \* who observes or casts it
    Ranges,         \* votes on an IPv4 range, which NormalizeIP rejects
    Protected,      \* reports a node's never-block list or whitelist covers
    Blocked,        \* trust.IsBlocked of each node
    MaxTrace,       \* maxOriginTraceLen
    MaxSeen, TTL,   \* newDedupCache(max, ttl)
    NoSig, Raw,     \* no signature; an address as the whitelist holds it
    MaxNow, MaxFaults

Events == Reports \cup Votes

ASSUME BridgeAssumption ==
    /\ Home \in [Nodes -> Subnets]
    /\ BridgeSubnets \in [Nodes -> SUBSET Subnets]
    /\ Reporter \in [Events -> Nodes]
    /\ Reports \cap Votes = {} /\ IsFiniteSet(Reports) /\ IsFiniteSet(Votes)
    /\ Ranges \subseteq Votes
    /\ Protected \in [Nodes -> SUBSET Reports]
    /\ Blocked \in [Nodes -> SUBSET Nodes]
    /\ MaxTrace \in Nat \ {0}
    /\ MaxSeen \in Nat \ {0}
    /\ TTL \in Nat \ {0}
    /\ MaxNow \in Nat
    /\ MaxFaults \in Nat
    /\ \A n \in Nodes : IPv6Prefix[n] \notin {NoSig, Raw}
    /\ NoSig # Raw

VARIABLES
    up,         \* nodes whose read loops run
    net,        \* copies published and not yet taken from Subscribe()
    seen,       \* dedupCache.seen of each node: key -> time of insertion
    now,
    faults,     \* how many faults there have been
    published,  \* history: events their reporter has published
    counted,    \* history: how often a node has recorded an event
    forgot,     \* history: keys a node's cache has held and lost
    lost        \* history: events some copy of which a fault has stopped

vars == << up, net, seen, now, faults, published, counted, forgot, lost >>
history == << published, lost >>

-----------------------------------------------------------------------------
(* Configuration *)

EffectiveBridgeSubnets(n) == BridgeSubnets[n] \ {Home[n]}
Joined(n) == {Home[n]} \cup BridgeSubnets[n]
Members(sn) == {n \in Nodes : sn \in Joined(n)}

\* An IPv6 address, bare or a peer's prefix, is masked to this node's prefix.
NormalizeIP(n) == IPv6Prefix[n]

(* Copies: OriginTrace is not part of what sig signs, ip is. *)

Signatures == {NoSig, Raw} \cup {IPv6Prefix[n] : n \in Nodes}
Addresses == Signatures \ {NoSig}

Message == [ ev : Events, ip : Addresses, sig : Signatures, trace : Seq(Nodes),
             from : Nodes, subnet : Subnets, to : Nodes ]

\* Gossipsub hands one copy to every other running member of each topic;
\* readLoop skips what the node published itself.
Publish(ev, ip, sig, trace, n, sns) ==
    { [ ev |-> ev, ip |-> ip, sig |-> sig, trace |-> trace,
        from |-> n, subnet |-> d[1], to |-> d[2] ] :
            d \in {c \in sns \X up : c[2] # n /\ c[1] \in Joined(c[2])} }

\* A member that is down misses what is published meanwhile.
MissedBy(n, sns) == \E m \in Nodes \ (up \cup {n}) : sns \cap Joined(m) # {}

-----------------------------------------------------------------------------
(* dedupCache *)

Never == -1
Live(s, k) == s[k] # Never /\ now - s[k] < TTL
Keys(s) == {k \in Events : s[k] # Never}
Without(s, D) == [k \in Events |-> IF k \in D THEN Never ELSE s[k]]

\* Mutant: a full cache only drops what has expired.
EvictsExpiredOnly(s) == {Without(s, {k \in Keys(s) : ~ Live(s, k)})}

\* evictOldestLocked: the expired keys go, then one oldest if the cache is
\* still full.  The map's order decides between keys of the same age.
evictOldestLocked(s) ==
    LET left == Without(s, {k \in Keys(s) : ~ Live(s, k)})
        oldest == {k \in Keys(left) : \A j \in Keys(left) : left[k] <= left[j]}
    IN  IF Cardinality(Keys(left)) < MaxSeen THEN {left}
        ELSE {Without(left, {k}) : k \in oldest}

\* Mutants: a full cache does not take the key; the entry is stored as expired.
SkipsWhenFull(s, k) ==
    IF Cardinality(Keys(s)) >= MaxSeen THEN evictOldestLocked(s)
    ELSE {[s EXCEPT ![k] = now]}
StoresDeadline(s, k) == {[s EXCEPT ![k] = now - TTL - 1]}

\* The caches Seen can leave behind when it answers false for k.
Inserted(s, k) ==
    { [t EXCEPT ![k] = now] :
        t \in IF Cardinality(Keys(s)) >= MaxSeen THEN evictOldestLocked(s) ELSE {s} }

\* Node n marks k: what it held and holds no more is forgotten, and so is k
\* itself if an expired entry is refreshed.
Mark(n, k) ==
    \E t \in Inserted(seen[n], k) :
        /\ seen' = [seen EXCEPT ![n] = t]
        /\ forgot' = [forgot EXCEPT ![n] = @ \cup (Keys(seen[n]) \ Keys(t))
                                             \cup (Keys(seen[n]) \cap {k})]

-----------------------------------------------------------------------------
\* Nodes with nothing to announce at their start may be running already.
Init ==
    /\ up = {n \in Nodes : \A v \in Votes : Reporter[v] # n}
    /\ net = {}
    /\ seen = [n \in Nodes |-> [k \in Events |-> Never]]
    /\ now = 0
    /\ faults = 0
    /\ published = {}
    /\ counted = [n \in Nodes |-> [k \in Events |-> 0]]
    /\ forgot = [n \in Nodes |-> {}]
    /\ lost = {}

\* A crash, a copy lost or shed, a failed write, signature or publication; bounded.
Fault == faults < MaxFaults /\ faults' = faults + 1

Count(n, k) == counted' = [counted EXCEPT ![n][k] = @ + 1]

(* transport.New joins and subscribes, Run calls publishSharedVotes once.  *)
(* A vote carries no trace, is not marked in the own cache and is cast     *)
(* anew, with a new time, by every start.                                  *)
SharedVote(n, v) ==
    /\ Reporter[v] = n
    /\ v \notin published
    /\ published' = published \cup {v}
    /\ net' = net \cup Publish(v, Raw, Raw, << >>, n, {Home[n]})
    /\ lost' = IF MissedBy(n, {Home[n]}) THEN lost \cup {v} ELSE lost
    /\ Count(n, v)

Start(n) ==
    /\ n \notin up
    /\ up' = up \cup {n}
    /\ IF \E v \in Votes : Reporter[v] = n
       THEN \E v \in Votes : SharedVote(n, v)
       ELSE UNCHANGED << net, counted, history >>
    /\ UNCHANGED << seen, now, faults, forgot >>

\* The cache is in memory, the scores are not.  What was under way to n is gone.
Crash(n) ==
    /\ n \in up
    /\ Fault
    /\ up' = up \ {n}
    /\ net' = {m \in net : m.to # n}
    /\ lost' = lost \cup {m.ev : m \in {c \in net : c.to = n}}
    /\ forgot' = [forgot EXCEPT ![n] = @ \cup Keys(seen[n])]
    /\ seen' = [seen EXCEPT ![n] = [k \in Events |-> Never]]
    /\ UNCHANGED << now, published, counted >>

(* processLocal: an observation on an address nothing protects is marked,  *)
(* recorded and published.  Without a record it is not published; signing  *)
(* may fail, which only leaves it unsigned (nobody accepts an unsigned     *)
(* copy from a relay); so may Publish.                                     *)
ProcessLocal(n, e) ==
    /\ n \in up
    /\ Reporter[e] = n
    /\ e \notin published
    /\ e \notin Protected[n]
    /\ Mark(n, e)
    /\ published' = published \cup {e}
    /\ \/ /\ Count(n, e)
          /\ net' = net \cup Publish(e, NormalizeIP(n), NormalizeIP(n), << n >>, n, {Home[n]})
          /\ lost' = IF MissedBy(n, {Home[n]}) THEN lost \cup {e} ELSE lost
          /\ UNCHANGED faults
       \/ /\ Fault
          /\ lost' = lost \cup {e}
          /\ \/ net' = net /\ UNCHANGED counted
             \/ net' = net \cup Publish(e, NormalizeIP(n), NoSig, << n >>, n, {Home[n]}) /\ Count(n, e)
             \/ net' = net /\ Count(n, e)
    /\ UNCHANGED << up, now >>

-----------------------------------------------------------------------------
(* ProcessRemote, in the order of its checks *)

\* A relayed copy needs the reporter's signature, and its publisher must be
\* the last hop of the trace.
SpoofGuard(m) ==
    \/ Reporter[m.ev] = m.from
    \/ m.sig # NoSig /\ m.trace # << >> /\ m.trace[Len(m.trace)] = m.from

VerifyEventSig(m) == m.sig = NoSig \/ m.sig = m.ip

\* Mutant: no loop guard.
NoLoopGuard(n, trace) == FALSE
PassedThrough(n, trace) == n \in Range(trace)

Acceptable(n, m) ==
    /\ SpoofGuard(m)
    /\ m.from \notin Blocked[n]
    /\ VerifyEventSig(m)
    /\ m.ev \notin Ranges

\* The checks a vote does not undergo.
Scorable(n, m) ==
    /\ ~ PassedThrough(n, m.trace)
    /\ Len(m.trace) <= MaxTrace
    /\ m.ev \notin Protected[n]

Admitted(n, m) == Acceptable(n, m) /\ (m.ev \in Reports => Scorable(n, m))

Take(m) == net' = net \ {m}

\* The governor sheds: the copy is dropped before anything is looked at.
ShedRemote(m) ==
    /\ Fault
    /\ Take(m)
    /\ lost' = lost \cup {m.ev}
    /\ UNCHANGED << seen, counted, forgot >>

Drop(n, m) ==
    /\ ~ Admitted(n, m) \/ Live(seen[n], m.ev)
    /\ Take(m)
    /\ UNCHANGED << seen, faults, counted, forgot, lost >>

\* The key is marked before the record is written, and stays marked when the
\* write fails.
RecordFails(n, m) ==
    /\ Admitted(n, m) /\ ~ Live(seen[n], m.ev)
    /\ Mark(n, m.ev)
    /\ Take(m)
    /\ lost' = lost \cup {m.ev}
    /\ Fault
    /\ UNCHANGED counted

\* processDispute returns before the code that bridges.
CountVote(n, m) ==
    /\ m.ev \in Votes
    /\ Admitted(n, m) /\ ~ Live(seen[n], m.ev)
    /\ Mark(n, m.ev)
    /\ Count(n, m.ev)
    /\ Take(m)
    /\ UNCHANGED << faults, lost >>

MayReemit(n, m) ==
    /\ EffectiveBridgeSubnets(n) # {}
    /\ ~ PassedThrough(n, m.trace)
    /\ Len(m.trace) < MaxTrace

\* Mutant: the copy with the normalised address is re-emitted.
ReemitsNormalised(n, m, sns) ==
    IF MayReemit(n, m)
    THEN Publish(m.ev, NormalizeIP(n), m.sig, Append(m.trace, n), n, sns)
    ELSE {}

\* reemitIfBridge publishes the event as it came (re.Event, not the copy with
\* the address normalised), so that the reporter's signature still fits.
Reemitted(n, m, sns) ==
    IF MayReemit(n, m)
    THEN Publish(m.ev, m.ip, m.sig, Append(m.trace, n), n, sns)
    ELSE {}

\* A fault: the governor sheds the re-emission, or some subnet's Publish fails.
Score(n, m) ==
    LET others == Joined(n) \ {m.subnet} IN
    /\ m.ev \in Reports
    /\ Admitted(n, m) /\ ~ Live(seen[n], m.ev)
    /\ Mark(n, m.ev)
    /\ Count(n, m.ev)
    /\ \/ /\ net' = (net \ {m}) \cup Reemitted(n, m, others)
          /\ lost' = IF MayReemit(n, m) /\ MissedBy(n, others)
                     THEN lost \cup {m.ev} ELSE lost
          /\ UNCHANGED faults
       \/ /\ MayReemit(n, m)
          /\ \E sns \in (SUBSET others) \ {others} :
                net' = (net \ {m}) \cup Reemitted(n, m, sns)
          /\ lost' = lost \cup {m.ev}
          /\ Fault

ProcessRemote(m) ==
    /\ m \in net
    /\ \/ ShedRemote(m)
       \/ Drop(m.to, m)
       \/ RecordFails(m.to, m)
       \/ CountVote(m.to, m)
       \/ Score(m.to, m)
    /\ UNCHANGED << up, now, published >>

\* A subscription's buffer overflows or a connection breaks.
Lose(m) ==
    /\ m \in net
    /\ Fault
    /\ Take(m)
    /\ lost' = lost \cup {m.ev}
    /\ UNCHANGED << up, seen, now, published, counted, forgot >>

Tick ==
    /\ now < MaxNow
    /\ now' = now + 1
    /\ UNCHANGED << up, net, seen, faults, published, counted, forgot, lost >>

Next ==
    \/ \E n \in Nodes : Start(n) \/ Crash(n)
    \/ \E n \in Nodes, e \in Reports : ProcessLocal(n, e)
    \/ \E m \in net : ProcessRemote(m) \/ Lose(m)
    \/ Tick

\* The select loop of Run takes copies as long as there are any.
Spec == Init /\ [][Next]_vars /\ WF_vars(\E m \in net : ProcessRemote(m))

-----------------------------------------------------------------------------
(* Properties *)

TypeOK ==
    /\ up \subseteq Nodes
    /\ net \subseteq Message
    /\ seen \in [Nodes -> [Events -> Nat \cup {Never}]]
    /\ now \in Nat /\ faults \in Nat
    /\ published \subseteq Events
    /\ counted \in [Nodes -> [Events -> Nat]]
    /\ forgot \in [Nodes -> SUBSET Events]
    /\ lost \subseteq Events

\* The trace of every report under way is a simple path of the federation: it
\* begins with the reporter, repeats no node, ends with the publisher of this
\* copy, each hop shares a subnet with the next, and it is never longer than
\* the limit (the guards of reemitIfBridge and ProcessRemote together).
SharesSubnet(n, m) == Joined(n) \cap Joined(m) # {}
TraceIsPath ==
    \A m \in net : m.ev \in Reports =>
        LET t == m.trace IN
        /\ t # << >> /\ Len(t) <= MaxTrace
        /\ t[1] = Reporter[m.ev] /\ t[Len(t)] = m.from
        /\ \A i, j \in 1..Len(t) : t[i] = t[j] => i = j
        /\ \A i \in 1..(Len(t) - 1) : SharesSubnet(t[i], t[i + 1])
        /\ m.subnet \in Joined(m.from)

\* A node counts an event once, over however many paths, orders and crashes it
\* arrives, unless the key has left its cache by age, by a full cache or by a
\* restart (dedup.go: "First-seen wins").
CountedOnce ==
    \A n \in Nodes, e \in Events :
        /\ counted[n][e] > 1 => e \in forgot[n]
        /\ n = Reporter[e] => counted[n][e] <= 1

\* The cache never holds more than max keys.
CacheBounded == \A n \in Nodes : Cardinality(Keys(seen[n])) <= MaxSeen

\* The nodes an event can get to when nothing goes wrong: over the reporter's
\* home subnet and the bridges that do not protect the address.
Relays(e, n) ==
    n = Reporter[e] \/ (EffectiveBridgeSubnets(n) # {} /\ e \notin Protected[n])
PublishesOn(e, n) == IF n = Reporter[e] THEN {Home[n]} ELSE Joined(n)
Reach(e) ==
    LET within[k \in 0..Cardinality(Nodes)] ==
            IF k = 0 THEN {Reporter[e]}
            ELSE within[k - 1] \cup
                 {n \in Nodes : \E m \in within[k - 1] :
                     Relays(e, m) /\ PublishesOn(e, m) \cap Joined(n) # {}}
    IN  within[Cardinality(Nodes)]

Arrives(e) ==
    \A n \in {k \in Reach(e) : e \notin Protected[k] /\ Blocked[k] = {}} :
        e \in published ~> (e \in lost \/ counted[n][e] > 0)

\* A report reaches every node of every subnet that bridges connect to the
\* reporter's, whichever path comes first, unless a copy was lost, shed, not
\* recorded, not published or left unsigned.
ReportsArrive == \A e \in Reports : Arrives(e)

\* "Gossiped on the existing events topic via the unchanged transport.Publish
\* (leaf/bridge behavior identical to events)" of the disputes design: a shared
\* vote, too, reaches the other subnets.
VotesArrive == \A v \in Votes \ Ranges : Arrives(v)

=============================================================================
