-------------------------------- MODULE Node --------------------------------
(***************************************************************************)
(* One federloom node (internal/node): the event loop that turns local     *)
(* observations, remote reports, dispute votes and decay ticks into        *)
(* reputation records and firewall decisions, and the lookup goroutines    *)
(* (DNSBL and API) that turn a federated verdict into a provisional block. *)
(*                                                                         *)
(* The event loop is one goroutine: its handlers exclude each other.  A    *)
(* lookup runs beside it and shares with it the firewall set and, under    *)
(* matMu, the maps materialised and disputed.  A handler is one action     *)
(* unless a lookup can step in between two of its effects; then it is      *)
(* split there (processDispute, materialiseFederated).                     *)
(***************************************************************************)
EXTENDS Rules

CONSTANTS
  IPs,                       \* normalised addresses
  NeverBlock,                \* the addresses of the never-block list
  Peers,                     \* remote reporters
  Self,                      \* this node's peer ID
  VouchedBy,                 \* the Person whose peer-cert a peer carries
  BlockedPeers,              \* blocked-peers.json
  HomeSubnet,                \* federation_subnet
  Weight,                    \* the reason weight table
  AnchorTrust,               \* weight of an anchored Person
  StrangerTrust,             \* trust.stranger_weight
  FederationDiscount,        \* trust.federation_discount
  BurstCounts,               \* burst counts the window store may report
  UnblockThreshold,          \* reputation.unblock_threshold
  DisputeUnblockMinSubnets,  \* dispute_unblock_min_subnets
  Lookups,                   \* concurrent DNSBL and API lookups
  Verdicts,                  \* federated answers: score and subnet diversity
  FederationBlockThreshold,  \* federation_block_threshold
  FederationBlockMinSubnets, \* federation_block_min_subnets
  FederationBlockTTL,        \* federation_block_ttl, in ticks
  NoIP,                      \* no address: an idle event loop or lookup
  Backend,                   \* enforce.backend
  BanDuration,               \* CrowdSec ban duration, in ticks
  SinkMayFail,               \* whether a firewall command may fail
  MayCrash                   \* whether the daemon may stop and start again

ASSUME NodeAssumption ==
  /\ NoIP \notin IPs
  /\ NeverBlock \subseteq IPs
  /\ BlockedPeers \subseteq Peers
  /\ Self \in Persons /\ Self \notin Peers
  /\ VouchedBy \in [Peers \cup {Self} -> Persons \cup {NoPerson}]
  /\ HomeSubnet \in Subnets \cup {NoSubnet}
  /\ Weight \in [Reasons -> 0..Full]
  /\ AnchorTrust \in 0..Unit /\ StrangerTrust \in 0..Unit
  /\ FederationDiscount \in 1..Unit
  /\ UnblockThreshold \in Nat
  /\ DisputeUnblockMinSubnets \in Nat \ {0}
  /\ Verdicts \subseteq [score : 0..Full, subnets : Nat]
  /\ FederationBlockThreshold \in Nat /\ FederationBlockMinSubnets \in Nat
  /\ FederationBlockTTL \in Nat \ {0} /\ BanDuration \in Nat \ {0}
  /\ Backend \in {"ipset", "nftables", "crowdsec"}
  /\ SinkMayFail \in BOOLEAN /\ MayCrash \in BOOLEAN

VARIABLES
  up,            \* the daemon runs
  store,         \* BadgerDB: one ScoreRecord per address
  sink,          \* the firewall deny set: the decisions held per address
  materialised,  \* addresses believed to hold a federated block
  disputed,      \* addresses suppressed from materialising
  whitelist,     \* the whitelist loaded at start
  anchors,       \* Persons anchored in the trust store
  main,          \* the event loop: the address it is about to unblock, if any
  lookup,        \* each lookup: where it is and for which address
  decayDue,      \* a tick passed since the last decay run
  vouched,       \* history: addresses reported by this node or an anchored peer
  disputers      \* history: subnets of the anchored votes on each address

nodeVars == <<materialised, disputed, whitelist, main, lookup>>
history == <<vouched, disputers>>
vars == <<up, store, sink, nodeVars, anchors, decayDue, history>>

(***************************************************************************)
(* State.                                                                  *)
(***************************************************************************)

(* An entry of the deny set: the call that placed it, and the ticks until  *)
(* the backend drops it by itself; 0 is a permanent entry.                 *)
LongestTTL == IF FederationBlockTTL > BanDuration THEN FederationBlockTTL
                                                  ELSE BanDuration
Decision == [by : {"local", "federated"}, left : 0..LongestTTL]

(* A lookup that is not running, and one that reached pc for ip.           *)
Idle == [pc |-> "idle", ip |-> NoIP]
At(pc, ip) == [pc |-> pc, ip |-> ip]

TypeOK ==
  /\ up \in BOOLEAN
  /\ store \in [IPs -> ScoreRecord]
  /\ sink \in [IPs -> SUBSET Decision]
  /\ materialised \subseteq IPs
  /\ disputed \subseteq IPs
  /\ whitelist \subseteq IPs
  /\ anchors \subseteq Persons
  /\ main \in IPs \cup {NoIP}
  /\ lookup \in [Lookups -> {Idle} \cup [pc : {"query", "block", "record"}, ip : IPs]]
  /\ decayDue \in BOOLEAN
  /\ vouched \subseteq IPs
  /\ disputers \in [IPs -> SUBSET Subnets]

Protected(ip) == ip \in NeverBlock \/ ip \in whitelist

HoldsLocal(ip) == \E d \in sink[ip] : d.by = "local"
HoldsFederated(ip) == \E d \in sink[ip] : d.by = "federated"

(***************************************************************************)
(* The firewall backends (internal/enforce).                               *)
(***************************************************************************)

(* What adding d to the decisions held may leave.  ipset add -exist        *)
(* overwrites the entry and its timeout.                                   *)
IpsetAdded(held, d) == {{d}}

(* nft add element leaves an existing element alone or updates its         *)
(* timeout, by kernel version.                                             *)
NftablesAdded(held, d) == IF held = {} THEN {{d}} ELSE {held, {d}}

(* Every alert posted to the LAPI adds a decision of its own.              *)
CrowdSecAdded(held, d) == {held \cup {d}}

Added(held, d) ==
  CASE Backend = "ipset"    -> IpsetAdded(held, d)
    [] Backend = "nftables" -> NftablesAdded(held, d)
    [] Backend = "crowdsec" -> CrowdSecAdded(held, d)

(* Block: permanent, but for CrowdSec's ban duration.                      *)
LocalDecision ==
  [by |-> "local", left |-> IF Backend = "crowdsec" THEN BanDuration ELSE 0]

(* Mutant: the timeout never reaches the backend.                          *)
FederatedDecisionForGood == [by |-> "federated", left |-> 0]

(* BlockFor: the entry carries federation_block_ttl.                       *)
FederatedDecision == [by |-> "federated", left |-> FederationBlockTTL]

Block(ip) ==
  \E held \in Added(sink[ip], LocalDecision) : sink' = [sink EXCEPT ![ip] = held]
BlockFor(ip) ==
  \E held \in Added(sink[ip], FederatedDecision) : sink' = [sink EXCEPT ![ip] = held]
Unblock(ip) == sink' = [sink EXCEPT ![ip] = {}]
SinkError == SinkMayFail /\ UNCHANGED sink

(* The backend drops the entries whose time is up.                         *)
Lapsed(held) ==
  {d \in held : d.left = 0}
    \cup {[d EXCEPT !.left = @ - 1] : d \in {e \in held : e.left > 1}}

(***************************************************************************)
(* Trust: what Resolve says of a peer whose vouch has been cached.         *)
(***************************************************************************)
Anchored(peer) == VouchedBy[peer] \in anchors

ReporterTrust(peer) == IF Anchored(peer) THEN AnchorTrust ELSE StrangerTrust

(* The weight of a remote report: a stranger's is discounted once when the *)
(* event's origin subnet is not ours.                                      *)
RemoteTrust(peer, subnet) ==
  IF Anchored(peer) \/ subnet = HomeSubnet
    THEN ReporterTrust(peer)
    ELSE (StrangerTrust * FederationDiscount) \div Unit

LocalObservation(reason) ==
  [ weight |-> Weight[reason], trust |-> Unit, group |-> Self,
    subnet |-> NoSubnet, anchored |-> TRUE ]

RemoteObservation(peer, reason, subnet) ==
  [ weight |-> Weight[reason], trust |-> RemoteTrust(peer, subnet),
    group |-> IF Anchored(peer) THEN VouchedBy[peer] ELSE NoPerson,
    subnet |-> subnet, anchored |-> Anchored(peer) ]

Vote(peer, subnet) ==
  [ weight |-> 0, trust |-> ReporterTrust(peer), group |-> NoPerson,
    subnet |-> subnet, anchored |-> Anchored(peer) ]

(***************************************************************************)
(* The event loop.                                                         *)
(***************************************************************************)
InSelect == up /\ main = NoIP

(* IsBlocked looks up the publisher of a message, not the reporter it      *)
(* names: any peer that is not blocked may relay the report.               *)
MayArrive == Peers \ BlockedPeers # {}

Enforce(ip, action) ==
  IF action = "block" THEN Block(ip) \/ SinkError ELSE UNCHANGED sink

(* processLocal: this node's own sensor saw ip.                            *)
ProcessLocal(ip, reason) ==
  LET rec == Record(store[ip], LocalObservation(reason)) IN
  /\ InSelect
  /\ ~Protected(ip)
  /\ store' = [store EXCEPT ![ip] = rec]
  /\ \E burst \in BurstCounts : Enforce(ip, Evaluate(reason, rec, burst))
  /\ vouched' = vouched \cup {ip}
  /\ UNCHANGED <<up, nodeVars, anchors, decayDue, disputers>>

(* Mutant: the backstop is gone.                                           *)
BackstopGone(action, rec) == action

(* No anchored group behind the record: a block is only watched.           *)
Backstop(action, rec) ==
  IF action = "block" /\ rec.groups = {} THEN "watch" ELSE action

(* ProcessRemote: a report that passed the origin checks and the dedup     *)
(* cache.  A shed or refused event changes nothing here.                   *)
ProcessRemote(peer, ip, reason, subnet) ==
  LET rec == Record(store[ip], RemoteObservation(peer, reason, subnet)) IN
  /\ InSelect
  /\ MayArrive
  /\ ~Protected(ip)
  /\ store' = [store EXCEPT ![ip] = rec]
  /\ \E burst \in BurstCounts :
       Enforce(ip, Backstop(Evaluate(reason, rec, burst), rec))
  /\ vouched' = IF Anchored(peer) THEN vouched \cup {ip} ELSE vouched
  /\ UNCHANGED <<up, nodeVars, anchors, decayDue, disputers>>

(* processDispute up to the unlock in maybeUnblockDisputed.  Votes pass    *)
(* neither the never-block list nor the whitelist.                         *)
ProcessDispute(peer, ip, subnet) ==
  LET rec == RecordDispute(store[ip], Vote(peer, subnet))
      diverse == Cardinality(rec.disputeSubnets) >= DisputeUnblockMinSubnets
  IN
  /\ InSelect
  /\ MayArrive
  /\ store' = [store EXCEPT ![ip] = rec]
  /\ disputed' = IF diverse THEN disputed \cup {ip} ELSE disputed
  /\ materialised' = IF diverse THEN materialised \ {ip} ELSE materialised
  /\ main' = IF diverse /\ ip \in materialised THEN ip ELSE NoIP
  /\ disputers' = IF Anchored(peer)
                    THEN [disputers EXCEPT ![ip] = @ \cup ({subnet} \ {NoSubnet})]
                    ELSE disputers
  /\ UNCHANGED <<up, sink, whitelist, lookup, anchors, decayDue, vouched>>

(* The rest of maybeUnblockDisputed, after matMu is released.              *)
DisputeUnblock ==
  /\ up /\ main # NoIP
  /\ Unblock(main) \/ SinkError
  /\ main' = NoIP
  /\ UNCHANGED <<up, store, materialised, disputed, whitelist, lookup, anchors,
                 decayDue, history>>

(* runDecay: every stored record decays, and an address that fell below    *)
(* the threshold is unblocked, whoever placed the block.                   *)
RunDecay ==
  /\ InSelect
  /\ store' = [ip \in IPs |-> Decay(store[ip])]
  /\ \E failed \in IF SinkMayFail THEN SUBSET IPs ELSE {{}} :
       sink' = [ip \in IPs |->
                  IF /\ store[ip].known
                     /\ Decay(store[ip]).score < UnblockThreshold
                     /\ ip \notin failed
                    THEN {} ELSE sink[ip]]
  /\ decayDue' = FALSE
  /\ UNCHANGED <<up, nodeVars, anchors, history>>

(***************************************************************************)
(* A lookup: Resolver.GetScore, and materialiseFederated on its answer.    *)
(***************************************************************************)

(* The store holds nothing on ip: ask the aggregators.                     *)
LookupMiss(t, ip) ==
  /\ up /\ lookup[t] = Idle
  /\ ~store[ip].known
  /\ lookup' = [lookup EXCEPT ![t] = At("query", ip)]
  /\ UNCHANGED <<up, store, sink, materialised, disputed, whitelist, main,
                 anchors, decayDue, history>>

(* Mutant: the gate without the lists.                                     *)
GateWithoutLists(ip, verdict) ==
  /\ verdict.score >= FederationBlockThreshold
  /\ verdict.subnets >= FederationBlockMinSubnets
  /\ ip \notin disputed

(* The gate of materialiseFederated, read of disputed under matMu included. *)
Gate(ip, verdict) ==
  /\ ~Protected(ip)
  /\ verdict.score >= FederationBlockThreshold
  /\ verdict.subnets >= FederationBlockMinSubnets
  /\ ip \notin disputed

(* An answer comes back, from the aggregators or from the querier's cache. *)
LookupVerdict(t, verdict) ==
  /\ up /\ lookup[t].pc = "query"
  /\ lookup' = [lookup EXCEPT ![t] = IF Gate(@.ip, verdict) THEN At("block", @.ip)
                                                            ELSE Idle]
  /\ UNCHANGED <<up, store, sink, materialised, disputed, whitelist, main,
                 anchors, decayDue, history>>

(* sink.BlockFor, no lock held; on an error the lookup just returns.       *)
LookupBlock(t) ==
  /\ up /\ lookup[t].pc = "block"
  /\ \/ /\ BlockFor(lookup[t].ip)
        /\ lookup' = [lookup EXCEPT ![t] = At("record", @.ip)]
     \/ /\ SinkError
        /\ lookup' = [lookup EXCEPT ![t] = Idle]
  /\ UNCHANGED <<up, store, materialised, disputed, whitelist, main, anchors,
                 decayDue, history>>

(* Mutant: the block is not entered into materialised.                     *)
LookupForgets(t) ==
  /\ up /\ lookup[t].pc = "record"
  /\ lookup' = [lookup EXCEPT ![t] = Idle]
  /\ UNCHANGED <<up, store, sink, materialised, disputed, whitelist, main, anchors,
                 decayDue, history>>

(* The last critical section of materialiseFederated.                      *)
LookupRecord(t) ==
  /\ up /\ lookup[t].pc = "record"
  /\ materialised' = materialised \cup {lookup[t].ip}
  /\ lookup' = [lookup EXCEPT ![t] = Idle]
  /\ UNCHANGED <<up, store, sink, disputed, whitelist, main, anchors, decayDue,
                 history>>

(***************************************************************************)
(* Time, operator and process life.                                        *)
(***************************************************************************)

(* A tick is no shorter than decay_interval, so a running node decays      *)
(* between two ticks.                                                      *)
Tick ==
  /\ up => ~decayDue
  /\ store' = [ip \in IPs |-> Aged(store[ip])]
  /\ sink' = [ip \in IPs |-> Lapsed(sink[ip])]
  /\ decayDue' = TRUE
  /\ UNCHANGED <<up, nodeVars, anchors, history>>

(* anchors.json was edited and the trust store reloaded it.                *)
ReloadAnchors(persons) ==
  /\ anchors' = persons
  /\ UNCHANGED <<up, store, sink, nodeVars, decayDue, history>>

(* New and the head of Run: the whitelist is read, the votes for its       *)
(* entries of scope shared-vote are applied to our own records; the        *)
(* firewall set is left as it was found.                                   *)
Start(entries, shared) ==
  /\ ~up
  /\ up' = TRUE
  /\ whitelist' = entries
  /\ store' = [ip \in IPs |-> IF ip \in shared
                                THEN RecordDispute(store[ip], Vote(Self, HomeSubnet))
                                ELSE store[ip]]
  /\ disputers' = [ip \in IPs |-> IF ip \in shared /\ Anchored(Self)
                                    THEN disputers[ip] \cup ({HomeSubnet} \ {NoSubnet})
                                    ELSE disputers[ip]]
  /\ UNCHANGED <<sink, materialised, disputed, main, lookup, anchors, decayDue,
                 vouched>>

Boot ==
  \E entries \in SUBSET IPs : \E shared \in SUBSET entries : Start(entries, shared)

(* The process ends, between any two steps; memory is lost.                *)
Stop ==
  /\ MayCrash /\ up
  /\ up' = FALSE
  /\ materialised' = {} /\ disputed' = {}
  /\ main' = NoIP
  /\ lookup' = [t \in Lookups |-> Idle]
  /\ UNCHANGED <<store, sink, whitelist, anchors, decayDue, history>>

Init ==
  /\ up = FALSE
  /\ store = [ip \in IPs |-> NoRecord]
  /\ sink = [ip \in IPs |-> {}]
  /\ materialised = {} /\ disputed = {} /\ whitelist = {}
  /\ anchors \in SUBSET (Persons \ {Self})
  /\ main = NoIP
  /\ lookup = [t \in Lookups |-> Idle]
  /\ decayDue = FALSE
  /\ vouched = {}
  /\ disputers = [ip \in IPs |-> {}]

Report ==
  \E ip \in IPs, reason \in Reasons :
    \/ ProcessLocal(ip, reason)
    \/ \E peer \in Peers, subnet \in Subnets \cup {NoSubnet} :
         ProcessRemote(peer, ip, reason, subnet)

Dispute ==
  \/ \E peer \in Peers, ip \in IPs, subnet \in Subnets \cup {NoSubnet} :
       ProcessDispute(peer, ip, subnet)
  \/ DisputeUnblock

Lookup ==
  \E t \in Lookups :
    \/ \E ip \in IPs : LookupMiss(t, ip)
    \/ \E verdict \in Verdicts : LookupVerdict(t, verdict)
    \/ LookupBlock(t)
    \/ LookupRecord(t)

Life ==
  \/ \E persons \in SUBSET (Persons \ {Self}) : ReloadAnchors(persons)
  \/ Boot
  \/ Stop

Next == Report \/ Dispute \/ RunDecay \/ Lookup \/ Tick \/ Life

Spec == Init /\ [][Next]_vars

(* Time passes, a stopped daemon is started again, the decay ticker is     *)
(* served and a handler that started finishes.  Nothing is assumed of      *)
(* reports, votes, lookups or operators.                                   *)
FairSpec ==
  /\ Spec
  /\ WF_vars(Boot)
  /\ WF_vars(Tick)
  /\ WF_vars(RunDecay)
  /\ WF_vars(DisputeUnblock)

(***************************************************************************)
(* Properties.                                                             *)
(***************************************************************************)

(* Never-block and whitelist always win: while an address is protected no  *)
(* handler and no lookup, however delayed, puts it into the deny set       *)
(* (processLocal, ProcessRemote, materialiseFederated).                    *)
ProtectedNeverNewlyBlocked ==
  [][\A ip \in IPs : Protected(ip) /\ sink[ip] = {} => sink'[ip] = {}]_vars

(* A block placed by the event loop has anchored evidence behind it: this  *)
(* node or a peer that was anchored when it reported saw the address.      *)
(* Strangers alone never force a block, whatever the rules say.            *)
LocalBlockNeedsVoucher ==
  \A ip \in IPs : HoldsLocal(ip) => ip \in vouched

(* Everything strangers ever add to an address, across decay, disputes and *)
(* restarts, stays within trust.stranger_score_cap.                        *)
StrangerScoreBounded ==
  \A ip \in IPs : ip \notin vouched => store[ip].score <= StrangerCap

(* An address is suppressed from materialising only after anchored votes   *)
(* from dispute_unblock_min_subnets distinct subnets.                      *)
SuppressionNeedsDiversity ==
  \A ip \in disputed : Cardinality(disputers[ip]) >= DisputeUnblockMinSubnets

(* As long as the process lives and firewall commands succeed, every       *)
(* federated block in the deny set is one a later dispute can retract: it  *)
(* is in materialised, about to be entered there, or being unblocked.      *)
FederatedBlockTracked ==
  \A ip \in IPs : HoldsFederated(ip) =>
    \/ ip \in materialised
    \/ main = ip
    \/ \E t \in Lookups : lookup[t] = At("record", ip)

(* A lookup that read disputed before the vote may still block the address *)
(* afterwards; that block ends, by a later vote or at its TTL, and no      *)
(* other one follows it.                                                   *)
DisputedBlockLapses ==
  \A ip \in IPs : (ip \in disputed) ~> []~HoldsFederated(ip)

(* Steps that hold something against ip.                                   *)
Accuses(ip) ==
  \/ \E reason \in Reasons : ProcessLocal(ip, reason)
  \/ \E peer \in Peers, reason \in Reasons, subnet \in Subnets \cup {NoSubnet} :
       ProcessRemote(peer, ip, reason, subnet)
  \/ \E t \in Lookups : lookup[t].ip = ip /\ LookupBlock(t)

(* Forgiveness: once nobody accuses an address any more, decay lifts every *)
(* block on it for good, permanent ones included.                          *)
QuietBlockLifted ==
  \A ip \in IPs : <>[][~Accuses(ip)]_vars => <>[](sink[ip] = {})

=============================================================================
