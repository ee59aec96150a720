------------------------------ MODULE Querier ------------------------------
(***************************************************************************)
(* The federated query (internal/repquery: Querier).  A lookup that finds  *)
(* no local record asks the aggregators through Query: the answer cache    *)
(* first, then one shared fan-out per address (singleflight), whose merged *)
(* answer is cached and handed to every caller that waited for it.         *)
(*                                                                         *)
(* The cache is guarded by q.mu; a fan-out, and the time between a cache   *)
(* miss and joining it, is not.                                            *)
(***************************************************************************)
EXTENDS Integers, FiniteSets

CONSTANTS
  Callers,      \* concurrent lookups
  IPs,
  Aggregators,
  Verdicts,     \* what an aggregator's evidence may be recomputed into
  NoIP,
  MaxEntries,   \* maxCacheEntries
  CacheTTL,     \* federation_query_cache_ttl, in ticks
  NegShare,     \* a negative answer is kept for CacheTTL \div NegShare
  Timeout       \* federation_query_timeout, in ticks

Verdict == [score : Nat, subnets : Int]

ASSUME QuerierAssumption ==
  /\ IsFiniteSet(IPs)
  /\ NoIP \notin IPs
  /\ Verdicts \subseteq Verdict
  /\ MaxEntries \in Nat \ {0}
  /\ CacheTTL \in Nat \ {0} /\ NegShare \in Nat \ {0}
  /\ Timeout \in Nat \ {0}

VARIABLES
  cache,   \* the answer cache, by address
  flight,  \* the fan-out in progress for each address
  caller   \* each lookup: where it is and for which address

querierVars == <<cache, flight, caller>>

(***************************************************************************)
(* State.  read is a history field: the ticks since an aggregator gave the *)
(* answer.  heard is one too: what the fan-out was told.                   *)
(***************************************************************************)
NoAnswer == [found |-> FALSE, verdict |-> [score |-> 0, subnets |-> 0], read |-> 0]
Answer == [found : BOOLEAN, verdict : Verdict, read : Nat]

NoEntry == [set |-> FALSE, answer |-> NoAnswer, age |-> 0]
Entry == [set : BOOLEAN, answer : Answer, age : 0..CacheTTL]

NoFlight == [pc |-> "none", pending |-> {}, best |-> NoAnswer, left |-> 0, heard |-> {}]
Flight ==
  [ pc : {"none", "asking", "stored"}, pending : SUBSET Aggregators,
    best : Answer, left : 0..Timeout, heard : SUBSET Verdict ]

Idle == [pc |-> "idle", ip |-> NoIP]
At(pc, ip) == [pc |-> pc, ip |-> ip]

QuerierTypeOK ==
  /\ cache \in [IPs -> Entry]
  /\ flight \in [IPs -> Flight]
  /\ caller \in [Callers -> {Idle} \cup [pc : {"missed", "waiting"}, ip : IPs]]

Cached == {ip \in IPs : cache[ip].set}

(***************************************************************************)
(* Query.                                                                  *)
(***************************************************************************)

(* How long an answer is kept: a negative one for a fraction of the TTL.   *)
KeptFor(answer) == IF answer.found THEN CacheTTL ELSE CacheTTL \div NegShare

(* Mutant: an entry never goes stale.                                      *)
FreshForGood(ip) == cache[ip].set

Fresh(ip) == cache[ip].set /\ cache[ip].age < KeptFor(cache[ip].answer)

(* The cache does not know: q.mu is released.  A hit changes nothing.      *)
QueryMiss(c, ip) ==
  /\ caller[c] = Idle
  /\ ~Fresh(ip)
  /\ caller' = [caller EXCEPT ![c] = At("missed", ip)]
  /\ UNCHANGED <<cache, flight>>

(* Mutant: the deadline is a tick late.                                    *)
AskedLate ==
  [ pc |-> "asking", pending |-> Aggregators, best |-> NoAnswer, left |-> Timeout + 1,
    heard |-> {} ]

(* A fan-out begins: every aggregator is asked, under one deadline.        *)
Asked ==
  [ pc |-> "asking", pending |-> Aggregators, best |-> NoAnswer, left |-> Timeout,
    heard |-> {} ]

(* singleflight.Do: the first caller starts the fan-out, others wait for it. *)
QueryDo(c) ==
  LET ip == caller[c].ip IN
  /\ caller[c].pc = "missed"
  /\ caller' = [caller EXCEPT ![c] = At("waiting", ip)]
  /\ flight' = IF flight[ip] # NoFlight THEN flight
               ELSE [flight EXCEPT ![ip] = Asked]
  /\ UNCHANGED cache

(***************************************************************************)
(* fanout.                                                                 *)
(***************************************************************************)

(* Mutant: the answer collected last wins.                                 *)
MergedLast(best, verdict) == [found |-> TRUE, verdict |-> verdict, read |-> 0]

(* The higher score wins, with the subnet count it came with.              *)
Merged(best, verdict) ==
  IF ~best.found \/ verdict.score > best.verdict.score
    THEN [found |-> TRUE, verdict |-> verdict, read |-> 0]
    ELSE best

(* An aggregator's answer is collected.                                    *)
Collect(ip, a, verdict) ==
  /\ flight[ip].pc = "asking" /\ a \in flight[ip].pending
  /\ flight' = [flight EXCEPT ![ip].pending = @ \ {a},
                              ![ip].best = Merged(@, verdict),
                              ![ip].heard = @ \cup {verdict}]
  /\ UNCHANGED <<cache, caller>>

(* The stream fails, the aggregator refuses or has no record.              *)
AskFails(ip, a) ==
  /\ flight[ip].pc = "asking" /\ a \in flight[ip].pending
  /\ flight' = [flight EXCEPT ![ip].pending = @ \ {a}]
  /\ UNCHANGED <<cache, caller>>

(* Mutant: no deadline.                                                    *)
GivesUpNever(ip) == FALSE

(* qctx is done: the collecting loop is left with what it has.             *)
GivesUp(ip) == flight[ip].left = 0

(***************************************************************************)
(* The end of a fan-out.                                                   *)
(***************************************************************************)
Stale(ip) == cache[ip].set /\ ~Fresh(ip)
Oldest(S) == {ip \in S : \A other \in S : cache[other].age <= cache[ip].age}

(* evictLocked: the expired entries go, and the oldest if that is not      *)
(* enough.  The sets of addresses that may stay.                           *)
Evicted ==
  LET live == {ip \in Cached : ~Stale(ip)}
  IN  IF Cardinality(live) < MaxEntries THEN {live}
                                        ELSE {live \ {ip} : ip \in Oldest(live)}

(* Mutant: room is made only once the limit has been passed.               *)
RoomMadeLate == IF Cardinality(Cached) > MaxEntries THEN Evicted ELSE {Cached}

RoomMade == IF Cardinality(Cached) >= MaxEntries THEN Evicted ELSE {Cached}

(* The merged answer is cached, found or not.                              *)
FlightStore(ip) ==
  /\ flight[ip].pc = "asking"
  /\ flight[ip].pending = {} \/ GivesUp(ip)
  /\ \E stay \in RoomMade :
       cache' = [other \in IPs |->
                   IF other = ip
                     THEN [set |-> TRUE, answer |-> flight[ip].best, age |-> 0]
                     ELSE IF other \in stay THEN cache[other] ELSE NoEntry]
  /\ flight' = [flight EXCEPT ![ip].pc = "stored"]
  /\ UNCHANGED caller

(* singleflight forgets the call and every waiting caller returns with it. *)
FlightDone(ip) ==
  /\ flight[ip].pc = "stored"
  /\ flight' = [flight EXCEPT ![ip] = NoFlight]
  /\ caller' = [c \in Callers |-> IF caller[c] = At("waiting", ip) THEN Idle ELSE caller[c]]
  /\ UNCHANGED cache

(***************************************************************************)
(* Time.  A tick is long against a scheduling delay: a fan-out whose       *)
(* deadline has come, or that is stored, does not sit through one.         *)
(***************************************************************************)
Older(answer) == IF answer.found THEN [answer EXCEPT !.read = @ + 1] ELSE answer

EntryAged(entry) ==
  IF entry.set /\ entry.age < CacheTTL
    THEN [entry EXCEPT !.age = @ + 1, !.answer = Older(@)]
    ELSE entry

TimePasses ==
  /\ \A ip \in IPs : flight[ip].pc = "none" \/ (flight[ip].pc = "asking" /\ flight[ip].left > 0)
  /\ cache' = [ip \in IPs |-> EntryAged(cache[ip])]
  /\ flight' = [ip \in IPs |-> IF flight[ip].pc = "none" THEN flight[ip]
                               ELSE [flight[ip] EXCEPT !.left = @ - 1, !.best = Older(@)]]
  /\ UNCHANGED caller

QuerierInit ==
  /\ cache = [ip \in IPs |-> NoEntry]
  /\ flight = [ip \in IPs |-> NoFlight]
  /\ caller = [c \in Callers |-> Idle]

QuerierNext ==
  \/ \E c \in Callers : QueryDo(c) \/ \E ip \in IPs : QueryMiss(c, ip)
  \/ \E ip \in IPs :
       \/ \E a \in Aggregators : AskFails(ip, a) \/ \E v \in Verdicts : Collect(ip, a, v)
       \/ FlightStore(ip)
       \/ FlightDone(ip)
  \/ TimePasses

QuerierSpec == QuerierInit /\ [][QuerierNext]_querierVars

(* Time passes and the node's own goroutines run.  Nothing is assumed of   *)
(* the aggregators.                                                        *)
QuerierFairness ==
  /\ WF_querierVars(TimePasses)
  /\ \A c \in Callers : WF_querierVars(QueryDo(c))
  /\ \A ip \in IPs : WF_querierVars(FlightStore(ip)) /\ WF_querierVars(FlightDone(ip))

(***************************************************************************)
(* Properties.                                                             *)
(***************************************************************************)

(* However many fan-outs end together and whichever address they are for,  *)
(* the cache never holds more than maxCacheEntries (Query, evictLocked).   *)
CacheBounded == Cardinality(Cached) <= MaxEntries

(* Every answer a caller can be handed, from the cache or by the fan-out   *)
(* it waited for, was given by an aggregator less than CacheTTL plus one   *)
(* time-out ago: evidence that is withdrawn stops counting after that      *)
(* (Query, fanout).                                                        *)
AnswersCurrent ==
  \A ip \in IPs :
    /\ Fresh(ip) => cache[ip].answer.read < CacheTTL + Timeout
    /\ flight[ip].pc = "stored" => flight[ip].best.read <= Timeout

(* A fan-out ends with the highest score it was told, in whatever order    *)
(* the answers came, and with the subnet count of an answer that has it;   *)
(* without any answer it ends not found (fanout).                          *)
BestAnswerWins ==
  \A ip \in IPs : flight[ip].pc # "none" =>
    LET f == flight[ip] IN
    /\ f.best.found <=> f.heard # {}
    /\ f.best.found => /\ f.best.verdict \in f.heard
                       /\ \A v \in f.heard : v.score <= f.best.verdict.score

(* Nobody hangs on a silent aggregator: every query returns (Query,        *)
(* fanout's deadline).                                                     *)
QueriesReturn == \A c \in Callers : (caller[c] # Idle) ~> (caller[c] = Idle)

=============================================================================
