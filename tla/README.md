# federloom: a TLA+ verification project

federloom is a peer-to-peer IP-reputation daemon. A node watches its own
sensors, exchanges signed reports and dispute votes with other nodes over a
libp2p gossip network, keeps a decaying score per address in BadgerDB, and puts
addresses into the host's firewall and takes them out again. This directory
models the parts of it that decide *who gets blocked and who gets unblocked*,
checks them with TLC on small instances and proves the central results with
TLAPS for every instance. Paths below are relative to the repository (`src/`).

## 1. Inventory

| Component | Source | State | Operations |
|---|---|---|---|
| Scoring | `internal/reputation` | none (pure) | `DecayScore`, `Accumulate`, `ApplyDispute`; `Engine.Record/RecordDispute/Decay` |
| Rules | `internal/rules/rule.go` | loaded rule list, file stat | `Evaluate`, `maybeReload`, `reload` |
| Burst store | `internal/rules/burst.go` | timestamps per (ip, reason) | `Record`, `Count` (which also evicts) |
| Node | `internal/node/node.go` | `materialised`, `disputed`, whitelist, channels | `processLocal`, `ProcessRemote`, `processDispute`, `runDecay`, `materialiseFederated`, `publishSharedVotes`, `reemitIfBridge` |
| Dedup cache | `internal/node/dedup.go` | event keys with insertion time | `Seen` |
| Reputation store | `internal/store/store.go`, `bloom.go` | BadgerDB, Bloom filter | `Open`, `GetScore`, `PutScore`, `ScanScores` |
| Whitelist | `internal/store/whitelist.go` | entries, file | `LoadWhitelist`, `Contains`, `Add`, `Remove` |
| Trust store | `internal/trust` | anchors, cached certs, blocked peers, file stats | `AddCert`, `Resolve`, `IsBlocked`, `maybeReload` |
| Governor | `internal/resources` | ring of buckets, `lastTick`, `shedding` | `Charge`, `Shed`, `Rate` |
| Firewall backends | `internal/enforce` | deny set in the kernel or the CrowdSec LAPI | `Block`, `BlockFor`, `Unblock`, `Start` |
| Federated query | `internal/repquery` | answer cache, in-flight calls | `Resolver.GetScore`, `Querier.Query`, responder, evidence recompute |
| Transport | `internal/transport` | topics, event channel | `Publish`, `readLoop`, reconnect |
| API, DNSBL | `internal/api`, `internal/dnsbl` | SSE subscribers | point lookups, `Broadcast`, blocklist export |
| Ingest | `internal/ingest` | log offsets, cursors | one `Start` per sensor |
| Identity, invitation | `internal/identity`, `internal/federation` | key files | sign, verify, vouch, invite |
| Discovery | `internal/discovery` | relay list | periodic DHT advertise and find |
| Observability | `internal/observability` | counters, SQLite history | record calls |
| Configuration, CLI, client | `internal/config`, `cmd`, `pkg` | YAML and JSON files | load, edit, HTTP calls |

**How they interact.** `node.Run` is one event loop selecting over the local
sensors' fan-in, the transport's channel and the decay ticker; each handler
calls the engine (a read-modify-write of the store), the burst store, the rules
and the firewall synchronously. Beside it run the DNSBL and API goroutines: a
point lookup goes through `Resolver.GetScore`, which on a local miss asks the
aggregators and calls back `materialiseFederated`. That callback shares the
firewall and, under `matMu`, the maps `materialised` and `disputed` with the
loop. The metrics goroutine polls the governor every 30 s. `federloomctl`
edits the JSON files that the trust store re-reads; the whitelist is read only
at start.

**What is hard.** A lookup that read its inputs before a dispute and blocks
after it; a handler that unlocks before it touches the firewall; crashes, after
which the firewall set and the database survive and the two maps do not; a
two-step `PutScore` beside lock-free readers; a lazily advanced window on a
clock that may be stepped; decay that must in the end lift every block; copies
of one report that travel several bridges; files that commands and editors
replace between the daemon's stat and its read; logs that are rotated, truncated
or half written while they are read; polls whose windows must neither leave gaps
nor overlap much. The list, line by line, is `hazards` in `PROJECT.json`.

**What makes each component correct.** Scoring: strangers stay within their
cap, scores stay within range. Node: protected addresses are never newly
blocked; an event-loop block has anchored evidence behind it; suppression needs
diverse anchored votes; a federated block can be retracted or lapses; a quiet
address is in the end free. Store: the filter never hides a record, no
acknowledged report is lost, callers see an atomic map (all three but for what a
warm-up scan that ends early does not reach, section 4). Governor: the lazy ring
is an exact sliding window, the shed decision does not flap and overload ends.
Trust store: the daemon's view is that of the files it last looked at, a bad file
never removes trust, a removed person stops counting, a reload shortens no vouch.
Rules: an evaluation uses rules as new as its own look at the file, and a burst
count is the number of events in the rule's window. Ingest: every observation
reaches the event loop, seldom twice, and none is made up. Identity: a person key
is never replaced.
Query: the cache stays within its limit, an answer is no older than its TTL and
one time-out, the best answer wins, nobody waits for ever, and an aggregator's
claim is worth no more than its evidence. Bridges: a report is scored once per node,
never travels in a circle, and reaches every subnet.

## 2. Modules

| Module | Models | Kind |
|---|---|---|
| `Scoring` | `internal/reputation` | operators |
| `Rules` (extends Scoring) | `RuleSet.Evaluate` | operators |
| `Node` (extends Rules) | `internal/node`, the backends of `internal/enforce`, `Store.Resolve`, `Resolver.GetScore` | state machine, composes the above |
| `MCNode` | instance of Node | TLC |
| `Governor` | `internal/resources` | state machine |
| `RepStore` | `internal/store/store.go`, `bloom.go`, the engine's read-modify-write | state machine |
| `AtomicStore` | what the store promises | abstract specification, refined by RepStore |
| `Querier` | `Querier` of `internal/repquery` | state machine |
| `Evidence` (extends Scoring) | `aggregate.go`, `recompute.go` | operators |
| `Aggregator` (extends Evidence) | one aggregator's record, its responder and what an asking node makes of the answer | state machine |
| `FederatedQuery` (extends Querier and Aggregator) | both sides of a query | state machine |
| `MCFederatedQuery` | instance | TLC |
| `Bridge` | several nodes: `internal/transport/gossip.go`, `dedup.go`, the receive path, `reemitIfBridge`, `publishSharedVotes`, what `sign.go` signs | state machine |
| `TrustStore` | `internal/trust`, `federloomctl trust ...`, `federation join` | state machine |
| `RuleSet` | reload and validation of `rule.go`, `burst.go` | state machine |
| `IngestChannel` | ticker, channel, `fanIn` | shared by the next two |
| `TailSource`, `PollSources` (extend IngestChannel) | `honeypot.go`, `opencanary.go`, `spamtrap.go`, `tail.go`; `fail2ban.go`, `mailcow_logs.go`, `crowdsec.go` | actions of one source |
| `Ingest` (extends both) | a daemon with one source enabled | state machine |
| `Identity` | `person.go`, `nodekey.go`, `identity init`, `peer-cert` | state machine |
| `MCBridge`, `MCTrustStore`, `MCRuleSet`, `MCIngest` | instances | TLC |
| `NodeProofs` (and Scoring), `RepStoreProofs`, `FederatedQueryProofs` (Querier, Aggregator and Evidence), `BridgeProofs`, `TrustStoreProofs`, `RuleSetProofs`, `GovernorProofs`, `IngestProofs` | | theorems |

### Scoring and Rules

A score is a whole number of units, `Full` of which stand for 100; a fraction
is a whole number of `Unit`s; products are rounded down where the code keeps
floating-point digits. `exp(-ln2 t/halfLife)` is the table `Retained`, of which
only `Retained[0] = 1.0` and `Retained[a] <= 1.0` are assumed. A record keeps
its age (time since `LastSeen`) instead of a date. `Engine.Decay` stores the
decayed score but does not move `LastSeen`, so each decay run applies the whole
age again: the model does the same. Reasons, reporter names and `FirstSeen`
decide nothing and are left out. Subnet names are other than the alias
`default` of the empty name.

A rule's reason pattern is the set of reasons it matches. The rule list is a
constant here; reloading it is `RuleSet`.

### Node

One action per handler. The event loop's handlers exclude each other; a lookup
shares with them only `disputed` and `materialised` (under `matMu`), the deny
set and, read-only, whether the store knows an address. A handler is one atomic
action when at most one of its effects is visible to a lookup *and* lookups
depend on no other; it is split where that fails:

| Code | Action |
|---|---|
| `processLocal` | `ProcessLocal` |
| `ProcessRemote`, report | `ProcessRemote` |
| `processDispute`, `maybeUnblockDisputed` up to the unlock | `ProcessDispute` |
| `maybeUnblockDisputed` after the unlock | `DisputeUnblock` |
| `runDecay` | `RunDecay` |
| `Resolver.GetScore` up to the query | `LookupMiss` |
| answer of the query, gate of `materialiseFederated` | `LookupVerdict` |
| `sink.BlockFor` | `LookupBlock` |
| last critical section of `materialiseFederated` | `LookupRecord` |
| `New`, head of `Run`, `publishSharedVotes` | `Start`, `Boot` |
| end of the process | `Stop` |
| re-read of `anchors.json`, expiry of an anchor or a cert | `ReloadAnchors` |
| time: ages, TTLs, firewall timeouts | `Tick` |

The deny set holds, per address, a set of decisions: who placed it (`local` for
the event loop's `Block`, `federated` for `BlockFor`) and the ticks until the
backend drops it. The three backends differ in what a second add does: `ipset
add -exist` overwrites the entry and its timeout, `nft add element` leaves the
element or updates its timeout depending on the kernel (a choice), every
CrowdSec alert adds a decision of its own and its local blocks carry a ban
duration too. `ipset` creation is assumed to find a set of the current layout.

`IsBlocked` is asked about the publisher of a message, trust about the reporter
it names; since any peer that is not blocked may relay, the guard is
`MayArrive`. Shedding, signature checks, the trace guard and the dedup cache
only decide whether a report or vote reaches the handler's body; the model lets
any report arrive at any time, so every property holds whatever they let pass.

`vouched` and `disputers` are history variables: which addresses an anchored
reporter (or this node) ever reported, and from which subnets anchored votes
came.

### Governor

`lastTick` and the clock are kept relative to each other (`lag`, `pos`), so time
is unbounded. `Pass` is 100 ms of time; `StepClock` is an NTP step, the case the
comment above `tick()` argues about. `recent` is a history variable, the true
number of charges per tick of elapsed time. `0.8` is `ExitNum/ExitDen`.

### RepStore and AtomicStore

A record is the set of reports folded into it. `PutScore` is two steps (commit,
then `bloom.Add`), a point read is two steps (filter, then database); a commit
may fail, the process may end between any two steps, a TTL may run out, and any
stored value may become unreadable while the store is closed (a record of an
older format, a damaged value log). False positives of the filter are a choice.
`DeleteScore` has no caller and is left out.

`ScanScores` stops at the first value that does not parse, and `Open` ignores the
error. `missed` is a history variable: the records behind the end of that scan, as
long as the filter does not test positive for them. A report on one of them finds
no record and writes over it; `acked`, the reports whose loss would be a violation,
is emptied for that address then, and when its record expires or is damaged.
`AtomicStore` is the map callers may believe in: one that a start may hide records
of. `Map` and `missed` are the refinement mapping.

### Querier, Evidence, Aggregator and FederatedQuery

`Query` is split where it lets go of `q.mu`: the cache look-up (`QueryMiss`; a hit
changes nothing), joining or starting the shared fan-out (`QueryDo`), and, after
the fan-out, storing its answer (`FlightStore`) before singleflight forgets the
call and releases the callers (`FlightDone`). Between two of these any other
caller may run, so a lookup that missed the cache early may start a second
fan-out after the first has ended. Inside a fan-out each aggregator's answer is
collected (`Collect`), fails (`AskFails`: refused stream, refusing responder,
empty answer) or never comes; at the deadline the loop is left with what it has,
unless an answer is ready too, in which case `select` may take either. A stale
entry stays in the cache until it is evicted or replaced, as in the code. `read`
and `heard` are history fields. What an answer is worth is the constant
`Verdicts`; `MCFederatedQuery` takes it from `Evidence`. The merged list of reasons is
left out.

`Evidence` holds the two projections: a record shared as counts
(`AggregateFromRecord`) and the score recomputed from counts by folding
synthetic votes through `Accumulate` and `ApplyDispute` (`RecordFromEvidence`).
The synthetic subnet names are numbers. `NaN`, which the code turns into 0, is
not a value of the model; negative weights, treated alike, are.

`Aggregator` lets one record live (reports, votes, decay runs, time, expiry) and be
asked about at any moment. Since nothing checks the numbers on the wire, the
first answer may also be any of `Claims`. Both nodes use the same parameters.

The two sides share nothing but an answer on the wire, and each takes the other for
any: `FederatedQuery` is a behaviour of one side or of the other (`side`), so one run
checks both, and the theorems are about each side's own specification.

### Bridge

Every node runs the same code on its own subnets. A message in `net` is one copy
on its way to one node; gossip hands a copy to every other running member of a
topic, and copies are taken in any order. `ProcessRemote` is one action with a
disjunct per way it ends, its guards in the order of the code: `SpoofGuard`,
blocked publisher, `VerifyEventSig`, normalisation (`Acceptable`), and for
reports the loop guard, the length limit and the protected lists (`Scorable`),
then the dedup cache, which is marked *before* the record is written. An IPv6
address is its prefix length: nodes with other prefixes normalise it differently,
so that a signature fits only the address it was made for, and `reemitIfBridge`
has to pass on the event as it came. `OriginTrace` is not signed. A shared vote is
announced once per start, with a new time; each is an element of `Votes`, so
`Votes` also bounds the starts of a node that announces any. `counted`, `forgot`
and `lost` are history variables. What counting does to a score is Node.

### TrustStore

A file is its list of versions, each with a modification time that may equal the
one before (coarse file systems). A command is a process in three steps: start
(arguments checked), read and edit, and the rename of its temporary file;
`trust import` and `federation join` do this for the certs file and then for the
anchors file. Two commands may run at a time, may die anywhere, and an operator
may write anything into a file. A reload goes through the three files, a stat
and, if needed, a read for each, with other steps in between; the mutex keeps
queries away meanwhile, so `AddCert` needs `pc = "idle"`. `federation join`
differs from `trust import` in where its bundle comes from, and in asking. Adding
one's own key is refused by `trust add` alone, as in the code.

### RuleSet

One address and one reason. An evaluation stats the file, reads it if the stat
differs, and then stats it again for `lastStat`: an editor's step may fall between
any two. A rule's other conditions are Rules' subject, so the rules whose other
conditions hold are any set, `ok`. `AfterCounts` is what the memoised counts of a
scan leave of the timestamps, each evicting by its own window. A window is any
integer but 0: `validateRules` drops a burst rule whose window is 0 and lets a
negative one through.

### Ingest

A daemon with one source. `TailSource` has the bytes of each file (a line is two
bytes and a newline, enough for half of one), inodes, the scanner's buffer, and
the offset that moves past a newline whether or not it is there. After its first
EOF a scanner reads no more. The environment writes lines whole or in two
pieces, too long for the buffer, rotates and truncates. To a tailer the clock
means nothing; it stands, and ticks come at any time. `PollSources` has
fail2ban's set difference, mailcow's windows from tick to tick in whole seconds,
CrowdSec's decision stream with its cursor on the server, and CrowdSec's alerts
asked for by duration, the request, the answer and the decoding being separate
steps. `excused` is a history variable: the items a fault, which the code does not
handle, has put out of reach. They are part of what the run shows: a rotation
or truncation loses what was not yet read of the old content; a truncated log that
grows past its old size before the next poll loses the lines before the offset
(`Before`), and no others: a truncation that shows must be noticed; a line longer
than 1 MiB stops the tailer for good; half a line read at EOF is lost; a failed
`docker logs` loses that window, since `since` advances all the same, and a mailcow
line of more than 64 KiB (`Lengthy`) what follows it in its window, since the
scanner's error is not looked at; a decisions answer that fails on its way is not
repeated; more than 500 alerts in a window lose the oldest; alerts fall between
two polls when answer, request and rounding together exceed the 10 s buffer; a
restart of the daemon loses mailcow lines older than an interval and reads a
tailed log from the start.

`astray` is a history variable that says when the tailer may be amid a line: `"cut"`
from a truncation of the log it has open, or had open at the last poll, until that
log is opened again; `"amid"` from a half line read at EOF until the next newline,
and when the log is opened again after a truncation that the size does not show;
otherwise `"no"`. A truncation under the reader can put two halves of different lines
together, which may parse as JSON too; a piece of a line does so only among the
spamtrap's plain addresses. The offset moves by whole lines of equal length and
by half lines with a newline that is not there yet, so in the model it lies, after a
half line, right before that line's newline.

`truncations` is a history variable too: `sync` compares sizes, so a log that was
truncated after the stat of one poll and written to again before its read is read
past the truncation, and the next poll, finding the file smaller than it was, sets
the offset back and reads the new lines a second time. `MostOften` says how often
an item may be reported, for each kind of source. For the two that ask for a window
of time it is `Overlaps` for each start: four, and one more for each poll that can
begin within what a window reaches back beyond the poll before (the rounding to
seconds, the 10 s buffer).

### Identity

Processes that create the same files: `identity init` (stat, `O_EXCL` temporary
file, write, rename; label; node key; certificate), `peer-cert` and the daemon's
`LoadOrCreateNodeKey`. Every system call is a step, and a process may die between
any two, leaving its temporary file.

## 3. Runs

| Run | Checks | Bounds |
|---|---|---|
| `node` | `TypeOK`, `LocalBlockNeedsVoucher`, `StrangerScoreBounded`, `SuppressionNeedsDiversity`, `ProtectedNeverNewlyBlocked` with crashes and failing firewall commands | one address, one peer that may be anchored or not at any time, two subnets (symmetric) and the empty one, one lookup, scores 0..4 |
| `node_retract` | `FederatedBlockTracked`, `DisputedBlockLapses`, `QuietBlockLifted` under fairness, without crashes or firewall errors | as above, nftables |
| `governor` | `TypeOK`, `RateExact`, `NoFlapping`, `OverloadEnds` | window of 3 ticks, budget 3, exit at 1/2, clock steps up to 2 |
| `rep_store` | `OnlyUnscannedMissed`, `EvidenceKept`, `ActsAtomically` (refinement) | three addresses, two reports, one reader, any record may be damaged |
| `federated_query` | asking: `QuerierTypeOK`, `CacheBounded`, `AnswersCurrent`, `BestAnswerWins`, `QueriesReturn` under fairness; answering: `EvidenceIsBounded`, `StrangersStayCapped`, `ReportsCount` | two callers, two addresses, two aggregators, two verdicts, cache of one entry, TTL of two ticks (negative: one), time-out of one; two Persons, two subnets, strangers, three votes; aggregates around every limit of the recompute; fold limit 3, scores 0..20 |
| `bridge` | `TypeOK`, `TraceIsPath`, `CountedOnce`, `CacheBounded`, `ReportsArrive` under fairness | two subnets, two leaves and two bridges, a report and a vote, caches of one key, TTL of one tick, traces of four, one fault (crash, loss, shedding, failed write, signature or publish), one tick |
| `trust_store` | `TypeOK`, `Fresh`, `RevocationHolds`, `TrustIsKept`, `ReloadKeepsVouches` | two persons, two keys, one peer, two commands at a time, two commands, hand edits or restarts in all, two ticks |
| `rules` | `TypeOK`, `RulesAreFresh`, `BurstIsExact` | the file contents of `MCRuleSet`, two edits or restarts, three events, two ticks |
| `ingest` | `TypeOK`, `FewDuplicates`, `NothingInvented`, `Delivered` under fairness | three log lines (one too long for the tailer, another for mailcow's scanner) or two polled items, channel of one, two inodes, a poll at every moment, a second of two moments, one fault, five moments, the polled system changing in the first three |
| `votes` | violation of `VotesArrive` | as `bridge`, no faults |
| `identity_race` | violation of `PersonKeyKept` | two `identity init`, one `peer-cert`, one daemon |
| `rep_scan` | violation of `NoFalseNegative` | as `rep_store` |

**Why the bounds are enough.** Addresses never interact in Node: every handler
touches one record and one deny-set entry, `runDecay` treats each alike, so one
address shows what many would. One peer suffices because its anchoring may
change before each of its reports and the names it counts for are the Persons.
Two subnets are the least that make a diversity floor of two reachable and
missable. Four score units allow a score below, at and above every threshold
and a stranger cap that binds. A tick is one half-life; a record lives two
ticks in the model (three half-lives in the code), enough for it to decay, be
refreshed and be lost during downtime. In `rep_store` three addresses allow a
damaged record before, between and after readable ones.
In `federated_query` two addresses compete for one
cache entry, so every fan-out's end may evict, and a TTL longer than the
time-out lets an answer grow stale in a fan-out and in the cache; a fold limit
of 3 can be exceeded by groups and by disputes. In
`bridge` each report has two paths to every node, the bridges hear each other (so
a trace can come back), and a report and a vote compete for the one place of a
cache; four hops are the longest simple path. In `trust_store` two edits are one
that is being overtaken and one that overtakes, and the third version of a file
may share time and size with either. In `rules` two edits allow one before and
one inside a reload. The file contents of `MCRuleSet` include a negative window beside a positive one.
In `ingest` a poll at every moment and a second of two moments make mailcow's windows
overlap, as the buffer does the alerts': within the five moments the same item
is fetched four times, one short of what `FewDuplicates` allows, and a poller whose
windows did not move on would fetch it more often. Three lines are enough for a
truncated log to be shorter than it was, as long, and longer. The fault may be any
of those in section 2; a half-written line needs none. The counters stop at six. At
the last moment, when the clock stands, polls go on: what is near enough to it to be
in every further window is left to the theorem `DuplicatesAreFew`, which
holds for any `MaxNow`. What the bounds leave open, the theorems close
for the safety properties.

**Fairness.** `node_retract` assumes that time passes (`Tick`), that a stopped
daemon is started (`Boot`), that the loop serves its ticker (`RunDecay`: `select`
chooses among ready cases at random) and that a handler finishes
(`DisputeUnblock`: the commands carry a time-out). Nothing is assumed of reports,
votes, lookups or operators. `governor` assumes that time passes and that
`Shed` is called again and again, which the metrics goroutine does. `federated_query`
assumes that time passes and that the node's own goroutines run (`QueryDo`,
`FlightStore`, `FlightDone`); nothing is assumed of the aggregators. A tick of its
clock does not fall between a deadline and the end of the fan-out it ends.
`bridge` assumes that a running node takes the copies that wait for it, which the
loop of `Run` does; `ingest` that the source's goroutine, the event loop, the ticker
and the clock go on. Nothing is assumed of logs, pollees, operators or faults.

## 4. Findings

Three runs show the code doing other than what a comment or a doc says.

* **`votes`.** The disputes design says that votes are gossiped like events, "leaf/bridge
  behavior identical". `ProcessRemote` hands a vote to `processDispute` and
  returns before `reemitIfBridge`; a vote also has no `OriginTrace`, without which
  the spoof guard would drop a relayed copy. Votes stay on their reporter's subnet.
* **`identity_race`.** A comment of `GeneratePersonKey` says that `O_EXCL` on the
  temporary file closes the race between two `identity init`. Both find no key;
  the first creates, writes and renames its file; the second then creates the
  temporary file, which is gone, and renames its key over the first.
* **`rep_scan`.** A comment in `Open` says of the warm-up scan whose error it ignores
  that a missed address costs "one redundant DB read, never a false negative", and
  `bloom.go` that false negatives "are impossible by design". It is the other way
  round: `ScanScores` returns at the first value that does not parse, the addresses
  after it are not in the filter, and `GetScore` answers with a zero record without
  asking the database. The next report on such an address starts from nothing and
  writes over the record. `rep_store` and the theorems show that nothing else
  makes the filter miss a record or a report disappear.

Some behaviours that the models contain, and that no property above excludes, are
at odds with what the documentation leads one to expect. An address materialised
first and blocked by the event loop afterwards stays in `materialised`, and a
diverse dispute removes the local block. A stranger's vote on an address without
a record creates one of score 0, after which `runDecay` lifts a federated block.
A lookup that began before the first local report may put a timeout on the
permanent entry of an ipset.
`ApplyDispute` moves `LastSeen`, so a vote on old evidence makes it fresh for nodes
that ask. One group vote more than there are subnets counts fully in a recompute.
Commands hold no lock: one that read `anchors.json` before a `trust remove` brings
the person back when it writes (`RevocationHolds` names the condition). A rules
file edited between the read and the second stat of a reload is not noticed before
the next edit (`raced`). A rule with a short window evicts what a rule with a
longer one would count, and one with a negative window, which `validateRules`
accepts, evicts everything: `BurstIsExact` bounds a count from below only by the
shortest window. `AddCert` and `trust import` keep the vouch that came last, also
when it ends earlier. A line written to a log between its
truncation and the end of a read that began before is scored twice, and a line or
alert near the edge of a window as often as the windows overlap: `processLocal` does
not ask the dedup cache. What ingest loses is listed with `Ingest` in section 2.

## 5. Theorems

All are checked by TLAPS without assumptions other than the named `ASSUME`s of
the modules, which TLC evaluates on every run.

| Theorem | Statement |
|---|---|
| `NodeProofs!TypeCorrect` | `Spec => []TypeOK` |
| `NodeProofs!LocalBlocksAreVouched` | `Spec => []LocalBlockNeedsVoucher` |
| `NodeProofs!StrangersAreBounded` | `Spec => []StrangerScoreBounded` |
| `NodeProofs!SuppressionIsDiverse` | `Spec => []SuppressionNeedsDiversity` |
| `NodeProofs!FederatedBlocksAreTracked` | `Spec => []FederatedBlockTracked`, given no crash and no firewall error |
| `NodeProofs!ProtectedAddressesStayFree` | `Spec => ProtectedNeverNewlyBlocked` |
| `RepStoreProofs!FilterMissesOnlyUnscanned` | `Spec => []OnlyUnscannedMissed` |
| `RepStoreProofs!EvidenceIsKept` | `Spec => []EvidenceKept` |
| `RepStoreProofs!StoreIsAtomic` | `Spec => ActsAtomically` |
| `FederatedQueryProofs!QuerierTypes` | `QuerierSpec => []QuerierTypeOK` |
| `FederatedQueryProofs!CacheStaysBounded` | `QuerierSpec => []CacheBounded` |
| `FederatedQueryProofs!AnswersStayCurrent` | `QuerierSpec => []AnswersCurrent` |
| `FederatedQueryProofs!BestAnswerIsKept` | `QuerierSpec => []BestAnswerWins` |
| `FederatedQueryProofs!ClaimsAreBounded` | `Spec => []EvidenceIsBounded` |
| `FederatedQueryProofs!SharedStrangersStayCapped` | `Spec => []StrangersStayCapped` |
| `FederatedQueryProofs!FurtherReportsCount` | `Spec => []ReportsCount` |
| `BridgeProofs!BridgeTypes` | `Spec => []TypeOK` |
| `BridgeProofs!DedupStaysBounded` | `Spec => []CacheBounded` |
| `BridgeProofs!TracesArePaths` | `Spec => []TraceIsPath` |
| `BridgeProofs!EventsCountOnce` | `Spec => []CountedOnce` |
| `TrustStoreProofs!TrustTypes` | `Spec => []TypeOK` |
| `TrustStoreProofs!BadFilesDropNoTrust` | `Spec => TrustIsKept` |
| `TrustStoreProofs!ReloadsKeepVouches` | `Spec => ReloadKeepsVouches` |
| `TrustStoreProofs!ViewIsFresh` | `Spec => []Fresh` |
| `TrustStoreProofs!RemovalsHold` | `Spec => []RevocationHolds` |
| `RuleSetProofs!RuleSetTypes` | `Spec => []TypeOK` |
| `RuleSetProofs!EvaluationsUseFreshRules` | `Spec => []RulesAreFresh` |
| `RuleSetProofs!BurstCountsAreExact` | `Spec => []BurstIsExact` |
| `GovernorProofs!GovernorTypes` | `Spec => []TypeOK` |
| `GovernorProofs!RateStaysExact` | `Spec => []RateExact` |
| `GovernorProofs!SheddingDoesNotFlap` | `Spec => NoFlapping` |
| `IngestProofs!IngestTypes` | `Spec => []TypeOK` |
| `IngestProofs!NothingIsInvented` | `Spec => NothingInvented` |
| `IngestProofs!DuplicatesAreFew` | `Spec => []FewDuplicates` |

**Arguments.** The first part of `NodeProofs` establishes what the arithmetic preserves
(`AccumulateType`, `ApplyDisputeType`, `StrangerReportBounded` and the bounds
under them). On top of it, for Node:

* `VoucherInv` adds to `LocalBlockNeedsVoucher` that a record with a Person in
  `groups` belongs to a vouched address: the backstop looks at `groups`, not at
  the history.
* `StrangerInv` says the score of an unvouched address is at most its
  `strangerContrib`, which is at most the cap: the cap alone is not inductive,
  since contributions add to what decay has left.
* `DiversityInv` ties `disputeSubnets` of each record to `disputers`.
* `GateInv` says a lookup past the gate has an unprotected address: the
  whitelist is read at start and a restart ends all lookups.
* `IndInv` of RepStore adds, for the put between its two steps, that the
  database holds the writer's record, and that a record about to be put
  contains every acknowledged report of its address unless it was missed: the one
  case in which a commit takes acknowledged reports away.

For Querier, `CacheBounded` is inductive once `RoomForOne` is known: whatever
`evictLocked` leaves, a place is free. `AnswersCurrent` is not: `AgeInv` bounds an
entry's `read` by its age plus the time-out, also when it is stale, and a running
fan-out's by the time it has used. `MergedIsBest` is the step that keeps
`BestAnswerWins`.

For Aggregator the invariant itself is modest (`AggregatorInv`: the record is well
typed and its sets are finite); the work is in the operators. A recompute folds
groups, then strangers, then disputes. What each fold leaves is given by a function
of the number of steps (`GroupScores`, `DisputeScores`), each step is monotone in
the score and in its share although it rounds down (`RaiseFacts`, `LeftFacts`),
and so the whole recompute is monotone in the evidence (`RecomputeMonotone` over
the order `AtLeast`). `EvidenceIsBounded` and `ReportsCount` are instances.

For Bridge, `PathInv` says of every copy on its way that its trace is a simple path
from the reporter to the node that sent it, along shared subnets, and that its
subnet joins sender and receiver: the spoof guard compares the end of the trace
with the sender, and a bridge extends the path by itself (`ExtendedPath`).
`CountInv` says that a key counted at a node is in its cache or has been forgotten,
and was forgotten if it was counted twice; it holds because the cache is marked
before the record is written, and because a node never takes its own report back.
`RoomForOne` is the dedup cache's version of the lemma for Querier: it uses that
`evictOldestLocked` picks a least element.

For TrustStore, `TypeInv` covers the files' histories, the commands under way and
the daemon; `LoadInv` says that a store that has not read its files yet has no
anchors. With them the two action properties follow from what a read assigns.
`FreshInv` says the recorded stat is that of the version held or of an earlier one
(the stat is taken before the read), and that a file already passed by the current
reload is up to date, or one of the excuses `Fresh` names applies. `RevInv` says
that from the version a removal wrote on, neither the file nor a list in the hands
of a command about others names the person.

For RuleSet, `ReloadInv` follows an evaluation through its two stats and its read
(`LoadInv`, `InstallInv`, `ScanInv`): the rules are those of a version of the file,
and `lastStat` is the stat of that version or an earlier one unless an edit raced.
`BurstInv` says that events are in order and that the timestamps kept are the end of
them, what is missing being older than some window the file has had.

For Governor, `WindowInv` says which bucket stands for which tick: once the ring is
advanced, the bucket `a` places back holds what was charged `a` ticks ago, unless a
clock step less than a window ago reaches that far (`Exact`); before its first use
the ring is empty (`NothingYet`), and while the clock is behind the ring the step
has not worn off (`Behind`). The sum
of the ring is then that of the window, since a sum does not depend on the order
it is taken in (`SumReordered`) and the ring read backwards from its position is
a permutation (`Turning`). `HysteresisInv` says that the ring's contents above the
exit fraction were charged since it last shed.

For Ingest, `LogInv` says that every file is made of lines, the last of which may
be half written, and that a byte of an item is in one place of one file and in one
of the buffer, the latter being where the former was read. `NothingInvented` is
not inductive: `StraightInv` adds that, unless the log was truncated under the reader
(`astray = "cut"`), the buffer is what follows the offset in the file (`Matches`), and
that unless the tailer is amid a line (`astray = "no"`) the offset is where a line
begins. Then what `Scan` yields before a newline is never of two lines, and is a whole
line where it begins with one (`WholeLine`). `CountInv` is a
budget for each item, one for each kind of source: what has been received or is in
the channel, what has been fetched and not yet sent, and what may still be fetched
add up to no more than `MostOften`. A step moves an item from one summand to the
next; only a restart, a truncation or an address that is new in fail2ban's list
adds to both sides.

* For a tailer the last summand is one if the line lies ahead of the offset
  (`Ahead`), and one if the next poll will take the log for truncated (`Shrunk`).
* For fail2ban what is yet to be sent is the list of the poll under way less `seen`
  (`BanInv`); for the decisions it matters that items occur in the order the
  cursor counts (`InOrder`).
* For mailcow and the alerts it is `Fetches`: the polls that can still hold the item
  at each stage of a poll. `Coming` counts them from the tick that waits, if there
  is one, and the ticks no closer than an interval that can come before the last
  moment a poll may begin (`LastStart`); a tick, or time, makes them no more
  (`ComingLess`), and a poll that begins in time is one of them (`ComingBegun`).
  `WindowInv` and `AlertsInv` say that windows begin one after the other: mailcow's
  at an earlier tick rounded down, the alerts' at the time of an earlier answer.
  When a query fails the item may be asked for again, and when it fails after
  `LastStart` only once.

The attempt to prove `FewDuplicates` corrected the model and the property twice: a
bound of one delivery for each start overlooked the truncation that has been read
past, and the overlap of windows, once a constant, is now computed from the
intervals. Both had been hidden by the bounds of the run.

**Assumptions on constants.** As in the modules. Two say that a special value is
not an ordinary one: a file that does not parse is no list of anchors
(`Garbage \notin Seq(Anchor)`), and the empty subnet name of a stranger's vote is
none of the synthetic ones (`NoSubnet \notin 0..MaxEvidenceFolds`).

**Loops.** The code's loops over data (the sum of the ring, the folds of a
recompute, the merge of a cert file, the validation of a rule list) are recursive
functions on numbers. That such a function has the values its definition says
(`ValuesExist`), and that what holds at 0 and carries over holds up to any n
(`UpTo`), is proved in the modules that need it from the fact that the order on
the naturals is well founded, for a set of numbers rather than a predicate, which
is why these lemmas are stated again for each function.

**Only model-checked.** `DisputedBlockLapses`, `QuietBlockLifted`,
`OverloadEnds`, `QueriesReturn`, `ReportsArrive`, `Delivered`: liveness under
fairness is beyond the prover. `DuplicatesAreFew` keeps the clause about the end of
the model's time, at which the bound says nothing about the latest items. Every invariant and every action property of a
passing run, and the refinement, is a theorem.

## 6. Not modelled

Error returns of BadgerDB inside Node (an event whose record cannot be read or
written is dropped; RepStore and Bridge cover them); the CIDR arithmetic of
normalisation, the never-block list and the whitelist (`Protected` is a set); the
creation and migration of kernel sets and the LAPI login of the enforcing sink;
wire formats, cryptography, file modes, HTTP, DNS, SQLite, the parsing of a log
line's fields and of command lines. Discovery, the DHT, relays and the reconnect
timer drive libp2p and keep no state that a decision depends on. Observability is
written and never read back. The client library is a stateless HTTP client. `status`,
`setup`, `trust list`, `trust export` and the `whitelist` commands print, or write a
file the daemon reads only at its next start. `PROJECT.json` gives the status of
every component.

## 7. Plan

1. **Liveness** stays with TLC, under the fairness of section 3.
2. The hazards without a property are behaviours the models reach and about
   which the code promises nothing; each has a note in `PROJECT.json`. Should the
   code come to exclude one, the exception named there (`raced`, `forgot`, `missed`,
   the overlap of commands, `excused`) goes, and the property becomes the stronger one.
