--------------------------- MODULE IngestChannel ----------------------------
(***************************************************************************)
(* What all ingest sources have in common: the items an external system    *)
(* observes, the ticker that starts a poll, and the bounded channel into   *)
(* the event loop (a source's own and fanIn's of internal/node, one here), *)
(* on which a source blocks.  An item is a log line, an address or an      *)
(* alert.                                                                  *)
(***************************************************************************)
EXTENDS Integers, Sequences, FiniteSets

CONSTANTS
    Items,              \* 1..n, in the order in which they occur
    Cap,                \* capacity of the channel
    Interval,           \* the poll interval
    MaxNow, MaxFaults,
    MaxCount            \* counters of the history stop here

ASSUME ChannelAssumption ==
    /\ IsFiniteSet(Items) /\ Items = 1..Cardinality(Items)
    /\ {Cap, Interval, MaxCount} \subseteq Nat \ {0}
    /\ {MaxNow, MaxFaults} \subseteq Nat

VARIABLES
    now, faults,
    tick, lastTick,     \* the time in the ticker's channel, or Never
    ch,                 \* events on their way to the event loop
    stamp,              \* history: when an item occurred, or Never
    received,           \* history: how often processLocal has been given it
    excused,            \* history: items whose loss a fault explains
    restarts

clock == << now, tick, lastTick >>
history == << stamp, received, excused, restarts >>

Never == -1
Recent == {k \in Items : stamp[k] # Never}

ChannelInit ==
    /\ now \in {0, MaxNow} /\ faults = 0
    /\ tick = Never /\ lastTick = 0
    /\ ch = << >>
    /\ stamp = [k \in Items |-> Never]
    /\ received = [k \in Items |-> 0]
    /\ excused = {}
    /\ restarts = 0

Fault == faults < MaxFaults /\ faults' = faults + 1

\* The next item occurs, at time t if a query asks for it.
Occur(k, t) ==
    /\ stamp[k] = Never
    /\ \A j \in 1..(k - 1) : stamp[j] # Never
    /\ stamp' = [stamp EXCEPT ![k] = t]

\* Mutant: the channel has no bound.
SendsAnyway(k) == ch' = Append(ch, k)

\* Sources block rather than drop.
Send(k) == Len(ch) < Cap /\ ch' = Append(ch, k)

\* A poll starts with a tick; ticks that find one in the channel are dropped.
TakeTick == tick # Never /\ tick' = Never /\ UNCHANGED << now, lastTick >>

\* Polls go on when the model's clock has stopped.
Ticker ==
    /\ now - lastTick >= Interval \/ (now = MaxNow /\ tick = Never)
    /\ lastTick' = now
    /\ tick' = IF tick = Never THEN now ELSE tick
    /\ UNCHANGED << now, faults, ch, history >>

Advance ==
    /\ now < MaxNow
    /\ now' = now + 1
    /\ UNCHANGED << tick, lastTick, faults, ch, history >>

\* The event loop takes an event.  What it is of nothing that occurred is 0.
Receive ==
    /\ ch # << >>
    /\ ch' = Tail(ch)
    /\ received' = [k \in Items |-> IF k = Head(ch) /\ received[k] < MaxCount
                                    THEN received[k] + 1 ELSE received[k]]
    /\ UNCHANGED << clock, faults, stamp, excused, restarts >>

=============================================================================
