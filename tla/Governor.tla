------------------------------ MODULE Governor ------------------------------
(***************************************************************************)
(* The processing-rate meter (internal/resources): a ring of buckets, one  *)
(* per 100 ms of wall-clock time, advanced lazily by whoever calls, and a  *)
(* shed decision with hysteresis.  Callers are the event loop, the bridge, *)
(* the reputation responder and the metrics goroutine; a mutex makes each  *)
(* call one step.                                                          *)
(*                                                                         *)
(* Ticks are relative: pos is the current tick modulo Buckets and lag is   *)
(* the current tick minus lastTick, so time is unbounded.  The clock is    *)
(* the wall clock: an NTP step moves it without time passing.              *)
(***************************************************************************)
EXTENDS Integers

CONSTANTS
  Buckets,    \* govBuckets
  MaxPerSec,  \* the budget, in events per window; 0 switches the meter off
  ExitNum,    \* sheddExitFraction is ExitNum / ExitDen
  ExitDen,
  MaxStep,    \* bound: the furthest an NTP step moves the clock, in ticks
  RateBound   \* bound: charges per window, counted and real, of the load

ASSUME GovernorAssumption ==
  /\ Buckets \in Nat \ {0}
  /\ MaxPerSec \in Nat /\ MaxStep \in Nat /\ RateBound \in Nat
  /\ ExitDen \in Nat \ {0} /\ ExitNum \in 0..ExitDen

VARIABLES
  pos,       \* the current tick, modulo Buckets
  lag,       \* the current tick minus lastTick; Never before the first call
  counts,    \* the ring
  shedding,
  recent,    \* history: recent[a] charges were made a ticks of time ago
  unsettled, \* history: ticks until a clock step has left the window
  since      \* history: charges since the meter last stopped shedding

vars == <<pos, lag, counts, shedding, recent, unsettled, since>>

Ring == 0..(Buckets - 1)
Never == -(2 * MaxStep) - 1
LagBound == Buckets + 2 * MaxStep
Lower(a, b) == IF a <= b THEN a ELSE b

TypeOK ==
  /\ pos \in Ring
  /\ lag \in Never..LagBound
  /\ counts \in [Ring -> Nat]
  /\ shedding \in BOOLEAN
  /\ recent \in [Ring -> Nat]
  /\ unsettled \in 0..(Buckets + 2 * MaxStep)
  /\ since \in 0..MaxPerSec

(* The loop over the buckets.                                              *)
SumOf(f) ==
  LET sum[n \in 0..Buckets] == IF n = 0 THEN 0 ELSE sum[n - 1] + f[n - 1]
  IN  sum[Buckets]

(* Mutants: one bucket too few is cleared; a gap of a window or more is    *)
(* not.                                                                    *)
AdvancedShort == [i \in Ring |-> IF lag > 0 /\ (pos - i) % Buckets < lag - 1
                                   THEN 0 ELSE counts[i]]
AdvancedUnwiped == [i \in Ring |-> IF lag \in 1..(Buckets - 1) /\ (pos - i) % Buckets < lag
                                     THEN 0 ELSE counts[i]]

(* advanceLocked: the buckets of the ticks after lastTick up to now are    *)
(* cleared, all of them after a window or more; a clock at or behind       *)
(* lastTick, and the first call, clear none.                               *)
Advanced == [i \in Ring |-> IF lag > 0 /\ (lag >= Buckets \/ (pos - i) % Buckets < lag)
                              THEN 0 ELSE counts[i]]

(* lastTick moves up to now, never back.                                   *)
LagAfter == IF lag = Never \/ lag > 0 THEN 0 ELSE lag

(* rateLocked, on the advanced ring.                                       *)
Rate == SumOf(Advanced)

(* Charge.                                                                 *)
Charge ==
  /\ MaxPerSec > 0
  /\ Rate < RateBound /\ SumOf(recent) < RateBound
  /\ counts' = [Advanced EXCEPT ![pos] = @ + 1]
  /\ lag' = LagAfter
  /\ recent' = [recent EXCEPT ![0] = @ + 1]
  /\ since' = Lower(since + 1, MaxPerSec)
  /\ UNCHANGED <<pos, shedding, unsettled>>

(* Mutant: one threshold for both ways.                                    *)
DecisionWithoutHysteresis(rate) == rate >= MaxPerSec

(* Enter at the budget, leave only at or below the exit fraction of it.    *)
Decision(rate) ==
  IF shedding THEN ~(ExitDen * rate <= ExitNum * MaxPerSec) ELSE rate >= MaxPerSec

(* Shed.                                                                   *)
Shed ==
  /\ MaxPerSec > 0
  /\ counts' = Advanced
  /\ lag' = LagAfter
  /\ shedding' = Decision(Rate)
  /\ since' = IF shedding /\ ~shedding' THEN 0 ELSE since
  /\ UNCHANGED <<pos, recent, unsettled>>

(* Rate, as the metrics goroutine calls it.                                *)
ReadRate ==
  /\ counts' = Advanced
  /\ lag' = LagAfter
  /\ UNCHANGED <<pos, shedding, recent, unsettled, since>>

(* Mutant: the ring index does not wrap.                                   *)
ShiftedUnwrapped(k) == pos + k

(* The ring index k ticks from now.                                        *)
Shifted(k) == (pos + k) % Buckets

(* 100 ms pass.                                                            *)
Pass ==
  /\ pos' = Shifted(1)
  /\ lag' = IF lag = Never THEN Never ELSE Lower(lag + 1, LagBound)
  /\ recent' = [a \in Ring |-> IF a = 0 THEN 0 ELSE recent[a - 1]]
  /\ unsettled' = IF unsettled = 0 THEN 0 ELSE unsettled - 1
  /\ UNCHANGED <<counts, shedding, since>>

(* NTP moves the clock by k ticks.  The clock is at most MaxStep behind    *)
(* lastTick when it does.                                                  *)
StepClock(k) ==
  /\ lag # Never
  /\ lag + k >= -MaxStep
  /\ pos' = Shifted(k)
  /\ lag' = Lower(lag + k, LagBound)
  /\ unsettled' = Buckets + (IF lag' < 0 THEN -lag' ELSE 0)
  /\ UNCHANGED <<counts, shedding, recent, since>>

Init ==
  /\ pos = 0
  /\ lag = Never
  /\ counts = [i \in Ring |-> 0]
  /\ shedding = FALSE
  /\ recent = [a \in Ring |-> 0]
  /\ unsettled = 0
  /\ since = 0

Next ==
  \/ Charge
  \/ Shed
  \/ ReadRate
  \/ Pass
  \/ \E k \in (-MaxStep..MaxStep) \ {0} : StepClock(k)

Spec == Init /\ [][Next]_vars

(* Time passes and the metrics goroutine polls the meter for ever.         *)
FairSpec == Spec /\ WF_vars(Pass) /\ WF_vars(Shed)

(***************************************************************************)
(* Properties.                                                             *)
(***************************************************************************)

(* The lazily advanced ring is an exact sliding window: however seldom it  *)
(* is advanced, the rate a caller reads is the number of charges of the    *)
(* last Buckets ticks; after a clock step it is again, once the clock has  *)
(* caught up and one window has passed (advanceLocked, rateLocked).        *)
RateExact == unsettled = 0 => Rate = SumOf(recent)

(* Hysteresis: shedding never resumes before the rest of the budget above  *)
(* the exit fraction has been charged anew, clock steps or not (Shed).     *)
NoFlapping ==
  [][~shedding /\ shedding' => ExitDen * since >= (ExitDen - ExitNum) * MaxPerSec]_vars

(* Overload ends: when the load and the clock steps stop, the meter stops  *)
(* shedding for good (Shed).                                               *)
OverloadEnds ==
  <>[][~Charge /\ \A k \in (-MaxStep..MaxStep) \ {0} : ~StepClock(k)]_vars => <>[]~shedding

=============================================================================
