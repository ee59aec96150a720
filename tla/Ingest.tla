------------------------------- MODULE Ingest -------------------------------
(***************************************************************************)
(* A daemon with one ingest source enabled: a log tailer or a poller.      *)
(***************************************************************************)
EXTENDS TailSource, PollSources

CONSTANT Enabled    \* "tail" or "poll": the kinds of source to look at

ASSUME IngestAssumption == Enabled \subseteq {"tail", "poll"}

VARIABLE kind

vars == << kind, now, faults, tick, lastTick, ch, history, tailState, pollState >>

\* A tailer's ticks come at any time: the clock means nothing to it, and stands.
Init ==
    /\ kind \in Enabled
    /\ ChannelInit /\ now = (IF kind = "tail" THEN MaxNow ELSE 0)
    /\ TailInit /\ (kind = "poll" => ~ plain)
    /\ PollInit /\ (kind = "tail" => poller = "fail2ban")

\* The daemon stops, with what is in its channels, and starts again.
Restart ==
    /\ Fault
    /\ ch' = << >> /\ tick' = Never /\ lastTick' = now
    /\ restarts' = restarts + 1
    /\ excused' = IF kind = "poll" /\ poller = "mailcow" THEN excused \cup Recent ELSE excused
    /\ TailRestart /\ PollRestart
    /\ UNCHANGED << kind, now, stamp, received >>

Next ==
    \/ kind = "tail" /\ TailNext /\ UNCHANGED << kind, pollState >>
    \/ kind = "poll" /\ PollNext /\ UNCHANGED << kind, tailState >>
    \/ (Ticker \/ Advance \/ Receive) /\ UNCHANGED << kind, tailState, pollState >>
    \/ Restart

\* Goroutines and the clock go on; nothing is said about the other systems.
Fairness ==
    /\ WF_vars(kind = "tail" /\ TailStep /\ UNCHANGED << kind, pollState >>)
    /\ WF_vars(kind = "poll" /\ PollStep /\ UNCHANGED << kind, tailState >>)
    /\ WF_vars(Receive /\ UNCHANGED << kind, tailState, pollState >>)
    /\ WF_vars(Ticker /\ UNCHANGED << kind, tailState, pollState >>)
    /\ WF_vars(Advance /\ UNCHANGED << kind, tailState, pollState >>)

Spec == Init /\ [][Next]_vars /\ Fairness

-----------------------------------------------------------------------------
(* Properties *)

TypeOK ==
    /\ ch \in Seq(Items \cup {Wrong}) /\ Len(ch) <= Cap
    /\ stamp \in [Items -> 0..MaxNow \cup {Never}]
    /\ received \in [Items -> 0..MaxCount]
    /\ pos.offset \in Nat /\ scan.at \in Nat
    /\ seen \subseteq Items /\ banned \subseteq Items
    /\ todo \subseteq Recent
    /\ cursor \in 0..Cardinality(Items)
    /\ stage \in {"idle", "send", "postfix", "postfixSend", "dovecot", "dovecotSend",
                  "asked", "answered", "alertsSend"}

\* How many polls may fetch the same moment: the first, a poll whose tick waited
\* meanwhile, one whose tick came then, the next, and those that begin within what
\* a window reaches back beyond the poll before (mailcow's by the rounding to
\* seconds, the alerts' by the buffer).
Overlap == IF poller = "mailcow" THEN Second - 1 ELSE Buffer
Overlaps == 4 + Overlap \div Interval

\* How often an item may be reported at most.  A tailer and the pollers start over
\* with the daemon, and a tailer may take a truncation it has read past for one
\* that is still to come; fail2ban reports an address whenever it is new in the list.
MostOften(k) ==
    CASE kind = "tail" -> 1 + restarts + truncations
      [] kind = "poll" /\ poller = "fail2ban" -> appeared[k]
      [] kind = "poll" /\ poller = "decisions" -> 1 + restarts
      [] OTHER -> Overlaps * (1 + restarts)

\* An observation is scored no more often than that (each time it arrives it
\* counts: processLocal does not ask the dedup cache).  At the end of the model's
\* time, when the clock stands, polls reach what is as late again and again.
FewDuplicates ==
    \A k \in Items :
        \/ received[k] <= MostOften(k)
        \/ /\ kind = "poll" /\ poller \in {"mailcow", "alerts"}
           /\ now = MaxNow /\ stamp[k] + Overlap >= MaxNow

\* What is sent to the event loop was observed.  A line can be taken for something
\* else only if the log was truncated while the tailer was reading it or, in a
\* spamtrap's plain lines, right after the tailer has met a line that was half
\* written or has resumed amid a line of a truncated log that it has read past.
NothingInvented ==
    [][ch' = Append(ch, Wrong) => astray = "cut" \/ (plain /\ "amid" \in {astray, astray'})]_vars

\* "Local protection is never shed": whatever blocks, every observation reaches
\* the event loop, and every address that is new in fail2ban's list does again,
\* unless a named fault explains the loss.
Delivered ==
    \A k \in Items :
        /\ stamp[k] # Never ~>
               \/ received[k] > 0 \/ k \in excused
               \/ kind = "poll" /\ poller = "fail2ban" /\ k \notin banned
        /\ received[k] < appeared[k] ~> received[k] >= appeared[k] \/ restarts > 0

=============================================================================
