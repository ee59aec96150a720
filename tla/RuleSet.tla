------------------------------ MODULE RuleSet -------------------------------
(***************************************************************************)
(* The rules file, its hot reload (internal/rules/rule.go) and the burst   *)
(* windows (internal/rules/burst.go), for one address and one reason.      *)
(*                                                                         *)
(* The node's event loop records an event and evaluates the rules; before  *)
(* each evaluation it stats the file and, if the stat has changed, reads   *)
(* the file and then stats it again.  Meanwhile an operator edits the file *)
(* in place, so that any content may be seen, an empty file included.      *)
(* What a rule asks of the score is Rules!Matches; here the rules whose    *)
(* other conditions hold are any set.                                      *)
(***************************************************************************)
EXTENDS Integers, Sequences, FiniteSets

CONSTANTS
    Versions,         \* what the file may hold: rule lists, Garbage, Missing
    Garbage, Missing, \* not YAML; no such file
    MaxNow, MaxEdits, MaxEvents

Action == {"block", "watch", "ignore"}

\* A rule as written: an unknown action, a burst without window and negative
\* numbers may occur.
Rule == [ minBurst : Int, window : Int, action : Action \cup {"unknown"} ]

ASSUME RuleSetAssumption ==
    /\ \A v \in Versions \ {Garbage, Missing} : v \in Seq(Rule)
    /\ MaxNow \in Nat /\ MaxEdits \in Nat /\ MaxEvents \in Nat

VARIABLES
    hist,       \* versions of the file, the last one being the file
    rules, lastStat, loaded,   \* RuleSet
    pc,         \* where the event loop is
    got,        \* the version ReadFile has returned
    entries,    \* BurstStore.entries of the address and reason
    now, edits,
    events,     \* history: times of the events recorded since the start
    base,       \* history: how many versions there were at the last stat
    raced       \* history: the file changed between the read and the stat

ruleset == << rules, lastStat, loaded >>
vars == << hist, ruleset, pc, got, entries, now, edits, events, base, raced >>

File == hist[Len(hist)]
Readable(d) == d \notin {Garbage, Missing}

StatOf(v) == IF Readable(v.data) THEN << v.mtime, Len(v.data) >> ELSE << v.mtime, 0 >>
NoStat == << -1, 0 >>

\* Mutant: only the modification time is compared.
SameTime(v) == v.mtime = lastStat[1]
Unchanged(v) == StatOf(v) = lastStat

\* validateRules drops what would misbehave: a burst without a window, an
\* unknown action.
Valid(r) == ~ (r.minBurst > 0 /\ r.window = 0) /\ r.action \in Action

\* Mutant: unknown actions are kept.
BurstsOnly(list) == SelectSeq(list, LAMBDA r : ~ (r.minBurst > 0 /\ r.window = 0))

validateRules(list) ==
    LET valid[i \in 0..Len(list)] ==
            IF i = 0 THEN << >>
            ELSE IF Valid(list[i]) THEN Append(valid[i - 1], list[i]) ELSE valid[i - 1]
    IN  valid[Len(list)]

-----------------------------------------------------------------------------
(* BurstStore.Count in a scan of the rules: rule i of ok is reached if     *)
(* nothing before it matched.  Each count evicts by its own window, and a  *)
(* window that has been counted in this scan is not counted again.         *)

CountsBurst(ok, i) == i \in ok /\ rules[i].minBurst > 0
Counter(ok, i) == CHOOSE j \in 1..i : /\ CountsBurst(ok, j) /\ rules[j].window = rules[i].window
                                      /\ \A k \in 1..(j - 1) : ~ (CountsBurst(ok, k) /\
                                                    rules[k].window = rules[i].window)

\* Mutant: an event as old as the window counts no more.
EvictsBoundary(ts, w) == SelectSeq(ts, LAMBDA t : t > now - w)

\* The entries from the first one on that is not stale; with a negative window
\* all are, those of this moment too.
Live(ts, w) == {i \in 1..Len(ts) : ts[i] >= now - w}
Evict(ts, w) ==
    IF Live(ts, w) = {} THEN << >>
    ELSE SubSeq(ts, CHOOSE i \in Live(ts, w) : \A j \in Live(ts, w) : i <= j, Len(ts))

\* What is left after the counts of the rules up to i.
AfterCounts(ok, i) ==
    LET left[j \in 0..Len(rules)] ==
            IF j = 0 THEN entries
            ELSE IF CountsBurst(ok, j) /\ Counter(ok, j) = j
                 THEN Evict(left[j - 1], rules[j].window)
                 ELSE left[j - 1]
    IN  left[i]

Count(ok, i) == Len(AfterCounts(ok, Counter(ok, i)))

Matches(ok, i) == i \in ok /\ (rules[i].minBurst > 0 => Count(ok, i) >= rules[i].minBurst)

\* The rules the scan reaches: up to the first that matches.
Reached(ok) == {i \in 1..Len(rules) : \A j \in 1..(i - 1) : ~ Matches(ok, j)}

-----------------------------------------------------------------------------
Init ==
    /\ \E d \in Versions : hist = << [data |-> d, mtime |-> 0] >>
    /\ rules = << >> /\ lastStat = NoStat /\ loaded = FALSE
    /\ pc = "down" /\ got = 0
    /\ entries = << >> /\ events = << >>
    /\ now = 0 /\ edits = 0
    /\ base = 1 /\ raced = FALSE

\* Where the event loop is after a reload; Load, which evaluates nothing, is
\* marked by base = 0.
AfterReload == IF base = 0 THEN "idle" ELSE "scan"

\* Load, at the start of the daemon.
Load ==
    /\ pc = "down"
    /\ pc' = "read"
    /\ base' = 0
    /\ UNCHANGED << hist, ruleset, got, entries, now, edits, events, raced >>

\* An event is recorded unless a stranger reports it, then evaluated.
Event(anchored) ==
    /\ pc = "idle"
    /\ Len(events) < MaxEvents
    /\ pc' = "stat"
    /\ entries' = IF anchored THEN Append(entries, now) ELSE entries
    /\ events' = IF anchored THEN Append(events, now) ELSE events
    /\ UNCHANGED << hist, ruleset, got, now, edits, base, raced >>

\* maybeReload.  A missing file changes nothing.
MaybeReload ==
    /\ pc = "stat"
    /\ base' = Len(hist)
    /\ pc' = IF File.data = Missing \/ Unchanged(File) THEN "scan" ELSE "read"
    /\ UNCHANGED << hist, ruleset, got, entries, now, edits, events, raced >>

\* reload, up to the parse: on an error the last good rules stay, and so does
\* lastStat, so that the next evaluation tries again.
Reload ==
    /\ pc = "read"
    /\ IF Readable(File.data)
       THEN got' = Len(hist) /\ pc' = "install"
       ELSE got' = got /\ pc' = AfterReload
    /\ UNCHANGED << hist, ruleset, entries, now, edits, events, base, raced >>

\* reload, from its Stat on: what is recorded is the file as it is now.
Install ==
    /\ pc = "install"
    /\ rules' = validateRules(hist[got].data)
    /\ loaded' = TRUE
    /\ lastStat' = IF File.data = Missing THEN lastStat ELSE StatOf(File)
    /\ raced' = (got # Len(hist))
    /\ pc' = AfterReload
    /\ UNCHANGED << hist, got, entries, now, edits, events, base >>

\* The rest of Evaluate; what the action then does is Node.
Scan(ok) ==
    /\ pc = "scan"
    /\ entries' = AfterCounts(ok, Cardinality(Reached(ok)))
    /\ pc' = "idle"
    /\ UNCHANGED << hist, ruleset, got, now, edits, events, base, raced >>

\* The operator writes the file; the time may be that of the version before.
EditFile(d) ==
    /\ edits < MaxEdits
    /\ edits' = edits + 1
    /\ d # File.data
    /\ \E m \in {File.mtime, File.mtime + 1} : hist' = Append(hist, [data |-> d, mtime |-> m])
    /\ UNCHANGED << ruleset, pc, got, entries, now, events, base, raced >>

Restart ==
    /\ pc # "down"
    /\ edits < MaxEdits
    /\ edits' = edits + 1
    /\ rules' = << >> /\ lastStat' = NoStat /\ loaded' = FALSE
    /\ pc' = "down" /\ got' = 0
    /\ entries' = << >> /\ events' = << >>
    /\ base' = 1 /\ raced' = FALSE
    /\ UNCHANGED << hist, now >>

Tick ==
    /\ now < MaxNow
    /\ now' = now + 1
    /\ UNCHANGED << hist, ruleset, pc, got, entries, edits, events, base, raced >>

Next ==
    \/ Load \/ MaybeReload \/ Reload \/ Install \/ Restart \/ Tick
    \/ \E anchored \in BOOLEAN : Event(anchored)
    \/ \E ok \in SUBSET (1..Len(rules)) : Scan(ok)
    \/ \E d \in Versions : EditFile(d)

Spec == Init /\ [][Next]_vars

-----------------------------------------------------------------------------
(* Properties *)

TypeOK ==
    /\ rules \in Seq([ minBurst : Int, window : Int, action : Action ])
    /\ \A i \in 1..Len(rules) : rules[i].minBurst > 0 => rules[i].window # 0
    /\ loaded \in BOOLEAN /\ raced \in BOOLEAN
    /\ pc \in {"down", "idle", "stat", "read", "install", "scan"}
    /\ got \in 0..Len(hist) /\ base \in 0..Len(hist)
    /\ entries \in Seq(0..now) /\ events \in Seq(0..now)

\* Every evaluation uses the rules of the version that was there when it
\* looked, or of a later one.  Exceptions: the file cannot be read, when the
\* last rules that could be read stay ("the last-good ruleset is kept"); a
\* version that time and size do not tell from an earlier one; and an edit
\* that fell between the read and the stat of a reload, which stays unnoticed
\* until the next edit.
RulesAreFresh ==
    pc = "scan" =>
        \/ ~ loaded /\ rules = << >> /\ \E j \in base..Len(hist) : ~ Readable(hist[j].data)
        \/ \E i \in 1..Len(hist) :
              /\ Readable(hist[i].data)
              /\ rules = validateRules(hist[i].data)
              /\ \/ i >= base
                 \/ raced
                 \/ \E j \in base..Len(hist) : ~ Readable(hist[j].data)
                 \/ \E j \in base..Len(hist), k \in 1..i : StatOf(hist[j]) = StatOf(hist[k])

\* The events of the last w ticks since the start.
Within(w) == Cardinality(Live(events, w))
Windows == UNION { {hist[i].data[k].window : k \in {j \in 1..Len(hist[i].data) :
                        hist[i].data[j].minBurst > 0}} :
                    i \in {j \in 1..Len(hist) : Readable(hist[j].data)} }

\* A rule never sees more events than fell within its window ("Minimum number of
\* events within burst_window").  Count forgets what its caller's window
\* excludes, so that a rule may see fewer, but never fewer than fell within some
\* window, no longer than its own, of a rule that the file has held: the rule
\* with the shortest sees all.
BurstIsExact ==
    pc = "scan" => \A ok \in SUBSET (1..Len(rules)) : \A i \in Reached(ok) :
        CountsBurst(ok, i) =>
            /\ Count(ok, i) <= Within(rules[i].window)
            /\ \E v \in Windows : v <= rules[i].window /\ Within(v) <= Count(ok, i)

=============================================================================
