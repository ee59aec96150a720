---------------------------- MODULE PollSources -----------------------------
(***************************************************************************)
(* The sources that poll another system: fail2ban's list of banned         *)
(* addresses, the logs of mailcow's two containers, and CrowdSec's         *)
(* decisions and alerts (internal/ingest/fail2ban.go, mailcow_logs.go,     *)
(* crowdsec.go).  Each is a goroutine that waits for its channel while the *)
(* polled system goes on.                                                  *)
(***************************************************************************)
EXTENDS IngestChannel

CONSTANTS
    Polled,           \* the items that each polled system knows
    Lengthy,          \* mailcow's lines of more than 64 KiB
    Second,           \* units of time in a second
    Buffer, Timeout,  \* of the alerts query, and of the HTTP client
    Limit,            \* alerts in an answer
    LastWrite         \* the polled system changes until then

Pollers == {"fail2ban", "mailcow", "decisions", "alerts"}

ASSUME PollAssumption ==
    /\ Polled \in [Pollers -> SUBSET Items] /\ Lengthy \subseteq Items
    /\ {Second, Limit} \subseteq Nat \ {0}
    /\ {Buffer, Timeout, LastWrite} \subseteq Nat

VARIABLES
    poller,       \* which source
    stage,        \* where its poll is
    todo,         \* items fetched and not yet sent
    banned, seen, \* what fail2ban bans; what poll has reported of it
    current,      \* the list a poll has fetched
    since,        \* mailcow's since; CrowdSec.lastAlert
    mark,         \* the value since gets when the poll is done
    asked, span,  \* when the alerts query was made, and its ?since=
    startup,      \* CrowdSec.startup
    cursor,       \* LAPI's: how many decisions this bouncer has been handed
    appeared,     \* history: how often an address is new in the list
    lag           \* history: time from LAPI's answer to lastAlert

pollState == << poller, stage, todo, banned, seen, current, since, mark, asked, span,
                startup, cursor, appeared, lag >>

\* RFC3339 and %ds have whole seconds.
Format(t) == t - (t % Second)

PollInit ==
    /\ poller \in Pollers
    /\ stage = "idle" /\ todo = {}
    /\ banned = {} /\ seen = {} /\ current = {}
    /\ since = Format(0 - Interval) /\ mark = Never
    /\ asked = Never /\ span = 0
    /\ startup = TRUE /\ cursor = 0
    /\ appeared = [k \in Items |-> 0] /\ lag = 0

\* A line is logged, an alert raised, a decision taken.
Log(k) ==
    /\ poller # "fail2ban" /\ k \in Polled[poller]
    /\ now <= LastWrite
    /\ Occur(k, now)
    /\ UNCHANGED << clock, faults, ch, received, excused, restarts, pollState >>

\* Items go out one by one, in the order of a log or, from a map, in any.
SendNext(k) ==
    /\ k \in todo
    /\ poller = "fail2ban" \/ \A j \in todo : k <= j
    /\ Send(k)
    /\ todo' = todo \ {k}

-----------------------------------------------------------------------------
(* fail2ban *)

Ban(k) ==
    /\ poller = "fail2ban"
    /\ k \in Polled[poller] \ banned
    /\ now <= LastWrite
    /\ banned' = banned \cup {k}
    /\ stamp' = [stamp EXCEPT ![k] = 0]
    /\ UNCHANGED << clock, faults, ch, received, excused, restarts,
                    poller, stage, todo, seen, current, since, mark, asked, span, startup, cursor, appeared, lag >>

Unban(k) ==
    /\ k \in banned
    /\ now <= LastWrite
    /\ banned' = banned \ {k}
    /\ UNCHANGED << clock, faults, ch, history,
                    poller, stage, todo, seen, current, since, mark, asked, span, startup, cursor, appeared, lag >>

\* poll: the list, of which the new ones are to be reported.  An error ends it.
FetchBanned ==
    /\ poller = "fail2ban" /\ stage = "idle"
    /\ TakeTick
    /\ \/ /\ stage' = "send" /\ current' = banned /\ todo' = banned \ seen
          /\ appeared' = [k \in Items |-> appeared[k] + (IF k \in banned \ current THEN 1 ELSE 0)]
          /\ UNCHANGED faults
       \/ Fault /\ UNCHANGED << stage, current, todo, appeared >>
    /\ UNCHANGED << ch, history,
                    poller, banned, seen, since, mark, asked, span, startup, cursor, lag >>

\* Mutant: an address is not marked as reported.
NotMarked(k) == seen
Marked(k) == seen \cup {k}

SendBan(k) ==
    /\ poller = "fail2ban"
    /\ SendNext(k)
    /\ seen' = Marked(k)
    /\ UNCHANGED << clock, faults, history,
                    poller, stage, banned, current, since, mark, asked, span, startup, cursor, appeared, lag >>

\* Mutant: an address whose ban has ended stays marked.
Unpruned == seen
Pruned == seen \cap current

PruneSeen ==
    /\ poller = "fail2ban" /\ stage = "send"
    /\ todo = {}
    /\ seen' = Pruned
    /\ stage' = "idle"
    /\ UNCHANGED << clock, faults, ch, history,
                    poller, todo, banned, current, since, mark, asked, span, startup, cursor, appeared, lag >>

-----------------------------------------------------------------------------
(* mailcow *)

MailcowPoll ==
    /\ poller = "mailcow" /\ stage = "idle"
    /\ mark' = Format(tick)
    /\ TakeTick
    /\ stage' = "postfix"
    /\ UNCHANGED << faults, ch, history,
                    poller, todo, banned, seen, current, since, asked, span, startup, cursor, appeared, lag >>

Container(k) == IF k % 2 = 1 THEN "postfix" ELSE "dovecot"

\* Mutant: the window begins after the second of the last tick.
AfterSince(k) == stamp[k] > since
InWindow(k) == stamp[k] >= since

\* The lines of a log that bufio.Scanner yields: those before one that is too long.
Yielded(K) == {k \in K : \A j \in K \cap Lengthy : k < j}

\* pollPostfix, pollDovecot: docker logs --since.  An error loses the window, and
\* a line that is too long the rest of it, as far as the next window begins later.
FetchLogs ==
    /\ poller = "mailcow" /\ stage \in {"postfix", "dovecot"}
    /\ todo = {}
    /\ \/ LET logged == {k \in Recent : InWindow(k) /\ Container(k) = stage}
          IN  /\ todo' = Yielded(logged)
              /\ excused' = excused \cup {k \in logged \ Yielded(logged) : stamp[k] < mark}
              /\ UNCHANGED faults
       \/ /\ Fault
          /\ excused' = excused \cup {k \in Recent : Container(k) = stage}
          /\ UNCHANGED todo
    /\ stage' = IF stage = "postfix" THEN "postfixSend" ELSE "dovecotSend"
    /\ UNCHANGED << clock, ch, stamp, received, restarts,
                    poller, banned, seen, current, since, mark, asked, span, startup, cursor, appeared, lag >>

\* An answer is decoded as a whole before anything of it is sent.
SendLogged(k) ==
    /\ poller # "fail2ban" /\ stage # "answered"
    /\ SendNext(k)
    /\ UNCHANGED << clock, faults, history,
                    poller, stage, banned, seen, current, since, mark, asked, span, startup, cursor, appeared, lag >>

\* Mutant: the next poll begins where this one did.
SameWindow == since
NextSince == mark

LogsDone ==
    /\ stage \in {"postfixSend", "dovecotSend"}
    /\ todo = {}
    /\ stage' = IF stage = "postfixSend" THEN "dovecot" ELSE "idle"
    /\ since' = IF stage = "postfixSend" THEN since ELSE NextSince
    /\ UNCHANGED << clock, faults, ch, history,
                    poller, todo, banned, seen, current, mark, asked, span, startup, cursor, appeared, lag >>

-----------------------------------------------------------------------------
(* CrowdSec decisions *)

\* Mutant: startup ends with the first attempt.
EndsAnyway(ok) == FALSE
StartupAfter(ok) == startup /\ ~ ok

\* GET /v1/decisions/stream: all of them at startup, then what is new since the
\* last answer, whether or not the last answer was received.
FetchDecisions ==
    /\ poller = "decisions" /\ stage = "idle"
    /\ TakeTick
    /\ LET new == {k \in Recent : startup \/ k > cursor}
       IN  \/ /\ todo' = new
              /\ stage' = "send"
              /\ cursor' = Cardinality(Recent)
              /\ startup' = StartupAfter(TRUE)
              /\ UNCHANGED << faults, excused >>
           \/ /\ Fault                                 \* not answered
              /\ startup' = StartupAfter(FALSE)
              /\ UNCHANGED << todo, stage, cursor, excused >>
           \/ /\ Fault                                 \* answered in vain
              /\ cursor' = Cardinality(Recent)
              /\ startup' = StartupAfter(FALSE)
              /\ excused' = IF startup THEN excused ELSE excused \cup new
              /\ UNCHANGED << todo, stage >>
    /\ UNCHANGED << ch, stamp, received, restarts,
                    poller, banned, seen, current, since, mark, asked, span, appeared, lag >>

DecisionsDone ==
    /\ poller = "decisions" /\ stage = "send"
    /\ todo = {}
    /\ stage' = "idle"
    /\ UNCHANGED << clock, faults, ch, history, poller, todo,
                    banned, seen, current, since, mark, asked, span, startup, cursor, appeared, lag >>

-----------------------------------------------------------------------------
(* CrowdSec alerts: asked, answered by LAPI, decoded *)

FirstSpan == MaxNow + 1   \* 24 hours

\* Mutant: no buffer.
SinceLastPoll == now - since
SinceSpan == now - since + Buffer

AskAlerts ==
    /\ poller = "alerts" /\ stage = "idle"
    /\ TakeTick
    /\ asked' = now
    /\ span' = IF since < 0 THEN FirstSpan ELSE Format(SinceSpan)
    /\ stage' = "asked"
    /\ UNCHANGED << faults, ch, history,
                    poller, todo, banned, seen, current, since, mark, startup, cursor, appeared, lag >>

\* LAPI answers with the newest Limit alerts of the span before its own now.
\* The buffer covers the time between the last answer and lastAlert, the
\* request's way and the rounding, as long as they are together no longer.
Newest(K) == {k \in K : Cardinality({j \in K : j > k}) < Limit}
AnswerAlerts ==
    /\ stage = "asked"
    /\ now - asked <= Timeout
    /\ LET inSpan == {k \in Recent : stamp[k] >= now - span}
           covered == lag + (now - asked) + (Second - 1) <= Buffer \/ since < 0
       IN  /\ todo' = Newest(inSpan)
           /\ excused' = excused \cup (inSpan \ Newest(inSpan))
                           \cup (IF covered THEN {} ELSE Recent \ inSpan)
    /\ stage' = "answered"
    /\ mark' = now
    /\ UNCHANGED << clock, faults, ch, stamp, received, restarts,
                    poller, banned, seen, current, since, asked, span, startup, cursor, appeared, lag >>

\* pollTime is taken when the answer has been decoded.
DecodeAlerts ==
    /\ stage = "answered"
    /\ now - asked <= Timeout
    /\ lag' = now - mark
    /\ mark' = now
    /\ stage' = "alertsSend"
    /\ UNCHANGED << clock, faults, ch, history,
                    poller, todo, banned, seen, current, since, asked, span, startup, cursor, appeared >>

\* The login, the request or the answer fails, or the client's time is up.
\* lastAlert stays.
AlertsFail ==
    /\ stage \in {"asked", "answered"}
    /\ IF now - asked > Timeout THEN UNCHANGED faults ELSE Fault
    /\ stage' = "idle" /\ todo' = {}
    /\ UNCHANGED << clock, ch, history,
                    poller, banned, seen, current, since, mark, asked, span, startup, cursor, appeared, lag >>

AlertsDone ==
    /\ stage = "alertsSend"
    /\ todo = {}
    /\ since' = NextSince
    /\ stage' = "idle"
    /\ UNCHANGED << clock, faults, ch, history, poller, todo,
                    banned, seen, current, mark, asked, span, startup, cursor, appeared, lag >>

-----------------------------------------------------------------------------
\* All of a source's state is in memory; mailcow starts one interval back.
PollRestart ==
    /\ stage' = "idle" /\ todo' = {} /\ seen' = {} /\ current' = {}
    /\ since' = Format((IF poller = "mailcow" THEN now ELSE 0) - Interval)
    /\ mark' = Never /\ asked' = Never /\ span' = 0 /\ startup' = TRUE /\ lag' = 0
    /\ UNCHANGED << poller, banned, cursor, appeared >>

PollStep ==
    \/ FetchBanned \/ PruneSeen \/ MailcowPoll \/ FetchLogs \/ LogsDone
    \/ FetchDecisions \/ DecisionsDone
    \/ AskAlerts \/ AnswerAlerts \/ DecodeAlerts \/ AlertsFail \/ AlertsDone
    \/ \E k \in Items : SendBan(k) \/ SendLogged(k)

PollNext ==
    \/ PollStep
    \/ \E k \in Items : Log(k) \/ Ban(k) \/ Unban(k)

=============================================================================
