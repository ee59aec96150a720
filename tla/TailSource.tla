----------------------------- MODULE TailSource -----------------------------
(***************************************************************************)
(* The sources that tail a log file (internal/ingest/tail.go, honeypot.go, *)
(* opencanary.go, spamtrap.go) while a program appends to it and logrotate *)
(* replaces or truncates it.                                               *)
(***************************************************************************)
EXTENDS IngestChannel

CONSTANTS
    Oversize,   \* lines longer than the scanner's buffer
    MaxFiles

ASSUME TailAssumption == Oversize \subseteq Items /\ MaxFiles \in Nat \ {0}

VARIABLES
    plain,      \* the spamtrap's plain addresses; otherwise JSON lines
    inodes,     \* the content of each file there has been
    path,       \* the one the log's name stands for
    pos,        \* tailPos
    scan,       \* the open file, how far it is read, the scanner's buffer and EOF
    truncations,\* history: how often the log has been truncated
    astray      \* history: "amid" when the offset may lie amid a line, "cut" when the
                \* log has been truncated since it was opened, otherwise "no"

tailState == << plain, inodes, path, pos, scan, truncations, astray >>
Closed == [file |-> 0, at |-> 0, buf |-> << >>, eof |-> FALSE]
StartPos == [offset |-> 0, lastSize |-> 0, lastFile |-> Never]

TailInit ==
    /\ plain \in BOOLEAN
    /\ inodes = [i \in 1..MaxFiles |-> << >>]
    /\ path = 1
    /\ pos = StartPos /\ scan = Closed
    /\ truncations = 0 /\ astray = "no"

\* A line is two bytes and a newline.
NL == << 0, 0 >>
Line(k) == << << k, 1 >>, << k, 2 >>, NL >>
Content == inodes[path]
HalfWritten(i) == inodes[i] # << >> /\ inodes[i][Len(inodes[i])][2] = 1

\* The items of file i that begin before offset o.
Before(i, o) == {k \in Items : \E p \in 1..Len(inodes[i]) : p <= o /\ inodes[i][p] = << k, 1 >>}

-----------------------------------------------------------------------------
(* The log *)

\* A line in one write.  One that is too long stops the scanner for good.
WriteLine(k) ==
    /\ ~ HalfWritten(path)
    /\ Occur(k, 0)
    /\ inodes' = [inodes EXCEPT ![path] = @ \o Line(k)]
    /\ excused' = IF k \in Oversize THEN excused \cup {j \in Items : j >= k} ELSE excused
    /\ UNCHANGED << clock, faults, ch, received, restarts, plain, path, pos, scan, truncations, astray >>

\* A line in two writes; the writer keeps the file open over a rotation.
WriteHalf(k) ==
    /\ ~ HalfWritten(path)
    /\ k \notin Oversize
    /\ Occur(k, 0)
    /\ inodes' = [inodes EXCEPT ![path] = Append(@, << k, 1 >>)]
    /\ UNCHANGED << clock, faults, ch, received, excused, restarts, plain, path, pos, scan, truncations, astray >>

WriteRest(i) ==
    /\ HalfWritten(i)
    /\ LET k == inodes[i][Len(inodes[i])][1]
       IN  inodes' = [inodes EXCEPT ![i] = @ \o << << k, 2 >>, NL >>]
    /\ UNCHANGED << clock, faults, ch, history, plain, path, pos, scan, truncations, astray >>

\* Rotation by rename: what has not been read of the old file is lost.
Rotate ==
    /\ Fault
    /\ path < MaxFiles
    /\ path' = path + 1
    /\ excused' = excused \cup Recent
    /\ UNCHANGED << clock, ch, stamp, received, restarts, plain, inodes, pos, scan, truncations, astray >>

\* Rotation by copytruncate: what has not been read is lost.
Truncate ==
    /\ Fault
    /\ Content # << >> /\ ~ HalfWritten(path)
    /\ inodes' = [inodes EXCEPT ![path] = << >>]
    /\ excused' = excused \cup Recent
    /\ truncations' = truncations + 1
    /\ astray' = IF pos.lastFile = path THEN "cut" ELSE astray
    /\ UNCHANGED << clock, ch, stamp, received, restarts, plain, path, pos, scan >>

-----------------------------------------------------------------------------
(* The tailer *)

\* Mutant: only another file at the same path has been rotated.
FileOnly(p) ==
    [ offset |-> IF p.lastFile # Never /\ p.lastFile # path THEN 0 ELSE p.offset,
      lastSize |-> Len(Content), lastFile |-> path ]

\* tailPos.sync
sync(p) ==
    [ offset |-> IF Len(Content) < p.lastSize \/ (p.lastFile # Never /\ p.lastFile # path)
                 THEN 0 ELSE p.offset,
      lastSize |-> Len(Content), lastFile |-> path ]

\* The size does not show whether the log has been truncated.
Outgrown == pos.lastFile \in {Never, path} /\ Len(Content) >= pos.lastSize

\* A truncated log that has grown past its old size is not read from the start:
\* what lies before the offset is lost.
OpenLog ==
    /\ scan = Closed
    /\ TakeTick
    /\ pos' = sync(pos)
    /\ scan' = [ file |-> path, at |-> pos'.offset, buf |-> << >>, eof |-> FALSE ]
    /\ astray' = IF astray # "no" /\ Outgrown THEN "amid" ELSE "no"
    /\ excused' = IF astray' = "no" THEN excused ELSE excused \cup Before(path, pos'.offset)
    /\ UNCHANGED << faults, ch, stamp, received, restarts, plain, inodes, path, truncations >>

HasLine(buf) == \E i \in 1..Len(buf) : buf[i] = NL
Newline(buf) == CHOOSE i \in 1..Len(buf) : buf[i] = NL /\ \A j \in 1..(i - 1) : buf[j] # NL
Unread == LET c == inodes[scan.file] IN SubSeq(c, scan.at + 1, Len(c))

\* Scanner.Scan reads on while its buffer holds no newline, until the first EOF.
FillBuffer ==
    /\ scan # Closed /\ ~ scan.eof
    /\ ~ HasLine(scan.buf)
    /\ Unread # << >>
    /\ scan' = [scan EXCEPT !.buf = @ \o Unread, !.at = @ + Len(Unread)]
    /\ UNCHANGED << clock, faults, ch, history, plain, inodes, path, pos, truncations, astray >>

\* What it then yields: a line, or the end of the file as it is.
Token == IF HasLine(scan.buf) THEN SubSeq(scan.buf, 1, Newline(scan.buf) - 1) ELSE scan.buf
Rest == IF HasLine(scan.buf) THEN SubSeq(scan.buf, Newline(scan.buf) + 1, Len(scan.buf)) ELSE << >>
TooLong == scan.buf # << >> /\ scan.buf[1][1] \in Oversize

\* A whole line is its item.  Halves of two lines may make one of somebody else;
\* a piece of a line is not JSON, but may well be somebody else's address.
Wrong == 0
Parsed(t) ==
    IF Len(t) = 2 THEN {IF t[1][1] = t[2][1] THEN t[1][1] ELSE Wrong}
    ELSE IF t # << >> /\ plain THEN {Wrong} ELSE {}

\* Mutant: the newline is not counted.
WithoutNewline(t) == Len(t)
LineLength(t) == Len(t) + 1

\* The offset moves past a newline that may not have been written yet: the rest
\* of that line is then read from its second byte on.
ScanLine ==
    /\ scan # Closed
    /\ HasLine(scan.buf) \/ (scan.buf # << >> /\ Unread = << >>)
    /\ ~ TooLong
    /\ IF Parsed(Token) = {} THEN UNCHANGED ch ELSE \E k \in Parsed(Token) : Send(k)
    /\ pos' = [pos EXCEPT !.offset = @ + LineLength(Token)]
    /\ scan' = [scan EXCEPT !.buf = Rest, !.eof = ~ HasLine(scan.buf)]
    /\ astray' = IF astray = "cut" THEN "cut" ELSE IF HasLine(scan.buf) THEN "no" ELSE "amid"
    /\ excused' = excused \cup (IF HasLine(scan.buf) THEN {} ELSE {Token[1][1]})
                           \cup (IF astray = "amid" THEN Before(scan.file, pos.offset) ELSE {})
    /\ UNCHANGED << clock, faults, stamp, received, restarts, plain, inodes, path, truncations >>

CloseLog ==
    /\ scan # Closed
    /\ TooLong \/ scan.eof \/ (scan.buf = << >> /\ Unread = << >>)
    /\ scan' = Closed
    /\ UNCHANGED << clock, faults, ch, history, plain, inodes, path, pos, truncations, astray >>

\* The position is kept in memory: a restarted daemon reads the log again.
TailRestart ==
    /\ pos' = StartPos /\ scan' = Closed /\ astray' = "no"
    /\ UNCHANGED << plain, inodes, path, truncations >>

TailStep == OpenLog \/ FillBuffer \/ ScanLine \/ CloseLog

TailNext ==
    \/ TailStep
    \/ \E k \in Items : WriteLine(k) \/ WriteHalf(k)
    \/ \E i \in 1..MaxFiles : WriteRest(i)
    \/ Rotate \/ Truncate

=============================================================================
