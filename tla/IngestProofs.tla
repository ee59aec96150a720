---------------------------- MODULE IngestProofs ----------------------------
(***************************************************************************)
(* Theorems about the ingest sources, for any number of items and files,   *)
(* any capacity, interval, buffer and limit, and any number of faults.     *)
(***************************************************************************)
EXTENDS Ingest, FiniteSetTheorems, SequenceTheorems, WellFoundedInduction, TLAPS

(***************************************************************************)
(* Constants, seconds, and counting.                                       *)
(***************************************************************************)

LEMMA Constants ==
    /\ Cardinality(Items) \in Nat /\ IsFiniteSet(Items) /\ Wrong \notin Items
    /\ \A k \in Items : k \in Nat /\ k >= 1
    /\ \A k \in Items : \A j \in 1..k : j \in Items
    /\ Cap \in Nat \ {0} /\ Interval \in Nat \ {0} /\ MaxCount \in Nat \ {0}
    /\ MaxNow \in Nat /\ MaxFiles \in Nat \ {0}
    /\ Second \in Nat \ {0} /\ Buffer \in Nat
    /\ Enabled \subseteq {"tail", "poll"}
<1>1. Cardinality(Items) \in Nat /\ IsFiniteSet(Items)
  BY ChannelAssumption, FS_CardinalityType
<1> QED BY <1>1, ChannelAssumption, TailAssumption, PollAssumption, IngestAssumption DEF Wrong

(* Seconds are rounded down.                                               *)
LEMMA FormatBounds ==
    ASSUME NEW t \in Int
    PROVE  Format(t) \in Int /\ Format(t) <= t /\ t <= Format(t) + (Second - 1)
<1>1. Second \in Nat \ {0}
  BY Constants
<1>2. t % Second \in 0..(Second - 1)
  BY <1>1
<1> QED BY <1>1, <1>2 DEF Format

LEMMA FormatMonotone ==
    ASSUME NEW t \in Int, NEW u \in Int, t <= u
    PROVE  Format(t) <= Format(u)
<1> DEFINE m == t \div Second
           n == u \div Second
<1>1. Second \in Nat \ {0}
  BY Constants
<1>2. /\ m \in Int /\ t = Second * m + (t % Second) /\ t % Second \in 0..(Second - 1)
      /\ n \in Int /\ u = Second * n + (u % Second) /\ u % Second \in 0..(Second - 1)
  BY <1>1
<1>3. Format(t) = Second * m /\ Format(u) = Second * n
  BY <1>1, <1>2 DEF Format
<1> HIDE DEF m, n
<1>4. m <= n
  <2> SUFFICES ASSUME n + 1 <= m PROVE FALSE
    BY <1>2
  <2>1. Second * (n + 1) <= Second * m
    BY <1>1, <1>2
  <2>2. Second * (n + 1) = Second * n + Second
    BY <1>1, <1>2
  <2>3. Second * n \in Int /\ Second * m \in Int
    BY <1>1, <1>2
  <2> QED BY <1>1, <1>2, <2>1, <2>2, <2>3
<1>5. Second * m <= Second * n
  BY <1>1, <1>2, <1>4
<1> QED BY <1>3, <1>5

(* How many of the events on their way are of k.                           *)
Places(s, k) == {i \in 1..Len(s) : s[i] = k}

LEMMA PlacesFinite ==
    ASSUME NEW S, NEW s \in Seq(S), NEW k
    PROVE  IsFiniteSet(Places(s, k)) /\ Cardinality(Places(s, k)) \in Nat
<1>1. Len(s) \in Nat
  OBVIOUS
<1>2. IsFiniteSet(1..Len(s))
  BY <1>1, FS_Interval
<1>3. Places(s, k) \in SUBSET (1..Len(s))
  BY DEF Places
<1>4. IsFiniteSet(Places(s, k))
  BY <1>2, <1>3, FS_Subset
<1> QED BY <1>4, FS_CardinalityType

LEMMA PlacesOfNone == ASSUME NEW k PROVE Cardinality(Places(<< >>, k)) = 0
<1>1. Places(<< >>, k) = {}
  BY DEF Places
<1> QED BY <1>1, FS_EmptySet

LEMMA PlacesAppend ==
    ASSUME NEW S, NEW s \in Seq(S), NEW e \in S, NEW k
    PROVE  Cardinality(Places(Append(s, e), k)) = Cardinality(Places(s, k)) + (IF e = k THEN 1 ELSE 0)
<1> DEFINE P == Places(s, k)
           n == Len(s) + 1
<1>1. Len(s) \in Nat /\ Len(Append(s, e)) = n /\ Append(s, e)[n] = e
      /\ \A i \in 1..Len(s) : Append(s, e)[i] = s[i]
  BY AppendProperties
<1>2. IsFiniteSet(P) /\ Cardinality(P) \in Nat
  BY PlacesFinite
<1>3. n \notin P
  BY <1>1 DEF Places
<1>4. CASE e = k
  <2>1. Places(Append(s, e), k) = P \cup {n}
    BY <1>1, <1>4 DEF Places
  <2> HIDE DEF P, n
  <2> QED BY <1>2, <1>3, <1>4, <2>1, FS_AddElement DEF P
<1>5. CASE e # k
  <2>1. Places(Append(s, e), k) = P
    BY <1>1, <1>5 DEF Places
  <2> QED BY <1>2, <1>5, <2>1
<1> QED BY <1>4, <1>5

LEMMA PlacesTail ==
    ASSUME NEW S, NEW s \in Seq(S), s # << >>, NEW k
    PROVE  Cardinality(Places(Tail(s), k)) + (IF Head(s) = k THEN 1 ELSE 0) = Cardinality(Places(s, k))
<1> DEFINE P == Places(s, k)
           Q == Places(Tail(s), k)
           f == [i \in Q |-> i + 1]
<1>1. /\ Len(s) \in Nat \ {0} /\ Tail(s) \in Seq(S) /\ Len(Tail(s)) = Len(s) - 1 /\ Head(s) = s[1]
      /\ \A i \in 1..Len(Tail(s)) : Tail(s)[i] = s[i + 1]
  BY HeadTailProperties
<1>2. IsFiniteSet(P) /\ Cardinality(P) \in Nat /\ IsFiniteSet(Q) /\ Cardinality(Q) \in Nat
  BY <1>1, PlacesFinite
<1>3. f \in Bijection(Q, P \ {1})
  <2>1. \A i \in Q : i \in Nat /\ i + 1 \in P \ {1}
    BY <1>1 DEF Places
  <2>2. ASSUME NEW j \in P \ {1} PROVE j - 1 \in Q /\ f[j - 1] = j
    <3>1. j \in 2..Len(s) /\ s[j] = k
      BY <1>1 DEF Places
    <3>2. j - 1 \in 1..Len(Tail(s)) /\ Tail(s)[j - 1] = s[(j - 1) + 1] /\ (j - 1) + 1 = j
      BY <1>1, <3>1
    <3>3. j - 1 \in Q
      BY <3>1, <3>2 DEF Places
    <3> QED BY <3>1, <3>3
  <2> HIDE DEF P, Q
  <2>3. f \in [Q -> P \ {1}]
    BY <2>1
  <2>4. \A i, j \in Q : f[i] = f[j] => i = j
    BY <2>1
  <2> HIDE DEF f
  <2>5. f \in Surjection(Q, P \ {1})
    BY <2>2, <2>3 DEF Surjection
  <2>6. f \in Injection(Q, P \ {1})
    BY <2>3, <2>4 DEF Injection, IsInjective
  <2> QED BY <2>5, <2>6 DEF Bijection
<1>4. Cardinality(P \ {1}) = Cardinality(Q)
  <2> HIDE DEF P, Q, f
  <2>1. ExistsBijection(Q, P \ {1})
    BY <1>3 DEF ExistsBijection
  <2> QED BY <1>2, <2>1, FS_Bijection
<1>5. 1 \in P <=> Head(s) = k
  BY <1>1 DEF Places
<1>6. Cardinality(P \ {1}) = IF 1 \in P THEN Cardinality(P) - 1 ELSE Cardinality(P)
  <2> HIDE DEF P
  <2> QED BY <1>2, FS_RemoveElement
<1> HIDE DEF P, Q
<1>7. CASE 1 \in P
  BY <1>2, <1>4, <1>5, <1>6, <1>7 DEF P, Q
<1>8. CASE 1 \notin P
  BY <1>2, <1>4, <1>5, <1>6, <1>8 DEF P, Q
<1> QED BY <1>7, <1>8

(***************************************************************************)
(* Types.                                                                  *)
(***************************************************************************)

Byte == (Items \X {1, 2}) \cup {NL}
Stages == {"idle", "send", "postfix", "postfixSend", "dovecot", "dovecotSend",
           "asked", "answered", "alertsSend"}

(* The ticker's times lie behind the clock, in the order they came.        *)
ClockInv ==
    /\ now \in 0..MaxNow
    /\ lastTick \in 0..now
    /\ tick \in 0..lastTick \cup {Never}

ChannelInv ==
    /\ kind \in {"tail", "poll"}
    /\ ClockInv
    /\ ch \in Seq(Items \cup {Wrong}) /\ Len(ch) <= Cap
    /\ stamp \in [Items -> 0..now \cup {Never}]
    /\ received \in [Items -> 0..MaxCount]
    /\ restarts \in Nat

(* The open file is the one the position is about, and the offset is what  *)
(* has been read of it less what the buffer holds, until a line without a  *)
(* newline has been counted as one with it.                                *)
TailTypes ==
    /\ plain \in BOOLEAN
    /\ inodes \in [1..MaxFiles -> Seq(Byte)]
    /\ path \in 1..MaxFiles
    /\ pos \in [offset : Nat, lastSize : Nat, lastFile : 1..path \cup {Never}]
    /\ scan \in [file : 0..MaxFiles, at : Nat, buf : Seq(Byte), eof : BOOLEAN]
    /\ scan # Closed => scan.file = pos.lastFile /\ scan.file # Never
    /\ scan = Closed \/ scan.file # 0
    /\ scan # Closed /\ ~ scan.eof => scan.at = pos.offset + Len(scan.buf)
    /\ scan # Closed /\ scan.eof => scan.buf = << >> /\ pos.offset >= scan.at
    /\ truncations \in Nat
    /\ astray \in {"no", "amid", "cut"}

PollTypes ==
    /\ poller \in Pollers /\ stage \in Stages
    /\ todo \subseteq Recent
    /\ banned \subseteq Recent /\ seen \subseteq Items /\ current \subseteq Items
    /\ {since, mark, asked, span, lag} \subseteq Int
    /\ startup \in BOOLEAN
    /\ cursor \in 0..Cardinality(Recent)
    /\ appeared \in [Items -> Nat]

TypeInv == ChannelInv /\ TailTypes /\ PollTypes

LEMMA InitTypes == Init => TypeInv
<1> SUFFICES ASSUME Init PROVE TypeInv
  OBVIOUS
<1> USE Constants
<1>1. ChannelInv
  BY DEF Init, ChannelInit, ChannelInv, ClockInv, Never
<1>2. TailTypes
  BY DEF Init, TailInit, TailTypes, StartPos, Closed
<1>3. Recent = {}
  BY DEF Init, ChannelInit, Recent
<1>4. Format(0 - Interval) \in Int
  BY FormatBounds
<1>5. PollTypes
  BY <1>3, <1>4, FS_EmptySet DEF Init, PollInit, PollTypes, Never, Stages, Pollers
<1> QED BY <1>1, <1>2, <1>5 DEF TypeInv

(* What a step leaves alone keeps its type.                                *)
LEMMA ChannelSame ==
    ChannelInv /\ UNCHANGED << kind, clock, ch, stamp, received, restarts >> => ChannelInv'
BY DEF ChannelInv, ClockInv, clock

LEMMA TailSame == TailTypes /\ UNCHANGED tailState => TailTypes'
BY DEF TailTypes, tailState

LEMMA RecentFinite ==
    ASSUME NEW S \in SUBSET Items, NEW T \in SUBSET S
    PROVE  IsFiniteSet(S) /\ Cardinality(S) \in Nat /\ Cardinality(T) \in Nat
           /\ Cardinality(T) <= Cardinality(S) /\ Cardinality(S) <= Cardinality(Items)
<1>1. IsFiniteSet(S) /\ Cardinality(S) <= Cardinality(Items)
  BY Constants, FS_Subset
<1>2. IsFiniteSet(T) /\ Cardinality(T) <= Cardinality(S)
  BY <1>1, FS_Subset
<1> QED BY <1>1, <1>2, FS_CardinalityType

(* What has occurred stays so.                                             *)
Remembers == Recent \subseteq Recent' /\ Recent' \subseteq Items

LEMMA SameStamps == UNCHANGED stamp => Remembers
BY DEF Remembers, Recent

LEMMA Occurs ==
    ASSUME ChannelInv, NEW k \in Items, NEW t \in Nat, stamp' = [stamp EXCEPT ![k] = t]
    PROVE  Remembers
BY DEF ChannelInv, Remembers, Recent, Never

LEMMA PollSame == ChannelInv /\ PollTypes /\ Remembers /\ UNCHANGED pollState => PollTypes'
<1> SUFFICES ASSUME ChannelInv, PollTypes, Remembers, UNCHANGED pollState PROVE PollTypes'
  OBVIOUS
<1>1. Cardinality(Recent) <= Cardinality(Recent') /\ Cardinality(Recent) \in Nat /\ Cardinality(Recent') \in Nat
  BY RecentFinite DEF Remembers
<1> QED BY <1>1 DEF PollTypes, pollState, Remembers

LEMMA SendTypes ==
    ASSUME ChannelInv, NEW k \in Items \cup {Wrong}, Send(k)
    PROVE  ch' \in Seq(Items \cup {Wrong}) /\ Len(ch') <= Cap
BY Constants, AppendProperties DEF ChannelInv, Send

LEMMA SharedTypes ==
    ASSUME TypeInv, Ticker \/ Advance \/ Receive, UNCHANGED << kind, tailState, pollState >>
    PROVE  TypeInv'
<1> USE Constants
<1>1. TailTypes'
  BY TailSame DEF TypeInv
<1>2. UNCHANGED stamp
  BY DEF Ticker, Advance, Receive, history
<1>3. PollTypes'
  BY <1>2, SameStamps, PollSame DEF TypeInv
<1>4. ASSUME Ticker PROVE ChannelInv'
  BY <1>4 DEF Ticker, TypeInv, ChannelInv, ClockInv, history, Never
<1>5. ASSUME Advance PROVE ChannelInv'
  BY <1>5 DEF Advance, TypeInv, ChannelInv, ClockInv, history, Never
<1>6. ASSUME Receive PROVE ChannelInv'
  <2>1. ch' \in Seq(Items \cup {Wrong}) /\ Len(ch') <= Cap
    BY <1>6, HeadTailProperties DEF Receive, TypeInv, ChannelInv
  <2>2. received' \in [Items -> 0..MaxCount]
    BY <1>6 DEF Receive, TypeInv, ChannelInv
  <2> QED BY <1>6, <2>1, <2>2 DEF Receive, TypeInv, ChannelInv, ClockInv, clock
<1>7. ChannelInv'
  BY <1>4, <1>5, <1>6
<1> QED BY <1>1, <1>3, <1>7 DEF TypeInv

(* What Scan cuts off the buffer, and what it leaves.                      *)
LEMMA LeastNumber ==
    ASSUME NEW T \in SUBSET Nat, T # {}
    PROVE  \E n \in T : \A m \in T : n <= m
<1>1. PICK n \in T : \A m \in T : << m, n >> \notin OpToRel(<, Nat)
  BY WFMin, NatLessThanWellFounded, Zenon
<1>2. n \in Nat
  OBVIOUS
<1>3. ASSUME NEW m \in T PROVE ~ (m < n)
  <2>1. << m, n >> \in Nat \X Nat
    OBVIOUS
  <2>2. m < n => << m, n >> \in OpToRel(<, Nat)
    BY <2>1, Zenon DEF OpToRel
  <2> QED BY <1>1, <2>2
<1> QED BY <1>2, <1>3

LEMMA FirstNewline ==
    ASSUME NEW buf \in Seq(Byte), HasLine(buf)
    PROVE  LET n == Newline(buf) IN n \in 1..Len(buf) /\ buf[n] = NL /\ \A j \in 1..(n - 1) : buf[j] # NL
<1> DEFINE T == {i \in 1..Len(buf) : buf[i] = NL}
<1>1. T \in SUBSET Nat /\ T # {}
  BY DEF HasLine
<1>2. PICK n \in T : \A m \in T : n <= m
  BY <1>1, LeastNumber
<1>3. n \in 1..Len(buf) /\ buf[n] = NL /\ \A j \in 1..(n - 1) : buf[j] # NL
  BY <1>2
<1> QED BY <1>3, Zenon DEF Newline

Cuts(buf, token, rest) ==
    LET n == Len(token) IN
    /\ token \in Seq(Byte) /\ rest \in Seq(Byte) /\ n \in 0..Len(buf)
    /\ \A j \in 1..n : token[j] = buf[j] /\ buf[j] # NL
    /\ IF HasLine(buf)
       THEN /\ n + 1 <= Len(buf) /\ buf[n + 1] = NL
            /\ Len(rest) = Len(buf) - (n + 1)
            /\ \A j \in 1..Len(rest) : rest[j] = buf[(n + 1) + j]
       ELSE token = buf /\ rest = << >>

LEMMA TokenCut ==
    ASSUME TailTypes
    PROVE  Cuts(scan.buf, Token, Rest)
<1> DEFINE buf == scan.buf
<1>1. buf \in Seq(Byte) /\ Len(buf) \in Nat
  BY DEF TailTypes
<1>2. CASE ~ HasLine(buf)
  <2>1. Token = buf /\ Rest = << >> /\ << >> \in Seq(Byte)
    BY <1>2 DEF Token, Rest
  <2>2. \A j \in 1..Len(buf) : buf[j] # NL
    BY <1>2 DEF HasLine
  <2> HIDE DEF buf
  <2> QED BY <1>1, <1>2, <2>1, <2>2 DEF Cuts, buf
<1>3. CASE HasLine(buf)
  <2> DEFINE n == Newline(buf)
  <2>1. n \in 1..Len(buf) /\ buf[n] = NL /\ \A j \in 1..(n - 1) : buf[j] # NL
    BY <1>1, <1>3, FirstNewline
  <2>2. Token = SubSeq(buf, 1, n - 1) /\ Rest = SubSeq(buf, n + 1, Len(buf))
    BY <1>3 DEF Token, Rest
  <2> HIDE DEF n, buf
  <2>3. \A i \in 1..Len(buf) : buf[i] \in Byte
    BY <1>1
  <2>4. /\ Token \in Seq(Byte) /\ Len(Token) = n - 1
        /\ \A i \in 1..(n - 1) : Token[i] = buf[i]
    <3>1. \A i \in 1..(n - 1) : buf[i] \in Byte
      BY <1>1, <2>1, <2>3
    <3>2. /\ SubSeq(buf, 1, n - 1) \in Seq(Byte)
          /\ Len(SubSeq(buf, 1, n - 1)) = IF 1 <= n - 1 THEN (n - 1) - 1 + 1 ELSE 0
          /\ \A i \in 1..((n - 1) - 1 + 1) : SubSeq(buf, 1, n - 1)[i] = buf[1 + i - 1]
      BY <1>1, <2>1, <3>1, SubSeqProperties
    <3> QED BY <1>1, <2>1, <2>2, <3>2
  <2>5. /\ Rest \in Seq(Byte) /\ Len(Rest) = Len(buf) - n
        /\ \A i \in 1..(Len(buf) - n) : Rest[i] = buf[n + i]
    <3>1. \A i \in (n + 1)..Len(buf) : buf[i] \in Byte
      BY <1>1, <2>1, <2>3
    <3>2. /\ SubSeq(buf, n + 1, Len(buf)) \in Seq(Byte)
          /\ Len(SubSeq(buf, n + 1, Len(buf))) = IF n + 1 <= Len(buf) THEN Len(buf) - (n + 1) + 1 ELSE 0
          /\ \A i \in 1..(Len(buf) - (n + 1) + 1) : SubSeq(buf, n + 1, Len(buf))[i] = buf[(n + 1) + i - 1]
      BY <1>1, <2>1, <3>1, SubSeqProperties
    <3>3. ASSUME NEW i \in 1..(Len(buf) - n) PROVE Rest[i] = buf[n + i]
      <4>1. i \in 1..(Len(buf) - (n + 1) + 1) /\ (n + 1) + i - 1 = n + i
        BY <1>1, <2>1
      <4> QED BY <2>2, <3>2, <4>1
    <3> QED BY <1>1, <2>1, <2>2, <3>2, <3>3
  <2>6. (n - 1) + 1 = n
    BY <2>1
  <2> QED BY <1>1, <1>3, <2>1, <2>4, <2>5, <2>6 DEF Cuts, buf
<1> QED BY <1>2, <1>3

(* What the scanner has not read of the open file.                         *)
LEMMA UnreadBytes ==
    ASSUME TailTypes, scan # Closed
    PROVE  LET c == inodes[scan.file] IN
           /\ c \in Seq(Byte) /\ Unread \in Seq(Byte)
           /\ Len(Unread) = IF scan.at < Len(c) THEN Len(c) - scan.at ELSE 0
           /\ \A i \in 1..Len(Unread) : Unread[i] = c[scan.at + i]
<1> DEFINE c == inodes[scan.file]
<1>1. scan.file \in 1..MaxFiles /\ scan.at \in Nat
  BY Constants DEF TailTypes
<1>2. c \in Seq(Byte) /\ Len(c) \in Nat
  BY <1>1 DEF TailTypes
<1>3. Unread = SubSeq(c, scan.at + 1, Len(c))
  BY DEF Unread
<1> HIDE DEF c
<1>4. \A i \in (scan.at + 1)..Len(c) : c[i] \in Byte
  BY <1>1, <1>2
<1>5. /\ SubSeq(c, scan.at + 1, Len(c)) \in Seq(Byte)
      /\ Len(SubSeq(c, scan.at + 1, Len(c))) = IF scan.at + 1 <= Len(c) THEN Len(c) - (scan.at + 1) + 1 ELSE 0
      /\ \A i \in 1..(Len(c) - (scan.at + 1) + 1) : SubSeq(c, scan.at + 1, Len(c))[i] = c[(scan.at + 1) + i - 1]
  BY <1>1, <1>2, <1>4, SubSeqProperties
<1>6. Len(Unread) = IF scan.at < Len(c) THEN Len(c) - scan.at ELSE 0
  BY <1>1, <1>2, <1>3, <1>5
<1>7. ASSUME NEW i \in 1..Len(Unread) PROVE Unread[i] = c[scan.at + i]
  <2>1. i \in 1..(Len(c) - (scan.at + 1) + 1) /\ (scan.at + 1) + i - 1 = scan.at + i
    BY <1>1, <1>2, <1>6
  <2> QED BY <1>3, <1>5, <2>1
<1> QED BY <1>2, <1>3, <1>5, <1>6, <1>7 DEF c

(* The log: a write, a rotation or a truncation.                           *)
Logs == \/ \E k \in Items : WriteLine(k) \/ WriteHalf(k)
        \/ \E i \in 1..MaxFiles : WriteRest(i)
        \/ Rotate \/ Truncate

LEMMA LineBytes ==
    ASSUME NEW k \in Items
    PROVE  /\ Line(k) \in Seq(Byte) /\ Len(Line(k)) = 3
           /\ Line(k)[1] = << k, 1 >> /\ Line(k)[2] = << k, 2 >> /\ Line(k)[3] = NL
           /\ << << k, 2 >>, NL >> \in Seq(Byte) /\ Len(<< << k, 2 >>, NL >>) = 2
           /\ << k, 1 >> \in Byte
<1>1. << k, 1 >> \in Byte /\ << k, 2 >> \in Byte /\ NL \in Byte
  BY DEF Byte
<1> QED BY <1>1 DEF Line

(* The file i of which b is the new content.                               *)
Grows(i, b) ==
    /\ inodes' = [inodes EXCEPT ![i] = b]
    /\ UNCHANGED << plain, path, pos, scan, truncations, astray >>

(* The half of a line at the end of a file is that of an item.             *)
LEMMA LastHalf ==
    ASSUME TailTypes, NEW i \in 1..MaxFiles, HalfWritten(i)
    PROVE  /\ Len(inodes[i]) \in Nat \ {0}
           /\ inodes[i][Len(inodes[i])][1] \in Items
           /\ inodes[i][Len(inodes[i])] = << inodes[i][Len(inodes[i])][1], 1 >>
<1>1. inodes[i] \in Seq(Byte) /\ inodes[i] # << >> /\ inodes[i][Len(inodes[i])][2] = 1
  BY DEF TailTypes, HalfWritten
<1> DEFINE b == inodes[i][Len(inodes[i])]
<1>2. Len(inodes[i]) \in Nat \ {0} /\ b \in Byte
  BY <1>1
<1>3. b \in Items \X {1, 2}
  BY <1>1, <1>2 DEF Byte, NL
<1> QED BY <1>1, <1>2, <1>3

LEMMA GrowsTypes ==
    ASSUME TailTypes, NEW i \in 1..MaxFiles, NEW b \in Seq(Byte), Grows(i, b)
    PROVE  TailTypes'
BY DEF TailTypes, Grows

LEMMA WriteEffects ==
    ASSUME TypeInv
    PROVE  /\ \A k \in Items : WriteLine(k) => Grows(path, Content \o Line(k)) /\ Content \o Line(k) \in Seq(Byte)
           /\ \A k \in Items : WriteHalf(k) => Grows(path, Append(Content, << k, 1 >>))
                                               /\ Append(Content, << k, 1 >>) \in Seq(Byte)
           /\ \A i \in 1..MaxFiles : WriteRest(i) =>
                 LET k == inodes[i][Len(inodes[i])][1] IN
                 /\ Grows(i, inodes[i] \o << << k, 2 >>, NL >>)
                 /\ inodes[i] \o << << k, 2 >>, NL >> \in Seq(Byte)
<1>1. path \in 1..MaxFiles /\ \A i \in 1..MaxFiles : inodes[i] \in Seq(Byte)
  BY DEF TypeInv, TailTypes
<1>2. ASSUME NEW k \in Items, WriteLine(k)
      PROVE  Grows(path, Content \o Line(k)) /\ Content \o Line(k) \in Seq(Byte)
  BY <1>1, <1>2, LineBytes, ConcatProperties DEF WriteLine, Grows, Content
<1>3. ASSUME NEW k \in Items, WriteHalf(k)
      PROVE  Grows(path, Append(Content, << k, 1 >>)) /\ Append(Content, << k, 1 >>) \in Seq(Byte)
  BY <1>1, <1>3, LineBytes, AppendProperties DEF WriteHalf, Grows, Content
<1>4. ASSUME NEW i \in 1..MaxFiles, WriteRest(i)
      PROVE  LET k == inodes[i][Len(inodes[i])][1] IN
             /\ Grows(i, inodes[i] \o << << k, 2 >>, NL >>)
             /\ inodes[i] \o << << k, 2 >>, NL >> \in Seq(Byte)
  <2> DEFINE k == inodes[i][Len(inodes[i])][1]
  <2>1. k \in Items
    BY <1>4, LastHalf DEF WriteRest, TypeInv
  <2>2. Grows(i, inodes[i] \o << << k, 2 >>, NL >>)
    BY <1>4 DEF WriteRest, Grows
  <2> HIDE DEF k
  <2>3. inodes[i] \o << << k, 2 >>, NL >> \in Seq(Byte)
    BY <1>1, <2>1, LineBytes, ConcatProperties
  <2> QED BY <2>2, <2>3 DEF k
<1> QED BY <1>2, <1>3, <1>4, Zenon

LEMMA LogTypes ==
    ASSUME TypeInv, Logs, UNCHANGED << kind, pollState >>
    PROVE  TypeInv'
<1>1. ASSUME NEW k \in Items, WriteLine(k) \/ WriteHalf(k) PROVE TypeInv'
  <2>1. TailTypes'
    BY <1>1, WriteEffects, GrowsTypes DEF TypeInv, TailTypes
  <2>2. stamp' = [stamp EXCEPT ![k] = 0] /\ UNCHANGED << clock, ch, received, restarts >>
    BY <1>1 DEF WriteLine, WriteHalf, Occur
  <2>3. ChannelInv'
    BY <2>2 DEF TypeInv, ChannelInv, ClockInv, clock
  <2>4. Remembers
    BY <2>2, Occurs DEF TypeInv
  <2> QED BY <2>1, <2>3, <2>4, PollSame DEF TypeInv
<1>2. ASSUME NEW i \in 1..MaxFiles, WriteRest(i) PROVE TypeInv'
  <2>1. TailTypes'
    BY <1>2, WriteEffects, GrowsTypes DEF TypeInv
  <2>2. UNCHANGED << stamp, clock, ch, received, restarts >>
    BY <1>2 DEF WriteRest, history
  <2> QED BY <2>1, <2>2, ChannelSame, SameStamps, PollSame DEF TypeInv
<1>3. ASSUME Rotate PROVE TypeInv'
  <2>0. path \in Nat /\ path' = path + 1 /\ path' \in 1..MaxFiles /\ 1..path \subseteq 1..path'
    BY <1>3, Constants DEF Rotate, TypeInv, TailTypes
  <2> DEFINE T(n) == [offset : Nat, lastSize : Nat, lastFile : 1..n \cup {Never}]
  <2>a. pos \in T(path')
    <3>1. pos \in T(path)
      BY DEF TypeInv, TailTypes
    <3> QED BY <2>0, <3>1
  <2>b. pos' = pos /\ scan' = scan /\ UNCHANGED << plain, inodes, truncations, astray >>
    BY <1>3 DEF Rotate
  <2>1. TailTypes'
    BY <2>0, <2>a, <2>b DEF TypeInv, TailTypes
  <2>2. UNCHANGED << stamp, clock, ch, received, restarts >>
    BY <1>3 DEF Rotate
  <2> QED BY <2>1, <2>2, ChannelSame, SameStamps, PollSame DEF TypeInv
<1>4. ASSUME Truncate PROVE TypeInv'
  <2>1. << >> \in Seq(Byte)
    OBVIOUS
  <2>2. TailTypes'
    BY <1>4, <2>1 DEF Truncate, TypeInv, TailTypes
  <2>3. UNCHANGED << stamp, clock, ch, received, restarts >>
    BY <1>4 DEF Truncate
  <2> QED BY <2>2, <2>3, ChannelSame, SameStamps, PollSame DEF TypeInv
<1> QED BY <1>1, <1>2, <1>3, <1>4 DEF Logs

(* What the tailer may hand on.                                            *)
LEMMA ParsedItems ==
    ASSUME NEW t \in Seq(Byte), NEW k \in Parsed(t)
    PROVE  k \in Items \cup {Wrong}
<1>1. \A i \in 1..Len(t) : t[i][1] \in Items \cup {Wrong}
  <2> SUFFICES ASSUME NEW i \in 1..Len(t) PROVE t[i][1] \in Items \cup {Wrong}
    OBVIOUS
  <2>1. t[i] \in Byte
    OBVIOUS
  <2> QED BY <2>1 DEF Byte, NL, Wrong
<1>2. CASE Len(t) = 2 /\ t[1][1] = t[2][1]
  BY <1>1, <1>2 DEF Parsed
<1>3. CASE ~ (Len(t) = 2 /\ t[1][1] = t[2][1])
  BY <1>3 DEF Parsed
<1> QED BY <1>2, <1>3

LEMMA OpenTypes ==
    ASSUME TypeInv, OpenLog, UNCHANGED << kind, pollState >>
    PROVE  TypeInv'
<1>1. pos' = sync(pos) /\ path \in 1..MaxFiles /\ Content \in Seq(Byte) /\ Len(Content) \in Nat
  BY DEF OpenLog, TypeInv, TailTypes, Content
<1>2. pos' \in [offset : Nat, lastSize : Nat, lastFile : 1..path \cup {Never}] /\ pos'.lastFile = path
  BY <1>1 DEF sync, TypeInv, TailTypes
<1>3. /\ scan' = [file |-> path, at |-> pos'.offset, buf |-> << >>, eof |-> FALSE]
      /\ UNCHANGED << plain, inodes, path, truncations >> /\ astray' \in {"no", "amid"}
  BY DEF OpenLog
<1>a. scan' \in [file : 0..MaxFiles, at : Nat, buf : Seq(Byte), eof : BOOLEAN]
  <2>1. path \in 0..MaxFiles /\ pos'.offset \in Nat /\ << >> \in Seq(Byte)
    BY <1>1, <1>2, Constants
  <2> QED BY <1>3, <2>1
<1>b. /\ scan'.file = path /\ scan'.at = pos'.offset /\ scan'.buf = << >> /\ scan'.eof = FALSE
      /\ scan'.at = pos'.offset + Len(scan'.buf)
  BY <1>2, <1>3
<1>c. path # 0 /\ path # Never
  BY <1>1, Constants DEF Never
<1>4. TailTypes'
  BY <1>1, <1>2, <1>3, <1>a, <1>b, <1>c DEF TypeInv, TailTypes
<1>5. ChannelInv' /\ UNCHANGED stamp
  BY DEF OpenLog, TypeInv, ChannelInv, ClockInv, TakeTick, history, Never
<1> QED BY <1>4, <1>5, SameStamps, PollSame DEF TypeInv

LEMMA FillTypes ==
    ASSUME TypeInv, FillBuffer, UNCHANGED << kind, pollState >>
    PROVE  TypeInv'
<1>1. /\ Unread \in Seq(Byte) /\ scan.buf \in Seq(Byte) /\ scan # Closed /\ ~ scan.eof
      /\ scan' = [scan EXCEPT !.buf = @ \o Unread, !.at = @ + Len(Unread)]
      /\ UNCHANGED << plain, inodes, path, pos, truncations, astray >>
  BY UnreadBytes DEF FillBuffer, TypeInv, TailTypes
<1>2. scan.buf \o Unread \in Seq(Byte) /\ Len(scan.buf \o Unread) = Len(scan.buf) + Len(Unread)
      /\ Len(scan.buf) \in Nat /\ Len(Unread) \in Nat
  BY <1>1, ConcatProperties
<1>a. scan \in [file : 0..MaxFiles, at : Nat, buf : Seq(Byte), eof : BOOLEAN]
      /\ scan.file # 0 /\ scan.file = pos.lastFile /\ scan.file # Never
      /\ scan.at = pos.offset + Len(scan.buf) /\ pos.offset \in Nat
  BY <1>1 DEF TypeInv, TailTypes
<1>b. /\ scan'.file = scan.file /\ scan'.at = scan.at + Len(Unread) /\ scan'.buf = scan.buf \o Unread
      /\ scan'.eof = scan.eof
      /\ scan' \in [file : 0..MaxFiles, at : Nat, buf : Seq(Byte), eof : BOOLEAN]
  <2>1. PICK u : u = scan.buf \o Unread
    OBVIOUS
  <2>2. PICK n \in Nat : n = Len(Unread)
    BY <1>2
  <2>3. scan' = [scan EXCEPT !.buf = u, !.at = scan.at + n]
    BY <1>1, <2>1, <2>2
  <2>4. u \in Seq(Byte)
    BY <1>2, <2>1
  <2>5. /\ scan'.file = scan.file /\ scan'.at = scan.at + n /\ scan'.buf = u /\ scan'.eof = scan.eof
        /\ scan' \in [file : 0..MaxFiles, at : Nat, buf : Seq(Byte), eof : BOOLEAN]
    <3>1. scan \in [file : 0..MaxFiles, at : Nat, buf : Seq(Byte), eof : BOOLEAN]
      BY <1>a
    <3>2. scan'.file = scan.file /\ scan'.at = scan.at + n
      BY <2>3, <3>1
    <3>3. scan'.buf = u /\ scan'.eof = scan.eof
      BY <2>3, <3>1
    <3>4. scan.at + n \in Nat
      BY <3>1
    <3>5. scan' \in [file : 0..MaxFiles, at : Nat, buf : Seq(Byte), eof : BOOLEAN]
      BY <2>3, <2>4, <3>1, <3>4
    <3> QED BY <3>2, <3>3, <3>5
  <2> QED BY <2>1, <2>2, <2>5
<1>c. scan'.at = pos.offset + Len(scan'.buf)
  BY <1>2, <1>a, <1>b
<1>3. TailTypes'
  BY <1>1, <1>a, <1>b, <1>c DEF TypeInv, TailTypes
<1>4. UNCHANGED << stamp, clock, ch, received, restarts >>
  BY DEF FillBuffer, history
<1> QED BY <1>3, <1>4, ChannelSame, SameStamps, PollSame DEF TypeInv

LEMMA ScanTypes ==
    ASSUME TypeInv, ScanLine, UNCHANGED << kind, pollState >>
    PROVE  TypeInv'
<1>1. /\ scan # Closed /\ scan' = [scan EXCEPT !.buf = Rest, !.eof = ~ HasLine(scan.buf)]
      /\ pos' = [pos EXCEPT !.offset = @ + (Len(Token) + 1)]
      /\ UNCHANGED << plain, inodes, path, truncations >> /\ astray' \in {"no", "amid", "cut"}
      /\ HasLine(scan.buf) \/ scan.buf # << >>
  BY DEF ScanLine, LineLength
<1>2. Cuts(scan.buf, Token, Rest) /\ Len(Token) \in Nat /\ Len(scan.buf) \in Nat
  BY TokenCut DEF TypeInv, TailTypes, Cuts
<1>3. ~ scan.eof
  BY <1>1, <1>2 DEF TypeInv, TailTypes, Cuts
<1>4. scan.at = pos.offset + Len(scan.buf)
  BY <1>1, <1>3 DEF TypeInv, TailTypes
<1>5. scan' # Closed /\ scan'.file = scan.file /\ scan'.at = scan.at /\ scan'.buf = Rest
      /\ scan'.eof = ~ HasLine(scan.buf)
  BY <1>1 DEF TypeInv, TailTypes, Closed
<1>6. pos'.offset = pos.offset + (Len(Token) + 1) /\ pos'.offset \in Nat
      /\ pos'.lastFile = pos.lastFile /\ pos'.lastSize = pos.lastSize
  BY <1>1, <1>2 DEF TypeInv, TailTypes
<1>a. pos.offset \in Nat
  BY DEF TypeInv, TailTypes
<1>7. IF HasLine(scan.buf) THEN scan'.at = pos'.offset + Len(Rest) ELSE Rest = << >> /\ pos'.offset >= scan'.at
  <2>1. CASE HasLine(scan.buf)
    BY <1>2, <1>4, <1>5, <1>6, <1>a, <2>1 DEF Cuts
  <2>2. CASE ~ HasLine(scan.buf)
    <3>1. Token = scan.buf /\ Rest = << >>
      BY <1>2, <2>2 DEF Cuts
    <3> QED BY <1>2, <1>4, <1>5, <1>6, <1>a, <2>2, <3>1
  <2> QED BY <2>1, <2>2
<1>8. Rest \in Seq(Byte) /\ HasLine(scan.buf) \in BOOLEAN
  BY <1>2 DEF Cuts, HasLine
<1>9. TailTypes'
  BY <1>1, <1>5, <1>6, <1>7, <1>8 DEF TypeInv, TailTypes
<1>10. ch' \in Seq(Items \cup {Wrong}) /\ Len(ch') <= Cap
  <2>1. CASE Parsed(Token) = {}
    BY <2>1 DEF ScanLine, TypeInv, ChannelInv
  <2>2. CASE Parsed(Token) # {}
    <3>1. PICK k \in Parsed(Token) : Send(k)
      BY <2>2 DEF ScanLine
    <3>2. k \in Items \cup {Wrong}
      BY <1>2, ParsedItems DEF Cuts
    <3> QED BY <3>1, <3>2, SendTypes DEF TypeInv
  <2> QED BY <2>1, <2>2
<1>11. UNCHANGED << stamp, clock, received, restarts >>
  BY DEF ScanLine
<1>12. ChannelInv'
  BY <1>10, <1>11 DEF TypeInv, ChannelInv, ClockInv, clock
<1> QED BY <1>9, <1>11, <1>12, SameStamps, PollSame DEF TypeInv

LEMMA CloseTypes ==
    ASSUME TypeInv, CloseLog, UNCHANGED << kind, pollState >>
    PROVE  TypeInv'
<1>1. << >> \in Seq(Byte)
  OBVIOUS
<1>2. TailTypes'
  BY <1>1, Constants DEF CloseLog, TypeInv, TailTypes, Closed
<1>3. UNCHANGED << stamp, clock, ch, received, restarts >>
  BY DEF CloseLog, history
<1> QED BY <1>2, <1>3, ChannelSame, SameStamps, PollSame DEF TypeInv

(* The pollers.                                                            *)
LEMMA TickTaken ==
    ChannelInv /\ TakeTick /\ UNCHANGED << kind, ch, stamp, received, restarts >> => ChannelInv'
BY DEF ChannelInv, ClockInv, TakeTick, Never

LEMMA SameRecent == UNCHANGED stamp => Recent' = Recent
BY DEF Recent

LEMMA PolledTypes ==
    ASSUME TypeInv, NEW k \in Items, Log(k) \/ Ban(k) \/ Unban(k), UNCHANGED << kind, tailState >>
    PROVE  TypeInv'
<1>1. TailTypes'
  BY TailSame DEF TypeInv
<1>2. UNCHANGED << clock, ch, received, restarts >>
  BY DEF Log, Ban, Unban, history
<1>3. now \in Nat
  BY Constants DEF TypeInv, ChannelInv, ClockInv
<1>4. CASE Log(k)
  <2>1. stamp' = [stamp EXCEPT ![k] = now] /\ UNCHANGED pollState
    BY <1>4 DEF Log, Occur
  <2>2. ChannelInv'
    BY <1>2, <1>3, <2>1 DEF TypeInv, ChannelInv, ClockInv, clock
  <2> QED BY <1>1, <1>3, <2>1, <2>2, Occurs, PollSame DEF TypeInv
<1>5. CASE Ban(k)
  <2>1. /\ stamp' = [stamp EXCEPT ![k] = 0] /\ banned' = banned \cup {k}
        /\ UNCHANGED << poller, stage, todo, seen, current, since, mark, asked, span, startup, cursor, appeared, lag >>
    BY <1>5 DEF Ban
  <2>2. ChannelInv'
    BY <1>2, <1>3, <2>1 DEF TypeInv, ChannelInv, ClockInv, clock
  <2>3. Remembers /\ k \in Recent'
    <3>1. Remembers
      BY <2>1, Occurs DEF TypeInv
    <3>2. stamp'[k] = 0
      BY <2>1 DEF TypeInv, ChannelInv
    <3> QED BY <3>1, <3>2 DEF Recent, Never
  <2>4. Cardinality(Recent) <= Cardinality(Recent') /\ Cardinality(Recent) \in Nat /\ Cardinality(Recent') \in Nat
    BY <2>3, RecentFinite DEF Remembers
  <2>5. banned' \subseteq Recent' /\ todo' \subseteq Recent'
    BY <2>1, <2>3 DEF TypeInv, PollTypes, Remembers
  <2>6. PollTypes'
    BY <2>1, <2>4, <2>5 DEF TypeInv, PollTypes
  <2> QED BY <1>1, <2>2, <2>6 DEF TypeInv
<1>6. CASE Unban(k)
  <2>1. /\ UNCHANGED stamp /\ banned' = banned \ {k}
        /\ UNCHANGED << poller, stage, todo, seen, current, since, mark, asked, span, startup, cursor, appeared, lag >>
    BY <1>6 DEF Unban, history
  <2>2. Recent' = Recent
    BY <2>1, SameRecent
  <2>3. PollTypes'
    BY <2>1, <2>2 DEF TypeInv, PollTypes
  <2> QED BY <1>1, <1>2, <2>1, <2>3, ChannelSame DEF TypeInv
<1> QED BY <1>4, <1>5, <1>6

LEMMA PollerTypes ==
    ASSUME TypeInv, PollStep, UNCHANGED << kind, tailState >>
    PROVE  TypeInv'
<1>1. TailTypes'
  BY TailSame DEF TypeInv
<1>2. UNCHANGED << stamp, received, restarts, poller, banned >>
  BY DEF PollStep, FetchBanned, PruneSeen, MailcowPoll, FetchLogs, LogsDone, FetchDecisions, DecisionsDone,
         AskAlerts, AnswerAlerts, DecodeAlerts, AlertsFail, AlertsDone, SendBan, SendLogged, history
<1>3. Recent' = Recent /\ Recent \subseteq Items /\ Cardinality(Recent) \in Nat
  <2>1. Recent \subseteq Items
    BY DEF Recent
  <2> QED BY <1>2, <2>1, SameRecent, RecentFinite
<1>4. /\ now \in Int /\ tick \in Int /\ Buffer \in Int
      /\ since \in Int /\ mark \in Int /\ asked \in Int /\ span \in Int /\ lag \in Int /\ MaxNow \in Int
  BY Constants DEF TypeInv, ChannelInv, ClockInv, PollTypes, Never
<1>5. \A t \in Int : Format(t) \in Int
  BY FormatBounds
<1>6. CASE FetchBanned
  <2>1. PollTypes'
    BY <1>2, <1>3, <1>6 DEF FetchBanned, TypeInv, PollTypes, Stages
  <2>2. TakeTick /\ UNCHANGED ch
    BY <1>6 DEF FetchBanned
  <2> QED BY <1>1, <1>2, <2>1, <2>2, TickTaken DEF TypeInv
<1>7. CASE PruneSeen
  <2>1. PollTypes'
    BY <1>2, <1>3, <1>7 DEF PruneSeen, Pruned, TypeInv, PollTypes, Stages
  <2>2. UNCHANGED << clock, ch >>
    BY <1>7 DEF PruneSeen
  <2> QED BY <1>1, <1>2, <2>1, <2>2, ChannelSame DEF TypeInv
<1>8. CASE MailcowPoll
  <2>1. PollTypes'
    BY <1>2, <1>3, <1>4, <1>5, <1>8 DEF MailcowPoll, TypeInv, PollTypes, Stages
  <2>2. TakeTick /\ UNCHANGED ch
    BY <1>8 DEF MailcowPoll
  <2> QED BY <1>1, <1>2, <2>1, <2>2, TickTaken DEF TypeInv
<1>9. CASE FetchLogs
  <2>1. todo' \subseteq Recent
    BY <1>9 DEF FetchLogs, Yielded, TypeInv, PollTypes
  <2>2. PollTypes'
    BY <1>2, <1>3, <1>9, <2>1 DEF FetchLogs, TypeInv, PollTypes, Stages
  <2>3. UNCHANGED << clock, ch >>
    BY <1>9 DEF FetchLogs
  <2> QED BY <1>1, <1>2, <2>2, <2>3, ChannelSame DEF TypeInv
<1>10. CASE LogsDone
  <2>1. PollTypes'
    BY <1>2, <1>3, <1>4, <1>10 DEF LogsDone, NextSince, TypeInv, PollTypes, Stages
  <2>2. UNCHANGED << clock, ch >>
    BY <1>10 DEF LogsDone
  <2> QED BY <1>1, <1>2, <2>1, <2>2, ChannelSame DEF TypeInv
<1>11. CASE FetchDecisions
  <2>1. todo' \subseteq Recent /\ stage' \in Stages
    BY <1>11 DEF FetchDecisions, TypeInv, PollTypes, Stages
  <2>2. cursor' \in 0..Cardinality(Recent)
    <3>1. cursor' = cursor \/ cursor' = Cardinality(Recent)
      BY <1>11 DEF FetchDecisions
    <3> QED BY <1>3, <3>1 DEF TypeInv, PollTypes
  <2>3. startup' \in BOOLEAN
    BY <1>11 DEF FetchDecisions, StartupAfter
  <2>4. TakeTick /\ UNCHANGED << ch, seen, current, since, mark, asked, span, appeared, lag >>
    BY <1>11 DEF FetchDecisions
  <2>5. PollTypes'
    BY <1>2, <1>3, <2>1, <2>2, <2>3, <2>4 DEF TypeInv, PollTypes
  <2> QED BY <1>1, <1>2, <2>4, <2>5, TickTaken DEF TypeInv
<1>12. CASE DecisionsDone
  <2>1. PollTypes'
    BY <1>2, <1>3, <1>12 DEF DecisionsDone, TypeInv, PollTypes, Stages
  <2>2. UNCHANGED << clock, ch >>
    BY <1>12 DEF DecisionsDone
  <2> QED BY <1>1, <1>2, <2>1, <2>2, ChannelSame DEF TypeInv
<1>13. CASE AskAlerts
  <2>1. FirstSpan \in Int /\ Format(SinceSpan) \in Int
    BY <1>4, <1>5 DEF FirstSpan, SinceSpan
  <2>2. PollTypes'
    BY <1>2, <1>3, <1>4, <1>13, <2>1 DEF AskAlerts, TypeInv, PollTypes, Stages
  <2>3. TakeTick /\ UNCHANGED ch
    BY <1>13 DEF AskAlerts
  <2> QED BY <1>1, <1>2, <2>2, <2>3, TickTaken DEF TypeInv
<1>14. CASE AnswerAlerts
  <2>1. todo' \subseteq Recent
    BY <1>14 DEF AnswerAlerts, Newest
  <2>2. /\ stage' = "answered" /\ mark' = now
        /\ UNCHANGED << seen, current, since, asked, span, startup, cursor, appeared, lag >>
    BY <1>14 DEF AnswerAlerts
  <2>3. PollTypes'
    BY <1>2, <1>3, <1>4, <2>1, <2>2 DEF TypeInv, PollTypes, Stages
  <2>4. UNCHANGED << clock, ch >>
    BY <1>14 DEF AnswerAlerts
  <2> QED BY <1>1, <1>2, <2>3, <2>4, ChannelSame DEF TypeInv
<1>15. CASE DecodeAlerts
  <2>1. PollTypes'
    BY <1>2, <1>3, <1>4, <1>15 DEF DecodeAlerts, TypeInv, PollTypes, Stages
  <2>2. UNCHANGED << clock, ch >>
    BY <1>15 DEF DecodeAlerts
  <2> QED BY <1>1, <1>2, <2>1, <2>2, ChannelSame DEF TypeInv
<1>16. CASE AlertsFail
  <2>1. PollTypes'
    BY <1>2, <1>3, <1>16 DEF AlertsFail, TypeInv, PollTypes, Stages
  <2>2. UNCHANGED << clock, ch >>
    BY <1>16 DEF AlertsFail
  <2> QED BY <1>1, <1>2, <2>1, <2>2, ChannelSame DEF TypeInv
<1>17. CASE AlertsDone
  <2>1. PollTypes'
    BY <1>2, <1>3, <1>4, <1>17 DEF AlertsDone, NextSince, TypeInv, PollTypes, Stages
  <2>2. UNCHANGED << clock, ch >>
    BY <1>17 DEF AlertsDone
  <2> QED BY <1>1, <1>2, <2>1, <2>2, ChannelSame DEF TypeInv
<1>18. ASSUME NEW k \in Items, SendBan(k) \/ SendLogged(k) PROVE TypeInv'
  <2>1. /\ Send(k) /\ todo' = todo \ {k} /\ seen' \in {seen, seen \cup {k}} /\ UNCHANGED clock
        /\ UNCHANGED << stage, current, since, mark, asked, span, startup, cursor, appeared, lag >>
    BY <1>18 DEF SendBan, SendLogged, SendNext, Marked
  <2>2. ch' \in Seq(Items \cup {Wrong}) /\ Len(ch') <= Cap
    BY <2>1, SendTypes DEF TypeInv
  <2>3. ChannelInv'
    BY <1>2, <2>1, <2>2 DEF TypeInv, ChannelInv, ClockInv, clock
  <2>4. PollTypes'
    BY <1>2, <1>3, <2>1 DEF TypeInv, PollTypes
  <2> QED BY <1>1, <2>3, <2>4 DEF TypeInv
<1> QED BY <1>6, <1>7, <1>8, <1>9, <1>10, <1>11, <1>12, <1>13, <1>14, <1>15, <1>16, <1>17, <1>18 DEF PollStep

LEMMA RestartTypes ==
    ASSUME TypeInv, Restart
    PROVE  TypeInv'
<1>1. ch' = << >> /\ ChannelInv'
  BY Constants DEF Restart, TypeInv, ChannelInv, ClockInv, Never
<1>2. StartPos \in [offset : Nat, lastSize : Nat, lastFile : 1..path \cup {Never}]
      /\ Closed \in [file : 0..MaxFiles, at : Nat, buf : Seq(Byte), eof : BOOLEAN]
  BY Constants DEF StartPos, Closed, TypeInv, TailTypes
<1>3. TailTypes'
  <2>1. pos' = StartPos /\ scan' = Closed /\ astray' = "no" /\ UNCHANGED << plain, inodes, path, truncations >>
    BY DEF Restart, TailRestart
  <2> QED BY <1>2, <2>1 DEF TypeInv, TailTypes
<1>4. UNCHANGED stamp /\ Recent' = Recent
  BY SameRecent DEF Restart
<1>5. since' \in Int
  <2>1. (IF poller = "mailcow" THEN now ELSE 0) - Interval \in Int
    BY Constants DEF TypeInv, ChannelInv, ClockInv
  <2> QED BY <2>1, FormatBounds DEF Restart, PollRestart
<1>6. PollTypes'
  BY <1>4, <1>5 DEF Restart, PollRestart, TypeInv, PollTypes, Stages, Never
<1> QED BY <1>1, <1>3, <1>6 DEF TypeInv

(* The tailer and the log take a step, or the poller and what it polls.    *)
LEMMA Steps ==
    ASSUME Next
    PROVE  \/ kind = "tail" /\ UNCHANGED << kind, pollState >> /\ (Logs \/ TailStep)
           \/ kind = "poll" /\ UNCHANGED << kind, tailState >>
                /\ (PollStep \/ \E k \in Items : Log(k) \/ Ban(k) \/ Unban(k))
           \/ (Ticker \/ Advance \/ Receive) /\ UNCHANGED << kind, tailState, pollState >>
           \/ Restart
BY DEF Next, TailNext, PollNext, Logs

LEMMA NextTypes == TypeInv /\ [Next]_vars => TypeInv'
<1> SUFFICES ASSUME TypeInv, [Next]_vars PROVE TypeInv'
  OBVIOUS
<1>1. CASE UNCHANGED vars
  <2>1. UNCHANGED << kind, clock, ch, stamp, received, restarts, tailState, pollState >>
    BY <1>1 DEF vars, clock, history
  <2> QED BY <2>1, ChannelSame, TailSame, SameStamps, PollSame DEF TypeInv
<1>2. CASE Next
  BY <1>2, Steps, LogTypes, OpenTypes, FillTypes, ScanTypes, CloseTypes, PolledTypes, PollerTypes,
     SharedTypes, RestartTypes DEF TailStep
<1> QED BY <1>1, <1>2

LEMMA TypesInvariant == Spec => []TypeInv
BY InitTypes, NextTypes, PTL DEF Spec

(* Whatever blocks, the channel keeps within its capacity and every        *)
(* variable its type; the decisions stream's cursor never runs ahead of    *)
(* what LAPI has, and a poller has fetched only what has occurred.         *)
THEOREM IngestTypes == Spec => []TypeOK
<1>1. TypeInv => TypeOK
  <2> SUFFICES ASSUME TypeInv PROVE TypeOK
    OBVIOUS
  <2>1. Recent \subseteq Items
    BY DEF Recent
  <2>2. Cardinality(Recent) \in Nat /\ Cardinality(Recent) <= Cardinality(Items)
    BY <2>1, RecentFinite
  <2>3. cursor \in 0..Cardinality(Items)
    BY <2>2, Constants DEF TypeInv, PollTypes
  <2>4. pos.offset \in Nat /\ scan.at \in Nat
    BY DEF TypeInv, TailTypes
  <2>5. stamp \in [Items -> 0..MaxNow \cup {Never}]
    <3>1. stamp \in [Items -> 0..now \cup {Never}] /\ 0..now \subseteq 0..MaxNow
      BY Constants DEF TypeInv, ChannelInv, ClockInv
    <3> QED BY <3>1
  <2> QED BY <2>1, <2>3, <2>4, <2>5 DEF TypeOK, TypeInv, ChannelInv, PollTypes, Stages
<1> QED BY <1>1, TypesInvariant, PTL

(***************************************************************************)
(* What is in the files and in the buffer.                                 *)
(***************************************************************************)

(* A log is made of lines, the last of which may be half written.          *)
Lined(c) ==
    /\ Len(c) % 3 # 2
    /\ \A p \in 1..Len(c) :
         /\ p % 3 = 0 => c[p] = NL
         /\ p % 3 = 1 => c[p] \in Items \X {1}
         /\ p % 3 = 2 => c[p] = << c[p - 1][1], 2 >>

Bytes == Items \X {1, 2}
In(b, i, p) == p \in 1..Len(inodes[i]) /\ inodes[i][p] = b
Buffered(b, j) == j \in 1..Len(scan.buf) /\ scan.buf[j] = b

(* A byte is in one place of one file, in one place of the buffer, and if  *)
(* in both, the one is where the other was read.                           *)
OncePlaced(b) ==
    /\ \A i, j \in 1..MaxFiles, p, q \in Nat : In(b, i, p) /\ In(b, j, q) => i = j /\ p = q
    /\ \A i, j \in Nat : Buffered(b, i) /\ Buffered(b, j) => i = j
    /\ \A i \in 1..MaxFiles, j, p \in Nat : In(b, i, p) /\ Buffered(b, j) =>
          i = scan.file /\ p = (scan.at - Len(scan.buf)) + j

(* The second half of k's line is still to be written.                     *)
Awaited(k) == \E i \in 1..MaxFiles : inodes[i] # << >> /\ inodes[i][Len(inodes[i])] = << k, 1 >>

LogInv ==
    /\ \A i \in 1..MaxFiles : Lined(inodes[i])
    /\ \A b \in Bytes : OncePlaced(b)
    /\ \A b \in Bytes, i \in 1..MaxFiles, p \in Nat : In(b, i, p) => stamp[b[1]] # Never
    /\ \A b \in Bytes, j \in Nat : Buffered(b, j) => stamp[b[1]] # Never
    /\ \A k \in Items, j \in Nat : Buffered(<< k, 2 >>, j) => ~ Awaited(k)

LEMMA LinedEmpty == Lined(<< >>)
<1>1. Len(<< >>) = 0 /\ 1..0 = {}
  OBVIOUS
<1>2. 0 % 3 # 2
  OBVIOUS
<1>3. Len(<< >>) % 3 # 2
  BY <1>1, <1>2, Zenon
<1>4. 1..Len(<< >>) = {}
  BY <1>1
<1> QED BY <1>3, <1>4, Zenon DEF Lined

LEMMA InitLog == Init => LogInv
<1> SUFFICES ASSUME Init PROVE LogInv
  OBVIOUS
<1>1. \A i \in 1..MaxFiles : inodes[i] = << >>
  BY DEF Init, TailInit
<1>2. scan.buf = << >>
  BY DEF Init, TailInit, Closed
<1>3. \A b, i, p : i \in 1..MaxFiles => ~ In(b, i, p)
  BY <1>1 DEF In
<1>4. \A b, j : ~ Buffered(b, j)
  BY <1>2 DEF Buffered
<1>5. \A i \in 1..MaxFiles : Lined(inodes[i])
  BY <1>1, LinedEmpty, Zenon
<1> QED BY <1>3, <1>4, <1>5, Zenon DEF LogInv, OncePlaced

(* The scanner's buffer, seen as a place of its own.                       *)
LEMMA LogSame ==
    ASSUME LogInv, Remembers, UNCHANGED << inodes, scan >>
    PROVE  LogInv'
<1>1. \A k \in Items : stamp[k] # Never => stamp'[k] # Never
  BY DEF Remembers, Recent
<1>2. \A b \in Bytes : b[1] \in Items
  BY DEF Bytes
<1>3. /\ \A b, i, p : In(b, i, p)' <=> In(b, i, p)
      /\ \A b, j : Buffered(b, j)' <=> Buffered(b, j)
      /\ \A k : Awaited(k)' <=> Awaited(k)
  BY DEF In, Buffered, Awaited
<1>4. \A b \in Bytes : OncePlaced(b)'
  BY DEF LogInv, OncePlaced, In, Buffered
<1> QED BY <1>1, <1>2, <1>3, <1>4 DEF LogInv

(* A file whose last line is whole ends where a line begins; otherwise the *)
(* first half is its last byte.                                            *)
LEMMA Ends ==
    ASSUME TypeInv, LogInv, NEW i \in 1..MaxFiles
    PROVE  /\ Lined(inodes[i]) /\ inodes[i] \in Seq(Byte) /\ Len(inodes[i]) \in Nat
           /\ ~ HalfWritten(i) => Len(inodes[i]) % 3 = 0
           /\ HalfWritten(i) => Len(inodes[i]) % 3 = 1
<1> DEFINE c == inodes[i]
           n == Len(c)
<1>1. Lined(c) /\ c \in Seq(Byte) /\ n \in Nat
  BY DEF TypeInv, TailTypes, LogInv
<1>2. n % 3 \in {0, 1}
  <2>1. n % 3 # 2
    BY <1>1, Zenon DEF Lined
  <2>2. PICK m \in Nat : m = n
    BY <1>1
  <2> HIDE DEF n
  <2>3. m % 3 \in {0, 1, 2}
    OBVIOUS
  <2> QED BY <2>1, <2>2, <2>3
<1>3. ASSUME n % 3 = 1 PROVE HalfWritten(i)
  <2>1. n \in 1..n /\ c # << >>
    <3>1. n # 0
      <4>1. 0 % 3 # 1
        OBVIOUS
      <4> HIDE DEF n
      <4> QED BY <1>3, <4>1, Zenon
    <3> QED BY <1>1, <3>1
  <2>2. c[n] \in Items \X {1}
    BY <1>1, <1>3, <2>1 DEF Lined
  <2> QED BY <2>1, <2>2 DEF HalfWritten
<1>4. ASSUME n % 3 = 0, HalfWritten(i) PROVE FALSE
  <2>1. n \in 1..n /\ c[n][2] = 1
    BY <1>1, <1>4 DEF HalfWritten
  <2>2. c[n] = NL
    BY <1>1, <1>4, <2>1 DEF Lined
  <2> QED BY <2>1, <2>2 DEF NL
<1> QED BY <1>1, <1>2, <1>3, <1>4

(* The second half of a line stands after the first, which is then not the *)
(* last byte of a file.                                                    *)
LEMMA HalvesMeet ==
    ASSUME TypeInv, LogInv, NEW k \in Items, NEW i \in 1..MaxFiles, NEW p \in Nat, In(<< k, 2 >>, i, p)
    PROVE  p - 1 \in Nat /\ In(<< k, 1 >>, i, p - 1) /\ ~ Awaited(k)
<1> DEFINE c == inodes[i]
<1>1. Lined(c) /\ c \in Seq(Byte) /\ Len(c) \in Nat /\ p \in 1..Len(c) /\ c[p] = << k, 2 >>
  BY Ends DEF In
<1>2. p % 3 = 2
  <2>1. p % 3 # 0
    BY <1>1, Constants DEF Lined, NL, Wrong
  <2>2. p % 3 # 1
    BY <1>1 DEF Lined
  <2> QED BY <1>1, <2>1, <2>2
<1>3. p - 1 \in 1..Len(c) /\ (p - 1) % 3 = 1
  BY <1>1, <1>2
<1>4. c[p] = << c[p - 1][1], 2 >> /\ c[p - 1] \in Items \X {1}
  BY <1>1, <1>2, <1>3 DEF Lined
<1>5. c[p - 1] = << k, 1 >>
  BY <1>1, <1>4
<1>6. In(<< k, 1 >>, i, p - 1)
  BY <1>3, <1>5 DEF In
<1>7. ASSUME Awaited(k) PROVE FALSE
  <2>1. PICK j \in 1..MaxFiles : inodes[j] # << >> /\ inodes[j][Len(inodes[j])] = << k, 1 >>
    BY <1>7 DEF Awaited
  <2>2. inodes[j] \in Seq(Byte) /\ Len(inodes[j]) \in 1..Len(inodes[j]) /\ Len(inodes[j]) \in Nat
    <3>1. inodes[j] \in Seq(Byte)
      BY Ends
    <3> QED BY <2>1, <3>1
  <2>3. In(<< k, 1 >>, j, Len(inodes[j]))
    BY <2>1, <2>2 DEF In
  <2>4. OncePlaced(<< k, 1 >>)
    BY DEF LogInv, Bytes
  <2>5. i = j /\ p - 1 = Len(inodes[j])
    BY <1>3, <1>6, <2>2, <2>3, <2>4 DEF OncePlaced
  <2> QED BY <1>1, <2>5
<1> QED BY <1>3, <1>6, <1>7

(* What has not occurred is nowhere.                                       *)
Absent(b) == (\A i \in 1..MaxFiles, p \in Nat : ~ In(b, i, p)) /\ (\A j \in Nat : ~ Buffered(b, j))

LEMMA NotOccurred ==
    ASSUME LogInv, NEW k \in Items, stamp[k] = Never
    PROVE  Absent(<< k, 1 >>) /\ Absent(<< k, 2 >>)
<1>1. \A n \in {1, 2} : << k, n >> \in Bytes /\ << k, n >>[1] = k
  BY DEF Bytes
<1> QED BY <1>1 DEF LogInv, Absent

(* What is appended to a file.                                             *)
LEMMA Appended ==
    ASSUME TypeInv, NEW i \in 1..MaxFiles, NEW s \in Seq(Byte), Grows(i, inodes[i] \o s)
    PROVE  /\ \A b, j, p : j \in 1..MaxFiles /\ In(b, j, p)' =>
                 In(b, j, p) \/ (j = i /\ \E q \in 1..Len(s) : s[q] = b /\ p = Len(inodes[i]) + q)
           /\ \A b, j, p : j \in 1..MaxFiles /\ In(b, j, p) => In(b, j, p)'
           /\ \A b, j : Buffered(b, j)' <=> Buffered(b, j)
           /\ \A j \in 1..MaxFiles : j # i => inodes'[j] = inodes[j]
           /\ inodes'[i] = inodes[i] \o s
<1>1. \A j \in 1..MaxFiles : inodes'[j] = IF j = i THEN inodes[i] \o s ELSE inodes[j]
  BY DEF TypeInv, TailTypes, Grows
<1>2. inodes[i] \in Seq(Byte) /\ scan' = scan
  BY DEF TypeInv, TailTypes, Grows
<1> DEFINE c == inodes[i]
           d == c \o s
<1>3. /\ Len(c) \in Nat /\ Len(s) \in Nat /\ Len(d) = Len(c) + Len(s)
      /\ \A p \in 1..Len(c) : d[p] = c[p]
      /\ \A p \in 1..Len(d) : p > Len(c) => d[p] = s[p - Len(c)]
  <2>1. Len(c) \in Nat /\ Len(s) \in Nat
    BY <1>2
  <2> QED BY <1>2, <2>1, ConcatProperties
<1>4. ASSUME NEW b, NEW j \in 1..MaxFiles, NEW p, In(b, j, p)'
      PROVE  In(b, j, p) \/ (j = i /\ \E q \in 1..Len(s) : s[q] = b /\ p = Len(c) + q)
  <2>1. p \in 1..Len(inodes'[j]) /\ inodes'[j][p] = b
    BY <1>4 DEF In
  <2>2. CASE j # i
    BY <1>1, <2>1, <2>2 DEF In
  <2>3. CASE j = i /\ p <= Len(c)
    <3>1. p \in 1..Len(d) /\ d[p] = b
      BY <1>1, <2>1, <2>3
    <3>2. p \in 1..Len(c)
      BY <1>3, <2>3, <3>1
    <3> HIDE DEF d
    <3> QED BY <1>3, <2>3, <3>1, <3>2 DEF In
  <2>4. CASE j = i /\ ~ (p <= Len(c))
    <3>1. p \in 1..Len(d) /\ d[p] = b
      BY <1>1, <2>1, <2>4
    <3> HIDE DEF d, c
    <3>2. p - Len(c) \in 1..Len(s) /\ p = Len(c) + (p - Len(c)) /\ d[p] = s[p - Len(c)]
      BY <1>3, <2>4, <3>1
    <3> QED BY <2>4, <3>1, <3>2
  <2> QED BY <2>2, <2>3, <2>4
<1>5. ASSUME NEW b, NEW j \in 1..MaxFiles, NEW p, In(b, j, p)
      PROVE  In(b, j, p)'
  <2>1. p \in 1..Len(inodes[j]) /\ inodes[j][p] = b
    BY <1>5 DEF In
  <2>2. CASE j # i
    BY <1>1, <2>1, <2>2 DEF In
  <2>3. CASE j = i
    <3>1. p \in 1..Len(d) /\ d[p] = c[p] /\ c[p] = b
      BY <1>3, <2>1, <2>3
    <3>2. inodes'[j] = d
      BY <1>1, <2>3
    <3> HIDE DEF d
    <3> QED BY <3>1, <3>2 DEF In
  <2> QED BY <2>2, <2>3
<1>6. \A b, j : Buffered(b, j)' <=> Buffered(b, j)
  BY <1>2 DEF Buffered
<1> HIDE DEF c
<1> QED BY <1>1, <1>4, <1>5, <1>6 DEF c

LEMMA WritesKeep ==
    ASSUME TypeInv, LogInv, Remembers,
           NEW i \in 1..MaxFiles, NEW s \in Seq(Byte), Grows(i, inodes[i] \o s), Lined(inodes[i] \o s),
           \A b \in Bytes, q \in 1..Len(s) : s[q] = b =>
              Absent(b) /\ stamp'[b[1]] # Never /\ \A r \in 1..Len(s) : s[r] = b => r = q,
           \A k \in Items : Awaited(k)' => Awaited(k) \/ Absent(<< k, 2 >>)
    PROVE  LogInv'
<1> DEFINE New(b, j, p) == j = i /\ \E q \in 1..Len(s) : s[q] = b /\ p = Len(inodes[i]) + q
<1>1. /\ \A b, j, p : j \in 1..MaxFiles /\ In(b, j, p)' => In(b, j, p) \/ New(b, j, p)
      /\ \A b, j : Buffered(b, j)' <=> Buffered(b, j)
      /\ \A j \in 1..MaxFiles : j # i => inodes'[j] = inodes[j]
      /\ inodes'[i] = inodes[i] \o s
  BY Appended
<1>2. \A k \in Items : stamp[k] # Never => stamp'[k] # Never
  BY DEF Remembers, Recent
<1>3. \A b \in Bytes : b[1] \in Items
  BY DEF Bytes
<1>4. \A b \in Bytes : \A j, p : New(b, j, p) => Absent(b) /\ stamp'[b[1]] # Never /\ \A r : New(b, j, r) => r = p
  OBVIOUS
<1>5. scan' = scan
  BY DEF Grows
<1>6. ASSUME NEW b \in Bytes PROVE OncePlaced(b)'
  <2>1. OncePlaced(b)
    BY DEF LogInv
  <2>2. CASE \A j \in 1..MaxFiles, p \in Nat : ~ New(b, j, p)
    <3> HIDE DEF New
    <3>1. \A j \in 1..MaxFiles, p \in Nat : In(b, j, p)' => In(b, j, p)
      BY <1>1, <2>2
    <3> QED BY <1>1, <1>5, <2>1, <3>1 DEF OncePlaced
  <2>3. CASE \E j \in 1..MaxFiles, p \in Nat : New(b, j, p)
    <3>1. Absent(b)
      BY <1>4, <2>3
    <3>2. \A j \in 1..MaxFiles, p \in Nat : In(b, j, p)' => New(b, j, p)
      <4> HIDE DEF New
      <4> QED BY <1>1, <3>1 DEF Absent
    <3>3. \A j \in Nat : ~ Buffered(b, j)'
      BY <1>1, <3>1 DEF Absent
    <3>4. \A j, l, p, q : New(b, j, p) /\ New(b, l, q) => j = l /\ p = q
      BY <1>4
    <3> HIDE DEF New
    <3> QED BY <3>2, <3>3, <3>4 DEF OncePlaced
  <2> QED BY <2>2, <2>3
<1>7. \A j \in 1..MaxFiles : Lined(inodes[j])'
  <2>1. ASSUME NEW j \in 1..MaxFiles PROVE Lined(inodes'[j])
    <3>1. CASE j = i
      BY <1>1, <3>1
    <3>2. CASE j # i
      BY <1>1, <3>2 DEF LogInv
    <3> QED BY <3>1, <3>2
  <2> QED BY <2>1
<1>8. \A b \in Bytes, j \in 1..MaxFiles, p \in Nat : In(b, j, p)' => stamp'[b[1]] # Never
  <2> HIDE DEF New
  <2> QED BY <1>1, <1>2, <1>3, <1>4 DEF LogInv
<1>9. \A b \in Bytes, j \in Nat : Buffered(b, j)' => stamp'[b[1]] # Never
  BY <1>1, <1>2, <1>3 DEF LogInv
<1>10. \A k \in Items, j \in Nat : Buffered(<< k, 2 >>, j)' => ~ Awaited(k)'
  BY <1>1 DEF LogInv, Absent
<1> HIDE DEF New
<1> QED BY <1>6, <1>7, <1>8, <1>9, <1>10 DEF LogInv

(* A log stays one when a line, or half of one, is written at its end.     *)
LEMMA LinedLonger ==
    ASSUME NEW c \in Seq(Byte), Lined(c), NEW s \in Seq(Byte), NEW k \in Items,
           \/ Len(c) % 3 = 0 /\ s = Line(k)
           \/ Len(c) % 3 = 0 /\ s = << << k, 1 >> >>
           \/ Len(c) % 3 = 1 /\ c[Len(c)] = << k, 1 >> /\ s = << << k, 2 >>, NL >>
    PROVE  Lined(c \o s)
<1> DEFINE d == c \o s
           n == Len(c)
<1>1. n \in Nat /\ Len(s) \in Nat
  OBVIOUS
<1>2. /\ Len(d) = n + Len(s)
      /\ \A p \in 1..n : d[p] = c[p]
      /\ \A q \in 1..Len(s) : d[n + q] = s[q]
  <2>1. /\ Len(d) = n + Len(s)
        /\ \A p \in 1..Len(d) : d[p] = IF p <= n THEN c[p] ELSE s[p - n]
    BY ConcatProperties
  <2> HIDE DEF d, n
  <2> QED BY <1>1, <2>1
<1>3. << k, 1 >> \in Items \X {1} /\ << k, 1 >>[1] = k
  OBVIOUS
<1> HIDE DEF d, n
<1>4. /\ n % 3 # 2
      /\ \A p \in 1..n :
         /\ p % 3 = 0 => c[p] = NL
         /\ p % 3 = 1 => c[p] \in Items \X {1}
         /\ p % 3 = 2 => c[p] = << c[p - 1][1], 2 >>
  BY DEF Lined, n
<1>5. ASSUME NEW p \in 1..n
      PROVE  /\ p % 3 = 0 => d[p] = NL
             /\ p % 3 = 1 => d[p] \in Items \X {1}
             /\ p % 3 = 2 => d[p] = << d[p - 1][1], 2 >>
  <2>1. d[p] = c[p]
    BY <1>2
  <2>2. p % 3 = 2 => p - 1 \in 1..n /\ d[p - 1] = c[p - 1]
    <3>1. p % 3 = 2 => p # 1
      OBVIOUS
    <3>2. p # 1 => p - 1 \in 1..n
      BY <1>1
    <3> QED BY <1>2, <3>1, <3>2
  <2> QED BY <1>4, <2>1, <2>2
<1>6. CASE n % 3 = 0 /\ s = Line(k)
  <2>0. Len(s) = 3 /\ s[1] = << k, 1 >> /\ s[2] = << k, 2 >> /\ s[3] = NL
    BY <1>6, LineBytes
  <2>1. Len(d) = n + 3 /\ d[n + 1] = << k, 1 >> /\ d[n + 2] = << k, 2 >> /\ d[n + 3] = NL
    <3>1. 1 \in 1..3 /\ 2 \in 1..3 /\ 3 \in 1..3
      OBVIOUS
    <3> QED BY <1>1, <1>2, <2>0, <3>1, Zenon
  <2>2. (n + 1) % 3 = 1 /\ (n + 2) % 3 = 2 /\ (n + 3) % 3 = 0 /\ (n + 2) - 1 = n + 1
    BY <1>1, <1>6
  <2>3. ASSUME NEW p \in 1..Len(d), p \notin 1..n PROVE p \in {n + 1, n + 2, n + 3}
    BY <1>1, <2>1, <2>3
  <2>4. Len(d) % 3 # 2
    BY <2>1, <2>2
  <2>5. d[n + 2] = << d[(n + 2) - 1][1], 2 >>
    BY <1>3, <2>1, <2>2, Zenon
  <2>6. ASSUME NEW p \in 1..Len(d)
        PROVE  /\ p % 3 = 0 => d[p] = NL
               /\ p % 3 = 1 => d[p] \in Items \X {1}
               /\ p % 3 = 2 => d[p] = << d[p - 1][1], 2 >>
    <3>1. CASE p = n + 1
      BY <1>3, <2>1, <2>2, <3>1
    <3>2. CASE p = n + 2
      BY <2>2, <2>5, <3>2
    <3>3. CASE p = n + 3
      BY <2>1, <2>2, <3>3
    <3> QED BY <1>5, <2>3, <3>1, <3>2, <3>3
  <2> QED BY <2>4, <2>6 DEF Lined, d
<1>7. CASE n % 3 = 0 /\ s = << << k, 1 >> >>
  <2>1. Len(d) = n + 1 /\ d[n + 1] = << k, 1 >>
    BY <1>1, <1>2, <1>7
  <2>2. (n + 1) % 3 = 1
    BY <1>1, <1>7
  <2>3. ASSUME NEW p \in 1..Len(d), p \notin 1..n PROVE p = n + 1
    BY <1>1, <2>1, <2>3
  <2>4. Len(d) % 3 # 2
    BY <2>1, <2>2
  <2> QED BY <1>3, <1>5, <2>1, <2>2, <2>3, <2>4 DEF Lined, d
<1>8. CASE n % 3 = 1 /\ c[n] = << k, 1 >> /\ s = << << k, 2 >>, NL >>
  <2>0. Len(s) = 2 /\ s[1] = << k, 2 >> /\ s[2] = NL
    BY <1>8
  <2>1. Len(d) = n + 2 /\ d[n + 1] = << k, 2 >> /\ d[n + 2] = NL
    <3>1. 1 \in 1..2 /\ 2 \in 1..2
      OBVIOUS
    <3> QED BY <1>1, <1>2, <2>0, <3>1, Zenon
  <2>2. (n + 1) % 3 = 2 /\ (n + 2) % 3 = 0 /\ (n + 1) - 1 = n /\ n \in 1..n
    <3>1. n % 3 = 1
      BY <1>8
    <3>2. n # 0
      BY <3>1
    <3> QED BY <1>1, <3>1, <3>2
  <2>3. ASSUME NEW p \in 1..Len(d), p \notin 1..n PROVE p \in {n + 1, n + 2}
    BY <1>1, <2>1, <2>3
  <2>4. Len(d) % 3 # 2
    BY <2>1, <2>2
  <2>5. d[n + 1] = << d[(n + 1) - 1][1], 2 >>
    <3>1. d[n] = << k, 1 >>
      BY <1>2, <1>8, <2>2, Zenon
    <3> QED BY <1>3, <2>1, <2>2, <3>1, Zenon
  <2>6. ASSUME NEW p \in 1..Len(d)
        PROVE  /\ p % 3 = 0 => d[p] = NL
               /\ p % 3 = 1 => d[p] \in Items \X {1}
               /\ p % 3 = 2 => d[p] = << d[p - 1][1], 2 >>
    <3>1. CASE p = n + 1
      <4>1. (n + 1) % 3 # 0 /\ (n + 1) % 3 # 1
        BY <1>1, <2>2
      <4> QED BY <2>5, <3>1, <4>1, Zenon
    <3>2. CASE p = n + 2
      BY <2>1, <2>2, <3>2
    <3> QED BY <1>5, <2>3, <3>1, <3>2
  <2> QED BY <2>4, <2>6 DEF Lined, d
<1> QED BY <1>6, <1>7, <1>8 DEF n

LEMMA LastOfBoth ==
    ASSUME NEW S, NEW c \in Seq(S), NEW s \in Seq(S), s # << >>
    PROVE  c \o s # << >> /\ (c \o s)[Len(c \o s)] = s[Len(s)]
<1>1. Len(c) \in Nat /\ Len(s) \in Nat \ {0}
  OBVIOUS
<1>2. /\ Len(c \o s) = Len(c) + Len(s)
      /\ \A i \in 1..Len(c) + Len(s) : (c \o s)[i] = IF i <= Len(c) THEN c[i] ELSE s[i - Len(c)]
  BY ConcatProperties
<1>3. PICK n \in Nat, m \in Nat \ {0} : n = Len(c) /\ m = Len(s)
  BY <1>1
<1>4. n + m \in 1..n + m /\ ~ (n + m <= n) /\ (n + m) - n = m
  OBVIOUS
<1>5. (c \o s)[n + m] = s[m]
  BY <1>2, <1>3, <1>4
<1> QED BY <1>2, <1>3, <1>4, <1>5

LEMMA LogKeeps ==
    ASSUME TypeInv, LogInv, Logs
    PROVE  LogInv'
<1>1. \A j \in 1..MaxFiles : inodes[j] \in Seq(Byte)
  BY DEF TypeInv, TailTypes
<1>2. path \in 1..MaxFiles /\ Content = inodes[path]
  BY DEF TypeInv, TailTypes, Content
<1>3. ASSUME NEW i \in 1..MaxFiles, NEW d, inodes' = [inodes EXCEPT ![i] = d]
      PROVE  \A k : Awaited(k)' => Awaited(k) \/ (d # << >> /\ d[Len(d)] = << k, 1 >>)
  <2>1. \A j \in 1..MaxFiles : inodes'[j] = IF j = i THEN d ELSE inodes[j]
    BY <1>3 DEF TypeInv, TailTypes
  <2> QED BY <2>1 DEF Awaited
<1>4. ASSUME NEW k \in Items, WriteLine(k) PROVE LogInv'
  <2> DEFINE s == Line(k)
  <2>1. /\ stamp[k] = Never /\ stamp' = [stamp EXCEPT ![k] = 0] /\ ~ HalfWritten(path)
        /\ Grows(path, Content \o s)
    BY <1>4, WriteEffects DEF WriteLine, Occur
  <2>2. s \in Seq(Byte) /\ Len(s) = 3 /\ s[1] = << k, 1 >> /\ s[2] = << k, 2 >> /\ s[3] = NL
    BY LineBytes
  <2>3. Remembers /\ stamp'[k] # Never
    <3>1. stamp'[k] = 0
      BY <2>1 DEF TypeInv, ChannelInv
    <3>2. Remembers
      BY <2>1, Occurs DEF TypeInv
    <3> QED BY <3>1, <3>2 DEF Never
  <2>4. Lined(Content \o s)
    BY <1>1, <1>2, <2>1, <2>2, Ends, LinedLonger
  <2>5. Absent(<< k, 1 >>) /\ Absent(<< k, 2 >>)
    BY <2>1, NotOccurred
  <2>6. \A b \in Bytes, q \in 1..Len(s) : s[q] = b =>
              Absent(b) /\ stamp'[b[1]] # Never /\ \A r \in 1..Len(s) : s[r] = b => r = q
    <3> SUFFICES ASSUME NEW b \in Bytes, NEW q \in 1..3, s[q] = b
                 PROVE  Absent(b) /\ stamp'[b[1]] # Never /\ \A r \in 1..3 : s[r] = b => r = q
      BY <2>2
    <3>1. b # NL
      BY Constants DEF Bytes, NL, Wrong
    <3> HIDE DEF s
    <3>2. CASE q = 1
      BY <2>2, <2>3, <2>5, <3>1, <3>2
    <3>3. CASE q = 2
      BY <2>2, <2>3, <2>5, <3>1, <3>3
    <3> QED BY <2>2, <3>1, <3>2, <3>3
  <2>7. \A j \in Items : Awaited(j)' => Awaited(j)
    <3>1. Content \o s # << >> /\ (Content \o s)[Len(Content \o s)] = NL
      <4> HIDE DEF s
      <4>1. Content \in Seq(Byte) /\ s # << >>
        BY <1>1, <1>2, <2>2
      <4> QED BY <2>2, <4>1, LastOfBoth
    <3>2. \A j \in Items : NL # << j, 1 >>
      BY Constants DEF NL, Wrong
    <3> HIDE DEF s
    <3> QED BY <1>2, <1>3, <2>1, <3>1, <3>2 DEF Grows
  <2> HIDE DEF s
  <2> QED BY <1>2, <2>1, <2>2, <2>3, <2>4, <2>6, <2>7, WritesKeep
<1>5. ASSUME NEW k \in Items, WriteHalf(k) PROVE LogInv'
  <2> DEFINE s == << << k, 1 >> >>
  <2>1. /\ stamp[k] = Never /\ stamp' = [stamp EXCEPT ![k] = 0] /\ ~ HalfWritten(path)
        /\ Grows(path, Append(Content, << k, 1 >>))
    BY <1>5, WriteEffects DEF WriteHalf, Occur
  <2>2. s \in Seq(Byte) /\ Len(s) = 1 /\ s[1] = << k, 1 >> /\ Append(Content, << k, 1 >>) = Content \o s
    <3>1. << k, 1 >> \in Byte
      BY LineBytes
    <3>2. PICK e \in Byte : e = << k, 1 >>
      BY <3>1
    <3>3. << e >> \in Seq(Byte) /\ Len(<< e >>) = 1 /\ << e >>[1] = e
      OBVIOUS
    <3>4. Append(Content, e) = Content \o << e >>
      BY <1>1, <1>2, AppendIsConcat
    <3> QED BY <3>2, <3>3, <3>4
  <2>3. Remembers /\ stamp'[k] # Never
    <3>1. stamp'[k] = 0
      BY <2>1 DEF TypeInv, ChannelInv
    <3>2. Remembers
      BY <2>1, Occurs DEF TypeInv
    <3> QED BY <3>1, <3>2 DEF Never
  <2>4. Lined(Content \o s)
    BY <1>1, <1>2, <2>1, <2>2, Ends, LinedLonger
  <2>5. Absent(<< k, 1 >>) /\ Absent(<< k, 2 >>)
    BY <2>1, NotOccurred
  <2>6. \A b \in Bytes, q \in 1..Len(s) : s[q] = b =>
              Absent(b) /\ stamp'[b[1]] # Never /\ \A r \in 1..Len(s) : s[r] = b => r = q
    <3> HIDE DEF s
    <3> QED BY <2>2, <2>3, <2>5
  <2>7. \A j \in Items : Awaited(j)' => Awaited(j) \/ Absent(<< j, 2 >>)
    <3> DEFINE d == Append(Content, << k, 1 >>)
    <3>1. d[Len(d)] = << k, 1 >>
      BY <1>1, <1>2, LineBytes, AppendProperties
    <3> HIDE DEF d
    <3>2. \A j : << j, 1 >> = << k, 1 >> => j = k
      OBVIOUS
    <3>3. inodes' = [inodes EXCEPT ![path] = d]
      BY <2>1 DEF Grows, d
    <3> QED BY <1>2, <1>3, <2>5, <3>1, <3>2, <3>3
  <2> HIDE DEF s
  <2> QED BY <1>2, <2>1, <2>2, <2>3, <2>4, <2>6, <2>7, WritesKeep
<1>6. ASSUME NEW i \in 1..MaxFiles, WriteRest(i) PROVE LogInv'
  <2> DEFINE k == inodes[i][Len(inodes[i])][1]
             s == << << k, 2 >>, NL >>
  <2>1. k \in Items /\ HalfWritten(i) /\ inodes[i][Len(inodes[i])] = << k, 1 >> /\ inodes[i] # << >>
    BY <1>6, LastHalf DEF WriteRest, TypeInv, HalfWritten
  <2>2. Grows(i, inodes[i] \o s)
    BY <1>6, WriteEffects
  <2>3. UNCHANGED stamp
    BY <1>6 DEF WriteRest, history
  <2> HIDE DEF k
  <2>4. s \in Seq(Byte) /\ Len(s) = 2 /\ s[1] = << k, 2 >> /\ s[2] = NL
    BY <2>1, LineBytes
  <2> HIDE DEF s
  <2>5. Awaited(k)
    BY <2>1 DEF Awaited
  <2>6. Absent(<< k, 2 >>)
    <3>1. \A j \in 1..MaxFiles, p \in Nat : ~ In(<< k, 2 >>, j, p)
      BY <2>1, <2>5, HalvesMeet
    <3>2. \A j \in Nat : ~ Buffered(<< k, 2 >>, j)
      BY <2>1, <2>5 DEF LogInv
    <3> QED BY <3>1, <3>2 DEF Absent
  <2>7. stamp[k] # Never
    <3>1. inodes[i] \in Seq(Byte) /\ Len(inodes[i]) \in 1..Len(inodes[i]) /\ Len(inodes[i]) \in Nat
      <4>1. inodes[i] \in Seq(Byte)
        BY <1>1
      <4> QED BY <2>1, <4>1
    <3>2. In(<< k, 1 >>, i, Len(inodes[i]))
      BY <2>1, <3>1 DEF In
    <3>3. << k, 1 >> \in Bytes /\ << k, 1 >>[1] = k
      BY <2>1 DEF Bytes
    <3> QED BY <3>1, <3>2, <3>3 DEF LogInv
  <2>8. Lined(inodes[i] \o s)
    BY <1>1, <2>1, <2>4, Ends, LinedLonger DEF s
  <2>9. \A b \in Bytes, q \in 1..Len(s) : s[q] = b =>
              Absent(b) /\ stamp'[b[1]] # Never /\ \A r \in 1..Len(s) : s[r] = b => r = q
    <3> SUFFICES ASSUME NEW b \in Bytes, NEW q \in 1..2, s[q] = b
                 PROVE  Absent(b) /\ stamp'[b[1]] # Never /\ \A r \in 1..2 : s[r] = b => r = q
      BY <2>4
    <3>1. b # NL
      BY Constants DEF Bytes, NL, Wrong
    <3>2. q = 1 /\ b = << k, 2 >>
      BY <2>4, <3>1
    <3> QED BY <2>3, <2>4, <2>6, <2>7, <3>1, <3>2
  <2>10. \A j \in Items : Awaited(j)' => Awaited(j)
    <3>1. inodes[i] \o s # << >> /\ (inodes[i] \o s)[Len(inodes[i] \o s)] = NL
      <4>1. inodes[i] \in Seq(Byte) /\ s # << >>
        BY <1>1, <2>4
      <4> QED BY <2>4, <4>1, LastOfBoth
    <3>2. \A j \in Items : NL # << j, 1 >>
      BY Constants DEF NL, Wrong
    <3> QED BY <1>3, <2>2, <3>1, <3>2 DEF Grows
  <2>11. Remembers
    BY <2>3, SameStamps
  <2> QED BY <2>2, <2>4, <2>8, <2>9, <2>10, <2>11, WritesKeep
<1>7. ASSUME Rotate PROVE LogInv'
  <2>1. UNCHANGED << stamp, inodes, scan >>
    BY <1>7 DEF Rotate
  <2> QED BY <2>1, LogSame, SameStamps
<1>8. ASSUME Truncate PROVE LogInv'
  <2>1. inodes' = [inodes EXCEPT ![path] = << >>] /\ UNCHANGED << stamp, scan >>
    BY <1>8 DEF Truncate
  <2>2. \A j \in 1..MaxFiles : inodes'[j] = IF j = path THEN << >> ELSE inodes[j]
    BY <2>1 DEF TypeInv, TailTypes
  <2>3. /\ \A b, i, p : i \in 1..MaxFiles /\ In(b, i, p)' => In(b, i, p)
        /\ \A b, j : Buffered(b, j)' <=> Buffered(b, j)
        /\ \A k : Awaited(k)' => Awaited(k)
    BY <2>1, <2>2 DEF In, Buffered, Awaited
  <2>4. ASSUME NEW i \in 1..MaxFiles PROVE Lined(inodes'[i])
    <3>1. CASE i = path
      BY <2>2, <3>1, LinedEmpty
    <3>2. CASE i # path
      BY <2>2, <3>2 DEF LogInv
    <3> QED BY <3>1, <3>2
  <2>5. ASSUME NEW b \in Bytes PROVE OncePlaced(b)'
    <3>1. OncePlaced(b)
      BY DEF LogInv
    <3> QED BY <2>1, <2>3, <3>1 DEF OncePlaced
  <2> QED BY <2>1, <2>3, <2>4, <2>5 DEF LogInv
<1> QED BY <1>4, <1>5, <1>6, <1>7, <1>8 DEF Logs

(* An empty buffer holds nothing.                                          *)
LEMMA LogEmptied ==
    ASSUME LogInv, UNCHANGED << stamp, inodes >>, scan'.buf = << >>
    PROVE  LogInv'
<1>1. \A b, j : ~ Buffered(b, j)'
  BY DEF Buffered
<1>2. \A b, i, p : In(b, i, p)' <=> In(b, i, p)
  BY DEF In
<1>3. ASSUME NEW b \in Bytes PROVE OncePlaced(b)'
  <2>1. OncePlaced(b)
    BY DEF LogInv
  <2> QED BY <1>1, <1>2, <2>1 DEF OncePlaced
<1> QED BY <1>1, <1>2, <1>3 DEF LogInv

(* What FillBuffer adds to the buffer.                                     *)
LEMMA Filled ==
    ASSUME TypeInv, FillBuffer
    PROVE  /\ scan'.file = scan.file /\ scan'.eof = scan.eof /\ scan # Closed /\ ~ scan.eof /\ scan' # Closed
           /\ scan.file \in 1..MaxFiles
           /\ Len(scan.buf) \in Nat /\ scan.at \in Nat /\ Len(scan'.buf) \in Nat /\ scan'.at \in Nat
           /\ scan'.at = scan.at + (Len(scan'.buf) - Len(scan.buf)) /\ scan'.at = Len(inodes[scan.file])
           /\ Len(scan'.buf) > Len(scan.buf)
           /\ \A j \in 1..Len(scan'.buf) :
                 scan'.buf[j] = IF j <= Len(scan.buf) THEN scan.buf[j]
                                ELSE inodes[scan.file][scan.at + (j - Len(scan.buf))]
<1> DEFINE u == Unread
           buf == scan.buf
           c == inodes[scan.file]
<1>1. /\ u \in Seq(Byte) /\ buf \in Seq(Byte) /\ scan # Closed /\ ~ scan.eof /\ u # << >>
      /\ scan' = [scan EXCEPT !.buf = @ \o u, !.at = @ + Len(u)]
      /\ Len(u) = IF scan.at < Len(c) THEN Len(c) - scan.at ELSE 0
      /\ \A i \in 1..Len(u) : u[i] = c[scan.at + i]
      /\ c \in Seq(Byte)
  BY UnreadBytes DEF FillBuffer, TypeInv, TailTypes
<1>2. scan.file \in 1..MaxFiles /\ scan.at \in Nat
      /\ scan \in [file : 0..MaxFiles, at : Nat, buf : Seq(Byte), eof : BOOLEAN]
  BY <1>1, Constants DEF TypeInv, TailTypes
<1> HIDE DEF u
<1>3. PICK d : d = buf \o u
  OBVIOUS
<1>4. scan' = [scan EXCEPT !.buf = d, !.at = scan.at + Len(u)]
  BY <1>1, <1>3
<1>5. scan'.file = scan.file /\ scan'.eof = scan.eof /\ scan'.buf = d /\ scan'.at = scan.at + Len(u)
  BY <1>2, <1>4
<1>6. Len(buf) \in Nat /\ Len(u) \in Nat \ {0} /\ Len(c) \in Nat
  BY <1>1
<1>7. /\ d \in Seq(Byte) /\ Len(d) = Len(buf) + Len(u)
      /\ \A i \in 1..Len(d) : d[i] = IF i <= Len(buf) THEN buf[i] ELSE u[i - Len(buf)]
  BY <1>1, <1>3, ConcatProperties
<1>8. scan' # Closed
  <2>1. Closed.buf = << >> /\ d # << >>
    BY <1>6, <1>7 DEF Closed
  <2> QED BY <1>5, <2>1
<1> HIDE DEF buf, c
<1>9. scan.at + Len(u) = Len(c)
  BY <1>1, <1>2, <1>6
<1>10. ASSUME NEW j \in 1..Len(d) PROVE d[j] = IF j <= Len(buf) THEN buf[j] ELSE c[scan.at + (j - Len(buf))]
  <2>1. ~ (j <= Len(buf)) => j - Len(buf) \in 1..Len(u)
    BY <1>6, <1>7
  <2> QED BY <1>1, <1>7, <2>1
<1>11. /\ Len(d) \in Nat /\ Len(d) > Len(buf) /\ scan.at + Len(u) \in Nat
       /\ scan.at + Len(u) = scan.at + (Len(d) - Len(buf))
  BY <1>2, <1>6, <1>7
<1> QED BY <1>1, <1>2, <1>5, <1>6, <1>8, <1>9, <1>10, <1>11 DEF buf, c

LEMMA FillKeepsLog ==
    ASSUME TypeInv, LogInv, FillBuffer
    PROVE  LogInv'
<1>1. UNCHANGED << stamp, inodes >>
  BY DEF FillBuffer, history
<1> DEFINE n == Len(scan.buf)
           f == scan.file
           a == scan.at
           Read(b, j) == j \in Nat /\ j > n /\ In(b, f, a + (j - n))
<1>2. /\ f \in 1..MaxFiles /\ n \in Nat /\ a \in Nat
      /\ scan'.file = f /\ scan'.at - Len(scan'.buf) = a - n
      /\ Len(scan'.buf) \in Nat
  <2>1. /\ f \in 1..MaxFiles /\ n \in Nat /\ a \in Nat /\ scan'.file = f
        /\ scan'.at = a + (Len(scan'.buf) - n) /\ Len(scan'.buf) \in Nat
    BY Filled
  <2>2. PICK m, x : m \in Nat /\ m = Len(scan'.buf) /\ x = scan'.at
    BY <2>1
  <2> HIDE DEF n, a, f
  <2>3. x - m = a - n
    BY <2>1, <2>2
  <2> QED BY <2>1, <2>2, <2>3
<1>3. ASSUME NEW b, NEW j \in Nat, Buffered(b, j)' PROVE Buffered(b, j) \/ Read(b, j)
  <2>1. /\ j \in 1..Len(scan'.buf) /\ scan'.buf[j] = b
        /\ scan'.buf[j] = IF j <= n THEN scan.buf[j] ELSE inodes[f][a + (j - n)]
        /\ a + (Len(scan'.buf) - n) = Len(inodes[f])
    BY <1>3, Filled DEF Buffered
  <2>2. CASE j <= n
    BY <1>2, <2>1, <2>2 DEF Buffered
  <2>3. CASE ~ (j <= n)
    <3>1. a + (j - n) \in 1..Len(inodes[f]) /\ j > n
      <4>1. PICK m, x : m \in Nat /\ m = Len(scan'.buf) /\ x = Len(inodes[f])
        BY <1>2
      <4>2. j \in 1..m /\ a + (m - n) = x
        BY <2>1, <4>1
      <4> HIDE DEF n, a, f
      <4>3. m \in Nat
        BY <4>1
      <4>4. a + (j - n) \in 1..x /\ j > n
        BY <1>2, <2>3, <4>2, <4>3
      <4> QED BY <4>1, <4>4
    <3> QED BY <2>1, <2>3, <3>1 DEF In
  <2> QED BY <2>2, <2>3
<1>4. \A b, i, p : In(b, i, p)' <=> In(b, i, p)
  BY <1>1 DEF In
<1>5. \A b, j : Buffered(b, j) => j <= n
  BY <1>2 DEF Buffered
<1> HIDE DEF n, f, a
<1>6. ASSUME NEW b \in Bytes PROVE OncePlaced(b)'
  <2>1. /\ \A i, j \in 1..MaxFiles, p, q \in Nat : In(b, i, p) /\ In(b, j, q) => i = j /\ p = q
        /\ \A i, j \in Nat : Buffered(b, i) /\ Buffered(b, j) => i = j
        /\ \A i \in 1..MaxFiles, j, p \in Nat : In(b, i, p) /\ Buffered(b, j) => i = f /\ p = (a - n) + j
    BY DEF LogInv, OncePlaced, n, f, a
  <2>2. \A j \in Nat : Read(b, j) => a + (j - n) \in Nat
    BY <1>2
  <2>3. ASSUME NEW i \in Nat, NEW j \in Nat, Buffered(b, i)', Buffered(b, j)' PROVE i = j
    <3>1. CASE Buffered(b, i) /\ Buffered(b, j)
      BY <2>1, <3>1
    <3>2. CASE Read(b, i) /\ Read(b, j)
      <4>1. a + (i - n) = a + (j - n)
        BY <1>2, <2>1, <2>2, <3>2
      <4> QED BY <1>2, <4>1
    <3>3. CASE Buffered(b, i) /\ Read(b, j)
      <4>1. a + (j - n) = (a - n) + i /\ i <= n /\ j > n
        BY <1>2, <1>5, <2>1, <2>2, <3>3
      <4> QED BY <1>2, <4>1
    <3>4. CASE Read(b, i) /\ Buffered(b, j)
      <4>1. a + (i - n) = (a - n) + j /\ j <= n /\ i > n
        BY <1>2, <1>5, <2>1, <2>2, <3>4
      <4> QED BY <1>2, <4>1
    <3> QED BY <1>3, <2>3, <3>1, <3>2, <3>3, <3>4
  <2>4. ASSUME NEW i \in 1..MaxFiles, NEW j \in Nat, NEW p \in Nat, In(b, i, p), Buffered(b, j)'
        PROVE  i = f /\ p = (a - n) + j
    <3>1. CASE Buffered(b, j)
      BY <2>1, <2>4, <3>1
    <3>2. CASE Read(b, j)
      <4>1. i = f /\ p = a + (j - n)
        BY <1>2, <2>1, <2>2, <2>4, <3>2
      <4> QED BY <1>2, <4>1
    <3> QED BY <1>3, <2>4, <3>1, <3>2
  <2> HIDE DEF Read
  <2> QED BY <1>2, <1>4, <2>1, <2>3, <2>4 DEF OncePlaced
<1>7. ASSUME NEW b \in Bytes, NEW j \in Nat, Buffered(b, j)' PROVE stamp[b[1]] # Never
  <2>1. CASE Buffered(b, j)
    BY <2>1 DEF LogInv
  <2>2. CASE Read(b, j)
    <3>1. a + (j - n) \in Nat
      BY <1>2, <2>2
    <3> QED BY <1>2, <2>2, <3>1 DEF LogInv
  <2> QED BY <1>3, <1>7, <2>1, <2>2
<1>8. ASSUME NEW k \in Items, NEW j \in Nat, Buffered(<< k, 2 >>, j)' PROVE ~ Awaited(k)
  <2>1. CASE Buffered(<< k, 2 >>, j)
    BY <2>1 DEF LogInv
  <2>2. CASE Read(<< k, 2 >>, j)
    <3>1. a + (j - n) \in Nat
      BY <1>2, <2>2
    <3> QED BY <1>2, <2>2, <3>1, HalvesMeet
  <2> QED BY <1>3, <1>8, <2>1, <2>2
<1>9. \A k : Awaited(k)' <=> Awaited(k)
  BY <1>1 DEF Awaited
<1> QED BY <1>1, <1>4, <1>6, <1>7, <1>8, <1>9 DEF LogInv

(* What ScanLine leaves of the buffer.                                     *)
LEMMA Scanned ==
    ASSUME TypeInv, ScanLine
    PROVE  LET n == Len(Token) IN
           /\ scan'.file = scan.file /\ scan'.at = scan.at /\ scan'.eof = ~ HasLine(scan.buf)
           /\ scan # Closed /\ ~ scan.eof /\ scan' # Closed
           /\ scan.file \in 1..MaxFiles /\ scan.at \in Nat
           /\ n \in Nat /\ Len(scan.buf) \in Nat /\ Len(scan'.buf) \in Nat
           /\ pos.offset \in Nat /\ pos' = [pos EXCEPT !.offset = @ + (n + 1)]
           /\ pos'.offset = pos.offset + (n + 1) /\ pos'.lastFile = pos.lastFile /\ pos'.lastSize = pos.lastSize
           /\ scan.at = pos.offset + Len(scan.buf)
           /\ HasLine(scan.buf) => /\ Len(scan'.buf) = Len(scan.buf) - (n + 1)
                                   /\ \A j \in 1..Len(scan'.buf) : scan'.buf[j] = scan.buf[(n + 1) + j]
           /\ ~ HasLine(scan.buf) => scan'.buf = << >> /\ n = Len(scan.buf)
           /\ UNCHANGED << stamp, inodes, path, truncations, plain >>
<1>1. /\ scan # Closed /\ scan' = [scan EXCEPT !.buf = Rest, !.eof = ~ HasLine(scan.buf)]
      /\ pos' = [pos EXCEPT !.offset = @ + (Len(Token) + 1)]
      /\ HasLine(scan.buf) \/ scan.buf # << >>
      /\ UNCHANGED << stamp, inodes, path, truncations, plain >>
  BY DEF ScanLine, LineLength
<1>2. Cuts(scan.buf, Token, Rest) /\ Len(Token) \in Nat /\ Len(scan.buf) \in Nat /\ Len(Rest) \in Nat
  BY TokenCut DEF TypeInv, TailTypes, Cuts
<1>3. ~ scan.eof
  BY <1>1, <1>2 DEF TypeInv, TailTypes, Cuts
<1>4. scan.at = pos.offset + Len(scan.buf) /\ scan.file \in 1..MaxFiles /\ scan.at \in Nat
  BY <1>1, <1>3, Constants DEF TypeInv, TailTypes
<1>5. scan'.file = scan.file /\ scan'.at = scan.at /\ scan'.buf = Rest /\ scan'.eof = ~ HasLine(scan.buf)
  BY <1>1 DEF TypeInv, TailTypes
<1>6. pos'.offset = pos.offset + (Len(Token) + 1) /\ pos.offset \in Nat
      /\ pos'.lastFile = pos.lastFile /\ pos'.lastSize = pos.lastSize
  BY <1>1, <1>2 DEF TypeInv, TailTypes
<1>7. scan' # Closed
  <2>1. scan'.file # Closed.file
    BY <1>4, <1>5 DEF Closed
  <2> QED BY <2>1
<1>8. /\ HasLine(scan.buf) => /\ Len(Rest) = Len(scan.buf) - (Len(Token) + 1)
                              /\ \A j \in 1..Len(Rest) : Rest[j] = scan.buf[(Len(Token) + 1) + j]
      /\ ~ HasLine(scan.buf) => Rest = << >> /\ Token = scan.buf
  BY <1>2 DEF Cuts
<1> QED BY <1>1, <1>2, <1>3, <1>4, <1>5, <1>6, <1>7, <1>8

LEMMA ScanKeepsLog ==
    ASSUME TypeInv, LogInv, ScanLine
    PROVE  LogInv'
<1>1. UNCHANGED << stamp, inodes >>
  BY Scanned
<1>2. CASE ~ HasLine(scan.buf)
  BY <1>1, <1>2, Scanned, LogEmptied
<1>3. CASE HasLine(scan.buf)
  <2> DEFINE m == Len(Token) + 1
             n == Len(scan.buf)
             a == scan.at
  <2>1. /\ m \in Nat /\ n \in Nat /\ a \in Nat /\ scan'.file = scan.file /\ scan'.at = a
        /\ Len(scan'.buf) = n - m /\ n - m \in Nat
        /\ \A j \in 1..Len(scan'.buf) : scan'.buf[j] = scan.buf[m + j]
    BY <1>3, Scanned
  <2> HIDE DEF m
  <2>2. \A b : \A j \in Nat : Buffered(b, j)' => Buffered(b, m + j) /\ m + j \in Nat
    BY <2>1 DEF Buffered
  <2>3. \A b, i, p : In(b, i, p)' <=> In(b, i, p)
    BY <1>1 DEF In
  <2> HIDE DEF n, a
  <2>4. ASSUME NEW b \in Bytes PROVE OncePlaced(b)'
    <3>1. /\ \A i, j \in 1..MaxFiles, p, q \in Nat : In(b, i, p) /\ In(b, j, q) => i = j /\ p = q
          /\ \A i, j \in Nat : Buffered(b, i) /\ Buffered(b, j) => i = j
          /\ \A i \in 1..MaxFiles, j, p \in Nat : In(b, i, p) /\ Buffered(b, j) =>
                i = scan.file /\ p = (a - n) + j
      BY DEF LogInv, OncePlaced, n, a
    <3>2. ASSUME NEW i \in Nat, NEW j \in Nat, Buffered(b, i)', Buffered(b, j)' PROVE i = j
      <4>1. m + i = m + j
        BY <2>2, <3>1, <3>2
      <4> QED BY <2>1, <4>1
    <3>3. ASSUME NEW i \in 1..MaxFiles, NEW j \in Nat, NEW p \in Nat, In(b, i, p), Buffered(b, j)'
          PROVE  i = scan.file /\ p = (a - (n - m)) + j
      <4>1. i = scan.file /\ p = (a - n) + (m + j)
        BY <2>2, <3>1, <3>3
      <4> QED BY <2>1, <4>1
    <3> QED BY <2>1, <2>3, <3>1, <3>2, <3>3 DEF OncePlaced
  <2>5. \A k : Awaited(k)' <=> Awaited(k)
    BY <1>1 DEF Awaited
  <2> QED BY <1>1, <2>2, <2>3, <2>4, <2>5 DEF LogInv
<1> QED BY <1>2, <1>3

LEMMA NextLog == TypeInv /\ LogInv /\ [Next]_vars => LogInv'
<1> SUFFICES ASSUME TypeInv, LogInv, [Next]_vars PROVE LogInv'
  OBVIOUS
<1>1. CASE UNCHANGED vars
  <2>1. UNCHANGED << stamp, inodes, scan >>
    BY <1>1 DEF vars, history, tailState
  <2> QED BY <2>1, LogSame, SameStamps
<1>2. CASE kind = "tail" /\ UNCHANGED << kind, pollState >> /\ (Logs \/ TailStep)
  <2>1. CASE OpenLog
    <3>1. UNCHANGED << stamp, inodes >> /\ scan' = [file |-> path, at |-> pos'.offset, buf |-> << >>, eof |-> FALSE]
      BY <2>1 DEF OpenLog, history
    <3>2. scan'.buf = << >>
      BY <3>1
    <3> QED BY <3>1, <3>2, LogEmptied
  <2>2. CASE CloseLog
    <3>1. UNCHANGED << stamp, inodes >> /\ scan'.buf = << >>
      BY <2>2 DEF CloseLog, Closed, history
    <3> QED BY <3>1, LogEmptied
  <2> QED BY <1>2, <2>1, <2>2, LogKeeps, FillKeepsLog, ScanKeepsLog DEF TailStep
<1>3. CASE kind = "poll" /\ UNCHANGED << kind, tailState >>
             /\ (PollStep \/ \E k \in Items : Log(k) \/ Ban(k) \/ Unban(k))
  <2>1. UNCHANGED << inodes, scan >>
    BY <1>3 DEF tailState
  <2>2. CASE PollStep
    <3>1. UNCHANGED stamp
      BY <2>2 DEF PollStep, FetchBanned, PruneSeen, MailcowPoll, FetchLogs, LogsDone, FetchDecisions,
         DecisionsDone, AskAlerts, AnswerAlerts, DecodeAlerts, AlertsFail, AlertsDone, SendBan, SendLogged, history
    <3> QED BY <2>1, <3>1, LogSame, SameStamps
  <2>3. ASSUME NEW k \in Items, Log(k) \/ Ban(k) \/ Unban(k) PROVE LogInv'
    <3>1. UNCHANGED stamp \/ \E t \in Nat : stamp' = [stamp EXCEPT ![k] = t]
      <4>1. now \in Nat
        BY DEF TypeInv, ChannelInv, ClockInv
      <4> QED BY <2>3, <4>1 DEF Log, Occur, Ban, Unban, history
    <3>2. Remembers
      BY <3>1, Occurs, SameStamps DEF TypeInv
    <3> QED BY <2>1, <3>2, LogSame
  <2> QED BY <1>3, <2>2, <2>3
<1>4. CASE (Ticker \/ Advance \/ Receive) /\ UNCHANGED << kind, tailState, pollState >>
  <2>1. UNCHANGED << stamp, inodes, scan >>
    BY <1>4 DEF Ticker, Advance, Receive, history, tailState
  <2> QED BY <2>1, LogSame, SameStamps
<1>5. CASE Restart
  <2>1. UNCHANGED << stamp, inodes >> /\ scan'.buf = << >>
    BY <1>5 DEF Restart, TailRestart, Closed
  <2> QED BY <2>1, LogEmptied
<1> QED BY <1>1, <1>2, <1>3, <1>4, <1>5, Steps

(***************************************************************************)
(* Nothing is invented.                                                    *)
(***************************************************************************)

(* As long as the open log has not been truncated, the buffer is what      *)
(* follows the offset in the file, and the offset is where a line begins   *)
(* unless the tailer is known to be amid a line.                           *)
Matches ==
    \A j \in 1..Len(scan.buf) :
        /\ pos.offset + j <= Len(inodes[scan.file])
        /\ scan.buf[j] = inodes[scan.file][pos.offset + j]

StraightInv ==
    /\ astray # "cut" => Matches
    /\ astray = "no" => pos.offset % 3 = 0

(* Then what Scan yields is never of two lines; behind its newline a line  *)
(* begins, and from where a line begins it is the whole line.              *)
LEMMA WholeLine ==
    ASSUME TypeInv, LogInv, Matches, scan # Closed
    PROVE  /\ Len(Token) = 2 => Token[1][1] = Token[2][1]
           /\ HasLine(scan.buf) => (pos.offset + (Len(Token) + 1)) % 3 = 0
           /\ HasLine(scan.buf) /\ pos.offset % 3 = 0 => Len(Token) = 2
<1> DEFINE c == inodes[scan.file]
           o == pos.offset
           buf == scan.buf
           n == Len(Token)
<1>1. /\ scan.file \in 1..MaxFiles /\ o \in Nat /\ buf \in Seq(Byte) /\ Len(buf) \in Nat
  BY Constants DEF TypeInv, TailTypes
<1>2. Lined(c) /\ Len(c) \in Nat
  BY <1>1, Ends
<1>3. /\ n \in Nat /\ n <= Len(buf)
      /\ HasLine(buf) => n + 1 <= Len(buf) /\ buf[n + 1] = NL
      /\ \A j \in 1..n : Token[j] = buf[j] /\ buf[j] # NL
  BY <1>1, TokenCut DEF TypeInv, Cuts
<1>4. \A j \in 1..Len(buf) : o + j <= Len(c) /\ buf[j] = c[o + j]
  BY DEF Matches
<1>5. \A i \in Items : \A m : << i, m >> # NL
  BY Constants DEF NL, Wrong
<1> HIDE DEF c, o, buf, n
<1>6. \A p \in 1..Len(c) :
         /\ p % 3 = 0 => c[p] = NL
         /\ p % 3 = 1 => c[p] \in Items \X {1}
         /\ p % 3 = 2 => c[p] = << c[p - 1][1], 2 >>
  BY <1>2 DEF Lined
<1>7. ASSUME NEW p \in 1..Len(c), c[p] = NL PROVE p % 3 = 0
  <2>1. p % 3 # 1
    BY <1>5, <1>6, <1>7
  <2>2. p % 3 # 2
    <3> SUFFICES ASSUME p % 3 = 2 PROVE FALSE
      OBVIOUS
    <3>1. p - 1 \in 1..Len(c) /\ (p - 1) % 3 = 1
      BY <1>2
    <3>2. c[p - 1][1] \in Items /\ c[p] = << c[p - 1][1], 2 >>
      BY <1>6, <3>1
    <3> QED BY <1>5, <1>7, <3>2
  <2> QED BY <2>1, <2>2
<1>8. ASSUME NEW j \in 1..n
      PROVE  /\ o + j \in 1..Len(c) /\ Token[j] = c[o + j]
             /\ (o + j) % 3 # 0
  <2>1. j \in 1..Len(buf) /\ o + j \in 1..Len(c)
    BY <1>1, <1>2, <1>3, <1>4
  <2>2. Token[j] = c[o + j] /\ c[o + j] # NL
    BY <1>3, <1>4, <2>1
  <2> QED BY <1>6, <2>1, <2>2
<1>9. ASSUME HasLine(buf) PROVE (o + (n + 1)) % 3 = 0
  <2>1. n + 1 \in 1..Len(buf) /\ buf[n + 1] = NL
    BY <1>1, <1>3, <1>9
  <2>2. o + (n + 1) \in 1..Len(c) /\ c[o + (n + 1)] = NL
    BY <1>1, <1>2, <1>4, <2>1
  <2> QED BY <1>7, <2>2
<1>10. ASSUME n = 2 PROVE Token[1][1] = Token[2][1]
  <2>1. 1 \in 1..n /\ 2 \in 1..n
    BY <1>10
  <2>2. /\ o + 2 \in 1..Len(c) /\ (o + 1) % 3 # 0 /\ (o + 2) % 3 # 0
        /\ Token[1] = c[o + 1] /\ Token[2] = c[o + 2]
    BY <1>8, <2>1
  <2>3. (o + 2) % 3 = 2 /\ (o + 2) - 1 = o + 1
    BY <1>1, <2>2
  <2>4. c[o + 2] = << c[o + 1][1], 2 >>
    BY <1>6, <2>2, <2>3
  <2> QED BY <2>2, <2>4
<1>11. ASSUME HasLine(buf), o % 3 = 0 PROVE n = 2
  <2>1. ~ (n >= 3)
    <3> SUFFICES ASSUME n >= 3 PROVE FALSE
      OBVIOUS
    <3>1. 3 \in 1..n
      BY <1>3
    <3>2. (o + 3) % 3 # 0
      BY <1>8, <3>1
    <3> QED BY <1>1, <1>11, <3>2
  <2>2. n \in {0, 1, 2}
    BY <1>3, <2>1
  <2>3. (o + 1) % 3 = 1 /\ (o + 2) % 3 = 2
    BY <1>1, <1>11
  <2>4. n # 0 /\ n # 1
    BY <1>9, <1>11, <2>3
  <2> QED BY <2>2, <2>4
<1> QED BY <1>9, <1>10, <1>11 DEF o, buf, n

(* A token begins with a byte of an item, if it is not empty.              *)
LEMMA TokenByte ==
    ASSUME TypeInv, Token # << >>
    PROVE  1 \in 1..Len(Token) /\ Token[1] \in Bytes /\ Token[1][1] \in Items
<1>1. Cuts(scan.buf, Token, Rest) /\ scan.buf \in Seq(Byte)
  BY TokenCut DEF TypeInv, TailTypes
<1>2. Token \in Seq(Byte) /\ Len(Token) \in 0..Len(scan.buf) /\ 1 \in 1..Len(Token)
  <2>1. Token \in Seq(Byte) /\ Len(Token) \in 0..Len(scan.buf)
    BY <1>1 DEF Cuts
  <2> QED BY <2>1
<1>3. Token[1] \in Byte /\ Token[1] # NL
  BY <1>1, <1>2 DEF Cuts
<1> QED BY <1>2, <1>3 DEF Byte, Bytes

LEMMA InitStraight == Init => StraightInv
<1> SUFFICES ASSUME Init PROVE StraightInv
  OBVIOUS
<1>1. pos.offset = 0 /\ scan.buf = << >> /\ 0 % 3 = 0
  BY DEF Init, TailInit, StartPos, Closed
<1> QED BY <1>1 DEF StraightInv, Matches

(* The files grow, and only a log that is marked as cut shrinks.           *)
LEMMA LogStraight ==
    ASSUME TypeInv, LogInv, StraightInv, Logs
    PROVE  StraightInv'
<1> DEFINE f == scan.file
<1>1. UNCHANGED << pos, scan >>
  BY DEF Logs, WriteLine, WriteHalf, WriteRest, Rotate, Truncate
<1>2. UNCHANGED astray \/ (Truncate /\ astray' = "cut")
  BY DEF Logs, WriteLine, WriteHalf, WriteRest, Rotate, Truncate
<1>3. ASSUME scan.buf # << >>, astray' # "cut"
      PROVE  /\ f \in 1..MaxFiles /\ Len(inodes[f]) \in Nat /\ Len(inodes'[f]) \in Nat
             /\ Len(inodes[f]) <= Len(inodes'[f])
             /\ \A p \in 1..Len(inodes[f]) : inodes'[f][p] = inodes[f][p]
  <2>1. f \in 1..MaxFiles /\ f = pos.lastFile
    <3>1. scan # Closed
      BY <1>3 DEF Closed
    <3> QED BY <3>1, Constants DEF TypeInv, TailTypes
  <2>2. inodes[f] \in Seq(Byte) /\ path \in 1..MaxFiles
    BY <2>1, Ends DEF TypeInv, TailTypes
  <2>3. \/ inodes'[f] = inodes[f]
        \/ \E i \in 1..MaxFiles, s \in Seq(Byte) : inodes' = [inodes EXCEPT ![i] = inodes[i] \o s]
    <3>1. ASSUME NEW k \in Items, WriteLine(k)
          PROVE  inodes' = [inodes EXCEPT ![path] = inodes[path] \o Line(k)] /\ Line(k) \in Seq(Byte)
      BY <3>1, LineBytes DEF WriteLine
    <3>2. ASSUME NEW k \in Items, WriteHalf(k)
          PROVE  /\ inodes' = [inodes EXCEPT ![path] = inodes[path] \o << << k, 1 >> >>]
                 /\ << << k, 1 >> >> \in Seq(Byte)
      <4>1. inodes' = [inodes EXCEPT ![path] = Append(inodes[path], << k, 1 >>)]
        BY <3>2 DEF WriteHalf
      <4>2. PICK e \in Byte : e = << k, 1 >>
        BY LineBytes
      <4>3. Append(inodes[path], e) = inodes[path] \o << e >> /\ << e >> \in Seq(Byte)
        BY AppendIsConcat DEF TypeInv, TailTypes
      <4> QED BY <4>1, <4>2, <4>3
    <3>3. ASSUME NEW i \in 1..MaxFiles, WriteRest(i)
          PROVE  \E s \in Seq(Byte) : inodes' = [inodes EXCEPT ![i] = inodes[i] \o s]
      <4>1. inodes[i][Len(inodes[i])][1] \in Items
        BY <3>3, LastHalf DEF WriteRest, TypeInv
      <4>2. << << inodes[i][Len(inodes[i])][1], 2 >>, NL >> \in Seq(Byte)
        BY <4>1, LineBytes
      <4> QED BY <3>3, <4>2 DEF WriteRest
    <3>4. Rotate => UNCHANGED inodes
      BY DEF Rotate
    <3>5. ASSUME Truncate PROVE inodes'[f] = inodes[f]
      <4>1. f # path
        BY <1>3, <2>1, <3>5 DEF Truncate
      <4> QED BY <2>1, <2>2, <3>5, <4>1 DEF Truncate, TypeInv, TailTypes
    <3> QED BY <2>2, <3>1, <3>2, <3>3, <3>4, <3>5 DEF Logs
  <2>4. CASE inodes'[f] = inodes[f]
    BY <2>1, <2>2, <2>4
  <2>5. ASSUME NEW i \in 1..MaxFiles, NEW s \in Seq(Byte), inodes' = [inodes EXCEPT ![i] = inodes[i] \o s]
        PROVE  /\ Len(inodes[f]) \in Nat /\ Len(inodes'[f]) \in Nat /\ Len(inodes[f]) <= Len(inodes'[f])
               /\ \A p \in 1..Len(inodes[f]) : inodes'[f][p] = inodes[f][p]
    <3>1. inodes'[f] = IF f = i THEN inodes[f] \o s ELSE inodes[f]
      BY <2>1, <2>5 DEF TypeInv, TailTypes
    <3>2. Len(inodes[f]) \in Nat /\ Len(s) \in Nat
      BY <2>2
    <3>3. /\ Len(inodes[f] \o s) = Len(inodes[f]) + Len(s)
          /\ \A p \in 1..Len(inodes[f]) : (inodes[f] \o s)[p] = inodes[f][p]
      BY <2>2, <3>2, ConcatProperties
    <3> HIDE DEF f
    <3> QED BY <3>1, <3>2, <3>3
  <2> QED BY <2>1, <2>3, <2>4, <2>5
<1>4. ASSUME astray' # "cut" PROVE Matches'
  <2>1. Matches
    BY <1>2, <1>4 DEF StraightInv
  <2>2. CASE scan.buf = << >>
    BY <1>1, <2>2 DEF Matches
  <2>3. CASE scan.buf # << >>
    <3>1. pos.offset \in Nat
      BY DEF TypeInv, TailTypes
    <3>2. ASSUME NEW j \in 1..Len(scan.buf)
          PROVE  pos.offset + j <= Len(inodes'[f]) /\ scan.buf[j] = inodes'[f][pos.offset + j]
      <4>1. pos.offset + j <= Len(inodes[f]) /\ scan.buf[j] = inodes[f][pos.offset + j]
        BY <2>1 DEF Matches
      <4> HIDE DEF f
      <4>2. pos.offset + j \in 1..Len(inodes[f]) /\ pos.offset + j <= Len(inodes'[f])
        BY <1>3, <1>4, <2>3, <3>1, <4>1
      <4> QED BY <1>3, <1>4, <2>3, <4>1, <4>2
    <3> QED BY <1>1, <3>2 DEF Matches
  <2> QED BY <2>2, <2>3
<1> QED BY <1>1, <1>2, <1>4 DEF StraightInv

LEMMA ScanStraight ==
    ASSUME TypeInv, LogInv, StraightInv, ScanLine
    PROVE  StraightInv'
<1>1. /\ UNCHANGED inodes /\ scan # Closed /\ scan'.file = scan.file
      /\ pos.offset \in Nat /\ Len(Token) \in Nat /\ pos'.offset = pos.offset + (Len(Token) + 1)
      /\ Len(scan.buf) \in Nat /\ Len(scan'.buf) \in Nat
  BY Scanned
<1>2. /\ astray = "cut" => astray' = "cut"
      /\ astray # "cut" => astray' = IF HasLine(scan.buf) THEN "no" ELSE "amid"
  BY DEF ScanLine
<1>3. ASSUME astray # "cut" PROVE Matches'
  <2>1. CASE ~ HasLine(scan.buf)
    BY <2>1, Scanned DEF Matches
  <2>2. CASE HasLine(scan.buf)
    <3> DEFINE c == inodes[scan.file]
               o == pos.offset
    <3>1. PICK l \in Nat, m \in Nat, n \in Nat :
             l = Len(Token) + 1 /\ m = Len(scan.buf) /\ n = Len(scan'.buf)
      BY <1>1
    <3>2. /\ pos'.offset = o + l /\ n = m - l
          /\ \A j \in 1..n : scan'.buf[j] = scan.buf[l + j]
      BY <1>1, <2>2, <3>1, Scanned
    <3>3. \A j \in 1..m : o + j <= Len(c) /\ scan.buf[j] = c[o + j]
      BY <1>3, <3>1 DEF StraightInv, Matches
    <3>4. o \in Nat
      BY <1>1
    <3> HIDE DEF o
    <3>5. ASSUME NEW j \in 1..n PROVE (o + l) + j <= Len(c) /\ scan'.buf[j] = c[(o + l) + j]
      <4>1. l + j \in 1..m /\ o + (l + j) = (o + l) + j
        BY <3>2, <3>4
      <4> QED BY <3>2, <3>3, <4>1
    <3> HIDE DEF c
    <3> QED BY <1>1, <3>1, <3>2, <3>5 DEF Matches, c
  <2> QED BY <2>1, <2>2
<1>4. ASSUME astray' = "no" PROVE pos'.offset % 3 = 0
  BY <1>1, <1>2, <1>4, WholeLine DEF StraightInv
<1> QED BY <1>2, <1>3, <1>4 DEF StraightInv

LEMMA TailerStraight ==
    ASSUME TypeInv, LogInv, StraightInv, TailStep
    PROVE  StraightInv'
<1>1. CASE OpenLog
  <2>1. /\ pos' = sync(pos) /\ astray' = IF astray # "no" /\ Outgrown THEN "amid" ELSE "no"
        /\ scan' = [file |-> path, at |-> pos'.offset, buf |-> << >>, eof |-> FALSE]
    BY <1>1 DEF OpenLog
  <2>2. scan'.buf = << >> /\ 0 % 3 = 0
    BY <2>1
  <2>3. Len(Content) \in Nat /\ pos.lastSize \in Nat
    BY DEF TypeInv, TailTypes, Content
  <2>4. pos'.offset = 0 \/ (Outgrown /\ pos'.offset = pos.offset)
    BY <2>1, <2>3 DEF sync, Outgrown
  <2>5. astray' = "no" => pos'.offset % 3 = 0
    BY <2>1, <2>2, <2>4 DEF StraightInv
  <2> QED BY <2>2, <2>5 DEF StraightInv, Matches
<1>2. CASE CloseLog
  <2>1. UNCHANGED << pos, astray >> /\ scan'.buf = << >>
    BY <1>2 DEF CloseLog, Closed
  <2> QED BY <2>1 DEF StraightInv, Matches
<1>3. CASE FillBuffer
  <2>1. UNCHANGED << pos, inodes, astray >>
    BY <1>3 DEF FillBuffer
  <2>2. ASSUME Matches PROVE Matches'
    <3> DEFINE n == Len(scan.buf)
               c == inodes[scan.file]
               a == scan.at
               o == pos.offset
    <3>1. /\ scan'.file = scan.file /\ n \in Nat /\ a \in Nat /\ Len(scan'.buf) \in Nat
          /\ a + (Len(scan'.buf) - n) = Len(c)
          /\ \A j \in 1..Len(scan'.buf) : scan'.buf[j] = IF j <= n THEN scan.buf[j] ELSE c[a + (j - n)]
      BY <1>3, Filled
    <3>2. o \in Nat /\ a = o + n
      BY <1>3, Filled DEF TypeInv, TailTypes
    <3>3. \A j \in 1..n : o + j <= Len(c) /\ scan.buf[j] = c[o + j]
      BY <2>2 DEF Matches
    <3>4. PICK m, x : m \in Nat /\ m = Len(scan'.buf) /\ x = Len(c)
      BY <3>1
    <3> HIDE DEF n, a, o, c
    <3>5. ASSUME NEW j \in 1..m PROVE o + j <= x /\ scan'.buf[j] = c[o + j]
      <4>1. CASE j <= n
        <5>1. j \in 1..n
          BY <3>1, <4>1
        <5> QED BY <3>1, <3>3, <3>4, <4>1, <5>1
      <4>2. CASE ~ (j <= n)
        <5>1. a + (j - n) = o + j
          BY <3>1, <3>2
        <5>2. o + j <= x
          <6>1. a + (m - n) = x /\ m \in Nat
            BY <3>1, <3>4
          <6> QED BY <3>1, <3>2, <6>1
        <5> QED BY <3>1, <3>4, <4>2, <5>1, <5>2
      <4> QED BY <4>1, <4>2
    <3> QED BY <2>1, <3>1, <3>4, <3>5 DEF Matches, c, o
  <2> QED BY <2>1, <2>2 DEF StraightInv
<1>4. CASE ScanLine
  BY <1>4, ScanStraight
<1> QED BY <1>1, <1>2, <1>3, <1>4 DEF TailStep

LEMMA NextStraight == TypeInv /\ LogInv /\ StraightInv /\ [Next]_vars => StraightInv'
<1> SUFFICES ASSUME TypeInv, LogInv, StraightInv, [Next]_vars PROVE StraightInv'
  OBVIOUS
<1>1. CASE UNCHANGED tailState
  BY <1>1 DEF StraightInv, Matches, tailState
<1>2. CASE kind = "tail" /\ UNCHANGED << kind, pollState >> /\ (Logs \/ TailStep)
  BY <1>2, LogStraight, TailerStraight
<1>3. CASE Restart
  <2>1. pos'.offset = 0 /\ scan'.buf = << >> /\ 0 % 3 = 0
    BY <1>3 DEF Restart, TailRestart, StartPos, Closed
  <2> QED BY <2>1 DEF StraightInv, Matches
<1> QED BY <1>1, <1>2, <1>3, Steps DEF vars

LEMMA LogInvariant == Spec => [](TypeInv /\ LogInv)
<1>1. Init => TypeInv /\ LogInv
  BY InitTypes, InitLog
<1>2. TypeInv /\ LogInv /\ [Next]_vars => (TypeInv /\ LogInv)'
  BY NextTypes, NextLog
<1> QED BY <1>1, <1>2, PTL DEF Spec

Invents == ch' = Append(ch, Wrong)

LEMMA AppendsLonger ==
    ASSUME ChannelInv
    PROVE  /\ UNCHANGED ch => ~ Invents
           /\ \A k \in Items : Send(k) => ~ Invents
           /\ Receive => ~ Invents
<1>1. ch \in Seq(Items \cup {Wrong}) /\ Len(ch) \in Nat /\ Wrong \notin Items
  BY Constants DEF ChannelInv
<1>2. \A k \in Items \cup {Wrong} : Len(Append(ch, k)) = Len(ch) + 1 /\ Append(ch, k)[Len(ch) + 1] = k
  BY <1>1, AppendProperties
<1>3. UNCHANGED ch => ~ Invents
  BY <1>1, <1>2 DEF Invents
<1>4. ASSUME NEW k \in Items, Send(k) PROVE ~ Invents
  BY <1>1, <1>2, <1>4 DEF Invents, Send
<1>5. ASSUME Receive PROVE ~ Invents
  <2>1. ch' = Tail(ch) /\ Len(ch') = Len(ch) - 1
    BY <1>1, <1>5, HeadTailProperties DEF Receive
  <2> QED BY <1>1, <1>2, <2>1 DEF Invents
<1> QED BY <1>3, <1>4, <1>5

(* What is sent to the event loop was observed, however reads, writes,     *)
(* rotations and restarts interleave.  A line can be taken for something   *)
(* else only if the log was truncated while the tailer was reading it or,  *)
(* in a spamtrap's plain lines, right after the tailer has met a line that *)
(* was half written or has resumed amid a line of a truncated log that it  *)
(* has read past.                                                          *)
THEOREM NothingIsInvented == Spec => NothingInvented
<1>1. Init => StraightInv
  BY InitStraight
<1>2. TypeInv /\ LogInv /\ StraightInv /\ [Next]_vars => StraightInv'
  BY NextStraight
<1>3. TypeInv /\ LogInv /\ StraightInv /\ [Next]_vars
        => [ch' = Append(ch, Wrong) => astray = "cut" \/ (plain /\ "amid" \in {astray, astray'})]_vars
  <2> SUFFICES ASSUME TypeInv, LogInv, StraightInv, Next, Invents, astray # "cut"
               PROVE  plain /\ "amid" \in {astray, astray'}
    BY DEF Invents
  <2>1. CASE ScanLine
    <3>1. Parsed(Token) # {}
      BY <2>1, AppendsLonger DEF ScanLine, TypeInv
    <3>2. PICK k \in Parsed(Token) : Send(k)
      BY <2>1, <3>1 DEF ScanLine
    <3>3. k \notin Items
      BY <3>2, AppendsLonger DEF TypeInv
    <3>4. Token # << >> \/ Len(Token) # 2
      OBVIOUS
    <3>5. scan # Closed /\ Matches
      BY <2>1 DEF ScanLine, StraightInv
    <3>6. Len(Token) # 2
      <4> SUFFICES ASSUME Len(Token) = 2 PROVE FALSE
        OBVIOUS
      <4>1. k = Token[1][1]
        BY <3>2, <3>5, WholeLine DEF Parsed
      <4>2. Token # << >>
        OBVIOUS
      <4> QED BY <3>3, <4>1, <4>2, TokenByte
    <3>7. plain
      BY <3>2, <3>6 DEF Parsed
    <3>8. ASSUME astray = "no" PROVE astray' = "amid"
      <4>1. ~ HasLine(scan.buf)
        BY <3>5, <3>6, <3>8, WholeLine DEF StraightInv
      <4> QED BY <2>1, <3>8, <4>1 DEF ScanLine
    <3>9. astray \in {"no", "amid", "cut"}
      BY DEF TypeInv, TailTypes
    <3> QED BY <3>7, <3>8, <3>9
  <2>2. CASE ~ ScanLine
    <3>1. UNCHANGED ch \/ (\E k \in Items : Send(k)) \/ Receive \/ ch' = << >>
      <4>1. CASE kind = "tail" /\ UNCHANGED << kind, pollState >> /\ (Logs \/ TailStep)
        BY <2>2, <4>1 DEF Logs, WriteLine, WriteHalf, WriteRest, Rotate, Truncate,
           TailStep, OpenLog, FillBuffer, CloseLog
      <4>2. CASE kind = "poll" /\ UNCHANGED << kind, tailState >>
                   /\ (PollStep \/ \E k \in Items : Log(k) \/ Ban(k) \/ Unban(k))
        BY <4>2 DEF PollStep, FetchBanned, PruneSeen, MailcowPoll, FetchLogs, LogsDone, FetchDecisions,
           DecisionsDone, AskAlerts, AnswerAlerts, DecodeAlerts, AlertsFail, AlertsDone, SendBan, SendLogged, SendNext,
           Log, Ban, Unban
      <4>3. CASE (Ticker \/ Advance \/ Receive) /\ UNCHANGED << kind, tailState, pollState >>
        BY <4>3 DEF Ticker, Advance
      <4>4. CASE Restart
        BY <4>4 DEF Restart
      <4> QED BY <4>1, <4>2, <4>3, <4>4, Steps
    <3>2. ch' = << >> => ~ Invents
      <4>1. Len(ch) \in Nat /\ Len(Append(ch, Wrong)) = Len(ch) + 1
        BY AppendProperties DEF TypeInv, ChannelInv
      <4> QED BY <4>1 DEF Invents
    <3> QED BY <3>1, <3>2, AppendsLonger DEF TypeInv
  <2> QED BY <2>1, <2>2
<1> QED BY <1>1, <1>2, <1>3, LogInvariant, PTL DEF Spec, NothingInvented

(***************************************************************************)
(* Few duplicates.                                                         *)
(***************************************************************************)

One(P) == IF P THEN 1 ELSE 0
Underway(k) == received[k] + Cardinality(Places(ch, k))

(* k's line may still be read without the offset being set back: it is not *)
(* written, or it is in the buffer, or lies ahead in the log or the open   *)
(* file.                                                                   *)
Lies(k, p) ==
    \/ In(<< k, 2 >>, path, p) /\ (pos.lastFile # path \/ p > pos.offset)
    \/ scan # Closed /\ ~ scan.eof /\ In(<< k, 2 >>, scan.file, p) /\ p > scan.at

Ahead(k) ==
    \/ stamp[k] = Never \/ Awaited(k)
    \/ \E j \in Nat : Buffered(<< k, 2 >>, j)
    \/ \E p \in Nat : Lies(k, p)

(* The next poll takes the log for truncated.                              *)
Shrunk == pos.lastFile = path /\ Len(Content) < pos.lastSize

Unused == \A i \in 1..MaxFiles : i > path => inodes[i] = << >>
TailBudget(k) == Underway(k) + One(Ahead(k)) + One(Shrunk) <= 1 + restarts + truncations

(* Where fail2ban's poll is.                                               *)
BanInv ==
    /\ stage \in {"idle", "send"}
    /\ stage = "idle" => todo = {} /\ seen = current
    /\ stage = "send" => todo = current \ seen

BanBudget(k) == Underway(k) + One(k \in todo) <= appeared[k]

(* Items occur in order; the stream is handed out from where it was.       *)
InOrder == \A k \in Items : \A j \in 1..k : stamp[k] # Never => stamp[j] # Never
StreamInv == InOrder /\ stage \in {"idle", "send"} /\ (stage = "idle" => todo = {})
StreamBudget(k) == Underway(k) + One(k \in todo) + One(startup \/ k > cursor) <= 1 + restarts

(* The last moment at which a poll may begin for the next to fetch k, the  *)
(* ticks there can be from y on until l, and the soonest next tick.        *)
LastStart(k) == stamp[k] + Overlap
Ticks(l, y) == IF y > l THEN 0 ELSE 1 + (l - y) \div Interval
Soonest == IF now >= lastTick + Interval THEN now ELSE lastTick + Interval

(* The polls still to come that may fetch what the next one fetches, if    *)
(* the one after a poll that begins by l does: t is in the ticker's        *)
(* channel, its poll begins with the mark x, and the next tick comes at y. *)
Polls(l, t, x, y) ==
    1 + (IF t = Never THEN Ticks(l, y) ELSE IF x > l THEN 0 ELSE 1 + Ticks(l, y))
Turn == IF poller = "mailcow" THEN tick ELSE now
Coming(k) == Polls(LastStart(k), tick, Turn, Soonest)

(* A window that begins with the mark x holds k.                           *)
Reaches(k, x) == IF poller = "mailcow" THEN x <= stamp[k] ELSE x < 0 \/ x <= LastStart(k)
If(P, n) == IF P THEN n ELSE 0

(* In mailcow's poll, the fetch of k's container is still to come.         *)
Unfetched(k) == stage = "postfix" \/ (Container(k) = "dovecot" /\ stage \in {"postfixSend", "dovecot"})

(* The fetches of k that may still come, at every stage of a poll.         *)
Fetches(k) ==
    IF stamp[k] = Never THEN Overlaps
    ELSE IF stage = "idle" THEN If(Reaches(k, since), Coming(k))
    ELSE IF stage = "asked" THEN If(Reaches(k, since), 1) + If(now <= LastStart(k), Coming(k))
    ELSE IF stage = "answered" THEN
            If(IF k \in todo THEN now <= LastStart(k) ELSE Reaches(k, since), Coming(k))
    ELSE IF stage = "alertsSend" THEN If(Reaches(k, mark), Coming(k))
    ELSE If(Unfetched(k) /\ Reaches(k, since), 1) + If(Reaches(k, mark), Coming(k))

(* A window's mark is the time of an earlier tick, in whole seconds.       *)
Ticked(x) == \E u \in Int : x = Format(u) /\ u <= lastTick /\ (tick # Never => u <= tick)
WindowInv ==
    /\ stage \in {"idle", "postfix", "postfixSend", "dovecot", "dovecotSend"}
    /\ todo # {} => stage \in {"postfixSend", "dovecotSend"}
    /\ Ticked(since)
    /\ stage # "idle" => Ticked(mark) /\ since <= mark

AlertsInv ==
    /\ stage \in {"idle", "asked", "answered", "alertsSend"}
    /\ todo # {} => stage \in {"answered", "alertsSend"}
    /\ since <= now
    /\ stage # "idle" => asked \in 0..now /\ (since < 0 \/ span <= asked - since + Buffer)
    /\ stage \in {"answered", "alertsSend"} => mark \in 0..now /\ since <= mark

PollBudget(k) == Underway(k) + One(k \in todo) + Fetches(k) <= Overlaps * (1 + restarts)

(* Polls that begin when the clock has stopped no longer fetch k.          *)
InTime(k) == now < MaxNow \/ LastStart(k) < MaxNow

CountInv ==
    /\ kind = "tail" => Unused /\ \A k \in Items : TailBudget(k)
    /\ kind = "poll" /\ poller = "fail2ban" => BanInv /\ \A k \in Items : BanBudget(k)
    /\ kind = "poll" /\ poller = "decisions" => StreamInv /\ \A k \in Items : StreamBudget(k)
    /\ kind = "poll" /\ poller = "mailcow" => WindowInv
    /\ kind = "poll" /\ poller = "alerts" => AlertsInv
    /\ kind = "poll" /\ poller \in {"mailcow", "alerts"} =>
          \A k \in Items : InTime(k) => PollBudget(k)

(* How a step changes what is on its way or has arrived.                   *)
LEMMA UnderwayNat == ASSUME TypeInv, NEW k \in Items
                     PROVE  Underway(k) \in Nat /\ received[k] \in Nat /\ received[k] <= Underway(k)
<1>1. received[k] \in Nat
  BY Constants DEF TypeInv, ChannelInv
<1>2. Cardinality(Places(ch, k)) \in Nat
  BY PlacesFinite DEF TypeInv, ChannelInv
<1> QED BY <1>1, <1>2 DEF Underway

LEMMA UnderwayLater == ASSUME TypeInv, Next, NEW k \in Items PROVE Underway(k)' \in Nat
<1>1. TypeInv'
  BY NextTypes
<1>2. received'[k] \in Nat /\ ch' \in Seq(Items \cup {Wrong})
  BY <1>1, Constants DEF TypeInv, ChannelInv
<1>3. Cardinality(Places(ch', k)) \in Nat
  BY <1>2, PlacesFinite
<1>4. Underway(k)' = received'[k] + Cardinality(Places(ch', k))
  BY DEF Underway, Places
<1> QED BY <1>2, <1>3, <1>4

LEMMA UnderwaySame == ASSUME NEW k, UNCHANGED << received, ch >> PROVE Underway(k)' = Underway(k)
BY DEF Underway, Places

LEMMA UnderwaySend ==
    ASSUME TypeInv, NEW x \in Items \cup {Wrong}, Send(x), UNCHANGED received, NEW k \in Items
    PROVE  Underway(k)' = Underway(k) + One(x = k)
<1>1. Cardinality(Places(ch, k)) \in Nat /\ received[k] \in Nat
  BY PlacesFinite, Constants DEF TypeInv, ChannelInv
<1>2. Cardinality(Places(ch', k)) = Cardinality(Places(ch, k)) + (IF x = k THEN 1 ELSE 0)
  <2>1. ch \in Seq(Items \cup {Wrong}) /\ ch' = Append(ch, x)
    BY DEF Send, TypeInv, ChannelInv
  <2> QED BY <2>1, PlacesAppend
<1>3. Underway(k)' = received[k] + Cardinality(Places(ch', k))
  BY DEF Underway, Places
<1> QED BY <1>1, <1>2, <1>3 DEF Underway, One

LEMMA UnderwayReceive ==
    ASSUME TypeInv, Receive, NEW k \in Items
    PROVE  Underway(k)' <= Underway(k)
<1>1. Cardinality(Places(ch, k)) \in Nat /\ received[k] \in Nat /\ received'[k] \in Nat
  <2>1. received[k] \in Nat /\ Cardinality(Places(ch, k)) \in Nat
    BY PlacesFinite, Constants DEF TypeInv, ChannelInv
  <2> QED BY <2>1 DEF Receive
<1>2. ch \in Seq(Items \cup {Wrong}) /\ ch # << >> /\ ch' = Tail(ch)
  BY DEF Receive, TypeInv, ChannelInv
<1>3. Tail(ch) \in Seq(Items \cup {Wrong})
  BY <1>2, HeadTailProperties
<1>4. Cardinality(Places(Tail(ch), k)) \in Nat
  BY <1>3, PlacesFinite
<1>5. Cardinality(Places(Tail(ch), k)) + (IF Head(ch) = k THEN 1 ELSE 0) = Cardinality(Places(ch, k))
  BY <1>2, PlacesTail
<1>6. received'[k] <= received[k] + (IF Head(ch) = k THEN 1 ELSE 0)
  BY <1>1 DEF Receive
<1>7. Underway(k)' = received'[k] + Cardinality(Places(Tail(ch), k))
  BY <1>2 DEF Underway, Places
<1> QED BY <1>1, <1>4, <1>5, <1>6, <1>7 DEF Underway

LEMMA UnderwayLost ==
    ASSUME TypeInv, Restart, NEW k \in Items
    PROVE  Underway(k)' <= Underway(k)
<1>1. ch' = << >> /\ UNCHANGED received
  BY DEF Restart
<1>2. Underway(k)' = received[k] + Cardinality(Places(<< >>, k))
  BY <1>1 DEF Underway, Places
<1> QED BY <1>2, PlacesOfNone, UnderwayNat

LEMMA UnderwayShared ==
    ASSUME TypeInv, Ticker \/ Advance \/ Receive, NEW k \in Items
    PROVE  Underway(k)' <= Underway(k) /\ UNCHANGED << stamp, restarts >>
<1>1. CASE Receive
  BY <1>1, UnderwayReceive DEF Receive
<1>2. CASE Ticker \/ Advance
  <2>1. UNCHANGED << received, ch, stamp, restarts >>
    BY <1>2 DEF Ticker, Advance, history
  <2> QED BY <2>1, UnderwaySame, UnderwayNat
<1> QED BY <1>1, <1>2

(* The steps of each poller.                                               *)
BanStep == FetchBanned \/ PruneSeen \/ \E k \in Items : SendBan(k)
StreamStep == FetchDecisions \/ DecisionsDone \/ \E k \in Items : SendLogged(k)
WindowStep == MailcowPoll \/ FetchLogs \/ LogsDone \/ \E k \in Items : SendLogged(k)
AlertsStep == \/ AskAlerts \/ AnswerAlerts \/ DecodeAlerts \/ AlertsFail \/ AlertsDone
              \/ \E k \in Items : SendLogged(k)

LEMMA PollerSteps ==
    ASSUME TypeInv, PollStep
    PROVE  /\ poller = "fail2ban" /\ stage \in {"idle", "send"} => BanStep
           /\ poller = "decisions" /\ stage \in {"idle", "send"} => StreamStep
           /\ poller = "mailcow" /\ stage \in {"idle", "postfix", "postfixSend", "dovecot", "dovecotSend"} =>
                 WindowStep
           /\ poller = "alerts" /\ stage \in {"idle", "asked", "answered", "alertsSend"} => AlertsStep
<1>1. CASE \E k \in Items : SendBan(k) \/ SendLogged(k)
  BY <1>1 DEF SendBan, SendLogged, BanStep, StreamStep, WindowStep, AlertsStep
<1>2. CASE FetchBanned \/ PruneSeen
  BY <1>2 DEF FetchBanned, PruneSeen, BanStep
<1>3. CASE MailcowPoll \/ FetchLogs
  BY <1>3 DEF MailcowPoll, FetchLogs, WindowStep
<1>4. CASE LogsDone
  BY <1>4 DEF LogsDone, WindowStep
<1>5. CASE FetchDecisions \/ DecisionsDone
  BY <1>5 DEF FetchDecisions, DecisionsDone, StreamStep
<1>6. CASE AskAlerts \/ AnswerAlerts \/ DecodeAlerts \/ AlertsFail \/ AlertsDone
  BY <1>6 DEF AskAlerts, AnswerAlerts, DecodeAlerts, AlertsFail, AlertsDone, AlertsStep
<1> QED BY <1>1, <1>2, <1>3, <1>4, <1>5, <1>6 DEF PollStep

LEMMA SamePoller == Next => UNCHANGED << kind, poller >>
<1> SUFFICES ASSUME Next PROVE UNCHANGED << kind, poller >>
  OBVIOUS
<1>1. CASE Restart
  BY <1>1 DEF Restart, PollRestart
<1>2. CASE PollStep /\ UNCHANGED kind
  BY <1>2 DEF PollStep, FetchBanned, PruneSeen, MailcowPoll, FetchLogs, LogsDone, FetchDecisions,
       DecisionsDone, AskAlerts, AnswerAlerts, DecodeAlerts, AlertsFail, AlertsDone, SendBan, SendLogged
<1>3. CASE UNCHANGED kind /\ \E k \in Items : Log(k) \/ Ban(k) \/ Unban(k)
  BY <1>3 DEF Log, Ban, Unban, pollState
<1> QED BY <1>1, <1>2, <1>3, Steps DEF pollState

(* fail2ban: an address is on its way or has arrived as often as it was    *)
(* new in the list.                                                        *)
LEMMA BanCounts ==
    ASSUME TypeInv, BanInv, \A k \in Items : BanBudget(k), poller = "fail2ban", Next, kind = "poll"
    PROVE  BanInv' /\ \A k \in Items : BanBudget(k)'
<1>1. \A k \in Items : Underway(k) \in Nat /\ Underway(k)' \in Nat /\ appeared[k] \in Nat
  BY UnderwayNat, UnderwayLater DEF TypeInv, PollTypes
<1>2. ASSUME BanStep PROVE BanInv' /\ \A k \in Items : BanBudget(k)'
  <2>1. CASE FetchBanned
    <3>1. stage = "idle" /\ todo = {} /\ seen = current /\ UNCHANGED << received, ch, seen >>
      BY <2>1 DEF FetchBanned, BanInv, history
    <3>2. \A k \in Items : Underway(k)' = Underway(k)
      BY <3>1, UnderwaySame
    <3>3. CASE stage' = "send" /\ current' = banned /\ todo' = banned \ seen
               /\ appeared' = [k \in Items |-> appeared[k] + (IF k \in banned \ current THEN 1 ELSE 0)]
      <4>1. BanInv'
        BY <3>1, <3>3 DEF BanInv
      <4>2. ASSUME NEW k \in Items PROVE BanBudget(k)'
        BY <1>1, <3>1, <3>2, <3>3 DEF BanBudget, One
      <4> QED BY <4>1, <4>2
    <3>4. CASE UNCHANGED << stage, current, todo, appeared >>
      BY <3>1, <3>2, <3>4 DEF BanInv, BanBudget, One
    <3> QED BY <2>1, <3>3, <3>4 DEF FetchBanned
  <2>2. CASE PruneSeen
    <3>1. /\ stage = "send" /\ todo = {} /\ seen' = seen \cap current /\ stage' = "idle"
          /\ UNCHANGED << received, ch, todo, current, appeared >>
      BY <2>2 DEF PruneSeen, Pruned, history
    <3>2. \A k \in Items : Underway(k)' = Underway(k)
      BY <3>1, UnderwaySame
    <3>3. todo = current \ seen
      BY <3>1 DEF BanInv
    <3>4. seen' = current
      BY <3>1, <3>3
    <3> QED BY <3>1, <3>2, <3>4 DEF BanInv, BanBudget, One
  <2>3. ASSUME NEW x \in Items, SendBan(x) PROVE BanInv' /\ \A k \in Items : BanBudget(k)'
    <3>1. /\ x \in todo /\ Send(x) /\ todo' = todo \ {x} /\ seen' = seen \cup {x}
          /\ UNCHANGED << received, stage, current, appeared >>
      BY <2>3 DEF SendBan, SendNext, Marked, history
    <3>2. \A k \in Items : Underway(k)' = Underway(k) + One(x = k)
      BY <3>1, UnderwaySend
    <3>3. stage = "send" /\ todo = current \ seen
      BY <3>1 DEF BanInv
    <3>4. todo' = current' \ seen'
      BY <3>1, <3>3
    <3>5. ASSUME NEW k \in Items PROVE BanBudget(k)'
      <4>1. Underway(k) + One(k \in todo) <= appeared[k]
        BY DEF BanBudget
      <4> QED BY <1>1, <3>1, <3>2, <4>1 DEF BanBudget, One
    <3> QED BY <3>1, <3>3, <3>4, <3>5 DEF BanInv
  <2> QED BY <1>2, <2>1, <2>2, <2>3 DEF BanStep
<1>3. ASSUME NEW x \in Items, Log(x) \/ Ban(x) \/ Unban(x) PROVE BanInv' /\ \A k \in Items : BanBudget(k)'
  <2>1. UNCHANGED << received, ch, stage, todo, seen, current, appeared >>
    BY <1>3 DEF Log, Ban, Unban, history, pollState
  <2>2. \A k \in Items : Underway(k)' = Underway(k)
    BY <2>1, UnderwaySame
  <2> QED BY <2>1, <2>2 DEF BanInv, BanBudget
<1>4. CASE (Ticker \/ Advance \/ Receive) /\ UNCHANGED pollState
  <2>1. \A k \in Items : Underway(k)' <= Underway(k)
    BY <1>4, UnderwayShared
  <2>2. UNCHANGED << stage, todo, seen, current, appeared >>
    BY <1>4 DEF pollState
  <2>3. ASSUME NEW k \in Items PROVE BanBudget(k)'
    <3>1. Underway(k) + One(k \in todo) <= appeared[k]
      BY DEF BanBudget
    <3> QED BY <1>1, <2>1, <2>2, <3>1 DEF BanBudget, One
  <2> QED BY <2>2, <2>3 DEF BanInv
<1>5. CASE Restart
  <2>1. /\ stage' = "idle" /\ todo' = {} /\ seen' = {} /\ current' = {} /\ UNCHANGED appeared
    BY <1>5 DEF Restart, PollRestart
  <2>2. ASSUME NEW k \in Items PROVE BanBudget(k)'
    <3>1. Underway(k)' <= Underway(k)
      BY <1>5, UnderwayLost
    <3>2. Underway(k) + One(k \in todo) <= appeared[k]
      BY DEF BanBudget
    <3> QED BY <1>1, <2>1, <3>1, <3>2 DEF BanBudget, One
  <2> QED BY <2>1, <2>2 DEF BanInv
<1>6. stage \in {"idle", "send"}
  BY DEF BanInv
<1> QED BY <1>2, <1>3, <1>4, <1>5, <1>6, Steps, PollerSteps

(* Items occur one after the other.                                        *)
LEMMA Ordered ==
    ASSUME TypeInv, InOrder
    PROVE  /\ \A k \in Recent : k \in Nat /\ k <= Cardinality(Recent)
           /\ (\A x \in Items : Log(x) => InOrder') /\ (UNCHANGED stamp => InOrder')
<1>1. ASSUME NEW k \in Recent PROVE k \in Nat /\ k <= Cardinality(Recent)
  <2>1. k \in Items /\ k \in Nat /\ Recent \subseteq Items
    BY Constants DEF Recent
  <2>2. 1..k \subseteq Recent
    BY <2>1, Constants DEF InOrder, Recent
  <2>3. Cardinality(1..k) <= Cardinality(Recent)
    BY <2>1, <2>2, RecentFinite, FS_Subset
  <2>4. Cardinality(1..k) = k
    <3>1. 1 \in Int /\ k \in Int /\ 1 <= k
      BY <2>1, Constants
    <3>2. Cardinality(1..k) = IF 1 > k THEN 0 ELSE k - 1 + 1
      BY <3>1, FS_Interval
    <3> QED BY <3>1, <3>2
  <2> QED BY <2>1, <2>3, <2>4
<1>2. ASSUME NEW x \in Items, Log(x) PROVE InOrder'
  <2>1. /\ \A j \in 1..(x - 1) : stamp[j] # Never
        /\ stamp' = [stamp EXCEPT ![x] = now] /\ now # Never
    BY <1>2, Constants DEF Log, Occur, TypeInv, ChannelInv, ClockInv, Never
  <2>2. \A j \in Items : stamp'[j] = IF j = x THEN now ELSE stamp[j]
    BY <2>1 DEF TypeInv, ChannelInv
  <2>3. ASSUME NEW k \in Items, NEW j \in 1..k, stamp'[k] # Never PROVE stamp'[j] # Never
    <3>1. j \in Items /\ j \in Nat /\ x \in Nat /\ k \in Nat
      BY Constants
    <3>2. CASE k = x
      <4>1. j = x \/ j \in 1..(x - 1)
        BY <3>1, <3>2
      <4> QED BY <2>1, <2>2, <3>1, <4>1
    <3>3. CASE k # x
      <4>1. stamp[k] # Never
        BY <2>2, <2>3, <3>3
      <4>2. stamp[j] # Never
        BY <4>1 DEF InOrder
      <4> QED BY <2>1, <2>2, <3>1, <4>2
    <3> QED BY <3>2, <3>3
  <2> QED BY <2>3 DEF InOrder
<1>3. UNCHANGED stamp => InOrder'
  BY DEF InOrder
<1> QED BY <1>1, <1>2, <1>3

(* Decisions: each is handed out once, and once again after a restart.     *)
LEMMA StreamCounts ==
    ASSUME TypeInv, StreamInv, \A k \in Items : StreamBudget(k), poller = "decisions", Next, kind = "poll"
    PROVE  StreamInv' /\ \A k \in Items : StreamBudget(k)'
<1>1. /\ \A k \in Items : Underway(k) \in Nat /\ Underway(k)' \in Nat /\ k \in Nat
      /\ restarts \in Nat /\ cursor \in 0..Cardinality(Recent)
      /\ Recent \subseteq Items
  BY UnderwayNat, UnderwayLater, Constants DEF TypeInv, ChannelInv, PollTypes, Recent
<1>2. Cardinality(Recent) \in Nat
  BY <1>1, RecentFinite
<1>3. stage \in {"idle", "send"} /\ InOrder
  BY DEF StreamInv
<1>4. \A k \in Items : Underway(k) + One(k \in todo) + One(startup \/ k > cursor) <= 1 + restarts
  BY DEF StreamBudget
<1>5. ASSUME StreamStep PROVE StreamInv' /\ \A k \in Items : StreamBudget(k)'
  <2>1. UNCHANGED << stamp, received, restarts >>
    BY <1>5 DEF StreamStep, FetchDecisions, DecisionsDone, SendLogged, history
  <2>2. InOrder'
    BY <1>3, <2>1, Ordered
  <2>3. CASE FetchDecisions
    <3>1. stage = "idle" /\ todo = {} /\ UNCHANGED ch
      BY <2>3 DEF FetchDecisions, StreamInv
    <3>2. \A k \in Items : Underway(k)' = Underway(k)
      BY <2>1, <3>1, UnderwaySame
    <3>3. CASE /\ todo' = {k \in Recent : startup \/ k > cursor}
               /\ stage' = "send" /\ cursor' = Cardinality(Recent) /\ startup' = FALSE
      <4>1. ASSUME NEW k \in Items PROVE StreamBudget(k)'
        <5>1. One(k \in todo') + One(startup' \/ k > cursor') <= One(startup \/ k > cursor)
          <6>1. CASE k \in todo'
            <7>1. k \in Recent /\ (startup \/ k > cursor)
              BY <3>3, <6>1
            <7>2. ~ (startup' \/ k > cursor')
              BY <1>1, <1>2, <1>3, <3>3, <7>1, Ordered
            <7> QED BY <6>1, <7>1, <7>2 DEF One
          <6>2. CASE k \notin todo'
            <7>1. (startup' \/ k > cursor') => (startup \/ k > cursor)
              BY <1>1, <1>2, <3>3
            <7> QED BY <6>2, <7>1 DEF One
          <6> QED BY <6>1, <6>2
        <5>2. One(k \in todo) = 0 /\ One(k \in todo') \in Nat /\ One(startup' \/ k > cursor') \in Nat
              /\ One(startup \/ k > cursor) \in Nat
          BY <3>1 DEF One
        <5>3. Underway(k) + 0 + One(startup \/ k > cursor) <= 1 + restarts
          BY <1>4, <5>2
        <5>4. Underway(k) + One(k \in todo') + One(startup' \/ k > cursor') <= 1 + restarts
          BY <1>1, <5>1, <5>2, <5>3
        <5> QED BY <2>1, <3>2, <5>4 DEF StreamBudget, One
      <4> QED BY <2>2, <3>3, <4>1 DEF StreamInv
    <3>4. CASE /\ UNCHANGED << todo, stage >> /\ cursor' \in {cursor, Cardinality(Recent)}
               /\ startup' = startup
      <4>1. ASSUME NEW k \in Items PROVE StreamBudget(k)'
        <5>1. (startup' \/ k > cursor') => (startup \/ k > cursor)
          BY <1>1, <1>2, <3>4
        <5> QED BY <1>1, <1>4, <2>1, <3>2, <3>4, <5>1 DEF StreamBudget, One
      <4> QED BY <2>2, <1>3, <3>1, <3>4, <4>1 DEF StreamInv
    <3>5. startup \in BOOLEAN
      BY DEF TypeInv, PollTypes
    <3>6. StartupAfter(TRUE) = FALSE /\ StartupAfter(FALSE) = startup
      BY <3>5 DEF StartupAfter
    <3> QED BY <2>3, <3>3, <3>4, <3>6 DEF FetchDecisions
  <2>4. CASE DecisionsDone
    <3>1. stage' = "idle" /\ todo = {} /\ UNCHANGED << ch, todo, startup, cursor >>
      BY <2>4 DEF DecisionsDone
    <3>2. \A k \in Items : Underway(k)' = Underway(k)
      BY <2>1, <3>1, UnderwaySame
    <3> QED BY <1>4, <2>1, <2>2, <3>1, <3>2 DEF StreamInv, StreamBudget
  <2>5. ASSUME NEW x \in Items, SendLogged(x) PROVE StreamInv' /\ \A k \in Items : StreamBudget(k)'
    <3>1. x \in todo /\ Send(x) /\ todo' = todo \ {x} /\ UNCHANGED << stage, startup, cursor >>
      BY <2>5 DEF SendLogged, SendNext
    <3>2. \A k \in Items : Underway(k)' = Underway(k) + One(x = k)
      BY <2>1, <3>1, UnderwaySend
    <3>3. ASSUME NEW k \in Items PROVE StreamBudget(k)'
      <4>1. One(x = k) + One(k \in todo') = One(k \in todo)
        BY <3>1 DEF One
      <4>2. One(x = k) \in Nat /\ One(k \in todo') \in Nat /\ One(k \in todo) \in Nat
            /\ One(startup \/ k > cursor) \in Nat
        BY DEF One
      <4>3. (Underway(k) + One(x = k)) + One(k \in todo') + One(startup \/ k > cursor) <= 1 + restarts
        BY <1>1, <1>4, <4>1, <4>2
      <4> QED BY <2>1, <3>1, <3>2, <4>3 DEF StreamBudget, One
    <3> QED BY <2>2, <3>1, <3>3, <1>3 DEF StreamInv
  <2> QED BY <1>5, <2>3, <2>4, <2>5 DEF StreamStep
<1>6. ASSUME NEW x \in Items, Log(x) \/ Ban(x) \/ Unban(x)
      PROVE  StreamInv' /\ \A k \in Items : StreamBudget(k)'
  <2>1. UNCHANGED << received, restarts, ch, stage, todo, startup, cursor >>
    BY <1>6 DEF Log, Ban, Unban, history, pollState
  <2>2. \A k \in Items : Underway(k)' = Underway(k)
    BY <2>1, UnderwaySame
  <2>3. InOrder'
    <3>1. CASE Log(x)
      BY <1>3, <3>1, Ordered
    <3>2. CASE Ban(x) \/ Unban(x)
      BY <1>3, <3>2, Ordered DEF Ban, Unban, history
    <3> QED BY <1>6, <3>1, <3>2
  <2> QED BY <2>1, <2>2, <2>3 DEF StreamInv, StreamBudget
<1>7. CASE (Ticker \/ Advance \/ Receive) /\ UNCHANGED pollState
  <2>1. \A k \in Items : Underway(k)' <= Underway(k) /\ UNCHANGED << stamp, restarts >>
    BY <1>7, UnderwayShared
  <2>2. UNCHANGED << stage, todo, startup, cursor >>
    BY <1>7 DEF pollState
  <2>3. ASSUME NEW k \in Items PROVE StreamBudget(k)'
    BY <1>1, <1>4, <2>1, <2>2 DEF StreamBudget, One
  <2>4. InOrder'
    <3>1. UNCHANGED stamp
      BY <1>7 DEF Ticker, Advance, Receive, history
    <3> QED BY <1>3, <3>1, Ordered
  <2> QED BY <2>2, <2>3, <2>4 DEF StreamInv
<1>8. CASE Restart
  <2>1. stage' = "idle" /\ todo' = {} /\ startup' = TRUE /\ UNCHANGED << cursor, stamp >> /\ restarts' = restarts + 1
    BY <1>8 DEF Restart, PollRestart
  <2>2. ASSUME NEW k \in Items PROVE StreamBudget(k)'
    <3>1. Underway(k)' <= Underway(k)
      BY <1>8, UnderwayLost
    <3>2. One(k \in todo') = 0 /\ One(startup' \/ k > cursor') = 1
      BY <2>1 DEF One
    <3>3. Underway(k) <= 1 + restarts
      BY <1>1, <1>4 DEF One
    <3>4. Underway(k)' + 0 + 1 <= 1 + (restarts + 1)
      BY <1>1, <3>1, <3>3
    <3> QED BY <2>1, <3>2, <3>4 DEF StreamBudget, One
  <2>3. InOrder'
    BY <1>3, <2>1, Ordered
  <2> QED BY <2>1, <2>2, <2>3 DEF StreamInv
<1> QED BY <1>3, <1>5, <1>6, <1>7, <1>8, Steps, PollerSteps

(* A tailer: a line is on its way or has arrived once, and once more for   *)
(* every restart and for every truncation that it has read past.           *)
LEMMA TailerSum ==
    ASSUME TypeInv, Next, NEW k \in Items, TailBudget(k), NEW u \in Nat, NEW v \in Nat,
           restarts' + truncations' = restarts + truncations + v,
           Underway(k)' <= Underway(k) + u,
           u + One(Ahead(k)') + One(Shrunk') <= One(Ahead(k)) + One(Shrunk) + v
    PROVE  TailBudget(k)'
<1>1. /\ Underway(k) \in Nat /\ Underway(k)' \in Nat /\ restarts \in Nat /\ truncations \in Nat
      /\ restarts' \in Nat /\ truncations' \in Nat
  BY UnderwayNat, UnderwayLater, NextTypes DEF TypeInv, ChannelInv, TailTypes
<1>2. One(Ahead(k)) \in Nat /\ One(Shrunk) \in Nat /\ One(Ahead(k)') \in Nat /\ One(Shrunk') \in Nat
  BY DEF One
<1>3. Underway(k) + One(Ahead(k)) + One(Shrunk) <= 1 + restarts + truncations
  BY DEF TailBudget
<1>4. Underway(k)' + One(Ahead(k)') + One(Shrunk') <= 1 + restarts' + truncations'
  <2>1. PICK w \in Nat, w1 \in Nat, r \in Nat, t \in Nat, r1 \in Nat, t1 \in Nat :
           /\ w = Underway(k) /\ w1 = Underway(k)' /\ r = restarts /\ t = truncations
           /\ r1 = restarts' /\ t1 = truncations'
    BY <1>1, Zenon
  <2>2. PICK a \in Nat, a1 \in Nat, h \in Nat, h1 \in Nat :
           a = One(Ahead(k)) /\ a1 = One(Ahead(k)') /\ h = One(Shrunk) /\ h1 = One(Shrunk')
    BY <1>2, Zenon
  <2>3. r1 + t1 = r + t + v /\ w1 <= w + u /\ u + a1 + h1 <= a + h + v /\ w + a + h <= 1 + r + t
    BY <1>3, <2>1, <2>2, Zenon
  <2>4. w1 + a1 + h1 <= 1 + r1 + t1
    BY <2>3
  <2> QED BY <2>1, <2>2, <2>4, Zenon
<1> QED BY <1>4 DEF TailBudget, One

LEMMA TailerQuiet ==
    ASSUME TypeInv, Next, NEW k \in Items, TailBudget(k), UNCHANGED << restarts, truncations >>,
           Underway(k)' <= Underway(k), Ahead(k)' => Ahead(k), Shrunk' => Shrunk
    PROVE  TailBudget(k)'
<1>1. 0 + One(Ahead(k)') + One(Shrunk') <= One(Ahead(k)) + One(Shrunk) + 0
  BY DEF One
<1>2. /\ Underway(k) \in Nat /\ restarts \in Nat /\ truncations \in Nat
  BY UnderwayNat DEF TypeInv, ChannelInv, TailTypes
<1>3. Underway(k)' <= Underway(k) + 0 /\ restarts' + truncations' = restarts + truncations + 0
  BY <1>2
<1> QED BY <1>1, <1>3, TailerSum

(* A write is of a line that is still to be read.                          *)
LEMMA WritesAhead ==
    ASSUME TypeInv, LogInv, NEW i \in 1..MaxFiles, NEW s \in Seq(Byte), s # << >>,
           Grows(i, inodes[i] \o s), NEW k \in Items,
           ~ Ahead(k) => /\ stamp'[k] # Never /\ s[Len(s)] # << k, 1 >>
                         /\ \A q \in 1..Len(s) : s[q] # << k, 2 >>
    PROVE  /\ Ahead(k)' => Ahead(k)
           /\ Shrunk' => Shrunk
<1>1. /\ \A b, j, p : j \in 1..MaxFiles /\ In(b, j, p)' =>
             In(b, j, p) \/ (j = i /\ \E q \in 1..Len(s) : s[q] = b /\ p = Len(inodes[i]) + q)
      /\ \A b, j : Buffered(b, j)' <=> Buffered(b, j)
      /\ \A j \in 1..MaxFiles : j # i => inodes'[j] = inodes[j]
      /\ inodes'[i] = inodes[i] \o s
  BY Appended
<1>2. UNCHANGED << path, pos, scan >> /\ path \in 1..MaxFiles
  BY DEF Grows, TypeInv, TailTypes
<1>3. scan # Closed => scan.file \in 1..MaxFiles
  BY Constants DEF TypeInv, TailTypes
<1>4. inodes[i] \in Seq(Byte) /\ Len(inodes[i]) \in Nat /\ Len(s) \in Nat
  BY DEF TypeInv, TailTypes
<1>5. ASSUME ~ Ahead(k), Ahead(k)' PROVE FALSE
  <2>1. /\ stamp[k] # Never /\ ~ Awaited(k) /\ \A j \in Nat : ~ Buffered(<< k, 2 >>, j)
        /\ \A p \in Nat : ~ Lies(k, p)
    BY <1>5 DEF Ahead
  <2>2. ~ Awaited(k)'
    <3> SUFFICES ASSUME NEW j \in 1..MaxFiles, inodes'[j] # << >>, inodes'[j][Len(inodes'[j])] = << k, 1 >>
                 PROVE  FALSE
      BY DEF Awaited
    <3>1. CASE j = i
      <4>1. (inodes[i] \o s)[Len(inodes[i] \o s)] = s[Len(s)]
        BY <1>4, LastOfBoth
      <4> QED BY <1>1, <1>5, <3>1, <4>1
    <3>2. CASE j # i
      BY <1>1, <2>1, <3>2 DEF Awaited
    <3> QED BY <3>1, <3>2
  <2>3. \A j \in 1..MaxFiles, p \in Nat : In(<< k, 2 >>, j, p)' => In(<< k, 2 >>, j, p)
    BY <1>1, <1>5
  <2>4. \A p \in Nat : ~ Lies(k, p)'
    BY <1>2, <1>3, <2>1, <2>3 DEF Lies
  <2> QED BY <1>1, <1>5, <2>1, <2>2, <2>4 DEF Ahead
<1>6. Len(inodes[path]) <= Len(inodes'[path]) /\ Len(inodes[path]) \in Nat /\ Len(inodes'[path]) \in Nat
  <2>1. Len(inodes[i] \o s) = Len(inodes[i]) + Len(s)
    BY <1>4, ConcatProperties
  <2>2. Len(inodes[path]) \in Nat
    BY DEF TypeInv, TailTypes
  <2>3. CASE path = i
    BY <1>1, <1>4, <2>1, <2>3
  <2>4. CASE path # i
    BY <1>1, <1>2, <2>2, <2>4
  <2> QED BY <2>3, <2>4
<1>7. pos.lastSize \in Nat
  BY DEF TypeInv, TailTypes
<1>8. Shrunk' => Shrunk
  BY <1>2, <1>6, <1>7 DEF Shrunk, Content
<1> QED BY <1>5, <1>8

LEMMA LogCounts ==
    ASSUME TypeInv, LogInv, Unused, \A k \in Items : TailBudget(k), Next, Logs
    PROVE  Unused' /\ \A k \in Items : TailBudget(k)'
<1>1. path \in 1..MaxFiles /\ Content = inodes[path] /\ \A j \in 1..MaxFiles : inodes[j] \in Seq(Byte)
  BY DEF TypeInv, TailTypes, Content
<1>2. /\ UNCHANGED << received, ch, restarts >> /\ restarts \in Nat /\ truncations \in Nat
      /\ \A k \in Items : Underway(k)' <= Underway(k) /\ Underway(k) \in Nat
  <2>1. UNCHANGED << received, ch, restarts >>
    BY DEF Logs, WriteLine, WriteHalf, WriteRest, Rotate, Truncate, history
  <2> QED BY <2>1, UnderwaySame, UnderwayNat DEF TypeInv, ChannelInv, TailTypes
<1>3. ASSUME NEW i \in 1..MaxFiles, NEW s \in Seq(Byte), s # << >>, Grows(i, inodes[i] \o s),
             i <= path,
             \A k \in Items : ~ Ahead(k) => /\ stamp'[k] # Never /\ s[Len(s)] # << k, 1 >>
                                            /\ \A q \in 1..Len(s) : s[q] # << k, 2 >>
      PROVE  Unused' /\ \A k \in Items : TailBudget(k)'
  <2>1. UNCHANGED << path, truncations >>
    BY <1>3 DEF Grows
  <2>2. ASSUME NEW k \in Items PROVE TailBudget(k)'
    <3>1. (Ahead(k)' => Ahead(k)) /\ (Shrunk' => Shrunk)
      BY <1>3, WritesAhead
    <3> QED BY <1>2, <2>1, <3>1, TailerQuiet
  <2>3. \A j \in 1..MaxFiles : j > path => inodes'[j] = inodes[j]
    BY <1>1, <1>3 DEF Grows, TypeInv, TailTypes
  <2> QED BY <2>1, <2>2, <2>3 DEF Unused
<1>4. \A k \in Items : \A t : stamp' = [stamp EXCEPT ![k] = t] =>
          \A j \in Items : j # k => stamp'[j] = stamp[j]
  BY DEF TypeInv, ChannelInv
<1>5. path <= path
  BY <1>1
<1>6. ASSUME NEW k \in Items, WriteLine(k) PROVE Unused' /\ \A j \in Items : TailBudget(j)'
  <2>1. /\ stamp[k] = Never /\ stamp' = [stamp EXCEPT ![k] = 0] /\ Grows(path, inodes[path] \o Line(k))
        /\ \A j \in Items : j # k => stamp'[j] = stamp[j]
    BY <1>1, <1>4, <1>6, WriteEffects DEF WriteLine, Occur
  <2> DEFINE s == Line(k)
  <2>2. s \in Seq(Byte) /\ Len(s) = 3 /\ s[1] = << k, 1 >> /\ s[2] = << k, 2 >> /\ s[3] = NL
    BY LineBytes
  <2>3. Ahead(k)
    BY <2>1 DEF Ahead
  <2> HIDE DEF s
  <2>4. ASSUME NEW j \in Items, ~ Ahead(j)
        PROVE  stamp'[j] # Never /\ s[Len(s)] # << j, 1 >> /\ \A q \in 1..Len(s) : s[q] # << j, 2 >>
    <3>1. j # k /\ stamp[j] # Never
      BY <2>3, <2>4 DEF Ahead
    <3>2. NL # << j, 1 >> /\ NL # << j, 2 >>
      BY Constants DEF NL, Wrong
    <3>3. << k, 1 >> # << j, 2 >> /\ << k, 2 >> # << j, 2 >>
      BY <3>1
    <3>4. \A q \in 1..3 : s[q] # << j, 2 >>
      <4>1. s[1] # << j, 2 >> /\ s[2] # << j, 2 >> /\ s[3] # << j, 2 >>
        BY <2>2, <3>2, <3>3
      <4>2. 1..3 = {1, 2, 3}
        OBVIOUS
      <4> QED BY <4>1, <4>2, Zenon
    <3> QED BY <2>1, <2>2, <3>1, <3>2, <3>4
  <2>5. s # << >>
    BY <2>2
  <2> QED BY <1>1, <1>3, <1>5, <2>1, <2>2, <2>4, <2>5 DEF s
<1>7. ASSUME NEW k \in Items, WriteHalf(k) PROVE Unused' /\ \A j \in Items : TailBudget(j)'
  <2>1. /\ stamp[k] = Never /\ stamp' = [stamp EXCEPT ![k] = 0]
        /\ Grows(path, Append(inodes[path], << k, 1 >>))
        /\ \A j \in Items : j # k => stamp'[j] = stamp[j]
    BY <1>1, <1>4, <1>7, WriteEffects DEF WriteHalf, Occur
  <2>2. PICK e \in Byte : e = << k, 1 >>
    BY LineBytes
  <2>3. /\ << e >> \in Seq(Byte) /\ Len(<< e >>) = 1 /\ << e >>[1] = e /\ << e >> # << >>
        /\ Append(inodes[path], e) = inodes[path] \o << e >>
    BY <1>1, AppendIsConcat
  <2>4. Ahead(k)
    BY <2>1 DEF Ahead
  <2>5. PICK s : s = << e >>
    OBVIOUS
  <2>6. ASSUME NEW j \in Items, ~ Ahead(j)
        PROVE  stamp'[j] # Never /\ s[Len(s)] # << j, 1 >> /\ \A q \in 1..Len(s) : s[q] # << j, 2 >>
    <3>1. j # k /\ stamp[j] # Never
      BY <2>4, <2>6 DEF Ahead
    <3>2. << k, 1 >> # << j, 1 >> /\ << k, 1 >> # << j, 2 >>
      BY <3>1
    <3> QED BY <2>1, <2>2, <2>3, <2>5, <3>1, <3>2
  <2> QED BY <1>1, <1>3, <1>5, <2>1, <2>2, <2>3, <2>5, <2>6
<1>8. ASSUME NEW i \in 1..MaxFiles, WriteRest(i) PROVE Unused' /\ \A j \in Items : TailBudget(j)'
  <2> DEFINE k == inodes[i][Len(inodes[i])][1]
             s == << << k, 2 >>, NL >>
  <2>1. k \in Items /\ HalfWritten(i) /\ inodes[i][Len(inodes[i])] = << k, 1 >> /\ inodes[i] # << >>
    BY <1>8, LastHalf DEF WriteRest, TypeInv, HalfWritten
  <2>2. Grows(i, inodes[i] \o s)
    BY <1>8, WriteEffects
  <2>3. UNCHANGED stamp
    BY <1>8 DEF WriteRest, history
  <2> HIDE DEF k
  <2>4. s \in Seq(Byte) /\ Len(s) = 2 /\ s[1] = << k, 2 >> /\ s[2] = NL
    BY <2>1, LineBytes
  <2> HIDE DEF s
  <2>5. Ahead(k)
    BY <2>1 DEF Ahead, Awaited
  <2>6. i <= path
    BY <1>1, <2>1 DEF Unused
  <2>7. ASSUME NEW j \in Items, ~ Ahead(j)
        PROVE  stamp'[j] # Never /\ s[Len(s)] # << j, 1 >> /\ \A q \in 1..Len(s) : s[q] # << j, 2 >>
    <3>1. j # k /\ stamp[j] # Never
      BY <2>5, <2>7 DEF Ahead
    <3>2. NL # << j, 1 >> /\ NL # << j, 2 >>
      BY Constants DEF NL, Wrong
    <3>3. << k, 2 >> # << j, 2 >>
      BY <3>1
    <3> QED BY <2>3, <2>4, <3>1, <3>2, <3>3
  <2>8. s # << >>
    BY <2>4
  <2> QED BY <1>3, <2>2, <2>4, <2>6, <2>7, <2>8
<1>9. ASSUME Rotate PROVE Unused' /\ \A j \in Items : TailBudget(j)'
  <2>1. path' = path + 1 /\ path' \in 1..MaxFiles /\ UNCHANGED << stamp, inodes, pos, scan, truncations >>
    BY <1>1, <1>9, Constants DEF Rotate
  <2>2. inodes[path'] = << >>
    BY <1>1, <2>1 DEF Unused
  <2>3. pos.lastFile \in 1..path \cup {Never}
    BY DEF TypeInv, TailTypes
  <2>4. ~ Shrunk'
    BY <1>1, <2>1, <2>3 DEF Shrunk, Never
  <2>5. ASSUME NEW k \in Items PROVE Ahead(k)' => Ahead(k)
    <3>1. \A b, i, p : In(b, i, p)' <=> In(b, i, p)
      BY <2>1 DEF In
    <3>2. \A p : ~ In(<< k, 2 >>, path', p)
      BY <2>2 DEF In
    <3>3. \A p \in Nat : Lies(k, p)' => Lies(k, p)
      BY <2>1, <3>1, <3>2 DEF Lies
    <3>4. (Awaited(k)' <=> Awaited(k)) /\ \A j : Buffered(<< k, 2 >>, j)' <=> Buffered(<< k, 2 >>, j)
      BY <2>1 DEF Awaited, Buffered
    <3> QED BY <2>1, <3>3, <3>4 DEF Ahead
  <2>6. Unused'
    BY <1>1, <2>1 DEF Unused
  <2> QED BY <1>2, <2>1, <2>4, <2>5, <2>6, TailerQuiet
<1>10. ASSUME Truncate PROVE Unused' /\ \A j \in Items : TailBudget(j)'
  <2>1. /\ inodes' = [inodes EXCEPT ![path] = << >>] /\ UNCHANGED << stamp, path, pos, scan >>
        /\ truncations' = truncations + 1
    BY <1>10 DEF Truncate
  <2>2. \A j \in 1..MaxFiles : inodes'[j] = IF j = path THEN << >> ELSE inodes[j]
    BY <2>1 DEF TypeInv, TailTypes
  <2>3. ASSUME NEW k \in Items PROVE Ahead(k)' => Ahead(k)
    <3>1. \A b, i, p : i \in 1..MaxFiles /\ In(b, i, p)' => In(b, i, p)
      BY <2>2 DEF In
    <3>2. scan # Closed => scan.file \in 1..MaxFiles
      BY Constants DEF TypeInv, TailTypes
    <3>3. \A p \in Nat : Lies(k, p)' => Lies(k, p)
      BY <1>1, <2>1, <3>1, <3>2 DEF Lies
    <3>4. (Awaited(k)' => Awaited(k)) /\ \A j : Buffered(<< k, 2 >>, j)' <=> Buffered(<< k, 2 >>, j)
      BY <2>1, <2>2 DEF Awaited, Buffered
    <3> QED BY <2>1, <3>3, <3>4 DEF Ahead
  <2>4. ASSUME NEW k \in Items PROVE TailBudget(k)'
    <3>1. 0 + One(Ahead(k)') + One(Shrunk') <= One(Ahead(k)) + One(Shrunk) + 1
      BY <2>3 DEF One
    <3>2. Underway(k)' <= Underway(k) + 0 /\ restarts' + truncations' = restarts + truncations + 1
      BY <1>2, <2>1
    <3> QED BY <3>1, <3>2, TailerSum
  <2>5. Unused'
    BY <2>1, <2>2 DEF Unused
  <2> QED BY <2>4, <2>5
<1> QED BY <1>6, <1>7, <1>8, <1>9, <1>10 DEF Logs

(* A token that names k holds the second half of its line.                 *)
LEMMA TokenOf ==
    ASSUME TypeInv, LogInv, NEW k \in Items, k \in Parsed(Token)
    PROVE  \E j \in 1..Len(Token) : Buffered(<< k, 2 >>, j)
<1>1. /\ Cuts(scan.buf, Token, Rest) /\ scan.buf \in Seq(Byte) /\ Len(scan.buf) \in Nat
  BY TokenCut DEF TypeInv, TailTypes
<1>2. Len(Token) = 2 /\ Token[1][1] = k /\ Token[2][1] = k
  BY Constants DEF Parsed
<1>3. 1 \in 1..Len(Token) /\ 2 \in 1..Len(Token) /\ Len(scan.buf) >= 2
  BY <1>1, <1>2 DEF Cuts
<1>4. \A j \in 1..Len(Token) : /\ Token[j] = scan.buf[j] /\ j \in 1..Len(scan.buf)
                               /\ scan.buf[j] \in Byte /\ scan.buf[j] # NL
  BY <1>1, <1>2, <1>3 DEF Cuts
<1>5. \A j \in {1, 2} : Token[j] \in Items \X {1, 2} /\ Buffered(Token[j], j)
  BY <1>3, <1>4 DEF Byte, Buffered
<1>6. Token[1] \in {<< k, 1 >>, << k, 2 >>} /\ Token[2] \in {<< k, 1 >>, << k, 2 >>}
  BY <1>2, <1>5
<1>7. ~ (Token[1] = << k, 1 >> /\ Token[2] = << k, 1 >>)
  <2>1. OncePlaced(<< k, 1 >>)
    BY DEF LogInv, Bytes
  <2> QED BY <1>5, <2>1 DEF OncePlaced
<1> QED BY <1>3, <1>5, <1>6, <1>7

LEMMA TailerCounts ==
    ASSUME TypeInv, LogInv, \A k \in Items : TailBudget(k), Next, TailStep
    PROVE  \A k \in Items : TailBudget(k)'
<1>1. path \in 1..MaxFiles /\ Content = inodes[path] /\ Len(Content) \in Nat
  BY DEF TypeInv, TailTypes, Content
<1>2. UNCHANGED << received, stamp, restarts, truncations, inodes, path >> /\ restarts \in Nat /\ truncations \in Nat
  BY DEF TailStep, OpenLog, FillBuffer, ScanLine, CloseLog, history, TypeInv, ChannelInv, TailTypes
<1>3. /\ \A b, i, p : In(b, i, p)' <=> In(b, i, p)
      /\ \A k : Awaited(k)' <=> Awaited(k)
      /\ \A k \in Items : Underway(k) \in Nat
  BY <1>2, UnderwayNat DEF In, Awaited
<1>4. ASSUME UNCHANGED ch PROVE \A k \in Items : Underway(k)' <= Underway(k)
  BY <1>2, <1>3, <1>4, UnderwaySame
<1> SUFFICES ASSUME NEW k \in Items PROVE TailBudget(k)'
  OBVIOUS
<1> DEFINE b == << k, 2 >>
<1>5. CASE OpenLog
  <2>1. /\ scan = Closed /\ pos' = sync(pos) /\ UNCHANGED ch
        /\ scan' = [file |-> path, at |-> pos'.offset, buf |-> << >>, eof |-> FALSE]
    BY <1>5 DEF OpenLog
  <2>2. /\ scan'.file = path /\ scan'.at = pos'.offset /\ scan'.buf = << >>
        /\ pos'.lastFile = path /\ pos'.lastSize = Len(Content)
        /\ pos'.offset = IF Len(Content) < pos.lastSize \/ (pos.lastFile # Never /\ pos.lastFile # path)
                         THEN 0 ELSE pos.offset
    BY <2>1 DEF sync
  <2>3. ~ Shrunk'
    <3>1. Content' = Content /\ path' = path
      BY <1>2 DEF Content
    <3> QED BY <1>1, <2>2, <3>1 DEF Shrunk
  <2>4. CASE Shrunk
    <3>1. 0 + One(Ahead(k)') + One(Shrunk') <= One(Ahead(k)) + One(Shrunk) + 0
      BY <2>3, <2>4 DEF One
    <3>2. Underway(k)' <= Underway(k) + 0 /\ restarts' + truncations' = restarts + truncations + 0
      BY <1>2, <1>3, <1>4, <2>1
    <3> QED BY <3>1, <3>2, TailerSum
  <2>5. CASE ~ Shrunk
    <3>1. ASSUME Ahead(k)' PROVE Ahead(k)
      <4>1. \A j : ~ Buffered(b, j)'
        BY <2>2 DEF Buffered
      <4>2. ASSUME NEW p \in Nat, Lies(k, p)' PROVE Lies(k, p)
        <5>1. In(b, path, p) /\ p > pos'.offset
          BY <1>2, <1>3, <2>2, <4>2 DEF Lies
        <5>2. CASE pos.lastFile # path
          BY <5>1, <5>2 DEF Lies
        <5>3. CASE pos.lastFile = path
          <6>1. ~ (Len(Content) < pos.lastSize)
            BY <2>5, <5>3 DEF Shrunk
          <6>2. pos'.offset = pos.offset
            BY <2>2, <5>3, <6>1
          <6> QED BY <5>1, <6>2 DEF Lies
        <5> QED BY <5>2, <5>3
      <4> QED BY <1>2, <1>3, <3>1, <4>1, <4>2 DEF Ahead
    <3> QED BY <1>2, <1>4, <2>1, <2>3, <3>1, TailerQuiet
  <2> QED BY <2>4, <2>5
<1>6. CASE CloseLog
  <2>1. scan' = Closed /\ UNCHANGED << ch, pos >>
    BY <1>6 DEF CloseLog
  <2>2. \A j : ~ Buffered(b, j)'
    BY <2>1 DEF Buffered, Closed
  <2>3. \A p \in Nat : Lies(k, p)' => Lies(k, p)
    BY <1>2, <1>3, <2>1 DEF Lies
  <2>4. Ahead(k)' => Ahead(k)
    BY <1>2, <1>3, <2>2, <2>3 DEF Ahead
  <2>5. Shrunk' => Shrunk
    BY <1>2, <2>1 DEF Shrunk, Content
  <2> QED BY <1>2, <1>4, <2>1, <2>4, <2>5, TailerQuiet
<1>7. CASE FillBuffer
  <2>1. UNCHANGED << ch, pos >>
    BY <1>7 DEF FillBuffer
  <2> DEFINE f == scan.file
             n == Len(scan.buf)
             a == scan.at
  <2>2. /\ scan'.file = f /\ scan'.eof = scan.eof /\ scan # Closed /\ ~ scan.eof
        /\ n \in Nat /\ a \in Nat /\ Len(scan'.buf) \in Nat /\ scan'.at = a + (Len(scan'.buf) - n)
        /\ scan'.at = Len(inodes[f]) /\ Len(scan'.buf) > n
        /\ \A j \in 1..Len(scan'.buf) : scan'.buf[j] = IF j <= n THEN scan.buf[j] ELSE inodes[f][a + (j - n)]
    BY <1>7, Filled
  <2>3. PICK m \in Nat : m = Len(scan'.buf)
    BY <2>2
  <2>4. PICK x : x = scan'.at
    OBVIOUS
  <2>5. x = a + (m - n) /\ m > n /\ x = Len(inodes[f])
    BY <2>2, <2>3, <2>4
  <2>6. ASSUME NEW j \in Nat, Buffered(b, j)' PROVE Ahead(k)
    <3>1. j \in 1..m /\ scan'.buf[j] = b
      BY <2>3, <2>6 DEF Buffered
    <3>2. CASE j <= n
      <4>1. Buffered(b, j)
        BY <2>2, <2>3, <3>1, <3>2 DEF Buffered
      <4> QED BY <4>1 DEF Ahead
    <3>3. CASE ~ (j <= n)
      <4> DEFINE p == a + (j - n)
      <4>1. p \in 1..x /\ p > a /\ p \in Nat
        <5> HIDE DEF a, n, f
        <5> QED BY <2>2, <2>5, <3>1, <3>3
      <4>2. inodes[f][p] = b
        BY <2>2, <2>3, <3>1, <3>3
      <4> HIDE DEF p
      <4>3. In(b, f, p)
        BY <2>5, <4>1, <4>2 DEF In
      <4>4. Lies(k, p)
        BY <2>2, <4>1, <4>3 DEF Lies
      <4> QED BY <4>1, <4>4 DEF Ahead
    <3> QED BY <3>2, <3>3
  <2>7. x >= a
    <3> HIDE DEF a, n, f
    <3> QED BY <2>2, <2>5
  <2>8. \A p \in Nat : Lies(k, p)' => Lies(k, p)
    <3>1. ASSUME NEW p \in Nat, p > x PROVE p > a
      <4> HIDE DEF a, n, f
      <4>1. x \in Int
        BY <2>2, <2>5
      <4> QED BY <2>2, <2>7, <3>1, <4>1
    <3> QED BY <1>2, <1>3, <2>1, <2>2, <2>4, <3>1 DEF Lies
  <2>9. Ahead(k)' => Ahead(k)
    BY <1>2, <1>3, <2>6, <2>8 DEF Ahead
  <2>10. Shrunk' => Shrunk
    BY <1>2, <2>1 DEF Shrunk, Content
  <2> QED BY <1>2, <1>4, <2>1, <2>9, <2>10, TailerQuiet
<1>8. CASE ScanLine
  <2> DEFINE n == Len(Token)
             o == pos.offset
             a == scan.at
             l == Len(scan.buf)
  <2>1. /\ scan'.file = scan.file /\ scan'.at = a /\ scan'.eof = ~ HasLine(scan.buf)
        /\ scan # Closed /\ ~ scan.eof /\ scan.file \in 1..MaxFiles /\ a \in Nat
        /\ n \in Nat /\ l \in Nat /\ Len(scan'.buf) \in Nat /\ o \in Nat
        /\ pos'.offset = o + (n + 1) /\ pos'.lastFile = pos.lastFile /\ pos'.lastSize = pos.lastSize
        /\ a = o + l
        /\ HasLine(scan.buf) => /\ Len(scan'.buf) = l - (n + 1)
                                /\ \A j \in 1..Len(scan'.buf) : scan'.buf[j] = scan.buf[(n + 1) + j]
        /\ ~ HasLine(scan.buf) => scan'.buf = << >> /\ n = l
    BY <1>8, Scanned
  <2>2. Shrunk' => Shrunk
    <3>1. Content' = Content
      BY <1>2 DEF Content
    <3> QED BY <1>2, <2>1, <3>1 DEF Shrunk
  <2>3. ASSUME NEW j \in Nat, Buffered(b, j)'
        PROVE  Buffered(b, (n + 1) + j) /\ (n + 1) + j \in Nat
    <3>1. j \in 1..Len(scan'.buf) /\ scan'.buf[j] = b
      BY <2>3 DEF Buffered
    <3>2. HasLine(scan.buf)
      <4> SUFFICES ASSUME ~ HasLine(scan.buf) PROVE FALSE
        OBVIOUS
      <4>1. Len(scan'.buf) = 0
        BY <2>1
      <4> QED BY <3>1, <4>1
    <3>3. Len(scan'.buf) = l - (n + 1) /\ scan.buf[(n + 1) + j] = b
      BY <2>1, <3>1, <3>2
    <3>4. PICK m \in Nat : m = Len(scan'.buf)
      BY <2>1
    <3> HIDE DEF n, l
    <3>5. (n + 1) + j \in 1..l
      BY <2>1, <3>1, <3>3, <3>4
    <3> QED BY <2>1, <3>3, <3>5 DEF Buffered, l
  <2>4. ASSUME NEW p \in Nat, Lies(k, p)' PROVE Lies(k, p)
    <3>1. pos'.offset >= o
      <4> HIDE DEF n, l, o, a
      <4> QED BY <2>1
    <3>2. CASE In(b, path, p) /\ (pos.lastFile # path \/ p > pos'.offset)
      <4>1. p > pos'.offset => p > o
        <5> HIDE DEF n, l, o, a
        <5> QED BY <2>1
      <4> QED BY <3>2, <4>1 DEF Lies
    <3>3. CASE In(b, scan.file, p) /\ p > a
      BY <2>1, <3>3 DEF Lies
    <3> QED BY <1>2, <1>3, <2>1, <2>4, <3>2, <3>3 DEF Lies
  <2>5. Ahead(k)' => Ahead(k)
    BY <1>2, <1>3, <2>3, <2>4 DEF Ahead
  <2>6. CASE ~ Send(k)
    <3>1. Underway(k)' <= Underway(k)
      <4>1. CASE UNCHANGED ch
        BY <1>4, <4>1
      <4>2. CASE ~ UNCHANGED ch
        <5>1. PICK x \in Parsed(Token) : Send(x)
          BY <1>8, <4>2 DEF ScanLine
        <5>2. x \in Items \cup {Wrong} /\ x # k
          BY <2>6, <5>1, TokenCut, ParsedItems DEF TypeInv, Cuts
        <5>3. Underway(k)' = Underway(k) + One(x = k)
          BY <1>2, <5>1, <5>2, UnderwaySend
        <5> QED BY <1>3, <5>2, <5>3 DEF One
      <4> QED BY <4>1, <4>2
    <3> QED BY <1>2, <2>2, <2>5, <3>1, TailerQuiet
  <2>7. CASE Send(k) /\ k \notin Parsed(Token)
    <3>1. CASE Parsed(Token) = {}
      <4>1. ch' = ch
        BY <1>8, <3>1 DEF ScanLine
      <4>2. ch' = Append(ch, k) /\ Len(ch) \in Nat /\ Len(Append(ch, k)) = Len(ch) + 1
        <5>1. ch \in Seq(Items \cup {Wrong})
          BY DEF TypeInv, ChannelInv
        <5> QED BY <2>7, <5>1 DEF Send
      <4> QED BY <4>1, <4>2
    <3>2. CASE Parsed(Token) # {}
      <4>1. PICK x \in Parsed(Token) : Send(x)
        BY <1>8, <3>2 DEF ScanLine
      <4>2. x \in Items \cup {Wrong} /\ x # k
        BY <2>7, <4>1, TokenCut, ParsedItems DEF TypeInv, Cuts
      <4>3. Underway(k)' = Underway(k) + One(x = k)
        BY <1>2, <4>1, <4>2, UnderwaySend
      <4>4. Underway(k)' <= Underway(k)
        BY <1>3, <4>2, <4>3 DEF One
      <4> QED BY <1>2, <2>2, <2>5, <4>4, TailerQuiet
    <3> QED BY <3>1, <3>2
  <2>8. CASE Send(k) /\ k \in Parsed(Token)
    <3>1. PICK j \in 1..n : Buffered(b, j)
      BY <2>8, TokenOf
    <3>2. j \in Nat /\ Ahead(k)
      BY <3>1 DEF Ahead
    <3>3. OncePlaced(b) /\ b \in Bytes /\ stamp[k] # Never /\ ~ Awaited(k)
      <4>1. b \in Bytes /\ b[1] = k
        BY DEF Bytes
      <4> QED BY <3>1, <3>2, <4>1 DEF LogInv
    <3>4. \A i \in 1..MaxFiles, p \in Nat : In(b, i, p) => i = scan.file /\ p = (a - l) + j
      BY <3>1, <3>2, <3>3 DEF OncePlaced
    <3>5. ~ Ahead(k)'
      <4>1. ASSUME NEW i \in Nat, Buffered(b, i)' PROVE FALSE
        <5>1. (n + 1) + i = j
          BY <2>3, <3>1, <3>2, <3>3, <4>1 DEF OncePlaced
        <5> HIDE DEF n
        <5> QED BY <2>1, <5>1
      <4>2. ASSUME NEW p \in Nat, Lies(k, p)' PROVE FALSE
        <5>1. CASE In(b, path, p) /\ (pos.lastFile # path \/ p > pos'.offset)
          <6>1. path = scan.file /\ p = (a - l) + j
            BY <1>1, <3>4, <5>1
          <6>2. pos.lastFile = path
            BY <2>1, <6>1 DEF TypeInv, TailTypes
          <6>3. p > o + (n + 1)
            BY <2>1, <5>1, <6>2
          <6> HIDE DEF n, l, o, a
          <6> QED BY <2>1, <6>1, <6>3
        <5>2. CASE In(b, scan.file, p) /\ p > a
          <6>1. p = (a - l) + j
            BY <2>1, <3>4, <5>2
          <6>2. j \in 1..l
            BY <3>1 DEF Buffered
          <6> HIDE DEF n, l, o, a
          <6> QED BY <2>1, <5>2, <6>1, <6>2
        <5> QED BY <1>2, <1>3, <2>1, <4>2, <5>1, <5>2 DEF Lies
      <4> QED BY <1>2, <1>3, <3>3, <4>1, <4>2 DEF Ahead
    <3>6. Underway(k)' = Underway(k) + 1
      BY <1>2, <2>8, UnderwaySend DEF One
    <3>7. 1 + One(Ahead(k)') + One(Shrunk') <= One(Ahead(k)) + One(Shrunk) + 0
      BY <2>2, <3>2, <3>5 DEF One
    <3>8. Underway(k)' <= Underway(k) + 1 /\ restarts' + truncations' = restarts + truncations + 0
      BY <1>2, <1>3, <3>6
    <3> QED BY <3>7, <3>8, TailerSum
  <2> QED BY <2>6, <2>7, <2>8
<1> QED BY <1>5, <1>6, <1>7, <1>8 DEF TailStep

LEMMA TailCounts ==
    ASSUME TypeInv, LogInv, Unused, \A k \in Items : TailBudget(k), kind = "tail", Next
    PROVE  Unused' /\ \A k \in Items : TailBudget(k)'
<1>1. CASE TailStep
  <2>1. Unused'
    BY <1>1 DEF TailStep, OpenLog, FillBuffer, ScanLine, CloseLog, Unused
  <2> QED BY <1>1, <2>1, TailerCounts
<1>2. CASE (Ticker \/ Advance \/ Receive) /\ UNCHANGED tailState
  <2>1. UNCHANGED << stamp, restarts >> /\ UNCHANGED << truncations, inodes, path, pos, scan >>
    BY <1>2 DEF Ticker, Advance, Receive, history, tailState
  <2>2. ASSUME NEW k \in Items PROVE TailBudget(k)'
    <3>1. (Ahead(k)' => Ahead(k)) /\ (Shrunk' => Shrunk)
      BY <2>1 DEF Ahead, Awaited, Buffered, Lies, In, Shrunk, Content
    <3> QED BY <1>2, <2>1, <3>1, UnderwayShared, TailerQuiet
  <2> QED BY <2>1, <2>2 DEF Unused
<1>3. CASE Restart
  <2>1. pos' = StartPos /\ restarts' = restarts + 1 /\ UNCHANGED << truncations, inodes, path >>
    BY <1>3 DEF Restart, TailRestart
  <2>2. ~ Shrunk'
    <3>1. path \in 1..MaxFiles
      BY DEF TypeInv, TailTypes
    <3> QED BY <2>1, <3>1 DEF Shrunk, StartPos, Never
  <2>3. ASSUME NEW k \in Items PROVE TailBudget(k)'
    <3>1. 0 + One(Ahead(k)') + One(Shrunk') <= One(Ahead(k)) + One(Shrunk) + 1
      BY <2>2 DEF One
    <3>2. Underway(k)' <= Underway(k)
      BY <1>3, UnderwayLost
    <3>3. Underway(k)' <= Underway(k) + 0 /\ restarts' + truncations' = restarts + truncations + 1
      BY <2>1, <3>2, UnderwayNat DEF TypeInv, ChannelInv, TailTypes
    <3> QED BY <3>1, <3>3, TailerSum
  <2> QED BY <2>1, <2>3 DEF Unused
<1> QED BY <1>1, <1>2, <1>3, Steps, LogCounts

(* Ticks until l, which come no faster than the interval.                  *)
LEMMA Quotient ==
    ASSUME NEW a \in Int
    PROVE  /\ a \div Interval \in Int
           /\ Interval * (a \div Interval) <= a /\ a < Interval * (a \div Interval) + Interval
           /\ Interval * (a \div Interval) \in Int
BY Constants

LEMMA QuotientBound ==
    ASSUME NEW m \in Int, NEW n \in Int, NEW b \in Int, Interval * m <= b, b < Interval * n + Interval
    PROVE  m <= n
<1>1. Interval \in Nat \ {0}
  BY Constants
<1> SUFFICES ASSUME n + 1 <= m PROVE FALSE
  OBVIOUS
<1>2. Interval * (n + 1) <= Interval * m
  BY <1>1
<1>3. Interval * (n + 1) = Interval * n + Interval
  BY <1>1
<1>4. Interval * n \in Int /\ Interval * m \in Int
  BY <1>1
<1> QED BY <1>1, <1>2, <1>3, <1>4

LEMMA QuotientMonotone ==
    ASSUME NEW a \in Int, NEW b \in Int, a <= b
    PROVE  a \div Interval <= b \div Interval
<1>1. PICK m \in Int, x \in Int : m = a \div Interval /\ x = Interval * m /\ x <= a
  BY Quotient
<1>2. PICK n \in Int, y \in Int : n = b \div Interval /\ y = Interval * n /\ b < y + Interval
  BY Quotient
<1>3. Interval * m <= b /\ b < Interval * n + Interval
  BY <1>1, <1>2, Constants
<1> QED BY <1>1, <1>2, <1>3, QuotientBound

LEMMA QuotientNext ==
    ASSUME NEW a \in Int
    PROVE  (a - Interval) \div Interval + 1 = a \div Interval
<1>1. Interval \in Nat \ {0}
  BY Constants
<1>2. PICK m \in Int, x \in Int : m = a \div Interval /\ x = Interval * m /\ x <= a /\ a < x + Interval
  BY Quotient
<1>3. PICK n \in Int, y \in Int : /\ n = (a - Interval) \div Interval /\ y = Interval * n
                                  /\ y <= a - Interval /\ a - Interval < y + Interval
  BY <1>1, Quotient
<1>4. Interval * (n + 1) = y + Interval
  BY <1>1, <1>3
<1>5. n + 1 <= m
  <2>1. Interval * (n + 1) <= a /\ a < Interval * m + Interval
    BY <1>1, <1>2, <1>3, <1>4
  <2> QED BY <2>1, QuotientBound
<1>6. m <= n + 1
  <2>1. Interval * m <= a /\ a < Interval * (n + 1) + Interval
    BY <1>1, <1>2, <1>3, <1>4
  <2> QED BY <2>1, QuotientBound
<1> QED BY <1>2, <1>3, <1>5, <1>6

LEMMA TicksLate == ASSUME NEW l \in Int, NEW y \in Int, y > l PROVE Ticks(l, y) = 0
BY DEF Ticks

LEMMA TicksSoon ==
    ASSUME NEW l \in Int, NEW y \in Int
    PROVE  /\ Ticks(l, y) \in Nat
           /\ \A z \in Int : y <= z => Ticks(l, z) <= Ticks(l, y)
           /\ y <= l => Ticks(l, y) = 1 + Ticks(l, y + Interval)
           /\ \A d \in Nat : l - y <= d => Ticks(l, y) <= 1 + d \div Interval
<1>1. Interval \in Nat \ {0}
  BY Constants
<1>2. 0 \div Interval = 0
  BY <1>1
<1>3. ASSUME NEW d \in Nat PROVE d \div Interval \in Nat
  <2>1. d \div Interval \in Int /\ 0 \div Interval <= d \div Interval
    BY Quotient, QuotientMonotone
  <2> QED BY <1>2, <2>1
<1>4. ASSUME NEW z \in Int PROVE Ticks(l, z) \in Nat
  <2>1. CASE z > l
    BY <2>1 DEF Ticks
  <2>2. CASE ~ (z > l)
    <3>1. l - z \in Nat
      BY <2>2
    <3>2. (l - z) \div Interval \in Nat
      BY <1>3, <3>1
    <3> QED BY <2>2, <3>2 DEF Ticks
  <2> QED BY <2>1, <2>2
<1>5. ASSUME NEW z \in Int, y <= z PROVE Ticks(l, z) <= Ticks(l, y)
  <2>1. CASE z > l
    BY <1>4, <2>1 DEF Ticks
  <2>2. CASE ~ (z > l)
    <3>1. ~ (y > l) /\ l - z <= l - y /\ l - z \in Int /\ l - y \in Int
      BY <1>5, <2>2
    <3>2. (l - z) \div Interval <= (l - y) \div Interval
      BY <3>1, QuotientMonotone
    <3>3. (l - z) \div Interval \in Int /\ (l - y) \div Interval \in Int
      BY <3>1, Quotient
    <3> QED BY <2>2, <3>1, <3>2, <3>3 DEF Ticks
  <2> QED BY <2>1, <2>2
<1>6. ASSUME y <= l PROVE Ticks(l, y) = 1 + Ticks(l, y + Interval)
  <2>1. CASE y + Interval > l
    <3>1. l - y \in 0..(Interval - 1)
      BY <1>1, <1>6, <2>1
    <3>2. (l - y) \div Interval = 0
      BY <1>1, <3>1
    <3> QED BY <1>6, <2>1, <3>2 DEF Ticks
  <2>2. CASE ~ (y + Interval > l)
    <3>1. l - (y + Interval) = (l - y) - Interval /\ l - y \in Int
      BY <1>1
    <3>2. ((l - y) - Interval) \div Interval + 1 = (l - y) \div Interval
      BY <3>1, QuotientNext
    <3>3. ((l - y) - Interval) \div Interval \in Int /\ (l - y) \div Interval \in Int
      BY <1>1, <3>1, Quotient
    <3>4. Ticks(l, y) = 1 + (l - y) \div Interval /\ Ticks(l, y + Interval) = 1 + ((l - y) - Interval) \div Interval
      BY <1>6, <2>2, <3>1 DEF Ticks
    <3> QED BY <3>2, <3>3, <3>4
  <2> QED BY <2>1, <2>2
<1>7. ASSUME NEW d \in Nat, l - y <= d PROVE Ticks(l, y) <= 1 + d \div Interval
  <2>1. CASE y > l
    BY <1>3, <2>1 DEF Ticks
  <2>2. CASE ~ (y > l)
    <3>1. (l - y) \div Interval <= d \div Interval /\ (l - y) \div Interval \in Int
      BY <1>7, Quotient, QuotientMonotone
    <3> QED BY <1>3, <2>2, <3>1 DEF Ticks
  <2> QED BY <2>1, <2>2
<1> QED BY <1>4, <1>5, <1>6, <1>7

LEMMA PollsBounds ==
    ASSUME NEW l \in Int, NEW t, NEW x \in Int, NEW y \in Int
    PROVE  /\ Polls(l, t, x, y) \in Nat /\ Polls(l, t, x, y) >= 1
           /\ \A u, z \in Int : x <= u /\ y <= z => Polls(l, t, u, z) <= Polls(l, t, x, y)
           /\ x > l /\ y > l => Polls(l, t, x, y) = 1
           /\ \A d \in Nat : l - y <= d => Polls(l, t, x, y) <= 3 + d \div Interval
<1>1. \A z \in Int : Ticks(l, z) \in Nat /\ (y <= z => Ticks(l, z) <= Ticks(l, y))
  BY TicksSoon
<1>2. Polls(l, t, x, y) \in Nat /\ Polls(l, t, x, y) >= 1
  BY <1>1 DEF Polls
<1>3. ASSUME NEW u \in Int, NEW z \in Int, x <= u, y <= z PROVE Polls(l, t, u, z) <= Polls(l, t, x, y)
  <2>1. Ticks(l, z) \in Nat /\ Ticks(l, y) \in Nat /\ Ticks(l, z) <= Ticks(l, y)
    BY <1>1, <1>3
  <2>2. u > l \/ ~ (x > l)
    BY <1>3
  <2> QED BY <2>1, <2>2 DEF Polls
<1>4. ASSUME x > l, y > l PROVE Polls(l, t, x, y) = 1
  BY <1>4, TicksLate DEF Polls
<1>5. ASSUME NEW d \in Nat, l - y <= d PROVE Polls(l, t, x, y) <= 3 + d \div Interval
  <2>1. Ticks(l, y) <= 1 + d \div Interval /\ Ticks(l, y) \in Nat
    BY <1>5, TicksSoon
  <2>2. d \div Interval \in Int
    BY Quotient
  <2> QED BY <2>1, <2>2 DEF Polls
<1> QED BY <1>2, <1>3, <1>4, <1>5

Polling == TypeInv /\ poller \in {"mailcow", "alerts"}

LEMMA PollNumbers ==
    ASSUME Polling
    PROVE  /\ Overlap \in Nat /\ Overlaps \in Nat /\ Overlaps = 4 + Overlap \div Interval
           /\ now \in Nat /\ tick \in Int /\ lastTick \in Nat /\ lastTick <= now /\ tick <= lastTick
           /\ Soonest \in Int /\ now <= Soonest /\ Turn \in Int /\ restarts \in Nat
           /\ since \in Int /\ mark \in Int /\ asked \in Int /\ span \in Int
           /\ \A k \in Items : /\ stamp[k] \in Int /\ LastStart(k) \in Int
                               /\ stamp[k] # Never => stamp[k] \in 0..now
                               /\ Coming(k) \in Nat /\ Coming(k) >= 1
<1>1. Overlap \in Nat
  BY Constants DEF Overlap
<1>2. Overlap \div Interval \in Nat
  <2>1. 0 \div Interval <= Overlap \div Interval /\ Overlap \div Interval \in Int
    BY <1>1, Quotient, QuotientMonotone
  <2>2. 0 \div Interval = 0
    BY Constants
  <2> QED BY <2>1, <2>2
<1>3. /\ now \in Nat /\ tick \in Int /\ lastTick \in Nat /\ lastTick <= now /\ tick <= lastTick
      /\ restarts \in Nat
  BY Constants DEF Polling, TypeInv, ChannelInv, ClockInv, Never
<1>4. Soonest \in Int /\ now <= Soonest
  BY <1>3, Constants DEF Soonest
<1>5. Turn \in Int
  BY <1>3 DEF Turn
<1>6. \A k \in Items : /\ stamp[k] \in Int /\ (stamp[k] # Never => stamp[k] \in 0..now)
  BY <1>3 DEF Polling, TypeInv, ChannelInv, Never
<1>7. \A k \in Items : LastStart(k) \in Int
  BY <1>1, <1>6 DEF LastStart
<1>8. \A k \in Items : Coming(k) \in Nat /\ Coming(k) >= 1
  BY <1>4, <1>5, <1>7, PollsBounds DEF Coming
<1>9. since \in Int /\ mark \in Int /\ asked \in Int /\ span \in Int
  BY DEF Polling, TypeInv, PollTypes
<1> QED BY <1>1, <1>2, <1>3, <1>4, <1>5, <1>6, <1>7, <1>8, <1>9 DEF Overlaps

(* The polls still to come: a tick, or time, makes them no more, and the   *)
(* poll that begins is one of them.                                        *)
LEMMA ComingSame ==
    ASSUME NEW k, UNCHANGED << poller, now, tick, lastTick >>, stamp'[k] = stamp[k]
    PROVE  Coming(k)' = Coming(k) /\ LastStart(k)' = LastStart(k)
BY DEF Coming, Polls, Ticks, LastStart, Overlap, Turn, Soonest

LEMMA ComingBegun ==
    ASSUME Polling, NEW k \in Items, TakeTick, UNCHANGED << poller, stamp >>
    PROVE  /\ LastStart(k)' = LastStart(k)
           /\ Coming(k)' \in Nat /\ Coming(k)' >= 1
           /\ Turn <= LastStart(k) => Coming(k) = 1 + Coming(k)'
<1> DEFINE l == LastStart(k)
           y == Soonest
<1>1. l \in Int /\ y \in Int
  BY PollNumbers
<1>2. tick # Never /\ tick' = Never /\ UNCHANGED << now, lastTick >>
  BY DEF TakeTick
<1>3. LastStart(k)' = l /\ Soonest' = y
  BY <1>2 DEF LastStart, Overlap, Soonest
<1>4. Coming(k)' = Polls(l, Never, Turn', y)
  BY <1>2, <1>3 DEF Coming
<1>5. Coming(k) = Polls(l, tick, Turn, y)
  BY DEF Coming
<1> HIDE DEF l, y
<1>6. Coming(k)' = 1 + Ticks(l, y)
  BY <1>4 DEF Polls
<1>7. Turn <= l => Coming(k) = 1 + (1 + Ticks(l, y))
  <2>1. Turn \in Int
    BY PollNumbers
  <2> QED BY <1>1, <1>2, <1>5, <2>1 DEF Polls
<1>8. Ticks(l, y) \in Nat
  BY <1>1, TicksSoon
<1> QED BY <1>3, <1>6, <1>7, <1>8 DEF l

LEMMA ComingLess ==
    ASSUME Polling, NEW k \in Items, InTime(k), Ticker \/ Advance \/ Receive, UNCHANGED poller
    PROVE  /\ LastStart(k)' = LastStart(k) /\ Coming(k)' \in Nat /\ Coming(k)' <= Coming(k)
           /\ now' \in Nat /\ now <= now'
<1> DEFINE l == LastStart(k)
<1>0. UNCHANGED stamp
  BY DEF Ticker, Advance, Receive, history
<1>1. /\ l \in Int /\ Soonest \in Int /\ Turn \in Int /\ now \in Nat /\ tick \in Int /\ lastTick \in Nat
      /\ Coming(k) \in Nat /\ lastTick <= now
  BY PollNumbers
<1>2. LastStart(k)' = l
  BY <1>0 DEF LastStart, Overlap
<1>3. Coming(k) = Polls(l, tick, Turn, Soonest) /\ Coming(k)' = Polls(l, tick', Turn', Soonest')
  BY <1>2 DEF Coming
<1>4. Interval \in Nat \ {0}
  BY Constants
<1> HIDE DEF l
<1>5. CASE Receive
  <2>1. UNCHANGED << now, tick, lastTick >>
    BY <1>5 DEF Receive, clock
  <2>2. Coming(k)' = Coming(k)
    BY <1>0, <2>1, ComingSame
  <2> QED BY <1>1, <1>2, <2>1, <2>2 DEF l
<1>6. CASE Advance
  <2>1. now' = now + 1 /\ UNCHANGED << tick, lastTick >>
    BY <1>6 DEF Advance
  <2>2. Soonest' \in Int /\ Soonest <= Soonest'
    BY <1>1, <1>4, <2>1 DEF Soonest
  <2>3. Turn' \in Int /\ Turn <= Turn'
    BY <1>1, <2>1 DEF Turn
  <2>4. Coming(k)' = Polls(l, tick, Turn', Soonest')
    BY <1>3, <2>1
  <2>5. PICK x \in Int, y \in Int : x = Turn' /\ y = Soonest'
    BY <2>2, <2>3
  <2>6. Polls(l, tick, x, y) <= Polls(l, tick, Turn, Soonest) /\ Polls(l, tick, x, y) \in Nat
    BY <1>1, <2>2, <2>3, <2>5, PollsBounds
  <2> QED BY <1>1, <1>2, <1>3, <2>1, <2>4, <2>5, <2>6 DEF l
<1>a. CASE Ticker /\ ~ (now - lastTick >= Interval)
  <2>1. now = MaxNow /\ tick = Never /\ lastTick' = now /\ tick' = now /\ UNCHANGED now
    BY <1>a DEF Ticker
  <2>2. now > l /\ now # Never
    BY <1>1, <2>1, Constants DEF InTime, l, Never
  <2>3. Turn' = now
    BY <2>1 DEF Turn
  <2>4. Coming(k)' = 1
    BY <1>3, <2>1, <2>2, <2>3 DEF Polls
  <2>5. Coming(k) >= 1
    BY PollNumbers
  <2> QED BY <1>1, <1>2, <2>1, <2>4, <2>5 DEF l
<1>7. CASE Ticker /\ now - lastTick >= Interval
  <2>1. /\ now - lastTick >= Interval /\ lastTick' = now /\ tick' = (IF tick = Never THEN now ELSE tick)
        /\ UNCHANGED now
    BY <1>7, <1>1, Constants DEF Ticker
  <2>2. Soonest = now
    BY <1>1, <1>4, <2>1 DEF Soonest
  <2>3. Soonest' = now + Interval
    BY <1>1, <1>4, <2>1 DEF Soonest
  <2>4. CASE tick = Never
    <3>1. tick' = now /\ Turn' = now /\ now # Never
      BY <1>1, <2>1, <2>4 DEF Turn, Never
    <3>2. Coming(k)' = 1 + (IF now > l THEN 0 ELSE 1 + Ticks(l, now + Interval))
      BY <1>3, <2>3, <3>1 DEF Polls
    <3>3. Coming(k) = 1 + Ticks(l, now)
      BY <1>3, <2>2, <2>4 DEF Polls
    <3>4. Ticks(l, now) \in Nat /\ Ticks(l, now + Interval) \in Nat
          /\ (now <= l => Ticks(l, now) = 1 + Ticks(l, now + Interval))
      <4>1. now \in Int /\ now + Interval \in Int
        BY <1>1, <1>4
      <4> QED BY <1>1, <4>1, TicksSoon
    <3>5. Coming(k)' \in Nat /\ Coming(k)' <= Coming(k)
      BY <1>1, <3>2, <3>3, <3>4
    <3> QED BY <1>1, <1>2, <2>1, <3>5 DEF l
  <2>5. CASE tick # Never
    <3>1. tick' = tick /\ Turn' = Turn
      BY <2>1, <2>5 DEF Turn
    <3>2. Coming(k)' = Polls(l, tick, Turn, now + Interval)
      BY <1>3, <2>3, <3>1
    <3>3. now + Interval \in Int /\ now <= now + Interval
      BY <1>1, <1>4
    <3>4. Polls(l, tick, Turn, now + Interval) <= Polls(l, tick, Turn, now)
          /\ Polls(l, tick, Turn, now + Interval) \in Nat
      BY <1>1, <3>3, PollsBounds
    <3> QED BY <1>1, <1>2, <1>3, <2>1, <2>2, <3>2, <3>4 DEF l
  <2> QED BY <2>4, <2>5
<1> QED BY <1>5, <1>6, <1>7, <1>a

(* No more polls fetch an item than the windows overlap.                   *)
LEMMA FetchesFew ==
    ASSUME Polling, NEW k \in Items
    PROVE  Fetches(k) \in Nat /\ Fetches(k) <= Overlaps
<1>1. Coming(k) \in Nat /\ Overlaps \in Nat /\ Overlap \in Nat /\ Overlaps = 4 + Overlap \div Interval
      /\ LastStart(k) \in Int /\ Soonest \in Int /\ now <= Soonest /\ Turn \in Int /\ now \in Nat
      /\ stamp[k] \in Int /\ (stamp[k] # Never => stamp[k] \in 0..now)
  BY PollNumbers
<1>2. Fetches(k) \in Nat
  BY <1>1 DEF Fetches, If
<1>3. ASSUME stamp[k] # Never PROVE Coming(k) + 1 <= Overlaps
  <2>1. LastStart(k) - Soonest <= Overlap
    BY <1>1, <1>3 DEF LastStart
  <2>2. Coming(k) <= 3 + Overlap \div Interval
    BY <1>1, <2>1, PollsBounds DEF Coming
  <2>3. Overlap \div Interval \in Int
    BY <1>1, Quotient
  <2> QED BY <1>1, <2>2, <2>3
<1>4. Fetches(k) <= Overlaps
  BY <1>1, <1>3 DEF Fetches, If
<1> QED BY <1>2, <1>4

FewFetches == Overlaps \in Nat /\ \A k \in Items : Fetches(k) \in Nat /\ Fetches(k) <= Overlaps

LEMMA FetchesAreFew == Polling => FewFetches
BY FetchesFew, PollNumbers DEF FewFetches

LEMMA FetchesLater == ASSUME Polling, Next PROVE FewFetches'
<1>1. Polling'
  BY SamePoller, NextTypes DEF Polling
<1> QED BY <1>1, FetchesAreFew, PTL

LEMMA PollSum ==
    ASSUME Polling, Next, NEW k \in Items, PollBudget(k), NEW u \in Nat, UNCHANGED restarts,
           Underway(k)' <= Underway(k) + u,
           u + One(k \in todo') + Fetches(k)' <= One(k \in todo) + Fetches(k)
    PROVE  PollBudget(k)'
<1>1. /\ Underway(k) \in Nat /\ Underway(k)' \in Nat /\ Fetches(k) \in Nat /\ Fetches(k)' \in Nat
      /\ One(k \in todo) \in Nat /\ One(k \in todo') \in Nat /\ Overlaps \in Nat /\ restarts \in Nat
  BY UnderwayNat, UnderwayLater, FetchesFew, FetchesLater, PollNumbers DEF Polling, FewFetches, One
<1>2. Overlaps' = Overlaps
  BY SamePoller DEF Overlaps, Overlap
<1>3. PICK w \in Nat, w1 \in Nat, f \in Nat, f1 \in Nat, t \in Nat, t1 \in Nat, o \in Nat, r \in Nat :
        /\ w = Underway(k) /\ w1 = Underway(k)' /\ f = Fetches(k) /\ f1 = Fetches(k)'
        /\ t = One(k \in todo) /\ t1 = One(k \in todo') /\ o = Overlaps /\ r = restarts
  BY <1>1, Zenon
<1>4. w + t + f <= o * (1 + r) /\ w1 <= w + u /\ u + t1 + f1 <= t + f
  BY <1>3, Zenon DEF PollBudget
<1>5. PICK b \in Int : b = o * (1 + r)
  OBVIOUS
<1>6. w1 + t1 + f1 <= b
  BY <1>4, <1>5
<1> QED BY <1>2, <1>3, <1>5, <1>6, Zenon DEF PollBudget, One


(* The windows of mailcow's polls begin one after the other.               *)
LEMMA WindowsMove ==
    ASSUME Polling, poller = "mailcow", kind = "poll", WindowInv, Next
    PROVE  WindowInv'
<1>1. /\ now \in Nat /\ tick \in Int /\ lastTick \in Nat /\ lastTick <= now /\ tick <= lastTick
      /\ Interval \in Nat
  BY PollNumbers, Constants
<1>2. /\ stage \in {"idle", "postfix", "postfixSend", "dovecot", "dovecotSend"}
      /\ todo # {} => stage \in {"postfixSend", "dovecotSend"}
      /\ Ticked(since)
      /\ stage # "idle" => Ticked(mark) /\ since <= mark
  BY DEF WindowInv
<1>3. ASSUME NEW x, Ticked(x), UNCHANGED lastTick, tick' \in {tick, Never}
      PROVE  \E u \in Int : x = Format(u) /\ u <= lastTick' /\ (tick' # Never => u <= tick')
  BY <1>3 DEF Ticked
<1>4. CASE MailcowPoll
  <2>1. /\ stage = "idle" /\ stage' = "postfix" /\ mark' = Format(tick) /\ tick # Never /\ tick' = Never
        /\ UNCHANGED << lastTick, since, todo >>
    BY <1>4 DEF MailcowPoll, TakeTick
  <2>2. PICK u \in Int : since = Format(u) /\ u <= tick
    BY <1>2, <2>1 DEF Ticked
  <2>3. since <= mark'
    BY <1>1, <2>1, <2>2, FormatMonotone
  <2>4. \E v \in Int : mark' = Format(v) /\ v <= lastTick' /\ (tick' # Never => v <= tick')
    <3>1. tick \in Int /\ tick <= lastTick'
      BY <1>1, <2>1
    <3> QED BY <2>1, <3>1, Zenon
  <2>5. Ticked(since)' /\ Ticked(mark)'
    BY <1>2, <1>3, <2>1, <2>4 DEF Ticked
  <2> QED BY <1>2, <2>1, <2>3, <2>5 DEF WindowInv
<1>5. CASE UNCHANGED << now, tick, lastTick >> /\ (FetchLogs \/ LogsDone \/ \E k \in Items : SendLogged(k))
  <2>1. \A x : Ticked(x) => \E u \in Int : x = Format(u) /\ u <= lastTick' /\ (tick' # Never => u <= tick')
    BY <1>5, <1>3
  <2>2. CASE FetchLogs
    <3>1. UNCHANGED << since, mark >> /\ stage \in {"postfix", "dovecot"} /\ stage' \in {"postfixSend", "dovecotSend"}
      BY <2>2 DEF FetchLogs
    <3>2. Ticked(since)' /\ Ticked(mark)'
      BY <1>2, <2>1, <3>1 DEF Ticked
    <3> QED BY <1>2, <3>1, <3>2 DEF WindowInv
  <2>3. CASE LogsDone
    <3>1. /\ stage \in {"postfixSend", "dovecotSend"} /\ UNCHANGED << mark, todo >> /\ todo = {}
          /\ stage' = (IF stage = "postfixSend" THEN "dovecot" ELSE "idle")
          /\ since' = (IF stage = "postfixSend" THEN since ELSE mark)
      BY <2>3 DEF LogsDone, NextSince
    <3>2. Ticked(since)' /\ Ticked(mark)'
      BY <1>2, <2>1, <3>1 DEF Ticked
    <3> QED BY <1>2, <3>1, <3>2 DEF WindowInv
  <2>4. CASE \E k \in Items : SendLogged(k)
    <3>1. UNCHANGED << since, mark, stage >> /\ todo' \subseteq todo
      BY <2>4 DEF SendLogged, SendNext
    <3>2. Ticked(since)' /\ (stage # "idle" => Ticked(mark)')
      BY <1>2, <2>1, <3>1 DEF Ticked
    <3> QED BY <1>2, <3>1, <3>2 DEF WindowInv
  <2> QED BY <1>5, <2>2, <2>3, <2>4
<1>6. CASE UNCHANGED << now, tick, lastTick, stage, todo, since, mark >>
  <2>1. Ticked(since)' /\ (stage # "idle" => Ticked(mark)')
    BY <1>2, <1>6, <1>3 DEF Ticked
  <2> QED BY <1>2, <1>6, <2>1 DEF WindowInv
<1>7. CASE (Ticker \/ Advance) /\ UNCHANGED pollState
  <2>1. UNCHANGED << stage, todo, since, mark >>
    BY <1>7 DEF pollState
  <2>2. lastTick' \in Nat /\ lastTick <= lastTick' /\ (tick' = tick \/ (tick = Never /\ tick' = now /\ lastTick <= now))
    BY <1>1, <1>7 DEF Ticker, Advance
  <2>3. ASSUME NEW x, Ticked(x)
        PROVE  \E u \in Int : x = Format(u) /\ u <= lastTick' /\ (tick' # Never => u <= tick')
    <3>1. PICK u \in Int : x = Format(u) /\ u <= lastTick /\ (tick # Never => u <= tick)
      BY <2>3 DEF Ticked
    <3>2. u <= lastTick' /\ (tick' # Never => u <= tick')
      BY <1>1, <2>2, <3>1
    <3> QED BY <3>1, <3>2
  <2>4. Ticked(since)' /\ (stage # "idle" => Ticked(mark)')
    BY <1>2, <2>1, <2>3 DEF Ticked
  <2> QED BY <1>2, <2>1, <2>4 DEF WindowInv
<1>8. CASE Restart
  <2>1. /\ stage' = "idle" /\ todo' = {} /\ since' = Format(now - Interval) /\ tick' = Never /\ lastTick' = now
    BY <1>8 DEF Restart, PollRestart
  <2>2. \E v \in Int : since' = Format(v) /\ v <= lastTick' /\ (tick' # Never => v <= tick')
    <3>1. now - Interval \in Int /\ now - Interval <= now
      BY <1>1
    <3> QED BY <2>1, <3>1
  <2>3. Ticked(since)'
    BY <2>2 DEF Ticked
  <2> QED BY <2>1, <2>3 DEF WindowInv
<1>9. CASE PollStep
  <2>1. WindowStep
    BY <1>2, <1>9, PollerSteps DEF Polling
  <2>2. FetchLogs \/ LogsDone \/ (\E k \in Items : SendLogged(k)) => UNCHANGED << now, tick, lastTick >>
    BY DEF FetchLogs, LogsDone, SendLogged, clock
  <2> QED BY <1>4, <1>5, <2>1, <2>2 DEF WindowStep
<1>10. CASE (Receive /\ UNCHANGED pollState) \/ \E k \in Items : Log(k) \/ Ban(k) \/ Unban(k)
  <2>1. UNCHANGED << now, tick, lastTick, stage, todo, since, mark >>
    BY <1>10 DEF Receive, Log, Ban, Unban, clock, pollState
  <2> QED BY <1>6, <2>1
<1> QED BY <1>7, <1>8, <1>9, <1>10, Steps


(* The alerts' windows: lastAlert, the query, LAPI's answer, its decoding. *)
LEMMA AlertsMove ==
    ASSUME Polling, poller = "alerts", kind = "poll", AlertsInv, Next
    PROVE  AlertsInv'
<1>1. /\ now \in Nat /\ since \in Int /\ mark \in Int /\ asked \in Int /\ span \in Int
      /\ Interval \in Nat \ {0} /\ Buffer \in Nat
  BY PollNumbers, Constants
<1>2. /\ stage \in {"idle", "asked", "answered", "alertsSend"}
      /\ todo # {} => stage \in {"answered", "alertsSend"}
      /\ since <= now
      /\ stage # "idle" => asked \in 0..now /\ (since < 0 \/ span <= asked - since + Buffer)
      /\ stage \in {"answered", "alertsSend"} => mark \in 0..now /\ since <= mark
  BY DEF AlertsInv
<1>3. CASE AskAlerts
  <2>1. /\ stage = "idle" /\ stage' = "asked" /\ asked' = now /\ UNCHANGED << now, since, todo >>
        /\ span' = IF since < 0 THEN FirstSpan ELSE Format(now - since + Buffer)
    BY <1>3 DEF AskAlerts, TakeTick, SinceSpan
  <2>2. since < 0 \/ span' <= now - since + Buffer
    BY <1>1, <2>1, FormatBounds
  <2> QED BY <1>1, <1>2, <2>1, <2>2 DEF AlertsInv
<1>4. CASE AnswerAlerts
  <2>1. stage = "asked" /\ stage' = "answered" /\ mark' = now /\ UNCHANGED << now, since, asked, span >>
    BY <1>4 DEF AnswerAlerts, clock
  <2> QED BY <1>1, <1>2, <2>1 DEF AlertsInv
<1>5. CASE DecodeAlerts
  <2>1. stage = "answered" /\ stage' = "alertsSend" /\ mark' = now /\ UNCHANGED << now, since, asked, span, todo >>
    BY <1>5 DEF DecodeAlerts, clock
  <2> QED BY <1>1, <1>2, <2>1 DEF AlertsInv
<1>6. CASE AlertsFail
  <2>1. stage' = "idle" /\ todo' = {} /\ UNCHANGED << now, since >>
    BY <1>6 DEF AlertsFail, clock
  <2> QED BY <1>1, <1>2, <2>1 DEF AlertsInv
<1>7. CASE AlertsDone
  <2>1. stage = "alertsSend" /\ stage' = "idle" /\ todo = {} /\ since' = mark /\ UNCHANGED << now, todo >>
    BY <1>7 DEF AlertsDone, NextSince, clock
  <2> QED BY <1>1, <1>2, <2>1 DEF AlertsInv
<1>8. CASE \E k \in Items : SendLogged(k)
  <2>1. todo' \subseteq todo /\ UNCHANGED << now, stage, since, mark, asked, span >>
    BY <1>8 DEF SendLogged, SendNext, clock
  <2> QED BY <1>2, <2>1 DEF AlertsInv
<1>9. CASE ((Ticker \/ Advance \/ Receive) /\ UNCHANGED pollState) \/ \E k \in Items : Log(k) \/ Ban(k) \/ Unban(k)
  <2>1. now' \in Nat /\ now <= now' /\ UNCHANGED << todo, stage, since, mark, asked, span >>
    BY <1>1, <1>9 DEF Ticker, Advance, Receive, Log, Ban, Unban, clock, pollState
  <2> QED BY <1>1, <1>2, <2>1 DEF AlertsInv
<1>10. CASE Restart
  <2>1. stage' = "idle" /\ todo' = {} /\ since' = Format(0 - Interval) /\ UNCHANGED now
    BY <1>10 DEF Restart, PollRestart
  <2>2. since' <= now'
    <3>1. 0 - Interval \in Int /\ 0 - Interval <= now
      BY <1>1
    <3>2. Format(0 - Interval) \in Int /\ Format(0 - Interval) <= 0 - Interval
      BY <3>1, FormatBounds
    <3> QED BY <1>1, <2>1, <3>1, <3>2
  <2> QED BY <2>1, <2>2 DEF AlertsInv
<1>11. CASE PollStep
  <2>1. AlertsStep
    BY <1>2, <1>11, PollerSteps DEF Polling
  <2> QED BY <1>3, <1>4, <1>5, <1>6, <1>7, <1>8, <2>1 DEF AlertsStep
<1> QED BY <1>9, <1>10, <1>11, Steps


(* While the clock runs, the polls to come fetch no more.                  *)
LEMMA ClockCounts ==
    ASSUME Polling, Next, NEW k \in Items, PollBudget(k), InTime(k),
           Ticker \/ Advance \/ Receive, UNCHANGED pollState
    PROVE  PollBudget(k)'
<1>1. UNCHANGED << poller, stage, todo, since, mark >>
  BY DEF pollState
<1>2. UNCHANGED << stamp, restarts >> /\ Underway(k)' <= Underway(k)
  BY UnderwayShared DEF Polling
<1>3. /\ LastStart(k)' = LastStart(k) /\ Coming(k)' \in Nat /\ Coming(k)' <= Coming(k) /\ Coming(k) \in Nat
      /\ now' \in Nat /\ now <= now' /\ now \in Nat /\ LastStart(k) \in Int
  BY <1>1, ComingLess, PollNumbers
<1>4. \A x : Reaches(k, x)' = Reaches(k, x)
  BY <1>1, <1>2, <1>3 DEF Reaches
<1>5. Overlaps' = Overlaps /\ Overlaps \in Nat
  BY <1>1, PollNumbers DEF Overlaps, Overlap
<1>6. Unfetched(k)' = Unfetched(k)
  BY <1>1 DEF Unfetched
<1>7. Fetches(k)' <= Fetches(k)
  BY <1>1, <1>2, <1>3, <1>4, <1>5, <1>6 DEF Fetches, If
<1>8. Fetches(k) \in Nat /\ Fetches(k)' \in Nat /\ Underway(k) \in Nat
  BY FetchesFew, FetchesLater, UnderwayNat DEF FewFetches, Polling
<1>9. Underway(k)' <= Underway(k) + 0 /\ 0 + One(k \in todo') + Fetches(k)' <= One(k \in todo) + Fetches(k)
  BY <1>1, <1>2, <1>7, <1>8 DEF One
<1> QED BY <1>2, <1>9, PollSum


LEMMA PollQuiet ==
    ASSUME Polling, Next, NEW k \in Items, PollBudget(k), UNCHANGED << received, ch, restarts >>,
           One(k \in todo') + Fetches(k)' <= One(k \in todo) + Fetches(k)
    PROVE  PollBudget(k)'
<1>1. Underway(k)' = Underway(k) /\ Underway(k) \in Nat /\ Fetches(k) \in Nat /\ Fetches(k)' \in Nat
  BY UnderwaySame, UnderwayNat, FetchesFew, FetchesLater DEF FewFetches, Polling
<1>2. Underway(k)' <= Underway(k) + 0 /\ 0 + One(k \in todo') + Fetches(k)' <= One(k \in todo) + Fetches(k)
  BY <1>1 DEF One
<1> QED BY <1>2, PollSum

(* What the fetches are counted with, while the clock stands still.        *)
LEMMA Steady ==
    ASSUME Polling, NEW k \in Items, UNCHANGED << poller, now, tick, lastTick >>, stamp'[k] = stamp[k]
    PROVE  /\ LastStart(k)' = LastStart(k) /\ Coming(k)' = Coming(k) /\ Overlaps' = Overlaps
           /\ \A x : Reaches(k, x)' = Reaches(k, x)
<1>1. LastStart(k)' = LastStart(k) /\ Coming(k)' = Coming(k)
  BY ComingSame
<1> QED BY <1>1 DEF Overlaps, Overlap, Reaches

(* mailcow: the fetch of a window is counted when its poll begins.         *)
LEMMA MailcowCounts ==
    ASSUME Polling, Next, NEW k \in Items, PollBudget(k), WindowInv, poller = "mailcow", kind = "poll",
           MailcowPoll \/ FetchLogs \/ LogsDone
    PROVE  PollBudget(k)'
<1>1. /\ now \in Nat /\ tick \in Int /\ since \in Int /\ mark \in Int /\ stamp[k] \in Int
      /\ Coming(k) \in Nat /\ Coming(k) >= 1 /\ LastStart(k) \in Int /\ Overlaps \in Nat
  BY PollNumbers
<1>2. UNCHANGED << poller, received, ch, restarts, stamp >>
  BY SamePoller DEF MailcowPoll, FetchLogs, LogsDone, history
<1>3. Overlaps' = Overlaps
  BY <1>2 DEF Overlaps, Overlap
<1>4. CASE stamp[k] = Never
  <2>1. Fetches(k) = Overlaps /\ Fetches(k)' = Overlaps
    BY <1>2, <1>3, <1>4 DEF Fetches
  <2>2. k \notin todo /\ k \notin todo'
    <3>1. TypeInv'
      BY NextTypes DEF Polling
    <3>2. todo \subseteq Recent /\ todo' \subseteq Recent'
      BY <3>1 DEF TypeInv, PollTypes, Polling
    <3> QED BY <1>2, <1>4, <3>2 DEF Recent
  <2> QED BY <1>1, <1>2, <2>1, <2>2, PollQuiet DEF One
<1>5. CASE stamp[k] # Never /\ MailcowPoll
  <2>1. stage = "idle" /\ stage' = "postfix" /\ TakeTick /\ mark' = Format(tick) /\ UNCHANGED << since, todo >>
    BY <1>5 DEF MailcowPoll
  <2>2. Fetches(k) = If(since <= stamp[k], Coming(k))
    BY <1>5, <2>1 DEF Fetches, Reaches
  <2>3. Fetches(k)' = If(since <= stamp[k], 1) + If(mark' <= stamp[k], Coming(k)')
    BY <1>2, <1>5, <2>1 DEF Fetches, Reaches, Unfetched, If
  <2>4. /\ Coming(k)' \in Nat /\ Coming(k)' >= 1
        /\ tick <= LastStart(k) => Coming(k) = 1 + Coming(k)'
    BY <1>2, <2>1, ComingBegun DEF Turn
  <2>5. mark' \in Int /\ tick <= mark' + (Second - 1) /\ Second \in Int
    BY <1>1, <2>1, FormatBounds, Constants
  <2>6. mark' <= stamp[k] => tick <= LastStart(k)
    <3>1. LastStart(k) = stamp[k] + (Second - 1)
      BY DEF LastStart, Overlap
    <3>2. PICK m \in Int, s \in Int, t \in Int, d \in Int : m = mark' /\ s = stamp[k] /\ t = tick /\ d = Second
      BY <1>1, <2>5, Zenon
    <3>3. t <= m + (d - 1)
      BY <2>5, <3>2, Zenon
    <3>4. m <= s => t <= s + (d - 1)
      BY <3>3
    <3> QED BY <3>1, <3>2, <3>4, Zenon
  <2>7. since <= mark'
    <3>1. WindowInv'
      BY WindowsMove
    <3> QED BY <2>1, <3>1 DEF WindowInv
  <2>8. Fetches(k)' <= Fetches(k)
    BY <1>1, <2>2, <2>3, <2>4, <2>5, <2>6, <2>7 DEF If
  <2> QED BY <1>2, <2>1, <2>8, PollQuiet, FetchesFew, FetchesLater DEF One, FewFetches
<1>6. CASE stamp[k] # Never /\ FetchLogs
  <2>1. /\ stage \in {"postfix", "dovecot"} /\ todo = {} /\ UNCHANGED << since, mark, now, tick, lastTick >>
        /\ stage' = (IF stage = "postfix" THEN "postfixSend" ELSE "dovecotSend")
    BY <1>6 DEF FetchLogs, clock
  <2>2. k \in todo' => Container(k) = stage /\ since <= stamp[k]
    BY <1>1, <1>6, <2>1 DEF FetchLogs, InWindow, Yielded
  <2>3. Coming(k)' = Coming(k) /\ \A x : Reaches(k, x)' = Reaches(k, x)
    BY <1>2, <2>1, Steady
  <2>4. /\ Fetches(k) = If(Unfetched(k) /\ Reaches(k, since), 1) + If(Reaches(k, mark), Coming(k))
        /\ Fetches(k)' = If(Unfetched(k)' /\ Reaches(k, since), 1) + If(Reaches(k, mark), Coming(k))
    BY <1>2, <1>6, <2>1, <2>3 DEF Fetches, If
  <2>5. k \in todo' => Unfetched(k) /\ ~ Unfetched(k)' /\ Reaches(k, since)
    BY <2>1, <2>2 DEF Unfetched, Reaches
  <2>6. Unfetched(k)' => Unfetched(k)
    BY <2>1 DEF Unfetched
  <2>7. One(k \in todo') + Fetches(k)' <= One(k \in todo) + Fetches(k)
    BY <1>1, <2>1, <2>4, <2>5, <2>6 DEF One, If
  <2> QED BY <1>2, <2>7, PollQuiet
<1>7. CASE stamp[k] # Never /\ LogsDone
  <2>1. /\ stage \in {"postfixSend", "dovecotSend"} /\ UNCHANGED << mark, todo, now, tick, lastTick >>
        /\ stage' = (IF stage = "postfixSend" THEN "dovecot" ELSE "idle")
        /\ since' = (IF stage = "postfixSend" THEN since ELSE mark)
    BY <1>7 DEF LogsDone, NextSince, clock
  <2>2. Coming(k)' = Coming(k) /\ \A x : Reaches(k, x)' = Reaches(k, x)
    BY <1>2, <2>1, Steady
  <2>3. Fetches(k) = If(Unfetched(k) /\ Reaches(k, since), 1) + If(Reaches(k, mark), Coming(k))
    BY <1>7, <2>1 DEF Fetches
  <2>4. Fetches(k)' <= Fetches(k)
    <3>1. CASE stage = "postfixSend"
      <4>1. Fetches(k)' = If(Unfetched(k)' /\ Reaches(k, since), 1) + If(Reaches(k, mark), Coming(k))
        BY <1>2, <1>7, <2>1, <2>2, <3>1 DEF Fetches, If
      <4>2. Unfetched(k)' = Unfetched(k)
        BY <2>1, <3>1 DEF Unfetched
      <4> QED BY <1>1, <2>3, <4>1, <4>2 DEF If
    <3>2. CASE stage = "dovecotSend"
      <4>1. Fetches(k)' = If(Reaches(k, mark), Coming(k))
        BY <1>2, <1>7, <2>1, <2>2, <3>2 DEF Fetches, If
      <4> QED BY <1>1, <2>3, <4>1 DEF If
    <3> QED BY <2>1, <3>1, <3>2
  <2> QED BY <1>2, <2>1, <2>4, PollQuiet, FetchesFew, FetchesLater DEF One, FewFetches
<1> QED BY <1>4, <1>5, <1>6, <1>7


(* Alerts: a query fetches what its span holds, and one that failed, or    *)
(* came back without an item, may be made again.                           *)
LEMMA AlertsCounts ==
    ASSUME Polling, Next, NEW k \in Items, PollBudget(k), AlertsInv, poller = "alerts", kind = "poll",
           AskAlerts \/ AnswerAlerts \/ DecodeAlerts \/ AlertsFail \/ AlertsDone
    PROVE  PollBudget(k)'
<1>1. /\ now \in Nat /\ since \in Int /\ mark \in Int /\ asked \in Int /\ span \in Int /\ stamp[k] \in Int
      /\ Coming(k) \in Nat /\ Coming(k) >= 1 /\ LastStart(k) \in Int /\ Overlaps \in Nat
      /\ Soonest \in Int /\ now <= Soonest /\ Buffer \in Nat
  BY PollNumbers, Constants
<1>2. UNCHANGED << poller, received, ch, restarts, stamp, now, lastTick >>
  BY SamePoller DEF AskAlerts, AnswerAlerts, DecodeAlerts, AlertsFail, AlertsDone, TakeTick, clock, history
<1>3. Overlaps' = Overlaps
  BY <1>2 DEF Overlaps, Overlap
<1>4. /\ since <= now
      /\ todo # {} => stage \in {"answered", "alertsSend"}
      /\ stage # "idle" => asked \in 0..now /\ (since < 0 \/ span <= asked - since + Buffer)
  BY DEF AlertsInv
<1>5. \A x : Reaches(k, x) = (x < 0 \/ x <= LastStart(k))
  BY DEF Reaches
<1>6. CASE stamp[k] = Never
  <2>1. Fetches(k) = Overlaps /\ Fetches(k)' = Overlaps
    BY <1>2, <1>3, <1>6 DEF Fetches
  <2>2. k \notin todo /\ k \notin todo'
    <3>1. TypeInv'
      BY NextTypes DEF Polling
    <3>2. todo \subseteq Recent /\ todo' \subseteq Recent'
      BY <3>1 DEF TypeInv, PollTypes, Polling
    <3> QED BY <1>2, <1>6, <3>2 DEF Recent
  <2> QED BY <1>1, <1>2, <2>1, <2>2, PollQuiet DEF One
<1>7. now > LastStart(k) => Coming(k) = 1
  <2>1. Turn = now
    BY DEF Turn
  <2> QED BY <1>1, <2>1, PollsBounds DEF Coming
<1>8. CASE stamp[k] # Never /\ AskAlerts
  <2>1. stage = "idle" /\ stage' = "asked" /\ TakeTick /\ UNCHANGED << since, todo >>
    BY <1>8 DEF AskAlerts
  <2>2. /\ LastStart(k)' = LastStart(k) /\ Coming(k)' \in Nat
        /\ now <= LastStart(k) => Coming(k) = 1 + Coming(k)'
    BY <1>2, <2>1, ComingBegun DEF Turn
  <2>3. Fetches(k) = If(since < 0 \/ since <= LastStart(k), Coming(k))
    BY <1>5, <1>8, <2>1 DEF Fetches
  <2>4. Fetches(k)' = If(since < 0 \/ since <= LastStart(k), 1) + If(now <= LastStart(k), Coming(k)')
    BY <1>2, <1>8, <2>1, <2>2 DEF Fetches, Reaches, If
  <2>5. Fetches(k)' <= Fetches(k)
    BY <1>1, <1>4, <2>2, <2>3, <2>4 DEF If
  <2> QED BY <1>2, <2>1, <2>5, PollQuiet, FetchesFew, FetchesLater DEF One, FewFetches
<1>9. ASSUME stamp[k] # Never, ~ AskAlerts PROVE PollBudget(k)'
  <2>1. UNCHANGED tick
    BY <1>9 DEF AnswerAlerts, DecodeAlerts, AlertsFail, AlertsDone, clock
  <2>2. Coming(k)' = Coming(k) /\ LastStart(k)' = LastStart(k) /\ \A x : Reaches(k, x)' = Reaches(k, x)
    BY <1>2, <2>1, Steady
  <2>3. CASE AnswerAlerts
    <3>1. stage = "asked" /\ stage' = "answered" /\ UNCHANGED since /\ todo = {} /\ stage # "idle"
      BY <1>4, <2>3 DEF AnswerAlerts
    <3>2. k \in todo' => stamp[k] >= now - span
      BY <2>3 DEF AnswerAlerts, Newest
    <3>3. k \in todo' => since < 0 \/ since <= LastStart(k)
      <4>1. LastStart(k) = stamp[k] + Buffer
        BY DEF LastStart, Overlap
      <4>2. asked <= now /\ (since < 0 \/ span <= asked - since + Buffer)
        BY <1>1, <1>4, <3>1
      <4>3. stamp[k] >= now - span => since < 0 \/ since <= stamp[k] + Buffer
        BY <1>1, <4>2
      <4> QED BY <3>2, <4>1, <4>3
    <3>4. Fetches(k) = If(since < 0 \/ since <= LastStart(k), 1) + If(now <= LastStart(k), Coming(k))
      BY <1>5, <1>9, <3>1 DEF Fetches
    <3>5. Fetches(k)' = If(IF k \in todo' THEN now <= LastStart(k) ELSE since < 0 \/ since <= LastStart(k), Coming(k))
      BY <1>2, <1>5, <1>9, <2>2, <3>1 DEF Fetches, If
    <3>6. One(k \in todo') + Fetches(k)' <= One(k \in todo) + Fetches(k)
      BY <1>1, <1>7, <3>1, <3>3, <3>4, <3>5 DEF One, If
    <3> QED BY <1>2, <3>6, PollQuiet
  <2>4. CASE DecodeAlerts
    <3>1. stage = "answered" /\ stage' = "alertsSend" /\ mark' = now /\ UNCHANGED << since, todo >>
      BY <2>4 DEF DecodeAlerts
    <3>2. Fetches(k) = If(IF k \in todo THEN now <= LastStart(k) ELSE since < 0 \/ since <= LastStart(k), Coming(k))
      BY <1>5, <1>9, <3>1 DEF Fetches
    <3>3. Fetches(k)' = If(now < 0 \/ now <= LastStart(k), Coming(k))
      BY <1>2, <1>5, <1>9, <2>2, <3>1 DEF Fetches, If
    <3>4. Fetches(k)' <= Fetches(k)
      BY <1>1, <1>4, <3>2, <3>3 DEF If
    <3> QED BY <1>2, <3>1, <3>4, PollQuiet, FetchesFew, FetchesLater DEF One, FewFetches
  <2>5. CASE AlertsFail
    <3>1. stage \in {"asked", "answered"} /\ stage' = "idle" /\ todo' = {} /\ UNCHANGED since
          /\ (stage = "asked" => todo = {})
      BY <1>4, <2>5 DEF AlertsFail
    <3>2. Fetches(k)' = If(since < 0 \/ since <= LastStart(k), Coming(k))
      BY <1>2, <1>5, <1>9, <2>2, <3>1 DEF Fetches, If
    <3>3. One(k \in todo') = 0
      BY <3>1 DEF One
    <3>4. CASE stage = "asked"
      <4>1. Fetches(k) = If(since < 0 \/ since <= LastStart(k), 1) + If(now <= LastStart(k), Coming(k))
        BY <1>5, <1>9, <3>4 DEF Fetches
      <4>2. One(k \in todo') + Fetches(k)' <= One(k \in todo) + Fetches(k)
        BY <1>1, <1>7, <3>2, <3>3, <4>1 DEF One, If
      <4> QED BY <1>2, <4>2, PollQuiet
    <3>5. CASE stage = "answered"
      <4>1. Fetches(k) = If(IF k \in todo THEN now <= LastStart(k) ELSE since < 0 \/ since <= LastStart(k), Coming(k))
        BY <1>5, <1>9, <3>5 DEF Fetches
      <4>2. One(k \in todo') + Fetches(k)' <= One(k \in todo) + Fetches(k)
        BY <1>1, <1>7, <3>2, <3>3, <4>1 DEF One, If
      <4> QED BY <1>2, <4>2, PollQuiet
    <3> QED BY <3>1, <3>4, <3>5
  <2>6. CASE AlertsDone
    <3>1. stage = "alertsSend" /\ stage' = "idle" /\ since' = mark /\ UNCHANGED todo
      BY <2>6 DEF AlertsDone, NextSince
    <3>2. Fetches(k)' = Fetches(k)
      BY <1>2, <1>9, <2>2, <3>1 DEF Fetches, If
    <3> QED BY <1>2, <3>1, <3>2, PollQuiet, FetchesFew DEF One
  <2> QED BY <1>9, <2>3, <2>4, <2>5, <2>6
<1> QED BY <1>6, <1>8, <1>9


(* What is sent was fetched; an item that occurs has all its fetches to    *)
(* come, and so has every item after a restart.                            *)
LEMMA SentCounts ==
    ASSUME Polling, Next, NEW k \in Items, PollBudget(k), NEW x \in Items, SendLogged(x)
    PROVE  PollBudget(k)'
<1>1. /\ x \in todo /\ Send(x) /\ todo' = todo \ {x} /\ stage # "answered"
      /\ UNCHANGED << poller, now, tick, lastTick, stamp, received, restarts, stage, since, mark >>
  BY DEF SendLogged, SendNext, clock, history
<1>2. Underway(k)' = Underway(k) + One(x = k)
  BY <1>1, UnderwaySend DEF Polling
<1>3. Coming(k)' = Coming(k) /\ LastStart(k)' = LastStart(k) /\ Overlaps' = Overlaps
      /\ \A y : Reaches(k, y)' = Reaches(k, y)
  BY <1>1, Steady
<1>4. Unfetched(k)' = Unfetched(k)
  BY <1>1 DEF Unfetched
<1>5. Fetches(k)' = Fetches(k) /\ Fetches(k) \in Nat
  BY <1>1, <1>3, <1>4, FetchesFew DEF Fetches, If
<1>6. One(x = k) \in Nat /\ One(x = k) + One(k \in todo') = One(k \in todo) /\ One(k \in todo) \in Nat
      /\ One(k \in todo') \in Nat /\ Underway(k) \in Nat
  BY <1>1, UnderwayNat DEF One, Polling
<1>7. One(x = k) + One(k \in todo') + Fetches(k)' <= One(k \in todo) + Fetches(k)
  BY <1>5, <1>6
<1>8. Underway(k)' <= Underway(k) + One(x = k)
  BY <1>2, <1>6
<1> QED BY <1>1, <1>6, <1>7, <1>8, PollSum

LEMMA OccurredCounts ==
    ASSUME Polling, Next, NEW k \in Items, PollBudget(k), NEW x \in Items, Log(x) \/ Ban(x) \/ Unban(x)
    PROVE  PollBudget(k)'
<1>1. UNCHANGED << poller, now, tick, lastTick, received, ch, restarts, stage, todo, since, mark >>
  BY DEF Log, Ban, Unban, clock, history, pollState
<1>2. Fetches(k) \in Nat /\ Fetches(k)' \in Nat /\ Fetches(k)' <= Overlaps'
  BY FetchesFew, FetchesLater DEF FewFetches
<1>3. CASE stamp'[k] = stamp[k]
  <2>1. Coming(k)' = Coming(k) /\ LastStart(k)' = LastStart(k) /\ Overlaps' = Overlaps
        /\ \A y : Reaches(k, y)' = Reaches(k, y)
    BY <1>1, <1>3, Steady
  <2>2. Unfetched(k)' = Unfetched(k)
    BY <1>1 DEF Unfetched
  <2>3. Fetches(k)' = Fetches(k)
    BY <1>1, <1>3, <2>1, <2>2 DEF Fetches, If
  <2> QED BY <1>1, <1>2, <2>3, PollQuiet DEF One
<1>4. CASE stamp'[k] # stamp[k]
  <2>1. Log(x)
    BY <1>4 DEF Ban, Unban, history, Polling
  <2>2. stamp[k] = Never
    BY <1>4, <2>1 DEF Log, Occur, Polling, TypeInv, ChannelInv
  <2>3. Fetches(k) = Overlaps /\ Overlaps' = Overlaps
    BY <1>1, <2>2 DEF Fetches, Overlaps, Overlap
  <2> QED BY <1>1, <1>2, <2>3, PollQuiet DEF One
<1> QED BY <1>3, <1>4

LEMMA RestartCounts ==
    ASSUME Polling, Next, NEW k \in Items, PollBudget(k), Restart
    PROVE  PollBudget(k)'
<1>1. todo' = {} /\ restarts' = restarts + 1 /\ Overlaps' = Overlaps
  BY SamePoller DEF Restart, PollRestart, Overlaps, Overlap
<1>2. /\ Underway(k)' <= Underway(k) /\ Underway(k) \in Nat /\ Underway(k)' \in Nat
      /\ Fetches(k) \in Nat /\ Fetches(k)' \in Nat /\ Fetches(k)' <= Overlaps
      /\ One(k \in todo) \in Nat /\ Overlaps \in Nat /\ restarts \in Nat
  BY <1>1, UnderwayLost, UnderwayNat, UnderwayLater, FetchesFew, FetchesLater, PollNumbers
     DEF FewFetches, Polling, One
<1>3. PICK w \in Nat, w1 \in Nat, f \in Nat, f1 \in Nat, t \in Nat, o \in Nat, r \in Nat :
        /\ w = Underway(k) /\ w1 = Underway(k)' /\ f = Fetches(k) /\ f1 = Fetches(k)'
        /\ t = One(k \in todo) /\ o = Overlaps /\ r = restarts
  BY <1>2, Zenon
<1>4. w + t + f <= o * (1 + r) /\ w1 <= w /\ f1 <= o
  BY <1>2, <1>3, Zenon DEF PollBudget
<1>5. o * (1 + (r + 1)) = o * (1 + r) + o /\ o * (1 + r) \in Int
  OBVIOUS
<1>6. w1 + 0 + f1 <= o * (1 + (r + 1))
  BY <1>4, <1>5
<1>7. One(k \in todo') = 0
  BY <1>1 DEF One
<1>8. Underway(k)' + One(k \in todo') + Fetches(k)' <= Overlaps * (1 + (restarts + 1))
  BY <1>3, <1>6, <1>7, Zenon
<1> QED BY <1>1, <1>8 DEF PollBudget, One

LEMMA PollCounts ==
    ASSUME Polling, Next, kind = "poll", NEW k \in Items, InTime(k), PollBudget(k),
           poller = "mailcow" => WindowInv, poller = "alerts" => AlertsInv
    PROVE  PollBudget(k)'
<1>1. CASE PollStep
  <2>1. CASE poller = "mailcow"
    <3>1. WindowStep
      BY <1>1, <2>1, PollerSteps DEF WindowInv, Polling
    <3> QED BY <2>1, <3>1, MailcowCounts, SentCounts DEF WindowStep
  <2>2. CASE poller = "alerts"
    <3>1. AlertsStep
      BY <1>1, <2>2, PollerSteps DEF AlertsInv, Polling
    <3> QED BY <2>2, <3>1, AlertsCounts, SentCounts DEF AlertsStep
  <2> QED BY <2>1, <2>2 DEF Polling
<1> QED BY <1>1, ClockCounts, OccurredCounts, RestartCounts, Steps


LEMMA PollTime == ASSUME Next, kind = "poll" PROVE now' = now \/ now' = now + 1
<1>1. CASE PollStep
  BY <1>1 DEF PollStep, FetchBanned, PruneSeen, MailcowPoll, FetchLogs, LogsDone, FetchDecisions,
       DecisionsDone, AskAlerts, AnswerAlerts, DecodeAlerts, AlertsFail, AlertsDone, SendBan, SendLogged,
       TakeTick, clock
<1>2. CASE Ticker \/ Advance \/ Receive \/ Restart \/ \E k \in Items : Log(k) \/ Ban(k) \/ Unban(k)
  BY <1>2 DEF Ticker, Advance, Receive, Restart, Log, Ban, Unban, clock
<1> QED BY <1>1, <1>2, Steps

(* What was too late stays so.                                             *)
LEMMA StaysInTime ==
    ASSUME Polling, Next, kind = "poll", NEW k \in Items, InTime(k)' PROVE InTime(k)
<1>1. now' = now \/ now' = now + 1
  BY PollTime
<1>2. /\ now \in Nat /\ MaxNow \in Nat /\ Overlap \in Nat /\ Overlap' = Overlap /\ stamp[k] \in Int
  BY PollNumbers, SamePoller, Constants DEF Overlap
<1>3. CASE now' < MaxNow
  BY <1>1, <1>2, <1>3 DEF InTime
<1>4. CASE LastStart(k)' < MaxNow
  <2>1. stamp'[k] = stamp[k] \/ stamp'[k] = now
    <3>1. CASE PollStep
      BY <3>1 DEF PollStep, FetchBanned, PruneSeen, MailcowPoll, FetchLogs, LogsDone, FetchDecisions,
         DecisionsDone, AskAlerts, AnswerAlerts, DecodeAlerts, AlertsFail, AlertsDone, SendBan, SendLogged, history
    <3>2. CASE Ticker \/ Advance \/ Receive \/ Restart
      BY <3>2 DEF Ticker, Advance, Receive, Restart, history
    <3>3. ASSUME NEW x \in Items, Log(x) \/ Ban(x) \/ Unban(x) PROVE stamp'[k] = stamp[k] \/ stamp'[k] = now
      <4>1. UNCHANGED stamp \/ stamp' = [stamp EXCEPT ![x] = now]
        BY <3>3 DEF Log, Occur, Ban, Unban, history, Polling
      <4> QED BY <4>1 DEF Polling, TypeInv, ChannelInv
    <3> QED BY <3>1, <3>2, <3>3, Steps
  <2>2. stamp'[k] + Overlap < MaxNow
    BY <1>2, <1>4 DEF LastStart
  <2>3. CASE stamp'[k] = stamp[k]
    BY <2>2, <2>3 DEF InTime, LastStart
  <2>4. CASE stamp'[k] = now
    BY <1>2, <2>2, <2>4 DEF InTime
  <2> QED BY <2>1, <2>3, <2>4
<1> QED BY <1>3, <1>4 DEF InTime

LEMMA InitCount == Init => CountInv
<1> SUFFICES ASSUME Init PROVE CountInv
  OBVIOUS
<1>1. TypeInv
  BY InitTypes
<1>2. /\ stamp = [k \in Items |-> Never] /\ received = [k \in Items |-> 0] /\ ch = << >>
      /\ restarts = 0 /\ now \in Nat /\ tick = Never /\ lastTick = 0
  BY Constants DEF Init, ChannelInit
<1>3. /\ stage = "idle" /\ todo = {} /\ seen = {} /\ current = {} /\ since = Format(0 - Interval)
      /\ startup = TRUE /\ cursor = 0 /\ appeared = [k \in Items |-> 0]
  BY DEF Init, PollInit
<1>4. pos = StartPos /\ path = 1 /\ truncations = 0 /\ \A i \in 1..MaxFiles : inodes[i] = << >>
  BY DEF Init, TailInit
<1>5. ASSUME NEW k \in Items PROVE Underway(k) = 0
  <2>1. Cardinality(Places(<< >>, k)) = 0
    BY PlacesOfNone
  <2> QED BY <1>2, <2>1 DEF Underway
<1>6. Unused /\ \A k \in Items : TailBudget(k)
  <2>1. ~ Shrunk
    BY <1>4 DEF Shrunk, StartPos, Never
  <2>2. ASSUME NEW k \in Items PROVE TailBudget(k)
    BY <1>2, <1>4, <1>5, <2>1 DEF TailBudget, One
  <2> QED BY <1>4, <2>2 DEF Unused
<1>7. BanInv /\ \A k \in Items : BanBudget(k)
  BY <1>3, <1>5 DEF BanInv, BanBudget, One
<1>8. StreamInv /\ \A k \in Items : StreamBudget(k)
  <2>1. InOrder
    BY <1>2 DEF InOrder
  <2>2. \A k \in Items : StreamBudget(k)
    BY <1>2, <1>3, <1>5 DEF StreamBudget, One
  <2> QED BY <1>3, <2>1, <2>2 DEF StreamInv
<1>9. WindowInv
  <2>1. 0 - Interval \in Int /\ 0 - Interval <= 0
    BY Constants
  <2>2. Ticked(since)
    BY <1>2, <1>3, <2>1 DEF Ticked
  <2> QED BY <1>3, <2>2 DEF WindowInv
<1>10. AlertsInv
  <2>1. 0 - Interval \in Int /\ 0 - Interval <= 0
    BY Constants
  <2>2. Format(0 - Interval) \in Int /\ Format(0 - Interval) <= 0 - Interval
    BY <2>1, FormatBounds
  <2>3. since <= now
    BY <1>2, <1>3, <2>1, <2>2, Constants
  <2> QED BY <1>3, <2>3 DEF AlertsInv
<1>11. ASSUME poller \in {"mailcow", "alerts"}, NEW k \in Items PROVE PollBudget(k)
  <2>1. Overlaps \in Nat
    BY <1>1, <1>11, PollNumbers DEF Polling
  <2>2. Fetches(k) = Overlaps
    BY <1>2 DEF Fetches
  <2>3. 0 + 0 + Overlaps <= Overlaps * (1 + 0)
    BY <2>1
  <2> QED BY <1>2, <1>3, <1>5, <2>2, <2>3 DEF PollBudget, One
<1> QED BY <1>6, <1>7, <1>8, <1>9, <1>10, <1>11 DEF CountInv

LEMMA NextCount == TypeInv /\ LogInv /\ CountInv /\ [Next]_vars => CountInv'
<1> SUFFICES ASSUME TypeInv, LogInv, CountInv, [Next]_vars PROVE CountInv'
  OBVIOUS
<1>1. CASE UNCHANGED vars
  <2>1. /\ UNCHANGED << kind, now, tick, lastTick, ch, stamp, received, restarts >>
        /\ UNCHANGED << inodes, path, pos, scan, truncations >>
        /\ UNCHANGED << poller, stage, todo, seen, current, since, mark, asked, span, startup, cursor, appeared >>
    BY <1>1 DEF vars, history, tailState, pollState
  <2>2. \A k : Underway(k)' = Underway(k)
    BY <2>1, UnderwaySame
  <2>3. (Unused' <=> Unused) /\ \A k \in Items : TailBudget(k)' <=> TailBudget(k)
    BY <2>1, <2>2 DEF Unused, TailBudget, Ahead, Awaited, Buffered, Lies, In, Shrunk, Content
  <2>4. (BanInv' <=> BanInv) /\ \A k \in Items : BanBudget(k)' <=> BanBudget(k)
    BY <2>1, <2>2 DEF BanInv, BanBudget
  <2>5. (StreamInv' <=> StreamInv) /\ \A k \in Items : StreamBudget(k)' <=> StreamBudget(k)
    BY <2>1, <2>2 DEF StreamInv, InOrder, StreamBudget
  <2>6. (WindowInv' <=> WindowInv) /\ (AlertsInv' <=> AlertsInv)
    BY <2>1 DEF WindowInv, Ticked, AlertsInv
  <2>7. \A k \in Items : (PollBudget(k)' <=> PollBudget(k)) /\ (InTime(k)' <=> InTime(k))
    BY <2>1, <2>2 DEF PollBudget, InTime, Fetches, Overlaps, Overlap, LastStart, Coming, Polls, Ticks, Soonest, Turn,
         Reaches, Unfetched
  <2> QED BY <2>1, <2>3, <2>4, <2>5, <2>6, <2>7 DEF CountInv
<1>2. CASE Next
  <2>1. UNCHANGED << kind, poller >> /\ now \in Nat /\ MaxNow \in Nat
    BY <1>2, SamePoller, Constants DEF TypeInv, ChannelInv, ClockInv
  <2>2. kind = "tail" => (Unused /\ \A k \in Items : TailBudget(k))'
    BY <1>2, TailCounts DEF CountInv
  <2>3. kind = "poll" /\ poller = "fail2ban" => (BanInv /\ \A k \in Items : BanBudget(k))'
    BY <1>2, BanCounts DEF CountInv
  <2>4. kind = "poll" /\ poller = "decisions" => (StreamInv /\ \A k \in Items : StreamBudget(k))'
    BY <1>2, StreamCounts DEF CountInv
  <2>5. kind = "poll" /\ poller = "mailcow" => WindowInv'
    BY <1>2, WindowsMove DEF CountInv, Polling
  <2>6. kind = "poll" /\ poller = "alerts" => AlertsInv'
    BY <1>2, AlertsMove DEF CountInv, Polling
  <2>7. ASSUME kind = "poll", poller \in {"mailcow", "alerts"}, NEW k \in Items, InTime(k)'
        PROVE  PollBudget(k)'
    <3>1. Polling
      BY <2>7 DEF Polling
    <3>2. InTime(k)
      BY <1>2, <2>7, <3>1, StaysInTime
    <3> QED BY <1>2, <2>7, <3>1, <3>2, PollCounts DEF CountInv
  <2> QED BY <2>1, <2>2, <2>3, <2>4, <2>5, <2>6, <2>7 DEF CountInv
<1> QED BY <1>1, <1>2

(* The event loop is given no item more often than its source may report   *)
(* it: a tailer once, and again for a restart or a truncation it has read  *)
(* past; fail2ban as often as the address was new in its list; CrowdSec's  *)
(* stream once for each start; mailcow's logs and CrowdSec's alerts as     *)
(* often as windows that overlap can hold it, unless it occurred so late   *)
(* that they overlap where the clock of the model has stopped.             *)
THEOREM DuplicatesAreFew == Spec => []FewDuplicates
<1>1. Init => CountInv
  BY InitCount
<1>2. TypeInv /\ LogInv /\ CountInv /\ [Next]_vars => CountInv'
  BY NextCount
<1>3. TypeInv /\ CountInv => FewDuplicates
  <2> SUFFICES ASSUME TypeInv, CountInv PROVE FewDuplicates
    OBVIOUS
  <2>0. ASSUME NEW k \in Items, kind = "poll", poller \in {"mailcow", "alerts"}, ~ InTime(k)
        PROVE  now = MaxNow /\ stamp[k] + Overlap >= MaxNow
    <3>1. /\ ~ (now < MaxNow) /\ ~ (stamp[k] + Overlap < MaxNow)
          /\ now \in 0..MaxNow /\ stamp[k] \in Int /\ Overlap \in Nat /\ MaxNow \in Nat
      BY <2>0, PollNumbers, Constants DEF InTime, LastStart, Polling, TypeInv, ChannelInv, ClockInv
    <3> QED BY <3>1
  <2> SUFFICES ASSUME NEW k \in Items, kind = "poll" /\ poller \in {"mailcow", "alerts"} => InTime(k)
               PROVE  received[k] <= MostOften(k)
    BY <2>0 DEF FewDuplicates
  <2>1. Underway(k) \in Nat /\ received[k] \in Nat /\ received[k] <= Underway(k)
    BY UnderwayNat
  <2>2. restarts \in Nat /\ truncations \in Nat /\ appeared[k] \in Nat /\ kind \in {"tail", "poll"}
        /\ poller \in Pollers
    BY DEF TypeInv, ChannelInv, TailTypes, PollTypes
  <2>3. CASE kind = "tail"
    <3>1. Underway(k) + One(Ahead(k)) + One(Shrunk) <= 1 + restarts + truncations
      BY <2>3 DEF CountInv, TailBudget
    <3>2. MostOften(k) = 1 + restarts + truncations
      BY <2>3 DEF MostOften
    <3> QED BY <2>1, <2>2, <3>1, <3>2 DEF One
  <2>4. CASE kind = "poll" /\ poller = "fail2ban"
    <3>1. Underway(k) + One(k \in todo) <= appeared[k]
      BY <2>4 DEF CountInv, BanBudget
    <3>2. MostOften(k) = appeared[k]
      BY <2>4 DEF MostOften
    <3> QED BY <2>1, <2>2, <3>1, <3>2 DEF One
  <2>5. CASE kind = "poll" /\ poller = "decisions"
    <3>1. Underway(k) + One(k \in todo) + One(startup \/ k > cursor) <= 1 + restarts
      BY <2>5 DEF CountInv, StreamBudget
    <3>2. MostOften(k) = 1 + restarts
      BY <2>5 DEF MostOften
    <3> QED BY <2>1, <2>2, <3>1, <3>2 DEF One
  <2>6. CASE kind = "poll" /\ poller \in {"mailcow", "alerts"}
    <3>1. Underway(k) + One(k \in todo) + Fetches(k) <= Overlaps * (1 + restarts)
      BY <2>6 DEF CountInv, PollBudget
    <3>2. MostOften(k) = Overlaps * (1 + restarts)
      BY <2>6 DEF MostOften
    <3>3. Fetches(k) \in Nat /\ Overlaps \in Nat
      BY <2>6, FetchesFew, PollNumbers DEF Polling
    <3>4. PICK b \in Int : b = Overlaps * (1 + restarts)
      BY <2>2, <3>3
    <3> QED BY <2>1, <3>1, <3>2, <3>3, <3>4 DEF One
  <2> QED BY <2>2, <2>3, <2>4, <2>5, <2>6 DEF Pollers
<1> QED BY <1>1, <1>2, <1>3, LogInvariant, PTL DEF Spec

=============================================================================
