---------------------------- MODULE RuleSetProofs ---------------------------
(***************************************************************************)
(* What RuleSet keeps for any rule lists, edits, events and times: types,  *)
(* that an evaluation uses rules as new as its look at the file, and what  *)
(* a burst count is.                                                       *)
(***************************************************************************)
EXTENDS RuleSet, FiniteSetTheorems, SequenceTheorems, WellFoundedInduction, TLAPS

(***************************************************************************)
(* Induction, stated with sets.                                            *)
(***************************************************************************)

LEMMA LeastNumber ==
    ASSUME NEW T \in SUBSET Nat, T # {}
    PROVE  \E n \in T : \A m \in T : n <= m
<1>1. PICK n \in T : \A m \in T : << m, n >> \notin OpToRel(<, Nat)
  BY WFMin, NatLessThanWellFounded, Zenon
<1>2. n \in Nat
  OBVIOUS
<1>3. ASSUME NEW m \in T PROVE ~ (m < n)
  <2>1. << m, n >> \in Nat \X Nat
    OBVIOUS
  <2>2. m < n => << m, n >> \in OpToRel(<, Nat)
    BY <2>1, Zenon DEF OpToRel
  <2> QED BY <1>1, <2>2
<1> QED BY <1>2, <1>3

(* A set that has 0 and with every number the next has them all.           *)
LEMMA UpTo ==
    ASSUME NEW n \in Nat, NEW G, 0 \in G, \A i \in 1..n : i - 1 \in G => i \in G
    PROVE  \A i \in 0..n : i \in G
<1> SUFFICES ASSUME NEW j \in 0..n, j \notin G PROVE FALSE
  OBVIOUS
<1> DEFINE B == {i \in 0..n : i \notin G}
<1>1. B \in SUBSET Nat /\ B # {}
  OBVIOUS
<1> HIDE DEF B
<1>2. PICK m \in B : \A k \in B : m <= k
  BY <1>1, LeastNumber
<1>3. m \in 1..n /\ m \notin G
  BY <1>2 DEF B
<1>4. m - 1 \in 0..n /\ m - 1 \notin B
  BY <1>2, <1>3 DEF B
<1> QED BY <1>3, <1>4 DEF B

(* The n steps of a recursion over S, and its values from b on.            *)
StepsOf(n, S) == [(1..n) \X S -> S]
ValuesOf(n, S, b, F) ==
    {g \in [0..n -> S] : g[0] = b /\ \A i \in 1..n : g[i] = F[<< i, g[i - 1] >>]}

LEMMA ValuesExist ==
    ASSUME NEW n \in Nat, NEW S, NEW b \in S, NEW F \in StepsOf(n, S)
    PROVE  ValuesOf(n, S, b, F) # {}
<1> DEFINE Sol(k) == ValuesOf(k, S, b, F)
           G == {k \in 0..n : Sol(k) # {}}
<1> USE DEF ValuesOf, StepsOf
<1>1. 0 \in G
  <2>1. [i \in 0..0 |-> b] \in Sol(0)
    OBVIOUS
  <2> QED BY <2>1
<1>2. ASSUME NEW k \in 1..n, k - 1 \in G PROVE k \in G
  <2>1. PICK g \in [0..(k - 1) -> S] :
            g[0] = b /\ \A i \in 1..(k - 1) : g[i] = F[<< i, g[i - 1] >>]
    BY <1>2
  <2> DEFINE h == [i \in 0..k |-> IF i = k THEN F[<< k, g[k - 1] >>] ELSE g[i]]
  <2>2. g[k - 1] \in S
    BY <2>1
  <2>3. F[<< k, g[k - 1] >>] \in S
    BY <2>2
  <2>4. h \in [0..k -> S]
    BY <2>1, <2>3
  <2>5. h[0] = b
    BY <2>1
  <2>6. h[k] = F[<< k, h[k - 1] >>]
    <3>1. k - 1 \in 0..k /\ k - 1 # k
      OBVIOUS
    <3>2. h[k - 1] = g[k - 1] /\ h[k] = F[<< k, g[k - 1] >>]
      BY <3>1
    <3> QED BY <3>2
  <2>7. ASSUME NEW i \in 1..(k - 1) PROVE h[i] = F[<< i, h[i - 1] >>]
    <3>1. h[i] = g[i] /\ h[i - 1] = g[i - 1]
      OBVIOUS
    <3> QED BY <2>1, <3>1
  <2> HIDE DEF h
  <2>8. ASSUME NEW i \in 1..k PROVE h[i] = F[<< i, h[i - 1] >>]
    <3>1. i = k \/ i \in 1..(k - 1)
      OBVIOUS
    <3> QED BY <2>6, <2>7, <3>1
  <2>9. h \in Sol(k)
    BY <2>4, <2>5, <2>8
  <2> QED BY <2>9
<1> HIDE DEF G
<1>3. n \in G
  BY <1>1, <1>2, UpTo
<1> QED BY <1>3 DEF G

(***************************************************************************)
(* Rules.                                                                  *)
(***************************************************************************)

ValidRule == {r \in Rule : Valid(r)}
Among(s, list) == \A k \in 1..Len(s) : \E m \in 1..Len(list) : s[k] = list[m]

(* validateRules keeps valid rules of the list, and nothing else.          *)
LEMMA ValidEntries ==
    ASSUME NEW list \in Seq(Rule)
    PROVE  validateRules(list) \in Seq(ValidRule) /\ Among(validateRules(list), list)
<1> DEFINE S == {s \in Seq(ValidRule) : Among(s, list)}
           n == Len(list)
           Next1(i, s) == IF Valid(list[i]) THEN Append(s, list[i]) ELSE s
           F == [t \in (1..n) \X S |-> Next1(t[1], t[2])]
           valid[i \in 0..Len(list)] ==
               IF i = 0 THEN << >>
               ELSE IF Valid(list[i]) THEN Append(valid[i - 1], list[i]) ELSE valid[i - 1]
<1>1. n \in Nat /\ << >> \in S
  BY DEF Among
<1>2. ASSUME NEW i \in 1..n, NEW s \in S PROVE Next1(i, s) \in S
  <2>1. CASE ~ Valid(list[i])
    BY <2>1
  <2>2. CASE Valid(list[i])
    <3>1. list[i] \in ValidRule
      BY <2>2 DEF ValidRule
    <3>2. Append(s, list[i]) \in Seq(ValidRule)
      BY <3>1
    <3>3. Among(Append(s, list[i]), list)
      BY <3>1 DEF Among
    <3> QED BY <2>2, <3>2, <3>3
  <2> QED BY <2>1, <2>2
<1>3. F \in StepsOf(n, S)
  <2>1. ASSUME NEW t \in (1..n) \X S PROVE Next1(t[1], t[2]) \in S
    <3>1. t[1] \in 1..n /\ t[2] \in S
      OBVIOUS
    <3> HIDE DEF Next1, S
    <3> QED BY <1>2, <3>1
  <2> HIDE DEF Next1, S
  <2> QED BY <2>1 DEF StepsOf
<1>4. ValuesOf(n, S, << >>, F) # {}
  <2> HIDE DEF F, S, n
  <2> QED BY <1>1, <1>3, ValuesExist
<1>5. PICK g \in [0..n -> S] : g[0] = << >> /\ \A i \in 1..n : g[i] = F[<< i, g[i - 1] >>]
  <2> HIDE DEF F, S, n
  <2> QED BY <1>4 DEF ValuesOf
<1>6. ASSUME NEW i \in 1..n PROVE g[i - 1] \in S /\ g[i] = Next1(i, g[i - 1])
  <2>1. g[i - 1] \in S
    <3> HIDE DEF S
    <3> QED BY <1>1
  <2>2. << i, g[i - 1] >> \in (1..n) \X S
    BY <2>1
  <2>3. F[<< i, g[i - 1] >>] = Next1(i, g[i - 1])
    <3> HIDE DEF S, Next1
    <3> QED BY <2>2
  <2> QED BY <1>5, <2>1, <2>3
<1>7. g = [i \in 0..n |-> IF i = 0 THEN << >> ELSE Next1(i, g[i - 1])]
  <2> HIDE DEF S, Next1, F
  <2>1. \A i \in 0..n : g[i] = IF i = 0 THEN << >> ELSE Next1(i, g[i - 1])
    BY <1>1, <1>5, <1>6
  <2> QED BY <2>1
<1>8. valid = [i \in 0..n |-> IF i = 0 THEN << >> ELSE Next1(i, valid[i - 1])]
  BY <1>7, Zenon
<1>9. validateRules(list) = valid[n]
  BY Zenon DEF validateRules
<1> HIDE DEF valid, F
<1>10. \A i \in 0..n : i \in {j \in 0..n : valid[j] \in S}
  <2> DEFINE G == {j \in 0..n : valid[j] \in S}
  <2> HIDE DEF S, Next1
  <2>1. 0 \in G
    BY <1>1, <1>8
  <2>2. ASSUME NEW i \in 1..n, i - 1 \in G PROVE i \in G
    <3>1. valid[i] = Next1(i, valid[i - 1])
      BY <1>1, <1>8
    <3> QED BY <1>2, <2>2, <3>1
  <2> HIDE DEF G, n
  <2>3. \A i \in 0..n : i \in G
    BY <1>1, <2>1, <2>2, UpTo
  <2> QED BY <2>3 DEF G
<1>11. valid[n] \in S
  <2> HIDE DEF S
  <2> QED BY <1>1, <1>10
<1> QED BY <1>9, <1>11

(***************************************************************************)
(* Burst windows.                                                          *)
(***************************************************************************)

(* What a count leaves is the end of the list, from the first entry on that *)
(* is not stale.                                                           *)
Rest(ts, ev, k, c) ==
    /\ k \in 0..Len(ts) /\ Len(ev) = Len(ts) - k
    /\ \A i \in 1..Len(ev) : ev[i] = ts[k + i]
    /\ \A i \in 1..k : ts[i] < c
    /\ k < Len(ts) => ts[k + 1] >= c

LEMMA EvictEffect ==
    ASSUME NEW S, S \subseteq Int, NEW ts \in Seq(S), NEW w \in Int, now \in Int
    PROVE  Evict(ts, w) \in Seq(S) /\ \E k \in Nat : Rest(ts, Evict(ts, w), k, now - w)
<1> DEFINE L == Live(ts, w)
           m == Len(ts)
           x == CHOOSE i \in L : \A j \in L : i <= j
           ev == Evict(ts, w)
<1>0. m \in Nat /\ \A i \in 1..m : ts[i] \in S
  OBVIOUS
<1>1. m \in Nat /\ \A i \in 1..m : ts[i] \in S /\ ts[i] \in Int
  BY <1>0
<1>2. L \in SUBSET Nat /\ \A i \in 1..m : i \notin L => ts[i] < now - w
  BY <1>1 DEF Live
<1>3. CASE L = {}
  <2>1. ev = << >>
    BY <1>3 DEF Evict
  <2>2. Rest(ts, << >>, m, now - w)
    BY <1>1, <1>2, <1>3 DEF Rest
  <2> QED BY <1>1, <2>1, <2>2
<1>4. CASE L # {}
  <2>1. \E i \in L : \A j \in L : i <= j
    <3> HIDE DEF L
    <3> QED BY <1>2, <1>4, LeastNumber
  <2>2. x \in L /\ \A j \in L : x <= j
    <3> HIDE DEF L
    <3> QED BY <2>1, Zenon
  <2>3. ev = SubSeq(ts, x, m)
    BY <1>4, Zenon DEF Evict
  <2>4. x \in 1..m /\ ts[x] >= now - w
    BY <2>2 DEF Live
  <2> HIDE DEF x, L
  <2>5. \A i \in x..m : ts[i] \in S
    BY <1>1, <2>4
  <2>6. /\ SubSeq(ts, x, m) \in Seq(S) /\ Len(SubSeq(ts, x, m)) = m - x + 1
        /\ \A i \in 1..(m - x + 1) : SubSeq(ts, x, m)[i] = ts[x + i - 1]
    <3>1. x \in Int /\ m \in Int /\ x <= m
      BY <1>1, <2>4
    <3> QED BY <2>5, <3>1, SubSeqProperties
  <2> HIDE DEF ev
  <2>7. x - 1 \in 0..m /\ Len(ev) = m - (x - 1) /\ ts[(x - 1) + 1] >= now - w
    BY <1>1, <2>3, <2>4, <2>6
  <2>8. \A i \in 1..(x - 1) : ts[i] < now - w
    BY <1>1, <1>2, <2>2, <2>4
  <2>9. \A i \in 1..Len(ev) : ev[i] = ts[(x - 1) + i]
    BY <1>1, <2>3, <2>4, <2>6, <2>7
  <2>10. Rest(ts, ev, x - 1, now - w)
    BY <1>1, <2>7, <2>8, <2>9 DEF Rest
  <2> QED BY <2>3, <2>4, <2>6, <2>10 DEF ev
<1> QED BY <1>3, <1>4

(* A list that is the end of the recorded events: what is missing is older *)
(* than some window the file has had.                                      *)
Lost(ts) == Len(events) - Len(ts)
EndOf(ts) ==
    /\ ts \in Seq(0..now)
    /\ Lost(ts) \in Nat
    /\ \A i \in 1..Len(ts) : ts[i] = events[Lost(ts) + i]
    /\ Lost(ts) > 0 => \E w \in Windows : events[Lost(ts)] < now - w

Ordered ==
    /\ now \in Nat
    /\ events \in Seq(0..now)
    /\ \A i, j \in 1..Len(events) : i <= j => events[i] <= events[j]

(* A count is of events within the window, and of all of those within some *)
(* window that is no longer.                                               *)
LEMMA EvictEnd ==
    ASSUME Ordered, Windows \subseteq Int, NEW ts, EndOf(ts), NEW w \in Windows
    PROVE  /\ EndOf(Evict(ts, w))
           /\ Len(Evict(ts, w)) <= Within(w)
           /\ \E v \in Windows : v <= w /\ Within(v) <= Len(Evict(ts, w))
<1> DEFINE ev == Evict(ts, w)
           n == Len(events)
           l == Lost(ts)
           d == Lost(ev)
           c == now - w
<1>1. now \in Nat /\ w \in Int /\ c \in Int /\ ts \in Seq(0..now) /\ n \in Nat /\ Len(ts) \in Nat
  BY DEF Ordered, EndOf
<1>2. ev \in Seq(0..now) /\ \E k \in Nat : Rest(ts, ev, k, c)
  <2> DEFINE T == 0..now
  <2>1. T \subseteq Int /\ ts \in Seq(T) /\ w \in Int /\ now \in Int
    BY <1>1
  <2> HIDE DEF T
  <2>2. Evict(ts, w) \in Seq(T) /\ \E k \in Nat : Rest(ts, Evict(ts, w), k, now - w)
    BY <2>1, EvictEffect
  <2> QED BY <2>2 DEF T
<1> HIDE DEF ev
<1>3. PICK k \in Nat : Rest(ts, ev, k, c)
  BY <1>2
<1>4. /\ l \in Nat /\ l = n - Len(ts) /\ \A i \in 1..Len(ts) : ts[i] = events[l + i]
      /\ l > 0 => \E v \in Windows : events[l] < now - v
  BY DEF EndOf, Lost
<1>5. d = n - Len(ev) /\ Len(ev) \in Nat
  BY <1>2 DEF Lost
<1>6. Len(ev) = Len(ts) - k /\ k <= Len(ts)
  BY <1>1, <1>3 DEF Rest
<1> HIDE DEF n, l, d, c
<1>7. d = l + k /\ d \in 0..n /\ n - d = Len(ev)
  BY <1>1, <1>4, <1>5, <1>6
<1>8. \A i \in 1..n : events[i] \in Int
  BY <1>1 DEF Ordered, n
<1>9. ASSUME NEW i \in 1..Len(ev) PROVE ev[i] = events[d + i]
  <2>1. ev[i] = ts[k + i]
    BY <1>3 DEF Rest
  <2>2. k + i \in 1..Len(ts) /\ l + (k + i) = d + i
    BY <1>1, <1>4, <1>5, <1>6, <1>7
  <2>3. ts[k + i] = events[l + (k + i)]
    BY <1>4, <2>2
  <2> QED BY <2>1, <2>2, <2>3
<1>10. d > 0 => \E v \in Windows : events[d] < now - v
  <2>1. CASE k = 0
    BY <1>4, <1>7, <2>1
  <2>2. CASE k > 0
    <3>1. k \in 1..k /\ k \in 1..Len(ts)
      BY <1>1, <1>6, <2>2
    <3>2. ts[k] < c /\ ts[k] = events[d]
      BY <1>3, <1>4, <1>7, <3>1 DEF Rest
    <3> QED BY <3>2 DEF c
  <2> QED BY <2>1, <2>2
<1>11. EndOf(ev)
  BY <1>2, <1>7, <1>9, <1>10 DEF EndOf, d
<1>12. ASSUME NEW i \in (d + 1)..n PROVE events[i] >= c
  <2>1. k + 1 \in 1..Len(ts) /\ k < Len(ts) /\ l + (k + 1) = d + 1
    BY <1>1, <1>4, <1>5, <1>6, <1>7
  <2>2. ts[k + 1] >= c
    BY <1>3, <2>1 DEF Rest
  <2>3. ts[k + 1] = events[l + (k + 1)]
    BY <1>4, <2>1
  <2>4. events[d + 1] >= c
    BY <2>1, <2>2, <2>3
  <2>5. d + 1 \in 1..n /\ i \in 1..n /\ d + 1 <= i
    BY <1>1, <1>7
  <2>6. events[d + 1] <= events[i]
    BY <2>5 DEF Ordered, n
  <2> QED BY <1>1, <1>8, <2>4, <2>5, <2>6
<1> DEFINE A == Live(events, w)
           B == (d + 1)..n
<1>13. A = {i \in 1..n : events[i] >= c}
  BY DEF Live, n, c
<1>14. B \in SUBSET A /\ A \in SUBSET (1..n)
  <2> HIDE DEF A
  <2>1. \A i \in B : i \in 1..n
    BY <1>1, <1>7
  <2> QED BY <1>12, <1>13, <2>1
<1>15. IsFiniteSet(1..n) /\ Cardinality(B) = Len(ev) /\ Within(w) = Cardinality(A)
  <2>1. d + 1 \in Int /\ n \in Int /\ 1 \in Int
    BY <1>1, <1>7
  <2>2. IsFiniteSet(1..n) /\ Cardinality(B) = IF d + 1 > n THEN 0 ELSE n - (d + 1) + 1
    BY <2>1, FS_Interval
  <2>3. (IF d + 1 > n THEN 0 ELSE n - (d + 1) + 1) = Len(ev)
    BY <1>1, <1>5, <1>7
  <2> HIDE DEF A, B
  <2>4. Within(w) = Cardinality(A)
    BY DEF Within, A
  <2> QED BY <2>2, <2>3, <2>4
<1>16. IsFiniteSet(A) /\ Cardinality(B) <= Cardinality(A)
  <2> HIDE DEF A, B
  <2> QED BY <1>14, <1>15, FS_Subset
<1>17. \E v \in Windows : v <= w /\ \A i \in 1..n : events[i] >= now - v => i > d
  <2>1. CASE d = 0
    <3>1. \A i \in 1..n : i > d
      BY <2>1
    <3> QED BY <1>1, <3>1
  <2>2. CASE d # 0
    <3>1. d \in 1..n
      BY <1>1, <1>7, <2>2
    <3>2. PICK u \in Windows : events[d] < now - u
      BY <1>10, <3>1
    <3> DEFINE v == IF u <= w THEN u ELSE w
    <3>3. u \in Int /\ v \in Windows /\ v \in Int /\ v <= u /\ v <= w
      BY <1>1
    <3> HIDE DEF v
    <3>4. ASSUME NEW i \in 1..n, events[i] >= now - v PROVE i > d
      <4> SUFFICES ASSUME i <= d PROVE FALSE
        BY <1>1, <1>7
      <4>1. events[i] <= events[d]
        BY <3>1 DEF Ordered, n
      <4> QED BY <1>1, <1>8, <3>1, <3>2, <3>3, <3>4, <4>1
    <3> QED BY <3>3, <3>4
  <2> QED BY <2>1, <2>2
<1>18. PICK v \in Windows : v <= w /\ \A i \in 1..n : events[i] >= now - v => i > d
  BY <1>17
<1> DEFINE V == Live(events, v)
<1>19. V \in SUBSET B
  <2>1. V = {i \in 1..n : events[i] >= now - v}
    BY DEF Live, n
  <2>2. ASSUME NEW i \in 1..n, events[i] >= now - v PROVE i \in (d + 1)..n
    BY <1>1, <1>7, <1>18, <2>2
  <2> HIDE DEF V
  <2> QED BY <2>1, <2>2
<1>20. Within(v) <= Cardinality(B)
  <2>1. Within(v) = Cardinality(V)
    BY DEF Within
  <2> HIDE DEF V, A, B
  <2>2. IsFiniteSet(B)
    BY <1>14, <1>15, FS_Subset
  <2> QED BY <1>19, <2>1, <2>2, FS_Subset
<1> HIDE DEF A, B
<1> QED BY <1>11, <1>15, <1>16, <1>18, <1>20 DEF ev

(* A burst rule uses the count of the first rule of the scan that counts   *)
(* its window, and that rule counts it.                                    *)
LEMMA CounterIs ==
    ASSUME NEW ok, NEW i \in Nat \ {0}, CountsBurst(ok, i)
    PROVE  /\ Counter(ok, i) \in 1..i /\ CountsBurst(ok, Counter(ok, i))
           /\ rules[Counter(ok, i)].window = rules[i].window
           /\ Counter(ok, Counter(ok, i)) = Counter(ok, i)
<1> DEFINE T(h) == {j \in 1..h : CountsBurst(ok, j) /\ rules[j].window = rules[h].window}
           First(h, j) == /\ CountsBurst(ok, j) /\ rules[j].window = rules[h].window
                          /\ \A k \in 1..(j - 1) : ~ (CountsBurst(ok, k) /\
                                        rules[k].window = rules[h].window)
<1>1. \A h : Counter(ok, h) = CHOOSE j \in 1..h : First(h, j)
  BY Zenon DEF Counter
<1>2. ASSUME NEW h \in Nat \ {0}, CountsBurst(ok, h) PROVE \E j \in 1..h : First(h, j)
  <2>1. T(h) \in SUBSET Nat /\ h \in T(h)
    BY <1>2
  <2>2. PICK j \in T(h) : \A k \in T(h) : j <= k
    <3> HIDE DEF T
    <3> QED BY <2>1, LeastNumber
  <2>3. j \in 1..h /\ CountsBurst(ok, j) /\ rules[j].window = rules[h].window
    BY <2>2
  <2>4. ASSUME NEW k \in 1..(j - 1), CountsBurst(ok, k), rules[k].window = rules[h].window
        PROVE  FALSE
    <3>1. k \in T(h) /\ k < j
      BY <1>2, <2>3, <2>4
    <3> QED BY <2>2, <2>3, <3>1
  <2> QED BY <2>3, <2>4
<1> HIDE DEF First
<1>3. ASSUME NEW h \in Nat \ {0}, CountsBurst(ok, h)
      PROVE  Counter(ok, h) \in 1..h /\ First(h, Counter(ok, h))
  BY <1>1, <1>2, <1>3, Zenon
<1> DEFINE j == Counter(ok, i)
           k == Counter(ok, j)
<1>4. j \in 1..i /\ First(i, j)
  BY <1>3
<1> HIDE DEF j
<1>5. j \in Nat \ {0} /\ CountsBurst(ok, j) /\ rules[j].window = rules[i].window
  BY <1>4 DEF First
<1>6. k \in 1..j /\ First(j, k)
  BY <1>3, <1>5
<1>7. ~ (k < j)
  BY <1>4, <1>5, <1>6 DEF First
<1>8. k = j
  BY <1>5, <1>6, <1>7
<1> QED BY <1>4, <1>5, <1>8 DEF j

(* The rules in use have windows that the file has had.                    *)
KnownWindows ==
    /\ Windows \subseteq Int
    /\ rules \in Seq(ValidRule)
    /\ \A i \in 1..Len(rules) : rules[i].minBurst > 0 => rules[i].window \in Windows

(* However far a scan goes, what it leaves is an end of the events.        *)
LEMMA ScanLeavesEnd ==
    ASSUME Ordered, KnownWindows, EndOf(entries), NEW ok
    PROVE  /\ \A i \in 0..Len(rules) : EndOf(AfterCounts(ok, i))
           /\ \A i \in 1..Len(rules) : CountsBurst(ok, i) /\ Counter(ok, i) = i =>
                  AfterCounts(ok, i) = Evict(AfterCounts(ok, i - 1), rules[i].window)
<1> DEFINE S == {ts \in Seq(0..now) : EndOf(ts)}
           n == Len(rules)
           Next1(i, ts) == IF CountsBurst(ok, i) /\ Counter(ok, i) = i
                           THEN Evict(ts, rules[i].window) ELSE ts
           F == [t \in (1..n) \X S |-> Next1(t[1], t[2])]
           left[j \in 0..Len(rules)] ==
               IF j = 0 THEN entries
               ELSE IF CountsBurst(ok, j) /\ Counter(ok, j) = j
                    THEN Evict(left[j - 1], rules[j].window)
                    ELSE left[j - 1]
<1>1. n \in Nat /\ entries \in S
  BY DEF KnownWindows, EndOf
<1>2. ASSUME NEW i \in 1..n, NEW ts \in S PROVE Next1(i, ts) \in S
  <2>1. CASE ~ (CountsBurst(ok, i) /\ Counter(ok, i) = i)
    BY <2>1
  <2>2. CASE CountsBurst(ok, i) /\ Counter(ok, i) = i
    <3>1. rules[i].window \in Windows /\ Windows \subseteq Int
      BY <2>2 DEF KnownWindows, CountsBurst
    <3>2. EndOf(Evict(ts, rules[i].window))
      BY <3>1, EvictEnd
    <3> QED BY <2>2, <3>2 DEF EndOf
  <2> QED BY <2>1, <2>2
<1>3. F \in StepsOf(n, S)
  <2>1. ASSUME NEW t \in (1..n) \X S PROVE Next1(t[1], t[2]) \in S
    <3>1. t[1] \in 1..n /\ t[2] \in S
      OBVIOUS
    <3> HIDE DEF Next1, S
    <3> QED BY <1>2, <3>1
  <2> HIDE DEF Next1, S
  <2> QED BY <2>1 DEF StepsOf
<1>4. ValuesOf(n, S, entries, F) # {}
  <2> HIDE DEF F, S, n
  <2> QED BY <1>1, <1>3, ValuesExist
<1>5. PICK g \in [0..n -> S] : g[0] = entries /\ \A i \in 1..n : g[i] = F[<< i, g[i - 1] >>]
  <2> HIDE DEF F, S, n
  <2> QED BY <1>4 DEF ValuesOf
<1>6. ASSUME NEW i \in 1..n PROVE g[i - 1] \in S /\ g[i] = Next1(i, g[i - 1])
  <2>1. g[i - 1] \in S
    <3> HIDE DEF S
    <3> QED BY <1>1
  <2>2. << i, g[i - 1] >> \in (1..n) \X S
    BY <2>1
  <2>3. F[<< i, g[i - 1] >>] = Next1(i, g[i - 1])
    <3> HIDE DEF S, Next1
    <3> QED BY <2>2
  <2> QED BY <1>5, <2>1, <2>3
<1>7. g = [i \in 0..n |-> IF i = 0 THEN entries ELSE Next1(i, g[i - 1])]
  <2> HIDE DEF S, Next1, F
  <2>1. \A i \in 0..n : g[i] = IF i = 0 THEN entries ELSE Next1(i, g[i - 1])
    BY <1>1, <1>5, <1>6
  <2> QED BY <2>1
<1>8. left = [i \in 0..n |-> IF i = 0 THEN entries ELSE Next1(i, left[i - 1])]
  BY <1>7, Zenon
<1>9. \A i : AfterCounts(ok, i) = left[i]
  BY Zenon DEF AfterCounts
<1> HIDE DEF left, F
<1>10. \A i \in 0..n : i \in {j \in 0..n : left[j] \in S}
  <2> DEFINE G == {j \in 0..n : left[j] \in S}
  <2> HIDE DEF S, Next1
  <2>1. 0 \in G
    BY <1>1, <1>8
  <2>2. ASSUME NEW i \in 1..n, i - 1 \in G PROVE i \in G
    <3>1. left[i] = Next1(i, left[i - 1])
      BY <1>1, <1>8
    <3> QED BY <1>2, <2>2, <3>1
  <2> HIDE DEF G, n
  <2>3. \A i \in 0..n : i \in G
    BY <1>1, <2>1, <2>2, UpTo
  <2> QED BY <2>3 DEF G
<1>11. ASSUME NEW i \in 0..n PROVE EndOf(AfterCounts(ok, i))
  BY <1>9, <1>10
<1>12. ASSUME NEW i \in 1..n, CountsBurst(ok, i), Counter(ok, i) = i
       PROVE  AfterCounts(ok, i) = Evict(AfterCounts(ok, i - 1), rules[i].window)
  <2>1. left[i] = Next1(i, left[i - 1])
    <3> HIDE DEF Next1
    <3> QED BY <1>1, <1>8
  <2> QED BY <1>9, <1>12, <2>1
<1> QED BY <1>11, <1>12

(***************************************************************************)
(* The file and the rules in use.                                          *)
(***************************************************************************)

Version == [data : Versions, mtime : Nat]
PCs == {"down", "idle", "stat", "read", "install", "scan"}

HistInv == hist \in Seq(Version) /\ hist # << >>

(* The rules are those of a version of the file, and lastStat is the stat  *)
(* of it or of one before it, unless an edit raced with the last reload.   *)
Held(i) == Readable(hist[i].data) /\ rules = validateRules(hist[i].data)
Known(i) == raced \/ \E k \in 1..i : lastStat = StatOf(hist[k])
Unreadable == \E j \in base..Len(hist) : ~ Readable(hist[j].data)
Alike(i) == \E j \in base..Len(hist), k \in 1..i : StatOf(hist[j]) = StatOf(hist[k])

LoadInv == IF loaded THEN \E i \in 1..Len(hist) : Held(i) /\ Known(i)
           ELSE rules = << >> /\ lastStat = NoStat
FreshRules == \/ ~ loaded /\ rules = << >> /\ Unreadable
              \/ \E i \in 1..Len(hist) : Held(i) /\ (i >= base \/ raced \/ Unreadable \/ Alike(i))
ScanInv == base >= 1 /\ FreshRules
InstallInv == got >= 1 /\ base <= got /\ Readable(hist[got].data)

ReloadInv ==
    /\ HistInv
    /\ pc \in PCs
    /\ loaded \in BOOLEAN /\ raced \in BOOLEAN
    /\ got \in 0..Len(hist) /\ base \in 0..Len(hist)
    /\ LoadInv
    /\ pc = "install" => InstallInv
    /\ pc = "scan" => ScanInv

LEMMA FileFacts ==
    ASSUME HistInv
    PROVE  /\ Len(hist) \in Nat \ {0} /\ File = hist[Len(hist)]
           /\ \A i \in 1..Len(hist) :
                  /\ hist[i] \in Version /\ hist[i].mtime \in Nat
                  /\ Readable(hist[i].data) => hist[i].data \in Seq(Rule)
           /\ \A i \in 1..Len(hist) : StatOf(hist[i]) # NoStat
<1>1. Len(hist) \in Nat \ {0} /\ \A i \in 1..Len(hist) : hist[i] \in Version
  BY DEF HistInv
<1>2. ASSUME NEW i \in 1..Len(hist)
      PROVE  /\ hist[i].mtime \in Nat
             /\ Readable(hist[i].data) => hist[i].data \in Seq(Rule)
  <2>1. hist[i].mtime \in Nat /\ hist[i].data \in Versions
    BY <1>1 DEF Version
  <2> QED BY <2>1, RuleSetAssumption DEF Readable
<1>3. ASSUME NEW i \in 1..Len(hist) PROVE StatOf(hist[i]) # NoStat
  <2>1. StatOf(hist[i])[1] = hist[i].mtime
    BY DEF StatOf
  <2> QED BY <1>2, <2>1 DEF NoStat
<1> QED BY <1>1, <1>2, <1>3 DEF File

(* What is known of the versions stays known when there is one more.       *)
LEMMA EditKeeps ==
    ASSUME ReloadInv, NEW d \in Versions, EditFile(d)
    PROVE  ReloadInv'
<1> DEFINE n == Len(hist)
<1>1. /\ n \in Nat \ {0} /\ File = hist[n] /\ File.mtime \in Nat
  BY FileFacts DEF ReloadInv
<1>2. PICK m \in {File.mtime, File.mtime + 1} : hist' = Append(hist, [data |-> d, mtime |-> m])
  BY DEF EditFile
<1> DEFINE v == [data |-> d, mtime |-> m]
<1>3. v \in Version
  BY <1>1 DEF Version
<1> HIDE DEF v
<1>4. hist' = Append(hist, v) /\ hist \in Seq(Version)
  BY <1>2 DEF v, ReloadInv, HistInv
<1>5. /\ HistInv' /\ Len(hist') = n + 1 /\ \A i \in 1..n : hist'[i] = hist[i]
  BY <1>3, <1>4 DEF HistInv, Version
<1>6. UNCHANGED << rules, lastStat, loaded, pc, got, base, raced >>
  BY DEF EditFile, ruleset
<1>7. got \in 0..n /\ base \in 0..n
  BY DEF ReloadInv
<1> HIDE DEF n
<1>8. n = Len(hist)
  BY DEF n
<1>9. \A i \in 1..n : i \in 1..Len(hist') /\ (Held(i) => Held(i)')
  BY <1>1, <1>5, <1>6 DEF Held
<1>10. \A i \in 1..n : Known(i) => Known(i)'
  BY <1>1, <1>5, <1>6 DEF Known
<1>11. ASSUME base >= 1, Unreadable PROVE Unreadable'
  <2>1. PICK j \in base..n : ~ Readable(hist[j].data)
    BY <1>8, <1>11 DEF Unreadable
  <2>2. j \in base'..Len(hist') /\ hist'[j] = hist[j]
    BY <1>1, <1>5, <1>6, <1>7, <1>11, <2>1
  <2> QED BY <2>1, <2>2 DEF Unreadable
<1>12. ASSUME base >= 1, NEW i \in 1..n, Alike(i) PROVE Alike(i)'
  <2>1. PICK j \in base..n, k \in 1..i : StatOf(hist[j]) = StatOf(hist[k])
    BY <1>8, <1>12 DEF Alike
  <2>2. j \in base'..Len(hist') /\ hist'[j] = hist[j] /\ hist'[k] = hist[k]
    BY <1>1, <1>5, <1>6, <1>7, <1>12, <2>1
  <2> QED BY <2>1, <2>2 DEF Alike
<1>13. LoadInv'
  <2>1. CASE loaded
    <3>1. PICK i \in 1..n : Held(i) /\ Known(i)
      BY <1>8, <2>1 DEF ReloadInv, LoadInv
    <3>2. i \in 1..Len(hist') /\ Held(i)' /\ Known(i)'
      BY <1>9, <1>10, <3>1
    <3> QED BY <1>6, <2>1, <3>2 DEF LoadInv
  <2>2. CASE ~ loaded
    BY <1>6, <2>2 DEF ReloadInv, LoadInv, NoStat
  <2> QED BY <2>1, <2>2
<1>14. ASSUME pc = "install" PROVE InstallInv'
  <2>1. InstallInv
    BY <1>14 DEF ReloadInv
  <2>2. hist'[got] = hist[got]
    BY <1>1, <1>5, <1>7, <2>1 DEF InstallInv
  <2> QED BY <1>6, <2>1, <2>2 DEF InstallInv
<1>15. ASSUME pc = "scan" PROVE ScanInv'
  <2>1. ScanInv /\ base >= 1
    BY <1>15 DEF ReloadInv, ScanInv
  <2>2. CASE ~ loaded /\ rules = << >> /\ Unreadable
    BY <1>6, <1>11, <2>1, <2>2 DEF ScanInv, FreshRules
  <2>3. ASSUME NEW i \in 1..n, Held(i), i >= base \/ raced \/ Unreadable \/ Alike(i)
        PROVE  ScanInv'
    <3>1. i \in 1..Len(hist') /\ Held(i)'
      BY <1>9, <2>3
    <3>2. i >= base' \/ raced' \/ Unreadable' \/ Alike(i)'
      BY <1>6, <1>11, <1>12, <2>1, <2>3
    <3> QED BY <1>6, <2>1, <3>1, <3>2 DEF ScanInv, FreshRules
  <2> QED BY <1>8, <2>1, <2>2, <2>3 DEF ScanInv, FreshRules
<1>16. got' \in 0..Len(hist') /\ base' \in 0..Len(hist')
  BY <1>1, <1>5, <1>6, <1>7
<1>17. pc' \in PCs /\ loaded' \in BOOLEAN /\ raced' \in BOOLEAN
  BY <1>6, Zenon DEF ReloadInv, PCs
<1> QED BY <1>5, <1>6, <1>13, <1>14, <1>15, <1>16, <1>17 DEF ReloadInv, PCs

(* A stat that tells of no change, and a read that fails, leave rules that *)
(* are as new as the file allows.                                          *)
LEMMA LookIsEnough ==
    ASSUME HistInv, LoadInv, NEW b \in 1..Len(hist),
           \/ ~ Readable(File.data)
           \/ StatOf(File) = lastStat
    PROVE  \/ /\ ~ loaded /\ rules = << >>
              /\ \E j \in b..Len(hist) : ~ Readable(hist[j].data)
           \/ \E i \in 1..Len(hist) :
                 /\ Held(i)
                 /\ \/ raced
                    \/ \E j \in b..Len(hist) : ~ Readable(hist[j].data)
                    \/ \E j \in b..Len(hist), k \in 1..i : StatOf(hist[j]) = StatOf(hist[k])
<1> DEFINE n == Len(hist)
<1>1. n \in Nat \ {0} /\ File = hist[n] /\ n \in b..n /\ StatOf(hist[n]) # NoStat
  BY FileFacts
<1>2. CASE ~ loaded
  <2>1. rules = << >> /\ lastStat = NoStat
    BY <1>2 DEF LoadInv
  <2>2. ~ Readable(hist[n].data)
    BY <1>1, <2>1
  <2> QED BY <1>1, <1>2, <2>1, <2>2
<1>3. CASE loaded
  <2>1. PICK i \in 1..n : Held(i) /\ Known(i)
    BY <1>3 DEF LoadInv
  <2>2. CASE ~ Readable(File.data)
    BY <1>1, <2>1, <2>2
  <2>3. CASE StatOf(File) = lastStat
    <3>1. raced \/ \E k \in 1..i : StatOf(hist[n]) = StatOf(hist[k])
      BY <1>1, <2>1, <2>3 DEF Known
    <3> QED BY <1>1, <2>1, <3>1
  <2> QED BY <2>2, <2>3
<1> QED BY <1>2, <1>3

(* Steps that leave the rule set and the file alone.                       *)
Untouched == UNCHANGED << hist, rules, lastStat, loaded, raced >>

LEMMA LookKeeps ==
    ASSUME ReloadInv, Untouched, base' \in 1..Len(hist),
           ~ Readable(File.data) \/ StatOf(File) = lastStat
    PROVE  ScanInv'
<1>1. HistInv /\ LoadInv
  BY DEF ReloadInv
<1>2. PICK b \in 1..Len(hist) : b = base'
  OBVIOUS
<1>3. \/ /\ ~ loaded /\ rules = << >>
         /\ \E j \in b..Len(hist) : ~ Readable(hist[j].data)
      \/ \E i \in 1..Len(hist) :
            /\ Held(i)
            /\ \/ raced
               \/ \E j \in b..Len(hist) : ~ Readable(hist[j].data)
               \/ \E j \in b..Len(hist), k \in 1..i : StatOf(hist[j]) = StatOf(hist[k])
  BY <1>1, LookIsEnough
<1>4. Untouched /\ base' >= 1
  BY <1>1, <1>2, FileFacts
<1>5. FreshRules'
  BY <1>2, <1>3, <1>4 DEF FreshRules, Unreadable, Alike, Held, Untouched
<1> QED BY <1>4, <1>5 DEF ScanInv

LEMMA ReloadStep == ReloadInv /\ [Next]_vars => ReloadInv'
<1> SUFFICES ASSUME ReloadInv, [Next]_vars PROVE ReloadInv'
  OBVIOUS
<1> DEFINE n == Len(hist)
<1>1. HistInv /\ n \in Nat \ {0} /\ File = hist[n]
  BY FileFacts DEF ReloadInv
<1>2. /\ pc \in PCs /\ loaded \in BOOLEAN /\ raced \in BOOLEAN
      /\ got \in 0..n /\ base \in 0..n /\ LoadInv
  BY DEF ReloadInv
<1>3. ASSUME Untouched PROVE HistInv' /\ LoadInv' /\ loaded' \in BOOLEAN /\ raced' \in BOOLEAN
  <2>1. HistInv' /\ LoadInv'
    BY <1>1, <1>2, <1>3 DEF Untouched, HistInv, Version, LoadInv, Held, Known, NoStat
  <2> QED BY <1>2, <1>3, <2>1, Zenon DEF Untouched
<1>4. ASSUME Untouched, got' = got, base' = base, pc' \in {pc, "idle", "stat"} PROVE ReloadInv'
  <2>1. InstallInv => InstallInv'
    BY <1>4 DEF Untouched, InstallInv
  <2>2. ScanInv => ScanInv'
    BY <1>4 DEF Untouched, ScanInv, FreshRules, Unreadable, Alike, Held
  <2>3. /\ got' \in 0..Len(hist') /\ base' \in 0..Len(hist') /\ pc' \in PCs
    BY <1>2, <1>4 DEF Untouched, PCs
  <2>4. (pc' = "install" => InstallInv') /\ (pc' = "scan" => ScanInv')
    BY <1>4, <2>1, <2>2 DEF ReloadInv
  <2> QED BY <1>3, <1>4, <2>3, <2>4 DEF ReloadInv, PCs
<1>5. ASSUME Load PROVE ReloadInv'
  <2>1. Untouched /\ got' = got /\ base' = 0 /\ pc' = "read"
    BY <1>5 DEF Load, ruleset, Untouched
  <2>2. got' \in 0..Len(hist') /\ base' \in 0..Len(hist')
    BY <1>1, <1>2, <2>1 DEF Untouched
  <2> QED BY <1>3, <2>1, <2>2 DEF ReloadInv, PCs
<1>6. ASSUME MaybeReload PROVE ReloadInv'
  <2>1. Untouched /\ got' = got /\ base' = n
    BY <1>6 DEF MaybeReload, ruleset, Untouched
  <2>2. got' \in 0..Len(hist') /\ base' \in 0..Len(hist') /\ base' \in 1..Len(hist)
    BY <1>1, <1>2, <2>1 DEF Untouched
  <2>3. CASE pc' = "read"
    BY <1>3, <2>1, <2>2, <2>3 DEF ReloadInv, PCs
  <2>4. CASE pc' = "scan" /\ (File.data = Missing \/ Unchanged(File))
    <3>1. ~ Readable(File.data) \/ StatOf(File) = lastStat
      BY <2>4 DEF Readable, Unchanged
    <3>2. ScanInv'
      BY <2>1, <2>2, <3>1, LookKeeps
    <3> QED BY <1>3, <2>1, <2>2, <2>4, <3>2 DEF ReloadInv, PCs
  <2> QED BY <1>6, <2>3, <2>4 DEF MaybeReload
<1>7. ASSUME Reload PROVE ReloadInv'
  <2>1. Untouched /\ base' = base /\ pc = "read"
    BY <1>7 DEF Reload, ruleset, Untouched
  <2>2. CASE Readable(File.data)
    <3>1. got' = n /\ pc' = "install"
      BY <1>7, <2>2 DEF Reload
    <3>2. InstallInv'
      BY <1>1, <1>2, <2>1, <2>2, <3>1 DEF Untouched, InstallInv
    <3>3. got' \in 0..Len(hist') /\ base' \in 0..Len(hist')
      BY <1>1, <1>2, <2>1, <3>1 DEF Untouched
    <3> QED BY <1>3, <2>1, <3>1, <3>2, <3>3 DEF ReloadInv, PCs
  <2>3. CASE ~ Readable(File.data)
    <3>1. got' = got /\ pc' = AfterReload
      BY <1>7, <2>3 DEF Reload
    <3>2. got' \in 0..Len(hist') /\ base' \in 0..Len(hist')
      BY <1>2, <2>1, <3>1 DEF Untouched
    <3>3. CASE base = 0
      <4>1. pc' = "idle"
        BY <3>1, <3>3 DEF AfterReload
      <4> QED BY <1>3, <2>1, <3>2, <4>1 DEF ReloadInv, PCs
    <3>4. CASE base # 0
      <4>1. pc' = "scan" /\ base' \in 1..Len(hist)
        BY <1>1, <1>2, <2>1, <3>1, <3>4 DEF AfterReload
      <4>2. ScanInv'
        BY <2>1, <2>3, <4>1, LookKeeps
      <4> QED BY <1>3, <2>1, <3>2, <4>1, <4>2 DEF ReloadInv, PCs
    <3> QED BY <3>3, <3>4
  <2> QED BY <2>2, <2>3
<1>8. ASSUME Install PROVE ReloadInv'
  <2>1. /\ pc = "install" /\ rules' = validateRules(hist[got].data) /\ loaded' = TRUE
        /\ lastStat' = IF File.data = Missing THEN lastStat ELSE StatOf(File)
        /\ raced' = (got # Len(hist)) /\ pc' = AfterReload /\ UNCHANGED << hist, got, base >>
    BY <1>8, Zenon DEF Install
  <2>2. InstallInv
    BY <2>1 DEF ReloadInv
  <2>3. PICK g \in 1..n : g = got
    BY <1>1, <1>2, <2>2 DEF InstallInv
  <2>4. Readable(hist[g].data) /\ base <= g
    BY <2>2, <2>3 DEF InstallInv
  <2>5. Held(g)'
    BY <2>1, <2>3, <2>4 DEF Held
  <2>6. Known(g)'
    <3>1. CASE g # n
      BY <2>1, <2>3, <3>1, Zenon DEF Known
    <3>2. CASE g = n
      <4>1. File.data # Missing
        BY <1>1, <2>4, <3>2 DEF Readable
      <4>2. lastStat' = StatOf(hist'[g])
        BY <1>1, <2>1, <3>2, <4>1
      <4>3. g \in 1..g
        BY <1>1
      <4> QED BY <4>2, <4>3, Zenon DEF Known
    <3> QED BY <3>1, <3>2
  <2>7. LoadInv'
    BY <2>1, <2>5, <2>6 DEF LoadInv
  <2>8. got' \in 0..Len(hist') /\ base' \in 0..Len(hist') /\ HistInv'
    BY <1>1, <1>2, <2>1 DEF HistInv, Version
  <2>9. loaded' \in BOOLEAN /\ raced' \in BOOLEAN
    BY <2>1, Zenon
  <2>10. CASE base = 0
    <3>1. pc' = "idle"
      BY <2>1, <2>10 DEF AfterReload
    <3> QED BY <2>7, <2>8, <2>9, <3>1 DEF ReloadInv, PCs
  <2>11. CASE base # 0
    <3>1. pc' = "scan" /\ base' >= 1
      BY <1>2, <2>1, <2>11 DEF AfterReload
    <3>2. g \in 1..Len(hist') /\ g >= base'
      BY <1>1, <1>2, <2>1, <2>4
    <3>3. ScanInv'
      BY <2>5, <3>1, <3>2 DEF ScanInv, FreshRules
    <3> QED BY <2>7, <2>8, <2>9, <3>1, <3>3 DEF ReloadInv, PCs
  <2> QED BY <2>10, <2>11
<1>9. ASSUME Restart PROVE ReloadInv'
  <2>1. /\ rules' = << >> /\ lastStat' = NoStat /\ loaded' = FALSE /\ pc' = "down" /\ got' = 0
        /\ base' = 1 /\ raced' = FALSE /\ hist' = hist
    BY <1>9, Zenon DEF Restart
  <2>2. LoadInv' /\ loaded' \in BOOLEAN /\ raced' \in BOOLEAN
    BY <2>1 DEF LoadInv, NoStat
  <2>3. got' \in 0..Len(hist') /\ base' \in 0..Len(hist') /\ HistInv'
    BY <1>1, <2>1 DEF HistInv, Version
  <2> QED BY <2>1, <2>2, <2>3 DEF ReloadInv, PCs
<1>10. ASSUME Tick PROVE ReloadInv'
  BY <1>4, <1>10 DEF Tick, ruleset, Untouched
<1>11. ASSUME NEW a \in BOOLEAN, Event(a) PROVE ReloadInv'
  BY <1>4, <1>11 DEF Event, ruleset, Untouched
<1>12. ASSUME NEW ok \in SUBSET (1..Len(rules)), Scan(ok) PROVE ReloadInv'
  BY <1>4, <1>12 DEF Scan, ruleset, Untouched
<1>13. ASSUME NEW d \in Versions, EditFile(d) PROVE ReloadInv'
  BY <1>13, EditKeeps
<1>14. ASSUME UNCHANGED vars PROVE ReloadInv'
  BY <1>4, <1>14 DEF vars, ruleset, Untouched
<1> QED BY <1>5, <1>6, <1>7, <1>8, <1>9, <1>10, <1>11, <1>12, <1>13, <1>14 DEF Next

LEMMA ReloadAlways == Spec => []ReloadInv
<1>1. Init => ReloadInv
  <2> SUFFICES ASSUME Init PROVE ReloadInv
    OBVIOUS
  <2>1. PICK d \in Versions : hist = << [data |-> d, mtime |-> 0] >>
    BY DEF Init
  <2>2. [data |-> d, mtime |-> 0] \in Version
    BY DEF Version
  <2>3. HistInv /\ Len(hist) = 1
    BY <2>1, <2>2 DEF HistInv
  <2>4. LoadInv /\ pc = "down" /\ got = 0 /\ base = 1 /\ loaded \in BOOLEAN /\ raced \in BOOLEAN
    BY DEF Init, LoadInv
  <2> QED BY <2>3, <2>4 DEF ReloadInv, PCs
<1> QED BY <1>1, ReloadStep, PTL DEF Spec

(* Every evaluation uses the rules of the version that was there when it   *)
(* looked, or of a later one, except where the file cannot be read, cannot *)
(* be told from an earlier version, or was edited between the read and the *)
(* stat of a reload (maybeReload and reload).                              *)
THEOREM EvaluationsUseFreshRules == Spec => []RulesAreFresh
<1>1. ReloadInv => RulesAreFresh
  <2> SUFFICES ASSUME ReloadInv, pc = "scan" PROVE RulesAreFresh
    BY DEF RulesAreFresh
  <2>1. FreshRules
    BY DEF ReloadInv, ScanInv
  <2> QED BY <2>1 DEF RulesAreFresh, FreshRules, Unreadable, Alike, Held
<1> QED BY <1>1, ReloadAlways, PTL

(***************************************************************************)
(* What a burst count is.                                                  *)
(***************************************************************************)

WindowsIn(h) == UNION { {h[i].data[k].window : k \in {j \in 1..Len(h[i].data) :
                             h[i].data[j].minBurst > 0}} :
                         i \in {j \in 1..Len(h) : Readable(h[j].data)} }

LEMMA WindowsAre ==
    ASSUME NEW h, NEW w
    PROVE  w \in WindowsIn(h) <=>
               \E i \in 1..Len(h) :
                  /\ Readable(h[i].data)
                  /\ \E k \in 1..Len(h[i].data) : /\ h[i].data[k].minBurst > 0
                                                  /\ w = h[i].data[k].window
<1> DEFINE Readables == {j \in 1..Len(h) : Readable(h[j].data)}
           Bursts(i) == {j \in 1..Len(h[i].data) : h[i].data[j].minBurst > 0}
           At(i) == {h[i].data[k].window : k \in Bursts(i)}
<1>1. WindowsIn(h) = UNION {At(i) : i \in Readables}
  BY Zenon DEF WindowsIn
<1>2. \A i : w \in At(i) <=> \E k \in Bursts(i) : w = h[i].data[k].window
  <2> HIDE DEF Bursts
  <2> QED BY Zenon
<1> HIDE DEF At, Readables
<1>3. w \in UNION {At(i) : i \in Readables} <=> \E i \in Readables : w \in At(i)
  BY Zenon
<1> QED BY <1>1, <1>2, <1>3, Zenon DEF Readables

LEMMA RulesKnowWindows == ReloadInv => KnownWindows
<1> SUFFICES ASSUME ReloadInv PROVE KnownWindows
  OBVIOUS
<1>1. HistInv /\ LoadInv /\ loaded \in BOOLEAN /\ Windows = WindowsIn(hist)
  BY DEF ReloadInv, Windows, WindowsIn
<1>2. \A i \in 1..Len(hist) : Readable(hist[i].data) => hist[i].data \in Seq(Rule)
  BY <1>1, FileFacts
<1>3. ASSUME NEW w \in WindowsIn(hist) PROVE w \in Int
  <2>1. PICK i \in 1..Len(hist) :
            /\ Readable(hist[i].data)
            /\ \E k \in 1..Len(hist[i].data) : w = hist[i].data[k].window
    BY WindowsAre
  <2>2. PICK k \in 1..Len(hist[i].data) : w = hist[i].data[k].window
    BY <2>1
  <2>3. hist[i].data[k] \in Rule
    BY <1>2, <2>1
  <2> QED BY <2>2, <2>3 DEF Rule
<1>4. CASE ~ loaded
  <2>1. rules = << >>
    BY <1>1, <1>4 DEF LoadInv
  <2> QED BY <1>1, <1>3, <2>1 DEF KnownWindows
<1>5. CASE loaded
  <2>1. PICK i \in 1..Len(hist) : Held(i)
    BY <1>1, <1>5 DEF LoadInv
  <2> DEFINE list == hist[i].data
  <2>2. Readable(list) /\ list \in Seq(Rule) /\ rules = validateRules(list)
    BY <1>2, <2>1 DEF Held
  <2>3. rules \in Seq(ValidRule) /\ Among(rules, list)
    <3> HIDE DEF list
    <3> QED BY <2>2, ValidEntries
  <2>4. ASSUME NEW j \in 1..Len(rules), rules[j].minBurst > 0 PROVE rules[j].window \in Windows
    <3>1. PICK k \in 1..Len(list) : rules[j] = list[k]
      BY <2>3 DEF Among
    <3> QED BY <1>1, <2>2, <2>4, <3>1, WindowsAre
  <2> QED BY <1>1, <1>3, <2>3, <2>4 DEF KnownWindows
<1> QED BY <1>1, <1>4, <1>5

LEMMA WindowsStay ==
    ASSUME HistInv, [Next]_vars
    PROVE  Windows \subseteq Windows'
<1>1. Windows = WindowsIn(hist) /\ Windows' = WindowsIn(hist')
  BY DEF Windows, WindowsIn
<1>2. CASE hist' = hist
  BY <1>1, <1>2
<1>3. ASSUME NEW v, hist' = Append(hist, v) PROVE Windows \subseteq Windows'
  <2>1. Len(hist') = Len(hist) + 1 /\ Len(hist) \in Nat /\ \A i \in 1..Len(hist) : hist'[i] = hist[i]
    BY <1>3 DEF HistInv
  <2> SUFFICES ASSUME NEW w \in WindowsIn(hist) PROVE w \in WindowsIn(hist')
    BY <1>1
  <2>2. PICK i \in 1..Len(hist) :
            /\ Readable(hist[i].data)
            /\ \E k \in 1..Len(hist[i].data) : /\ hist[i].data[k].minBurst > 0
                                               /\ w = hist[i].data[k].window
    BY WindowsAre
  <2>3. i \in 1..Len(hist') /\ hist'[i] = hist[i]
    BY <2>1
  <2> QED BY <2>2, <2>3, WindowsAre
<1>4. ASSUME NEW d \in Versions, EditFile(d) PROVE Windows \subseteq Windows'
  BY <1>3, <1>4 DEF EditFile
<1>5. ASSUME ~ \E d \in Versions : EditFile(d) PROVE hist' = hist
  BY <1>5 DEF Next, vars, Load, MaybeReload, Reload, Install, Restart, Tick, Event, Scan
<1> QED BY <1>2, <1>4, <1>5

BurstInv == Ordered /\ EndOf(entries)

(* Time passes and the file gets windows.                                  *)
LEMMA EndStays ==
    ASSUME BurstInv, Windows \subseteq Int, Windows \subseteq Windows',
           now' \in Nat, now <= now', UNCHANGED << entries, events >>
    PROVE  BurstInv'
<1>1. now \in Nat /\ events \in Seq(0..now) /\ entries \in Seq(0..now) /\ Len(events) \in Nat
  BY DEF BurstInv, Ordered, EndOf
<1>2. events' \in Seq(0..(now')) /\ entries' \in Seq(0..(now'))
  BY <1>1
<1>3. Ordered'
  BY <1>2 DEF BurstInv, Ordered
<1>4. Lost(entries)' = Lost(entries) /\ Lost(entries) \in Nat /\ Lost(entries) <= Len(events)
  BY <1>1 DEF BurstInv, EndOf, Lost
<1>5. ASSUME Lost(entries) > 0 PROVE \E w \in Windows' : events'[Lost(entries)] < now' - w
  <2>1. PICK w \in Windows : events[Lost(entries)] < now - w
    BY <1>5 DEF BurstInv, EndOf
  <2>2. events[Lost(entries)] \in Nat /\ w \in Int /\ w \in Windows'
    BY <1>1, <1>4, <1>5
  <2>3. events[Lost(entries)] < now' - w
    BY <1>1, <2>1, <2>2
  <2> QED BY <2>2, <2>3
<1>6. EndOf(entries)'
  BY <1>2, <1>4, <1>5 DEF BurstInv, EndOf
<1> QED BY <1>3, <1>6 DEF BurstInv

(* An event that is recorded is the last of both lists.                    *)
LEMMA RecordKeeps ==
    ASSUME BurstInv, now' = now, Windows \subseteq Windows', Windows \subseteq Int,
           entries' = Append(entries, now), events' = Append(events, now)
    PROVE  BurstInv'
<1> DEFINE n == Len(events)
           l == Lost(entries)
<1>1. /\ now \in Nat /\ events \in Seq(0..now) /\ entries \in Seq(0..now)
      /\ n \in Nat /\ Len(entries) \in Nat /\ now \in 0..now
  BY DEF BurstInv, Ordered, EndOf
<1>2. /\ l \in Nat /\ l = n - Len(entries) /\ \A i \in 1..Len(entries) : entries[i] = events[l + i]
      /\ l > 0 => \E w \in Windows : events[l] < now - w
  BY DEF BurstInv, EndOf, Lost
<1>3. /\ Len(events') = n + 1 /\ Len(entries') = Len(entries) + 1
      /\ events' \in Seq(0..now) /\ entries' \in Seq(0..now)
      /\ events'[n + 1] = now /\ \A i \in 1..n : events'[i] = events[i]
      /\ entries'[Len(entries) + 1] = now /\ \A i \in 1..Len(entries) : entries'[i] = entries[i]
  BY <1>1
<1>4. \A i \in 1..n : events[i] \in 0..now
  BY <1>1
<1>5. Ordered'
  <2>1. ASSUME NEW i \in 1..(n + 1), NEW j \in 1..(n + 1), i <= j PROVE events'[i] <= events'[j]
    <3>1. CASE j = n + 1
      <4>1. events'[i] \in 0..now
        BY <1>1, <1>3, <1>4
      <4> QED BY <1>1, <1>3, <3>1, <4>1
    <3>2. CASE j # n + 1
      <4>1. i \in 1..n /\ j \in 1..n
        BY <1>1, <2>1, <3>2
      <4> QED BY <1>3, <2>1, <4>1 DEF BurstInv, Ordered
    <3> QED BY <3>1, <3>2
  <2> QED BY <1>1, <1>3, <2>1 DEF Ordered
<1>6. Lost(entries)' = l
  BY <1>1, <1>2, <1>3 DEF Lost
<1>7. ASSUME NEW i \in 1..(Len(entries) + 1) PROVE entries'[i] = events'[l + i]
  <2>1. CASE i = Len(entries) + 1
    BY <1>1, <1>2, <1>3, <2>1
  <2>2. CASE i # Len(entries) + 1
    <3>1. i \in 1..Len(entries) /\ l + i \in 1..n
      BY <1>1, <1>2, <2>2
    <3> QED BY <1>2, <1>3, <3>1
  <2> QED BY <2>1, <2>2
<1>8. ASSUME l > 0 PROVE \E w \in Windows' : events'[l] < now' - w
  <2>1. PICK w \in Windows : events[l] < now - w
    BY <1>2, <1>8
  <2>2. events'[l] = events[l] /\ w \in Windows'
    BY <1>1, <1>2, <1>3, <1>8
  <2> QED BY <2>1, <2>2
<1>9. EndOf(entries)'
  BY <1>2, <1>3, <1>6, <1>7, <1>8 DEF EndOf
<1> QED BY <1>5, <1>9 DEF BurstInv

LEMMA BurstStep == ReloadInv /\ BurstInv /\ [Next]_vars => BurstInv'
<1> SUFFICES ASSUME ReloadInv, BurstInv, [Next]_vars PROVE BurstInv'
  OBVIOUS
<1>1. KnownWindows /\ Windows \subseteq Int /\ Windows \subseteq Windows'
  BY RulesKnowWindows, WindowsStay DEF KnownWindows, ReloadInv
<1>2. now \in Nat
  BY DEF BurstInv, Ordered
<1>3. ASSUME UNCHANGED << entries, events, now >> PROVE BurstInv'
  BY <1>1, <1>2, <1>3, EndStays
<1>4. ASSUME Load \/ MaybeReload \/ Reload \/ Install PROVE BurstInv'
  BY <1>3, <1>4 DEF Load, MaybeReload, Reload, Install
<1>5. ASSUME Tick PROVE BurstInv'
  BY <1>1, <1>2, <1>5, EndStays DEF Tick
<1>6. ASSUME Restart PROVE BurstInv'
  <2>1. entries' = << >> /\ events' = << >> /\ now' = now
    BY <1>6 DEF Restart
  <2> QED BY <1>2, <2>1 DEF BurstInv, Ordered, EndOf, Lost
<1>7. ASSUME NEW a \in BOOLEAN, Event(a) PROVE BurstInv'
  <2>1. CASE a
    BY <1>1, <1>7, <2>1, RecordKeeps DEF Event
  <2>2. CASE ~ a
    BY <1>3, <1>7, <2>2 DEF Event
  <2> QED BY <2>1, <2>2
<1>8. ASSUME NEW ok \in SUBSET (1..Len(rules)), Scan(ok) PROVE BurstInv'
  <2> DEFINE c == Cardinality(Reached(ok))
  <2>1. Len(rules) \in Nat /\ Reached(ok) \in SUBSET (1..Len(rules))
    BY <1>1 DEF KnownWindows, Reached
  <2>2. IsFiniteSet(1..Len(rules)) /\ Cardinality(1..Len(rules)) = Len(rules)
    <3> DEFINE m == Len(rules)
    <3>1. m \in Int /\ 1 \in Int /\ m \in Nat
      BY <2>1
    <3> HIDE DEF m
    <3>2. IsFiniteSet(1..m) /\ Cardinality(1..m) = IF 1 > m THEN 0 ELSE m - 1 + 1
      BY <3>1, FS_Interval
    <3>3. IsFiniteSet(1..m) /\ Cardinality(1..m) = m
      BY <3>1, <3>2
    <3> QED BY <3>3 DEF m
  <2>3. c \in 0..Len(rules)
    BY <2>1, <2>2, FS_Subset, FS_CardinalityType
  <2>4. entries' = AfterCounts(ok, c) /\ UNCHANGED << events, now, hist >>
    BY <1>8 DEF Scan
  <2>5. EndOf(AfterCounts(ok, c))
    BY <1>1, <2>3, ScanLeavesEnd DEF BurstInv
  <2>6. Windows' = Windows
    BY <2>4 DEF Windows
  <2> HIDE DEF c
  <2>7. EndOf(entries)'
    BY <2>4, <2>5, <2>6 DEF EndOf, Lost
  <2>8. Ordered'
    BY <2>4 DEF BurstInv, Ordered
  <2> QED BY <2>7, <2>8 DEF BurstInv
<1>9. ASSUME NEW d \in Versions, EditFile(d) PROVE BurstInv'
  BY <1>3, <1>9 DEF EditFile
<1>10. ASSUME UNCHANGED vars PROVE BurstInv'
  BY <1>3, <1>10 DEF vars
<1> QED BY <1>4, <1>5, <1>6, <1>7, <1>8, <1>9, <1>10 DEF Next

LEMMA BurstAlways == Spec => [](ReloadInv /\ BurstInv)
<1>1. Init => BurstInv
  BY DEF Init, BurstInv, Ordered, EndOf, Lost
<1> QED BY <1>1, BurstStep, ReloadAlways, PTL DEF Spec

(* The rule set is well typed: whatever the file holds, the rules in use   *)
(* have known actions and bursts with windows (validateRules).             *)
THEOREM RuleSetTypes == Spec => []TypeOK
<1>1. ReloadInv /\ BurstInv => TypeOK
  <2> SUFFICES ASSUME ReloadInv, BurstInv PROVE TypeOK
    OBVIOUS
  <2>1. rules \in Seq(ValidRule)
    BY RulesKnowWindows DEF KnownWindows
  <2> DEFINE T == [ minBurst : Int, window : Int, action : Action ]
  <2>2. \A r \in ValidRule : r \in T /\ (r.minBurst > 0 => r.window # 0)
    BY DEF ValidRule, Valid, Rule
  <2>3. \A i \in 1..Len(rules) : rules[i] \in ValidRule
    BY <2>1
  <2> HIDE DEF T
  <2>4. rules \in Seq(T)
    BY <2>1, <2>2
  <2>5. entries \in Seq(0..now) /\ events \in Seq(0..now)
    BY DEF BurstInv, Ordered, EndOf
  <2> QED BY <2>2, <2>3, <2>4, <2>5 DEF TypeOK, ReloadInv, PCs, T
<1> QED BY <1>1, BurstAlways, PTL

(* A burst rule never counts more events than fell within its window, and  *)
(* never fewer than fell within some window, no longer than its own, that  *)
(* the file has held (BurstStore.Record and Count, Evaluate's cache of the *)
(* counts).                                                                *)
THEOREM BurstCountsAreExact == Spec => []BurstIsExact
<1>1. ReloadInv /\ BurstInv => BurstIsExact
  <2> SUFFICES ASSUME ReloadInv, BurstInv, NEW ok \in SUBSET (1..Len(rules)),
                      NEW i \in Reached(ok), CountsBurst(ok, i)
               PROVE  /\ Count(ok, i) <= Within(rules[i].window)
                      /\ \E v \in Windows : v <= rules[i].window /\ Within(v) <= Count(ok, i)
    BY DEF BurstIsExact
  <2> DEFINE j == Counter(ok, i)
             ts == AfterCounts(ok, j - 1)
             w == rules[i].window
  <2>1. KnownWindows /\ Len(rules) \in Nat
    BY RulesKnowWindows DEF KnownWindows
  <2>2. i \in 1..Len(rules)
    BY DEF Reached
  <2>3. j \in 1..i /\ CountsBurst(ok, j) /\ rules[j].window = w /\ Counter(ok, j) = j
    BY <2>2, CounterIs
  <2> HIDE DEF j
  <2>4. j \in 1..Len(rules) /\ j - 1 \in 0..Len(rules)
    BY <2>1, <2>2, <2>3
  <2>5. EndOf(ts) /\ AfterCounts(ok, j) = Evict(ts, w)
    BY <2>1, <2>3, <2>4, ScanLeavesEnd DEF BurstInv
  <2>6. w \in Windows /\ Windows \subseteq Int
    BY <2>1, <2>2 DEF KnownWindows, CountsBurst
  <2> HIDE DEF ts, w
  <2>7. /\ Len(Evict(ts, w)) <= Within(w)
        /\ \E v \in Windows : v <= w /\ Within(v) <= Len(Evict(ts, w))
    BY <2>5, <2>6, EvictEnd DEF BurstInv
  <2>8. Count(ok, i) = Len(Evict(ts, w))
    BY <2>5 DEF Count, j
  <2> QED BY <2>7, <2>8 DEF w
<1> QED BY <1>1, BurstAlways, PTL

=============================================================================
