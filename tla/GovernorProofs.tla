---------------------------- MODULE GovernorProofs --------------------------
(***************************************************************************)
(* What the rate meter keeps for any number of buckets, any budget, exit   *)
(* fraction, load and clock steps: types, that the lazily advanced ring is *)
(* an exact sliding window, and that the shed decision does not flap.      *)
(***************************************************************************)
EXTENDS Governor, WellFoundedInduction, TLAPS

(***************************************************************************)
(* Induction, stated with sets.                                            *)
(***************************************************************************)

LEMMA LeastNumber ==
    ASSUME NEW T \in SUBSET Nat, T # {}
    PROVE  \E n \in T : \A m \in T : n <= m
<1>1. PICK n \in T : \A m \in T : << m, n >> \notin OpToRel(<, Nat)
  BY WFMin, NatLessThanWellFounded, Zenon
<1>2. n \in Nat
  OBVIOUS
<1>3. ASSUME NEW m \in T PROVE ~ (m < n)
  <2>1. << m, n >> \in Nat \X Nat
    OBVIOUS
  <2>2. m < n => << m, n >> \in OpToRel(<, Nat)
    BY <2>1, Zenon DEF OpToRel
  <2> QED BY <1>1, <2>2
<1> QED BY <1>2, <1>3

(* A set that has 0 and with every number the next has them all.           *)
LEMMA UpTo ==
    ASSUME NEW n \in Nat, NEW G, 0 \in G, \A i \in 1..n : i - 1 \in G => i \in G
    PROVE  \A i \in 0..n : i \in G
<1> SUFFICES ASSUME NEW j \in 0..n, j \notin G PROVE FALSE
  OBVIOUS
<1> DEFINE B == {i \in 0..n : i \notin G}
<1>1. B \in SUBSET Nat /\ B # {}
  OBVIOUS
<1> HIDE DEF B
<1>2. PICK m \in B : \A k \in B : m <= k
  BY <1>1, LeastNumber
<1>3. m \in 1..n /\ m \notin G
  BY <1>2 DEF B
<1>4. m - 1 \in 0..n /\ m - 1 \notin B
  BY <1>2, <1>3 DEF B
<1> QED BY <1>3, <1>4 DEF B

(* The n steps of a recursion over S, and its values from b on.            *)
StepsOf(n, S) == [(1..n) \X S -> S]
ValuesOf(n, S, b, F) ==
    {g \in [0..n -> S] : g[0] = b /\ \A i \in 1..n : g[i] = F[<< i, g[i - 1] >>]}

LEMMA ValuesExist ==
    ASSUME NEW n \in Nat, NEW S, NEW b \in S, NEW F \in StepsOf(n, S)
    PROVE  ValuesOf(n, S, b, F) # {}
<1> DEFINE Sol(k) == ValuesOf(k, S, b, F)
           G == {k \in 0..n : Sol(k) # {}}
<1> USE DEF ValuesOf, StepsOf
<1>1. 0 \in G
  <2>1. [i \in 0..0 |-> b] \in Sol(0)
    OBVIOUS
  <2> QED BY <2>1
<1>2. ASSUME NEW k \in 1..n, k - 1 \in G PROVE k \in G
  <2>1. PICK g \in [0..(k - 1) -> S] :
            g[0] = b /\ \A i \in 1..(k - 1) : g[i] = F[<< i, g[i - 1] >>]
    BY <1>2
  <2> DEFINE h == [i \in 0..k |-> IF i = k THEN F[<< k, g[k - 1] >>] ELSE g[i]]
  <2>2. g[k - 1] \in S
    BY <2>1
  <2>3. F[<< k, g[k - 1] >>] \in S
    BY <2>2
  <2>4. h \in [0..k -> S]
    BY <2>1, <2>3
  <2>5. h[0] = b
    BY <2>1
  <2>6. h[k] = F[<< k, h[k - 1] >>]
    <3>1. k - 1 \in 0..k /\ k - 1 # k
      OBVIOUS
    <3>2. h[k - 1] = g[k - 1] /\ h[k] = F[<< k, g[k - 1] >>]
      BY <3>1
    <3> QED BY <3>2
  <2>7. ASSUME NEW i \in 1..(k - 1) PROVE h[i] = F[<< i, h[i - 1] >>]
    <3>1. h[i] = g[i] /\ h[i - 1] = g[i - 1]
      OBVIOUS
    <3> QED BY <2>1, <3>1
  <2> HIDE DEF h
  <2>8. ASSUME NEW i \in 1..k PROVE h[i] = F[<< i, h[i - 1] >>]
    <3>1. i = k \/ i \in 1..(k - 1)
      OBVIOUS
    <3> QED BY <2>6, <2>7, <3>1
  <2>9. h \in Sol(k)
    BY <2>4, <2>5, <2>8
  <2> QED BY <2>9
<1> HIDE DEF G
<1>3. n \in G
  BY <1>1, <1>2, UpTo
<1> QED BY <1>3 DEF G

(***************************************************************************)
(* Sums over the ring.                                                     *)
(***************************************************************************)

Counts == [Ring -> Nat]

(* The loop of rateLocked has its partial sums, each a number.             *)
LEMMA SumSteps ==
    ASSUME NEW f \in Counts
    PROVE  \E g \in [0..Buckets -> Nat] :
              /\ g[0] = 0
              /\ \A i \in 1..Buckets : g[i] = g[i - 1] + f[i - 1]
              /\ SumOf(f) = g[Buckets]
<1> DEFINE n == Buckets
           Next1(i, s) == s + f[i - 1]
           F == [t \in (1..n) \X Nat |-> Next1(t[1], t[2])]
           sum[k \in 0..Buckets] == IF k = 0 THEN 0 ELSE sum[k - 1] + f[k - 1]
<1>1. n \in Nat /\ 0 \in Nat
  BY GovernorAssumption
<1>2. ASSUME NEW i \in 1..n, NEW s \in Nat PROVE Next1(i, s) \in Nat
  <2>1. i - 1 \in Ring
    BY <1>1 DEF Ring
  <2>2. f[i - 1] \in Nat
    BY <2>1 DEF Counts
  <2> QED BY <2>2
<1>3. F \in StepsOf(n, Nat)
  <2>1. ASSUME NEW t \in (1..n) \X Nat PROVE Next1(t[1], t[2]) \in Nat
    <3>1. t[1] \in 1..n /\ t[2] \in Nat
      OBVIOUS
    <3> HIDE DEF Next1
    <3> QED BY <1>2, <3>1
  <2> HIDE DEF Next1
  <2> QED BY <2>1 DEF StepsOf
<1>4. ValuesOf(n, Nat, 0, F) # {}
  <2> HIDE DEF F, n
  <2> QED BY <1>1, <1>3, ValuesExist
<1>5. PICK g \in [0..n -> Nat] : g[0] = 0 /\ \A i \in 1..n : g[i] = F[<< i, g[i - 1] >>]
  <2> HIDE DEF F, n
  <2> QED BY <1>4 DEF ValuesOf
<1>6. ASSUME NEW i \in 1..n PROVE g[i] = Next1(i, g[i - 1])
  <2>1. g[i - 1] \in Nat
    BY <1>1
  <2>2. << i, g[i - 1] >> \in (1..n) \X Nat
    BY <2>1
  <2>3. F[<< i, g[i - 1] >>] = Next1(i, g[i - 1])
    <3> HIDE DEF Next1
    <3> QED BY <2>2
  <2> QED BY <1>5, <2>3
<1>7. g = [i \in 0..n |-> IF i = 0 THEN 0 ELSE Next1(i, g[i - 1])]
  <2> HIDE DEF Next1, F
  <2>1. \A i \in 0..n : i = 0 \/ i \in 1..n
    BY <1>1
  <2> HIDE DEF n
  <2>2. \A i \in 0..n : g[i] = IF i = 0 THEN 0 ELSE Next1(i, g[i - 1])
    BY <1>5, <1>6, <2>1
  <2> QED BY <2>2
<1>8. sum = [i \in 0..n |-> IF i = 0 THEN 0 ELSE Next1(i, sum[i - 1])]
  BY <1>7, Zenon
<1>9. SumOf(f) = sum[n]
  BY Zenon DEF SumOf
<1> HIDE DEF sum, F
<1>10. \A i \in 0..n : i \in {j \in 0..n : sum[j] \in Nat}
  <2> DEFINE G == {j \in 0..n : sum[j] \in Nat}
  <2> HIDE DEF Next1
  <2>1. 0 \in G
    BY <1>1, <1>8
  <2>2. ASSUME NEW i \in 1..n, i - 1 \in G PROVE i \in G
    <3>1. sum[i] = Next1(i, sum[i - 1])
      BY <1>1, <1>8
    <3> QED BY <1>2, <2>2, <3>1
  <2> HIDE DEF G, n
  <2>3. \A i \in 0..n : i \in G
    BY <1>1, <2>1, <2>2, UpTo
  <2> QED BY <2>3 DEF G
<1>11. sum \in [0..n -> Nat]
  <2> DEFINE v(i) == IF i = 0 THEN 0 ELSE Next1(i, sum[i - 1])
  <2>1. \A i \in 0..n : sum[i] = v(i)
    BY <1>8
  <2>2. sum = [i \in 0..n |-> v(i)]
    BY <1>8
  <2>3. \A i \in 0..n : v(i) \in Nat
    BY <1>10, <2>1
  <2> HIDE DEF v
  <2> QED BY <2>2, <2>3
<1>12. sum[0] = 0 /\ \A i \in 1..n : sum[i] = sum[i - 1] + f[i - 1]
  <2>1. 0 \in 0..n /\ \A i \in 1..n : i \in 0..n /\ i # 0
    BY <1>1
  <2>2. \A i \in 0..n : sum[i] = IF i = 0 THEN 0 ELSE Next1(i, sum[i - 1])
    BY <1>8
  <2> QED BY <2>1, <2>2
<1> QED BY <1>9, <1>11, <1>12

LEMMA SumIsNat == ASSUME NEW f \in Counts PROVE SumOf(f) \in Nat
BY SumSteps, GovernorAssumption

LEMMA SumMonotone ==
    ASSUME NEW f \in Counts, NEW h \in Counts, \A i \in Ring : f[i] <= h[i]
    PROVE  SumOf(f) <= SumOf(h)
<1>1. PICK g \in [0..Buckets -> Nat] :
          /\ g[0] = 0
          /\ \A i \in 1..Buckets : g[i] = g[i - 1] + f[i - 1]
          /\ SumOf(f) = g[Buckets]
  BY SumSteps
<1>2. PICK k \in [0..Buckets -> Nat] :
          /\ k[0] = 0
          /\ \A i \in 1..Buckets : k[i] = k[i - 1] + h[i - 1]
          /\ SumOf(h) = k[Buckets]
  BY SumSteps
<1> DEFINE G == {i \in 0..Buckets : g[i] <= k[i]}
<1>3. Buckets \in Nat
  BY GovernorAssumption
<1>4. 0 \in G
  BY <1>1, <1>2, <1>3
<1>5. ASSUME NEW i \in 1..Buckets, i - 1 \in G PROVE i \in G
  <2>1. i - 1 \in Ring /\ i \in 0..Buckets /\ i - 1 \in 0..Buckets
    BY <1>3 DEF Ring
  <2>2. g[i - 1] <= k[i - 1] /\ f[i - 1] <= h[i - 1]
    BY <1>5, <2>1
  <2>3. f[i - 1] \in Nat /\ h[i - 1] \in Nat /\ g[i - 1] \in Nat /\ k[i - 1] \in Nat
    BY <2>1 DEF Counts
  <2> QED BY <1>1, <1>2, <2>1, <2>2, <2>3
<1> HIDE DEF G
<1>6. Buckets \in G
  <2>1. \A i \in 0..Buckets : i \in G
    BY <1>3, <1>4, <1>5, UpTo, Zenon
  <2> QED BY <1>3, <2>1
<1> QED BY <1>1, <1>2, <1>6 DEF G

LEMMA SumOfZeros ==
    ASSUME NEW f \in Counts, \A i \in Ring : f[i] = 0
    PROVE  SumOf(f) = 0
<1>1. PICK g \in [0..Buckets -> Nat] :
          /\ g[0] = 0
          /\ \A i \in 1..Buckets : g[i] = g[i - 1] + f[i - 1]
          /\ SumOf(f) = g[Buckets]
  BY SumSteps
<1> DEFINE G == {i \in 0..Buckets : g[i] = 0}
<1>2. Buckets \in Nat
  BY GovernorAssumption
<1>3. 0 \in G
  BY <1>1, <1>2
<1>4. ASSUME NEW i \in 1..Buckets, i - 1 \in G PROVE i \in G
  <2>1. i - 1 \in Ring
    BY <1>2 DEF Ring
  <2> QED BY <1>1, <1>4, <2>1
<1> HIDE DEF G
<1>5. Buckets \in G
  <2>1. \A i \in 0..Buckets : i \in G
    BY <1>2, <1>3, <1>4, UpTo, Zenon
  <2> QED BY <1>2, <2>1
<1> QED BY <1>1, <1>5 DEF G

(* One charge more in any bucket is one more in the sum.                   *)
LEMMA SumOfOneMore ==
    ASSUME NEW f \in Counts, NEW b \in Ring
    PROVE  /\ [f EXCEPT ![b] = @ + 1] \in Counts
           /\ SumOf([f EXCEPT ![b] = @ + 1]) = SumOf(f) + 1
<1> DEFINE h == [f EXCEPT ![b] = @ + 1]
<1>1. h \in Counts
  BY DEF Counts
<1>2. PICK g \in [0..Buckets -> Nat] :
          /\ g[0] = 0
          /\ \A i \in 1..Buckets : g[i] = g[i - 1] + f[i - 1]
          /\ SumOf(f) = g[Buckets]
  BY SumSteps
<1>3. PICK k \in [0..Buckets -> Nat] :
          /\ k[0] = 0
          /\ \A i \in 1..Buckets : k[i] = k[i - 1] + h[i - 1]
          /\ SumOf(h) = k[Buckets]
  BY <1>1, SumSteps
<1>4. Buckets \in Nat /\ b \in 0..(Buckets - 1)
  BY GovernorAssumption DEF Ring
<1> DEFINE G == {i \in 0..Buckets : k[i] = IF b < i THEN g[i] + 1 ELSE g[i]}
<1>5. 0 \in G
  BY <1>2, <1>3, <1>4
<1>6. ASSUME NEW i \in 1..Buckets, i - 1 \in G PROVE i \in G
  <2>1. i - 1 \in Ring
    BY <1>4 DEF Ring
  <2>2. h[i - 1] = IF i - 1 = b THEN f[i - 1] + 1 ELSE f[i - 1]
    BY <2>1 DEF Counts
  <2>3. f[i - 1] \in Nat /\ g[i - 1] \in Nat /\ g[i] \in Nat
    BY <1>4, <2>1 DEF Counts
  <2>4. k[i] = k[i - 1] + h[i - 1] /\ g[i] = g[i - 1] + f[i - 1]
    BY <1>2, <1>3
  <2>5. k[i - 1] = IF b < i - 1 THEN g[i - 1] + 1 ELSE g[i - 1]
    BY <1>6
  <2>6. i \in 0..Buckets /\ i \in Int /\ b \in Int
    BY <1>4
  <2> HIDE DEF h
  <2>7. k[i] = IF b < i THEN g[i] + 1 ELSE g[i]
    <3>1. CASE b = i - 1
      BY <2>2, <2>3, <2>4, <2>5, <2>6, <3>1
    <3>2. CASE b # i - 1
      BY <2>2, <2>3, <2>4, <2>5, <2>6, <3>2
    <3> QED BY <3>1, <3>2
  <2> QED BY <2>6, <2>7
<1> HIDE DEF G, h
<1>7. Buckets \in G
  <2>1. \A i \in 0..Buckets : i \in G
    BY <1>4, <1>5, <1>6, UpTo, Zenon
  <2> QED BY <1>4, <2>1
<1>8. SumOf(h) = SumOf(f) + 1
  BY <1>2, <1>3, <1>4, <1>7 DEF G
<1> QED BY <1>1, <1>8 DEF h

(* The order of the buckets does not matter: by induction on the sum,      *)
(* taking one charge away at a time.                                       *)
LEMMA SumReordered ==
    ASSUME NEW p \in [Ring -> Ring], \A i \in Ring : p[p[i]] = i, NEW f \in Counts
    PROVE  SumOf([i \in Ring |-> f[p[i]]]) = SumOf(f)
<1> DEFINE Turned(h) == [i \in Ring |-> h[p[i]]]
           G == {n \in Nat : \A h \in Counts : SumOf(h) = n => SumOf(Turned(h)) = n}
<1>1. ASSUME NEW h \in Counts PROVE Turned(h) \in Counts
  BY DEF Counts
<1>2. ASSUME NEW h \in Counts, NEW b \in Ring, h[b] # 0
      PROVE  \E l \in Counts : h = [l EXCEPT ![b] = @ + 1]
  <2> DEFINE l == [h EXCEPT ![b] = @ - 1]
  <2>1. h[b] \in Nat
    BY DEF Counts
  <2>2. l \in Counts
    BY <1>2, <2>1 DEF Counts
  <2>3. h = [l EXCEPT ![b] = @ + 1]
    <3>1. h \in [Ring -> Nat] /\ l \in [Ring -> Nat]
      BY <2>2 DEF Counts
    <3>2. l[b] = h[b] - 1 /\ \A i \in Ring : i # b => l[i] = h[i]
      BY <3>1
    <3>3. \A i \in Ring : h[i] = [l EXCEPT ![b] = @ + 1][i]
      <4> HIDE DEF l
      <4> QED BY <2>1, <3>1, <3>2
    <3> HIDE DEF l
    <3> QED BY <3>1, <3>3
  <2> QED BY <2>2, <2>3
<1>3. 0 \in G
  <2> SUFFICES ASSUME NEW h \in Counts, SumOf(h) = 0 PROVE SumOf(Turned(h)) = 0
    OBVIOUS
  <2>1. ASSUME NEW b \in Ring PROVE h[b] = 0
    <3>1. CASE h[b] # 0
      <4>1. PICK l \in Counts : h = [l EXCEPT ![b] = @ + 1]
        BY <1>2, <3>1
      <4>2. SumOf(h) = SumOf(l) + 1 /\ SumOf(l) \in Nat
        BY <4>1, SumOfOneMore, SumIsNat
      <4> QED BY <4>2
    <3> QED BY <3>1
  <2>2. \A i \in Ring : Turned(h)[i] = 0
    BY <2>1
  <2> HIDE DEF Turned
  <2> QED BY <1>1, <2>2, SumOfZeros
<1>4. ASSUME NEW n \in Nat, n # 0, n - 1 \in G PROVE n \in G
  <2> SUFFICES ASSUME NEW h \in Counts, SumOf(h) = n PROVE SumOf(Turned(h)) = n
    OBVIOUS
  <2>1. PICK b \in Ring : h[b] # 0
    BY <1>4, SumOfZeros
  <2>2. PICK l \in Counts : h = [l EXCEPT ![b] = @ + 1]
    BY <1>2, <2>1
  <2>3. SumOf(l) = n - 1
    <3>1. SumOf(l) \in Nat
      BY SumIsNat
    <3>2. SumOf(h) = SumOf(l) + 1
      BY <2>2, SumOfOneMore
    <3> QED BY <3>1, <3>2
  <2>4. SumOf(Turned(l)) = n - 1
    BY <1>4, <2>3
  <2>5. p[b] \in Ring
    OBVIOUS
  <2>6. Turned(h) = [Turned(l) EXCEPT ![p[b]] = @ + 1]
    <3>1. \A i \in Ring : p[i] = b <=> i = p[b]
      OBVIOUS
    <3>2. ASSUME NEW i \in Ring
          PROVE  Turned(h)[i] = [Turned(l) EXCEPT ![p[b]] = @ + 1][i]
      <4>1. p[i] \in Ring
        OBVIOUS
      <4>2. h[p[i]] = IF p[i] = b THEN l[p[i]] + 1 ELSE l[p[i]]
        BY <2>2, <4>1 DEF Counts
      <4> QED BY <3>1, <4>1, <4>2
    <3> QED BY <3>2
  <2> HIDE DEF Turned
  <2>7. SumOf(Turned(h)) = SumOf(Turned(l)) + 1
    BY <1>1, <2>5, <2>6, SumOfOneMore
  <2> QED BY <2>4, <2>7
<1>5. SumOf(f) \in Nat
  BY SumIsNat
<1> HIDE DEF G
<1>6. SumOf(f) \in G
  <2>1. \A i \in 1..SumOf(f) : i - 1 \in G => i \in G
    BY <1>4, <1>5
  <2> QED BY <1>3, <1>5, <2>1, UpTo
<1> QED BY <1>6 DEF G

(***************************************************************************)
(* Types.                                                                  *)
(***************************************************************************)

(* TypeOK, and that the clock is never further behind lastTick than one    *)
(* step moves it.                                                          *)
TypeInv == TypeOK /\ (lag = Never \/ lag \in (-MaxStep)..LagBound)

LEMMA ConstantTypes ==
    /\ Buckets \in Nat /\ Buckets > 0 /\ MaxPerSec \in Nat /\ MaxStep \in Nat
    /\ ExitDen \in Nat /\ ExitNum \in Nat /\ ExitNum <= ExitDen
    /\ Never \in Int /\ Never < -MaxStep /\ LagBound \in Nat /\ LagBound >= Buckets
    /\ 0 \in Ring
BY GovernorAssumption DEF Never, LagBound, Ring

(* A call leaves the ring well typed, with lastTick at the clock or ahead. *)
LEMMA CallTypes ==
    ASSUME TypeInv
    PROVE  /\ Advanced \in Counts
           /\ \A i \in Ring : Advanced[i] <= counts[i]
           /\ LagAfter \in (-MaxStep)..0
<1>1. Advanced \in Counts /\ \A i \in Ring : Advanced[i] <= counts[i]
  BY DEF TypeInv, TypeOK, Advanced, Counts
<1>2. LagAfter \in (-MaxStep)..0
  <2>1. CASE lag = Never \/ lag > 0
    <3>1. LagAfter = 0
      BY <2>1, Zenon DEF LagAfter
    <3> QED BY <3>1, ConstantTypes
  <2>2. CASE ~ (lag = Never \/ lag > 0)
    <3>1. LagAfter = lag /\ lag \in (-MaxStep)..LagBound
      BY <2>2 DEF LagAfter, TypeInv
    <3> QED BY <2>2, <3>1, ConstantTypes
  <2> QED BY <2>1, <2>2
<1> QED BY <1>1, <1>2

LEMMA TypeStep == TypeInv /\ [Next]_vars => TypeInv'
<1> SUFFICES ASSUME TypeInv, [Next]_vars PROVE TypeInv'
  OBVIOUS
<1> USE ConstantTypes
<1>1. /\ pos \in Ring /\ lag \in Int /\ shedding \in BOOLEAN
      /\ counts \in Counts /\ recent \in Counts
      /\ unsettled \in 0..(Buckets + 2 * MaxStep) /\ since \in 0..MaxPerSec
  BY DEF TypeInv, TypeOK, Counts, LagBound
<1>2. \A k \in Int : Shifted(k) \in Ring
  BY <1>1 DEF Shifted, Ring
<1>3. \A l \in (-MaxStep)..LagBound : l \in Never..LagBound
  OBVIOUS
<1>4. CASE Charge
  <2>1. counts' \in Counts /\ recent' \in Counts
    BY <1>1, <1>4, CallTypes, SumOfOneMore DEF Charge
  <2>2. lag' \in (-MaxStep)..LagBound
    BY <1>4, CallTypes DEF Charge
  <2>3. since' \in 0..MaxPerSec
    BY <1>1, <1>4 DEF Charge, Lower
  <2> QED BY <1>1, <1>3, <1>4, <2>1, <2>2, <2>3 DEF Charge, TypeInv, TypeOK, Counts
<1>5. CASE Shed
  <2>1. counts' \in Counts /\ lag' \in (-MaxStep)..LagBound
    BY <1>5, CallTypes DEF Shed
  <2>2. shedding' \in BOOLEAN
    <3>1. Decision(Rate) \in BOOLEAN
      <4>1. CASE shedding
        BY <4>1 DEF Decision
      <4>2. CASE ~ shedding
        BY <4>2 DEF Decision
      <4> QED BY <4>1, <4>2
    <3>2. shedding' = Decision(Rate)
      BY <1>5, Zenon DEF Shed
    <3> QED BY <3>1, <3>2, Zenon
  <2>3. since' \in 0..MaxPerSec
    BY <1>1, <1>5 DEF Shed
  <2> QED BY <1>1, <1>3, <1>5, <2>1, <2>2, <2>3 DEF Shed, TypeInv, TypeOK, Counts
<1>6. CASE ReadRate
  <2>1. counts' \in Counts /\ lag' \in (-MaxStep)..LagBound
    BY <1>6, CallTypes DEF ReadRate
  <2> QED BY <1>1, <1>3, <1>6, <2>1 DEF ReadRate, TypeInv, TypeOK, Counts
<1>7. CASE Pass
  <2>1. lag' = Never \/ lag' \in (-MaxStep)..LagBound
    BY <1>7 DEF Pass, Lower, TypeInv
  <2>2. recent' \in Counts
    BY <1>1, <1>7 DEF Pass, Counts, Ring
  <2>3. unsettled' \in 0..(Buckets + 2 * MaxStep)
    BY <1>1, <1>7 DEF Pass
  <2>4. pos' \in Ring
    BY <1>2, <1>7 DEF Pass
  <2> QED BY <1>1, <1>3, <1>7, <2>1, <2>2, <2>3, <2>4 DEF Pass, TypeInv, TypeOK, Counts
<1>8. ASSUME NEW k \in (-MaxStep..MaxStep) \ {0}, StepClock(k) PROVE TypeInv'
  <2>1. lag' \in (-MaxStep)..LagBound
    BY <1>1, <1>8 DEF StepClock, Lower
  <2>2. unsettled' \in 0..(Buckets + 2 * MaxStep)
    BY <1>8, <2>1 DEF StepClock
  <2>3. pos' \in Ring
    BY <1>2, <1>8 DEF StepClock
  <2> QED BY <1>1, <1>3, <1>8, <2>1, <2>2, <2>3 DEF StepClock, TypeInv, TypeOK, Counts
<1>9. CASE UNCHANGED vars
  BY <1>9 DEF vars, TypeInv, TypeOK
<1> QED BY <1>4, <1>5, <1>6, <1>7, <1>8, <1>9 DEF Next

LEMMA TypeInit == Init => TypeInv
<1> SUFFICES ASSUME Init PROVE TypeInv
  OBVIOUS
<1>1. pos \in Ring /\ lag = Never /\ lag \in Never..LagBound /\ shedding \in BOOLEAN
  <2>1. Never \in Never..LagBound /\ 0 \in Ring
    BY ConstantTypes
  <2> QED BY <2>1, Zenon DEF Init
<1>2. counts \in [Ring -> Nat] /\ recent \in [Ring -> Nat]
  BY DEF Init
<1>3. unsettled \in 0..(Buckets + 2 * MaxStep) /\ since \in 0..MaxPerSec
  BY ConstantTypes DEF Init
<1> QED BY <1>1, <1>2, <1>3 DEF TypeInv, TypeOK

(* Every reachable state of the meter is well typed: the ring index stays  *)
(* within the ring whatever the clock does, and the clock stays within the *)
(* named bounds of lastTick (advanceLocked, Charge, Shed, Rate).           *)
THEOREM GovernorTypes == Spec => []TypeOK
<1>1. TypeInv => TypeOK
  BY DEF TypeInv
<1> QED BY <1>1, TypeInit, TypeStep, PTL DEF Spec

(***************************************************************************)
(* The sliding window.                                                     *)
(***************************************************************************)

(* The bucket of the tick a ticks before the one whose bucket is p.        *)
Back(p, a) == (p - a) % Buckets

LEMMA Turning ==
    ASSUME NEW p \in Ring, NEW a \in Ring
    PROVE  /\ Back(p, a) \in Ring
           /\ Back(p, Back(p, a)) = a
           /\ Back(p, a) = p <=> a = 0
           /\ a # 0 => Back((p + 1) % Buckets, a) = Back(p, a - 1)
<1> USE ConstantTypes DEF Ring
<1>1. Back(p, a) = IF a <= p THEN p - a ELSE p - a + Buckets
  BY DEF Back
<1>2. Back(p, a) \in Ring
  BY <1>1
<1>3. Back(p, Back(p, a)) = IF Back(p, a) <= p THEN p - Back(p, a) ELSE p - Back(p, a) + Buckets
  BY <1>2 DEF Back
<1>4. Back(p, Back(p, a)) = a
  BY <1>1, <1>3
<1>5. (p + 1) % Buckets = IF p + 1 = Buckets THEN 0 ELSE p + 1
  OBVIOUS
<1>6. ASSUME a # 0 PROVE Back((p + 1) % Buckets, a) = Back(p, a - 1)
  BY <1>5, <1>6 DEF Back
<1> QED BY <1>1, <1>2, <1>4, <1>6

(* What is read of a bucket: nothing, when its tick is later than          *)
(* lastTick.                                                               *)
LEMMA AdvancedAt ==
    ASSUME TypeInv, NEW a \in Ring
    PROVE  Advanced[Back(pos, a)] = IF lag > a THEN 0 ELSE counts[Back(pos, a)]
<1> DEFINE b == Back(pos, a)
<1>1. pos \in Ring /\ lag \in Int /\ a \in 0..(Buckets - 1)
  BY ConstantTypes DEF TypeInv, TypeOK, Ring, LagBound
<1>2. b \in Ring /\ Back(pos, b) = a
  BY <1>1, Turning
<1>3. (pos - b) % Buckets = a
  BY <1>2 DEF Back
<1> HIDE DEF b
<1>4. Advanced[b] = IF lag > 0 /\ (lag >= Buckets \/ a < lag) THEN 0 ELSE counts[b]
  BY <1>2, <1>3 DEF Advanced
<1> QED BY <1>1, <1>4, ConstantTypes DEF b

(* After a call the ring is as it will be read, until time passes.         *)
LEMMA CallAdvances ==
    ASSUME TypeInv, lag' = LagAfter, counts' \in Counts
    PROVE  Advanced' = counts'
<1>1. ~ (lag' > 0)
  BY CallTypes, ConstantTypes
<1>2. Advanced' = [i \in Ring |-> counts'[i]]
  BY <1>1 DEF Advanced
<1> QED BY <1>2 DEF Counts

(* Before the first call there is nothing.  While the clock is behind      *)
(* lastTick, unsettled counts the ticks it is behind and a window more; a  *)
(* bucket of a tick since is exact.                                        *)
NothingYet == lag = Never => unsettled = 0 /\ \A i \in Ring : counts[i] = 0 /\ recent[i] = 0
Behind == lag < 0 /\ lag # Never => unsettled >= Buckets - lag
Exact == \A a \in Ring : a + unsettled < Buckets => Advanced[Back(pos, a)] = recent[a]
WindowInv == NothingYet /\ Behind /\ Exact

LEMMA ChargeKeeps == TypeInv /\ WindowInv /\ Charge => WindowInv'
<1> SUFFICES ASSUME TypeInv, WindowInv, Charge PROVE WindowInv'
  OBVIOUS
<1> USE ConstantTypes
<1>1. /\ pos \in Ring /\ lag \in Int /\ recent \in Counts
      /\ unsettled \in Nat /\ Advanced \in Counts
  BY CallTypes DEF TypeInv, TypeOK, Counts, LagBound
<1>2. /\ counts' = [Advanced EXCEPT ![pos] = @ + 1] /\ lag' = LagAfter
      /\ recent' = [recent EXCEPT ![0] = @ + 1]
      /\ pos' = pos /\ unsettled' = unsettled
  BY DEF Charge
<1>3. Advanced' = counts'
  BY <1>1, <1>2, CallAdvances, SumOfOneMore
<1>4. NothingYet'
  BY <1>2, CallTypes DEF NothingYet
<1>5. Behind'
  BY <1>1, <1>2 DEF Behind, LagAfter, WindowInv
<1>6. ASSUME NEW a \in Ring, a + unsettled < Buckets
      PROVE  Advanced'[Back(pos, a)] = recent'[a]
  <2>1. Back(pos, a) \in Ring /\ (Back(pos, a) = pos <=> a = 0)
    BY <1>1, Turning
  <2>2. Advanced[Back(pos, a)] = recent[a]
    BY <1>6 DEF WindowInv, Exact
  <2>3. counts'[Back(pos, a)] = IF a = 0 THEN Advanced[Back(pos, a)] + 1 ELSE Advanced[Back(pos, a)]
    BY <1>1, <1>2, <2>1 DEF Counts
  <2>4. recent'[a] = IF a = 0 THEN recent[a] + 1 ELSE recent[a]
    BY <1>1, <1>2 DEF Counts
  <2> QED BY <1>3, <2>2, <2>3, <2>4
<1>7. Exact'
  BY <1>2, <1>6 DEF Exact
<1> QED BY <1>4, <1>5, <1>7 DEF WindowInv

(* Shed and Rate.                                                          *)
LEMMA ReadKeeps ==
    ASSUME TypeInv, WindowInv, counts' = Advanced, lag' = LagAfter,
           UNCHANGED <<pos, recent, unsettled>>
    PROVE  WindowInv'
<1> USE ConstantTypes
<1>1. lag \in Int /\ unsettled \in Nat
  BY DEF TypeInv, TypeOK, LagBound
<1>2. Advanced' = Advanced
  BY CallAdvances, CallTypes
<1>3. NothingYet'
  BY CallTypes DEF NothingYet
<1>4. Behind'
  BY <1>1 DEF Behind, LagAfter, WindowInv
<1>5. Exact'
  BY <1>2 DEF Exact, WindowInv
<1> QED BY <1>3, <1>4, <1>5 DEF WindowInv

LEMMA PassKeeps == TypeInv /\ TypeInv' /\ WindowInv /\ Pass => WindowInv'
<1> SUFFICES ASSUME TypeInv, TypeInv', WindowInv, Pass PROVE WindowInv'
  OBVIOUS
<1> USE ConstantTypes
<1>1. /\ pos \in Ring /\ pos' \in Ring /\ lag \in Int /\ lag' \in Int
      /\ counts \in Counts /\ recent \in Counts
      /\ unsettled \in Nat /\ lag <= LagBound /\ 0 \in Ring
  BY DEF TypeInv, TypeOK, Counts, LagBound
<1>2. /\ pos' = (pos + 1) % Buckets /\ counts' = counts
      /\ lag' = IF lag = Never THEN Never ELSE Lower(lag + 1, LagBound)
      /\ recent' = [a \in Ring |-> IF a = 0 THEN 0 ELSE recent[a - 1]]
      /\ unsettled' = IF unsettled = 0 THEN 0 ELSE unsettled - 1
  BY DEF Pass, Shifted
<1>3. \A a \in Ring : a # 0 => a - 1 \in Ring
  BY DEF Ring
<1>4. CASE lag = Never
  <2>1. lag' = Never /\ unsettled' = 0
    BY <1>2, <1>4 DEF WindowInv, NothingYet
  <2>2. \A i \in Ring : counts'[i] = 0 /\ recent'[i] = 0
    BY <1>2, <1>3, <1>4 DEF WindowInv, NothingYet
  <2>3. ASSUME NEW a \in Ring PROVE Advanced'[Back(pos, a)'] = recent'[a]
    <3>1. Back(pos, a)' \in Ring
      BY <1>1, Turning
    <3>2. \A i \in Ring : Advanced'[i] = counts'[i]
      BY <1>1, <1>4, <2>1 DEF Advanced
    <3> QED BY <2>2, <3>1, <3>2
  <2>4. NothingYet' /\ Behind'
    BY <2>1, <2>2 DEF NothingYet, Behind
  <2>5. Exact'
    BY <2>3 DEF Exact
  <2> QED BY <2>4, <2>5 DEF WindowInv
<1>5. CASE lag # Never /\ lag < 0
  <2>1. unsettled >= Buckets - lag
    BY <1>5 DEF WindowInv, Behind
  <2>2. lag' = lag + 1 /\ unsettled' = unsettled - 1
    BY <1>1, <1>2, <1>5, <2>1 DEF Lower
  <2>3. lag # Never /\ lag' >= -MaxStep
    BY <1>1, <1>5, <2>2 DEF TypeInv
  <2>4. NothingYet' /\ Behind'
    BY <1>1, <2>1, <2>2, <2>3 DEF NothingYet, Behind
  <2>5. \A a \in Ring : ~ (a + unsettled' < Buckets)
    BY <1>1, <1>5, <2>1, <2>2 DEF Ring
  <2>6. Exact'
    BY <2>5 DEF Exact
  <2> QED BY <2>4, <2>6 DEF WindowInv
<1>6. CASE lag >= 0
  <2>1. lag' >= 1 /\ \A a \in Ring : a # 0 => (lag' > a <=> lag > a - 1)
    BY <1>1, <1>2, <1>6 DEF Lower, Ring
  <2>2. NothingYet' /\ Behind'
    BY <1>1, <2>1 DEF NothingYet, Behind
  <2>3. ASSUME NEW a \in Ring, a + unsettled' < Buckets
        PROVE  Advanced'[Back(pos, a)'] = recent'[a]
    <3>1. Advanced'[Back(pos, a)'] = IF lag' > a THEN 0 ELSE counts'[Back(pos, a)']
      <4>1. (TypeInv => Advanced[Back(pos, a)] = IF lag > a THEN 0 ELSE counts[Back(pos, a)])'
        BY AdvancedAt, PTL
      <4> QED BY <4>1
    <3>2. CASE a = 0
      BY <1>1, <1>2, <2>1, <3>1, <3>2
    <3>3. CASE a # 0
      <4>1. a - 1 \in Ring /\ a - 1 + unsettled < Buckets
        BY <1>1, <1>2, <1>3, <2>3, <3>3 DEF Ring
      <4>2. Back(pos, a)' = Back(pos, a - 1)
        BY <1>1, <1>2, <3>3, Turning DEF Back
      <4>3. Advanced[Back(pos, a - 1)] = recent[a - 1]
        BY <4>1 DEF WindowInv, Exact
      <4>4. Advanced[Back(pos, a - 1)] = IF lag > a - 1 THEN 0 ELSE counts[Back(pos, a - 1)]
        BY <4>1, AdvancedAt
      <4>5. recent'[a] = recent[a - 1]
        BY <1>2, <3>3
      <4> QED BY <1>2, <2>1, <3>1, <3>3, <4>2, <4>3, <4>4, <4>5
    <3> QED BY <3>2, <3>3
  <2>4. Exact'
    BY <2>3 DEF Exact
  <2> QED BY <2>2, <2>4 DEF WindowInv
<1> QED BY <1>1, <1>4, <1>5, <1>6

LEMMA StepClockKeeps ==
    ASSUME TypeInv, TypeInv', NEW k \in (-MaxStep..MaxStep) \ {0}, StepClock(k)
    PROVE  WindowInv'
<1> USE ConstantTypes
<1>1. PICK l \in Int : l = lag'
  BY DEF TypeInv, TypeOK, LagBound
<1>2. PICK u \in Int : u = unsettled'
  BY DEF TypeInv, TypeOK
<1>3. l >= -MaxStep /\ u = Buckets + (IF l < 0 THEN -l ELSE 0)
  <2>1. lag' >= -MaxStep
    BY <1>1 DEF TypeInv, StepClock, Lower
  <2>2. unsettled' = Buckets + (IF lag' < 0 THEN -lag' ELSE 0)
    BY Zenon DEF StepClock
  <2> QED BY <1>1, <1>2, <2>1, <2>2
<1>4. u >= Buckets /\ (l < 0 => u >= Buckets - l) /\ l # Never
  BY <1>3
<1>5. \A a \in Ring : ~ (a + u < Buckets)
  BY <1>4 DEF Ring
<1>6. NothingYet' /\ Behind'
  BY <1>1, <1>2, <1>4 DEF NothingYet, Behind
<1>7. Exact'
  BY <1>2, <1>5 DEF Exact
<1> QED BY <1>6, <1>7 DEF WindowInv

LEMMA WindowStep == TypeInv /\ TypeInv' /\ WindowInv /\ [Next]_vars => WindowInv'
<1> SUFFICES ASSUME TypeInv, TypeInv', WindowInv, [Next]_vars PROVE WindowInv'
  OBVIOUS
<1>1. CASE Charge
  BY <1>1, ChargeKeeps
<1>2. CASE Shed
  BY <1>2, ReadKeeps DEF Shed
<1>3. CASE ReadRate
  BY <1>3, ReadKeeps DEF ReadRate
<1>4. CASE Pass
  BY <1>4, PassKeeps
<1>5. ASSUME NEW k \in (-MaxStep..MaxStep) \ {0}, StepClock(k) PROVE WindowInv'
  BY <1>5, StepClockKeeps
<1>6. CASE UNCHANGED vars
  BY <1>6 DEF vars, WindowInv, NothingYet, Behind, Exact, Advanced, Back
<1> QED BY <1>1, <1>2, <1>3, <1>4, <1>5, <1>6 DEF Next

LEMMA WindowInit == Init => WindowInv
<1> SUFFICES ASSUME Init PROVE WindowInv
  OBVIOUS
<1> USE ConstantTypes
<1>1. NothingYet /\ Behind
  BY DEF Init, NothingYet, Behind
<1>2. ASSUME NEW a \in Ring PROVE Advanced[Back(pos, a)] = recent[a]
  <2>1. pos \in Ring
    BY DEF Init
  <2>2. Back(pos, a) \in Ring
    BY <2>1, Turning
  <2>3. \A i \in Ring : Advanced[i] = 0
    BY DEF Init, Advanced
  <2> QED BY <2>2, <2>3 DEF Init
<1> QED BY <1>1, <1>2 DEF WindowInv, Exact

(* The buckets read are the charges of the last ticks in another order.    *)
LEMMA RateIsExact == TypeInv /\ WindowInv => RateExact
<1> SUFFICES ASSUME TypeInv, WindowInv, unsettled = 0 PROVE Rate = SumOf(recent)
  BY DEF RateExact
<1> DEFINE p == [i \in Ring |-> Back(pos, i)]
<1>1. pos \in Ring /\ recent \in Counts /\ Advanced \in Counts
  BY CallTypes DEF TypeInv, TypeOK, Counts
<1>2. p \in [Ring -> Ring] /\ \A i \in Ring : p[p[i]] = i
  BY <1>1, Turning
<1>3. ASSUME NEW i \in Ring PROVE recent[p[i]] = Advanced[i]
  <2>1. p[i] \in Ring /\ Back(pos, p[i]) = i
    BY <1>1, Turning
  <2>2. p[i] + unsettled < Buckets
    BY <2>1, ConstantTypes DEF Ring
  <2> HIDE DEF p
  <2>3. Advanced[Back(pos, p[i])] = recent[p[i]]
    BY <2>1, <2>2 DEF WindowInv, Exact
  <2> QED BY <2>1, <2>3
<1> HIDE DEF p
<1>4. Advanced = [i \in Ring |-> recent[p[i]]]
  BY <1>1, <1>3 DEF Counts
<1>5. SumOf([i \in Ring |-> recent[p[i]]]) = SumOf(recent)
  BY <1>1, <1>2, SumReordered
<1> QED BY <1>4, <1>5 DEF Rate

LEMMA WindowAlways == Spec => [](TypeInv /\ WindowInv)
BY TypeInit, TypeStep, WindowInit, WindowStep, PTL DEF Spec

(* The lazily advanced ring is an exact sliding window for any number of   *)
(* buckets: the rate a caller reads is the number of charges of the last   *)
(* Buckets ticks, and again so one window after the clock has caught up    *)
(* with any NTP step (advanceLocked, rateLocked).                          *)
THEOREM RateStaysExact == Spec => []RateExact
BY WindowAlways, RateIsExact, PTL

(***************************************************************************)
(* Hysteresis.                                                             *)
(***************************************************************************)

LEMMA TimesMonotone ==
    ASSUME NEW c \in Nat, NEW a \in Nat, NEW b \in Nat, a <= b
    PROVE  c * a \in Nat /\ c * b \in Nat /\ c * a <= c * b
<1>1. PICK d \in Nat : b = a + d
  <2>1. b - a \in Nat /\ b = a + (b - a)
    OBVIOUS
  <2> QED BY <2>1
<1>2. c * (a + d) = c * a + c * d
  OBVIOUS
<1>3. c * a \in Nat /\ c * d \in Nat
  OBVIOUS
<1> QED BY <1>1, <1>2, <1>3

(* While the meter does not shed, what the ring holds above the exit       *)
(* fraction of the budget was charged since it last shed; since counts no  *)
(* further than the budget.                                                *)
Fits(sum, n) == n = MaxPerSec \/ ExitDen * sum <= ExitNum * MaxPerSec + ExitDen * n
HysteresisInv == ~ shedding => Fits(SumOf(counts), since)

LEMMA FewerFit ==
    ASSUME NEW s \in Nat, NEW r \in Nat, r <= s, NEW n \in 0..MaxPerSec, Fits(s, n)
    PROVE  Fits(r, n) /\ (n # MaxPerSec => Fits(r + 1, n + 1))
<1> USE ConstantTypes
<1>1. CASE n = MaxPerSec
  BY <1>1 DEF Fits
<1>2. CASE n # MaxPerSec
  <2>1. /\ ExitDen * r <= ExitDen * s
        /\ ExitDen * r \in Nat /\ ExitDen * s \in Nat
    BY TimesMonotone
  <2>2. ExitDen * s <= ExitNum * MaxPerSec + ExitDen * n
    BY <1>2 DEF Fits
  <2>3. ExitNum * MaxPerSec \in Nat /\ ExitDen * n \in Nat
    OBVIOUS
  <2>4. ExitDen * r <= ExitNum * MaxPerSec + ExitDen * n
    BY <2>1, <2>2, <2>3
  <2>5. ExitDen * (r + 1) = ExitDen * r + ExitDen /\ ExitDen * (n + 1) = ExitDen * n + ExitDen
    OBVIOUS
  <2>6. ExitDen * (r + 1) <= ExitNum * MaxPerSec + ExitDen * (n + 1)
    BY <2>1, <2>3, <2>4, <2>5
  <2> QED BY <2>4, <2>6 DEF Fits
<1> QED BY <1>1, <1>2

(* Who fits and reaches the budget has charged the rest above the exit     *)
(* fraction.                                                               *)
LEMMA BudgetIsCharged ==
    ASSUME NEW r \in Nat, r >= MaxPerSec, NEW n \in 0..MaxPerSec, Fits(r, n)
    PROVE  ExitDen * n >= (ExitDen - ExitNum) * MaxPerSec
<1> USE ConstantTypes
<1>1. (ExitDen - ExitNum) * MaxPerSec = ExitDen * MaxPerSec - ExitNum * MaxPerSec
  OBVIOUS
<1>2. ExitDen * MaxPerSec \in Nat /\ ExitNum * MaxPerSec \in Nat /\ ExitDen * n \in Nat
  OBVIOUS
<1>3. CASE n = MaxPerSec
  BY <1>1, <1>2, <1>3
<1>4. CASE n # MaxPerSec
  <2>1. ExitDen * MaxPerSec <= ExitDen * r /\ ExitDen * r \in Nat
    BY TimesMonotone
  <2>2. ExitDen * r <= ExitNum * MaxPerSec + ExitDen * n
    BY <1>4 DEF Fits
  <2> QED BY <1>1, <1>2, <2>1, <2>2
<1> QED BY <1>3, <1>4

LEMMA HysteresisStep == TypeInv /\ HysteresisInv /\ [Next]_vars => HysteresisInv'
<1> SUFFICES ASSUME TypeInv, HysteresisInv, [Next]_vars PROVE HysteresisInv'
  OBVIOUS
<1> USE ConstantTypes
<1>1. PICK s \in Nat : s = SumOf(counts)
  BY SumIsNat DEF TypeInv, TypeOK, Counts
<1>2. PICK r \in Nat : r = Rate
  BY CallTypes, SumIsNat DEF Rate
<1>3. r <= s
  BY <1>1, <1>2, CallTypes, SumMonotone DEF Rate, TypeInv, TypeOK, Counts
<1>4. PICK n \in 0..MaxPerSec : n = since
  BY DEF TypeInv, TypeOK
<1>5. ~ shedding => Fits(r, n) /\ (n # MaxPerSec => Fits(r + 1, n + 1))
  BY <1>1, <1>3, <1>4, FewerFit DEF HysteresisInv
<1>6. CASE Charge
  <2>1. shedding' = shedding
    BY <1>6 DEF Charge
  <2>2. SumOf(counts') = r + 1
    <3>1. counts' = [Advanced EXCEPT ![pos] = @ + 1]
      BY <1>6 DEF Charge
    <3>2. pos \in Ring /\ Advanced \in Counts
      BY CallTypes DEF TypeInv, TypeOK
    <3> QED BY <1>2, <3>1, <3>2, SumOfOneMore DEF Rate
  <2>3. since' = MaxPerSec \/ (since' = n + 1 /\ n # MaxPerSec)
    BY <1>4, <1>6 DEF Charge, Lower
  <2>4. CASE since' = MaxPerSec
    BY <2>4 DEF HysteresisInv, Fits
  <2>5. CASE since' = n + 1 /\ n # MaxPerSec
    BY <1>5, <2>1, <2>2, <2>5 DEF HysteresisInv
  <2> QED BY <2>3, <2>4, <2>5
<1>7. CASE Shed
  <2>1. SumOf(counts') = r
    BY <1>2, <1>7 DEF Shed, Rate
  <2>2. CASE shedding /\ ~ shedding'
    <3>1. since' = 0
      BY <1>7, <2>2, Zenon DEF Shed
    <3>2. ExitDen * r <= ExitNum * MaxPerSec
      <4>1. shedding' = Decision(Rate)
        BY <1>7, Zenon DEF Shed
      <4> QED BY <1>2, <2>2, <4>1 DEF Decision
    <3>3. Fits(r, 0)
      BY <3>2 DEF Fits
    <3> QED BY <2>1, <3>1, <3>3 DEF HysteresisInv
  <2>3. CASE ~ shedding
    <3>1. since' = n
      BY <1>4, <1>7, <2>3, Zenon DEF Shed
    <3> QED BY <1>5, <2>1, <2>3, <3>1 DEF HysteresisInv
  <2>4. CASE shedding'
    BY <2>4 DEF HysteresisInv
  <2> QED BY <2>2, <2>3, <2>4
<1>8. CASE ReadRate
  <2>1. SumOf(counts') = r /\ shedding' = shedding /\ since' = n
    BY <1>2, <1>4, <1>8 DEF ReadRate, Rate
  <2> QED BY <1>5, <2>1 DEF HysteresisInv
<1>9. ASSUME UNCHANGED <<counts, shedding, since>> PROVE HysteresisInv'
  BY <1>9 DEF HysteresisInv
<1>10. CASE Pass
  BY <1>9, <1>10 DEF Pass
<1>11. ASSUME NEW k \in (-MaxStep..MaxStep) \ {0}, StepClock(k) PROVE HysteresisInv'
  BY <1>9, <1>11 DEF StepClock
<1>12. CASE UNCHANGED vars
  BY <1>9, <1>12 DEF vars
<1> QED BY <1>6, <1>7, <1>8, <1>10, <1>11, <1>12 DEF Next

LEMMA HysteresisInit == Init => HysteresisInv
<1> SUFFICES ASSUME Init PROVE HysteresisInv
  OBVIOUS
<1>1. counts \in Counts /\ \A i \in Ring : counts[i] = 0
  BY DEF Init, Counts
<1>2. SumOf(counts) = 0 /\ since = 0
  BY <1>1, SumOfZeros DEF Init
<1>3. ExitDen * 0 <= ExitNum * MaxPerSec + ExitDen * 0
  <2>1. ExitNum * MaxPerSec \in Nat /\ ExitDen * 0 = 0
    BY ConstantTypes
  <2> QED BY <2>1
<1> QED BY <1>2, <1>3 DEF HysteresisInv, Fits

(* Only Shed starts to shed, and only at the budget.                       *)
LEMMA ShedNeedsCharges ==
    ASSUME TypeInv, HysteresisInv, [Next]_vars, ~ shedding, shedding'
    PROVE  ExitDen * since >= (ExitDen - ExitNum) * MaxPerSec
<1> USE ConstantTypes
<1>1. Shed
  <2>1. CASE Charge
    BY <2>1 DEF Charge
  <2>2. CASE ReadRate
    BY <2>2 DEF ReadRate
  <2>3. CASE Pass
    BY <2>3 DEF Pass
  <2>4. ASSUME NEW k \in (-MaxStep..MaxStep) \ {0}, StepClock(k) PROVE FALSE
    BY <2>4 DEF StepClock
  <2>5. CASE UNCHANGED vars
    BY <2>5 DEF vars
  <2> QED BY <2>1, <2>2, <2>3, <2>4, <2>5 DEF Next
<1>2. PICK s \in Nat : s = SumOf(counts)
  BY SumIsNat DEF TypeInv, TypeOK, Counts
<1>3. PICK r \in Nat : r = Rate
  BY CallTypes, SumIsNat DEF Rate
<1>4. r <= s
  BY <1>2, <1>3, CallTypes, SumMonotone DEF Rate, TypeInv, TypeOK, Counts
<1>5. PICK n \in 0..MaxPerSec : n = since
  BY DEF TypeInv, TypeOK
<1>6. Fits(r, n)
  BY <1>2, <1>4, <1>5, FewerFit DEF HysteresisInv
<1>7. r >= MaxPerSec
  <2>1. shedding' = Decision(Rate)
    BY <1>1, Zenon DEF Shed
  <2> QED BY <1>3, <2>1 DEF Decision
<1> QED BY <1>5, <1>6, <1>7, BudgetIsCharged

(* The shed decision does not flap, for any budget and exit fraction:      *)
(* after it has stopped, shedding resumes only once the rest of the budget *)
(* above the exit fraction has been charged anew, however the clock is     *)
(* stepped (Shed).                                                         *)
THEOREM SheddingDoesNotFlap == Spec => NoFlapping
<1> DEFINE Charged == ~ shedding /\ shedding'
                          => ExitDen * since >= (ExitDen - ExitNum) * MaxPerSec
<1>1. TypeInv /\ HysteresisInv /\ [Next]_vars => [Charged]_vars
  BY ShedNeedsCharges
<1>2. Spec => [](TypeInv /\ HysteresisInv)
  BY TypeInit, TypeStep, HysteresisInit, HysteresisStep, PTL DEF Spec
<1>3. Spec => [][Charged]_vars
  BY <1>1, <1>2, PTL DEF Spec
<1> QED BY <1>3 DEF NoFlapping

=============================================================================
