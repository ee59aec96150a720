-------------------------- MODULE TrustStoreProofs --------------------------
(***************************************************************************)
(* What TrustStore keeps for any persons, keys, peers, commands, bundles,  *)
(* certs, files and edits: types, what a reload may drop, how fresh the    *)
(* daemon's view is, and that a removed person stays removed.              *)
(***************************************************************************)
EXTENDS TrustStore, WellFoundedInduction, TLAPS

(***************************************************************************)
(* Induction, stated with sets.                                            *)
(***************************************************************************)

LEMMA LeastNumber ==
    ASSUME NEW T \in SUBSET Nat, T # {}
    PROVE  \E n \in T : \A m \in T : n <= m
<1>1. PICK n \in T : \A m \in T : << m, n >> \notin OpToRel(<, Nat)
  BY WFMin, NatLessThanWellFounded, Zenon
<1>2. n \in Nat
  OBVIOUS
<1>3. ASSUME NEW m \in T PROVE ~ (m < n)
  <2>1. << m, n >> \in Nat \X Nat
    OBVIOUS
  <2>2. m < n => << m, n >> \in OpToRel(<, Nat)
    BY <2>1, Zenon DEF OpToRel
  <2> QED BY <1>1, <2>2
<1> QED BY <1>2, <1>3

(* A set that has 0 and with every number the next has them all.           *)
LEMMA UpTo ==
    ASSUME NEW n \in Nat, NEW G, 0 \in G, \A i \in 1..n : i - 1 \in G => i \in G
    PROVE  \A i \in 0..n : i \in G
<1> SUFFICES ASSUME NEW j \in 0..n, j \notin G PROVE FALSE
  OBVIOUS
<1> DEFINE B == {i \in 0..n : i \notin G}
<1>1. B \in SUBSET Nat /\ B # {}
  OBVIOUS
<1> HIDE DEF B
<1>2. PICK m \in B : \A k \in B : m <= k
  BY <1>1, LeastNumber
<1>3. m \in 1..n /\ m \notin G
  BY <1>2 DEF B
<1>4. m - 1 \in 0..n /\ m - 1 \notin B
  BY <1>2, <1>3 DEF B
<1> QED BY <1>3, <1>4 DEF B

(* The n steps of a recursion over S, and its values from b on.            *)
StepsOf(n, S) == [(1..n) \X S -> S]
ValuesOf(n, S, b, F) ==
    {g \in [0..n -> S] : g[0] = b /\ \A i \in 1..n : g[i] = F[<< i, g[i - 1] >>]}

LEMMA ValuesExist ==
    ASSUME NEW n \in Nat, NEW S, NEW b \in S, NEW F \in StepsOf(n, S)
    PROVE  ValuesOf(n, S, b, F) # {}
<1> DEFINE Sol(k) == ValuesOf(k, S, b, F)
           G == {k \in 0..n : Sol(k) # {}}
<1> USE DEF ValuesOf, StepsOf
<1>1. 0 \in G
  <2>1. [i \in 0..0 |-> b] \in Sol(0)
    OBVIOUS
  <2> QED BY <2>1
<1>2. ASSUME NEW k \in 1..n, k - 1 \in G PROVE k \in G
  <2>1. PICK g \in [0..(k - 1) -> S] :
            g[0] = b /\ \A i \in 1..(k - 1) : g[i] = F[<< i, g[i - 1] >>]
    BY <1>2
  <2> DEFINE h == [i \in 0..k |-> IF i = k THEN F[<< k, g[k - 1] >>] ELSE g[i]]
  <2>2. g[k - 1] \in S
    BY <2>1
  <2>3. F[<< k, g[k - 1] >>] \in S
    BY <2>2
  <2>4. h \in [0..k -> S]
    BY <2>1, <2>3
  <2>5. h[0] = b
    BY <2>1
  <2>6. h[k] = F[<< k, h[k - 1] >>]
    <3>1. k - 1 \in 0..k /\ k - 1 # k
      OBVIOUS
    <3>2. h[k - 1] = g[k - 1] /\ h[k] = F[<< k, g[k - 1] >>]
      BY <3>1
    <3> QED BY <3>2
  <2>7. ASSUME NEW i \in 1..(k - 1) PROVE h[i] = F[<< i, h[i - 1] >>]
    <3>1. h[i] = g[i] /\ h[i - 1] = g[i - 1]
      OBVIOUS
    <3> QED BY <2>1, <3>1
  <2> HIDE DEF h
  <2>8. ASSUME NEW i \in 1..k PROVE h[i] = F[<< i, h[i - 1] >>]
    <3>1. i = k \/ i \in 1..(k - 1)
      OBVIOUS
    <3> QED BY <2>6, <2>7, <3>1
  <2>9. h \in Sol(k)
    BY <2>4, <2>5, <2>8
  <2> QED BY <2>9
<1> HIDE DEF G
<1>3. n \in G
  BY <1>1, <1>2, UpTo
<1> QED BY <1>3 DEF G

(* A set of positions has a last one.                                      *)
LEMMA LastPosition ==
    ASSUME NEW n \in Nat, NEW K \in SUBSET (1..n), K # {}
    PROVE  \E i \in K : \A j \in K : j <= i
<1> DEFINE T == {m \in 0..n : n - m \in K}
<1>1. T \in SUBSET Nat
  OBVIOUS
<1>2. T # {}
  <2>1. PICK i \in K : TRUE
    OBVIOUS
  <2>2. n - i \in 0..n /\ n - (n - i) = i
    OBVIOUS
  <2> QED BY <2>2
<1>3. PICK m \in T : \A l \in T : m <= l
  BY <1>1, <1>2, LeastNumber
<1>4. m \in Nat /\ m <= n /\ n - m \in K
  BY <1>3
<1>5. ASSUME NEW j \in K PROVE j <= n - m
  <2>1. j \in 1..n /\ n - j \in 0..n /\ n - (n - j) = j
    OBVIOUS
  <2>2. n - j \in T
    BY <2>1
  <2>3. m <= n - j
    BY <1>3, <2>2
  <2> QED BY <1>4, <2>1, <2>3
<1> QED BY <1>4, <1>5

(***************************************************************************)
(* Lists.                                                                  *)
(***************************************************************************)

(* No entry of the list is the person's.                                   *)
Lacks(list, person) == \A i \in 1..Len(list) : list[i].person # person

(* What trust remove keeps: entries of the list, none of them the person's, *)
(* and nobody comes in who was not there.                                  *)
LEMMA KeptEntries ==
    ASSUME NEW list \in Seq(Anchor), NEW person
    PROVE  /\ Kept(list, person) \in Seq(Anchor)
           /\ Lacks(Kept(list, person), person)
           /\ \A q : Lacks(list, q) => Lacks(Kept(list, person), q)
<1> DEFINE S == {s \in Seq(Anchor) : /\ Lacks(s, person)
                                     /\ \A q : Lacks(list, q) => Lacks(s, q)}
           n == Len(list)
           Next1(i, s) == IF list[i].person = person THEN s ELSE Append(s, list[i])
           F == [t \in (1..n) \X S |-> Next1(t[1], t[2])]
           kept[i \in 0..Len(list)] ==
               IF i = 0 THEN << >>
               ELSE IF list[i].person = person THEN kept[i - 1] ELSE Append(kept[i - 1], list[i])
<1>1. n \in Nat /\ << >> \in S
  BY DEF Lacks
<1>2. ASSUME NEW i \in 1..n, NEW s \in S PROVE Next1(i, s) \in S
  <2>1. CASE list[i].person = person
    BY <2>1
  <2>2. CASE list[i].person # person
    <3>1. Append(s, list[i]) \in Seq(Anchor)
      OBVIOUS
    <3>2. ASSUME NEW q, Lacks(s, q), list[i].person # q PROVE Lacks(Append(s, list[i]), q)
      BY <3>2 DEF Lacks
    <3>3. \A q : Lacks(list, q) => list[i].person # q
      BY DEF Lacks
    <3> QED BY <2>2, <3>1, <3>2, <3>3
  <2> QED BY <2>1, <2>2
<1>3. F \in StepsOf(n, S)
  <2>1. ASSUME NEW t \in (1..n) \X S PROVE Next1(t[1], t[2]) \in S
    <3>1. t[1] \in 1..n /\ t[2] \in S
      OBVIOUS
    <3> HIDE DEF Next1, S
    <3> QED BY <1>2, <3>1
  <2> HIDE DEF Next1, S
  <2> QED BY <2>1 DEF StepsOf
<1>4. ValuesOf(n, S, << >>, F) # {}
  <2> HIDE DEF F, S, n
  <2> QED BY <1>1, <1>3, ValuesExist
<1>5. PICK g \in [0..n -> S] : g[0] = << >> /\ \A i \in 1..n : g[i] = F[<< i, g[i - 1] >>]
  <2> HIDE DEF F, S, n
  <2> QED BY <1>4 DEF ValuesOf
<1>6. ASSUME NEW i \in 1..n PROVE g[i - 1] \in S /\ g[i] = Next1(i, g[i - 1])
  <2>1. g[i - 1] \in S
    <3> HIDE DEF S
    <3> QED BY <1>1
  <2>2. << i, g[i - 1] >> \in (1..n) \X S
    BY <2>1
  <2>3. F[<< i, g[i - 1] >>] = Next1(i, g[i - 1])
    <3> HIDE DEF S, Next1
    <3> QED BY <2>2
  <2> QED BY <1>5, <2>1, <2>3
<1>7. g = [i \in 0..n |-> IF i = 0 THEN << >> ELSE Next1(i, g[i - 1])]
  <2> HIDE DEF S, Next1, F
  <2>1. \A i \in 0..n : g[i] = IF i = 0 THEN << >> ELSE Next1(i, g[i - 1])
    BY <1>1, <1>5, <1>6
  <2> QED BY <2>1
<1>8. kept = [i \in 0..n |-> IF i = 0 THEN << >> ELSE Next1(i, kept[i - 1])]
  BY <1>7, Zenon
<1>9. Kept(list, person) = kept[n]
  BY Zenon DEF Kept
<1> HIDE DEF kept, F
<1>10. \A i \in 0..n : i \in {j \in 0..n : kept[j] \in S}
  <2> DEFINE G == {j \in 0..n : kept[j] \in S}
  <2> HIDE DEF S, Next1
  <2>1. 0 \in G
    BY <1>1, <1>8
  <2>2. ASSUME NEW i \in 1..n, i - 1 \in G PROVE i \in G
    <3>1. kept[i] = Next1(i, kept[i - 1])
      BY <1>1, <1>8
    <3> QED BY <1>2, <2>2, <3>1
  <2> HIDE DEF G, n
  <2>3. \A i \in 0..n : i \in G
    BY <1>1, <2>1, <2>2, UpTo
  <2> QED BY <2>3 DEF G
<1>11. kept[n] \in S
  <2> HIDE DEF S
  <2> QED BY <1>1, <1>10
<1> QED BY <1>9, <1>11

(* What replaces or changes an entry brings in nobody but the new entry's  *)
(* person.                                                                 *)
LEMMA UpsertEntries ==
    ASSUME NEW list \in Seq(Anchor), NEW a \in Anchor
    PROVE  /\ upsertAnchor(list, a) \in Seq(Anchor)
           /\ \A q : Lacks(list, q) /\ a.person # q => Lacks(upsertAnchor(list, a), q)
<1> DEFINE i == First(list, a.person)
           new == upsertAnchor(list, a)
<1>1. CASE At(list, a.person) = {}
  <2>1. new = Append(list, a)
    BY <1>1 DEF upsertAnchor
  <2> QED BY <2>1 DEF Lacks
<1>2. CASE At(list, a.person) # {}
  <2>1. new = [list EXCEPT ![i] = a]
    BY <1>2 DEF upsertAnchor
  <2> HIDE DEF i, new
  <2>2. new \in [1..Len(list) -> Anchor] /\ Len(list) \in Nat
    <3>1. list \in [1..Len(list) -> Anchor] /\ Len(list) \in Nat
      OBVIOUS
    <3> QED BY <2>1, <3>1
  <2>3. new \in Seq(Anchor) /\ Len(new) = Len(list)
    BY <2>2
  <2>4. \A j \in 1..Len(list) : new[j] = list[j] \/ new[j] = a
    BY <2>1
  <2>5. ASSUME NEW q, Lacks(list, q), a.person # q PROVE Lacks(new, q)
    BY <2>3, <2>4, <2>5 DEF Lacks
  <2> QED BY <2>3, <2>5 DEF new
<1> QED BY <1>1, <1>2

LEMMA SetEntries ==
    ASSUME NEW list \in Seq(Anchor), NEW o, o.weight \in Int, NEW new \in trustSet(list, o)
    PROVE  new \in Seq(Anchor) /\ \A q : Lacks(list, q) => Lacks(new, q)
<1> DEFINE i == First(list, o.person)
<1>1. new = [list EXCEPT ![i].weight = o.weight]
  BY DEF trustSet
<1> HIDE DEF i
<1>2. Len(new) = Len(list) /\ DOMAIN new = 1..Len(list)
  BY <1>1
<1>3. ASSUME NEW j \in 1..Len(list)
      PROVE  new[j] \in Anchor /\ new[j].person = list[j].person
  <2>1. list[j] \in Anchor
    OBVIOUS
  <2>2. new[j] = list[j] \/ new[j] = [list[j] EXCEPT !.weight = o.weight]
    BY <1>1
  <2> QED BY <2>1, <2>2 DEF Anchor
<1>4. new \in [1..Len(list) -> Anchor] /\ Len(list) \in Nat
  <2>1. list \in [1..Len(list) -> Anchor] /\ Len(list) \in Nat
    OBVIOUS
  <2>2. new = [j \in 1..Len(list) |-> new[j]]
    BY <1>1, <2>1
  <2> QED BY <1>3, <2>1, <2>2
<1>5. new \in Seq(Anchor)
  BY <1>4
<1> QED BY <1>2, <1>3, <1>5 DEF Lacks

(* The anchor of a key is an entry of the list, its weight cut.            *)
Cut(a) == [a EXCEPT !.weight = IF @ > Full THEN Full ELSE @]

LEMMA EffectiveEntry ==
    ASSUME NEW list \in Seq(Anchor), NEW k \in Keys, Effective(list)[k] # None
    PROVE  \E i \in 1..Len(list) : list[i].weight > 0 /\ Effective(list)[k] = Cut(list[i])
<1> DEFINE kept == {i \in 1..Len(list) : list[i].key = k /\ list[i].weight > 0}
           last == CHOOSE i \in kept : \A j \in kept : j <= i
<1>1. kept # {} /\ Effective(list)[k] = Cut(list[last])
  BY DEF Effective, Cut
<1>2. kept \in SUBSET (1..Len(list)) /\ Len(list) \in Nat
  OBVIOUS
<1>3. \E i \in kept : \A j \in kept : j <= i
  <2> HIDE DEF kept
  <2> QED BY <1>1, <1>2, LastPosition
<1>4. last \in kept
  <2> HIDE DEF kept
  <2> QED BY <1>3, Zenon
<1> QED BY <1>1, <1>4

LEMMA CutType ==
    ASSUME NEW a \in Anchor, a.weight > 0
    PROVE  Cut(a) \in Anchor /\ Cut(a).weight \in 1..Full /\ Cut(a).person = a.person
<1>1. a.weight \in Int /\ Full \in Nat \ {0}
  BY TrustAssumption DEF Anchor
<1>2. Cut(a).weight = IF a.weight > Full THEN Full ELSE a.weight
  BY DEF Cut, Anchor
<1>3. Cut(a) \in Anchor /\ Cut(a).person = a.person
  BY <1>1 DEF Cut, Anchor
<1> QED BY <1>1, <1>2, <1>3

AnchorMap == [Keys -> Anchor \cup {None}]
WithinFull(m) == \A k \in Keys : m[k] # None => m[k].weight \in 1..Full

(* The effective anchors are well typed, weigh at most Full, and belong to *)
(* persons of the list.                                                    *)
LEMMA EffectiveType ==
    ASSUME NEW list \in Seq(Anchor)
    PROVE  /\ Effective(list) \in AnchorMap
           /\ WithinFull(Effective(list))
           /\ \A q : Lacks(list, q) =>
                  \A k \in Keys : Effective(list)[k] # None => Effective(list)[k].person # q
<1>1. ASSUME NEW k \in Keys, Effective(list)[k] # None
      PROVE  /\ Effective(list)[k] \in Anchor /\ Effective(list)[k].weight \in 1..Full
             /\ \A q : Lacks(list, q) => Effective(list)[k].person # q
  <2>1. PICK i \in 1..Len(list) : list[i].weight > 0 /\ Effective(list)[k] = Cut(list[i])
    BY <1>1, EffectiveEntry
  <2>2. list[i] \in Anchor
    OBVIOUS
  <2> QED BY <2>1, <2>2, CutType DEF Lacks
<1>2. Effective(list) = [k \in Keys |-> Effective(list)[k]]
  BY DEF Effective
<1> QED BY <1>1, <1>2 DEF AnchorMap, WithinFull

(***************************************************************************)
(* Files and commands.                                                     *)
(***************************************************************************)

ListOf(f) == CASE f = "anchors" -> Seq(Anchor)
               [] f = "certs"   -> Certs
               [] f = "blocked" -> SUBSET Peers

LEMMA FileTypes ==
    /\ ListOf("anchors") = Seq(Anchor) /\ ListOf("certs") = Certs
    /\ ListOf("blocked") = SUBSET Peers
    /\ \A f \in Files : /\ Content[f] = ListOf(f) \cup {Missing, Garbage}
                        /\ EmptyList[f] \in ListOf(f)
<1>1. ListOf("anchors") = Seq(Anchor) /\ ListOf("certs") = Certs /\ ListOf("blocked") = SUBSET Peers
  BY DEF ListOf
<1>2. /\ Content["anchors"] = Seq(Anchor) \cup {Missing, Garbage}
      /\ Content["certs"] = Certs \cup {Missing, Garbage}
      /\ Content["blocked"] = (SUBSET Peers) \cup {Missing, Garbage}
  BY DEF Content
<1>3. /\ EmptyList["anchors"] = << >> /\ EmptyList["certs"] = NoCerts
      /\ EmptyList["blocked"] = {}
  BY DEF EmptyList
<1>4. NoCerts \in Certs
  BY DEF NoCerts, Certs
<1>5. ASSUME NEW f \in Files PROVE f = "anchors" \/ f = "certs" \/ f = "blocked"
  BY DEF Files
<1>6. << >> \in Seq(Anchor) /\ {} \in SUBSET Peers
  OBVIOUS
<1> QED BY <1>1, <1>2, <1>3, <1>4, <1>5, <1>6

LEMMA LoadType ==
    ASSUME NEW f \in Files, NEW d \in Content[f], d # Garbage
    PROVE  Load(f, d) \in ListOf(f)
BY FileTypes DEF Load

(* The files a command comes to.                                           *)
AtFile(o, f) ==
    /\ o \in ImportOps => f \in {"certs", "anchors"}
    /\ o \in BlockOps => f = "blocked"
    /\ o \notin ImportOps \cup BlockOps => f = "anchors"

LEMMA FirstFileIsOne == \A o \in Ops : FirstFile(o) \in Files /\ AtFile(o, FirstFile(o))
<1>1. \A o : o \in ImportOps => o \notin BlockOps
  BY DEF ImportOps, BlockOps
<1> QED BY <1>1 DEF FirstFile, AtFile, Files

LEMMA BundleAnchor ==
    ASSUME NEW b \in Bundles
    PROVE  NewAnchor(b) \in Anchor /\ NewAnchor(b).person = b.person /\ b.certs \in Certs
<1>1. b \in Bundle
  BY TrustAssumption
<1> QED BY <1>1 DEF NewAnchor, Anchor, Bundle

(* What a command makes of a list is a list, and everybody who was not in  *)
(* it is still not, except the person the command is about.                *)
LEMMA EditType ==
    ASSUME NEW o \in Ops, NEW f \in Files, AtFile(o, f),
           NEW list \in ListOf(f), NEW new \in Edit(o, f, list)
    PROVE  /\ new \in ListOf(f)
           /\ f = "anchors" => \A q \in Persons \ About(o) : Lacks(list, q) => Lacks(new, q)
           /\ o \in RemoveOps => Lacks(new, o.person)
<1>1. CASE o \in AddOps
  <2>1. /\ o.op = "add" /\ f = "anchors" /\ About(o) = {o.person} /\ o \notin RemoveOps
        /\ NewAnchor(o).person = o.person
    BY <1>1 DEF AddOps, AtFile, ImportOps, BlockOps, RemoveOps, About, NewAnchor
  <2>2. o.weight \in Int /\ o.person \in Persons /\ o.key \in Keys
    BY <1>1, TrustAssumption DEF AddOps
  <2>3. NewAnchor(o) \in Anchor
    BY <2>2 DEF NewAnchor, Anchor
  <2>4. list \in Seq(Anchor) /\ new = upsertAnchor(list, NewAnchor(o))
    BY <2>1, FileTypes DEF Edit
  <2> QED BY <2>1, <2>3, <2>4, UpsertEntries, FileTypes
<1>2. CASE o \in SetOps
  <2>1. o.op = "set" /\ f = "anchors" /\ About(o) = {o.person} /\ o \notin RemoveOps
    BY <1>2 DEF SetOps, AtFile, ImportOps, BlockOps, RemoveOps, About
  <2>2. o.weight \in Int
    BY <1>2, TrustAssumption DEF SetOps
  <2>3. list \in Seq(Anchor) /\ new \in trustSet(list, o)
    BY <2>1, FileTypes DEF Edit
  <2> QED BY <2>1, <2>2, <2>3, SetEntries, FileTypes
<1>3. CASE o \in RemoveOps
  <2>1. o.op = "remove" /\ f = "anchors"
    BY <1>3 DEF AtFile, ImportOps, BlockOps, RemoveOps
  <2>2. list \in Seq(Anchor) /\ new \in trustRemove(list, o)
    BY <2>1, FileTypes DEF Edit
  <2>3. new = Kept(list, o.person)
    BY <2>2 DEF trustRemove
  <2> QED BY <2>1, <2>2, <2>3, KeptEntries, FileTypes
<1>4. CASE o \in ImportOps
  <2>1. /\ o.op = "import" /\ o.bundle \in Bundles /\ f \in {"certs", "anchors"}
        /\ o \notin RemoveOps /\ o \notin BlockOps
    BY <1>4 DEF AtFile, ImportOps, BlockOps, RemoveOps
  <2>2. About(o) = {o.bundle.person}
    BY <1>4, <2>1 DEF About
  <2>3. CASE f = "certs"
    <3>1. list \in Certs /\ new = MergeCerts(list, o.bundle)
      BY <2>1, <2>3, FileTypes DEF Edit
    <3>2. new \in Certs
      BY <2>1, <3>1, BundleAnchor DEF MergeCerts, Certs
    <3> QED BY <2>1, <2>3, <3>2, FileTypes
  <2>4. CASE f = "anchors"
    <3>1. list \in Seq(Anchor) /\ new = upsertAnchor(list, NewAnchor(o.bundle))
      BY <2>1, <2>4, FileTypes DEF Edit
    <3> QED BY <2>1, <2>2, <2>4, <3>1, BundleAnchor, UpsertEntries, FileTypes
  <2> QED BY <2>1, <2>3, <2>4
<1>5. CASE o \in BlockOps
  <2>1. o.op \in {"block", "unblock"} /\ f = "blocked" /\ o.peer \in Peers /\ o \notin RemoveOps
    BY <1>5 DEF AtFile, BlockOps, RemoveOps
  <2>2. list \in SUBSET Peers
    BY <2>1, FileTypes
  <2>3. new = list \cup {o.peer} \/ new = list \ {o.peer}
    BY <2>1 DEF Edit
  <2> QED BY <2>1, <2>2, <2>3, FileTypes
<1> QED BY <1>1, <1>2, <1>3, <1>4, <1>5 DEF Ops

(***************************************************************************)
(* Types.                                                                  *)
(***************************************************************************)

VersionOf(f) == [data : Content[f], mtime : Nat]

HistInv ==
    /\ hist = [f \in Files |-> hist[f]]
    /\ \A f \in Files : hist[f] \in Seq(VersionOf(f)) /\ hist[f] # << >>

Lists == Seq(Anchor) \cup Certs \cup SUBSET Peers
Running == [op : Ops, file : Files, new : Lists \cup {None}]

(* A command at a file, with what it is going to write there.              *)
CmdOK(r) ==
    /\ r \in Running
    /\ AtFile(r.op, r.file)
    /\ r.new # None => /\ r.new \in ListOf(r.file)
                       /\ r.op \in RemoveOps => Lacks(r.new, r.op.person)

CmdInv == /\ cmd = [c \in Cmds |-> cmd[c]]
          /\ \A c \in Cmds : cmd[c] # None => CmdOK(cmd[c])

DaemonInv ==
    /\ pc \in {"down", "idle"} \cup Files
    /\ anchors \in AnchorMap /\ WithinFull(anchors)
    /\ certs \in Certs
    /\ blocked \subseteq Peers
    /\ loadedOnce \in BOOLEAN
    /\ now \in Nat /\ lastCheck \in Nat /\ edits \in Nat
    /\ stat = [f \in Files |-> stat[f]]
    /\ base \in [Files -> Nat \ {0}]
    /\ revoked \in [Persons -> Nat]

TypeInv == HistInv /\ CmdInv /\ DaemonInv

LEMMA FileIsVersion ==
    ASSUME HistInv, NEW f \in Files
    PROVE  /\ Len(hist[f]) \in Nat \ {0}
           /\ File(f) = hist[f][Len(hist[f])] /\ File(f) \in VersionOf(f)
           /\ File(f).data \in Content[f] /\ File(f).mtime \in Nat
<1>1. hist[f] \in Seq(VersionOf(f)) /\ hist[f] # << >>
  BY DEF HistInv
<1>2. Len(hist[f]) \in Nat \ {0}
  BY <1>1
<1>3. hist[f][Len(hist[f])] \in VersionOf(f)
  BY <1>1, <1>2
<1> QED BY <1>2, <1>3 DEF File, VersionOf

(* A file only gets new versions.                                          *)
LEMMA SaveEffect ==
    ASSUME HistInv, NEW f \in Files, NEW d \in Content[f], Save(f, d)
    PROVE  /\ HistInv'
           /\ Len(hist'[f]) = Len(hist[f]) + 1
           /\ hist'[f][Len(hist[f]) + 1].data = d
           /\ \A i \in 1..Len(hist[f]) : hist'[f][i] = hist[f][i]
           /\ \A g \in Files \ {f} : hist'[g] = hist[g]
<1>1. PICK m \in {File(f).mtime, File(f).mtime + 1} :
          hist' = [hist EXCEPT ![f] = Append(@, [data |-> d, mtime |-> m])]
  BY DEF Save
<1> DEFINE v == [data |-> d, mtime |-> m]
<1>2. v \in VersionOf(f) /\ v.data = d
  BY FileIsVersion DEF VersionOf
<1> HIDE DEF v
<1>3. hist = [g \in Files |-> hist[g]] /\ \A g \in Files : hist[g] \in Seq(VersionOf(g)) /\ hist[g] # << >>
  BY DEF HistInv
<1>4. /\ hist' = [g \in Files |-> hist'[g]]
      /\ hist'[f] = Append(hist[f], v)
      /\ \A g \in Files \ {f} : hist'[g] = hist[g]
  BY <1>1, <1>3 DEF v
<1>5. hist[f] \in Seq(VersionOf(f)) /\ Len(hist[f]) \in Nat
  BY <1>3
<1>6. /\ hist'[f] \in Seq(VersionOf(f)) /\ hist'[f] # << >>
      /\ Len(hist'[f]) = Len(hist[f]) + 1
      /\ hist'[f][Len(hist[f]) + 1] = v
      /\ \A i \in 1..Len(hist[f]) : hist'[f][i] = hist[f][i]
  BY <1>2, <1>4, <1>5
<1>7. HistInv'
  BY <1>3, <1>4, <1>6 DEF HistInv, VersionOf
<1> QED BY <1>2, <1>4, <1>6, <1>7

LEMMA ForgetType ==
    ASSUME revoked \in [Persons -> Nat], NEW P, Forget(P) \/ UNCHANGED revoked
    PROVE  revoked' \in [Persons -> Nat]
BY DEF Forget

LEMMA CmdStarted ==
    ASSUME NEW o \in Ops
    PROVE  CmdOK([op |-> o, file |-> FirstFile(o), new |-> None])
BY FirstFileIsOne DEF CmdOK, Running

(* A command that has read a file holds what it will write.                *)
LEMMA CmdReads ==
    ASSUME TypeInv, NEW c \in Cmds, CmdRead(c)
    PROVE  /\ CmdInv'
           /\ \A e \in Cmds \ {c} : cmd'[e] = cmd[e]
           /\ cmd'[c] # None =>
                /\ cmd'[c].op = cmd[c].op /\ cmd'[c].file = cmd[c].file
                /\ LET f == cmd[c].file
                       d == File(f).data
                   IN  d # Garbage /\ cmd'[c].new \in Edit(cmd[c].op, f, Load(f, d))
<1> DEFINE f == cmd[c].file
           d == File(f).data
           E == Edit(cmd[c].op, f, Load(f, d))
           new == CHOOSE n \in E : TRUE
           r == [cmd[c] EXCEPT !.new = new]
<1>1. cmd[c] # None /\ CmdOK(cmd[c]) /\ cmd = [e \in Cmds |-> cmd[e]]
  BY DEF TypeInv, CmdInv, CmdRead
<1>2. cmd' = [cmd EXCEPT ![c] = IF d = Garbage \/ E = {} THEN None ELSE r]
  BY DEF CmdRead
<1>3. CASE d = Garbage \/ E = {}
  BY <1>1, <1>2, <1>3 DEF TypeInv, CmdInv
<1>4. CASE ~ (d = Garbage \/ E = {})
  <2>1. new \in E
    BY <1>4
  <2>2. cmd[c] \in Running /\ f \in Files /\ cmd[c].op \in Ops /\ AtFile(cmd[c].op, f)
    BY <1>1 DEF CmdOK, Running
  <2>3. Load(f, d) \in ListOf(f)
    BY <1>4, <2>2, LoadType, FileIsVersion DEF TypeInv
  <2> HIDE DEF new
  <2>4. new \in ListOf(f) /\ (cmd[c].op \in RemoveOps => Lacks(new, cmd[c].op.person))
    BY <2>1, <2>2, <2>3, EditType
  <2>5. new \in Lists
    BY <2>2, <2>4, FileTypes DEF Lists, Files
  <2>6. /\ r \in Running /\ r.op = cmd[c].op /\ r.file = f /\ r.new = new
    BY <2>2, <2>5 DEF Running
  <2>7. CmdOK(r)
    BY <2>2, <2>4, <2>6 DEF CmdOK
  <2>8. cmd' = [e \in Cmds |-> IF e = c THEN r ELSE cmd[e]]
    BY <1>1, <1>2, <1>4
  <2> HIDE DEF r, E
  <2>9. cmd'[c] = r /\ \A e \in Cmds \ {c} : cmd'[e] = cmd[e]
    BY <2>8
  <2>10. CmdInv'
    BY <2>7, <2>8 DEF TypeInv, CmdInv
  <2> QED BY <1>4, <2>1, <2>6, <2>9, <2>10 DEF E
<1> QED BY <1>3, <1>4

(* A command that has written its file is done, or an import at the second *)
(* one of its files.                                                       *)
LEMMA CmdWrites ==
    ASSUME TypeInv, NEW c \in Cmds, CmdWrite(c)
    PROVE  /\ CmdInv'
           /\ \A e \in Cmds \ {c} : cmd'[e] = cmd[e]
           /\ cmd'[c] # None => cmd'[c].new = None
           /\ CmdOK(cmd[c]) /\ cmd[c].file \in Files /\ cmd[c].op \in Ops
           /\ cmd[c].new \in ListOf(cmd[c].file)
           /\ cmd[c].new \in Content[cmd[c].file] /\ Save(cmd[c].file, cmd[c].new)
<1> DEFINE next == IF cmd[c].op \in ImportOps /\ cmd[c].file = "certs"
                   THEN [cmd[c] EXCEPT !.file = "anchors", !.new = None] ELSE None
<1>1. cmd[c] # None /\ cmd[c].new # None /\ CmdOK(cmd[c]) /\ cmd = [e \in Cmds |-> cmd[e]]
  BY DEF TypeInv, CmdInv, CmdWrite
<1>2. cmd[c] \in Running /\ cmd[c].op \in Ops /\ cmd[c].file \in Files /\ cmd[c].new \in ListOf(cmd[c].file)
  BY <1>1 DEF CmdOK, Running
<1>3. cmd[c].new \in Content[cmd[c].file]
  BY <1>2, FileTypes
<1>4. cmd' = [e \in Cmds |-> IF e = c THEN next ELSE cmd[e]]
  BY <1>1 DEF CmdWrite
<1>5. next # None => CmdOK(next) /\ next.new = None
  <2> SUFFICES ASSUME next # None PROVE CmdOK(next) /\ next.new = None
    OBVIOUS
  <2>1. cmd[c].op \in ImportOps /\ next = [cmd[c] EXCEPT !.file = "anchors", !.new = None]
    OBVIOUS
  <2> HIDE DEF next
  <2>2. next \in Running /\ next.op = cmd[c].op /\ next.file = "anchors" /\ next.new = None
    BY <1>2, <2>1 DEF Running, Files
  <2>3. AtFile(next.op, next.file)
    BY <2>1, <2>2 DEF AtFile, ImportOps, BlockOps
  <2> QED BY <2>2, <2>3 DEF CmdOK
<1> HIDE DEF next
<1>6. CmdInv' /\ cmd'[c] = next /\ \A e \in Cmds \ {c} : cmd'[e] = cmd[e]
  BY <1>4, <1>5 DEF TypeInv, CmdInv
<1> QED BY <1>1, <1>2, <1>3, <1>5, <1>6 DEF CmdWrite

LEMMA InitTypes == Init => TypeInv
<1> SUFFICES ASSUME Init PROVE TypeInv
  OBVIOUS
<1>1. ASSUME NEW f \in Files
      PROVE  hist[f] \in Seq(VersionOf(f)) /\ hist[f] # << >>
  <2>1. [data |-> Installed[f], mtime |-> 0] \in VersionOf(f)
    BY TrustAssumption DEF VersionOf
  <2> QED BY <2>1 DEF Init
<1>2. HistInv
  BY <1>1 DEF HistInv, Init
<1>3. CmdInv
  BY DEF CmdInv, Init
<1>4. NoAnchors \in AnchorMap /\ WithinFull(NoAnchors) /\ NoCerts \in Certs
  BY DEF NoAnchors, AnchorMap, WithinFull, NoCerts, Certs
<1>5. base \in [Files -> Nat \ {0}] /\ revoked \in [Persons -> Nat] /\ stat = [f \in Files |-> stat[f]]
  BY DEF Init
<1>6. DaemonInv
  BY <1>4, <1>5 DEF DaemonInv, Init
<1> QED BY <1>2, <1>3, <1>6 DEF TypeInv

(* What the daemon has once it has read a file.                            *)
LEMMA ReadTypes ==
    ASSUME TypeInv, NEW f \in Files, ReadFile(f)
    PROVE  /\ anchors' \in AnchorMap /\ WithinFull(anchors') /\ certs' \in Certs /\ blocked' \subseteq Peers
           /\ stat' = [g \in Files |-> stat'[g]]
<1> DEFINE d == File(f).data
<1>1. d # Garbage => Load(f, d) \in ListOf(f)
  BY FileIsVersion, LoadType DEF TypeInv
<1>2. /\ anchors \in AnchorMap /\ WithinFull(anchors) /\ certs \in Certs /\ blocked \subseteq Peers
      /\ stat = [g \in Files |-> stat[g]]
  BY DEF TypeInv, DaemonInv
<1>3. NoAnchors \in AnchorMap /\ WithinFull(NoAnchors)
  BY DEF NoAnchors, AnchorMap, WithinFull
<1>4. stat' = stat \/ stat' = [stat EXCEPT ![f] = took]
  BY DEF ReadFile, Recorded
<1>5. stat' = [g \in Files |-> stat'[g]]
  BY <1>2, <1>4
<1>6. CASE f = "anchors"
  <2>1. anchors' = LoadedAnchors(d) /\ certs' = certs /\ blocked' = blocked
    BY <1>6 DEF ReadFile, ReadAnchors
  <2> HIDE DEF d
  <2>2. d # Garbage => Load("anchors", d) \in Seq(Anchor)
    BY <1>1, <1>6, FileTypes
  <2>3. LoadedAnchors(d) \in AnchorMap /\ WithinFull(LoadedAnchors(d))
    BY <1>2, <1>3, <2>2, EffectiveType DEF LoadedAnchors
  <2> QED BY <1>2, <1>5, <2>1, <2>3
<1>7. CASE f = "certs"
  <2>1. anchors' = anchors /\ blocked' = blocked
        /\ certs' = IF d = Garbage THEN certs
                    ELSE [p \in Peers |-> LongerLived(certs[p], Load("certs", d)[p])]
    BY <1>7 DEF ReadFile, ReadCerts
  <2> HIDE DEF d
  <2>2. d # Garbage => Load("certs", d) \in Certs
    BY <1>1, <1>7, FileTypes
  <2>3. certs' \in Certs
    BY <1>2, <2>1, <2>2 DEF Certs, LongerLived
  <2> QED BY <1>2, <1>5, <2>1, <2>3
<1>8. CASE f = "blocked"
  <2>1. anchors' = anchors /\ certs' = certs
        /\ blocked' = IF d = Garbage THEN blocked ELSE Load("blocked", d)
    BY <1>8 DEF ReadFile, ReadBlocked
  <2> HIDE DEF d
  <2>2. d # Garbage => Load("blocked", d) \in SUBSET Peers
    BY <1>1, <1>8, FileTypes
  <2> QED BY <1>2, <1>5, <2>1, <2>2
<1> QED BY <1>6, <1>7, <1>8 DEF Files

(* Files only get new versions.                                            *)
Grows == \A f \in Files : /\ Len(hist[f]) <= Len(hist'[f])
                          /\ \A i \in 1..Len(hist[f]) : hist'[f][i] = hist[f][i]

LEMMA NoGrowth == HistInv /\ UNCHANGED hist => HistInv' /\ Grows
<1> SUFFICES ASSUME HistInv, UNCHANGED hist PROVE HistInv' /\ Grows
  OBVIOUS
<1>1. \A f \in Files : Len(hist[f]) \in Nat
  BY FileIsVersion
<1> QED BY <1>1 DEF HistInv, VersionOf, Grows

LEMMA SaveGrows ==
    ASSUME HistInv, NEW f \in Files, NEW d \in Content[f], Save(f, d)
    PROVE  HistInv' /\ Grows
<1>1. \A g \in Files : Len(hist[g]) \in Nat
  BY FileIsVersion
<1>2. /\ HistInv' /\ Len(hist'[f]) = Len(hist[f]) + 1
      /\ \A i \in 1..Len(hist[f]) : hist'[f][i] = hist[f][i]
      /\ \A g \in Files \ {f} : hist'[g] = hist[g]
  BY SaveEffect
<1>3. ASSUME NEW g \in Files
      PROVE  Len(hist[g]) <= Len(hist'[g]) /\ \A i \in 1..Len(hist[g]) : hist'[g][i] = hist[g][i]
  <2>1. CASE g = f
    BY <1>1, <1>2, <2>1
  <2>2. CASE g # f
    BY <1>1, <1>2, <2>2
  <2> QED BY <2>1, <2>2
<1> QED BY <1>2, <1>3 DEF Grows

LEMMA NextTypes == TypeInv /\ [Next]_vars => TypeInv' /\ Grows
<1> SUFFICES ASSUME TypeInv, [Next]_vars PROVE TypeInv' /\ Grows
  OBVIOUS
<1> USE DEF TypeInv
<1>0. /\ cmd = [e \in Cmds |-> cmd[e]] /\ \A e \in Cmds : cmd[e] # None => CmdOK(cmd[e])
  BY DEF CmdInv
<1>1. ASSUME NEW c \in Cmds, NEW o \in Ops, CmdStart(c, o) PROVE TypeInv' /\ Grows
  <2> DEFINE r == [op |-> o, file |-> FirstFile(o), new |-> None]
  <2>1. cmd' = [e \in Cmds |-> IF e = c THEN r ELSE cmd[e]] /\ CmdOK(r)
    BY <1>0, <1>1, CmdStarted DEF CmdStart
  <2> HIDE DEF r
  <2>2. CmdInv'
    BY <1>0, <2>1 DEF CmdInv
  <2>3. HistInv' /\ Grows
    BY <1>1, NoGrowth DEF CmdStart
  <2>4. DaemonInv'
    BY <1>1 DEF CmdStart, DaemonInv, daemon, AnchorMap, WithinFull
  <2> QED BY <2>2, <2>3, <2>4
<1>2. ASSUME NEW c \in Cmds, CmdRead(c) PROVE TypeInv' /\ Grows
  <2>1. CmdInv'
    BY <1>2, CmdReads
  <2>2. HistInv' /\ Grows
    BY <1>2, NoGrowth DEF CmdRead
  <2>3. DaemonInv'
    BY <1>2 DEF CmdRead, DaemonInv, daemon, AnchorMap, WithinFull
  <2> QED BY <2>1, <2>2, <2>3
<1>3. ASSUME NEW c \in Cmds, CmdWrite(c) PROVE TypeInv' /\ Grows
  <2>1. /\ CmdInv' /\ cmd[c].file \in Files /\ cmd[c].new \in Content[cmd[c].file]
        /\ Save(cmd[c].file, cmd[c].new)
    BY <1>3, CmdWrites
  <2>2. HistInv' /\ Grows
    BY <2>1, SaveGrows
  <2>3. revoked \in [Persons -> Nat] /\ Len(hist["anchors"]) \in Nat
    BY FileIsVersion DEF DaemonInv, Files
  <2>4. revoked' \in [Persons -> Nat]
    <3>1. CASE Forget(About(cmd[c].op))
      BY <2>3, <3>1, ForgetType
    <3>2. CASE revoked' = [revoked EXCEPT ![cmd[c].op.person] = Len(hist["anchors"]) + 1]
      <4> DEFINE n == Len(hist["anchors"]) + 1
                 q == cmd[c].op.person
      <4>1. n \in Nat
        BY <2>3
      <4>2. revoked' = [revoked EXCEPT ![q] = n]
        BY <3>2, Zenon
      <4> HIDE DEF n, q
      <4> QED BY <2>3, <4>1, <4>2
    <3>3. IF cmd[c].op \in RemoveOps /\ ~ Overlapped(c)
          THEN revoked' = [revoked EXCEPT ![cmd[c].op.person] = Len(hist["anchors"]) + 1]
          ELSE Forget(About(cmd[c].op))
      BY <1>3, Zenon DEF CmdWrite
    <3> QED BY <3>1, <3>2, <3>3
  <2>5. UNCHANGED << daemon, now, edits >>
    BY <1>3 DEF CmdWrite
  <2>6. DaemonInv'
    BY <2>4, <2>5 DEF DaemonInv, daemon, AnchorMap, WithinFull
  <2> QED BY <2>1, <2>2, <2>6
<1>4. ASSUME NEW c \in Cmds, CmdDie(c) PROVE TypeInv' /\ Grows
  <2>1. CmdInv'
    BY <1>0, <1>4 DEF CmdInv, CmdDie
  <2>2. HistInv' /\ Grows
    BY <1>4, NoGrowth DEF CmdDie
  <2>3. DaemonInv'
    BY <1>4 DEF CmdDie, DaemonInv, daemon, AnchorMap, WithinFull
  <2> QED BY <2>1, <2>2, <2>3
<1>5. ASSUME NEW f \in Files, NEW d \in HandEdits[f], HandEdit(f, d) PROVE TypeInv' /\ Grows
  <2>1. d \in Content[f] /\ Save(f, d)
    BY <1>5, TrustAssumption DEF HandEdit
  <2>2. HistInv' /\ Grows
    BY <2>1, SaveGrows
  <2>3. UNCHANGED << cmd, daemon, now >> /\ edits' = edits + 1 /\ (Forget(Persons) \/ UNCHANGED revoked)
    BY <1>5 DEF HandEdit
  <2>4. revoked' \in [Persons -> Nat]
    BY <2>3, ForgetType DEF DaemonInv
  <2>5. DaemonInv'
    BY <2>3, <2>4 DEF DaemonInv, daemon, AnchorMap, WithinFull
  <2>6. CmdInv'
    BY <2>3 DEF CmdInv
  <2> QED BY <2>2, <2>5, <2>6
<1>6. ASSUME NEW f \in Files, StatFile(f) PROVE TypeInv' /\ Grows
  <2>1. HistInv' /\ Grows /\ CmdInv'
    BY <1>6, NoGrowth DEF StatFile, CmdInv
  <2>2. pc' \in {"down", "idle"} \cup Files /\ loadedOnce' \in BOOLEAN
    BY <1>6 DEF StatFile, Proceed, NextFile, Files, DaemonInv
  <2>3. DaemonInv'
    BY <1>6, <2>2 DEF StatFile, DaemonInv, AnchorMap, WithinFull
  <2> QED BY <2>1, <2>3
<1>7. ASSUME NEW f \in Files, ReadFile(f) PROVE TypeInv' /\ Grows
  <2>1. UNCHANGED << hist, cmd, lastCheck, base, now, edits, revoked >> /\ Proceed(f)
    BY <1>7 DEF ReadFile
  <2>2. HistInv' /\ Grows /\ CmdInv'
    BY <2>1, NoGrowth DEF CmdInv
  <2>3. pc' \in {"down", "idle"} \cup Files /\ loadedOnce' \in BOOLEAN
    BY <2>1 DEF Proceed, NextFile, Files, DaemonInv
  <2>4. /\ anchors' \in AnchorMap /\ WithinFull(anchors') /\ certs' \in Certs /\ blocked' \subseteq Peers
        /\ stat' = [g \in Files |-> stat'[g]]
    BY <1>7, ReadTypes
  <2>5. DaemonInv'
    BY <2>1, <2>3, <2>4 DEF DaemonInv, AnchorMap, WithinFull
  <2> QED BY <2>2, <2>5
<1>8. ASSUME NewStore \/ MaybeReload PROVE TypeInv' /\ Grows
  <2>1. HistInv' /\ Grows /\ CmdInv'
    BY <1>8, NoGrowth DEF NewStore, MaybeReload, CmdInv
  <2>2. base' \in [Files -> Nat \ {0}]
    BY <1>8, FileIsVersion DEF NewStore, MaybeReload
  <2>3. DaemonInv'
    BY <1>8, <2>2 DEF NewStore, MaybeReload, DaemonInv, Files, AnchorMap, WithinFull
  <2> QED BY <2>1, <2>3
<1>9. ASSUME Stop PROVE TypeInv' /\ Grows
  <2>1. HistInv' /\ Grows /\ CmdInv'
    BY <1>9, NoGrowth DEF Stop, CmdInv
  <2>2. anchors' \in AnchorMap /\ WithinFull(anchors') /\ certs' \in Certs
    BY <1>9 DEF Stop, NoAnchors, AnchorMap, WithinFull, NoCerts, Certs
  <2>3. base' \in [Files -> Nat \ {0}] /\ stat' = [f \in Files |-> stat'[f]]
    BY <1>9 DEF Stop
  <2>4. pc' = "down" /\ blocked' = {} /\ loadedOnce' = FALSE
    BY <1>9, Zenon DEF Stop
  <2>5. blocked' \subseteq Peers /\ loadedOnce' \in BOOLEAN
    BY <2>4, Zenon
  <2>6. lastCheck' \in Nat /\ edits' \in Nat /\ now' \in Nat /\ revoked' \in [Persons -> Nat]
    BY <1>9 DEF Stop, DaemonInv
  <2>7. DaemonInv'
    BY <2>2, <2>3, <2>4, <2>5, <2>6 DEF DaemonInv, AnchorMap, WithinFull
  <2> QED BY <2>1, <2>7
<1>10. ASSUME Tick PROVE TypeInv' /\ Grows
  <2>1. HistInv' /\ Grows /\ CmdInv'
    BY <1>10, NoGrowth DEF Tick, CmdInv
  <2>2. DaemonInv'
    BY <1>10 DEF Tick, DaemonInv, daemon, AnchorMap, WithinFull
  <2> QED BY <2>1, <2>2
<1>11. ASSUME NEW p \in Peers, NEW c \in WireCerts, AddCert(p, c) PROVE TypeInv' /\ Grows
  <2>1. HistInv' /\ Grows /\ CmdInv'
    BY <1>11, NoGrowth DEF AddCert, CmdInv
  <2>2. certs' \in Certs
    BY <1>11, TrustAssumption DEF AddCert, DaemonInv, Certs
  <2>3. DaemonInv'
    BY <1>11, <2>2 DEF AddCert, DaemonInv, AnchorMap, WithinFull
  <2> QED BY <2>1, <2>3
<1>12. ASSUME UNCHANGED vars PROVE TypeInv' /\ Grows
  <2>1. HistInv' /\ Grows /\ CmdInv'
    BY <1>12, NoGrowth DEF vars, CmdInv
  <2>2. DaemonInv'
    BY <1>12 DEF vars, DaemonInv, daemon, AnchorMap, WithinFull
  <2> QED BY <2>1, <2>2
<1> HIDE DEF TypeInv
<1> QED BY <1>1, <1>2, <1>3, <1>4, <1>5, <1>6, <1>7, <1>8, <1>9, <1>10, <1>11, <1>12 DEF Next

(* The daemon's and the commands' state is well typed, and no anchor weighs *)
(* more than full trust, whatever the files say (LoadAnchors' clamping).   *)
THEOREM TrustTypes == Spec => []TypeOK
<1>1. TypeInv => TypeOK
  <2> SUFFICES ASSUME TypeInv PROVE TypeOK
    OBVIOUS
  <2>1. ASSUME NEW f \in Files
        PROVE  /\ hist[f] # << >>
               /\ \A i \in 1..Len(hist[f]) : hist[f][i].data \in Content[f] /\ hist[f][i].mtime \in Nat
    <3>1. hist[f] \in Seq(VersionOf(f)) /\ hist[f] # << >>
      BY DEF TypeInv, HistInv
    <3>2. \A i \in 1..Len(hist[f]) : hist[f][i] \in VersionOf(f)
      BY <3>1
    <3> QED BY <3>1, <3>2 DEF VersionOf
  <2> QED BY <2>1 DEF TypeOK, TypeInv, DaemonInv, AnchorMap, WithinFull
<1> QED BY <1>1, InitTypes, NextTypes, PTL DEF Spec

(***************************************************************************)
(* What a reload may drop.                                                 *)
(***************************************************************************)

(* A store that has not been through the files has no anchors until it has *)
(* read their file.                                                        *)
LoadInv ==
    /\ pc = "idle" => loadedOnce
    /\ ~ loadedOnce /\ pc \in {"down", "anchors"} => anchors = NoAnchors

(* What a step is for the daemon: nothing, the begin of a reload, a stat, a *)
(* read, or its end.                                                       *)
Aside == UNCHANGED << pc, took, anchors, blocked, stat, loadedOnce, base >>
Begins == /\ pc \in {"down", "idle"} /\ pc' = "anchors"
          /\ base' = [f \in Files |-> Len(hist[f])]
          /\ UNCHANGED << hist, took, anchors, certs, blocked, stat, loadedOnce >>

LEMMA StepKinds ==
    ASSUME [Next]_vars
    PROVE  \/ Aside /\ (pc # "idle" => certs' = certs)
           \/ Begins
           \/ \E f \in Files : StatFile(f)
           \/ \E f \in Files : ReadFile(f)
           \/ Stop
<1> DEFINE Quiet == Aside /\ (pc # "idle" => certs' = certs)
<1>1. ASSUME NEW c \in Cmds, CmdRead(c) \/ CmdWrite(c) \/ CmdDie(c) PROVE Quiet
  BY <1>1, Zenon DEF CmdRead, CmdWrite, CmdDie, daemon, Aside
<1>2. ASSUME NEW c \in Cmds, NEW o \in Ops, CmdStart(c, o) PROVE Quiet
  BY <1>2, Zenon DEF CmdStart, daemon, Aside
<1>3. ASSUME NEW f \in Files, NEW d \in HandEdits[f], HandEdit(f, d) PROVE Quiet
  BY <1>3, Zenon DEF HandEdit, daemon, Aside
<1>4. ASSUME NewStore \/ MaybeReload PROVE Begins
  BY <1>4, Zenon DEF NewStore, MaybeReload, Begins
<1>5. ASSUME NEW p \in Peers, NEW c \in WireCerts, AddCert(p, c) PROVE Quiet
  BY <1>5, Zenon DEF AddCert, Aside
<1>6. ASSUME Tick \/ UNCHANGED vars PROVE Quiet
  BY <1>6, Zenon DEF Tick, vars, daemon, Aside
<1> QED BY <1>1, <1>2, <1>3, <1>4, <1>5, <1>6, Zenon DEF Next

(* Only a reload of the anchors, or the end of the daemon, changes them.   *)
LEMMA AnchorsRead ==
    ASSUME LoadInv, NEW f \in Files, ReadFile(f)
    PROVE  \/ anchors' = anchors
           \/ /\ f = "anchors" /\ File("anchors").data # Garbage
              /\ anchors' = Effective(Load("anchors", File("anchors").data))
<1> DEFINE d == File("anchors").data
<1>1. CASE f = "anchors"
  <2>1. anchors' = LoadedAnchors(d) /\ pc = "anchors"
    BY <1>1 DEF ReadFile, ReadAnchors
  <2> HIDE DEF d
  <2>2. loadedOnce \/ anchors = NoAnchors
    BY <2>1 DEF LoadInv
  <2>3. anchors' = anchors \/ (d # Garbage /\ anchors' = Effective(Load("anchors", d)))
    BY <2>1, <2>2 DEF LoadedAnchors
  <2> QED BY <1>1, <2>3 DEF d
<1>2. CASE f # "anchors"
  BY <1>2 DEF ReadFile, ReadCerts, ReadBlocked
<1> QED BY <1>1, <1>2

LEMMA LoadStep == TypeInv /\ LoadInv /\ [Next]_vars => LoadInv'
<1> SUFFICES ASSUME TypeInv, LoadInv, [Next]_vars PROVE LoadInv'
  OBVIOUS
<1>1. CASE Aside
  BY <1>1 DEF Aside, LoadInv, NoAnchors
<1>2. CASE Begins
  BY <1>2 DEF Begins, LoadInv, NoAnchors
<1>3. ASSUME NEW f \in Files, StatFile(f) PROVE LoadInv'
  <2>1. pc = f /\ anchors' = anchors
    BY <1>3 DEF StatFile
  <2>2. (pc' = pc /\ loadedOnce' = loadedOnce) \/ Proceed(f)
    BY <1>3 DEF StatFile
  <2> QED BY <2>1, <2>2 DEF Proceed, NextFile, LoadInv, NoAnchors, Files
<1>4. ASSUME NEW f \in Files, ReadFile(f) PROVE LoadInv'
  <2>1. Proceed(f)
    BY <1>4 DEF ReadFile
  <2> QED BY <2>1 DEF Proceed, NextFile, LoadInv, NoAnchors, Files
<1>5. CASE Stop
  BY <1>5 DEF Stop, LoadInv, NoAnchors
<1> QED BY <1>1, <1>2, <1>3, <1>4, <1>5, StepKinds

LEMMA LoadAlways == Spec => [](TypeInv /\ LoadInv)
<1>1. Init => TypeInv /\ LoadInv
  BY InitTypes DEF Init, LoadInv
<1>2. TypeInv /\ LoadInv /\ [Next]_vars => (TypeInv /\ LoadInv)'
  BY NextTypes, LoadStep
<1> QED BY <1>1, <1>2, PTL DEF Spec

(* While the daemon runs, a key loses its anchor only to a file that can be *)
(* read and does not anchor it: a bad file drops no trust (maybeReload).   *)
THEOREM BadFilesDropNoTrust == Spec => TrustIsKept
<1> DEFINE Step ==
      \A k \in Keys : (anchors[k] # None /\ anchors'[k] = None /\ pc' # "down") =>
          LET d == File("anchors").data
          IN  d # Garbage /\ Effective(Load("anchors", d))[k] = None
<1>1. TypeInv /\ LoadInv /\ [Next]_vars => [Step]_vars
  <2> SUFFICES ASSUME LoadInv, [Next]_vars,
                      NEW k \in Keys, anchors[k] # None, anchors'[k] = None, pc' # "down"
               PROVE  LET d == File("anchors").data
                      IN  d # Garbage /\ Effective(Load("anchors", d))[k] = None
    OBVIOUS
  <2>1. anchors' # anchors
    OBVIOUS
  <2>2. ~ Aside /\ ~ Begins /\ ~ Stop /\ \A f \in Files : ~ StatFile(f)
    BY <2>1 DEF Aside, Begins, Stop, StatFile
  <2>3. PICK f \in Files : ReadFile(f)
    BY <2>2, StepKinds
  <2> QED BY <2>1, <2>3, AnchorsRead
<1> QED BY <1>1, LoadAlways, PTL DEF Spec, TrustIsKept

(* A reload never shortens the vouch that a peer has ("keep whichever lives *)
(* longer"), whatever the certs file holds by then.                        *)
THEOREM ReloadsKeepVouches == Spec => ReloadKeepsVouches
<1> DEFINE Longer == \A p \in Peers :
                        certs[p] # None => certs'[p] # None /\ certs'[p].until >= certs[p].until
<1>1. TypeInv /\ LoadInv /\ [Next]_vars => [pc = "certs" /\ pc' # "down" => Longer]_vars
  <2> SUFFICES ASSUME TypeInv, [Next]_vars, pc = "certs", pc' # "down" PROVE Longer
    OBVIOUS
  <2>1. certs \in Certs
    BY DEF TypeInv, DaemonInv
  <2>2. certs' = certs => Longer
    BY <2>1 DEF Certs, Cert
  <2>3. ~ Begins /\ ~ Stop
    BY DEF Begins, Stop
  <2>4. ASSUME NEW f \in Files, StatFile(f) PROVE certs' = certs
    BY <2>4 DEF StatFile
  <2>5. ASSUME NEW f \in Files, ReadFile(f) PROVE Longer
    <3> DEFINE d == File("certs").data
    <3>1. /\ f = "certs"
          /\ certs' = IF d = Garbage THEN certs
                      ELSE [p \in Peers |-> LongerLived(certs[p], Load("certs", d)[p])]
      BY <2>5 DEF ReadFile, ReadCerts
    <3>2. d # Garbage => Load("certs", d) \in Certs
      <4>1. d \in Content["certs"] /\ "certs" \in Files
        BY FileIsVersion DEF TypeInv, Files
      <4> HIDE DEF d
      <4> QED BY <4>1, LoadType, FileTypes
    <3> HIDE DEF d
    <3>3. CASE d = Garbage
      BY <2>2, <3>1, <3>3
    <3>4. CASE d # Garbage
      <4> DEFINE new == Load("certs", d)
      <4>1. new \in Certs /\ certs' = [p \in Peers |-> LongerLived(certs[p], new[p])]
        BY <3>1, <3>2, <3>4
      <4> HIDE DEF new
      <4>2. ASSUME NEW p \in Peers, certs[p] # None
            PROVE  certs'[p] # None /\ certs'[p].until >= certs[p].until
        <5>1. /\ certs[p] \in Cert /\ new[p] \in Cert \cup {None}
              /\ certs'[p] = LongerLived(certs[p], new[p])
          BY <2>1, <4>1, <4>2 DEF Certs
        <5> QED BY <4>2, <5>1 DEF LongerLived, Cert
      <4> QED BY <4>2
    <3> QED BY <3>3, <3>4
  <2> HIDE DEF Longer
  <2> QED BY <2>2, <2>3, <2>4, <2>5, StepKinds
<1> QED BY <1>1, LoadAlways, PTL DEF Spec, ReloadKeepsVouches

(***************************************************************************)
(* How fresh the daemon's view is.                                         *)
(***************************************************************************)

Kinds == {"anchors", "blocked"}
Done(f) == IF f = "anchors" THEN {"certs", "blocked", "idle"} ELSE {"idle"}

(* The body of Fresh for one file.                                         *)
Alike(f, i) == \E j \in base[f]..Len(hist[f]), k \in 1..i :
                  hist[f][j].data # Missing /\ StatOf(f, hist[f][j]) = StatOf(f, hist[f][k])
Spoiled(f) == \E j \in base[f]..Len(hist[f]) : hist[f][j].data = Garbage
UpToDate(f) == \E i \in 1..Len(hist[f]) :
                  /\ hist[f][i].data # Garbage /\ View(f, hist[f][i].data)
                  /\ i >= base[f] \/ Alike(f, i)

(* The recorded stat is none, or that of the version the daemon holds or of *)
(* one before it: the stat is taken before the read.                       *)
Seen(f) == \E i, k \in 1..Len(hist[f]) :
              /\ hist[f][i].data # Garbage /\ View(f, hist[f][i].data)
              /\ k <= i /\ stat[f] = StatOf(f, hist[f][k])

Taken(f) == \E k \in 1..Len(hist[f]) : took = StatOf(f, hist[f][k])

FreshInv ==
    /\ pc \in {"down", "idle"} => took = None
    /\ \A f \in Kinds :
        /\ base[f] <= Len(hist[f])
        /\ stat[f] = ZeroStat \/ Seen(f)
        /\ pc = f /\ took # None => Taken(f)
        /\ pc \in Done(f) => Spoiled(f) \/ UpToDate(f)

LEMMA KindsAreFiles == \A f \in Kinds : f \in Files
BY DEF Kinds, Files

(* What has been shown of a file stays true while the file grows.          *)
LEMMA FreshStays ==
    ASSUME TypeInv, HistInv', Grows, NEW f \in Kinds, base'[f] = base[f], base[f] <= Len(hist[f]),
           f = "anchors" => anchors' = anchors, f = "blocked" => blocked' = blocked
    PROVE  /\ base'[f] <= Len(hist'[f])
           /\ stat'[f] = stat[f] /\ Seen(f) => Seen(f)'
           /\ took' = took /\ Taken(f) => Taken(f)'
           /\ Spoiled(f) => Spoiled(f)'
           /\ UpToDate(f) => UpToDate(f)'
<1> DEFINE n == Len(hist[f])
           m == Len(hist'[f])
<1>1. f \in Files /\ n \in Nat \ {0} /\ base[f] \in Nat \ {0}
  BY KindsAreFiles, FileIsVersion DEF TypeInv, DaemonInv
<1>2. m \in Nat /\ n <= m /\ \A i \in 1..n : hist'[f][i] = hist[f][i]
  BY <1>1 DEF Grows, HistInv
<1>3. \A d : View(f, d) => View(f, d)'
  BY DEF View, Kinds
<1> HIDE DEF n, m
<1>4. n = Len(hist[f]) /\ m = Len(hist'[f])
  BY DEF n, m
<1>5. base'[f] <= Len(hist'[f])
  BY <1>1, <1>2, <1>4
<1>6. ASSUME stat'[f] = stat[f], Seen(f) PROVE Seen(f)'
  <2>1. PICK i, k \in 1..n : /\ hist[f][i].data # Garbage /\ View(f, hist[f][i].data)
                             /\ k <= i /\ stat[f] = StatOf(f, hist[f][k])
    BY <1>4, <1>6 DEF Seen
  <2>2. /\ i \in 1..m /\ k \in 1..m /\ hist'[f][i] = hist[f][i] /\ hist'[f][k] = hist[f][k]
        /\ View(f, hist[f][i].data)'
    BY <1>1, <1>2, <1>3, <2>1
  <2> QED BY <1>4, <1>6, <2>1, <2>2 DEF Seen
<1>7. ASSUME took' = took, Taken(f) PROVE Taken(f)'
  BY <1>1, <1>2, <1>4, <1>7 DEF Taken
<1>8. ASSUME Spoiled(f) PROVE Spoiled(f)'
  BY <1>1, <1>2, <1>4, <1>8 DEF Spoiled
<1>9. ASSUME NEW i \in 1..n, Alike(f, i) PROVE Alike(f, i)'
  <2>1. PICK j \in base[f]..n, k \in 1..i :
            hist[f][j].data # Missing /\ StatOf(f, hist[f][j]) = StatOf(f, hist[f][k])
    BY <1>4, <1>9 DEF Alike
  <2>2. j \in base'[f]..m /\ hist'[f][j] = hist[f][j] /\ hist'[f][k] = hist[f][k]
    BY <1>1, <1>2, <2>1
  <2> QED BY <1>4, <2>1, <2>2 DEF Alike
<1>10. ASSUME UpToDate(f) PROVE UpToDate(f)'
  <2>1. PICK i \in 1..n : /\ hist[f][i].data # Garbage /\ View(f, hist[f][i].data)
                          /\ i >= base[f] \/ Alike(f, i)
    BY <1>4, <1>10 DEF UpToDate
  <2>2. /\ i \in 1..m /\ hist'[f][i] = hist[f][i] /\ View(f, hist[f][i].data)'
        /\ i >= base'[f] \/ Alike(f, i)'
    BY <1>1, <1>2, <1>3, <1>9, <2>1
  <2> QED BY <1>4, <2>1, <2>2 DEF UpToDate
<1> QED BY <1>5, <1>6, <1>7, <1>8, <1>10

(* A present file has a stat, and a version that is loaded is up to date.  *)
LEMMA PresentStat ==
    ASSUME HistInv, NEW f \in Files, NEW i \in 1..Len(hist[f]), hist[f][i].data # Missing
    PROVE  StatOf(f, hist[f][i]) # ZeroStat
<1>1. hist[f] \in Seq(VersionOf(f))
  BY DEF HistInv
<1>2. hist[f][i] \in VersionOf(f)
  BY <1>1
<1>3. hist[f][i].mtime \in Nat
  BY <1>2 DEF VersionOf
<1>4. StatOf(f, hist[f][i])[1] = hist[f][i].mtime
  BY DEF StatOf
<1> QED BY <1>3, <1>4 DEF ZeroStat

(* Where the stat tells of no change, the view is up to date.              *)
LEMMA UnchangedIsFresh ==
    ASSUME TypeInv, FreshInv, NEW f \in Kinds, ~ StatChanged(f)
    PROVE  UpToDate(f)
<1> DEFINE n == Len(hist[f])
<1>1. f \in Files /\ n \in Nat \ {0} /\ base[f] \in Nat \ {0} /\ base[f] <= n /\ File(f) = hist[f][n]
  BY KindsAreFiles, FileIsVersion DEF TypeInv, DaemonInv, FreshInv
<1>2. hist[f][n].data # Missing /\ StatOf(f, hist[f][n]) = stat[f]
  BY <1>1 DEF StatChanged
<1>3. stat[f] # ZeroStat
  BY <1>1, <1>2, PresentStat DEF TypeInv
<1>4. Seen(f)
  BY <1>3 DEF FreshInv
<1>5. PICK i, k \in 1..n : /\ hist[f][i].data # Garbage /\ View(f, hist[f][i].data)
                           /\ k <= i /\ stat[f] = StatOf(f, hist[f][k])
  BY <1>4 DEF Seen
<1>6. n \in base[f]..Len(hist[f]) /\ k \in 1..i
  BY <1>1, <1>5
<1>7. Alike(f, i)
  BY <1>2, <1>5, <1>6 DEF Alike
<1> QED BY <1>5, <1>7 DEF UpToDate

(* The four parts of FreshInv for a file.                                  *)
FreshAt(f) ==
    /\ base[f] <= Len(hist[f])
    /\ stat[f] = ZeroStat \/ Seen(f)
    /\ pc = f /\ took # None => Taken(f)
    /\ pc \in Done(f) => Spoiled(f) \/ UpToDate(f)

LEMMA FreshParts == FreshInv <=> /\ pc \in {"down", "idle"} => took = None
                                 /\ \A f \in Kinds : FreshAt(f)
BY DEF FreshInv, FreshAt

(* A file at which the daemon is not keeps its parts.                      *)
LEMMA FreshElsewhere ==
    ASSUME TypeInv, HistInv', Grows, NEW f \in Kinds, FreshAt(f),
           base'[f] = base[f], stat'[f] = stat[f],
           f = "anchors" => anchors' = anchors, f = "blocked" => blocked' = blocked,
           pc' = f /\ took' # None => pc = f /\ took' = took,
           pc' \in Done(f) => pc \in Done(f)
    PROVE  FreshAt(f)'
<1>1. base[f] <= Len(hist[f])
  BY DEF FreshAt
<1>2. /\ base'[f] <= Len(hist'[f])
      /\ Seen(f) => Seen(f)'
      /\ took' = took /\ Taken(f) => Taken(f)'
      /\ Spoiled(f) => Spoiled(f)'
      /\ UpToDate(f) => UpToDate(f)'
  BY <1>1, FreshStays
<1>3. Done(f)' = Done(f) /\ ZeroStat' = ZeroStat
  BY DEF Done, ZeroStat
<1> QED BY <1>2, <1>3 DEF FreshAt

(* What a read of the file makes of its parts.                             *)
LEMMA FreshRead ==
    ASSUME TypeInv, LoadInv, HistInv', Grows, FreshInv, NEW f \in Kinds, ReadFile(f)
    PROVE  FreshAt(f)'
<1> DEFINE n == Len(hist[f])
           d == File(f).data
<1>1. f \in Files /\ n \in Nat \ {0} /\ base[f] \in Nat \ {0} /\ base[f] <= n /\ File(f) = hist[f][n]
  BY KindsAreFiles, FileIsVersion DEF TypeInv, DaemonInv, FreshInv
<1>2. /\ hist' = hist /\ base' = base /\ pc = f /\ took # None /\ took' = None
      /\ stat' = Recorded(f, d) /\ pc' = NextFile(f)
  BY DEF ReadFile, Proceed
<1>3. pc' # f
  BY <1>2 DEF NextFile, Kinds
<1>4. Taken(f) /\ (stat[f] = ZeroStat \/ Seen(f))
  BY <1>2 DEF FreshInv
<1>5. CASE d = Garbage
  <2>1. (f = "anchors" => anchors' = anchors) /\ (f = "blocked" => blocked' = blocked)
    <3>1. CASE f = "anchors"
      BY <1>1, <1>5, <3>1, AnchorsRead
    <3>2. CASE f = "blocked"
      BY <1>5, <3>2 DEF ReadFile, ReadBlocked
    <3> QED BY <3>1, <3>2 DEF Kinds
  <2>2. stat' = stat
    BY <1>2, <1>5 DEF Recorded
  <2>3. Seen(f) => Seen(f)'
    BY <1>1, <1>2, <2>1, <2>2, FreshStays
  <2>4. Spoiled(f)'
    BY <1>1, <1>2, <1>5 DEF Spoiled
  <2> QED BY <1>1, <1>2, <1>3, <1>4, <2>2, <2>3, <2>4 DEF FreshAt, ZeroStat
<1>6. CASE d # Garbage
  <2>1. /\ f = "anchors" => anchors' = Effective(Load(f, d))
        /\ f = "blocked" => blocked' = Load(f, d)
    <3>1. CASE f = "anchors"
      <4>1. anchors' = LoadedAnchors(d)
        BY <3>1 DEF ReadFile, ReadAnchors
      <4> HIDE DEF d
      <4> QED BY <1>6, <3>1, <4>1 DEF LoadedAnchors
    <3>2. CASE f = "blocked"
      <4>1. blocked' = IF d = Garbage THEN blocked ELSE Load("blocked", d)
        BY <3>2 DEF ReadFile, ReadBlocked
      <4> HIDE DEF d
      <4> QED BY <1>6, <3>2, <4>1
    <3> QED BY <3>1, <3>2 DEF Kinds
  <2>2. stat'[f] = took
    BY <1>1, <1>2, <1>6 DEF Recorded, TypeInv, DaemonInv
  <2>3. d = hist'[f][n].data /\ n = Len(hist'[f]) /\ n \in 1..n /\ n >= base'[f]
    BY <1>1, <1>2
  <2> HIDE DEF d
  <2>4. hist'[f][n].data # Garbage /\ View(f, hist[f][n].data)'
    BY <1>2, <1>6, <2>1, <2>3 DEF View, Kinds
  <2>5. PICK k \in 1..n : took = StatOf(f, hist[f][k])
    BY <1>4 DEF Taken
  <2>6. Seen(f)'
    BY <1>1, <1>2, <2>2, <2>3, <2>4, <2>5 DEF Seen
  <2>7. UpToDate(f)'
    BY <1>2, <2>3, <2>4 DEF UpToDate
  <2> QED BY <1>1, <1>2, <1>3, <2>6, <2>7 DEF FreshAt
<1> QED BY <1>5, <1>6

LEMMA FreshStat ==
    ASSUME TypeInv, HistInv', Grows, FreshInv, NEW f \in Kinds, StatFile(f)
    PROVE  FreshAt(f)'
<1>1. /\ f \in Files /\ Len(hist[f]) \in Nat \ {0} /\ base[f] <= Len(hist[f])
      /\ File(f) = hist[f][Len(hist[f])]
  BY KindsAreFiles, FileIsVersion DEF TypeInv, FreshInv
<1>2. pc = f /\ UNCHANGED << hist, anchors, blocked, stat, base >>
  BY DEF StatFile
<1>3. FreshAt(f) /\ f \notin Done(f)
  BY FreshParts DEF Done, Kinds
<1>4. Seen(f) => Seen(f)'
  BY <1>1, <1>2, FreshStays
<1>5. CASE pc' = pc /\ took' = StatOf(f, File(f))
  <2>1. Taken(f)'
    BY <1>1, <1>2, <1>5 DEF Taken
  <2> QED BY <1>1, <1>2, <1>3, <1>4, <1>5, <2>1 DEF FreshAt, ZeroStat, Done
<1>6. CASE ~ StatChanged(f) /\ Proceed(f)
  <2>1. UpToDate(f)
    BY <1>6, UnchangedIsFresh
  <2>2. UpToDate(f)'
    BY <1>1, <1>2, <2>1, FreshStays
  <2>3. took' = None
    BY <1>6 DEF Proceed
  <2> QED BY <1>1, <1>2, <1>3, <1>4, <2>2, <2>3 DEF FreshAt, ZeroStat
<1> QED BY <1>5, <1>6 DEF StatFile

LEMMA FreshStep == TypeInv /\ LoadInv /\ FreshInv /\ [Next]_vars => FreshInv'
<1> SUFFICES ASSUME TypeInv, LoadInv, FreshInv, [Next]_vars PROVE FreshInv'
  OBVIOUS
<1>1. HistInv' /\ Grows
  BY NextTypes DEF TypeInv
<1>2. pc \in {"down", "idle"} => took = None
  BY DEF FreshInv
<1>3. \A f \in Kinds : FreshAt(f)
  BY FreshParts
<1>4. (pc \in {"down", "idle"} => took = None)' /\ (\A f \in Kinds : FreshAt(f)') => FreshInv'
  BY DEF FreshInv, FreshAt, Kinds
<1>5. CASE Aside
  <2>1. UNCHANGED << pc, took, anchors, blocked, stat, base >>
    BY <1>5 DEF Aside
  <2>2. ASSUME NEW f \in Kinds PROVE FreshAt(f)'
    BY <1>1, <1>3, <2>1, FreshElsewhere
  <2> QED BY <1>2, <1>4, <2>1, <2>2
<1>6. CASE Begins
  <2>1. /\ pc' = "anchors" /\ took' = None /\ UNCHANGED << hist, took, anchors, blocked, stat >>
        /\ base' = [f \in Files |-> Len(hist[f])]
    BY <1>2, <1>6 DEF Begins
  <2>2. ASSUME NEW f \in Kinds PROVE FreshAt(f)'
    <3>1. f \in Files /\ base'[f] = Len(hist'[f]) /\ Len(hist'[f]) \in Nat
      BY <2>1, KindsAreFiles, FileIsVersion DEF TypeInv
    <3>2. stat'[f] = ZeroStat \/ Seen(f)'
      BY <1>3, <2>1 DEF FreshAt, Seen, View, ZeroStat
    <3>3. pc' \notin Done(f)
      BY <2>1 DEF Done
    <3> QED BY <2>1, <3>1, <3>2, <3>3 DEF FreshAt, ZeroStat
  <2> QED BY <1>4, <2>1, <2>2
<1>7. ASSUME NEW g \in Files, StatFile(g) PROVE FreshInv'
  <2>1. pc = g /\ took = None /\ UNCHANGED << hist, anchors, blocked, stat, base >>
    BY <1>7 DEF StatFile
  <2>2. (pc' = g /\ took' # None) \/ (pc' = NextFile(g) /\ took' = None) \/ (pc' = g /\ took' = None)
    BY <1>7, <2>1 DEF StatFile, Proceed
  <2>3. ASSUME NEW f \in Kinds PROVE FreshAt(f)'
    <3>1. CASE f = g
      BY <1>1, <1>7, <3>1, FreshStat
    <3>2. CASE f # g
      <4>1. pc' = f => took' = None
        BY <2>2, <3>2
      <4>2. pc' \in Done(f) => pc \in Done(f)
        BY <2>1, <2>2, <3>2 DEF NextFile, Done, Kinds, Files
      <4> QED BY <1>1, <1>3, <2>1, <4>1, <4>2, FreshElsewhere
    <3> QED BY <3>1, <3>2
  <2>4. pc' \in {"down", "idle"} => took' = None
    BY <2>2 DEF Files
  <2> QED BY <1>4, <2>3, <2>4
<1>8. ASSUME NEW g \in Files, ReadFile(g) PROVE FreshInv'
  <2>1. pc = g /\ pc' = NextFile(g) /\ took' = None /\ UNCHANGED << hist, base >>
    BY <1>8 DEF ReadFile, Proceed
  <2>2. ASSUME NEW f \in Kinds PROVE FreshAt(f)'
    <3>1. CASE f = g
      BY <1>1, <1>8, <3>1, FreshRead
    <3>2. CASE f # g
      <4>1. pc' \in Done(f) => pc \in Done(f)
        BY <2>1, <3>2 DEF NextFile, Done, Kinds, Files
      <4>2. (f = "anchors" => anchors' = anchors) /\ (f = "blocked" => blocked' = blocked)
        BY <1>8, <3>2 DEF ReadFile, ReadAnchors, ReadCerts, ReadBlocked
      <4>3. stat' = stat \/ stat' = [stat EXCEPT ![g] = took]
        BY <1>8 DEF ReadFile, Recorded
      <4>4. stat'[f] = stat[f]
        BY <3>2, <4>3, KindsAreFiles DEF TypeInv, DaemonInv
      <4> QED BY <1>1, <1>3, <2>1, <4>1, <4>2, <4>4, FreshElsewhere
    <3> QED BY <3>1, <3>2
  <2> QED BY <1>4, <2>1, <2>2
<1>9. CASE Stop
  <2>1. /\ pc' = "down" /\ took' = None /\ hist' = hist
        /\ stat' = [f \in Files |-> ZeroStat] /\ base' = [f \in Files |-> 1]
    BY <1>9 DEF Stop
  <2>2. ASSUME NEW f \in Kinds PROVE FreshAt(f)'
    <3>1. f \in Files /\ Len(hist[f]) \in Nat \ {0} /\ base'[f] = 1 /\ stat'[f] = ZeroStat
      BY <2>1, KindsAreFiles, FileIsVersion DEF TypeInv
    <3>2. pc' \notin Done(f)
      BY <2>1 DEF Done
    <3> QED BY <2>1, <3>1, <3>2 DEF FreshAt, ZeroStat
  <2> QED BY <1>4, <2>1, <2>2
<1> QED BY <1>5, <1>6, <1>7, <1>8, <1>9, StepKinds

LEMMA FreshAlways == Spec => [](TypeInv /\ LoadInv /\ FreshInv)
<1>1. Init => TypeInv /\ LoadInv /\ FreshInv
  <2> SUFFICES ASSUME Init PROVE FreshInv
    BY InitTypes DEF Init, LoadInv
  <2>1. pc = "down" /\ took = None
    BY DEF Init
  <2>2. ASSUME NEW f \in Kinds PROVE FreshAt(f)
    <3>1. f \in Files /\ base[f] = 1 /\ stat[f] = ZeroStat /\ Len(hist[f]) = 1
      BY KindsAreFiles DEF Init
    <3>2. pc \notin Done(f)
      BY <2>1 DEF Done
    <3> QED BY <2>1, <3>1, <3>2 DEF FreshAt
  <2> QED BY <2>1, <2>2, FreshParts
<1>2. TypeInv /\ LoadInv /\ FreshInv /\ [Next]_vars => (TypeInv /\ LoadInv /\ FreshInv)'
  BY NextTypes, LoadStep, FreshStep
<1> QED BY <1>1, <1>2, PTL DEF Spec

(* The anchors and blocked peers of an idle daemon are those of the version *)
(* of the file that was there when it last looked, or of a later one, unless *)
(* a version since cannot be parsed or told apart (maybeReload's stat before *)
(* its read).                                                              *)
THEOREM ViewIsFresh == Spec => []Fresh
<1>1. FreshInv => Fresh
  <2> SUFFICES ASSUME FreshInv, pc = "idle", NEW f \in {"anchors", "blocked"}
               PROVE  Spoiled(f) \/ UpToDate(f)
    BY DEF Fresh, Spoiled, UpToDate, Alike
  <2>1. f \in Kinds /\ pc \in Done(f)
    BY DEF Kinds, Done
  <2> QED BY <2>1 DEF FreshInv
<1> QED BY <1>1, FreshAlways, PTL

(***************************************************************************)
(* A removed person stays removed.                                         *)
(***************************************************************************)

Versions == hist["anchors"]

(* From the version that a removal wrote on, the file does not list the    *)
(* person, and no command has a list in hand that does, but one about that *)
(* very person.                                                            *)
Holding(e) == cmd[e] # None /\ cmd[e].file = "anchors" /\ cmd[e].new # None
Clear(i, q) == Versions[i].data # Garbage /\ Lacks(Load("anchors", Versions[i].data), q)
Removed(q) ==
    /\ revoked[q] <= Len(Versions)
    /\ \A i \in revoked[q]..Len(Versions) : Clear(i, q)
    /\ \A e \in Cmds : Holding(e) /\ q \notin About(cmd[e].op) => Lacks(cmd[e].new, q)

RevInv == \A q \in Persons : revoked[q] # 0 => Removed(q)

LEMMA RevSame == RevInv /\ UNCHANGED << hist, cmd, revoked >> => RevInv'
BY DEF RevInv, Removed, Clear, Holding, Versions

LEMMA AnchorsFile == TypeInv => Len(Versions) \in Nat \ {0} /\ "anchors" \in Files
BY FileIsVersion DEF TypeInv, Versions, Files

LEMMA RemoveAbout ==
    ASSUME NEW o \in RemoveOps
    PROVE  About(o) = {o.person} /\ o.person \in Persons /\ o \notin ImportOps /\ o \notin BlockOps
BY DEF RemoveOps, ImportOps, BlockOps, About

(* A command that holds no list, or one without the person.                *)
LEMMA RevCmd ==
    ASSUME TypeInv, RevInv, NEW c \in Cmds, UNCHANGED << hist, revoked >>,
           \A e \in Cmds \ {c} : cmd'[e] = cmd[e],
           \A q \in Persons : revoked[q] # 0 /\ Holding(c)' /\ q \notin About(cmd'[c].op)
                                  => Lacks(cmd'[c].new, q)
    PROVE  RevInv'
<1> SUFFICES ASSUME NEW q \in Persons, revoked[q] # 0 PROVE Removed(q)'
  BY DEF RevInv
<1>1. Removed(q)
  BY DEF RevInv
<1>2. ASSUME NEW e \in Cmds, Holding(e)', q \notin About(cmd'[e].op) PROVE Lacks(cmd'[e].new, q)
  <2>1. CASE e = c
    BY <1>2, <2>1
  <2>2. CASE e # c
    BY <1>1, <1>2, <2>2 DEF Removed, Holding
  <2> QED BY <2>1, <2>2
<1> QED BY <1>1, <1>2 DEF Removed, Clear, Versions

LEMMA RevReads ==
    ASSUME TypeInv, RevInv, NEW c \in Cmds, CmdRead(c)
    PROVE  RevInv'
<1>1. UNCHANGED << hist, revoked >>
  BY DEF CmdRead
<1>2. \A e \in Cmds \ {c} : cmd'[e] = cmd[e]
  BY CmdReads
<1>3. ASSUME NEW q \in Persons, revoked[q] # 0, Holding(c)', q \notin About(cmd'[c].op)
      PROVE  Lacks(cmd'[c].new, q)
  <2> DEFINE d == File("anchors").data
             list == Load("anchors", d)
  <2>1. cmd'[c] # None /\ cmd'[c].file = "anchors"
    BY <1>3 DEF Holding
  <2>2. /\ cmd'[c].op = cmd[c].op /\ cmd[c].file = "anchors"
        /\ d # Garbage /\ cmd'[c].new \in Edit(cmd[c].op, "anchors", list)
    BY <2>1, CmdReads
  <2>3. CmdOK(cmd[c])
    BY DEF TypeInv, CmdInv, CmdRead
  <2>4. cmd[c].op \in Ops /\ AtFile(cmd[c].op, "anchors")
    BY <2>2, <2>3 DEF CmdOK, Running
  <2>5. list \in ListOf("anchors")
    BY <2>2, AnchorsFile, FileIsVersion, LoadType DEF TypeInv
  <2>6. Lacks(list, q)
    <3>1. Len(Versions) \in Nat \ {0} /\ revoked[q] \in Nat
      BY AnchorsFile DEF TypeInv, DaemonInv
    <3>2. Removed(q)
      BY <1>3 DEF RevInv
    <3>3. Len(Versions) \in revoked[q]..Len(Versions)
      BY <3>1, <3>2 DEF Removed
    <3>4. Clear(Len(Versions), q)
      BY <3>2, <3>3 DEF Removed
    <3> QED BY <3>4 DEF Clear, Versions, File
  <2> HIDE DEF list, d
  <2>7. q \in Persons \ About(cmd[c].op)
    BY <1>3, <2>2
  <2> QED BY <2>2, <2>4, <2>5, <2>6, <2>7, AnchorsFile, EditType
<1> QED BY <1>1, <1>2, <1>3, RevCmd

(* A new version without the person.                                       *)
LEMMA RevSaved ==
    ASSUME TypeInv, NEW d \in Seq(Anchor), Save("anchors", d), NEW q, Lacks(d, q),
           NEW r \in Nat \ {0}, r <= Len(Versions) + 1,
           \A i \in r..Len(Versions) : Clear(i, q)
    PROVE  r <= Len(Versions') /\ \A i \in r..Len(Versions') : Clear(i, q)'
<1>1. d \in Content["anchors"] /\ "anchors" \in Files /\ HistInv
  BY FileTypes, AnchorsFile DEF TypeInv
<1>2. /\ Len(Versions') = Len(Versions) + 1 /\ Len(Versions) \in Nat
      /\ Versions'[Len(Versions) + 1].data = d
      /\ \A i \in 1..Len(Versions) : Versions'[i] = Versions[i]
  BY <1>1, SaveEffect, AnchorsFile DEF Versions
<1>3. ASSUME NEW i \in r..Len(Versions) PROVE Clear(i, q)'
  BY <1>2, <1>3 DEF Clear
<1>4. ASSUME NEW i, i = Len(Versions) + 1 PROVE Clear(i, q)'
  <2>1. d # Garbage
    BY TrustAssumption
  <2>2. Lacks(Load("anchors", d), q)
    BY DEF Load, EmptyList, Lacks
  <2> QED BY <1>2, <1>4, <2>1, <2>2 DEF Clear
<1>5. \A i \in r..(Len(Versions) + 1) : i \in r..Len(Versions) \/ i = Len(Versions) + 1
  BY <1>2
<1> QED BY <1>2, <1>3, <1>4, <1>5

LEMMA RevWrites ==
    ASSUME TypeInv, RevInv, NEW c \in Cmds, CmdWrite(c)
    PROVE  RevInv'
<1> DEFINE o == cmd[c].op
           f == cmd[c].file
           new == cmd[c].new
           r == o.person
<1>1. /\ \A e \in Cmds \ {c} : cmd'[e] = cmd[e]
      /\ cmd'[c] # None => cmd'[c].new = None
      /\ CmdOK(cmd[c]) /\ f \in Files /\ o \in Ops /\ new \in ListOf(f)
      /\ new \in Content[f] /\ Save(f, new) /\ cmd[c] # None /\ new # None
  BY CmdWrites DEF CmdWrite
<1>2. IF o \in RemoveOps /\ ~ Overlapped(c)
      THEN revoked' = [revoked EXCEPT ![r] = Len(Versions) + 1]
      ELSE Forget(About(o))
  BY Zenon DEF CmdWrite, Versions
<1>3. /\ Len(Versions) \in Nat \ {0} /\ revoked \in [Persons -> Nat] /\ HistInv
  BY AnchorsFile DEF TypeInv, DaemonInv
<1>4. o \in RemoveOps => f = "anchors" /\ Lacks(new, r) /\ About(o) = {r} /\ r \in Persons
  BY <1>1, RemoveAbout DEF CmdOK, AtFile
<1>5. f = "anchors" => new \in Seq(Anchor)
  BY <1>1, FileTypes
<1>6. Holding(c) <=> f = "anchors"
  BY <1>1 DEF Holding
<1>7. ASSUME NEW e \in Cmds, Holding(e)' PROVE e # c /\ cmd'[e] = cmd[e] /\ Holding(e)
  BY <1>1, <1>7 DEF Holding
<1>8. f # "anchors" => Versions' = Versions
  BY <1>1, <1>3, AnchorsFile, SaveEffect DEF Versions
<1>9. ASSUME NEW q \in Persons, revoked[q] # 0, q \notin About(o), revoked'[q] = revoked[q]
      PROVE  Removed(q)'
  <2>1. Removed(q)
    BY <1>9 DEF RevInv
  <2>2. \A e \in Cmds : Holding(e)' /\ q \notin About(cmd'[e].op) => Lacks(cmd'[e].new, q)
    <3> SUFFICES ASSUME NEW e \in Cmds, Holding(e)', q \notin About(cmd'[e].op)
                 PROVE  Lacks(cmd'[e].new, q)
      OBVIOUS
    <3>1. e # c /\ cmd'[e] = cmd[e] /\ Holding(e)
      BY <1>7
    <3> QED BY <2>1, <3>1 DEF Removed
  <2>3. CASE f = "anchors"
    <3>1. Lacks(new, q)
      BY <1>6, <1>9, <2>1, <2>3 DEF Removed
    <3>2. revoked[q] \in Nat \ {0} /\ revoked[q] <= Len(Versions) + 1
      BY <1>3, <1>9, <2>1 DEF Removed
    <3>3. \A i \in revoked[q]..Len(Versions) : Clear(i, q)
      BY <2>1 DEF Removed
    <3>4. Save("anchors", new)
      BY <1>1, <2>3
    <3> HIDE DEF new, f, o
    <3>5. /\ revoked[q] <= Len(Versions')
          /\ \A i \in revoked[q]..Len(Versions') : Clear(i, q)'
      BY <1>5, <2>3, <3>1, <3>2, <3>3, <3>4, RevSaved
    <3> QED BY <1>9, <2>2, <3>5 DEF Removed
  <2>4. CASE f # "anchors"
    <3>1. Versions' = Versions
      BY <1>8, <2>4
    <3> QED BY <1>9, <2>1, <2>2, <3>1 DEF Removed, Clear
  <2> QED BY <2>3, <2>4
<1>10. CASE o \in RemoveOps /\ ~ Overlapped(c)
  <2>1. revoked' = [revoked EXCEPT ![r] = Len(Versions) + 1]
    BY <1>2, <1>10
  <2>2. ASSUME NEW q \in Persons, q = r PROVE Removed(q)'
    <3>1. Save("anchors", new) /\ new \in Seq(Anchor) /\ Lacks(new, q)
      BY <1>1, <1>4, <1>5, <1>10, <2>2
    <3>2. revoked'[q] = Len(Versions) + 1
      BY <1>3, <2>1, <2>2
    <3>3. \A e \in Cmds : ~ Holding(e)'
      BY <1>7, <1>10 DEF Overlapped, Holding
    <3> DEFINE n == Len(Versions) + 1
    <3>4. n \in Nat \ {0} /\ n <= Len(Versions) + 1 /\ \A i \in n..Len(Versions) : Clear(i, q)
      BY <1>3
    <3> HIDE DEF n, new
    <3>5. n <= Len(Versions') /\ \A i \in n..Len(Versions') : Clear(i, q)'
      BY <3>1, <3>4, RevSaved
    <3> QED BY <3>2, <3>3, <3>5 DEF n, Removed
  <2>3. ASSUME NEW q \in Persons, revoked'[q] # 0 PROVE Removed(q)'
    <3>1. CASE q = r
      BY <2>2, <3>1
    <3>2. CASE q # r
      <4>1. revoked'[q] = revoked[q] /\ q \notin About(o)
        BY <1>3, <1>4, <1>10, <2>1, <3>2
      <4> QED BY <1>9, <2>3, <4>1
    <3> QED BY <3>1, <3>2
  <2> QED BY <2>3 DEF RevInv
<1>11. CASE ~ (o \in RemoveOps /\ ~ Overlapped(c))
  <2>1. revoked' = [q \in Persons |-> IF q \in About(o) THEN 0 ELSE revoked[q]]
    BY <1>2, <1>11 DEF Forget
  <2>2. ASSUME NEW q \in Persons, revoked'[q] # 0 PROVE Removed(q)'
    BY <1>9, <2>1, <2>2
  <2> QED BY <2>2 DEF RevInv
<1> QED BY <1>10, <1>11

LEMMA RevStep == TypeInv /\ RevInv /\ [Next]_vars => RevInv'
<1> SUFFICES ASSUME TypeInv, RevInv, [Next]_vars PROVE RevInv'
  OBVIOUS
<1>1. ASSUME NEW c \in Cmds, NEW o \in Ops, CmdStart(c, o) PROVE RevInv'
  <2>1. /\ UNCHANGED << hist, revoked >> /\ \A e \in Cmds \ {c} : cmd'[e] = cmd[e]
        /\ cmd'[c].new = None
    BY <1>1 DEF CmdStart, TypeInv, CmdInv
  <2> QED BY <2>1, RevCmd DEF Holding
<1>2. ASSUME NEW c \in Cmds, CmdRead(c) PROVE RevInv'
  BY <1>2, RevReads
<1>3. ASSUME NEW c \in Cmds, CmdWrite(c) PROVE RevInv'
  BY <1>3, RevWrites
<1>4. ASSUME NEW c \in Cmds, CmdDie(c) PROVE RevInv'
  <2>1. /\ UNCHANGED << hist, revoked >> /\ \A e \in Cmds \ {c} : cmd'[e] = cmd[e]
        /\ cmd'[c] = None
    BY <1>4 DEF CmdDie, TypeInv, CmdInv
  <2> QED BY <2>1, RevCmd DEF Holding
<1>5. ASSUME NEW f \in Files, NEW d \in HandEdits[f], HandEdit(f, d) PROVE RevInv'
  <2>1. CASE f = "anchors"
    BY <1>5, <2>1 DEF HandEdit, Forget, RevInv
  <2>2. CASE f # "anchors"
    <3>1. d \in Content[f] /\ Save(f, d) /\ UNCHANGED << cmd, revoked >>
      BY <1>5, <2>2, TrustAssumption DEF HandEdit
    <3>2. Versions' = Versions
      BY <2>2, <3>1, SaveEffect, AnchorsFile DEF TypeInv, Versions
    <3> QED BY <3>1, <3>2 DEF RevInv, Removed, Clear, Holding
  <2> QED BY <2>1, <2>2
<1>6. ASSUME NEW f \in Files, StatFile(f) \/ ReadFile(f) PROVE RevInv'
  BY <1>6, RevSame DEF StatFile, ReadFile
<1>7. ASSUME NewStore \/ MaybeReload \/ Stop \/ Tick PROVE RevInv'
  BY <1>7, RevSame DEF NewStore, MaybeReload, Stop, Tick
<1>8. ASSUME NEW p \in Peers, NEW c \in WireCerts, AddCert(p, c) PROVE RevInv'
  BY <1>8, RevSame DEF AddCert
<1>9. ASSUME UNCHANGED vars PROVE RevInv'
  BY <1>9, RevSame DEF vars
<1> QED BY <1>1, <1>2, <1>3, <1>4, <1>5, <1>6, <1>7, <1>8, <1>9 DEF Next

(* Nobody counts for a person that the list the daemon holds does not name. *)
LEMMA ResolveIsOf ==
    ASSUME TypeInv, NEW list \in Seq(Anchor), anchors = Effective(list), NEW q, Lacks(list, q),
           NEW p \in Peers, Resolve(p) # None
    PROVE  Resolve(p)[2] # q
<1> DEFINE c == certs[p]
           a == anchors[c.key]
<1>1. c # None /\ a # None /\ Resolve(p) = << a.weight, a.person >>
  BY DEF Resolve
<1>2. c \in Cert
  BY <1>1 DEF TypeInv, DaemonInv, Certs
<1>3. c.key \in Keys
  BY <1>2 DEF Cert
<1>4. a.person # q
  BY <1>1, <1>3, EffectiveType
<1> QED BY <1>1, <1>4

(* Once the daemon has looked at the files after a trust remove, no peer   *)
(* counts for the removed person, as long as nobody anchors the person     *)
(* again, no other command held an older list and versions of the file can *)
(* be told apart (trustRemove, atomicWrite and maybeReload together).      *)
THEOREM RemovalsHold == Spec => []RevocationHolds
<1>1. TypeInv /\ FreshInv /\ RevInv => RevocationHolds
  <2> SUFFICES ASSUME TypeInv, FreshInv, RevInv, NEW q \in Persons, pc = "idle",
                      revoked[q] # 0, revoked[q] <= base["anchors"]
               PROVE  \/ \A p \in Peers : Resolve(p) # None => Resolve(p)[2] # q
                      \/ Confusable("anchors")
    BY DEF RevocationHolds
  <2> DEFINE n == Len(Versions)
             b == base["anchors"]
  <2>1. Removed(q)
    BY DEF RevInv
  <2>2. n \in Nat \ {0} /\ b \in Nat \ {0} /\ revoked[q] \in Nat /\ "anchors" \in Files
    BY AnchorsFile DEF TypeInv, DaemonInv
  <2>3. \A i \in b..n : Clear(i, q)
    BY <2>1, <2>2 DEF Removed
  <2>4. "anchors" \in Kinds /\ pc \in Done("anchors")
    BY DEF Kinds, Done
  <2>5. Spoiled("anchors") \/ UpToDate("anchors")
    BY <2>4 DEF FreshInv
  <2>6. ~ Spoiled("anchors")
    BY <2>3 DEF Spoiled, Clear, Versions
  <2>7. PICK i \in 1..n : /\ Versions[i].data # Garbage /\ View("anchors", Versions[i].data)
                          /\ i >= b \/ Alike("anchors", i)
    BY <2>5, <2>6 DEF UpToDate, Versions
  <2>8. CASE i >= b
    <3> DEFINE list == Load("anchors", Versions[i].data)
    <3>1. anchors = Effective(list)
      BY <2>7 DEF View
    <3>2. Lacks(list, q)
      BY <2>2, <2>3, <2>8 DEF Clear
    <3>3. list \in Seq(Anchor)
      <4>1. Versions \in Seq(VersionOf("anchors"))
        BY <2>2 DEF TypeInv, HistInv, Versions
      <4>2. Versions[i] \in VersionOf("anchors")
        BY <4>1
      <4>3. Versions[i].data \in Content["anchors"]
        BY <4>2 DEF VersionOf
      <4> QED BY <2>2, <2>7, <4>3, LoadType, FileTypes
    <3> HIDE DEF list
    <3> QED BY <3>1, <3>2, <3>3, ResolveIsOf
  <2>9. CASE ~ (i >= b)
    <3>1. PICK j \in b..n, k \in 1..i : StatOf("anchors", Versions[j]) = StatOf("anchors", Versions[k])
      BY <2>7, <2>9 DEF Alike, Versions
    <3>2. j \in 1..n /\ k \in 1..n /\ j # k
      BY <2>2, <2>9, <3>1
    <3> QED BY <3>1, <3>2 DEF Confusable, Versions
  <2> QED BY <2>8, <2>9
<1>2. Init => RevInv
  BY DEF Init, RevInv
<1>3. Spec => []RevInv
  <2>1. TypeInv /\ LoadInv /\ FreshInv /\ RevInv /\ [Next]_vars => RevInv'
    BY RevStep
  <2> QED BY <1>2, <2>1, FreshAlways, PTL DEF Spec
<1> QED BY <1>1, <1>3, FreshAlways, PTL

=============================================================================
