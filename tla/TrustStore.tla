---------------------------- MODULE TrustStore ------------------------------
(***************************************************************************)
(* The trust files and the daemon's hot-reloaded view of them.             *)
(*                                                                         *)
(* Writers: federloomctl trust add|set|remove|import|block|unblock and     *)
(* federation join (cmd/federloomctl/trust.go, federation.go), each a      *)
(* separate process that reads a file, edits the list in memory and        *)
(* renames a temp file of its own over it; and an operator with an editor. *)
(* Nothing locks the files.                                                *)
(*                                                                         *)
(* Reader: trust.Store of the daemon (internal/trust/store.go), which on a *)
(* query re-checks the files at most every ReloadEvery, one file after the *)
(* other, each stat'ed before it is read, and caches certs that arrive on  *)
(* the wire.                                                               *)
(***************************************************************************)
EXTENDS Integers, Sequences, FiniteSets, SequencesExt

CONSTANTS
    Persons, Keys, Peers,
    OwnKey,           \* the operator's own Person key
    Weights,          \* arguments of --weight; trust 1.0 is Full
    Full,
    Bundles,          \* what trust import and federation join may be given
    WireCerts,        \* vouches that may arrive with events
    Installed,        \* the files there are at first
    HandEdits,        \* what an editor may leave in a file
    Cmds,             \* federloomctl processes that may run at a time
    ReloadEvery, MaxNow, MaxEdits,
    Missing, Garbage, \* no such file; a file json.Unmarshal rejects
    None

Files == {"anchors", "certs", "blocked"}

Anchor == [ person : Persons, key : Keys, weight : Int, until : Nat ]  \* until 0: no expiry
Cert == [ key : Keys, until : Nat ]
Certs == [ Peers -> Cert \cup {None} ]
Bundle == [ person : Persons, key : Keys, weight : Int, certs : Certs ]

\* What a file may hold.
Content == [ anchors |-> Seq(Anchor) \cup {Missing, Garbage},
             certs   |-> Certs \cup {Missing, Garbage},
             blocked |-> (SUBSET Peers) \cup {Missing, Garbage} ]

ASSUME TrustAssumption ==
    /\ OwnKey \in Keys
    /\ Full \in Nat \ {0} /\ Weights \subseteq Int
    /\ Bundles \subseteq Bundle
    /\ WireCerts \subseteq Cert
    /\ \A f \in Files : Installed[f] \in Content[f] /\ HandEdits[f] \subseteq Content[f]
    /\ Garbage \notin Seq(Anchor)
    /\ ReloadEvery \in Nat /\ MaxNow \in Nat /\ MaxEdits \in Nat

NoCerts == [p \in Peers |-> None]
EmptyList == [ anchors |-> << >>, certs |-> NoCerts, blocked |-> {} ]

VARIABLES
    hist,       \* versions of each file, the last one being the file
    cmd,        \* the command each process executes
    pc,         \* "down", "idle", or the file maybeReload is at
    took,       \* the fileStat taken of that file, None before the stat
    anchors, certs, blocked,            \* Store.anchors, .certs, .blocked
    stat,       \* anchorsStat, certsStat, blockedStat
    loadedOnce, lastCheck,
    now, edits, \* edits: commands, hand edits and restarts so far
    base,       \* history: how many versions there were at lastCheck
    revoked     \* history: version that a trust remove of a person wrote, or 0

daemon == << pc, took, anchors, certs, blocked, stat, loadedOnce, lastCheck, base >>
vars == << hist, cmd, daemon, now, edits, revoked >>

-----------------------------------------------------------------------------
(* Files *)

File(f) == hist[f][Len(hist[f])]

\* LoadAnchors, LoadCerts, LoadBlockedPeers: a missing file is an empty list.
Load(f, d) == IF d = Missing THEN EmptyList[f] ELSE d

Size(f, d) == IF d \in {Missing, Garbage} THEN 0
              ELSE IF f = "anchors" THEN Len(d)
              ELSE IF f = "certs" THEN Cardinality({p \in Peers : d[p] # None})
              ELSE Cardinality(d)

\* os.Stat of a version; the zero fileStat stands for a missing file.
ZeroStat == << -1, 0 >>
StatOf(f, v) == IF v.data = Missing THEN ZeroStat ELSE << v.mtime, Size(f, v.data) >>

\* Mutant: only the size tells versions apart.
SizeChanged(f) == File(f).data = Missing \/ StatOf(f, File(f))[2] # stat[f][2]

\* statChanged
StatChanged(f) == File(f).data = Missing \/ StatOf(f, File(f)) # stat[f]

\* A new version, by rename; on a file system with coarse times it may share
\* the modification time of the one before.
Save(f, d) ==
    \E m \in {File(f).mtime, File(f).mtime + 1} :
        hist' = [hist EXCEPT ![f] = Append(@, [data |-> d, mtime |-> m])]

-----------------------------------------------------------------------------
(* Commands.  An operation is a record; Edit is what it does to a list,    *)
(* the empty set where the command ends without saving.                    *)

VerifyCert(c) == now < c.until

AddOps == [ op : {"add"}, person : Persons, key : Keys \ {OwnKey}, weight : Weights \cap 1..Full ]
SetOps == [ op : {"set"}, person : Persons, weight : Weights \cap 1..Full ]
RemoveOps == [ op : {"remove"}, person : Persons ]
ImportOps == [ op : {"import"}, bundle : {b \in Bundles : b.weight \in 1..Full} ]
BlockOps == [ op : {"block", "unblock"}, peer : Peers ]
Ops == AddOps \cup SetOps \cup RemoveOps \cup ImportOps \cup BlockOps

FirstFile(o) == CASE o \in ImportOps -> "certs"
                  [] o \in BlockOps  -> "blocked"
                  [] OTHER           -> "anchors"

NewAnchor(o) == [ person |-> o.person, key |-> o.key, weight |-> o.weight, until |-> 0 ]

\* An anchor is replaced by its person, not by its key.
At(list, person) == {i \in 1..Len(list) : list[i].person = person}
First(list, person) == CHOOSE i \in At(list, person) : \A j \in At(list, person) : i <= j
upsertAnchor(list, a) ==
    IF At(list, a.person) = {} THEN Append(list, a)
    ELSE [list EXCEPT ![First(list, a.person)] = a]

trustSet(list, o) ==
    IF At(list, o.person) = {} THEN {}
    ELSE {[list EXCEPT ![First(list, o.person)].weight = o.weight]}

\* Mutant: only the first entry of the person goes.
RemovesFirst(list, o) ==
    IF At(list, o.person) = {} THEN {}
    ELSE {RemoveAt(list, First(list, o.person))}

\* The entries of everybody else, in their order.
Kept(list, person) ==
    LET kept[i \in 0..Len(list)] ==
            IF i = 0 THEN << >>
            ELSE IF list[i].person = person THEN kept[i - 1] ELSE Append(kept[i - 1], list[i])
    IN  kept[Len(list)]

trustRemove(list, o) ==
    IF At(list, o.person) = {} THEN {} ELSE {Kept(list, o.person)}

\* The bundle's certs that are its person's and still valid replace others.
MergeCerts(list, b) ==
    [p \in Peers |-> IF b.certs[p] # None /\ b.certs[p].key = b.key /\ VerifyCert(b.certs[p])
                     THEN b.certs[p] ELSE list[p]]

Edit(o, f, list) ==
    CASE o.op = "add"     -> {upsertAnchor(list, NewAnchor(o))}
      [] o.op = "set"     -> trustSet(list, o)
      [] o.op = "remove"  -> trustRemove(list, o)
      [] o.op = "import"  -> {IF f = "certs" THEN MergeCerts(list, o.bundle)
                              ELSE upsertAnchor(list, NewAnchor(o.bundle))}
      [] o.op = "block"   -> IF o.peer \in list THEN {} ELSE {list \cup {o.peer}}
      [] o.op = "unblock" -> IF o.peer \in list THEN {list \ {o.peer}} ELSE {}

\* The person a command is about; the editor is about everybody.
About(o) == CASE o \in BlockOps -> {}
              [] o \in ImportOps -> {o.bundle.person}
              [] OTHER -> {o.person}

Forget(P) == revoked' = [q \in Persons |-> IF q \in P THEN 0 ELSE revoked[q]]

CmdStart(c, o) ==
    /\ cmd[c] = None
    /\ edits < MaxEdits
    /\ edits' = edits + 1
    /\ cmd' = [cmd EXCEPT ![c] = [op |-> o, file |-> FirstFile(o), new |-> None]]
    /\ UNCHANGED << hist, daemon, now, revoked >>

CmdRead(c) ==
    /\ cmd[c] # None /\ cmd[c].new = None
    /\ LET f == cmd[c].file
           d == File(f).data
       IN  cmd' = [cmd EXCEPT ![c] =
               IF d = Garbage \/ Edit(cmd[c].op, f, Load(f, d)) = {} THEN None
               ELSE [cmd[c] EXCEPT !.new = CHOOSE n \in Edit(cmd[c].op, f, Load(f, d)) : TRUE]]
    /\ UNCHANGED << hist, daemon, now, edits, revoked >>

\* A removal stands if no other process holds an older copy of the list.
Overlapped(c) == \E e \in Cmds \ {c} : cmd[e] # None /\ cmd[e].file = "anchors" /\ cmd[e].new # None

\* atomicWrite, and what the command does next.
CmdWrite(c) ==
    /\ cmd[c] # None /\ cmd[c].new # None
    /\ Save(cmd[c].file, cmd[c].new)
    /\ cmd' = [cmd EXCEPT ![c] = IF @.op \in ImportOps /\ @.file = "certs"
                                 THEN [@ EXCEPT !.file = "anchors", !.new = None] ELSE None]
    /\ IF cmd[c].op \in RemoveOps /\ ~ Overlapped(c)
       THEN revoked' = [revoked EXCEPT ![cmd[c].op.person] = Len(hist["anchors"]) + 1]
       ELSE Forget(About(cmd[c].op))
    /\ UNCHANGED << daemon, now, edits >>

\* Killed, or an error of a system call: at most a temp file stays behind.
CmdDie(c) ==
    /\ cmd[c] # None
    /\ cmd' = [cmd EXCEPT ![c] = None]
    /\ UNCHANGED << hist, daemon, now, edits, revoked >>

HandEdit(f, d) ==
    /\ edits < MaxEdits
    /\ edits' = edits + 1
    /\ d # File(f).data
    /\ Save(f, d)
    /\ IF f = "anchors" THEN Forget(Persons) ELSE UNCHANGED revoked
    /\ UNCHANGED << cmd, daemon, now >>

-----------------------------------------------------------------------------
(* Store *)

\* Mutant: weights are not cut.
AsWritten(list) ==
    LET at(k) == {i \in 1..Len(list) : list[i].key = k}
    IN  [k \in Keys |-> IF at(k) = {} THEN None
                        ELSE list[CHOOSE i \in at(k) : \A j \in at(k) : j <= i]]

\* The anchors by key, out of a list: a later entry for a key wins, weights
\* are cut to (0,1].
Effective(list) ==
    LET kept(k) == {i \in 1..Len(list) : list[i].key = k /\ list[i].weight > 0}
        last(k) == CHOOSE i \in kept(k) : \A j \in kept(k) : j <= i
    IN  [k \in Keys |->
            IF kept(k) = {} THEN None
            ELSE [list[last(k)] EXCEPT !.weight = IF @ > Full THEN Full ELSE @]]

NoAnchors == [k \in Keys |-> None]

\* Mutant: a cert of the file always replaces the cached one.
FileCertWins(cached, c) == IF c # None /\ lastCheck < c.until THEN c ELSE cached

\* A valid cert of the file replaces a cached one that ends sooner.
LongerLived(cached, c) ==
    IF /\ c # None
       /\ lastCheck < c.until
       /\ cached = None \/ c.until > cached.until
    THEN c ELSE cached

NextFile(f) == CASE f = "anchors" -> "certs" [] f = "certs" -> "blocked" [] f = "blocked" -> "idle"

Proceed(f) ==
    /\ pc' = NextFile(f)
    /\ took' = None
    /\ loadedOnce' = (loadedOnce \/ f = "blocked")

\* NewStore, in a daemon that has just started.
NewStore ==
    /\ pc = "down"
    /\ pc' = "anchors"
    /\ lastCheck' = now
    /\ base' = [f \in Files |-> Len(hist[f])]
    /\ UNCHANGED << hist, cmd, took, anchors, certs, blocked, stat, loadedOnce, now, edits, revoked >>

\* Resolve and IsBlocked call maybeReload, which the interval throttles.
MaybeReload ==
    /\ pc = "idle"
    /\ now - lastCheck >= ReloadEvery
    /\ pc' = "anchors"
    /\ lastCheck' = now
    /\ base' = [f \in Files |-> Len(hist[f])]
    /\ UNCHANGED << hist, cmd, took, anchors, certs, blocked, stat, loadedOnce, now, edits, revoked >>

StatFile(f) ==
    /\ pc = f
    /\ took = None
    /\ IF StatChanged(f) \/ ~ loadedOnce
       THEN took' = StatOf(f, File(f)) /\ UNCHANGED << pc, loadedOnce >>
       ELSE Proceed(f)
    /\ UNCHANGED << hist, cmd, anchors, certs, blocked, stat, lastCheck, base, now, edits, revoked >>

Recorded(f, d) == IF d = Garbage THEN stat ELSE [stat EXCEPT ![f] = took]

\* Mutant: a file that cannot be parsed empties the list.
EmptiesOnError(d) == IF d = Garbage THEN NoAnchors ELSE Effective(Load("anchors", d))
LoadedAnchors(d) ==
    IF d # Garbage THEN Effective(Load("anchors", d))
    ELSE IF loadedOnce THEN anchors ELSE NoAnchors

ReadAnchors(d) ==
    /\ anchors' = LoadedAnchors(d)
    /\ UNCHANGED << certs, blocked >>

ReadCerts(d) ==
    /\ certs' = IF d = Garbage THEN certs
                ELSE [p \in Peers |-> LongerLived(certs[p], Load("certs", d)[p])]
    /\ UNCHANGED << anchors, blocked >>

ReadBlocked(d) ==
    /\ blocked' = IF d = Garbage THEN blocked ELSE Load("blocked", d)
    /\ UNCHANGED << anchors, certs >>

ReadFile(f) ==
    /\ pc = f
    /\ took # None
    /\ LET d == File(f).data
       IN  /\ \/ f = "anchors" /\ ReadAnchors(d)
              \/ f = "certs" /\ ReadCerts(d)
              \/ f = "blocked" /\ ReadBlocked(d)
           /\ stat' = Recorded(f, d)
    /\ Proceed(f)
    /\ UNCHANGED << hist, cmd, lastCheck, base, now, edits, revoked >>

\* A vouch on the wire: the cert that comes last is kept, whatever its term.
AddCert(p, c) ==
    /\ pc = "idle"
    /\ VerifyCert(c)
    /\ certs[p] # c
    /\ certs' = [certs EXCEPT ![p] = c]
    /\ UNCHANGED << hist, cmd, pc, took, anchors, blocked, stat, loadedOnce, lastCheck, base,
                    now, edits, revoked >>

\* The trust weight of a peer, and the person it counts for.
Resolve(p) ==
    LET c == certs[p] IN
    IF c = None \/ now > c.until THEN None
    ELSE LET a == anchors[c.key] IN
         IF a = None \/ (a.until # 0 /\ now > a.until) THEN None
         ELSE << a.weight, a.person >>

\* The daemon stops; what it knows is in memory only.
Stop ==
    /\ pc # "down"
    /\ edits < MaxEdits
    /\ edits' = edits + 1
    /\ pc' = "down"
    /\ took' = None
    /\ anchors' = NoAnchors /\ certs' = NoCerts /\ blocked' = {}
    /\ stat' = [f \in Files |-> ZeroStat]
    /\ loadedOnce' = FALSE
    /\ lastCheck' = 0
    /\ base' = [f \in Files |-> 1]
    /\ UNCHANGED << hist, cmd, now, revoked >>

Tick ==
    /\ now < MaxNow
    /\ now' = now + 1
    /\ UNCHANGED << hist, cmd, daemon, edits, revoked >>

Init ==
    /\ hist = [f \in Files |-> << [data |-> Installed[f], mtime |-> 0] >>]
    /\ cmd = [c \in Cmds |-> None]
    /\ pc = "down" /\ took = None
    /\ anchors = NoAnchors /\ certs = NoCerts /\ blocked = {}
    /\ stat = [f \in Files |-> ZeroStat]
    /\ loadedOnce = FALSE /\ lastCheck = 0
    /\ now = 0 /\ edits = 0
    /\ base = [f \in Files |-> 1]
    /\ revoked = [q \in Persons |-> 0]

Next ==
    \/ \E c \in Cmds : \/ \E o \in Ops : CmdStart(c, o)
                       \/ CmdRead(c) \/ CmdWrite(c) \/ CmdDie(c)
    \/ \E f \in Files : \/ \E d \in HandEdits[f] : HandEdit(f, d)
                        \/ StatFile(f) \/ ReadFile(f)
    \/ NewStore \/ MaybeReload \/ Stop \/ Tick
    \/ \E p \in Peers, c \in WireCerts : AddCert(p, c)

Spec == Init /\ [][Next]_vars

-----------------------------------------------------------------------------
(* Properties *)

TypeOK ==
    /\ \A f \in Files : hist[f] # << >>
    /\ \A f \in Files : \A i \in 1..Len(hist[f]) :
          hist[f][i].data \in Content[f] /\ hist[f][i].mtime \in Nat
    /\ pc \in {"down", "idle"} \cup Files
    /\ anchors \in [Keys -> Anchor \cup {None}]
    /\ certs \in Certs
    /\ blocked \subseteq Peers
    /\ loadedOnce \in BOOLEAN
    /\ {now, lastCheck, edits} \subseteq Nat
    /\ \A k \in Keys : anchors[k] # None => anchors[k].weight \in 1..Full

\* What the daemon holds of a file.
View(f, d) == IF f = "anchors" THEN anchors = Effective(Load(f, d))
              ELSE blocked = Load(f, d)

\* The daemon's anchors and blocked peers are those of the version that was
\* there when it last looked, or of a later one, whatever commands and edits
\* fall between the stat and the read, unless a version since then cannot be
\* parsed or cannot be told from an earlier one by time and size ("takes effect
\* within 10s", "federloomd will reload within 10s").
Fresh ==
    pc = "idle" => \A f \in {"anchors", "blocked"} :
        \/ \E j \in base[f]..Len(hist[f]) : hist[f][j].data = Garbage
        \/ \E i \in 1..Len(hist[f]) :
              /\ hist[f][i].data # Garbage
              /\ View(f, hist[f][i].data)
              /\ \/ i >= base[f]
                 \/ \E j \in base[f]..Len(hist[f]), k \in 1..i :
                        /\ hist[f][j].data # Missing
                        /\ StatOf(f, hist[f][j]) = StatOf(f, hist[f][k])

\* "A bad file must not silently drop existing trust": while the daemon runs, a
\* key loses its anchor only to a file that can be read and does not anchor it.
TrustIsKept ==
    [][ \A k \in Keys : (anchors[k] # None /\ anchors'[k] = None /\ pc' # "down") =>
            LET d == File("anchors").data
            IN  d # Garbage /\ Effective(Load("anchors", d))[k] = None ]_vars

\* Two versions of the file that time and size do not tell apart.
Confusable(f) == \E i, j \in 1..Len(hist[f]) : i # j /\ StatOf(f, hist[f][i]) = StatOf(f, hist[f][j])

\* Once the daemon has looked at the files after a trust remove, no peer counts
\* for the person ("all their machines now score as strangers"), as long as
\* nobody anchors the person again and no other command held an older list.
RevocationHolds ==
    \A q \in Persons :
        (pc = "idle" /\ revoked[q] # 0 /\ revoked[q] <= base["anchors"]) =>
            \/ \A p \in Peers : Resolve(p) # None => Resolve(p)[2] # q
            \/ Confusable("anchors")

\* A reload never shortens the vouch a peer has ("keep whichever lives longer").
ReloadKeepsVouches ==
    [][ (pc = "certs" /\ pc' # "down") => \A p \in Peers :
            certs[p] # None => certs'[p] # None /\ certs'[p].until >= certs[p].until ]_vars

=============================================================================
