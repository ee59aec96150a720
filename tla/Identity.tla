------------------------------ MODULE Identity ------------------------------
(***************************************************************************)
(* The files of a person identity and of a node: what `federloomctl        *)
(* identity init`, `federloomctl peer-cert` and the start of federloomd do *)
(* to them when they run at the same time, or die on the way               *)
(* (cmd/federloomctl/identity.go, internal/identity/person.go, nodekey.go).*)
(* A key is named by the process that generates it.                        *)
(***************************************************************************)
EXTENDS FiniteSets

CONSTANTS
    Inits, PeerCerts, Daemons,  \* the processes of each kind
    None                        \* no file

Procs == Inits \cup PeerCerts \cup Daemons

VARIABLES
    person, personTmp,  \* the person key and its temporary file: a key, and whether whole
    label,              \* who wrote the label
    node, nodeTmp,      \* the node key and its temporary file
    cert, certTmp,      \* peer.cert and its temporary file
    issued,             \* issued certs, at most one per peer
    pc,                 \* where a process is
    hand,               \* what a process holds: person key, node key, issued list
    installed           \* history: the person keys that were put in place

vars == << person, personTmp, label, node, nodeTmp, cert, certTmp, issued, pc, hand, installed >>
personFiles == << person, personTmp, label, installed >>
nodeFiles == << node, nodeTmp >>
certFiles == << cert, certTmp, issued >>

Init ==
    /\ person = None /\ personTmp = None /\ label = None
    /\ node = None /\ nodeTmp = None
    /\ cert = None /\ certTmp = None /\ issued = {}
    /\ pc = [p \in Procs |-> IF p \in Inits THEN "stat"
                             ELSE IF p \in PeerCerts THEN "loadPerson" ELSE "readNode"]
    /\ hand = [p \in Procs |-> [person |-> None, node |-> None, list |-> {}]]
    /\ installed = {}

Goto(p, where) == pc' = [pc EXCEPT ![p] = where]
Holds(p, field, x) == hand' = [hand EXCEPT ![p][field] = x]

-----------------------------------------------------------------------------
(* GeneratePersonKey *)

StatPerson(p) ==
    /\ pc[p] = "stat"
    /\ Goto(p, IF person # None THEN "failed" ELSE "create")
    /\ UNCHANGED << personFiles, nodeFiles, certFiles, hand >>

\* O_EXCL: the temporary file must not be there.
CreateTmp(p) ==
    /\ pc[p] = "create"
    /\ IF personTmp # None
       THEN Goto(p, "failed") /\ UNCHANGED personTmp
       ELSE Goto(p, "write") /\ personTmp' = [key |-> p, whole |-> FALSE]
    /\ UNCHANGED << person, label, installed, nodeFiles, certFiles, hand >>

\* A write that fails takes the temporary file away.
WritePerson(p) ==
    /\ pc[p] = "write"
    /\ \/ Goto(p, "install") /\ personTmp' = [key |-> p, whole |-> TRUE]
       \/ Goto(p, "failed") /\ personTmp' = None
    /\ UNCHANGED << person, label, installed, nodeFiles, certFiles, hand >>

\* rename replaces whatever is in place.
InstallPerson(p) ==
    /\ pc[p] = "install"
    /\ person' = personTmp /\ personTmp' = None
    /\ installed' = installed \cup {personTmp.key}
    /\ Holds(p, "person", p)
    /\ Goto(p, "label")
    /\ UNCHANGED << label, nodeFiles, certFiles >>

\* With --label.  An error ends identity init here.
WriteLabel(p) ==
    /\ pc[p] = "label"
    /\ \/ Goto(p, "readNode") /\ label' \in {label, p}
       \/ Goto(p, "failed") /\ UNCHANGED label
    /\ UNCHANGED << person, personTmp, installed, nodeFiles, certFiles, hand >>

\* LoadPersonKey, of peer-cert
LoadPerson(p) ==
    /\ pc[p] = "loadPerson"
    /\ IF person = None \/ ~ person.whole
       THEN Goto(p, "failed") /\ UNCHANGED hand
       ELSE Goto(p, "loadIssued") /\ hand' = [hand EXCEPT ![p].person = person.key, ![p].node = p]
    /\ UNCHANGED << personFiles, nodeFiles, certFiles >>

-----------------------------------------------------------------------------
(* LoadOrCreateNodeKey.  The daemon needs nothing more. *)

HasNode(p) == IF p \in Daemons THEN "done" ELSE "writeCert"

ReadNode(p) ==
    /\ pc[p] = "readNode"
    /\ IF node # None
       THEN Goto(p, HasNode(p)) /\ Holds(p, "node", node)
       ELSE Goto(p, "writeNode") /\ UNCHANGED hand
    /\ UNCHANGED << personFiles, nodeFiles, certFiles >>

WriteNode(p) ==
    /\ pc[p] = "writeNode"
    /\ nodeTmp' = p
    /\ Goto(p, "installNode")
    /\ UNCHANGED << personFiles, node, certFiles, hand >>

\* rename fails if the other process has already renamed the file; init then
\* ends with a note.
InstallNode(p) ==
    /\ pc[p] = "installNode"
    /\ IF nodeTmp = None
       THEN /\ Goto(p, IF p \in Daemons THEN "failed" ELSE "done")
            /\ UNCHANGED << nodeFiles, hand >>
       ELSE /\ node' = nodeTmp /\ nodeTmp' = None
            /\ Holds(p, "node", p)
            /\ Goto(p, HasNode(p))
    /\ UNCHANGED << personFiles, certFiles >>

-----------------------------------------------------------------------------
(* writeCert, appendIssuedCert *)

Issue(p) == [by |-> hand[p].person, peer |-> hand[p].node]

WriteCert(p) ==
    /\ pc[p] = "writeCert"
    /\ certTmp' = Issue(p)
    /\ Goto(p, "installCert")
    /\ UNCHANGED << personFiles, nodeFiles, cert, issued, hand >>

InstallCert(p) ==
    /\ pc[p] = "installCert"
    /\ IF certTmp = None
       THEN Goto(p, "failed") /\ UNCHANGED << cert, certTmp >>
       ELSE Goto(p, "loadIssued") /\ cert' = certTmp /\ certTmp' = None
    /\ UNCHANGED << personFiles, nodeFiles, issued, hand >>

LoadIssued(p) ==
    /\ pc[p] = "loadIssued"
    /\ Holds(p, "list", {c \in issued : c.peer # hand[p].node})
    /\ Goto(p, "saveIssued")
    /\ UNCHANGED << personFiles, nodeFiles, certFiles >>

SaveIssued(p) ==
    /\ pc[p] = "saveIssued"
    /\ issued' = hand[p].list \cup {Issue(p)}
    /\ Goto(p, "done")
    /\ UNCHANGED << personFiles, nodeFiles, cert, certTmp, hand >>

-----------------------------------------------------------------------------
\* A process is killed; its temporary files stay.
Die(p) ==
    /\ pc[p] \notin {"done", "failed"}
    /\ Goto(p, "failed")
    /\ UNCHANGED << personFiles, nodeFiles, certFiles, hand >>

Next ==
    \E p \in Procs :
        \/ StatPerson(p) \/ CreateTmp(p) \/ WritePerson(p) \/ InstallPerson(p)
        \/ WriteLabel(p) \/ LoadPerson(p)
        \/ ReadNode(p) \/ WriteNode(p) \/ InstallNode(p)
        \/ WriteCert(p) \/ InstallCert(p) \/ LoadIssued(p) \/ SaveIssued(p)
        \/ Die(p)

Spec == Init /\ [][Next]_vars

-----------------------------------------------------------------------------
(* Properties *)

\* "refusing to overwrite": a person key that was put in place stays in place.
\* "O_EXCL on the temp also closes the stat-then-write TOCTOU between two
\* concurrent `identity init` invocations" (GeneratePersonKey).
PersonKeyKept == \A k \in installed : person # None /\ person.key = k

=============================================================================
