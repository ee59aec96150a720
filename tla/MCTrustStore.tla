---------------------------- MODULE MCTrustStore ----------------------------
(* One peer, two persons who may be given the same key, two processes.      *)
EXTENDS TrustStore, TLC

CONSTANTS alice, bob, ka, own, n, c1, c2

CertOf(k, u) == [key |-> k, until |-> u]
MCWireCerts == {CertOf(ka, 1), CertOf(ka, 3)}
MCBundles == { [person |-> alice, key |-> ka, weight |-> 1, certs |-> n :> CertOf(ka, 2)],
               [person |-> bob, key |-> ka, weight |-> 1, certs |-> n :> CertOf(own, 2)] }

Entry(p, k, w, u) == [person |-> p, key |-> k, weight |-> w, until |-> u]
MCInstalled == [ anchors |-> << Entry(alice, ka, 1, 0) >>,
                 certs   |-> n :> CertOf(ka, 2),
                 blocked |-> Missing ]
MCHandEdits == [ anchors |-> { << Entry(alice, own, 0, 0), Entry(alice, ka, 3, 1) >>,
                               Garbage, Missing },
                 certs   |-> { Garbage },
                 blocked |-> { Garbage } ]

TwoCommands == Permutations(Cmds)

=============================================================================
