------------------------------ MODULE MCBridge ------------------------------
(* Two subnets joined by two bridges, so that every report has two paths   *)
(* and the bridges hear each other; a and b are leaves.                    *)
EXTENDS Bridge, TLC

CONSTANTS A, B, a, b, x, y, ra, rb, va

MCHome == (a :> A) @@ (b :> B) @@ (x :> A) @@ (y :> B)
MCBridgeSubnets == (a :> {}) @@ (b :> {}) @@ (x :> {A, B}) @@ (y :> {A})
MCPrefix == (a :> 64) @@ (b :> 64) @@ (x :> 48) @@ (y :> 48)
MCReporter == [e \in Reports \cup Votes |-> IF e = rb THEN b ELSE a]
MCProtected == (a :> {}) @@ (b :> {}) @@ (x :> {}) @@ (y :> {})
MCBlocked == (a :> {y}) @@ (b :> {}) @@ (x :> {}) @@ (y :> {})

=============================================================================
