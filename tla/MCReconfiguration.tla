-------------------------- MODULE MCReconfiguration --------------------------
(* Instances of Reconfiguration for TLC.                                   *)
EXTENDS Reconfiguration, TLC

CONSTANTS n1, n2, j1, c1, o1

\* A job and requests on the first instance, the operator on the second.
TwoEngines == (j1 :> n1) @@ (c1 :> n1) @@ (o1 :> n2)

\* Two attempts, none, a negative number, three.
Attempts == <<2, 0, -1, 3>>
=============================================================================
