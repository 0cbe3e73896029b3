-------------------------------- MODULE MCHub --------------------------------
(* Instances of Hub for TLC.                                               *)
EXTENDS Hub

CONSTANTS k1, k2, b1, b2
=============================================================================
