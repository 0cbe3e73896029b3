------------------------------- MODULE MCRides -------------------------------
(* Instances of Rides for TLC.                                             *)
EXTENDS Rides

CONSTANTS a1, a2
=============================================================================
