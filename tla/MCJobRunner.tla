----------------------------- MODULE MCJobRunner -----------------------------
(* Instances of JobRunner for TLC.                                         *)
EXTENDS JobRunner

CONSTANTS e1, e2, e3

\* The awaiting job undisturbed, and the scheduled job with all that can fail.
BothJobs ==
    {[requeues |-> FALSE, suspended |-> 1, faults |-> {}],
     [requeues |-> TRUE, suspended |-> 2,
      faults |-> {"fetch", "store", "runtime", "shutdown"}]}
=============================================================================
