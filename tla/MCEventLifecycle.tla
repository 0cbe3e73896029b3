-------------------------- MODULE MCEventLifecycle --------------------------
(* Instances of EventLifecycle for TLC.                                    *)
EXTENDS EventLifecycleClaims, TLC

CONSTANTS e1, e2, e3, j1, j2, a1, a2, c1, o1, o2

\* A retry (attempt 2) waits, the first attempt does not.
RetryDelayed == <<[number |-> 2, delayed |-> TRUE]>>

NoDelay == <<>>

FirstEntryDelayed == <<[number |-> 1, delayed |-> TRUE]>>

Symmetry == Permutations(Events) \cup Permutations(Jobs)
                \cup Permutations(Adapters) \cup Permutations(Operators)
=============================================================================
