------------------------ MODULE EventLifecycleClaims ------------------------
(***************************************************************************)
(* What a comment of the repository says of the lifecycle, stated over the *)
(* model of what the code does.  The engine breaks it; the run ClaimDelays *)
(* shows how.                                                              *)
(***************************************************************************)
EXTENDS EventLifecycle

\* "waiting for a scheduled attempt time": a sleeping event is not dispatched
\* before its attempt is due.  The awaiting job never looks at the schedule.
DelaysRespected ==
    [][\A e \in Events :
          event'[e].status = "DISPATCHED" /\ event[e].sched = "SLEEPING" =>
              e \notin waiting]_vars
=============================================================================
