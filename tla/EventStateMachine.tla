-------------------------- MODULE EventStateMachine --------------------------
(***************************************************************************)
(* What the lifecycle engine promises about an event, with none of its     *)
(* machinery: the state diagram of EventStatus, at most MaxAttempts        *)
(* attempts that never overlap, final states, and at most one follow-up,   *)
(* in the flow of an event that has reached the state that calls for it.   *)
(***************************************************************************)
EXTENDS Naturals

CONSTANTS
    Events,       \* the events there may be
    None,         \* no event
    MaxAttempts   \* attempts an event may take

VARIABLES
    status,    \* status[e], "ABSENT" before e is published
    attempts,  \* attempts[e]: attempts begun, i.e. permits granted
    cause      \* cause[e]: what e was published for

svars == <<status, attempts, cause>>

NoCause     == [kind |-> "none", of |-> None]
FromClient  == [kind |-> "client", of |-> None]
SpinoffOf(e) == [kind |-> "spinoff", of |-> e]
OnFailOf(e)  == [kind |-> "onfail", of |-> e]

Init ==
    /\ status = [e \in Events |-> "ABSENT"]
    /\ attempts = [e \in Events |-> 0]
    /\ cause = [e \in Events |-> NoCause]

\* e moves from one of the statuses in from to the status to.
Move(e, from, to) ==
    /\ status[e] \in from
    /\ status' = [status EXCEPT ![e] = to]

Initiate(e, why) ==
    /\ Move(e, {"ABSENT"}, "AWAITING_PROCESSING")
    /\ cause' = [cause EXCEPT ![e] = why]
    /\ UNCHANGED attempts

\* p has come to the end that calls for a follow-up, and has none yet.
Follow(e, p, end, why) ==
    /\ status[p] = end
    /\ \A d \in Events : cause[d].of # p
    /\ Initiate(e, why)

\* A dispatch may be repeated: the broker delivers at most once.
Dispatch(e) ==
    /\ Move(e, {"AWAITING_PROCESSING", "DISPATCHED"}, "DISPATCHED")
    /\ UNCHANGED <<attempts, cause>>

Begin(e) ==
    /\ attempts[e] < MaxAttempts
    /\ Move(e, {"DISPATCHED"}, "BEING_PROCESSED")
    /\ attempts' = [attempts EXCEPT ![e] = @ + 1]
    /\ UNCHANGED cause

\* Another attempt, as long as one is left.
Retry(e) ==
    /\ attempts[e] < MaxAttempts
    /\ Move(e, {"BEING_PROCESSED"}, "AWAITING_PROCESSING")
    /\ UNCHANGED <<attempts, cause>>

End(e) ==
    /\ \E end \in {"PROCESSED", "FAILED"} : Move(e, {"BEING_PROCESSED"}, end)
    /\ UNCHANGED <<attempts, cause>>

Next ==
    \E e \in Events :
        \/ Initiate(e, FromClient)
        \/ \E p \in Events : \/ Follow(e, p, "PROCESSED", SpinoffOf(p))
                             \/ Follow(e, p, "FAILED", OnFailOf(p))
        \/ Dispatch(e)
        \/ Begin(e)
        \/ Retry(e)
        \/ End(e)

Spec == Init /\ [][Next]_svars
=============================================================================
