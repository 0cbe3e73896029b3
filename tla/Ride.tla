-------------------------------- MODULE Ride --------------------------------
(***************************************************************************)
(* Abstract specification of a ride of the demonstration flow: steps that  *)
(* are taken one after the other, in the order of the adapter's table, at  *)
(* most one of them open at a time.  Rides implements it.                  *)
(***************************************************************************)
EXTENDS Sequences, Naturals

CONSTANTS
    First,      \* the type of the event a ride is requested with
    NextStep,   \* NextStep[t]: the type of the step after t, "" for the last
    MayFail     \* types whose processing may fail

VARIABLE log   \* the steps begun so far, each open, done or failed

Init == log = <<>>

Open(t) == log' = Append(log, [type |-> t, state |-> "open"])

Last == log[Len(log)]

Request == log = <<>> /\ Open(First)

Settle(state) ==
    /\ log # <<>> /\ Last.state = "open"
    /\ log' = [log EXCEPT ![Len(log)].state = state]

\* "trips don't fail mid-ride"
Fail == log # <<>> /\ Last.type \in MayFail /\ Settle("failed")

Advance ==
    /\ log # <<>> /\ Last.state = "done" /\ NextStep[Last.type] # ""
    /\ Open(NextStep[Last.type])

Next == Request \/ Settle("done") \/ Fail \/ Advance

Spec == Init /\ [][Next]_log
=============================================================================
