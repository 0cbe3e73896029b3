SPECIFICATION FairSpec
CONSTANTS
    a1 = a1  a2 = a2
    Adapters = {a1, a2}
    First = "TRIP_COMPLETED"
    MaxEvents = 3
    MaxMsgs = 1
    MaxFaults = 2
CHECK_DEADLOCK FALSE
INVARIANTS StrandedForCause BlankForCause
PROPERTIES ImplementsRide RideEnds
