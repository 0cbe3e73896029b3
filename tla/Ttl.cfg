SPECIFICATION Spec
CONSTANTS
    Second = 3
    Buckets <- SomeBuckets
    Horizon = 24
CHECK_DEADLOCK FALSE
INVARIANTS DiscardedNearDeadline LateByLessThanABucket
