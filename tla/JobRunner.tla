------------------------------ MODULE JobRunner ------------------------------
(***************************************************************************)
(* One scheduled job: on each tick of its timer it fetches batches of      *)
(* events and processes them until a limit is reached or a batch is short. *)
(* The batch is a copy: while the job works on it other engine instances,  *)
(* adapters and operators go on moving the events.  The query has a LIMIT  *)
(* and no ORDER BY, so which events a batch holds is up to the database.   *)
(***************************************************************************)
EXTENDS Naturals, FiniteSets

CONSTANTS
    Events,        \* events the job's query may select
    BatchSize,     \* LIMIT of the query
    MaxItems,      \* events an execution may process
    MaxFails,      \* failures after which it stops
    MaxReturns,    \* bound on the events that come back into the query's reach
    Modes          \* the kinds of job and the surroundings to consider

\* The engine takes a configured limit only if it is positive.
Limits == {BatchSize, MaxItems, MaxFails}

Mode == [requeues: BOOLEAN,   \* a dispatched event stays selected (scheduled job)
         suspended: Nat,      \* events whose type is suspended, at most
         faults: SUBSET {"fetch", "store", "runtime", "shutdown"}]

ASSUME LimitsOK ==
    /\ IsFiniteSet(Events)
    /\ Limits \subseteq Nat \ {0}
    /\ MaxReturns \in Nat
    /\ Modes \subseteq Mode

VARIABLES
    mode,       \* the kind of job, the same for ever
    coming,     \* events not yet published
    selected,   \* events the query would select now
    suspended,  \* events whose type is suspended
    pc,         \* starting, waiting (for a tick), fetch, items, stopped
    batch,      \* the part of the batch still to be processed
    size,       \* number of events in the batch as fetched
    current,    \* events of the batch whose row is still as fetched
    ok, bad,    \* totalProcessed, totalFailed
    done,       \* ctx: its time is over
    canceled,   \* the parent context is canceled
    left,       \* history: selected at the last fetch and not processed since
    returns     \* history: how many events have come back

env == <<coming, selected, suspended, returns>>
job == <<pc, batch, size, current, ok, bad, done, left>>
vars == <<mode, env, job, canceled>>

Faults == mode.faults

Init ==
    /\ mode \in Modes
    /\ coming \in SUBSET Events
    /\ selected = Events \ coming
    /\ suspended \in {S \in SUBSET Events : Cardinality(S) <= mode.suspended}
    /\ returns = 0
    /\ pc = "starting"
    /\ batch = {} /\ size = 0 /\ current = {} /\ left = {}
    /\ ok = 0 /\ bad = 0
    /\ done = FALSE /\ canceled = FALSE

-----------------------------------------------------------------------------
\* The startup delay is over.
Begin ==
    /\ pc = "starting"
    /\ pc' = "waiting"
    /\ UNCHANGED <<env, batch, size, current, ok, bad, done, canceled, left>>

\* execute begins: counters at zero, a new context.
Tick ==
    /\ pc = "waiting"
    /\ pc' = "fetch"
    /\ ok' = 0 /\ bad' = 0
    /\ done' = FALSE
    /\ batch' = {} /\ size' = 0 /\ current' = {} /\ left' = {}
    /\ UNCHANGED <<env, canceled>>

LimitReached == ok >= MaxItems \/ bad >= MaxFails \/ done \/ canceled

\* The execution is over; the copies it still holds are dropped.
Finish ==
    /\ pc' = "waiting"
    /\ UNCHANGED <<env, batch, size, current, ok, bad, done, canceled, left>>

StopAtLimit == pc = "fetch" /\ LimitReached /\ Finish

FetchError == pc = "fetch" /\ ~LimitReached /\ "fetch" \in Faults /\ Finish

\* mutant of Limit: the query asks for one event too few
LimitLessOne == BatchSize - 1

Limit == BatchSize

\* SELECT ... LIMIT BatchSize: everything if it fits, else any BatchSize events.
Fetch ==
    /\ pc = "fetch" /\ ~LimitReached
    /\ batch' \in {b \in SUBSET selected :
                      \/ b = selected /\ Cardinality(b) <= Limit
                      \/ Cardinality(b) = Limit}
    /\ size' = Cardinality(batch')
    /\ current' = batch'
    /\ left' = selected
    /\ pc' = IF batch' = {} THEN "waiting" ELSE "items"
    /\ UNCHANGED <<env, ok, bad, done, canceled>>

\* The outcome of one event; dispatched: its UPDATE was done.
Process(e, success, dispatched) ==
    /\ batch' = batch \ {e}
    /\ left' = left \ {e}
    /\ ok' = IF success THEN ok + 1 ELSE ok
    /\ bad' = IF success THEN bad ELSE bad + 1
    /\ selected' = IF dispatched /\ ~mode.requeues THEN selected \ {e} ELSE selected
    /\ UNCHANGED <<coming, suspended, returns, pc, size, current, done, canceled>>

\* mutant of Skip: a suspended event is not counted
SkipUncounted(e) ==
    /\ e \in suspended
    /\ batch' = batch \ {e}
    /\ left' = left \ {e}
    /\ UNCHANGED <<env, pc, size, current, ok, bad, done, canceled>>

\* An event of a suspended type counts as processed and stays where it is.
Skip(e) == e \in suspended /\ Process(e, TRUE, FALSE)

\* The UPDATE finds the row as fetched; the publish may still fail.
Dispatch(e) ==
    /\ e \in current \ suspended
    /\ \E success \in BOOLEAN : Process(e, success, TRUE)

\* The row has moved on, or the database gives an error.
Fail(e) ==
    /\ e \notin suspended
    /\ e \notin current \/ "store" \in Faults
    /\ Process(e, FALSE, FALSE)

\* mutant of ProcessItem: the limits are tested only between batches
ProcessUnlimited(e) ==
    /\ pc = "items" /\ e \in batch
    /\ Skip(e) \/ Dispatch(e) \/ Fail(e)

ProcessItem(e) ==
    /\ pc = "items" /\ e \in batch
    /\ ~LimitReached
    /\ Skip(e) \/ Dispatch(e) \/ Fail(e)

\* mutant of Short: a full batch is taken for the last one
ShortOrFull == size <= BatchSize

Short == size < BatchSize

\* A short batch ends the execution, whether it was processed to its end or not.
EndBatch ==
    /\ pc = "items"
    /\ batch = {} \/ LimitReached
    /\ pc' = IF Short THEN "waiting" ELSE "fetch"
    /\ UNCHANGED <<env, batch, size, current, ok, bad, done, canceled, left>>

\* mutant of Stop: the loop looks only at its timer
StopNever == FALSE

\* Both selects: stopCh or ctx.Done; a running execution is not interrupted here.
Stop ==
    /\ pc \in {"starting", "waiting"} /\ canceled
    /\ pc' = "stopped"
    /\ UNCHANGED <<env, batch, size, current, ok, bad, done, canceled, left>>

-----------------------------------------------------------------------------
(* The rest of the system.                                                 *)

MaxRuntimeOver ==
    /\ "runtime" \in Faults
    /\ pc \in {"fetch", "items"} /\ ~done
    /\ done' = TRUE
    /\ UNCHANGED <<env, pc, batch, size, current, ok, bad, canceled, left>>

Shutdown ==
    /\ "shutdown" \in Faults /\ ~canceled
    /\ canceled' = TRUE
    /\ UNCHANGED <<env, job>>

Publish(e) ==
    /\ e \in coming
    /\ coming' = coming \ {e}
    /\ selected' = selected \cup {e}
    /\ UNCHANGED <<suspended, returns, job, canceled>>

Unsuspend(e) ==
    /\ e \in suspended
    /\ suspended' = suspended \ {e}
    /\ UNCHANGED <<coming, selected, returns, job, canceled>>

\* Another instance or an adapter moves the event out of the query's reach.
MovedElsewhere(e) ==
    /\ e \in selected
    /\ selected' = selected \ {e}
    /\ current' = current \ {e}
    /\ UNCHANGED <<coming, suspended, returns, pc, batch, size, ok, bad, done, canceled, left>>

\* A failed attempt puts an event back, a version on.
Return(e) ==
    /\ e \notin selected \cup coming
    /\ returns < MaxReturns
    /\ returns' = returns + 1
    /\ selected' = selected \cup {e}
    /\ UNCHANGED <<coming, suspended, job, canceled>>

JobStep == StopAtLimit \/ FetchError \/ Fetch
              \/ (\E e \in Events : ProcessItem(e)) \/ EndBatch

Step ==
    \/ Begin \/ Tick \/ JobStep \/ Stop
    \/ MaxRuntimeOver \/ Shutdown
    \/ \E e \in Events : Publish(e) \/ Unsuspend(e) \/ MovedElsewhere(e) \/ Return(e)

Next == Step /\ UNCHANGED mode

Spec == Init /\ [][Next]_vars

\* The timer ticks and the goroutine runs; a select that finds the context done
\* again and again does not for ever take the tick instead.
FairSpec ==
    /\ Spec
    /\ WF_vars(UNCHANGED mode /\ (Begin \/ Tick))
    /\ WF_vars(UNCHANGED mode /\ JobStep)
    /\ SF_vars(UNCHANGED mode /\ Stop)

-----------------------------------------------------------------------------
(* Properties.                                                             *)

\* Every variable keeps its type, and no execution exceeds its limits, not even
\* within a batch.
TypeOK ==
    /\ mode \in Modes
    /\ coming \subseteq Events /\ selected \subseteq Events
    /\ suspended \subseteq Events /\ returns \in 0 .. MaxReturns
    /\ pc \in {"starting", "waiting", "fetch", "items", "stopped"}
    /\ current \subseteq Events /\ batch \subseteq Events /\ left \subseteq Events
    /\ size \in 0 .. BatchSize
    /\ ok \in 0 .. MaxItems /\ bad \in 0 .. MaxFails
    /\ done \in BOOLEAN /\ canceled \in BOOLEAN

\* "If we got fewer items than the batch size, there are no more to fetch": an
\* execution that no limit and no error ended has tried every event its last
\* query selected, though the query had a limit.
DrainedMeansAllTried ==
    pc = "waiting" /\ ~LimitReached /\ "fetch" \notin Faults => left = {}

\* Every execution comes to an end, also when nothing it fetches ever leaves
\* the query: suspended events and, for the scheduled job, dispatched ones.
ExecutionEnds == pc = "fetch" ~> pc \in {"waiting", "stopped"}

\* After the shutdown the job's goroutine ends.
StopsAfterShutdown == canceled ~> pc = "stopped"

\* With fewer suspended events than fit in a batch, the awaiting job leaves no
\* event of another type behind, however many come back before it; without an
\* ORDER BY it could starve one if they came back for ever.
PendingDispatched ==
    \A e \in Events :
        /\ ~mode.requeues /\ Faults = {} /\ mode.suspended < BatchSize
        /\ e \in selected /\ e \notin suspended
        ~> e \notin selected
=============================================================================
