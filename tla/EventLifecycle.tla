--------------------------- MODULE EventLifecycle ---------------------------
(***************************************************************************)
(* The event lifecycle engine: the event table with its optimistic lock,   *)
(* the payload store, the NATS subject, and the goroutines that move an    *)
(* event through its life -- the scheduled jobs, the handlers that serve   *)
(* the adapters and the clients that publish.                              *)
(*                                                                         *)
(* The grain is one database, payload-store or broker call per step: every *)
(* handler loads a row, decides on the copy it loaded, and writes with     *)
(* "UPDATE ... WHERE id = ? AND version = ?".  Between the two any other   *)
(* goroutine, on this or another engine instance, may move the event.      *)
(*                                                                         *)
(* Time is abstracted to the two comparisons the code makes with it:       *)
(*   waiting  the events whose attempt_scheduled_at is still to come       *)
(*   expired  the events whose event_processing_due_date has passed        *)
(***************************************************************************)
EXTENDS Naturals, Sequences, FiniteSets

CONSTANTS
    Events,       \* the ids uuid.New() may return
    None,         \* no event
    Jobs,         \* job goroutines of all engine instances
    Adapters,     \* NATS subscribers that keep the adapter contract
    Clients,      \* callers that publish
    Operators,    \* callers of acquire / success / failure for any event id
    MaxAttempts,  \* max_attempts of the lifecycle configuration
    AttemptConfigs, \* attempt_lifecycle_configs: attempt number, positive delay?
    MaxRetries,   \* maxRetries of withRetry
    FlakyStores,  \* stores whose failure the code only logs: "errorlog", "payload"
    MemoryStore,  \* TRUE: payloads are kept in the engine's memory, not in Redis
    MaxPublished, \* bound: clients publish this many events, follow-ups not counted
    MaxVersion,   \* bound: no job or operator picks up a row beyond this version
    MaxLogs       \* bound: operators report no failure beyond this many log rows

ASSUME ConstantsOK ==
    /\ None \notin Events
    /\ MaxAttempts \in Nat \ {0}
    /\ AttemptConfigs \in Seq([number: Nat, delayed: BOOLEAN])
    /\ MaxRetries \in Nat \ {0}
    /\ FlakyStores \subseteq {"errorlog", "payload"}
    /\ MemoryStore \in BOOLEAN
    /\ MaxPublished \in Nat
    /\ MaxVersion \in Nat
    /\ MaxLogs \in Nat

VARIABLES
    event,     \* event[e]: the row of e in table event
    payload,   \* payload[e]: the payload-store entry of e
    msgs,      \* messages published and neither delivered nor lost
    thread,    \* thread[t]: control point and local variables of goroutine t
    waiting,   \* events whose attempt_scheduled_at lies in the future
    expired,   \* events whose event_processing_due_date has passed
    errorLog,  \* errorLog[e]: number of rows event_error_log holds for e
    cause      \* history: what each event was published for

vars == <<event, payload, msgs, thread, waiting, expired, errorLog, cause>>

Threads == Jobs \cup Adapters \cup Clients \cup Operators

-----------------------------------------------------------------------------
(* The event row.                                                          *)

Status == {"AWAITING_PROCESSING", "DISPATCHED", "BEING_PROCESSED",
           "PROCESSED", "FAILED"}

IsFinal(status) == status \in {"PROCESSED", "FAILED"}

ScheduleState == {"ACTIVE", "INACTIVE", "SLEEPING"}

Row == [status: Status \cup {"ABSENT"}, version: Nat, left: Nat, failed: Nat,
        sched: ScheduleState, onFail: BOOLEAN]

Absent == [status |-> "ABSENT", version |-> 0, left |-> 0, failed |-> 0,
           sched |-> "INACTIVE", onFail |-> FALSE]

Body == {"data", "blank"}    \* "blank": the literal {} or the empty string

Message == [ev: Events, ver: Nat, body: Body]

Cause == [kind: {"none", "client", "spinoff", "onfail"}, of: Events \cup {None}]

\* Publish takes the delay of the first entry, whatever its attempt number ...
FirstDelayed == AttemptConfigs # <<>> /\ AttemptConfigs[1].delayed

\* ... a retry that of the first entry with the number of the attempt.
Delayed(attempt) ==
    \E i \in DOMAIN AttemptConfigs :
        /\ AttemptConfigs[i] = [number |-> attempt, delayed |-> TRUE]
        /\ \A k \in 1 .. (i - 1) : AttemptConfigs[k].number # attempt

SchedFor(delayed) == IF delayed THEN "SLEEPING" ELSE "ACTIVE"

\* INSERT IGNORE INTO event: version 1, no failed attempts.
NewRow(onFail) ==
    [status |-> "AWAITING_PROCESSING", version |-> 1, left |-> MaxAttempts,
     failed |-> 0, sched |-> SchedFor(FirstDelayed), onFail |-> onFail]

\* The SET clauses of the six UPDATE statements: row is the row stored, seen
\* the copy from which the handler computed the command.  A definition marked
\* "mutant" is a bug the code does not have, to show that a property sees it.

\* mutant of DispatchedRow: the UPDATE forgets version = version + 1
DispatchedSameVersion(row) ==
    [row EXCEPT !.status = "DISPATCHED", !.sched = "ACTIVE"]

DispatchedRow(row) ==
    [row EXCEPT !.status = "DISPATCHED", !.version = @ + 1, !.sched = "ACTIVE"]

\* mutants of PermittedRow: no new version; the schedule left as it was
PermittedSameVersion(row) ==
    [row EXCEPT !.status = "BEING_PROCESSED", !.sched = "INACTIVE"]

PermittedScheduled(row) ==
    [row EXCEPT !.status = "BEING_PROCESSED", !.version = @ + 1]

PermittedRow(row) ==
    [row EXCEPT !.status = "BEING_PROCESSED", !.version = @ + 1,
                !.sched = "INACTIVE"]

NextAttemptRow(row, seen) ==
    [row EXCEPT !.status = "AWAITING_PROCESSING", !.version = @ + 1,
                !.left = seen.left - 1, !.failed = seen.failed + 1,
                !.sched = SchedFor(Delayed(seen.failed + 2))]

SucceededRow(row) ==
    [row EXCEPT !.status = "PROCESSED", !.version = @ + 1, !.sched = "INACTIVE"]

FailedRow(row, seen) ==
    [row EXCEPT !.status = "FAILED", !.version = @ + 1,
                !.failed = seen.failed + 1, !.sched = "INACTIVE"]

ActivatedRow(row) ==
    [row EXCEPT !.status = "AWAITING_PROCESSING", !.version = @ + 1,
                !.sched = "ACTIVE"]

-----------------------------------------------------------------------------
(* Goroutines.  pc names the call the goroutine makes next:                *)
(*   mark, activate                    a job's UPDATE                      *)
(*   dispatch                          a job's publish to the broker       *)
(*   permit, granted                   acquire: UPDATE, then the answer    *)
(*   working                           an adapter that holds the permit    *)
(*   succeed, retry, fail              success / failure: the UPDATE       *)
(*   spinoff, onfail, save             publishing: INSERT, then the payload*)
(*   error                             "max retries exceeded"              *)

Updating == {"mark", "activate", "permit", "succeed", "retry", "fail"}

PCs == Updating \cup {"idle", "dispatch", "granted", "working", "spinoff",
                      "onfail", "save", "error"}

Thread == [pc: PCs, ev: Events \cup {None}, seen: Row, tries: Nat, body: Body]

Idle == [pc |-> "idle", ev |-> None, seen |-> Absent, tries |-> 0,
         body |-> "data"]

\* Load row e, keep the copy, continue at p.
Load(t, e, p, b) ==
    thread' = [thread EXCEPT ![t] =
        [pc |-> p, ev |-> e, seen |-> event[e], tries |-> 0, body |-> b]]

\* Continue at p with event e and body b; the loaded copy is not used again.
Proceed(t, p, e, b) ==
    thread' = [thread EXCEPT ![t] =
        [Idle EXCEPT !.pc = p, !.ev = e, !.body = b]]

Return(t) == thread' = [thread EXCEPT ![t] = Idle]

\* mutant of Matches: the WHERE clause names the id alone
MatchesAlways(t) == TRUE

\* execOptimistic: the WHERE clause finds the row at the version loaded.
Matches(t) == event[thread[t].ev].version = thread[t].seen.version

Store(e, row) == event' = [event EXCEPT ![e] = row]

-----------------------------------------------------------------------------
Init ==
    /\ event = [e \in Events |-> Absent]
    /\ payload = [e \in Events |-> "none"]
    /\ msgs = {}
    /\ thread = [t \in Threads |-> Idle]
    /\ waiting = {}
    /\ expired = {}
    /\ errorLog = [e \in Events |-> 0]
    /\ cause = [e \in Events |-> [kind |-> "none", of |-> None]]

-----------------------------------------------------------------------------
(* Publishing.  Publish draws a fresh id, so the INSERT IGNORE always       *)
(* inserts; the payload is saved by a second call to another store.        *)

Create(t, e, onFail, why, b) ==
    /\ event[e] = Absent
    /\ Store(e, NewRow(onFail))
    /\ waiting' = IF FirstDelayed THEN waiting \cup {e} ELSE waiting
    /\ cause' = [cause EXCEPT ![e] = why]
    /\ Proceed(t, "save", e, b)
    /\ UNCHANGED <<payload, msgs, expired, errorLog>>

Publish(c, e) ==
    /\ thread[c].pc = "idle"
    /\ Cardinality({d \in Events : cause[d].kind = "client"}) < MaxPublished
    /\ \E onFail \in BOOLEAN :
           Create(c, e, onFail, [kind |-> "client", of |-> None], "data")

\* mutant of PublishSpinoff: the call is repeated, as if its answer had been lost
PublishSpinoffAgain(t, e) ==
    /\ thread[t].pc = "spinoff"
    /\ event[e] = Absent
    /\ Store(e, NewRow(FALSE))
    /\ cause' = [cause EXCEPT ![e] = [kind |-> "spinoff", of |-> thread[t].ev]]
    /\ UNCHANGED <<payload, msgs, thread, waiting, expired, errorLog>>

\* A follow-up event of a success; over REST it carries no on-fail type.
PublishSpinoff(t, e) ==
    /\ thread[t].pc = "spinoff"
    /\ \E onFail \in IF t \in Operators THEN BOOLEAN ELSE {FALSE} :
           Create(t, e, onFail, [kind |-> "spinoff", of |-> thread[t].ev],
                  thread[t].body)

\* The on-fail event copies the payload of the failed one, blank if it has none.
PublishOnFail(t, e) ==
    LET parent == thread[t].ev
    IN  /\ thread[t].pc = "onfail"
        /\ Create(t, e, FALSE, [kind |-> "onfail", of |-> parent],
                  IF payload[parent] = "none" THEN "blank" ELSE payload[parent])

SavePayload(t) ==
    /\ thread[t].pc = "save"
    /\ payload' = [payload EXCEPT ![thread[t].ev] = thread[t].body]
    /\ Return(t)
    /\ UNCHANGED <<event, msgs, waiting, expired, errorLog, cause>>

-----------------------------------------------------------------------------
(* The jobs.  A fetch copies the row; ProcessPendingEvent then skips an    *)
(* event whose type is suspended, which changes nothing here.              *)

Fetch(j, e, p) ==
    /\ thread[j].pc = "idle"
    /\ event[e].version < MaxVersion
    /\ Load(j, e, p, "data")
    /\ UNCHANGED <<event, payload, msgs, waiting, expired, errorLog, cause>>

FindPendingEvents(j, e) ==
    /\ event[e].status = "AWAITING_PROCESSING"
    /\ Fetch(j, e, "mark")

FindScheduledEvents(j, e) ==
    /\ event[e] # Absent
    /\ event[e].sched = "ACTIVE" /\ e \notin waiting
    /\ Fetch(j, e, "mark")

FindExpiredSuspendedEvents(j, e) ==
    /\ event[e] # Absent
    /\ event[e].sched = "SLEEPING" /\ e \notin waiting
    /\ Fetch(j, e, "activate")

MarkAsDispatched(t) ==
    LET e == thread[t].ev
    IN  /\ thread[t].pc = "mark" /\ Matches(t)
        /\ Store(e, DispatchedRow(event[e]))
        /\ thread' = [thread EXCEPT ![t].pc = "dispatch", ![t].tries = 0]
        /\ UNCHANGED <<payload, msgs, waiting, expired, errorLog, cause>>

\* LoadPayload, with {} in place of a payload that is missing or unreadable,
\* then the publish.  ver, the version the UPDATE left, tells messages apart.
Dispatch(t) ==
    LET e == thread[t].ev
    IN  /\ thread[t].pc = "dispatch"
        /\ e \notin expired
        /\ \E b \in Body :
              /\ b = payload[e] \/ (b = "blank" /\ (payload[e] = "none"
                                                    \/ "payload" \in FlakyStores))
              /\ msgs' = msgs \cup {[ev |-> e, ver |-> thread[t].seen.version + 1, body |-> b]}
        /\ Return(t)
        /\ UNCHANGED <<event, payload, waiting, expired, errorLog, cause>>

\* The dispatcher refuses an expired event: the job counts a failure.
DispatchExpired(t) ==
    /\ thread[t].pc = "dispatch"
    /\ thread[t].ev \in expired
    /\ Return(t)
    /\ UNCHANGED <<event, payload, msgs, waiting, expired, errorLog, cause>>

ActivateSuspended(t) ==
    LET e == thread[t].ev
    IN  /\ thread[t].pc = "activate" /\ Matches(t)
        /\ Store(e, ActivatedRow(event[e]))
        /\ Return(t)
        /\ UNCHANGED <<payload, msgs, waiting, expired, errorLog, cause>>

-----------------------------------------------------------------------------
(* The processing permit.                                                  *)

\* mutant of LoadForPermit: any event that exists goes on
LoadAnyForPermit(t, e, b) ==
    /\ thread[t].pc = "idle"
    /\ IF event[e] # Absent THEN Load(t, e, "permit", b) ELSE UNCHANGED thread
    /\ UNCHANGED <<event, payload, waiting, expired, errorLog, cause>>

\* TryAcquireProcessingPermit up to its UPDATE: only a DISPATCHED event goes on.
LoadForPermit(t, e, b) ==
    /\ thread[t].pc = "idle"
    /\ IF event[e].status = "DISPATCHED" THEN Load(t, e, "permit", b)
                                         ELSE UNCHANGED thread
    /\ UNCHANGED <<event, payload, waiting, expired, errorLog, cause>>

\* An adapter takes a message within its TTL and calls acquire.
HandleMessage(a, m) ==
    /\ LoadForPermit(a, m.ev, m.body)
    /\ msgs' = msgs \ {m}

AcquireProcessingPermit(t) ==
    LET e == thread[t].ev
    IN  /\ thread[t].pc = "permit" /\ Matches(t)
        /\ Store(e, PermittedRow(event[e]))
        /\ Proceed(t, "granted", e, thread[t].body)
        /\ UNCHANGED <<payload, msgs, waiting, expired, errorLog, cause>>

\* The permit is in the table; the answer says so only if the payload loads.
AnswerPermit(t) ==
    LET e == thread[t].ev
    IN  /\ thread[t].pc = "granted"
        /\ IF payload[e] = "none" THEN Proceed(t, "error", e, "data")
           ELSE IF t \in Adapters THEN Proceed(t, "working", e, thread[t].body)
           ELSE Return(t)
        /\ UNCHANGED <<event, payload, msgs, waiting, expired, errorLog, cause>>

-----------------------------------------------------------------------------
(* Reports.  Neither handler looks at the status of the row it loads.      *)

LoadForSuccess(t, e) ==
    /\ event[e] # Absent
    /\ Load(t, e, "succeed", thread[t].body)
    /\ UNCHANGED <<event, payload, msgs, waiting, expired, errorLog, cause>>

\* The error log is written before the UPDATE; a failed write is only logged.
LogFailure(e) ==
    \E n \in {errorLog[e] + 1} \cup
             (IF "errorlog" \in FlakyStores THEN {errorLog[e]} ELSE {}) :
        errorLog' = [errorLog EXCEPT ![e] = n]

\* mutant of LoadForFailure: >= 1 where the code compares with > 1
LoadForFailureOffByOne(t, e) ==
    /\ event[e] # Absent
    /\ LogFailure(e)
    /\ Load(t, e, IF event[e].left >= 1 /\ e \notin expired THEN "retry" ELSE "fail",
            thread[t].body)
    /\ UNCHANGED <<event, payload, msgs, waiting, expired, cause>>

\* mutant of LoadForFailure: attempts_left is not looked at
LoadForFailureUnlimited(t, e) ==
    /\ event[e] # Absent
    /\ LogFailure(e)
    /\ Load(t, e, IF e \notin expired THEN "retry" ELSE "fail", thread[t].body)
    /\ UNCHANGED <<event, payload, msgs, waiting, expired, cause>>

\* mutant of LoadForFailure: only the last failure is logged
LoadForFailureLogsLast(t, e) ==
    LET last == event[e].left <= 1 \/ e \in expired
    IN  /\ event[e] # Absent
        /\ IF last THEN LogFailure(e) ELSE UNCHANGED errorLog
        /\ Load(t, e, IF last THEN "fail" ELSE "retry", thread[t].body)
        /\ UNCHANGED <<event, payload, msgs, waiting, expired, cause>>

\* The entry in the log, then the choice between another attempt and the end.
LoadForFailure(t, e) ==
    /\ event[e] # Absent
    /\ LogFailure(e)
    /\ Load(t, e, IF event[e].left > 1 /\ e \notin expired THEN "retry" ELSE "fail",
            thread[t].body)
    /\ UNCHANGED <<event, payload, msgs, waiting, expired, cause>>

\* An adapter reports once, for the event it holds.
Report(a) ==
    /\ thread[a].pc = "working"
    /\ LoadForSuccess(a, thread[a].ev) \/ LoadForFailure(a, thread[a].ev)

MarkAsSucceeded(t) ==
    LET e == thread[t].ev
    IN  /\ thread[t].pc = "succeed" /\ Matches(t)
        /\ Store(e, SucceededRow(event[e]))
        /\ Return(t) \/ Proceed(t, "spinoff", e, thread[t].body)
        /\ UNCHANGED <<payload, msgs, waiting, expired, errorLog, cause>>

SwitchToNextAttempt(t) ==
    LET e    == thread[t].ev
        seen == thread[t].seen
    IN  /\ thread[t].pc = "retry" /\ Matches(t)
        /\ Store(e, NextAttemptRow(event[e], seen))
        /\ waiting' = IF Delayed(seen.failed + 2) THEN waiting \cup {e}
                                                     ELSE waiting \ {e}
        /\ Return(t)
        /\ UNCHANGED <<payload, msgs, expired, errorLog, cause>>

MarkAsFailed(t) ==
    LET e    == thread[t].ev
        seen == thread[t].seen
    IN  /\ thread[t].pc = "fail" /\ Matches(t)
        /\ Store(e, FailedRow(event[e], seen))
        /\ IF seen.onFail THEN Proceed(t, "onfail", e, "data") ELSE Return(t)
        /\ UNCHANGED <<payload, msgs, waiting, expired, errorLog, cause>>

AcquireCall(o, e) == LoadForPermit(o, e, "data") /\ UNCHANGED msgs

SuccessCall(o, e) == LoadForSuccess(o, e)

FailureCall(o, e) == LoadForFailure(o, e) /\ errorLog[e] < MaxLogs

\* An operator calls acquire, success or failure, over REST or MCP, for
\* whatever id it likes.
OperatorCall(o, e) ==
    /\ thread[o].pc = "idle"
    /\ event[e].version < MaxVersion
    /\ AcquireCall(o, e) \/ SuccessCall(o, e) \/ FailureCall(o, e)

-----------------------------------------------------------------------------
(* Races, failures and time.                                               *)

\* mutant of RaceLost: withRetry repeats the command after any error
RepeatAnyError(t) ==
    /\ thread[t].pc \in Updating
    /\ IF thread[t].tries + 1 < MaxRetries
         THEN thread' = [thread EXCEPT ![t].tries = @ + 1]
         ELSE Proceed(t, "error", thread[t].ev, "data")
    /\ UNCHANGED <<event, payload, msgs, waiting, expired, errorLog, cause>>

\* No row at that version: withRetry repeats the same command, version and
\* all, and gives up after maxRetries.
RaceLost(t) ==
    /\ thread[t].pc \in Updating /\ ~Matches(t)
    /\ IF thread[t].tries + 1 < MaxRetries
         THEN thread' = [thread EXCEPT ![t].tries = @ + 1]
         ELSE Proceed(t, "error", thread[t].ev, "data")
    /\ UNCHANGED <<event, payload, msgs, waiting, expired, errorLog, cause>>

\* The error is logged by a job, answered with status 500 to a caller.
ReturnError(t) ==
    /\ thread[t].pc = "error"
    /\ Return(t)
    /\ UNCHANGED <<event, payload, msgs, waiting, expired, errorLog, cause>>

\* A failed store or broker call, a canceled context, a panic, the end of the
\* process: the goroutine is gone, with all it had still to do.
Abort(t) ==
    /\ thread[t].pc # "idle"
    /\ Return(t)
    /\ UNCHANGED <<event, payload, msgs, waiting, expired, errorLog, cause>>

\* An engine restart empties an in-memory payload store and ends every call.
Restart ==
    /\ MemoryStore
    /\ payload' = [e \in Events |-> "none"]
    /\ thread' = [t \in Threads |->
                     IF thread[t].pc = "working" THEN thread[t] ELSE Idle]
    /\ UNCHANGED <<event, msgs, waiting, expired, errorLog, cause>>

\* Core NATS delivers at most once; the subscriber drops a message past its TTL.
LoseMessage(m) ==
    /\ msgs' = msgs \ {m}
    /\ UNCHANGED <<event, payload, thread, waiting, expired, errorLog, cause>>

AttemptComesDue(e) ==
    /\ e \in waiting
    /\ waiting' = waiting \ {e}
    /\ UNCHANGED <<event, payload, msgs, thread, expired, errorLog, cause>>

EventExpires(e) ==
    /\ event[e] # Absent /\ e \notin expired
    /\ expired' = expired \cup {e}
    /\ UNCHANGED <<event, payload, msgs, thread, waiting, errorLog, cause>>

-----------------------------------------------------------------------------
JobStep(j) ==
    \/ \E e \in Events : \/ FindPendingEvents(j, e)
                         \/ FindScheduledEvents(j, e)
                         \/ FindExpiredSuspendedEvents(j, e)
    \/ MarkAsDispatched(j)
    \/ Dispatch(j)
    \/ DispatchExpired(j)
    \/ ActivateSuspended(j)

CallStep(t) ==
    \/ AcquireProcessingPermit(t)
    \/ AnswerPermit(t)
    \/ MarkAsSucceeded(t)
    \/ SwitchToNextAttempt(t)
    \/ MarkAsFailed(t)
    \/ \E e \in Events : PublishSpinoff(t, e) \/ PublishOnFail(t, e)
    \/ SavePayload(t)

Environment ==
    \/ \E t \in Threads : Abort(t)
    \/ Restart
    \/ \E m \in msgs : LoseMessage(m)
    \/ \E e \in Events : AttemptComesDue(e) \/ EventExpires(e)

Next ==
    \/ \E j \in Jobs : JobStep(j)
    \/ \E t \in Threads : CallStep(t) \/ RaceLost(t) \/ ReturnError(t)
    \/ \E a \in Adapters : Report(a) \/ \E m \in msgs : HandleMessage(a, m)
    \/ \E c \in Clients, e \in Events : Publish(c, e)
    \/ \E o \in Operators, e \in Events : OperatorCall(o, e)
    \/ Environment

Spec == Init /\ [][Next]_vars

-----------------------------------------------------------------------------
(* Properties.                                                             *)

\* Every variable keeps its type; in particular attempts_left, computed from
\* a loaded copy as attempts_left - 1, never drops below zero.
TypeOK ==
    /\ event \in [Events -> Row]
    /\ payload \in [Events -> {"none"} \cup Body]
    /\ msgs \subseteq Message
    /\ thread \in [Threads -> Thread]
    /\ waiting \subseteq Events
    /\ expired \subseteq Events
    /\ errorLog \in [Events -> Nat]
    /\ cause \in [Events -> Cause]

\* What "WHERE version = ?" relies on: a copy held across the gap between SELECT
\* and UPDATE is never newer than the row, and equals it if the versions agree.
SnapshotCoherent ==
    \A t \in Threads : thread[t].pc \in Updating =>
        LET row  == event[thread[t].ev]
            seen == thread[t].seen
        IN  /\ seen.status # "ABSENT"
            /\ seen.version <= row.version
            /\ seen.version = row.version => seen = row

\* A caller that has repeated a lost update can only lose again: withRetry
\* sends the version it loaded first, and the row has moved past it.
RetriesAreFutile ==
    \A t \in Threads : thread[t].pc \in Updating /\ thread[t].tries > 0 =>
        thread[t].seen.version < event[thread[t].ev].version

\* No scheduler can see an event that is being processed or finished, and only
\* an event behind its delay sleeps -- whoever calls the API, in any order.
ScheduleMatchesStatus ==
    \A e \in Events :
        /\ event[e].sched = "ACTIVE" =>
               event[e].status \in {"AWAITING_PROCESSING", "DISPATCHED"}
        /\ event[e].sched = "SLEEPING" => event[e].status = "AWAITING_PROCESSING"

\* The callers that hold the processing permit of e: from the UPDATE that
\* took it until the UPDATE that reports the outcome.
Holding == {"granted", "working", "succeed", "retry", "fail"}

Holders(e) == {t \in Threads : thread[t].ev = e /\ thread[t].pc \in Holding}

\* However often an event is dispatched and redelivered, at most one caller
\* holds its permit, and the row says BEING_PROCESSED until that one reports.
PermitExclusive ==
    \A e \in Events :
        /\ \A a, b \in Holders(e) : a = b
        /\ Holders(e) # {} => event[e].status = "BEING_PROCESSED"

\* A report of the permit holder never loses a race: nobody moves the row
\* between the report's SELECT and its UPDATE, so no outcome is dropped.
NoReportLost ==
    \A t \in Threads : thread[t].pc \in {"succeed", "retry", "fail"} =>
        thread[t].seen = event[thread[t].ev]

\* Each attempt is counted once, whatever is lost or repeated: left and failed
\* add up to max_attempts, and an event fails with an attempt still left over
\* (the failing UPDATE writes attempts_failed but not attempts_left).
AttemptsAccounted ==
    \A e \in Events : event[e] # Absent =>
        /\ event[e].left >= 1
        /\ event[e].left + event[e].failed =
               IF event[e].status = "FAILED" THEN MaxAttempts + 1 ELSE MaxAttempts

\* An event has at most one follow-up: a spinoff only once it is PROCESSED, an
\* on-fail event only once it is FAILED, never both and none of them twice.
Consequences ==
    \A e, c \in Events : cause[c].of = e =>
        /\ \/ cause[c].kind = "spinoff" /\ event[e].status = "PROCESSED"
           \/ cause[c].kind = "onfail" /\ event[e].status = "FAILED"
        /\ \A d \in Events : cause[d].of = e => d = c

\* Every failed attempt left a row in event_error_log, unless that store fails.
FailedAttemptsLogged ==
    "errorlog" \notin FlakyStores =>
        \A e \in Events : event[e].failed <= errorLog[e]

\* A PROCESSED or FAILED event never changes again.
TerminalIsFinal ==
    [][\A e \in Events : IsFinal(event[e].status) => event'[e] = event[e]]_vars

\* The attempts begun on an event: one for each failure on record, one more if
\* the event is being processed or was processed.
AttemptsBegun(row) ==
    row.failed + (IF row.status \in {"BEING_PROCESSED", "PROCESSED"} THEN 1 ELSE 0)

StateMachine == INSTANCE EventStateMachine WITH
    status   <- [e \in Events |-> event[e].status],
    attempts <- [e \in Events |-> AttemptsBegun(event[e])]

\* Every behaviour of the engine is one of the state machine.
ImplementsStateMachine == StateMachine!Spec

=============================================================================
