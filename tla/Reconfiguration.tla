--------------------------- MODULE Reconfiguration ---------------------------
(***************************************************************************)
(* An event whose type is reconfigured, suspended and resumed under it.    *)
(* The calls of the lifecycle service read the configuration through the   *)
(* caches of EventConfig and act on the copy they were given, however old  *)
(* it is by then.  One event is enough: events share nothing but their     *)
(* configuration.  As in Rides a copy of the row that has become old can   *)
(* change nothing any more, so versions are left out.                      *)
(***************************************************************************)
EXTENDS EventConfig, Integers

CONSTANTS
    Jobs,        \* the callers that are job goroutines
    Operators,   \* the callers that change the configuration; the others
                 \* publish events or process them
    MaxOf        \* MaxOf[w]: the max_attempts that write w of the settings sets;
                 \* the tool takes any int, and so does the column

ASSUME ReconfigurationOK ==
    /\ Jobs \subseteq Callers /\ Operators \subseteq Callers /\ Jobs \cap Operators = {}
    /\ MaxOf \in [1 .. MaxWrites -> Int]

VARIABLES
    event,    \* status, attempts left and attempts failed of the row
    task,     \* task[c]: the call c is in, and whether its copy is still current
    sent,     \* a message that says DISPATCHED is on its way to an adapter
    held,     \* an adapter has the permit and has not reported yet
    budget,   \* history: max_attempts when the event was published
    begun,    \* history: permits granted
    lost      \* history: what has kept the event from being reported on

evars == <<event, task, sent, held, budget, begun, lost>>
rvars == <<vars, evars>>

NoTask == [op |-> "none", current |-> FALSE]

Absent == [status |-> "ABSENT", left |-> 0, failed |-> 0]

RInit ==
    /\ Init
    /\ event = Absent /\ task = [c \in Callers |-> NoTask]
    /\ sent = FALSE /\ held = FALSE /\ budget = 0 /\ begun = 0 /\ lost = {}

\* The row is read, then the configuration.
Begin(c, op) ==
    /\ Get(c)
    /\ task' = [task EXCEPT ![c] = [op |-> op, current |-> TRUE]]

\* The call is over; the row was not updated.
Leave(c) ==
    /\ task' = [task EXCEPT ![c] = NoTask]
    /\ UNCHANGED event

\* UPDATE ... WHERE version = the one read; every other copy is old from now on.
Update(c, new) ==
    /\ task[c].current
    /\ event' = new
    /\ task' = [d \in Callers |-> IF d = c THEN NoTask ELSE [task[d] EXCEPT !.current = FALSE]]

\* MaxAttempts of the configuration c was given, by which lifespans are divided.
MaxAttemptsGiven(c) == MaxOf[call[c].value.settings]

-----------------------------------------------------------------------------
(* The calls begin.                                                        *)

BeginPublish(c) ==
    /\ event = Absent /\ \A d \in Callers : task[d].op # "publish"
    /\ Begin(c, "publish")
    /\ UNCHANGED <<event, sent, held, budget, begun, lost>>

BeginDispatch(c) ==
    /\ event.status \in {"AWAITING_PROCESSING", "DISPATCHED"}
    /\ Begin(c, "dispatch")
    /\ UNCHANGED <<event, sent, held, budget, begun, lost>>

BeginAcquire(c) ==
    /\ sent /\ sent' = FALSE
    /\ event.status = "DISPATCHED"
    /\ Begin(c, "acquire")
    /\ UNCHANGED <<event, held, budget, begun, lost>>

\* The adapter reports once, whatever comes of it.
BeginFailure(c) ==
    /\ held
    /\ Begin(c, "failure")
    /\ held' = FALSE
    /\ UNCHANGED <<event, sent, budget, begun, lost>>

\* ReportSuccess reads no configuration.
ReportSuccess ==
    /\ held /\ held' = FALSE
    /\ event' = [event EXCEPT !.status = "PROCESSED"]
    /\ task' = [c \in Callers |-> [task[c] EXCEPT !.current = FALSE]]
    /\ UNCHANGED <<vars, sent, budget, begun, lost>>

\* The adapter dies, or its report does not reach the engine or ends there in an
\* error: the row cannot be read, or a success cannot be written.
LoseReport ==
    /\ held /\ held' = FALSE
    /\ lost' = lost \cup {"report"}
    /\ UNCHANGED <<vars, event, task, sent, budget, begun>>

-----------------------------------------------------------------------------
(* What they do with the configuration they are given, or without one.     *)

\* EventLifespanSeconds / MaxAttempts panics before anything is written, if
\* max_attempts is 0; the middleware recovers.
Publish(c) ==
    /\ task[c].op = "publish" /\ Use(c)
    /\ IF MaxAttemptsGiven(c) = 0 THEN Leave(c) /\ UNCHANGED budget
       ELSE /\ Update(c, [status |-> "AWAITING_PROCESSING", left |-> MaxAttemptsGiven(c), failed |-> 0])
            /\ budget' = MaxAttemptsGiven(c)
    /\ UNCHANGED <<sent, held, begun, lost>>

\* mutant of ProcessPendingEvent: the suspension is not looked at
ProcessSuspendedEvent(c) ==
    /\ task[c].op = "dispatch" /\ Use(c)
    /\ \/ Update(c, [event EXCEPT !.status = "DISPATCHED"]) /\ sent' = TRUE
       \/ ~task[c].current /\ Leave(c) /\ UNCHANGED sent
    /\ UNCHANGED <<held, budget, begun, lost>>

ProcessPendingEvent(c) ==
    /\ task[c].op = "dispatch" /\ Use(c)
    /\ \/ /\ ~call[c].value.suspended
          /\ Update(c, [event EXCEPT !.status = "DISPATCHED"])
          /\ sent' = TRUE
       \/ (call[c].value.suspended \/ ~task[c].current) /\ Leave(c) /\ UNCHANGED sent
    /\ UNCHANGED <<held, budget, begun, lost>>

\* The adapter has the permit only if it is told so: after the UPDATE the payload
\* and the row are loaded, and the answer sent.
Acquire(c) ==
    /\ task[c].op = "acquire" /\ Use(c)
    /\ \/ /\ MaxAttemptsGiven(c) # 0
          /\ Update(c, [event EXCEPT !.status = "BEING_PROCESSED"])
          /\ begun' = begun + 1
          /\ \/ held' = TRUE /\ UNCHANGED lost
             \/ lost' = lost \cup {"answer"} /\ UNCHANGED held
       \/ (MaxAttemptsGiven(c) = 0 \/ ~task[c].current) /\ Leave(c) /\ UNCHANGED <<held, begun, lost>>
    /\ UNCHANGED <<sent, budget>>

\* mutant of NextAttempt: what is left is computed from the configuration
NextAttemptOfConfig(c) ==
    [status |-> "AWAITING_PROCESSING", failed |-> event.failed + 1,
     left |-> IF MaxAttemptsGiven(c) > event.failed THEN MaxAttemptsGiven(c) - event.failed - 1 ELSE 0]

NextAttempt(c) ==
    [status |-> "AWAITING_PROCESSING", left |-> event.left - 1, failed |-> event.failed + 1]

\* mutant of ReportFailure: a suspended type is left alone
ReportFailureUnlessSuspended(c) ==
    /\ task[c].op = "failure" /\ Use(c)
    /\ \/ call[c].value.suspended /\ Leave(c) /\ UNCHANGED lost
       \/ Update(c, NextAttempt(c)) /\ UNCHANGED lost
    /\ UNCHANGED <<sent, held, budget, begun>>

\* Another attempt, or the end of the event: its attempts are used up or its
\* deadline has passed.  Only another attempt needs the division.
ReportFailure(c) ==
    /\ task[c].op = "failure" /\ Use(c)
    /\ \/ /\ event.left > 1 /\ MaxAttemptsGiven(c) # 0
          /\ Update(c, NextAttempt(c))
          /\ UNCHANGED lost
       \/ /\ event.left > 1 /\ MaxAttemptsGiven(c) = 0
          /\ Leave(c)
          /\ lost' = lost \cup {"division"}
       \/ /\ Update(c, [event EXCEPT !.status = "FAILED", !.failed = @ + 1])
          /\ UNCHANGED lost
    /\ UNCHANGED <<sent, held, budget, begun>>

\* ErrConfigNotFound: the call ends where it would have read the configuration.
NotConfigured(c) ==
    /\ Find(c) /\ row = NoRow
    /\ Leave(c)
    /\ UNCHANGED <<sent, held, budget, begun, lost>>

\* The call goes on to its UPDATE, which would take effect.
WouldUpdate(c) ==
    /\ task[c].current
    /\ task[c].op = "dispatch" => ~call[c].value.suspended
    /\ task[c].op \in {"publish", "acquire"} => MaxAttemptsGiven(c) # 0

\* A query or an UPDATE fails, which withRetry does not repeat: the call ends.
DatabaseFails(c) ==
    /\ (FindFails(c) /\ row # NoRow) \/ (Use(c) /\ WouldUpdate(c))
    /\ Leave(c)
    /\ lost' = IF task[c].op = "failure" THEN lost \cup {"database"} ELSE lost
    /\ UNCHANGED <<sent, held, budget, begun>>

\* LoadConfig goes on.
Load(c) ==
    /\ Evict(c) \/ (Find(c) /\ row # NoRow) \/ Set(c) \/ Delete(c)
    /\ UNCHANGED evars

-----------------------------------------------------------------------------
\* The operator's calls, by MCP or REST.
Reconfigure(c) ==
    /\ UpdateConfig(c) \/ \E b \in BOOLEAN : UpdateSuspensionState(c, b)
    /\ UNCHANGED evars

Crash(n) ==
    /\ Restart(n)
    /\ task' = [c \in Callers |-> IF EngineOf[c] = n THEN NoTask ELSE task[c]]
    /\ lost' = IF \E c \in Callers : EngineOf[c] = n /\ task[c].op = "failure"
                 THEN lost \cup {"crash"} ELSE lost
    /\ UNCHANGED <<event, sent, held, budget, begun>>

\* Never sent, lost by the broker, discarded past its TTL, or for an event that is no
\* longer DISPATCHED.
LoseMessage ==
    /\ sent /\ sent' = FALSE
    /\ UNCHANGED <<vars, event, task, held, budget, begun, lost>>

Complete(c) ==
    \/ Load(c) \/ NotConfigured(c) \/ DatabaseFails(c)
    \/ Publish(c) \/ ProcessPendingEvent(c) \/ Acquire(c) \/ ReportFailure(c)

RNext ==
    \/ \E c \in Callers : Complete(c)
    \/ \E c \in Jobs : BeginDispatch(c)
    \/ \E c \in Callers \ (Jobs \cup Operators) :
          BeginPublish(c) \/ BeginAcquire(c) \/ BeginFailure(c)
    \/ \E c \in Operators : Reconfigure(c)
    \/ ReportSuccess \/ LoseReport \/ LoseMessage
    \/ \E n \in Engines : Crash(n) \/ (Expire(n) /\ UNCHANGED evars)

RSpec == RInit /\ [][RNext]_rvars

\* Calls that have begun go on, entries expire, jobs tick.
RFairness ==
    /\ \A c \in Callers : WF_rvars(Complete(c))
    /\ \A c \in Jobs : WF_rvars(BeginDispatch(c))
    /\ \A n \in Engines : WF_rvars(Expire(n) /\ UNCHANGED evars)

RFairSpec == RSpec /\ RFairness

-----------------------------------------------------------------------------
(* Properties.                                                             *)

\* An event is given the attempts its configuration allowed when it was
\* published -- one if that is a negative number --, and every attempt begun is
\* failed, under way or the last one, whatever the configuration has become since.
AttemptsFixedAtPublication ==
    event # Absent =>
        /\ begun <= budget \/ begun <= 1
        /\ begun = event.failed + (IF event.status \in {"BEING_PROCESSED", "PROCESSED"} THEN 1 ELSE 0)
        /\ event.status # "FAILED" => event.left + event.failed = budget

\* The calls that are about to record a failed attempt.
Failing == {c \in Callers : task[c].op = "failure" /\ task[c].current}

\* An event is under way exactly as long as one of three things is true: an
\* adapter holds it; a call is about to record its failure; or report or permit
\* were lost, and then nobody else ever moves it.  They are lost to an adapter,
\* engine or database that fails, or to a division by the zero attempts of a
\* configuration set since the event was published -- not to a suspension, a
\* stale or missing configuration or a race.
LostForCause ==
    /\ event.status = "BEING_PROCESSED" <=> held \/ Failing # {} \/ lost # {}
    /\ held => Failing = {} /\ lost = {}
    /\ Failing # {} => lost = {}

\* Only an operator's call changes a configuration or resumes a type: engines
\* that start, in whatever state the others are, apply the seeds in vain.
OnlyOperatorsReconfigure ==
    [][row # NoRow /\ row' # row =>
          \E c \in Operators : call[c].pc = "idle" /\ Reconfigure(c)]_rvars

\* A type that stays suspended is not dispatched any more once the entries that
\* say otherwise have expired, on whatever instance the jobs run.
SuspensionTakesEffect ==
    <>[](row # NoRow /\ row.suspended) => <>[][sent' => sent]_rvars

\* Once resumed, the events that have waited are dispatched, if neither engines
\* nor queries and updates fail again and again.
ResumedIsDispatched ==
    (/\ <>[](~row.suspended)
     /\ <>[][\A n \in Engines : ~Crash(n)]_rvars
     /\ <>[][\A c \in Callers : ~DatabaseFails(c)]_rvars)
    => (event.status = "AWAITING_PROCESSING" ~> event.status # "AWAITING_PROCESSING")
=============================================================================
