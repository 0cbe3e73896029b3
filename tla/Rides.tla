-------------------------------- MODULE Rides --------------------------------
(***************************************************************************)
(* A ride from its request to its end: the client, the jobs that dispatch  *)
(* its events, the broker, the adapters that process them and name the     *)
(* next step as a spinoff, and what may go wrong on the way.  EventLifecycle *)
(* shows that the optimistic lock is safe; here the question is what gets  *)
(* through.  So versions are gone: a goroutine whose copy has become old is  *)
(* lost at once, since its UPDATE can find no row any more (RetriesAreFutile *)
(* of EventLifecycle).  That keeps the state finite.                       *)
(*                                                                         *)
(* The delays of the configured rides are read as zero (the seeds name them *)
(* delay_seconds, the model delay_before_attempt_seconds), so no event of a *)
(* ride sleeps and its schedule state follows from its status.             *)
(***************************************************************************)
EXTENDS Naturals, Sequences, FiniteSets

CONSTANTS
    Adapters,   \* subscribers of the queue group
    First,      \* the type of the first event (a ride may be begun anywhere)
    MaxEvents,  \* bound on the events of a ride, more than it has steps
    MaxMsgs,    \* bound on the messages in flight; the broker drops others
    MaxFaults   \* bound on what may go wrong in a ride, once each

\* rideSteps, the same in the embedded adapter and in the stub.
NextStep ==
    [RIDE_REQUESTED    |-> "DRIVER_MATCHED",
     DRIVER_MATCHED    |-> "DRIVER_ARRIVED",
     DRIVER_ARRIVED    |-> "TRIP_STARTED",
     TRIP_STARTED      |-> "TRIP_COMPLETED",
     TRIP_COMPLETED    |-> "PAYMENT_PROCESSED",
     PAYMENT_PROCESSED |-> ""]

\* failChance > 0
MayFail == {"RIDE_REQUESTED", "DRIVER_MATCHED", "DRIVER_ARRIVED", "PAYMENT_PROCESSED"}

\* The max_attempts the migrations seed.
MaxAttempts ==
    [RIDE_REQUESTED |-> 3, DRIVER_MATCHED |-> 3, DRIVER_ARRIVED |-> 2,
     TRIP_STARTED |-> 1, TRIP_COMPLETED |-> 1, PAYMENT_PROCESSED |-> 3]

ASSUME RidesOK ==
    /\ First \in DOMAIN NextStep
    /\ \A t \in DOMAIN NextStep : NextStep[t] \in DOMAIN NextStep \cup {""}
    /\ MayFail \subseteq DOMAIN NextStep
    /\ MaxEvents \in Nat /\ MaxMsgs \in Nat /\ MaxFaults \in Nat

Jobs    == {"awaiting", "scheduled"}
Client  == "client"
Threads == Jobs \cup Adapters \cup {Client}
Events  == 1 .. MaxEvents      \* in the order they are published

VARIABLES
    event,     \* event[e]: type, status and attempts_left of the row
    payload,   \* payload[e]: none, data or blank
    msgs,      \* messages in flight
    thread,    \* thread[t]: control point and locals of goroutine t
    expired,   \* events past their deadline
    faults,    \* what has gone wrong so far
    early      \* history: events dispatched when no payload was saved for them

vars == <<event, payload, msgs, thread, expired, faults, early>>

Absent  == [type |-> "", status |-> "ABSENT", left |-> 0]
Message == [ev: Events, body: {"data", "blank"}, copy: 1 .. MaxMsgs]

\* pc as in EventLifecycle; "lost": the row has moved on since it was read
Idle == [pc |-> "idle", ev |-> 0, body |-> "data"]
Lost == [Idle EXCEPT !.pc = "lost"]

Published == {e \in Events : event[e] # Absent}

Init ==
    /\ event = [e \in Events |-> Absent]
    /\ payload = [e \in Events |-> "none"]
    /\ msgs = {}
    /\ thread = [t \in Threads |-> Idle]
    /\ expired = {} /\ faults = {} /\ early = {}

-----------------------------------------------------------------------------
\* Read row e, go on at p.
Load(t, e, p, b) ==
    thread' = [thread EXCEPT ![t] = [pc |-> p, ev |-> e, body |-> b]]

Updating == {"mark", "permit", "succeed", "retry", "fail"}

\* UPDATE ... WHERE version = the one read: t goes on at p, and every other
\* goroutine that is about to update the row has lost.
Update(t, row, p) ==
    LET e == thread[t].ev
    IN  /\ event' = [event EXCEPT ![e] = row]
        /\ thread' = [u \in Threads |->
               IF u = t THEN IF p = "idle" THEN Idle ELSE [thread[t] EXCEPT !.pc = p]
               ELSE IF thread[u].ev = e /\ thread[u].pc \in Updating THEN Lost
               ELSE thread[u]]

\* The row of the next event to be published; its payload is saved next.
Create(t, type, b) ==
    LET e == Cardinality(Published) + 1
    IN  /\ e \in Events
        /\ event' = [event EXCEPT ![e] = [type |-> type, left |-> MaxAttempts[type],
                                          status |-> "AWAITING_PROCESSING"]]
        /\ thread' = [thread EXCEPT ![t] = [pc |-> "save", ev |-> e, body |-> b]]
        /\ UNCHANGED <<payload, msgs, expired, faults, early>>

\* requestRide posts the first event of a new flow id.
RequestRide ==
    /\ Published = {} /\ thread[Client].pc = "idle"
    /\ Create(Client, First, "data")

SavePayload(t) ==
    /\ thread[t].pc = "save"
    /\ payload' = [payload EXCEPT ![thread[t].ev] = thread[t].body]
    /\ thread' = [thread EXCEPT ![t] = Idle]
    /\ UNCHANGED <<event, msgs, expired, faults, early>>

-----------------------------------------------------------------------------
(* Jobs.                                                                   *)

\* mutant of Selects: a dispatched event is not looked at again
SelectsAwaiting(j, e) == event[e].status = "AWAITING_PROCESSING"

\* The awaiting job selects by status, the scheduled one all that is ACTIVE.
Selects(j, e) ==
    \/ event[e].status = "AWAITING_PROCESSING"
    \/ event[e].status = "DISPATCHED" /\ j = "scheduled"

Fetch(j, e) ==
    /\ thread[j].pc = "idle" /\ Selects(j, e)
    /\ Load(j, e, "mark", "data")
    /\ UNCHANGED <<event, payload, msgs, expired, faults, early>>

MarkAsDispatched(j) ==
    /\ thread[j].pc = "mark"
    /\ Update(j, [event[thread[j].ev] EXCEPT !.status = "DISPATCHED"], "dispatch")
    /\ UNCHANGED <<payload, msgs, expired, faults, early>>

\* Equal messages are told apart by a number.
Copies(e, b) == {n \in 1 .. MaxMsgs : [ev |-> e, body |-> b, copy |-> n] \notin msgs}

\* Nothing is sent past the deadline.
Send(j, b) ==
    LET e == thread[j].ev
    IN  /\ thread[j].pc = "dispatch"
        /\ IF e \in expired \/ Cardinality(msgs) = MaxMsgs THEN UNCHANGED msgs
           ELSE msgs' = msgs \cup {[ev |-> e, body |-> b,
                                   copy |-> CHOOSE n \in Copies(e, b) : TRUE]}
        /\ thread' = [thread EXCEPT ![j] = Idle]
        /\ early' = IF payload[e] = "none" THEN early \cup {e} ELSE early
        /\ UNCHANGED <<event, payload, expired>>

\* {} in place of a payload that is not there yet.
Dispatch(j) ==
    LET body == payload[thread[j].ev]
    IN  Send(j, IF body = "none" THEN "blank" ELSE body) /\ UNCHANGED faults

-----------------------------------------------------------------------------
(* Adapters, each with the handler that serves its call.                   *)

\* mutant of HandleMessage: the answer "not acquired" is not looked at
HandleAnyMessage(a, m) ==
    /\ thread[a].pc = "idle"
    /\ msgs' = msgs \ {m}
    /\ Load(a, m.ev, IF event[m.ev].status = "DISPATCHED" THEN "permit" ELSE "working", m.body)
    /\ UNCHANGED <<event, payload, expired, faults, early>>

\* One message at a time; acquire refuses an event that is not DISPATCHED.
HandleMessage(a, m) ==
    /\ thread[a].pc = "idle"
    /\ msgs' = msgs \ {m}
    /\ IF event[m.ev].status = "DISPATCHED" THEN Load(a, m.ev, "permit", m.body)
                                            ELSE UNCHANGED thread
    /\ UNCHANGED <<event, payload, expired, faults, early>>

AcquireProcessingPermit(a) ==
    /\ thread[a].pc = "permit"
    /\ Update(a, [event[thread[a].ev] EXCEPT !.status = "BEING_PROCESSED"], "granted")
    /\ UNCHANGED <<payload, msgs, expired, faults, early>>

\* Without a payload the answer is an error, and the adapter gives up.
AnswerPermit(a) ==
    /\ thread[a].pc = "granted"
    /\ thread' = [thread EXCEPT ![a] = IF payload[thread[a].ev] = "none" THEN Idle
                                      ELSE [@ EXCEPT !.pc = "working"]]
    /\ UNCHANGED <<event, payload, msgs, expired, faults, early>>

\* The work is done: the handler of the report reads the row.
Work(a) ==
    LET e == thread[a].ev
    IN  /\ thread[a].pc = "working"
        /\ \/ Load(a, e, "succeed", thread[a].body)
           \/ /\ event[e].type \in MayFail
              /\ Load(a, e, IF event[e].left > 1 /\ e \notin expired THEN "retry" ELSE "fail",
                      thread[a].body)
        /\ UNCHANGED <<event, payload, msgs, expired, faults, early>>

\* A message for an event that is settled is answered "not acquired" and has no
\* effect; it is not kept.
Without(e) == {m \in msgs : m.ev # e}

\* mutant of ReportSuccess: no follow-up once the deadline has passed
ReportSuccessInTime(a) ==
    LET row == event[thread[a].ev]
    IN  /\ thread[a].pc = "succeed"
        /\ Update(a, [row EXCEPT !.status = "PROCESSED"],
                  IF NextStep[row.type] = "" \/ thread[a].ev \in expired THEN "idle" ELSE "spinoff")
        /\ msgs' = Without(thread[a].ev)
        /\ UNCHANGED <<payload, expired, faults, early>>

ReportSuccess(a) ==
    LET row == event[thread[a].ev]
    IN  /\ thread[a].pc = "succeed"
        /\ Update(a, [row EXCEPT !.status = "PROCESSED"],
                  IF NextStep[row.type] = "" THEN "idle" ELSE "spinoff")
        /\ msgs' = Without(thread[a].ev)
        /\ UNCHANGED <<payload, expired, faults, early>>

\* mutant of PublishSpinoff: the payload is left out
PublishSpinoffEmpty(a) ==
    /\ thread[a].pc = "spinoff"
    /\ Create(a, NextStep[event[thread[a].ev].type], "blank")

\* The next event of the ride, with the payload the message carried.
PublishSpinoff(a) ==
    /\ thread[a].pc = "spinoff"
    /\ Create(a, NextStep[event[thread[a].ev].type], thread[a].body)

ReportFailure(a) ==
    LET row == event[thread[a].ev]
    IN  /\ \/ /\ thread[a].pc = "retry"
              /\ Update(a, [row EXCEPT !.status = "AWAITING_PROCESSING", !.left = @ - 1], "idle")
              /\ UNCHANGED msgs
           \/ /\ thread[a].pc = "fail"
              /\ Update(a, [row EXCEPT !.status = "FAILED"], "idle")
              /\ msgs' = Without(thread[a].ev)
        /\ UNCHANGED <<payload, expired, faults, early>>

-----------------------------------------------------------------------------
(* What goes wrong.                                                        *)

\* withRetry repeats the UPDATE in vain and ends in an error.
RaceLost(t) ==
    /\ thread[t].pc = "lost"
    /\ thread' = [thread EXCEPT ![t] = Idle]
    /\ UNCHANGED <<event, payload, msgs, expired, faults, early>>

Fault(kind) ==
    /\ kind \notin faults /\ Cardinality(faults) < MaxFaults
    /\ faults' = faults \cup {kind}

\* A store, the broker, an HTTP call or a process fails under goroutine t.
Abort(t) ==
    /\ Fault("abort") /\ thread[t].pc # "idle"
    /\ thread' = [thread EXCEPT ![t] = Idle]
    /\ UNCHANGED <<event, payload, msgs, expired, early>>

\* Lost by the broker, or discarded past its TTL.
LoseMessage(m) ==
    /\ Fault("lose")
    /\ msgs' = msgs \ {m}
    /\ UNCHANGED <<event, payload, thread, expired, early>>

\* The payload is there and LoadPayload fails: the store does, or the execution is
\* out of time or canceled.  The error is logged and {} is sent.
DispatchUnread(j) == Fault("unread") /\ Send(j, "blank")

\* All calls at once, and the payloads too: an engine that keeps them in its
\* memory starts again.  Adapters at work in processes of their own are spared.
Restart ==
    /\ Fault("abort")
    /\ payload' = [e \in Events |-> "none"]
    /\ \E spared \in SUBSET {a \in Adapters : thread[a].pc = "working"} :
          thread' = [t \in Threads |-> IF t \in spared THEN thread[t] ELSE Idle]
    /\ UNCHANGED <<event, msgs, expired, early>>

Expire(e) ==
    /\ Fault("expire") /\ e \in Published \ expired
    /\ expired' = expired \cup {e}
    /\ UNCHANGED <<event, payload, msgs, thread, early>>

-----------------------------------------------------------------------------
JobStep(j) ==
    \/ \E e \in Events : Fetch(j, e)
    \/ MarkAsDispatched(j) \/ Dispatch(j) \/ DispatchUnread(j) \/ RaceLost(j)

CallStep(a) ==
    \/ AnswerPermit(a) \/ Work(a) \/ ReportSuccess(a) \/ ReportFailure(a)
    \/ PublishSpinoff(a) \/ RaceLost(a)

AdapterStep(a) ==
    (\E m \in msgs : HandleMessage(a, m)) \/ AcquireProcessingPermit(a) \/ CallStep(a)

Next ==
    \/ RequestRide
    \/ \E t \in Threads : SavePayload(t) \/ Abort(t)
    \/ \E j \in Jobs : JobStep(j)
    \/ \E a \in Adapters : AdapterStep(a)
    \/ \E m \in msgs : LoseMessage(m)
    \/ \E e \in Events : Expire(e)
    \/ Restart

Spec == Init /\ [][Next]_vars

\* Tickers tick, subscriptions are served, calls go on.  An acquire takes
\* milliseconds and a job ticks every few seconds, so a redispatch does not
\* come between its SELECT and its UPDATE each and every time.
Fairness ==
    /\ \A t \in Threads : WF_vars(SavePayload(t))
    /\ \A j \in Jobs : WF_vars(JobStep(j))
    /\ \A a \in Adapters : WF_vars(AdapterStep(a)) /\ SF_vars(AcquireProcessingPermit(a))

FairSpec == Spec /\ Fairness

-----------------------------------------------------------------------------
(* Properties.                                                             *)

Holding == {"granted", "working", "succeed", "retry", "fail"}

\* BEING_PROCESSED, and nobody is processing it: no job selects it.
Orphaned(e) ==
    /\ event[e].status = "BEING_PROCESSED"
    /\ \A a \in Adapters : thread[a].ev = e => thread[a].pc \notin Holding

\* Past its deadline with no message left: redispatched for ever, never sent.
Undeliverable(e) ==
    /\ event[e].status \in {"AWAITING_PROCESSING", "DISPATCHED"}
    /\ e \in expired
    /\ \A m \in msgs : m.ev # e
    /\ \A a \in Adapters : thread[a].ev = e => thread[a].pc # "permit"

\* Processed, but the call that was to publish the next step is gone.
Severed(e) ==
    /\ event[e].status = "PROCESSED" /\ NextStep[event[e].type] # ""
    /\ e + 1 \notin Published
    /\ \A a \in Adapters : thread[a].ev = e => thread[a].pc # "spinoff"

Ended ==
    \E e \in Published : \/ event[e].status = "FAILED"
                         \/ event[e].status = "PROCESSED" /\ NextStep[event[e].type] = ""

\* A ride that has been requested ends: paid for, failed for good at a step
\* that may fail, or stranded in one of three ways.  Lost messages, aborted
\* dispatches, races for the permit and failed attempts do not stop it.
RideEnds ==
    Published # {} ~> Ended \/ \E e \in Published :
                                   Orphaned(e) \/ Undeliverable(e) \/ Severed(e)

\* Nothing strands a ride of itself: an orphaned event lost its holder or its
\* payload with a call or an engine, or was dispatched in between its row and its
\* payload and processed without one; a severed one lost the call between the two
\* writes.
StrandedForCause ==
    \A e \in Published :
        /\ Orphaned(e) => "abort" \in faults \/ e \in early
        /\ Severed(e) => "abort" \in faults

\* The steps the table shows, in the order of their publication.
Log == [i \in 1 .. Cardinality(Published) |->
           [type  |-> event[i].type,
            state |-> CASE event[i].status = "PROCESSED" -> "done"
                        [] event[i].status = "FAILED" -> "failed"
                        [] OTHER -> "open"]]

Trip == INSTANCE Ride WITH log <- Log

\* However its messages are repeated and its calls interleave, a ride is the
\* ride the adapter's table describes: one step at a time, in order, each of
\* them published once, and trips do not fail.
ImplementsRide == Trip!Spec

\* The payload a ride was requested with goes along with it, but for two causes:
\* a payload could not be read when its event was dispatched, whatever failed; or
\* there was none to read: the event was dispatched between its row and its
\* payload, or the memory that kept the payload is gone.  The {} then stays with
\* all later steps, and nobody is told.
BlankForCause ==
    \A e \in Published : payload[e] = "blank" => "unread" \in faults \/ \E d \in early : d < e
=============================================================================
