----------------------------- MODULE QueueCounts -----------------------------
(***************************************************************************)
(* Queue sizes, as the dashboard and the metrics show them: one query per  *)
(* flow and status, with the events moving in between.  The events are     *)
(* those of the abstract state machine, which the lifecycle service        *)
(* implements.                                                             *)
(***************************************************************************)
EXTENDS EventStateMachine, Sequences, FiniteSets

CONSTANTS
    FlowOf,      \* FlowOf[e]: the flow of event e
    Flows,       \* the flows, in the order of the queries
    Requests     \* requests for the counts that may be open at once

ASSUME QueueCountsOK ==
    /\ Flows \in Seq({Flows[i] : i \in DOMAIN Flows})
    /\ FlowOf \in [Events -> {Flows[i] : i \in DOMAIN Flows}]

\* The order of countsHandler, and what the metrics job keeps of it.  Both also
\* ask for SUSPENDED, a status that no event is ever given: always 0.
Statuses  == <<"AWAITING_PROCESSING", "DISPATCHED", "BEING_PROCESSED", "PROCESSED", "FAILED">>
Unsettled == <<"AWAITING_PROCESSING", "DISPATCHED", "BEING_PROCESSED">>

StatusSet == {Statuses[i] : i \in DOMAIN Statuses}

\* mutant of Queries: the final statuses first
QueriesBackwards(list) ==
    [i \in 1 .. Len(Flows) * Len(list) |->
        [flow   |-> Flows[((i - 1) \div Len(list)) + 1],
         status |-> list[Len(list) - ((i - 1) % Len(list))]]]

\* for each flow, for each status
Queries(list) ==
    [i \in 1 .. Len(Flows) * Len(list) |->
        [flow |-> Flows[((i - 1) \div Len(list)) + 1], status |-> list[((i - 1) % Len(list)) + 1]]]

VARIABLES
    watched,   \* what is looked at: the counts or the gauges, which share nothing
    up,        \* the database answers
    scan,      \* scan[r]: how far the handler of request r is, and what it counted
    shown,     \* statusCounts of the page
    gauge,     \* the gauges of the metrics job
    collector  \* the next query of the metrics job, 0 between two collections

vars == <<svars, watched, up, scan, shown, gauge, collector>>

\* next: the next query, 0 before the request; found: who was counted by which
\* query.  History, the events that may be overlooked: they were not there at
\* the start or have moved back since, or a query failed.
Closed == [next |-> 0, found |-> {}, excused |-> {}]

Gauges == [flow: {FlowOf[e] : e \in Events}, status: {Unsettled[i] : i \in DOMAIN Unsettled}]

Matching(q) == {e \in Events : FlowOf[e] = q.flow /\ status[e] = q.status}

QInit ==
    /\ Init
    /\ watched \in {"counts", "gauges"} /\ up = TRUE
    /\ scan = [r \in Requests |-> Closed]
    /\ shown = [s \in StatusSet |-> 0]
    /\ gauge = [g \in Gauges |-> 0]
    /\ collector = 0

\* An event is published or moves on; no follow-ups, they are events like others.
Step(e) ==
    /\ Initiate(e, FromClient) \/ Dispatch(e) \/ Begin(e) \/ Retry(e) \/ End(e)
    /\ scan' = [r \in Requests |->
           IF scan[r].next > 0 /\ status'[e] = "AWAITING_PROCESSING"
             THEN [scan[r] EXCEPT !.excused = @ \cup {e}] ELSE scan[r]]
    /\ UNCHANGED <<watched, up, shown, gauge, collector>>

-----------------------------------------------------------------------------
(* GET /api/counts.                                                        *)

\* fetchCounts: at the start, every three seconds and at every notification.
FetchCounts(r) ==
    /\ watched = "counts" /\ scan[r].next = 0
    /\ scan' = [scan EXCEPT ![r] = [Closed EXCEPT !.next = 1, !.excused =
                    {e \in Events : status[e] = "ABSENT"}]]
    /\ UNCHANGED <<svars, watched, up, shown, gauge, collector>>

Query(r) ==
    LET i == scan[r].next
        q == Queries(Statuses)[i]
    IN  /\ up /\ i \in DOMAIN Queries(Statuses)
        /\ scan' = [scan EXCEPT ![r].next = i + 1, ![r].found = @ \cup (Matching(q) \X {q})]
        /\ UNCHANGED <<svars, watched, up, shown, gauge, collector>>

\* A query that fails is skipped: its status is short of this flow's events.
QueryFails(r) ==
    /\ ~up /\ scan[r].next \in DOMAIN Queries(Statuses)
    /\ scan' = [scan EXCEPT ![r].next = @ + 1, ![r].excused = Events]
    /\ UNCHANGED <<svars, watched, up, shown, gauge, collector>>

\* What the queries of request r add up to.
Counts(r) == [s \in StatusSet |-> Cardinality({f \in scan[r].found : f[2].status = s})]

Counted(r) == scan[r].next > Len(Queries(Statuses))

\* mutant of Show: a status without events is left out of the answer
ShowPositive(r) ==
    /\ Counted(r)
    /\ shown' = [s \in StatusSet |-> IF Counts(r)[s] > 0 THEN Counts(r)[s] ELSE shown[s]]
    /\ scan' = [scan EXCEPT ![r] = Closed]
    /\ UNCHANGED <<svars, watched, up, gauge, collector>>

\* The answers arrive in any order; each replaces what is shown.
Show(r) ==
    /\ Counted(r)
    /\ shown' = Counts(r)
    /\ scan' = [scan EXCEPT ![r] = Closed]
    /\ UNCHANGED <<svars, watched, up, gauge, collector>>

\* No answer, or one that is not ok, is ignored.
Ignore(r) ==
    /\ ~up /\ scan[r].next > 0
    /\ scan' = [scan EXCEPT ![r] = Closed]
    /\ UNCHANGED <<svars, watched, up, shown, gauge, collector>>

-----------------------------------------------------------------------------
(* The metrics job.                                                        *)

\* collect: at every tick.
StartCollection ==
    /\ watched = "gauges" /\ collector = 0 /\ collector' = 1
    /\ UNCHANGED <<svars, watched, up, scan, shown, gauge>>

\* mutant of Collect: a queue without events is not recorded
CollectPositive ==
    LET q == Queries(Unsettled)[collector]
    IN  /\ up /\ collector > 0
        /\ gauge' = IF Matching(q) = {} THEN gauge ELSE [gauge EXCEPT ![q] = Cardinality(Matching(q))]
        /\ collector' = (collector + 1) % (Len(Queries(Unsettled)) + 1)
        /\ UNCHANGED <<svars, watched, up, scan, shown>>

\* The gauge is set query by query.
Collect ==
    LET q == Queries(Unsettled)[collector]
    IN  /\ up /\ collector > 0
        /\ gauge' = [gauge EXCEPT ![q] = Cardinality(Matching(q))]
        /\ collector' = (collector + 1) % (Len(Queries(Unsettled)) + 1)
        /\ UNCHANGED <<svars, watched, up, scan, shown>>

\* It keeps its value when a query fails.
CollectFails ==
    /\ ~up /\ collector > 0
    /\ collector' = (collector + 1) % (Len(Queries(Unsettled)) + 1)
    /\ UNCHANGED <<svars, watched, up, scan, shown, gauge>>

-----------------------------------------------------------------------------
\* The database goes away, or comes back.
Outage ==
    /\ up' = ~up
    /\ UNCHANGED <<svars, watched, scan, shown, gauge, collector>>

Serve(r) == Query(r) \/ QueryFails(r) \/ Show(r)

QNext ==
    \/ \E e \in Events : Step(e)
    \/ \E r \in Requests : FetchCounts(r) \/ Serve(r) \/ Ignore(r)
    \/ StartCollection \/ Collect \/ CollectFails
    \/ Outage

QSpec == QInit /\ [][QNext]_vars

\* The page polls, requests are served, the ticker of the metrics job ticks.
QFairness ==
    /\ \A r \in Requests : WF_vars(FetchCounts(r)) /\ WF_vars(Serve(r))
    /\ WF_vars(StartCollection \/ Collect \/ CollectFails)

QFairSpec == QSpec /\ QFairness

-----------------------------------------------------------------------------
(* Properties.                                                             *)

\* The statuses are queried in the order in which events move on.  So no event
\* that was there at the start is overlooked, unless an attempt of it failed in
\* the meantime and took it back.  (It may be counted more than once.)
NoneOverlooked ==
    \A r \in Requests : Counted(r) =>
        \A e \in Events \ scan[r].excused : \E f \in scan[r].found : f[1] = e

Size(s) == Cardinality({e \in Events : status[e] = s})

AtRest == <>[]up /\ <>[][UNCHANGED status]_status

\* Once the events rest and the database answers, the dashboard shows their
\* numbers for good, although answers come late and in the wrong order.
CountsConverge ==
    watched = "counts" /\ AtRest => <>[](\A s \in StatusSet : shown[s] = Size(s))

\* So do the gauges, to the last status that is set.
GaugesConverge ==
    watched = "gauges" /\ AtRest => <>[](\A g \in Gauges : gauge[g] = Cardinality(Matching(g)))
=============================================================================
