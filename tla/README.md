# Formal model of the event lifecycle engine

TLA+ modules, TLC configurations and TLAPS proofs for the engine in `src/`: a Go service
that keeps *events* in a MySQL table, dispatches them over NATS to adapters that ask for a
processing permit and report the outcome over REST, retries failed attempts, and publishes
follow-up events. All of its guarantees rest on one optimistic lock
(`UPDATE ... WHERE id = ? AND version = ?`), on the order in which handlers load, decide and
write, and on what callers may be trusted to do.

To run: `tlc -config Permits.cfg MCEventLifecycle.tla` (likewise the other configurations,
see the table in section 3) and `tlapm EventLifecycleProofs.tla` (likewise the other proof modules).

## 1. Inventory

### Components

| component | source | state | operations |
|---|---|---|---|
| lifecycle service | `internal/service/lifecycle.go`, `processing.go` | none of its own; each call holds a copy of a row | `Publish`, `TryAcquireProcessingPermit`, `ReportSuccess`, `ReportFailure`, `ProcessPendingEvent`, `ActivateSuspendedEvent`, three finders, `withRetry` |
| event table | `internal/repository/event_mysql.go`, `migrations/001` | one row per event: status, version, attempts left and failed, schedule, due dates | `INSERT IGNORE`, load, three selects, six optimistic updates |
| payload stores | `repository/payload_redis.go`, `payload_memory.go` | event id to payload | save, load; the second lives in one engine's memory |
| error log | `repository/errorlog_mysql.go` | rows per event | save, list |
| configuration and cache | `service/configuration.go`, `cache.go`, `repository/config_mysql.go` | one row per event type, a TTL cache per instance | load, update, suspend, unsuspend; seeds at each start |
| dispatcher | `service/dispatcher.go` | none | refuse an expired event, choose a TTL, publish |
| adapters | `internal/adapter/adapter.go`, `cmd/adapter-stub/main.go` | none | take a message, check its TTL, acquire, work, report once, name the next step |
| jobs | `internal/job/*.go` | counters of an execution, a batch | awaiting, scheduled and suspended job of each flow |
| WebSocket hub | `internal/web/hub.go` | map of connections under a `sync.RWMutex` | register, unregister, broadcast, count |
| REST and MCP | `internal/web/handler.go`, `internal/mcp/*.go` | none | entry points of the operations above; queue counts |
| queue metrics | `internal/job/metrics.go` | one gauge per flow and status | collect at each tick |
| engine process | `cmd/engine/main.go`, `config/` | the goroutines, the choice of payload store | start, shutdown |
| migrations, clean-up | `internal/migrate`, `cmd/migrate`, `cmd/cleanup` | – | tables and seeds at each start; one-shot programs |
| frontend | `web/rides.html`, `web/index.html` | the page's record of a ride; the counts it shows | follow notifications, poll counts |

### How they interact

* Jobs of every instance select overlapping sets of events by different columns (the status,
  or the schedule state and the attempt's time), hold the batch as a copy, then update and
  publish event by event.
* The adapter learns of an event from a NATS message, and everything else it does is a REST
  call. Its *contract* (acquire first, report once, only what it holds) is kept by the code of
  the adapter, not enforced by the engine: the same endpoints serve the dashboard and MCP.
* A report writes the outcome, then publishes a follow-up by a separate call, which writes a
  row, then a payload in another store. The adapter passes on the payload of the message, not of
  the store, to the next step.
* Every state change is broadcast by the goroutine that made it, with the row as it reloads it
  afterwards and with the hub's read lock held. The page keeps what it is told and asks for nothing.
* Every handler reads the configuration through a cache that other instances do not evict.

### Where it is hard, and what makes it correct

| component | hard behaviour | correct if |
|---|---|---|
| lifecycle and table | load / decide / write against any other goroutine; redelivery; retry of a lost update; an aborted call between two writes | one holder per permit, reports are never lost, attempts are counted once and logged, final states stay, at most one follow-up |
| schedule | three selects over overlapping sets | no job can pick up an event being processed or finished |
| ride | lost and repeated messages, crashes between two writes, deadlines | steps in order and once each; it ends, or is stranded for a reason that can be named |
| configuration | a fill that overlaps an update; the lazy clean-up; several instances; changes between publication, permit and report | stale for a bounded time only, a fresh entry is not thrown away, an event keeps its attempts, suspension takes effect and ends |
| dispatcher and adapter | two fractions of a second cut off; gaps between buckets | early or late by a known amount at most |
| job | selected events that never leave the query; limits in two loops; shutdown | executions end, limits hold, everything is tried, the goroutine stops |
| hub | readers, waiting writers, goroutines that a failed write starts | no deadlock, broken connections go, no write to a closed one |
| page | notifications late, out of order, dropped, or before the page knows the ride | never ahead of the table; shows the outcome it was told, for good |
| counts | events move between the queries; answers arrive out of order | no event is overlooked; right in the end |

The hazards themselves, each at its line, are the `hazards` of `PROJECT.json`.

## 2. Modules

| module | models | composes |
|---|---|---|
| `EventStateMachine` | abstract specification: what an event is promised | |
| `EventLifecycle` | table, service, payload store, error log, broker, jobs, adapters, publishers, operators | instantiates `EventStateMachine` |
| `EventLifecycleClaims` | what a comment says and the code does not do | extends `EventLifecycle` |
| `Ride` | abstract specification: the steps of a ride | |
| `Rides` | a ride from its request to its end: client, two jobs, broker, adapters, faults | instantiates `Ride`; its proofs also `EventStateMachine` |
| `EventConfig` | configuration row and the caches of several instances | |
| `Reconfiguration` | an event whose type is reconfigured, suspended and resumed under it | extends `EventConfig`; its proofs instantiate `EventStateMachine` |
| `TtlDispatch` | TTL choice and check of one message | |
| `JobRunner` | one job's executions against the rest of the system | |
| `Hub` | hub, its callers and its peers | |
| `RidePage` | what the ride page makes of notifications | its proofs instantiate `Ride` |
| `QueueCounts` | counts of the dashboard and gauges of the metrics job, with events that move | extends `EventStateMachine` |
| `...Proofs` | theorems about the module of that name (`ReconfigurationProofs` also about `EventConfig`) | |
| `MC...` | instances for TLC | |

Definitions marked *mutant* are bugs the code does not have. Each is a variant of the
definition that follows it and shows that a property can fail.

### EventLifecycle

The grain is one call to the database, the payload store or the broker. A *thread* is a
goroutine in the middle of a handler: `pc` names its next call, `seen` is the loaded copy,
`tries` the loop counter of `withRetry`.

| action | code |
|---|---|
| `Publish`, `PublishSpinoff`, `PublishOnFail` then `SavePayload` | `InitiateIdempotently`: the row, then the payload |
| `FindPendingEvents`, `FindScheduledEvents`, `FindExpiredSuspendedEvents` | one event of a job's batch: a copy is taken |
| `MarkAsDispatched` then `Dispatch` or `DispatchExpired` | `ProcessPendingEvent`: update, payload, deadline, publish |
| `ActivateSuspended` | `ActivateSuspendedEvent` |
| `HandleMessage`, `AcquireProcessingPermit`, `AnswerPermit` | the adapter, then `TryAcquireProcessingPermit` |
| `Report`, then `MarkAsSucceeded`, `SwitchToNextAttempt` or `MarkAsFailed` | `ReportSuccess`, `ReportFailure`; the error log before the update |
| `OperatorCall` (`AcquireCall`, `SuccessCall`, `FailureCall`) | the same three endpoints, over REST or MCP, for any event at any time |
| `RaceLost`, `ReturnError` | `withRetry`: the same command and version again, then the error |
| `Abort`, `Restart`, `LoseMessage` | any store error, canceled context or crash; loss of the in-memory payloads; at-most-once delivery |
| `AttemptComesDue`, `EventExpires` | time |

Abstractions. Time is two sets, `waiting` and `expired`, one for each comparison the code
makes with it. A payload is *data* or *blank* (the code's `{}` and empty string). A success
names at most one spinoff event (the API takes a list); the adapter of the repository names
one. The configuration is constant with `max_attempts >= 1`; `Reconfiguration` drops that. A
configured on-fail type is a flag of the row. Messages differ by the version the dispatch left,
which is a history value: NATS does not carry it. `cause` is a history variable. `CANCELED` and
`SUSPENDED` are declared in `status.go` and written by no statement, so they are not in `Status`;
suspension of a type is a flag of the configuration.

Two kinds of callers report: `Adapters`, which do what `adapter.go` does, and `Operators`,
who do whatever the API lets them. Properties that need the contract are checked and proved
with `Operators = {}`; those that do not, with operators.

### Rides

The question is liveness, so the state has to be finite without a bound on versions. That the
optimistic lock is safe is `EventLifecycle`'s result, and used here: `RetriesAreFutile` says that a goroutine
whose copy is old can change nothing any more. `Update` therefore turns every other goroutine about to
update the same row into a lost one (`RaceLost` ends it), and versions are gone. For the same reason a message of a
settled event is dropped with its report: it can only be answered "not acquired".

`NextStep` and `MayFail` are the table `rideSteps`, which the embedded adapter and the stub share.
`RequestRide` is the page's POST, `Fetch`, `MarkAsDispatched` and `Dispatch` the two jobs,
`HandleMessage`, `AcquireProcessingPermit`, `AnswerPermit`, `Work` and the reports the adapter with the
handlers that serve it. Faults are actions of their own, each kind at most once in a ride (`faults`,
at most `MaxFaults` kinds): `Abort` (a store, an HTTP call or a process fails under a goroutine),
`Restart` (an engine that keeps payloads in memory loses them with its calls), `LoseMessage`, `Expire`, and
`DispatchUnread` (`LoadPayload` fails, for whatever reason, and the code sends `{}`).

The delays of the seeded rides are zero for the engine: the seed files write `delay_seconds`, the model reads
`delay_before_attempt_seconds` (`internal/model/config.go`). So no event of a ride sleeps.

### EventConfig and Reconfiguration

`EventConfig`: one event type. A step is one critical section of the cache's mutex or one
statement, so the caller's `find` and `set` are apart. A lookup that fails (`FindFails`) caches nothing. `Expire` is the 60 seconds. A write may
be reported as failed though it was done, and then nothing is evicted. `UpdateConfig` resets
`is_suspended`, as `update_lifecycle_config` and `Save` do. `Restart` empties the cache of an
instance, ends its calls and applies the seeds (`INSERT IGNORE`).

`Reconfiguration` lets the calls of the lifecycle service go through those caches: `Begin...` is the
load of the row and the cache lookup, `Publish`, `ProcessPendingEvent`, `Acquire` and `ReportFailure` are
what they do with the copy they were given, however old; `NotConfigured` ends a call whose type has no row,
`DatabaseFails` one whose query or UPDATE fails, which `withRetry` does not repeat. `MaxOf` gives the
`max_attempts` of each write, any integer, as the tool and the column allow. With zero, publish, permit and
repeated attempt divide by it and panic, which chi's `Recoverer` turns into a 500, and the report is gone. Over
MCP nothing in `src/` recovers the panic, and it may end the process, which `Crash` covers. `lost` names what has
kept an event from being reported on: besides these the answer to an acquire that has granted the permit, and an
adapter that dies or whose report never arrives or cannot be recorded (`LoseReport`).

### The other modules

* `TtlDispatch`: one message. `Second` ticks make a second; both truncations are modelled
  (`int(remaining.Seconds())` and the RFC 3339 header).
* `JobRunner`: `mode` is the kind of job and what may go wrong around it, chosen once. `selected` is
  what the query would return now. `Fetch` takes everything if it fits in `BatchSize`, else any `BatchSize`
  of it, since the query has a LIMIT and no order. `current` says which copies are still as fetched.
  `mode.requeues` tells the scheduled job (a dispatched event stays ACTIVE) from the awaiting one. The end
  of `ctx` and the shutdown are seen between events, the stop of the goroutine only between executions,
  as in the `select`.
* `Hub`: one step per short critical section. Go's `RWMutex` is modelled with its rule that
  a waiting writer keeps new readers out. A write in progress is two steps, so that two
  broadcasts can be inside `WriteMessage` on one connection; gorilla's check then panics, which
  `net/http` recovers in a handler and nobody recovers in a job (`Crash`).
* `RidePage`: a call is a goroutine between its UPDATE and the end of its broadcast; `Reload` fixes what
  the notification will say, `Deliver` is `onEventUpdate` of the page. Publications and permits are
  broadcast too, but change nothing the page shows; they are taken to be over before their event moves
  on. No two *like* calls (of one job, or reports of one kind about one event) are under way at once.
  The page may step *back*: a late notification of an earlier step sets `currentStep` to it, and
  `NeverAhead` allows that.
* `QueueCounts`: the events are those of the abstract machine. `Queries` is the order of the two
  nested loops; an event may move between any two queries. `watched` says whether counts or gauges are
  looked at: they share nothing, and together they would only multiply states.

## 3. Runs

| run | question | properties | bounds | distinct states |
|---|---|---|---|---|
| `Permits` | does the contract make permits exclusive? | `PermitExclusive`, `NoReportLost`, `AttemptsAccounted`, `FailedAttemptsLogged`, `TerminalIsFinal` | 1 event, 2 adapters, 1 job, 1 publisher, 2 attempts, payloads in memory | 700 k |
| `FollowUps` | one consequence per event? does the engine implement its abstract specification? | `Consequences`, `ImplementsStateMachine` | 3 events, 1 of them published by a client, 2 adapters, 1 job, 2 attempts, versions to 3 | 827 k |
| `OpenApi` | what is left without the contract? | `TypeOK`, `SnapshotCoherent`, `RetriesAreFutile`, `ScheduleMatchesStatus` | 1 event, 2 operators, 1 job, 1 publisher, versions to 4 | 589 k |
| `Rides` | does a ride go in order, and end? | `ImplementsRide`, `RideEnds`, `StrandedForCause`, `BlankForCause` | the last 2 steps, 2 adapters, 2 jobs, 1 message at a time, 2 kinds of faults of 4 | 508 k |
| `Reconfig` | what does a change of the configuration do to an event and to the caches? | `TypeOK`, `NoFreshEvicted`, `AttemptsFixedAtPublication`, `LostForCause`, `OnlyOperatorsReconfigure`, `ConvergesToRow`, `SuspensionTakesEffect`, `ResumedIsDispatched` | 1 event, 2 instances, a job, a request, an operator, 4 writes | 170 k |
| `Jobs` | do executions end, within limits, and is everything tried and dispatched? | `TypeOK`, `DrainedMeansAllTried`, `ExecutionEnds`, `StopsAfterShutdown`, `PendingDispatched` | 3 events, batches of 2, limits 3 and 2, two modes | 292 k |
| `Hub` | is the locking free of deadlock? | `TypeOK`, `NoWriteToClosed`, `BroadcastEnds`, `BrokenForgotten` | 2 connections, 2 broadcasters, 1 broadcast each | 132 k |
| `RidePage` | does the page tell the truth? | `NeverAhead`, `OutcomeShown`, `EndIsShown` | 2 steps, 1 repeated attempt | 92 k |
| `QueueCounts` | are the counts right in the end? | `NoneOverlooked`, `CountsConverge`, `GaugesConverge` | 1 event, 2 attempts, 2 requests | 689 k |
| `Ttl` | how early, how late? | `DiscardedNearDeadline`, `LateByLessThanABucket` | buckets 1, 2, 4 s; 3 ticks a second; 24 ticks | 11 k |
| `ClaimDelays`, `ClaimBroadcast` | does the code do what its comments say? | one each | as above | violated |

Why the bounds are enough to be of interest:

* A lost race needs two goroutines and one row; a lost retry needs `MaxRetries = 2`. In `Permits`
  the row may reach version 6 and beyond by reports: dispatch, redispatch, permit, retry, dispatch,
  permit and report fit, so that both attempts take place and a message of the first attempt is
  still alive in the second. `MaxVersion` bounds only jobs and operators, `MaxLogs` only
  operators.
* A parent given two follow-ups needs three rows: `FollowUps` has three events, of which a client
  publishes `MaxPublished`, one, so that there is room for both. With two attempts and versions to 3 a failed
  attempt is retried, beside spinoffs, on-fail events and late messages, but the second attempt does not take place;
  in `Permits` it does, with one event, and `OneConsequence` and `Refinement` hold for any number of both.
* In `OpenApi` an operator can do all that an adapter can, so there are none. Version 4
  allows three reports on one row, one more than `max_attempts`.
* The last two steps of a ride are one that cannot fail and leads on, and one that can and does not, with
  three attempts. `MaxEvents` is one more than the steps, so a step published twice would have room.
  With a message bound of one the broker drops what a redispatch adds; a second copy after the first was
  taken is still possible, and that is the case that matters. Two of the four kinds of faults cover every pair;
  a single abort is enough for each of the two gaps it may open.
* Four writes of the configuration are enough for create, suspend, update and resume, and for two, zero, -1 and
  three attempts around one event. The operator sits on the other instance, so the job's cache is the one
  nobody evicts.
* Batches of two out of three events make a full batch, a short one and an exact one; limits
  three and two fall inside a batch and between batches. One mode has no faults and one suspended event
  (fewer than a batch), the other all faults and two.
* In the hub two broadcasters are needed for an overlap and two connections for a client
  that is left out; a third broadcaster adds no new kind of lock holder.
* Two steps let a notification of the first overtake or follow those of the second; the repeated
  attempt puts a third one between.
* Counts add up events that do not touch each other, so one event that moves, with a repeated attempt,
  shows what can be missed or counted twice; two requests are needed for answers out of order.
* The TTL run has a tick finer than a second, adjacent buckets, a gap between buckets and
  remaining times beyond the last one.

The theorems of section 4 remove all these bounds for the safety properties.

Deadlock is checked in `QueueCounts`, where the pages poll for ever. The other systems may come to
rest: all events final and all messages gone, no writes of the configuration left and a crashed caller's
event in nobody's hands, the message of `Ttl` accepted or discarded, a job stopped by the shutdown, all
broadcasts done, a ride shown.

### Fairness

`EventLifecycle` and `TtlDispatch` have safety properties only and no fairness.

* `Rides`: weak fairness of saving a payload, of each job and of each adapter: tickers tick, subscriptions
  are served, calls go on. Strong fairness of `AcquireProcessingPermit` only: the scheduled job
  redispatches an event every few seconds and thereby beats every acquire that has read the row before, but an acquire
  takes milliseconds, so this does not happen each and every time. Requests and faults are not fair.
* `EventConfig` and `Reconfiguration`: a call that has begun goes on, entries expire, the job ticks.
  Nobody is obliged to publish, to report, to reconfigure or to crash, and queries and updates may fail.
* `JobRunner`: the ticker ticks and the running execution goes on (WF); SF of `Stop`, because the
  `select` chooses at random among ready cases and so does not take the tick for ever when the context
  is done too. Publishing, unsuspension, faults and other instances are not fair.
* `Hub`: the server's goroutines run (WF); connecting, breaking, hanging and broadcasting are up to
  the environment. A peer that neither reads nor goes away is excepted by the liveness properties
  (`hung # {}`): `WriteMessage` has no deadline, and with such a peer they are false.
* `RidePage`: a goroutine that broadcasts goes on (WF). Nothing obliges the engine to move an event.
* `QueueCounts`: the page polls, requests are served, the metrics ticker ticks (WF). The database
  may be away for as long as it likes; convergence is claimed once it is back (`AtRest`).

### What the conditional liveness properties except

`RideEnds` ends with three ways in which a ride is stranded, because the code has no way out of them:
`Orphaned` (BEING_PROCESSED and nobody processes it: no query reads `attempt_due_date`),
`Undeliverable` (past its deadline: marked DISPATCHED, refused, and fetched again for ever), `Severed` (processed, but
the engine stopped before it published the next step). `StrandedForCause` says that the first and the third
need a call or an engine that fails, or an event dispatched between its row and its payload.
`SuspensionTakesEffect` needs a type that stays suspended, `ResumedIsDispatched` one that stays resumed, and engines
and a database that do not fail for ever. `ConvergesToRow` and `SuspensionTakesEffect` hold through such failures,
because a call that fails gets no configuration and dispatches nothing; that calls succeed they do not say. `EndIsShown` excepts a page that missed a report.

## 4. Proofs

Every safety property of every passing run is proved for all values of the constants, in eight modules.
Beyond them, theorems say what no run asks: that the models agree on what an event and a ride may do,
and, for most of the liveness that is only model-checked, its *safety core*: a quantity that shrinks or facts
that stay true, so that all that is left to fairness is that the step that helps is taken.

### EventLifecycleProofs

Holds for every set of events, jobs, adapters, clients and operators,
every `MaxAttempts >= 1`, list of attempt configurations, number of retries, and both payload
stores. `Spec` there includes the bounds `MaxVersion` and `MaxLogs`, which are arbitrary naturals.

The argument has five layers. They are kept apart because no property is inductive alone.

1. *Types* (`TypeInv`): `TypeOK`, plus what control points imply (`ThreadsOK`): a goroutine about
   to update names an event, and one about to retry has a copy with more than one attempt
   left, which is why `seen.left - 1` stays a natural number.
2. *Step shapes* (`NextShape`): every step has one of four shapes: quiet (rows unchanged, no new
   copy), a load, an optimistic update one version on, or a creation. Later
   invariants are proved against the shapes and not against some thirty actions.
3. *Versions* (`VersionInv`): `SnapshotCoherent` and `RetriesAreFutile`, with the fact that an
   absent row is the initial one. A copy can only fall behind. `ScheduleMatchesStatus` follows from
   the rows that updates write and needs no contract.
4. *Log* (`LogInv`): a report of a failure on its way has a copy with fewer failed attempts than there are
   entries, so its update cannot bring the row ahead of the log. Needs no contract either.
5. *Contract* (`PermitInv`, `FollowInv`), with `Operators = {}`: `SnapshotSources` says from which
   status each copy was taken, so that a matching version implies the status the update starts
   from; then at most one goroutine moves an event into, and only the holder moves it out of,
   BEING_PROCESSED. `FollowerAlone` says that the goroutine still to publish a follow-up is the
   only one for its event, and that none exists yet. `PermitExclusive`, `NoReportLost`,
   `AttemptsAccounted`, `Consequences` and `TerminalIsFinal` are the conclusions.

`Refinement` maps status to the row's status and attempts to `AttemptsBegun`, and shows
that the initial states and every step are those of `EventStateMachine`, or a stutter.

Three more theorems rest on these layers. `OneWriterPerVersion` needs layers 1 to 3 only and holds
with operators at work: a row that changes leaves everybody behind who holds a copy to update it with
(`WinnersOvertake`); who has been left behind keeps that copy through all that `withRetry` repeats, and
changes no row. `NoAttemptTooMany` and `LivesAreFinite` need the contract: `Journey`, three for each failed
attempt and the rank of the status, grows by one with every change of status and never otherwise, up to
`3 * MaxAttempts + 1`. So no event goes round for ever; for its end somebody has to move it, no more.

### The other proof modules

* `RidesProofs`: `IInv` says that events are published in order and all but the last are processed
  (`Numbered`), and what each control point knows of its row until it has lost (`Known`), in particular
  that a permit has one holder and a spinoff one publisher. From it every step of `Rides` is a step of
  `Ride` or a stutter. `CInv` adds where a blank payload may come from (`Carried`: rows, messages and goroutines
  alike) and who holds or follows up an event (`GoesOn`); it gives `BlankForCause` and `StrandedForCause`.
  What an update may write into a row is one predicate (`Updates`). `Budgeted` adds that a published event has an
  attempt left, and one to be retried another; with it every step of `Rides` is one of `EventStateMachine` too.
  `Rides` leaves out versions, copies and the error log, `EventLifecycle` the types of events and the table of steps:
  both implement the same abstract machine.
* `ReconfigurationProofs`: types and `NoFreshEvicted` are proved for `EventConfig` alone, and every step
  of the composition is shown to be one of `EventConfig` or a stutter, which carries them over. `EInv` links calls to their
  cache steps (`Linked`), says what a copy that is still current implies (`Copies`), that there is one report per
  permit (`OneReport`) and none forgotten (`Reported`), and how attempts add up (`Counted`). `SeedsAreInert`: a start of an engine changes no row there is.
  `ReconfigurationImplementsStateMachine` takes for `MaxAttempts` any positive `most` that no configuration exceeds
  (`Bounds`); the budget an event was published with is within it. `OldRowsFade` puts what is out of date into three
  sets: fills under way, entries, calls with a result. While the row is left alone the first only shrinks, the
  second grows only by the first, the third only by these two.
* `JobRunnerProofs`: `TypeOK` is inductive given what a batch can hold (`BatchSizes`); `Drained` adds
  that in a short batch what has not been tried is what the batch still holds. `ExecutionsShrink`: three times what the
  limits still allow, and what a query and the end of a batch may take in between (`Variant`). A batch that is
  worked on came with an event (`BatchOK`), so a query that finds something is followed by a step towards a limit;
  no event has to leave the query for that.
* `HubProofs`: broadcasts have only connections of the map to write to, and the map only open ones
  (`Mapped`), because a connection is deleted under the write lock before it is closed and registered once
  (`Lifecycle`). No fairness and no bound on broadcasts. `LoopsEnd`: two steps for each connection still to
  come and one for the write under way (`StepsLeft`); the loop runs over what the map held at the lock, which is
  finite (`FiniteMap`) though `Conns` need not be.
* `RidePageProofs`: what a call saw to be final is final (`Seen`), and a spinoff follows a processed
  step (`Order`, `Spinoffs`), so nothing a late notification says is untrue. `Reported`: a step that has come to its end is
  on the page, or its report is still to be broadcast, or was missed. `PageWatchesARide`: the steps begun are the
  first `Begun` of them (`IsBegun`), which read as a log are those of `Ride`, whatever names the steps have, as
  long as these tell them apart (`Naming`).
* `QueueCountsProofs`: an event that is not excused has been found or is still ahead of the queries
  (`NoneLost`): statuses are queried in the order in which events move on.
  `RestingCountsAreExact`: a request whose facts are all still true (`Fresh`) stays so while events rest; an event
  is found in its own flow only (`Sound`), so what it found of a status and the events of that status correspond
  one to one.
* `TtlDispatchProofs`: arithmetic on ticks, whatever the buckets.

| module | theorems | properties | assumptions |
|---|---|---|---|
| `EventLifecycleProofs` | `TypeCorrect`, `SnapshotsCoherent`, `RetriesFutile`, `SchedulesMatch`, `FailuresLogged` | `TypeOK`, `SnapshotCoherent`, `RetriesAreFutile`, `ScheduleMatchesStatus`, `FailedAttemptsLogged` | `ConstantsOK` |
| | `OneWriterPerVersion` | | `ConstantsOK` |
| | `PermitsExclusive`, `ReportsArrive`, `AttemptsAddUp`, `OneConsequence`, `FinalIsFinal`, `Refinement` | `PermitExclusive`, `NoReportLost`, `AttemptsAccounted`, `Consequences`, `TerminalIsFinal`, `ImplementsStateMachine` | `ConstantsOK`, `Operators = {}` |
| | `NoAttemptTooMany`, `LivesAreFinite` | | `ConstantsOK`, `Operators = {}` |
| `RidesProofs` | `RidesImplementRide`, `RidesStrandForCause`, `RidesBlankForCause` | `ImplementsRide`, `StrandedForCause`, `BlankForCause` | `RidesOK` |
| | `RidesKeepTheirBudget`, `RidesImplementStateMachine` | | `RidesOK` |
| `ReconfigurationProofs` | `FreshEntriesStay`, `ReconfigurationKeepsCaches`, `CallersTypeCorrect`, `RefreshedEntriesStay`, `SeedsAreInert`, `AttemptsFixed`, `ReportsLostForCause` | `TypeOK`, `NoFreshEvicted`, `OnlyOperatorsReconfigure`, `AttemptsFixedAtPublication`, `LostForCause` | `EngineOfOK`, `ReconfigurationOK` |
| | `ReconfigurationImplementsStateMachine` | | the same, `Bounds(most)` |
| | `OldRowsFade`, `OnlyOldRowsDispatch` | | `EngineOfOK`, `ReconfigurationOK` |
| `JobRunnerProofs` | `LimitsHold`, `ShortBatchIsLast`, `ExecutionsShrink` | `TypeOK`, `DrainedMeansAllTried` | `LimitsOK` |
| `HubProofs` | `TypeCorrect`, `WritesToOpenOnly`, `LoopsEnd` | `TypeOK`, `NoWriteToClosed` | `HubOK` |
| `RidePageProofs` | `PageNeverAhead`, `OutcomeIsShown` | `NeverAhead`, `OutcomeShown` | `RidePageOK` |
| | `PageWatchesARide` | | `RidePageOK`, `Naming(Name)` |
| `QueueCountsProofs` | `CountsOverlookNone`, `RestingCountsAreExact` | `NoneOverlooked` | `QueueCountsOK` |
| `TtlDispatchProofs` | `TtlIsABucket`, `DiscardedLate`, `AcceptedInTime` | `DiscardedNearDeadline`, `LateByLessThanABucket` | `ClockOK`, `BucketsOK` |

`BucketsOK` asks for a longest bucket and for a shortest one in every non-empty subset, which
any finite list gives. TLC evaluates all assumptions in the runs.

A theorem without a property is stated in the proof module, and no run of section 3 checks it. TLC has checked
each of these on small instances (up to three events, one or two connections, up to three steps of a ride, between a hundred thousand and four
million states) before it was proved.

Only model-checked, since liveness under fairness is out of the prover's reach:

| liveness property | its safety core |
|---|---|
| `ExecutionEnds`, `StopsAfterShutdown` | `ExecutionsShrink` |
| `BroadcastEnds`, `BrokenForgotten` | `LoopsEnd` |
| `ConvergesToRow` | `OldRowsFade` |
| `SuspensionTakesEffect` | `OldRowsFade`, `OnlyOldRowsDispatch` |
| `CountsConverge` | `RestingCountsAreExact` |
| `EndIsShown` | the invariant `Reported` of `OutcomeIsShown` |
| `RideEnds` | `RidesImplementRide` and the attempts bounded by `RidesImplementStateMachine` |
| `ResumedIsDispatched`, `PendingDispatched`, `GaugesConverge` | none proved |

## 5. Where the code and its documentation differ

Shown by a run each:

* `ClaimDelays`: `ScheduleStateSleeping` "indicates the event is waiting for a scheduled attempt
  time" (`internal/model/schedule_state.go:14`). The awaiting job selects by status alone and
  dispatches a sleeping event at its next tick; configured delays have hardly an effect.
* `ClaimBroadcast`: "sends an event state change to all connected clients"
  (`internal/web/hub.go:47`). Two broadcasts share the read lock and can write to one connection at
  once; gorilla panics, later clients are left out, and in a job the process ends.

Seen while modelling, in the models as the code has them, but without a run of their own:

* Reports do not look at the status (`lifecycle.go:190`, `:234`), so an operator can move a PROCESSED
  event again: `TerminalIsFinal` is false as soon as `Operators` is not empty.
* The loser of a race for a permit gets "max retries exceeded", status 500, not the `nil` that
  `lifecycle.go:128` promises; `RetriesAreFutile` says why its repetitions cannot help.
* Row and payload are not saved "atomically" (`event-engine-starter-prompt.md:247`): a job may
  dispatch the row in between with the body `{}`, which then stays with all later steps of a ride.
* Any error of `LoadPayload` is logged and the event sent with `{}` (`lifecycle.go:419`); no later step, and
  nobody else, can tell it from a payload. A restart of an engine that keeps payloads in memory
  (`cmd/engine/main.go:89`) has the same effect.
* An event found expired after its update to DISPATCHED is never marked as failed, unlike
  `event-engine-starter-prompt.md:297` asks; it is `Undeliverable`.
* A fill of the cache that has read the old row may complete after the eviction of an update, and keeps the old
  configuration for a TTL, on the updating instance too (`configuration.go:42`).
* `update_lifecycle_config` resumes a suspended type (`mcp/tools.go:222`, `config_mysql.go:86`) and
  accepts `max_attempts = 0`, by which publish, permit and failure report divide. A negative number gives an event
  one attempt, with its deadlines in the past.
* The seeds name the delays of rides `delay_seconds`; the engine reads `delay_before_attempt_seconds`.
* A TTL may be shorter or longer than the time an event has left; the theorems about `TtlDispatch` say
  by how much.
* With as many suspended events as fit in a batch, other events may wait as long as the suspension
  lasts: `PendingDispatched` needs `mode.suspended < BatchSize`.
* A client that stays connected without reading stops every broadcast.
* An adapter that dies with a permit, or whose report gets no answer or ends in an error of the database
  (`lifecycle.go:235`, `:240`, `:303`), leaves its event BEING_PROCESSED for ever: no query reads `attempt_due_date`.
* A ride that ends before the page has the answer to its POST is never shown as ended.

## 6. Not modelled

* The order of the engine's start: sequential code that ends in `log.Fatal` on any error.
* `config/config.go`: reading a file and the environment into a structure.
* `cmd/cleanup` and the down migrations: statements run by hand; a running engine finds no row, as after a lost
  race, and nothing is promised of that. Table creation is idempotent DDL.
* Events of other flows in the adapter: they differ from rides in having no spinoff.
* MCP resources and REST queries other than the counts: they only read.
* What pages draw, their logs and timings; formatting, subject names and JSON.
* Lists of more than one spinoff, which only a caller other than the adapters of the repository could name.
* Clock skew between hosts.

## 7. Plan

The order was set by importance: the lifecycle and its abstract specification, then the parts it
relies on, then the compositions (rides, reconfiguration), then what observers see of it (page, counts).
All modules and runs of sections 2 and 3 and the theorems of section 4 are done. What would add most from here:

1. Lists of spinoffs: a report that publishes several follow-ups, with a failure among them.
2. A refinement from `EventLifecycle` to `Rides`. Both are shown to implement `EventStateMachine`; the
   types of events and the table of steps would have to be added to the former first.
3. Attempts of the events behind the ride page, which counts the repetitions of the whole ride: its engine part
   implements `Ride`, but is not compared with `EventStateMachine`.
4. Safety cores of `PendingDispatched` and `ResumedIsDispatched`.
5. Clean-up beside a running engine, if a promise is ever made about it.
