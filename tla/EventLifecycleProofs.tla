------------------------ MODULE EventLifecycleProofs ------------------------
(***************************************************************************)
(* Proofs about EventLifecycle, for every number of events, goroutines,    *)
(* attempts and retries.                                                   *)
(***************************************************************************)
EXTENDS EventLifecycle, TLAPS

-----------------------------------------------------------------------------
(* The row operators: each UPDATE yields a row one version on.  The version *)
(* is named and hidden where the new row is typed: the provers handle the  *)
(* record update or the sum, not both.                                     *)

LEMMA DispatchedRowOK ==
    ASSUME NEW row \in Row, NEW new, new = DispatchedRow(row)
    PROVE  /\ new \in Row /\ new.version = row.version + 1
           /\ new.status = "DISPATCHED"
           /\ new.sched = "ACTIVE"
           /\ new.left = row.left
           /\ new.failed = row.failed
  <1>. DEFINE n == row.version + 1
  <1>1. "DISPATCHED" \in Status /\ "ACTIVE" \in ScheduleState
    BY DEF Status, ScheduleState
  <1>2. n \in Nat  BY DEF Row
  <1>3. new = [row EXCEPT !.status = "DISPATCHED", !.version = n, !.sched = "ACTIVE"]
    BY DEF DispatchedRow
  <1>. HIDE DEF n
  <1>4. /\ new \in Row /\ new.version = n /\ new.status = "DISPATCHED"
        /\ new.sched = "ACTIVE"
        /\ new.left = row.left /\ new.failed = row.failed
    BY <1>1, <1>2, <1>3 DEF Row
  <1>. QED  BY <1>4 DEF n

LEMMA PermittedRowOK ==
    ASSUME NEW row \in Row, NEW new, new = PermittedRow(row)
    PROVE  /\ new \in Row /\ new.version = row.version + 1
           /\ new.status = "BEING_PROCESSED"
           /\ new.sched = "INACTIVE"
           /\ new.left = row.left
           /\ new.failed = row.failed
  <1>. DEFINE n == row.version + 1
  <1>1. "BEING_PROCESSED" \in Status /\ "INACTIVE" \in ScheduleState
    BY DEF Status, ScheduleState
  <1>2. n \in Nat  BY DEF Row
  <1>3. new = [row EXCEPT !.status = "BEING_PROCESSED", !.version = n, !.sched = "INACTIVE"]
    BY DEF PermittedRow
  <1>. HIDE DEF n
  <1>4. /\ new \in Row /\ new.version = n /\ new.status = "BEING_PROCESSED"
        /\ new.sched = "INACTIVE"
        /\ new.left = row.left /\ new.failed = row.failed
    BY <1>1, <1>2, <1>3 DEF Row
  <1>. QED  BY <1>4 DEF n

LEMMA SucceededRowOK ==
    ASSUME NEW row \in Row, NEW new, new = SucceededRow(row)
    PROVE  /\ new \in Row /\ new.version = row.version + 1
           /\ new.status = "PROCESSED"
           /\ new.sched = "INACTIVE"
           /\ new.left = row.left
           /\ new.failed = row.failed
  <1>. DEFINE n == row.version + 1
  <1>1. "PROCESSED" \in Status /\ "INACTIVE" \in ScheduleState
    BY DEF Status, ScheduleState
  <1>2. n \in Nat  BY DEF Row
  <1>3. new = [row EXCEPT !.status = "PROCESSED", !.version = n, !.sched = "INACTIVE"]
    BY DEF SucceededRow
  <1>. HIDE DEF n
  <1>4. /\ new \in Row /\ new.version = n /\ new.status = "PROCESSED"
        /\ new.sched = "INACTIVE"
        /\ new.left = row.left /\ new.failed = row.failed
    BY <1>1, <1>2, <1>3 DEF Row
  <1>. QED  BY <1>4 DEF n

LEMMA ActivatedRowOK ==
    ASSUME NEW row \in Row, NEW new, new = ActivatedRow(row)
    PROVE  /\ new \in Row /\ new.version = row.version + 1
           /\ new.status = "AWAITING_PROCESSING"
           /\ new.sched = "ACTIVE"
           /\ new.left = row.left
           /\ new.failed = row.failed
  <1>. DEFINE n == row.version + 1
  <1>1. "AWAITING_PROCESSING" \in Status /\ "ACTIVE" \in ScheduleState
    BY DEF Status, ScheduleState
  <1>2. n \in Nat  BY DEF Row
  <1>3. new = [row EXCEPT !.status = "AWAITING_PROCESSING", !.version = n, !.sched = "ACTIVE"]
    BY DEF ActivatedRow
  <1>. HIDE DEF n
  <1>4. /\ new \in Row /\ new.version = n /\ new.status = "AWAITING_PROCESSING"
        /\ new.sched = "ACTIVE"
        /\ new.left = row.left /\ new.failed = row.failed
    BY <1>1, <1>2, <1>3 DEF Row
  <1>. QED  BY <1>4 DEF n

LEMMA FailedRowOK ==
    ASSUME NEW row \in Row, NEW seen \in Row, NEW new, new = FailedRow(row, seen)
    PROVE  /\ new \in Row /\ new.version = row.version + 1
           /\ new.status = "FAILED"
           /\ new.sched = "INACTIVE"
           /\ new.left = row.left
           /\ new.failed = seen.failed + 1
  <1>. DEFINE n == row.version + 1
  <1>. DEFINE f == seen.failed + 1
  <1>1. "FAILED" \in Status /\ "INACTIVE" \in ScheduleState
    BY DEF Status, ScheduleState
  <1>2. n \in Nat /\ f \in Nat  BY DEF Row
  <1>. DEFINE moved == [row EXCEPT !.status = "FAILED", !.version = n]
  <1>3. new = [row EXCEPT !.status = "FAILED", !.version = n, !.failed = f, !.sched = "INACTIVE"]
    BY DEF FailedRow
  <1>. HIDE DEF n, f
  <1>4. /\ moved \in Row /\ moved.status = "FAILED" /\ moved.version = n
        /\ moved.left = row.left
    BY <1>1, <1>2 DEF Row
  <1>5. new = [moved EXCEPT !.failed = f, !.sched = "INACTIVE"]
    BY <1>3 DEF Row
  <1>. HIDE DEF moved
  <1>6. /\ new \in Row /\ new.version = n /\ new.status = "FAILED"
        /\ new.sched = "INACTIVE"
        /\ new.left = row.left /\ new.failed = f
    BY <1>1, <1>2, <1>4, <1>5 DEF Row
  <1>. QED  BY <1>6 DEF n, f

LEMMA NextAttemptRowOK ==
    ASSUME NEW row \in Row, NEW seen \in Row, seen.left > 1,
           NEW new, new = NextAttemptRow(row, seen)
    PROVE  /\ new \in Row /\ new.version = row.version + 1
           /\ new.status = "AWAITING_PROCESSING"
           /\ new.sched \in {"ACTIVE", "SLEEPING"}
           /\ new.left = seen.left - 1
           /\ new.failed = seen.failed + 1
  <1>. DEFINE n == row.version + 1
  <1>. DEFINE f == seen.failed + 1
  <1>. DEFINE k == seen.left - 1
  <1>. DEFINE c == SchedFor(Delayed(seen.failed + 2))
  <1>0. c \in {"ACTIVE", "SLEEPING"}  BY DEF SchedFor
  <1>1. "AWAITING_PROCESSING" \in Status /\ c \in ScheduleState
    BY <1>0 DEF Status, ScheduleState
  <1>2. n \in Nat /\ f \in Nat /\ k \in Nat  BY DEF Row
  <1>3. new = [row EXCEPT !.status = "AWAITING_PROCESSING", !.version = n, !.left = k, !.failed = f, !.sched = c]
    BY DEF NextAttemptRow
  <1>. DEFINE counted == [row EXCEPT !.left = k, !.failed = f]
  <1>. HIDE DEF n, f, k, c
  <1>4. counted \in Row /\ counted.left = k /\ counted.failed = f
    BY <1>2 DEF Row
  <1>. DEFINE moved == [counted EXCEPT !.status = "AWAITING_PROCESSING", !.version = n]
  <1>5. new = [moved EXCEPT !.sched = c]
    BY <1>3 DEF Row
  <1>. HIDE DEF counted
  <1>6. /\ moved \in Row /\ moved.status = "AWAITING_PROCESSING" /\ moved.version = n
        /\ moved.left = k /\ moved.failed = f
    BY <1>1, <1>2, <1>4 DEF Row
  <1>. HIDE DEF moved
  <1>7. /\ new \in Row /\ new.version = n /\ new.status = "AWAITING_PROCESSING"
        /\ new.sched = c
        /\ new.left = k /\ new.failed = f
    BY <1>1, <1>5, <1>6 DEF Row
  <1>. QED  BY <1>0, <1>7 DEF n, f, k

LEMMA NewRowOK ==
    ASSUME NEW onFail \in BOOLEAN, NEW new, new = NewRow(onFail)
    PROVE  /\ new \in Row /\ new.version = 1
           /\ new.status = "AWAITING_PROCESSING"
           /\ new.sched \in {"ACTIVE", "SLEEPING"}
           /\ new.left = MaxAttempts /\ new.failed = 0
  <1>1. SchedFor(FirstDelayed) \in {"ACTIVE", "SLEEPING"}  BY DEF SchedFor
  <1>. QED  BY <1>1, ConstantsOK DEF NewRow, Row, Status, ScheduleState

-----------------------------------------------------------------------------
(* The three ways a goroutine moves.                                       *)

\* Goroutine t continues at p with event e; the others do not move.
Moves(t, p, e) ==
    /\ thread' \in [Threads -> Thread]
    /\ thread'[t].pc = p /\ thread'[t].ev = e
    /\ \A u \in Threads \ {t} : thread'[u] = thread[u]

LEMMA IdleType == Idle \in Thread
  BY DEF Idle, Thread, PCs, Body, Absent, Row, ScheduleState

LEMMA ReturnMoves ==
    ASSUME TypeOK, NEW t \in Threads, Return(t)
    PROVE  Moves(t, "idle", None)
  <1>1. Idle.pc = "idle" /\ Idle.ev = None  BY DEF Idle
  <1>. QED  BY <1>1, IdleType DEF TypeOK, Return, Moves

LEMMA ProceedMoves ==
    ASSUME TypeOK, NEW t \in Threads, NEW p \in PCs, NEW e \in Events,
           NEW b \in Body, Proceed(t, p, e, b)
    PROVE  Moves(t, p, e) /\ thread'[t].body = b
  <1>. DEFINE x == [Idle EXCEPT !.pc = p, !.ev = e, !.body = b]
  <1>1. x \in Thread /\ x.pc = p /\ x.ev = e /\ x.body = b
    BY IdleType DEF Thread
  <1>2. thread' = [thread EXCEPT ![t] = x]  BY DEF Proceed
  <1>. HIDE DEF x
  <1>. QED  BY <1>1, <1>2 DEF TypeOK, Moves

LEMMA LoadMoves ==
    ASSUME TypeOK, NEW t \in Threads, NEW p \in PCs, NEW e \in Events,
           NEW b \in Body, Load(t, e, p, b)
    PROVE  Moves(t, p, e) /\ thread'[t].seen = event[e] /\ thread'[t].tries = 0
  <1>. DEFINE x == [pc |-> p, ev |-> e, seen |-> event[e], tries |-> 0, body |-> b]
  <1>1. x \in Thread  BY DEF TypeOK, Thread
  <1>2. x.pc = p /\ x.ev = e /\ x.seen = event[e] /\ x.tries = 0  OBVIOUS
  <1>3. thread' = [thread EXCEPT ![t] = x]  BY DEF Load
  <1>. HIDE DEF x
  <1>. QED  BY <1>1, <1>2, <1>3 DEF TypeOK, Moves

\* The job's UPDATE keeps the copy it loaded: the message is built from it.
LEMMA MarkMoves ==
    ASSUME TypeOK, NEW t \in Threads, MarkAsDispatched(t)
    PROVE  Moves(t, "dispatch", thread[t].ev)
  <1>. DEFINE x == [thread[t] EXCEPT !.pc = "dispatch", !.tries = 0]
  <1>1. "dispatch" \in PCs  BY DEF PCs
  <1>2. x \in Thread /\ x.pc = "dispatch" /\ x.ev = thread[t].ev
    BY <1>1 DEF TypeOK, Thread
  <1>3. thread' = [thread EXCEPT ![t] = x]  BY DEF MarkAsDispatched, TypeOK
  <1>. HIDE DEF x
  <1>. QED  BY <1>2, <1>3 DEF TypeOK, Moves

-----------------------------------------------------------------------------
(* Type correctness.                                                       *)

\* TypeOK is not inductive: the retry's UPDATE writes seen.left - 1, which is a
\* natural number because the handler tested its copy before.
ThreadsOK ==
    \A t \in Threads : /\ thread[t].pc # "idle" => thread[t].ev \in Events
                       /\ thread[t].pc = "retry" => thread[t].seen.left > 1

TypeInv == TypeOK /\ ThreadsOK

LEMMA MovesOK ==
    ASSUME TypeInv, NEW t \in Threads, NEW p, NEW e,
           Moves(t, p, e), p # "idle" => e \in Events, p # "retry"
    PROVE  ThreadsOK'
  BY DEF TypeInv, ThreadsOK, Moves

LEMMA InitTypeInv == Init => TypeInv
  <1>. SUFFICES ASSUME Init PROVE TypeInv
    OBVIOUS
  <1>1. Absent \in Row  BY DEF Absent, Row, ScheduleState
  <1>2. [kind |-> "none", of |-> None] \in Cause  BY DEF Cause
  <1>3. TypeOK  BY <1>1, <1>2, IdleType DEF Init, TypeOK, Body
  <1>4. ThreadsOK  BY DEF Init, ThreadsOK, Idle
  <1>. QED  BY <1>3, <1>4 DEF TypeInv

LEMMA FetchType ==
    ASSUME TypeInv, NEW j \in Jobs, NEW e \in Events,
           NEW p \in {"mark", "activate"}, Fetch(j, e, p)
    PROVE  TypeInv'
  <1>1. j \in Threads /\ p \in PCs /\ "data" \in Body /\ Load(j, e, p, "data")
    BY DEF Threads, PCs, Updating, Body, Fetch
  <1>2. Moves(j, p, e)  BY <1>1, LoadMoves DEF TypeInv
  <1>3. ThreadsOK'  BY <1>1, <1>2, MovesOK
  <1>. QED  BY <1>2, <1>3 DEF TypeInv, TypeOK, Fetch, Moves

LEMMA CreateType ==
    ASSUME TypeInv, NEW t \in Threads, NEW e \in Events, NEW onFail \in BOOLEAN,
           NEW why \in Cause, NEW b \in Body, Create(t, e, onFail, why, b)
    PROVE  TypeInv'
  <1>1. NewRow(onFail) \in Row  BY NewRowOK
  <1>2. "save" \in PCs /\ Proceed(t, "save", e, b)  BY DEF PCs, Create
  <1>3. Moves(t, "save", e)  BY <1>2, ProceedMoves DEF TypeInv
  <1>4. ThreadsOK'  BY <1>3, MovesOK
  <1>. QED  BY <1>1, <1>3, <1>4 DEF TypeInv, TypeOK, Create, Store, Moves

LEMMA UpdateType ==
    ASSUME TypeInv, NEW t \in Threads,
           \/ MarkAsDispatched(t) \/ ActivateSuspended(t)
           \/ AcquireProcessingPermit(t) \/ MarkAsSucceeded(t)
           \/ SwitchToNextAttempt(t) \/ MarkAsFailed(t)
    PROVE  TypeInv'
  <1>. DEFINE e == thread[t].ev
  <1>. DEFINE seen == thread[t].seen
  <1>1. /\ thread[t] \in Thread /\ thread[t].body \in Body /\ seen \in Row
        /\ None \in Events \cup {None} /\ "data" \in Body
    BY DEF TypeInv, TypeOK, Thread, Body
  <1>2. e \in Events /\ event[e] \in Row
    BY DEF TypeInv, TypeOK, ThreadsOK, MarkAsDispatched, ActivateSuspended,
           AcquireProcessingPermit, MarkAsSucceeded, SwitchToNextAttempt, MarkAsFailed
  <1>3. {"dispatch", "granted", "spinoff", "onfail"} \subseteq PCs  BY DEF PCs
  <1>. HIDE DEF e, seen
  <1>4. CASE MarkAsDispatched(t)
    <2>1. Moves(t, "dispatch", e)  BY <1>4, MarkMoves DEF TypeInv, e
    <2>2. DispatchedRow(event[e]) \in Row  BY <1>2, DispatchedRowOK
    <2>3. ThreadsOK'  BY <1>2, <2>1, MovesOK
    <2>. QED  BY <1>2, <1>4, <2>1, <2>2, <2>3
              DEF TypeInv, TypeOK, MarkAsDispatched, Store, Moves, e
  <1>5. CASE ActivateSuspended(t)
    <2>1. Moves(t, "idle", None)  BY <1>5, ReturnMoves DEF TypeInv, ActivateSuspended
    <2>2. ActivatedRow(event[e]) \in Row  BY <1>2, ActivatedRowOK
    <2>3. ThreadsOK'  BY <2>1, MovesOK
    <2>. QED  BY <1>2, <1>5, <2>1, <2>2, <2>3
              DEF TypeInv, TypeOK, ActivateSuspended, Store, Moves, e
  <1>6. CASE AcquireProcessingPermit(t)
    <2>1. Moves(t, "granted", e)
      BY <1>1, <1>2, <1>3, <1>6, ProceedMoves DEF TypeInv, AcquireProcessingPermit, e
    <2>2. PermittedRow(event[e]) \in Row  BY <1>2, PermittedRowOK
    <2>3. ThreadsOK'  BY <1>2, <2>1, MovesOK
    <2>. QED  BY <1>2, <1>6, <2>1, <2>2, <2>3
              DEF TypeInv, TypeOK, AcquireProcessingPermit, Store, Moves, e
  <1>7. CASE MarkAsSucceeded(t)
    <2>1. Moves(t, "idle", None) \/ Moves(t, "spinoff", e)
      BY <1>1, <1>2, <1>3, <1>7, ReturnMoves, ProceedMoves DEF TypeInv, MarkAsSucceeded, e
    <2>2. SucceededRow(event[e]) \in Row  BY <1>2, SucceededRowOK
    <2>3. ThreadsOK'  BY <1>2, <2>1, MovesOK
    <2>. QED  BY <1>2, <1>7, <2>1, <2>2, <2>3
              DEF TypeInv, TypeOK, MarkAsSucceeded, Store, Moves, e
  <1>8. CASE SwitchToNextAttempt(t)
    <2>1. Moves(t, "idle", None)  BY <1>8, ReturnMoves DEF TypeInv, SwitchToNextAttempt
    <2>2. seen.left > 1  BY <1>8 DEF TypeInv, ThreadsOK, SwitchToNextAttempt, seen
    <2>3. NextAttemptRow(event[e], seen) \in Row  BY <1>1, <1>2, <2>2, NextAttemptRowOK
    <2>4. ThreadsOK'  BY <2>1, MovesOK
    <2>. QED  BY <1>2, <1>8, <2>1, <2>3, <2>4
              DEF TypeInv, TypeOK, SwitchToNextAttempt, Store, Moves, e, seen
  <1>9. CASE MarkAsFailed(t)
    <2>1. Moves(t, "idle", None) \/ Moves(t, "onfail", e)
      BY <1>1, <1>2, <1>3, <1>9, ReturnMoves, ProceedMoves DEF TypeInv, MarkAsFailed, e
    <2>2. FailedRow(event[e], seen) \in Row  BY <1>1, <1>2, FailedRowOK
    <2>3. ThreadsOK'  BY <1>2, <2>1, MovesOK
    <2>. QED  BY <1>2, <1>9, <2>1, <2>2, <2>3
              DEF TypeInv, TypeOK, MarkAsFailed, Store, Moves, e, seen
  <1>. QED  BY <1>4, <1>5, <1>6, <1>7, <1>8, <1>9

LEMMA ReportType ==
    ASSUME TypeInv, NEW t \in Threads, NEW e \in Events,
           LoadForSuccess(t, e) \/ LoadForFailure(t, e),
           UNCHANGED msgs
    PROVE  TypeInv'
  <1>1. thread[t].body \in Body  BY DEF TypeInv, TypeOK, Thread
  <1>2. {"succeed", "retry", "fail"} \subseteq PCs  BY DEF PCs, Updating
  <1>3. CASE LoadForSuccess(t, e)
    <2>1. Moves(t, "succeed", e)
      BY <1>1, <1>2, <1>3, LoadMoves DEF TypeInv, LoadForSuccess
    <2>2. ThreadsOK'  BY <2>1, MovesOK
    <2>. QED  BY <1>3, <2>1, <2>2 DEF TypeInv, TypeOK, LoadForSuccess, Moves
  <1>4. CASE LoadForFailure(t, e)
    <2>. DEFINE p == IF event[e].left > 1 /\ e \notin expired THEN "retry" ELSE "fail"
    <2>1. p \in PCs /\ p # "idle"  BY <1>2
    <2>2. Moves(t, p, e) /\ thread'[t].seen = event[e]
      BY <1>1, <1>4, <2>1, LoadMoves DEF TypeInv, LoadForFailure
    <2>3. p = "retry" => event[e].left > 1  OBVIOUS
    <2>. HIDE DEF p
    <2>4. ThreadsOK'  BY <2>1, <2>2, <2>3 DEF TypeInv, ThreadsOK, Moves
    <2>5. errorLog' \in [Events -> Nat]  BY <1>4 DEF TypeInv, TypeOK, LoadForFailure,
                  LogFailure
    <2>. QED  BY <1>4, <2>2, <2>4, <2>5 DEF TypeInv, TypeOK, LoadForFailure, Moves
  <1>. QED  BY <1>3, <1>4

LEMMA PermitRequestType ==
    ASSUME TypeInv, NEW t \in Threads, NEW e \in Events, NEW b \in Body,
           LoadForPermit(t, e, b), msgs' \subseteq msgs
    PROVE  TypeInv'
  <1>1. CASE event[e].status = "DISPATCHED"
    <2>1. "permit" \in PCs  BY DEF PCs, Updating
    <2>2. Moves(t, "permit", e)  BY <1>1, <2>1, LoadMoves DEF TypeInv, LoadForPermit
    <2>3. ThreadsOK'  BY <2>2, MovesOK
    <2>. QED  BY <2>2, <2>3 DEF TypeInv, TypeOK, LoadForPermit, Moves
  <1>2. CASE event[e].status # "DISPATCHED"
    <2>1. UNCHANGED thread  BY <1>2 DEF LoadForPermit
    <2>. QED  BY <2>1 DEF TypeInv, TypeOK, ThreadsOK, LoadForPermit
  <1>. QED  BY <1>1, <1>2

\* The steps that leave every row as it is: what they do to the other goroutines
\* and stores never matters to a row.
LEMMA QuietType ==
    ASSUME TypeInv, NEW t \in Threads,
           \/ SavePayload(t) \/ Dispatch(t) \/ DispatchExpired(t) \/ AnswerPermit(t)
           \/ RaceLost(t) \/ ReturnError(t) \/ Abort(t)
    PROVE  TypeInv'
  <1>1. /\ thread[t] \in Thread /\ thread[t].body \in Body /\ thread[t].tries \in Nat
        /\ thread[t].ev \in Events \cup {None} /\ thread[t].seen.version + 1 \in Nat
        /\ "data" \in Body
    BY DEF TypeInv, TypeOK, Thread, Body, Row
  <1>2. {"idle", "working", "error"} \subseteq PCs  BY DEF PCs
  <1>3. thread[t].pc # "idle" => thread[t].ev \in Events  BY DEF TypeInv, ThreadsOK
  <1>4. Moves(t, "idle", None) => ThreadsOK'  BY MovesOK
  <1>5. CASE SavePayload(t)
    <2>1. Moves(t, "idle", None)  BY <1>5, ReturnMoves DEF TypeInv, SavePayload
    <2>. QED  BY <1>1, <1>3, <1>4, <1>5, <2>1 DEF TypeInv, TypeOK, SavePayload, Moves
  <1>6. CASE Dispatch(t)
    <2>1. Moves(t, "idle", None)  BY <1>6, ReturnMoves DEF TypeInv, Dispatch
    <2>2. msgs' \subseteq Message
      BY <1>1, <1>3, <1>6 DEF TypeInv, TypeOK, Dispatch, Message
    <2>. QED  BY <1>4, <1>6, <2>1, <2>2 DEF TypeInv, TypeOK, Dispatch, Moves
  <1>7. CASE DispatchExpired(t) \/ ReturnError(t) \/ Abort(t)
    <2>1. Moves(t, "idle", None)
      BY <1>7, ReturnMoves DEF TypeInv, DispatchExpired, ReturnError, Abort
    <2>. QED  BY <1>4, <1>7, <2>1
              DEF TypeInv, TypeOK, DispatchExpired, ReturnError, Abort, Moves
  <1>8. CASE AnswerPermit(t)
    <2>. DEFINE e == thread[t].ev
    <2>1. \/ Proceed(t, "error", e, "data")
          \/ Proceed(t, "working", e, thread[t].body)
          \/ Return(t)
      BY <1>8 DEF AnswerPermit
    <2>2. \/ Moves(t, "error", e) \/ Moves(t, "working", e) \/ Moves(t, "idle", None)
      BY <1>1, <1>2, <1>3, <1>8, <2>1, ReturnMoves, ProceedMoves DEF TypeInv, AnswerPermit
    <2>3. ThreadsOK'  BY <1>3, <1>8, <2>2, MovesOK DEF AnswerPermit
    <2>. QED  BY <1>8, <2>2, <2>3 DEF TypeInv, TypeOK, AnswerPermit, Moves
  <1>9. CASE RaceLost(t)
    <2>1. CASE thread[t].tries + 1 < MaxRetries
      <3>. DEFINE n == thread[t].tries + 1
      <3>. DEFINE x == [thread[t] EXCEPT !.tries = n]
      <3>1. n \in Nat  BY <1>1
      <3>2. thread' = [thread EXCEPT ![t] = x]  BY <1>9, <2>1 DEF RaceLost, TypeInv, TypeOK
      <3>. HIDE DEF n
      <3>3. /\ x \in Thread /\ x.pc = thread[t].pc /\ x.ev = thread[t].ev
            /\ x.seen = thread[t].seen
        BY <1>1, <3>1 DEF Thread
      <3>. HIDE DEF x
      <3>4. ThreadsOK' /\ thread' \in [Threads -> Thread]
        BY <3>2, <3>3 DEF TypeInv, TypeOK, ThreadsOK
      <3>. QED  BY <1>9, <3>4 DEF TypeInv, TypeOK, RaceLost
    <2>2. CASE ~ (thread[t].tries + 1 < MaxRetries)
      <3>0. Proceed(t, "error", thread[t].ev, "data") /\ thread[t].ev \in Events
        BY <1>3, <1>9, <2>2 DEF RaceLost, Updating
      <3>1. Moves(t, "error", thread[t].ev)
        BY <1>1, <1>2, <3>0, ProceedMoves DEF TypeInv
      <3>2. thread[t].pc # "idle"  BY <1>9 DEF RaceLost, Updating
      <3>3. ThreadsOK'  BY <1>3, <3>1, <3>2, MovesOK
      <3>. QED  BY <1>9, <3>1, <3>3 DEF TypeInv, TypeOK, RaceLost, Moves
    <2>. QED  BY <2>1, <2>2
  <1>. QED  BY <1>5, <1>6, <1>7, <1>8, <1>9

LEMMA TypeStep == TypeInv /\ [Next]_vars => TypeInv'
  <1>. SUFFICES ASSUME TypeInv, [Next]_vars PROVE TypeInv'
    OBVIOUS
  <1>1. Jobs \subseteq Threads /\ Adapters \subseteq Threads
        /\ Clients \subseteq Threads /\ Operators \subseteq Threads
    BY DEF Threads
  <1>2. ASSUME NEW j \in Jobs, JobStep(j) PROVE TypeInv'
    <2>1. ASSUME NEW e \in Events, \/ FindPendingEvents(j, e)
                                   \/ FindScheduledEvents(j, e)
                                   \/ FindExpiredSuspendedEvents(j, e)
          PROVE TypeInv'
      BY <2>1, FetchType
         DEF FindPendingEvents, FindScheduledEvents, FindExpiredSuspendedEvents
    <2>2. CASE MarkAsDispatched(j) \/ ActivateSuspended(j)
      BY <1>1, <2>2, UpdateType
    <2>3. CASE Dispatch(j) \/ DispatchExpired(j)
      BY <1>1, <2>3, QuietType
    <2>. QED  BY <1>2, <2>1, <2>2, <2>3 DEF JobStep
  <1>3. ASSUME NEW t \in Threads, CallStep(t) PROVE TypeInv'
    <2>1. CASE \/ AcquireProcessingPermit(t) \/ MarkAsSucceeded(t)
               \/ SwitchToNextAttempt(t) \/ MarkAsFailed(t)
      BY <2>1, UpdateType
    <2>2. CASE AnswerPermit(t) \/ SavePayload(t)
      BY <2>2, QuietType
    <2>3. thread[t].pc # "idle" => thread[t].ev \in Events  BY DEF TypeInv, ThreadsOK
    <2>4. ASSUME NEW e \in Events, PublishSpinoff(t, e) PROVE TypeInv'
      <3>. DEFINE why == [kind |-> "spinoff", of |-> thread[t].ev]
      <3>1. why \in Cause  BY <2>3, <2>4 DEF PublishSpinoff, Cause
      <3>2. thread[t].body \in Body  BY DEF TypeInv, TypeOK, Thread
      <3>. QED  BY <2>4, <3>1, <3>2, CreateType DEF PublishSpinoff
    <2>5. ASSUME NEW e \in Events, PublishOnFail(t, e) PROVE TypeInv'
      <3>. DEFINE why == [kind |-> "onfail", of |-> thread[t].ev]
                  p   == payload[thread[t].ev]
                  b   == IF p = "none" THEN "blank" ELSE p
      <3>1. why \in Cause  BY <2>3, <2>5 DEF PublishOnFail, Cause
      <3>2. b \in Body  BY <2>3, <2>5 DEF TypeInv, TypeOK, PublishOnFail, Body
      <3>3. Create(t, e, FALSE, why, b)  BY <2>5 DEF PublishOnFail
      <3>. HIDE DEF why, b
      <3>. QED  BY <3>1, <3>2, <3>3, CreateType
    <2>. QED  BY <1>3, <2>1, <2>2, <2>4, <2>5 DEF CallStep
  <1>4. ASSUME NEW t \in Threads, RaceLost(t) \/ ReturnError(t) PROVE TypeInv'
    BY <1>4, QuietType
  <1>5. ASSUME NEW a \in Adapters, Report(a) PROVE TypeInv'
    <2>1. thread[a].ev \in Events  BY <1>1, <1>5 DEF Report, TypeInv, ThreadsOK
    <2>. QED  BY <1>1, <1>5, <2>1, ReportType
              DEF Report, LoadForSuccess, LoadForFailure
  <1>6. ASSUME NEW a \in Adapters, NEW m \in msgs, HandleMessage(a, m) PROVE TypeInv'
    <2>1. m.ev \in Events /\ m.body \in Body  BY DEF TypeInv, TypeOK, Message
    <2>. QED  BY <1>1, <1>6, <2>1, PermitRequestType DEF HandleMessage
  <1>7. ASSUME NEW c \in Clients, NEW e \in Events, Publish(c, e) PROVE TypeInv'
    <2>1. [kind |-> "client", of |-> None] \in Cause /\ "data" \in Body
      BY DEF Cause, Body
    <2>. QED  BY <1>1, <1>7, <2>1, CreateType DEF Publish
  <1>8. ASSUME NEW o \in Operators, NEW e \in Events, OperatorCall(o, e) PROVE TypeInv'
    <2>1. "data" \in Body  BY DEF Body
    <2>. QED  BY <1>1, <1>8, <2>1, ReportType, PermitRequestType
              DEF OperatorCall, AcquireCall, SuccessCall, FailureCall,
              LoadForSuccess, LoadForFailure
  <1>9. CASE Environment
    <2>1. ASSUME NEW t \in Threads, Abort(t) PROVE TypeInv'
      BY <2>1, QuietType
    <2>2. CASE Restart
      <3>1. thread' \in [Threads -> Thread] /\ ThreadsOK'
        BY <2>2, IdleType DEF TypeInv, TypeOK, ThreadsOK, Restart, Idle
      <3>. QED  BY <2>2, <3>1 DEF TypeInv, TypeOK, Restart
    <2>3. ASSUME NEW m \in msgs, LoseMessage(m) PROVE TypeInv'
      BY <2>3 DEF TypeInv, TypeOK, ThreadsOK, LoseMessage
    <2>4. ASSUME NEW e \in Events, AttemptComesDue(e) \/ EventExpires(e) PROVE TypeInv'
      BY <2>4 DEF TypeInv, TypeOK, ThreadsOK, AttemptComesDue, EventExpires
    <2>. QED  BY <1>9, <2>1, <2>2, <2>3, <2>4 DEF Environment
  <1>10. CASE UNCHANGED vars
    BY <1>10 DEF TypeInv, TypeOK, ThreadsOK, vars
  <1>. QED  BY <1>2, <1>3, <1>4, <1>5, <1>6, <1>7, <1>8, <1>9, <1>10 DEF Next

\* Every variable keeps its type in every behaviour of the engine, with
\* operators that call the API in any order.
THEOREM TypeCorrect == Spec => []TypeOK
  <1>1. TypeInv => TypeOK  BY DEF TypeInv
  <1>. QED  BY InitTypeInv, TypeStep, <1>1, PTL DEF Spec

-----------------------------------------------------------------------------
(* What a step can do.  The theorems below never look at the actions again, *)
(* only at these four shapes.                                              *)

OthersStay(u) == \A v \in Threads \ {u} : thread'[v] = thread[v]

\* No row changes and no copy is taken: goroutines stay, end, answer or repeat.
QuietStep ==
    /\ event' = event /\ cause' = cause
    /\ \A u \in Threads :
          \/ thread'[u] = thread[u]
          \/ thread'[u].pc \in {"idle", "error"}
          \/ /\ thread[u].pc = "granted" /\ thread'[u].pc = "working"
             /\ thread'[u].ev = thread[u].ev
          \/ /\ thread[u].pc \in Updating /\ ~Matches(u)
             /\ thread'[u].pc = thread[u].pc /\ thread'[u].ev = thread[u].ev
             /\ thread'[u].seen = thread[u].seen

\* Goroutine u, which holds no other copy, copies the row of e.
LoadStep(u, e) ==
    /\ thread[u].pc \in {"idle", "working"}
    /\ event' = event /\ cause' = cause /\ OthersStay(u)
    /\ event[e] # Absent
    /\ thread'[u].ev = e /\ thread'[u].seen = event[e] /\ thread'[u].tries = 0
    /\ \/ /\ thread'[u].pc = "mark"
          /\ event[e].status = "AWAITING_PROCESSING" \/ event[e].sched = "ACTIVE"
       \/ thread'[u].pc = "activate" /\ event[e].sched = "SLEEPING"
       \/ thread'[u].pc = "permit" /\ event[e].status = "DISPATCHED"
       \/ /\ thread'[u].pc \in {"succeed", "retry", "fail"}
          /\ thread'[u].pc = "retry" => event[e].left > 1
          /\ (thread[u].pc = "working" /\ thread[u].ev = e) \/ u \in Operators

\* Goroutine u finds the row of e at the version of its copy and updates it.
UpdateStep(u, e, new) ==
    /\ thread[u].pc \in Updating /\ thread[u].ev = e /\ Matches(u)
    /\ new \in Row /\ new.version = event[e].version + 1
    /\ event' = [event EXCEPT ![e] = new]
    /\ cause' = cause /\ OthersStay(u)
    /\ thread'[u].pc # "idle" => thread'[u].ev = e
    /\ \/ /\ thread[u].pc = "mark" /\ thread'[u].pc = "dispatch"
          /\ new.status = "DISPATCHED" /\ new.sched = "ACTIVE"
          /\ new.left = event[e].left /\ new.failed = event[e].failed
       \/ /\ thread[u].pc = "activate" /\ thread'[u].pc = "idle"
          /\ new.status = "AWAITING_PROCESSING" /\ new.sched = "ACTIVE"
          /\ new.left = event[e].left /\ new.failed = event[e].failed
       \/ /\ thread[u].pc = "permit" /\ thread'[u].pc = "granted"
          /\ new.status = "BEING_PROCESSED" /\ new.sched = "INACTIVE"
          /\ new.left = event[e].left /\ new.failed = event[e].failed
       \/ /\ thread[u].pc = "succeed" /\ thread'[u].pc \in {"idle", "spinoff"}
          /\ new.status = "PROCESSED" /\ new.sched = "INACTIVE"
          /\ new.left = event[e].left /\ new.failed = event[e].failed
       \/ /\ thread[u].pc = "retry" /\ thread'[u].pc = "idle"
          /\ new.status = "AWAITING_PROCESSING" /\ new.sched \in {"ACTIVE", "SLEEPING"}
          /\ new.left = thread[u].seen.left - 1
          /\ new.failed = thread[u].seen.failed + 1
       \/ /\ thread[u].pc = "fail" /\ thread'[u].pc \in {"idle", "onfail"}
          /\ new.status = "FAILED" /\ new.sched = "INACTIVE"
          /\ new.left = event[e].left /\ new.failed = thread[u].seen.failed + 1

\* Goroutine u inserts the row of e, for a reason.
CreateStep(u, e, new, why) ==
    /\ event[e] = Absent
    /\ new \in Row /\ new.version = 1
    /\ new.status = "AWAITING_PROCESSING" /\ new.sched \in {"ACTIVE", "SLEEPING"}
    /\ new.left = MaxAttempts /\ new.failed = 0
    /\ event' = [event EXCEPT ![e] = new]
    /\ cause' = [cause EXCEPT ![e] = why]
    /\ OthersStay(u) /\ thread'[u].pc = "save"
    /\ \/ thread[u].pc = "idle" /\ why = [kind |-> "client", of |-> None]
       \/ thread[u].pc = "spinoff" /\ why = [kind |-> "spinoff", of |-> thread[u].ev]
       \/ thread[u].pc = "onfail" /\ why = [kind |-> "onfail", of |-> thread[u].ev]

Shape ==
    \/ QuietStep
    \/ \E u \in Threads, e \in Events : LoadStep(u, e)
    \/ \E u \in Threads, e \in Events, new \in Row : UpdateStep(u, e, new)
    \/ \E u \in Threads, e \in Events, new \in Row :
          \E why \in Cause : CreateStep(u, e, new, why)

LEMMA AbsentStatus == Absent.status = "ABSENT" /\ Absent.version = 0
                      /\ Absent.sched = "INACTIVE"
  BY DEF Absent

LEMMA FetchShape ==
    ASSUME TypeInv, NEW j \in Jobs, NEW e \in Events,
           \/ FindPendingEvents(j, e) \/ FindScheduledEvents(j, e)
           \/ FindExpiredSuspendedEvents(j, e)
    PROVE  LoadStep(j, e)
  <1>1. j \in Threads /\ {"mark", "activate"} \subseteq PCs /\ "data" \in Body
    BY DEF Threads, PCs, Updating, Body
  <1>2. CASE FindPendingEvents(j, e)
    <2>1. Load(j, e, "mark", "data") /\ thread[j].pc = "idle"
          /\ event' = event /\ cause' = cause
      BY <1>2 DEF FindPendingEvents, Fetch
    <2>2. Moves(j, "mark", e) /\ thread'[j].seen = event[e] /\ thread'[j].tries = 0
      BY <1>1, <2>1, LoadMoves DEF TypeInv
    <2>. QED  BY <1>2, <2>1, <2>2, AbsentStatus
              DEF FindPendingEvents, LoadStep, Moves, OthersStay
  <1>3. CASE FindScheduledEvents(j, e)
    <2>1. Load(j, e, "mark", "data") /\ thread[j].pc = "idle"
          /\ event' = event /\ cause' = cause
      BY <1>3 DEF FindScheduledEvents, Fetch
    <2>2. Moves(j, "mark", e) /\ thread'[j].seen = event[e] /\ thread'[j].tries = 0
      BY <1>1, <2>1, LoadMoves DEF TypeInv
    <2>. QED  BY <1>3, <2>1, <2>2 DEF FindScheduledEvents, LoadStep, Moves, OthersStay
  <1>4. CASE FindExpiredSuspendedEvents(j, e)
    <2>1. Load(j, e, "activate", "data") /\ thread[j].pc = "idle"
          /\ event' = event /\ cause' = cause
      BY <1>4 DEF FindExpiredSuspendedEvents, Fetch
    <2>2. Moves(j, "activate", e) /\ thread'[j].seen = event[e] /\ thread'[j].tries = 0
      BY <1>1, <2>1, LoadMoves DEF TypeInv
    <2>. QED  BY <1>4, <2>1, <2>2
              DEF FindExpiredSuspendedEvents, LoadStep, Moves, OthersStay
  <1>. QED  BY <1>2, <1>3, <1>4

LEMMA CreateShape ==
    ASSUME TypeInv, NEW t \in Threads, NEW e \in Events, NEW onFail \in BOOLEAN,
           NEW why \in Cause, NEW b \in Body, Create(t, e, onFail, why, b),
           \/ thread[t].pc = "idle" /\ why = [kind |-> "client", of |-> None]
           \/ thread[t].pc = "spinoff" /\ why = [kind |-> "spinoff", of |-> thread[t].ev]
           \/ thread[t].pc = "onfail" /\ why = [kind |-> "onfail", of |-> thread[t].ev]
    PROVE  \E new \in Row : CreateStep(t, e, new, why)
  <1>. DEFINE new == NewRow(onFail)
  <1>1. /\ new \in Row /\ new.version = 1 /\ new.status = "AWAITING_PROCESSING"
        /\ new.sched \in {"ACTIVE", "SLEEPING"}
        /\ new.left = MaxAttempts /\ new.failed = 0
    BY NewRowOK
  <1>2. "save" \in PCs /\ Proceed(t, "save", e, b)  BY DEF PCs, Create
  <1>3. Moves(t, "save", e)  BY <1>2, ProceedMoves DEF TypeInv
  <1>4. event[e] = Absent /\ event' = [event EXCEPT ![e] = new]
        /\ cause' = [cause EXCEPT ![e] = why]
    BY DEF Create, Store
  <1>. HIDE DEF new
  <1>5. CreateStep(t, e, new, why)  BY <1>1, <1>3, <1>4 DEF CreateStep, Moves, OthersStay
  <1>. QED  BY <1>1, <1>5

LEMMA UpdateShape ==
    ASSUME TypeInv, NEW t \in Threads,
           \/ MarkAsDispatched(t) \/ ActivateSuspended(t)
           \/ AcquireProcessingPermit(t) \/ MarkAsSucceeded(t)
           \/ SwitchToNextAttempt(t) \/ MarkAsFailed(t)
    PROVE  \E e \in Events, new \in Row : UpdateStep(t, e, new)
  <1>. DEFINE e == thread[t].ev
  <1>. DEFINE seen == thread[t].seen
  <1>1. /\ thread[t].body \in Body /\ seen \in Row /\ "data" \in Body
        /\ {"mark", "activate", "permit", "succeed", "retry", "fail"} = Updating
    BY DEF TypeInv, TypeOK, Thread, Body, Updating
  <1>2. e \in Events /\ event[e] \in Row
    BY DEF TypeInv, TypeOK, ThreadsOK, MarkAsDispatched, ActivateSuspended,
           AcquireProcessingPermit, MarkAsSucceeded, SwitchToNextAttempt, MarkAsFailed
  <1>3. {"dispatch", "granted", "spinoff", "onfail"} \subseteq PCs  BY DEF PCs
  <1>4. thread[t].ev = e /\ thread[t].seen = seen  OBVIOUS
  <1>. HIDE DEF e, seen
  <1>5. CASE MarkAsDispatched(t)
    <2>. DEFINE new == DispatchedRow(event[e])
    <2>1. Moves(t, "dispatch", e)  BY <1>4, <1>5, MarkMoves DEF TypeInv
    <2>2. /\ thread[t].pc = "mark" /\ Matches(t) /\ cause' = cause
          /\ event' = [event EXCEPT ![e] = new]
      BY <1>4, <1>5 DEF MarkAsDispatched, Store
    <2>3. /\ new \in Row /\ new.version = event[e].version + 1
          /\ new.status = "DISPATCHED" /\ new.sched = "ACTIVE"
          /\ new.left = event[e].left /\ new.failed = event[e].failed
      BY <1>2, DispatchedRowOK
    <2>. HIDE DEF new
    <2>4. UpdateStep(t, e, new)
      BY <1>1, <1>4, <2>1, <2>2, <2>3 DEF UpdateStep, Moves, OthersStay
    <2>. QED  BY <1>2, <2>3, <2>4
  <1>6. CASE ActivateSuspended(t)
    <2>. DEFINE new == ActivatedRow(event[e])
    <2>1. Moves(t, "idle", None)  BY <1>6, ReturnMoves DEF TypeInv, ActivateSuspended
    <2>2. /\ thread[t].pc = "activate" /\ Matches(t) /\ cause' = cause
          /\ event' = [event EXCEPT ![e] = new]
      BY <1>4, <1>6 DEF ActivateSuspended, Store
    <2>3. /\ new \in Row /\ new.version = event[e].version + 1
          /\ new.status = "AWAITING_PROCESSING" /\ new.sched = "ACTIVE"
          /\ new.left = event[e].left /\ new.failed = event[e].failed
      BY <1>2, ActivatedRowOK
    <2>. HIDE DEF new
    <2>4. UpdateStep(t, e, new)
      BY <1>1, <1>4, <2>1, <2>2, <2>3 DEF UpdateStep, Moves, OthersStay
    <2>. QED  BY <1>2, <2>3, <2>4
  <1>7. CASE AcquireProcessingPermit(t)
    <2>. DEFINE new == PermittedRow(event[e])
    <2>0. Proceed(t, "granted", e, thread[t].body)
      BY <1>4, <1>7 DEF AcquireProcessingPermit
    <2>1. Moves(t, "granted", e)
      BY <1>1, <1>2, <1>3, <2>0, ProceedMoves DEF TypeInv
    <2>2. /\ thread[t].pc = "permit" /\ Matches(t) /\ cause' = cause
          /\ event' = [event EXCEPT ![e] = new]
      BY <1>4, <1>7 DEF AcquireProcessingPermit, Store
    <2>3. /\ new \in Row /\ new.version = event[e].version + 1
          /\ new.status = "BEING_PROCESSED" /\ new.sched = "INACTIVE"
          /\ new.left = event[e].left /\ new.failed = event[e].failed
      BY <1>2, PermittedRowOK
    <2>. HIDE DEF new
    <2>4. UpdateStep(t, e, new)
      BY <1>1, <1>4, <2>1, <2>2, <2>3 DEF UpdateStep, Moves, OthersStay
    <2>. QED  BY <1>2, <2>3, <2>4
  <1>8. CASE MarkAsSucceeded(t)
    <2>. DEFINE new == SucceededRow(event[e])
    <2>0. Return(t) \/ Proceed(t, "spinoff", e, thread[t].body)
      BY <1>4, <1>8 DEF MarkAsSucceeded
    <2>1. Moves(t, "idle", None) \/ Moves(t, "spinoff", e)
      BY <1>1, <1>2, <1>3, <2>0, ReturnMoves, ProceedMoves DEF TypeInv
    <2>2. /\ thread[t].pc = "succeed" /\ Matches(t) /\ cause' = cause
          /\ event' = [event EXCEPT ![e] = new]
      BY <1>4, <1>8 DEF MarkAsSucceeded, Store
    <2>3. /\ new \in Row /\ new.version = event[e].version + 1
          /\ new.status = "PROCESSED" /\ new.sched = "INACTIVE"
          /\ new.left = event[e].left /\ new.failed = event[e].failed
      BY <1>2, SucceededRowOK
    <2>. HIDE DEF new
    <2>4. UpdateStep(t, e, new)
      BY <1>1, <1>4, <2>1, <2>2, <2>3 DEF UpdateStep, Moves, OthersStay
    <2>. QED  BY <1>2, <2>3, <2>4
  <1>9. CASE SwitchToNextAttempt(t)
    <2>. DEFINE new == NextAttemptRow(event[e], seen)
    <2>1. Moves(t, "idle", None)  BY <1>9, ReturnMoves DEF TypeInv, SwitchToNextAttempt
    <2>2. /\ thread[t].pc = "retry" /\ Matches(t) /\ cause' = cause
          /\ event' = [event EXCEPT ![e] = new]
      BY <1>4, <1>9 DEF SwitchToNextAttempt, Store
    <2>3. seen.left > 1  BY <1>4, <2>2 DEF TypeInv, ThreadsOK
    <2>4. /\ new \in Row /\ new.version = event[e].version + 1
          /\ new.status = "AWAITING_PROCESSING" /\ new.sched \in {"ACTIVE", "SLEEPING"}
          /\ new.left = seen.left - 1 /\ new.failed = seen.failed + 1
      BY <1>1, <1>2, <2>3, NextAttemptRowOK
    <2>. HIDE DEF new
    <2>5. UpdateStep(t, e, new)
      BY <1>1, <1>4, <2>1, <2>2, <2>4 DEF UpdateStep, Moves, OthersStay
    <2>. QED  BY <1>2, <2>4, <2>5
  <1>10. CASE MarkAsFailed(t)
    <2>. DEFINE new == FailedRow(event[e], seen)
    <2>0. Return(t) \/ Proceed(t, "onfail", e, "data")
      BY <1>4, <1>10 DEF MarkAsFailed
    <2>1. Moves(t, "idle", None) \/ Moves(t, "onfail", e)
      BY <1>1, <1>2, <1>3, <2>0, ReturnMoves, ProceedMoves DEF TypeInv
    <2>2. /\ thread[t].pc = "fail" /\ Matches(t) /\ cause' = cause
          /\ event' = [event EXCEPT ![e] = new]
      BY <1>4, <1>10 DEF MarkAsFailed, Store
    <2>3. /\ new \in Row /\ new.version = event[e].version + 1
          /\ new.status = "FAILED" /\ new.sched = "INACTIVE"
          /\ new.left = event[e].left /\ new.failed = seen.failed + 1
      BY <1>1, <1>2, FailedRowOK
    <2>. HIDE DEF new
    <2>4. UpdateStep(t, e, new)
      BY <1>1, <1>4, <2>1, <2>2, <2>3 DEF UpdateStep, Moves, OthersStay
    <2>. QED  BY <1>2, <2>3, <2>4
  <1>. QED  BY <1>5, <1>6, <1>7, <1>8, <1>9, <1>10

LEMMA ReportShape ==
    ASSUME TypeInv, NEW t \in Threads, NEW e \in Events,
           LoadForSuccess(t, e) \/ LoadForFailure(t, e),
           \/ thread[t].pc = "working" /\ thread[t].ev = e
           \/ thread[t].pc = "idle" /\ t \in Operators
    PROVE  LoadStep(t, e)
  <1>1. thread[t].body \in Body  BY DEF TypeInv, TypeOK, Thread
  <1>2. {"succeed", "retry", "fail"} \subseteq PCs  BY DEF PCs, Updating
  <1>3. CASE LoadForSuccess(t, e)
    <2>1. Moves(t, "succeed", e) /\ thread'[t].seen = event[e] /\ thread'[t].tries = 0
      BY <1>1, <1>2, <1>3, LoadMoves DEF TypeInv, LoadForSuccess
    <2>. QED  BY <1>3, <2>1 DEF LoadForSuccess, LoadStep, Moves, OthersStay
  <1>4. CASE LoadForFailure(t, e)
    <2>. DEFINE p == IF event[e].left > 1 /\ e \notin expired THEN "retry" ELSE "fail"
    <2>1. p \in PCs /\ p \in {"retry", "fail"} /\ (p = "retry" => event[e].left > 1)
      BY <1>2
    <2>2. Load(t, e, p, thread[t].body) /\ event' = event /\ cause' = cause
          /\ event[e] # Absent
      BY <1>4 DEF LoadForFailure
    <2>. HIDE DEF p
    <2>3. Moves(t, p, e) /\ thread'[t].seen = event[e] /\ thread'[t].tries = 0
      BY <1>1, <2>1, <2>2, LoadMoves DEF TypeInv
    <2>. QED  BY <2>1, <2>2, <2>3 DEF LoadStep, Moves, OthersStay
  <1>. QED  BY <1>3, <1>4

LEMMA PermitRequestShape ==
    ASSUME TypeInv, NEW t \in Threads, NEW e \in Events, NEW b \in Body,
           LoadForPermit(t, e, b)
    PROVE  LoadStep(t, e) \/ QuietStep
  <1>1. CASE event[e].status = "DISPATCHED"
    <2>1. "permit" \in PCs  BY DEF PCs, Updating
    <2>2. Moves(t, "permit", e) /\ thread'[t].seen = event[e] /\ thread'[t].tries = 0
      BY <1>1, <2>1, LoadMoves DEF TypeInv, LoadForPermit
    <2>. QED  BY <1>1, <2>2, AbsentStatus DEF LoadForPermit, LoadStep, Moves, OthersStay
  <1>2. CASE event[e].status # "DISPATCHED"
    BY <1>2 DEF LoadForPermit, QuietStep
  <1>. QED  BY <1>1, <1>2

LEMMA QuietShape ==
    ASSUME TypeInv, NEW t \in Threads,
           \/ SavePayload(t) \/ Dispatch(t) \/ DispatchExpired(t) \/ AnswerPermit(t)
           \/ RaceLost(t) \/ ReturnError(t) \/ Abort(t)
    PROVE  QuietStep
  <1>1. /\ thread[t].body \in Body /\ "data" \in Body
        /\ thread[t].pc # "idle" => thread[t].ev \in Events
        /\ {"working", "error"} \subseteq PCs
    BY DEF TypeInv, TypeOK, ThreadsOK, Thread, Body, PCs
  <1>2. CASE SavePayload(t) \/ Dispatch(t) \/ DispatchExpired(t) \/ ReturnError(t) \/ Abort(t)
    <2>1. Return(t) /\ event' = event /\ cause' = cause
      BY <1>2 DEF SavePayload, Dispatch, DispatchExpired, ReturnError, Abort
    <2>2. Moves(t, "idle", None)  BY <2>1, ReturnMoves DEF TypeInv
    <2>. QED  BY <2>1, <2>2 DEF QuietStep, Moves
  <1>3. CASE AnswerPermit(t)
    <2>. DEFINE e == thread[t].ev
    <2>1. /\ event' = event /\ cause' = cause
          /\ thread[t].pc = "granted"
          /\ \/ Proceed(t, "error", e, "data")
             \/ Proceed(t, "working", e, thread[t].body)
             \/ Return(t)
      BY <1>3 DEF AnswerPermit
    <2>2. \/ Moves(t, "error", e) \/ Moves(t, "working", e) \/ Moves(t, "idle", None)
      BY <1>1, <2>1, ReturnMoves, ProceedMoves DEF TypeInv
    <2>. QED  BY <2>1, <2>2 DEF QuietStep, Moves
  <1>4. CASE RaceLost(t)
    <2>1. thread[t].pc \in Updating /\ ~Matches(t) /\ event' = event /\ cause' = cause
      BY <1>4 DEF RaceLost
    <2>2. CASE thread[t].tries + 1 < MaxRetries
      <3>. DEFINE x == [thread[t] EXCEPT !.tries = thread[t].tries + 1]
      <3>1. thread' = [thread EXCEPT ![t] = x]
        BY <1>4, <2>2 DEF RaceLost, TypeInv, TypeOK
      <3>2. x.pc = thread[t].pc /\ x.ev = thread[t].ev /\ x.seen = thread[t].seen
        BY DEF TypeInv, TypeOK, Thread
      <3>. HIDE DEF x
      <3>. QED  BY <2>1, <3>1, <3>2 DEF TypeInv, TypeOK, QuietStep
    <2>3. CASE ~ (thread[t].tries + 1 < MaxRetries)
      <3>1. Proceed(t, "error", thread[t].ev, "data") /\ thread[t].ev \in Events
        BY <1>1, <1>4, <2>1, <2>3 DEF RaceLost, Updating
      <3>2. Moves(t, "error", thread[t].ev)  BY <1>1, <3>1, ProceedMoves DEF TypeInv
      <3>. QED  BY <2>1, <3>2 DEF QuietStep, Moves
    <2>. QED  BY <2>2, <2>3
  <1>. QED  BY <1>2, <1>3, <1>4

LEMMA NextShape ==
    ASSUME TypeInv, [Next]_vars
    PROVE  Shape
  <1>1. Jobs \subseteq Threads /\ Adapters \subseteq Threads
        /\ Clients \subseteq Threads /\ Operators \subseteq Threads
    BY DEF Threads
  <1>2. ASSUME NEW j \in Jobs, JobStep(j) PROVE Shape
    <2>1. ASSUME NEW e \in Events, \/ FindPendingEvents(j, e)
                                   \/ FindScheduledEvents(j, e)
                                   \/ FindExpiredSuspendedEvents(j, e)
          PROVE Shape
      BY <1>1, <2>1, FetchShape DEF Shape
    <2>2. CASE MarkAsDispatched(j) \/ ActivateSuspended(j)
      BY <1>1, <2>2, UpdateShape DEF Shape
    <2>3. CASE Dispatch(j) \/ DispatchExpired(j)
      BY <1>1, <2>3, QuietShape DEF Shape
    <2>. QED  BY <1>2, <2>1, <2>2, <2>3 DEF JobStep
  <1>3. ASSUME NEW t \in Threads, CallStep(t) PROVE Shape
    <2>1. CASE \/ AcquireProcessingPermit(t) \/ MarkAsSucceeded(t)
               \/ SwitchToNextAttempt(t) \/ MarkAsFailed(t)
      BY <2>1, UpdateShape DEF Shape
    <2>2. CASE AnswerPermit(t) \/ SavePayload(t)
      BY <2>2, QuietShape DEF Shape
    <2>3. thread[t].pc # "idle" => thread[t].ev \in Events  BY DEF TypeInv, ThreadsOK
    <2>4. ASSUME NEW e \in Events, PublishSpinoff(t, e) PROVE Shape
      <3>. DEFINE why == [kind |-> "spinoff", of |-> thread[t].ev]
      <3>1. why \in Cause  BY <2>3, <2>4 DEF PublishSpinoff, Cause
      <3>2. thread[t].body \in Body /\ thread[t].pc = "spinoff"
        BY <2>4 DEF TypeInv, TypeOK, Thread, PublishSpinoff
      <3>3. PICK onFail \in BOOLEAN : Create(t, e, onFail, why, thread[t].body)
        BY <2>4 DEF PublishSpinoff
      <3>4. \E new \in Row : CreateStep(t, e, new, why)
        BY <3>1, <3>2, <3>3, CreateShape
      <3>. HIDE DEF why
      <3>. QED  BY <3>1, <3>4 DEF Shape
    <2>5. ASSUME NEW e \in Events, PublishOnFail(t, e) PROVE Shape
      <3>. DEFINE why == [kind |-> "onfail", of |-> thread[t].ev]
                  p   == payload[thread[t].ev]
                  b   == IF p = "none" THEN "blank" ELSE p
      <3>1. why \in Cause /\ thread[t].pc = "onfail"  BY <2>3, <2>5 DEF PublishOnFail, Cause
      <3>2. b \in Body  BY <2>3, <2>5 DEF TypeInv, TypeOK, PublishOnFail, Body
      <3>3. Create(t, e, FALSE, why, b)  BY <2>5 DEF PublishOnFail
      <3>. HIDE DEF b
      <3>4. \E new \in Row : CreateStep(t, e, new, why)
        BY <3>1, <3>2, <3>3, CreateShape
      <3>. HIDE DEF why
      <3>. QED  BY <3>1, <3>4 DEF Shape
    <2>. QED  BY <1>3, <2>1, <2>2, <2>4, <2>5 DEF CallStep
  <1>4. ASSUME NEW t \in Threads, RaceLost(t) \/ ReturnError(t) PROVE Shape
    BY <1>4, QuietShape DEF Shape
  <1>5. ASSUME NEW a \in Adapters, Report(a) PROVE Shape
    <2>1. thread[a].ev \in Events  BY <1>1, <1>5 DEF Report, TypeInv, ThreadsOK
    <2>2. LoadStep(a, thread[a].ev)  BY <1>1, <1>5, <2>1, ReportShape DEF Report
    <2>. QED  BY <1>1, <2>1, <2>2 DEF Shape
  <1>6. ASSUME NEW a \in Adapters, NEW m \in msgs, HandleMessage(a, m) PROVE Shape
    <2>1. m.ev \in Events /\ m.body \in Body  BY DEF TypeInv, TypeOK, Message
    <2>2. LoadStep(a, m.ev) \/ QuietStep
      BY <1>1, <1>6, <2>1, PermitRequestShape DEF HandleMessage
    <2>. QED  BY <1>1, <2>1, <2>2 DEF Shape
  <1>7. ASSUME NEW c \in Clients, NEW e \in Events, Publish(c, e) PROVE Shape
    <2>. DEFINE why == [kind |-> "client", of |-> None]
    <2>1. why \in Cause /\ "data" \in Body  BY DEF Cause, Body
    <2>2. thread[c].pc = "idle" /\ \E onFail \in BOOLEAN : Create(c, e, onFail, why, "data")
      BY <1>7 DEF Publish
    <2>3. \E new \in Row : CreateStep(c, e, new, why)
      BY <1>1, <2>1, <2>2, CreateShape
    <2>. HIDE DEF why
    <2>. QED  BY <1>1, <2>1, <2>3 DEF Shape
  <1>8. ASSUME NEW o \in Operators, NEW e \in Events, OperatorCall(o, e) PROVE Shape
    <2>1. "data" \in Body  BY DEF Body
    <2>2. LoadStep(o, e) \/ QuietStep
      BY <1>1, <1>8, <2>1, ReportShape, PermitRequestShape
         DEF OperatorCall, AcquireCall, SuccessCall, FailureCall
    <2>. QED  BY <1>1, <2>2 DEF Shape
  <1>9. CASE Environment
    <2>1. ASSUME NEW t \in Threads, Abort(t) PROVE Shape
      BY <2>1, QuietShape DEF Shape
    <2>2. CASE Restart
      BY <2>2 DEF TypeInv, TypeOK, Restart, Idle, QuietStep, Shape
    <2>3. ASSUME NEW m \in msgs, LoseMessage(m) PROVE Shape
      BY <2>3 DEF LoseMessage, QuietStep, Shape
    <2>4. ASSUME NEW e \in Events, AttemptComesDue(e) \/ EventExpires(e) PROVE Shape
      BY <2>4 DEF AttemptComesDue, EventExpires, QuietStep, Shape
    <2>. QED  BY <1>9, <2>1, <2>2, <2>3, <2>4 DEF Environment
  <1>10. CASE UNCHANGED vars
    BY <1>10 DEF vars, QuietStep, Shape
  <1>. QED  BY <1>2, <1>3, <1>4, <1>5, <1>6, <1>7, <1>8, <1>9, <1>10 DEF Next

-----------------------------------------------------------------------------
(* The optimistic lock.  These hold whoever calls the API.                 *)

\* A row either was never inserted or has a status an UPDATE or INSERT wrote.
RowsExist == \A e \in Events : event[e].status = "ABSENT" => event[e] = Absent

VersionInv == RowsExist /\ SnapshotCoherent /\ RetriesAreFutile

LEMMA VersionStep ==
    ASSUME TypeInv, VersionInv, Shape
    PROVE  VersionInv'
  <1>1. /\ \A e \in Events : event[e] \in Row /\ event[e].version \in Nat
        /\ \A u \in Threads : thread[u].pc \in Updating =>
              /\ thread[u].ev \in Events
              /\ thread[u].seen \in Row /\ thread[u].seen.version \in Nat
    BY DEF TypeInv, TypeOK, ThreadsOK, Thread, Updating, Row
  <1>2. /\ \A u \in Threads : thread[u].pc \in Updating =>
              /\ thread[u].seen.status # "ABSENT"
              /\ thread[u].seen.version <= event[thread[u].ev].version
              /\ thread[u].seen.version = event[thread[u].ev].version
                     => thread[u].seen = event[thread[u].ev]
              /\ thread[u].tries > 0 =>
                     thread[u].seen.version < event[thread[u].ev].version
        /\ RowsExist
    BY DEF VersionInv, SnapshotCoherent, RetriesAreFutile
  <1>3. CASE QuietStep
    <2>1. RowsExist'  BY <1>2, <1>3 DEF QuietStep, RowsExist
    <2>2. ASSUME NEW u \in Threads, thread'[u].pc \in Updating
          PROVE  /\ thread'[u].seen.status # "ABSENT"
                 /\ thread'[u].seen.version <= event'[thread'[u].ev].version
                 /\ thread'[u].seen.version = event'[thread'[u].ev].version
                        => thread'[u].seen = event'[thread'[u].ev]
                 /\ thread'[u].tries > 0 =>
                        thread'[u].seen.version < event'[thread'[u].ev].version
      <3>1. CASE thread'[u] = thread[u]
        BY <1>2, <1>3, <2>2, <3>1 DEF QuietStep
      <3>2. CASE thread'[u] # thread[u]
        <4>1. /\ thread[u].pc \in Updating /\ ~Matches(u) /\ event' = event
              /\ thread'[u].ev = thread[u].ev /\ thread'[u].seen = thread[u].seen
          BY <1>3, <2>2, <3>2 DEF QuietStep, Updating
        <4>2. thread[u].seen.version < event[thread[u].ev].version
          BY <1>1, <1>2, <4>1 DEF Matches
        <4>. QED  BY <1>1, <1>2, <4>1, <4>2
      <3>. QED  BY <3>1, <3>2
    <2>. QED  BY <2>1, <2>2 DEF VersionInv, SnapshotCoherent, RetriesAreFutile
  <1>4. ASSUME NEW u \in Threads, NEW e \in Events, LoadStep(u, e) PROVE VersionInv'
    <2>1. RowsExist'  BY <1>2, <1>4 DEF LoadStep, RowsExist
    <2>2. /\ event' = event /\ event[e].status # "ABSENT"
          /\ thread'[u].ev = e /\ thread'[u].seen = event[e] /\ thread'[u].tries = 0
          /\ \A v \in Threads \ {u} : thread'[v] = thread[v]
      BY <1>2, <1>4 DEF LoadStep, OthersStay, RowsExist
    <2>. QED  BY <1>1, <1>2, <2>1, <2>2
              DEF VersionInv, SnapshotCoherent, RetriesAreFutile
  <1>5. ASSUME NEW u \in Threads, NEW e \in Events, NEW new \in Row,
               UpdateStep(u, e, new)
        PROVE  VersionInv'
    <2>1. /\ event' = [event EXCEPT ![e] = new] /\ new.version = event[e].version + 1
          /\ new.status # "ABSENT" /\ thread'[u].pc \notin Updating
          /\ \A v \in Threads \ {u} : thread'[v] = thread[v]
      BY <1>5 DEF UpdateStep, OthersStay, Updating
    <2>2. event'[e] = new /\ \A d \in Events \ {e} : event'[d] = event[d]
      BY <2>1 DEF TypeInv, TypeOK
    <2>3. RowsExist'  BY <1>2, <2>1, <2>2 DEF RowsExist
    <2>. QED  BY <1>1, <1>2, <2>1, <2>2, <2>3
              DEF VersionInv, SnapshotCoherent, RetriesAreFutile
  <1>6. ASSUME NEW u \in Threads, NEW e \in Events, NEW new \in Row, NEW why \in Cause,
               CreateStep(u, e, new, why)
        PROVE  VersionInv'
    <2>1. /\ event' = [event EXCEPT ![e] = new] /\ new.version = 1
          /\ event[e].status = "ABSENT" /\ event[e].version = 0
          /\ new.status # "ABSENT" /\ thread'[u].pc \notin Updating
          /\ \A v \in Threads \ {u} : thread'[v] = thread[v]
      BY <1>6, AbsentStatus DEF CreateStep, OthersStay, Updating
    <2>2. event'[e] = new /\ \A d \in Events \ {e} : event'[d] = event[d]
      BY <2>1 DEF TypeInv, TypeOK
    <2>3. RowsExist'  BY <1>2, <2>1, <2>2 DEF RowsExist
    <2>4. ASSUME NEW v \in Threads, thread[v].pc \in Updating PROVE thread[v].ev # e
      BY <1>1, <1>2, <2>1, <2>4
    <2>. QED  BY <1>1, <1>2, <2>1, <2>2, <2>3, <2>4
              DEF VersionInv, SnapshotCoherent, RetriesAreFutile
  <1>. QED  BY <1>3, <1>4, <1>5, <1>6 DEF Shape

LEMMA VersionInit == Init => VersionInv
  BY DEF Init, VersionInv, RowsExist, SnapshotCoherent, RetriesAreFutile, Idle, Updating

LEMMA VersionStable == TypeInv /\ VersionInv /\ [Next]_vars => VersionInv'
  BY NextShape, VersionStep

\* A copy that still has the version of the row is the row: the version column
\* alone decides a race, though handlers on many instances share nothing else.
THEOREM SnapshotsCoherent == Spec => []SnapshotCoherent
  <1>1. VersionInv => SnapshotCoherent  BY DEF VersionInv
  <1>. QED  BY InitTypeInv, TypeStep, VersionInit, VersionStable, <1>1, PTL DEF Spec

\* A handler that lost a race loses all the repetitions withRetry makes of it.
THEOREM RetriesFutile == Spec => []RetriesAreFutile
  <1>1. VersionInv => RetriesAreFutile  BY DEF VersionInv
  <1>. QED  BY InitTypeInv, TypeStep, VersionInit, VersionStable, <1>1, PTL DEF Spec

-----------------------------------------------------------------------------
(* The schedule state.                                                     *)

LEMMA ScheduleInit == Init => ScheduleMatchesStatus
  BY AbsentStatus DEF Init, ScheduleMatchesStatus

LEMMA ScheduleStep ==
    ASSUME TypeInv, ScheduleMatchesStatus, Shape
    PROVE  ScheduleMatchesStatus'
  <1>1. CASE event' = event
    BY <1>1 DEF ScheduleMatchesStatus
  <1>2. ASSUME NEW e \in Events, NEW new \in Row, event' = [event EXCEPT ![e] = new],
               new.sched = "ACTIVE" => new.status \in {"AWAITING_PROCESSING", "DISPATCHED"},
               new.sched = "SLEEPING" => new.status = "AWAITING_PROCESSING"
        PROVE  ScheduleMatchesStatus'
    BY <1>2 DEF TypeInv, TypeOK, ScheduleMatchesStatus
  <1>3. ASSUME NEW u \in Threads, NEW e \in Events, NEW new \in Row, UpdateStep(u, e, new)
        PROVE  ScheduleMatchesStatus'
    <2>1. /\ event' = [event EXCEPT ![e] = new]
          /\ new.sched = "ACTIVE" => new.status \in {"AWAITING_PROCESSING", "DISPATCHED"}
          /\ new.sched = "SLEEPING" => new.status = "AWAITING_PROCESSING"
      BY <1>3 DEF UpdateStep
    <2>. QED  BY <1>2, <2>1
  <1>4. ASSUME NEW u \in Threads, NEW e \in Events, NEW new \in Row, NEW why \in Cause,
               CreateStep(u, e, new, why)
        PROVE  ScheduleMatchesStatus'
    BY <1>2, <1>4 DEF CreateStep
  <1>. QED  BY <1>1, <1>3, <1>4 DEF Shape, QuietStep, LoadStep

\* The job that serves due events never sees one that is being processed or is
\* finished, and only an event that awaits processing sleeps.
THEOREM SchedulesMatch == Spec => []ScheduleMatchesStatus
  <1>1. TypeInv /\ ScheduleMatchesStatus /\ [Next]_vars => ScheduleMatchesStatus'
    BY NextShape, ScheduleStep
  <1>. QED  BY InitTypeInv, TypeStep, ScheduleInit, <1>1, PTL DEF Spec

-----------------------------------------------------------------------------
(* The error log.  This holds whoever calls the API.                       *)

\* Nobody begins to report a failure.
NoNewFailure ==
    \A u \in Threads : thread'[u].pc \in {"retry", "fail"} =>
        /\ thread[u].pc \in {"retry", "fail"}
        /\ thread'[u].ev = thread[u].ev /\ thread'[u].seen = thread[u].seen

LEMMA MovesQuietly ==
    ASSUME NEW t \in Threads, NEW p, NEW e, Moves(t, p, e), p \notin {"retry", "fail"}
    PROVE  NoNewFailure
  BY DEF Moves, NoNewFailure

\* Each step leaves the log as it is, or is a report of a failure.
LEMMA LoggedOrNot ==
    ASSUME TypeInv, [Next]_vars
    PROVE  \/ errorLog' = errorLog /\ NoNewFailure
           \/ \E t \in Threads, e \in Events : LoadForFailure(t, e)
  <1>. DEFINE Quietly == errorLog' = errorLog /\ NoNewFailure
              Goal == Quietly \/ \E t \in Threads, e \in Events : LoadForFailure(t, e)
  <1>1. Jobs \subseteq Threads /\ Adapters \subseteq Threads
        /\ Clients \subseteq Threads /\ Operators \subseteq Threads
    BY DEF Threads
  <1>2. "data" \in Body /\ {"mark", "activate", "save", "permit", "succeed"} \subseteq PCs
    BY DEF Body, PCs, Updating
  <1>3. ASSUME NEW t \in Threads,
               \/ SavePayload(t) \/ Dispatch(t) \/ DispatchExpired(t) \/ AnswerPermit(t)
               \/ RaceLost(t) \/ ReturnError(t) \/ Abort(t)
        PROVE  Quietly
    <2>1. QuietStep
      BY <1>3, QuietShape
    <2>2. errorLog' = errorLog
      BY <1>3 DEF SavePayload, Dispatch, DispatchExpired, AnswerPermit, RaceLost, ReturnError, Abort
    <2>. QED  BY <2>1, <2>2 DEF QuietStep, NoNewFailure
  <1>4. ASSUME NEW t \in Threads,
               \/ MarkAsDispatched(t) \/ ActivateSuspended(t)
               \/ AcquireProcessingPermit(t) \/ MarkAsSucceeded(t)
               \/ SwitchToNextAttempt(t) \/ MarkAsFailed(t)
        PROVE  Quietly
    <2>1. PICK e \in Events, new \in Row : UpdateStep(t, e, new)
      BY <1>4, UpdateShape
    <2>2. errorLog' = errorLog
      BY <1>4 DEF MarkAsDispatched, ActivateSuspended, AcquireProcessingPermit,
                  MarkAsSucceeded, SwitchToNextAttempt, MarkAsFailed
    <2>. QED  BY <2>1, <2>2 DEF UpdateStep, OthersStay, NoNewFailure
  <1>5. ASSUME NEW t \in Threads, NEW e \in Events, NEW onFail, NEW why, NEW b,
               Create(t, e, onFail, why, b)
        PROVE  Quietly
    <2>1. thread' = [thread EXCEPT ![t] = [Idle EXCEPT !.pc = "save", !.ev = e, !.body = b]]
          /\ errorLog' = errorLog
      BY <1>5 DEF Create, Proceed
    <2>2. [Idle EXCEPT !.pc = "save", !.ev = e, !.body = b].pc = "save"
      BY DEF Idle
    <2>. QED  BY <2>1, <2>2 DEF TypeInv, TypeOK, NoNewFailure
  <1>6. ASSUME NEW t \in Threads, NEW e \in Events, NEW p \in {"mark", "activate", "permit", "succeed"},
               NEW b \in Body, Load(t, e, p, b), errorLog' = errorLog
        PROVE  Quietly
    BY <1>2, <1>6, LoadMoves, MovesQuietly DEF TypeInv
  <1>7. ASSUME NEW t \in Threads, NEW e \in Events, NEW b \in Body, LoadForPermit(t, e, b)
        PROVE  Quietly
    BY <1>6, <1>7 DEF LoadForPermit, NoNewFailure
  <1>8. ASSUME NEW t \in Threads, NEW e \in Events, LoadForSuccess(t, e)
        PROVE  Quietly
    <2>1. thread[t].body \in Body  BY DEF TypeInv, TypeOK, Thread
    <2>. QED  BY <1>6, <1>8, <2>1 DEF LoadForSuccess
  <1>. HIDE DEF Quietly
  <1>9. ASSUME NEW j \in Jobs, JobStep(j) PROVE Goal
    <2>1. ASSUME NEW e \in Events, NEW p \in {"mark", "activate"}, Fetch(j, e, p)
          PROVE  Quietly
      BY <1>1, <1>2, <1>6, <2>1 DEF Fetch
    <2>2. ASSUME NEW e \in Events, \/ FindPendingEvents(j, e) \/ FindScheduledEvents(j, e)
                                   \/ FindExpiredSuspendedEvents(j, e)
          PROVE  Quietly
      BY <2>1, <2>2 DEF FindPendingEvents, FindScheduledEvents, FindExpiredSuspendedEvents
    <2>. QED  BY <1>1, <1>3, <1>4, <1>9, <2>2 DEF JobStep
  <1>10. ASSUME NEW t \in Threads, CallStep(t) PROVE Goal
    <2>1. ASSUME NEW e \in Events, PublishSpinoff(t, e) \/ PublishOnFail(t, e) PROVE Quietly
      BY <1>5, <2>1 DEF PublishSpinoff, PublishOnFail
    <2>. QED  BY <1>3, <1>4, <1>10, <2>1 DEF CallStep
  <1>11. ASSUME NEW a \in Adapters, Report(a) PROVE Goal
    <2>1. thread[a].ev \in Events  BY <1>1, <1>11 DEF Report, TypeInv, ThreadsOK
    <2>. QED  BY <1>1, <1>8, <1>11, <2>1 DEF Report
  <1>12. ASSUME NEW a \in Adapters, NEW m \in msgs, HandleMessage(a, m) PROVE Goal
    <2>1. m.ev \in Events /\ m.body \in Body  BY DEF TypeInv, TypeOK, Message
    <2>. QED  BY <1>1, <1>7, <1>12, <2>1 DEF HandleMessage
  <1>13. ASSUME NEW c \in Clients, NEW e \in Events, Publish(c, e) PROVE Goal
    BY <1>1, <1>5, <1>13 DEF Publish
  <1>14. ASSUME NEW o \in Operators, NEW e \in Events, OperatorCall(o, e) PROVE Goal
    BY <1>1, <1>2, <1>7, <1>8, <1>14 DEF OperatorCall, AcquireCall, SuccessCall, FailureCall
  <1>15. ASSUME Environment PROVE Goal
    <2>1. ASSUME Restart PROVE Quietly
      BY <2>1 DEF Quietly, TypeInv, TypeOK, Restart, Idle, NoNewFailure
    <2>2. ASSUME \/ \E m \in msgs : LoseMessage(m)
                 \/ \E e \in Events : AttemptComesDue(e) \/ EventExpires(e)
          PROVE  Quietly
      BY <2>2 DEF Quietly, LoseMessage, AttemptComesDue, EventExpires, NoNewFailure
    <2>. QED  BY <1>3, <1>15, <2>1, <2>2 DEF Environment
  <1>16. ASSUME UNCHANGED vars PROVE Quietly
    BY <1>16 DEF Quietly, vars, NoNewFailure
  <1>17. Goal
    BY <1>3, <1>9, <1>10, <1>11, <1>12, <1>13, <1>14, <1>15, <1>16 DEF Next
  <1>. QED  BY <1>17 DEF Quietly

\* A report that is on its way has left its entry: the UPDATE will count the
\* attempt of the copy it loaded.
LogInv ==
    "errorlog" \notin FlakyStores =>
        /\ \A e \in Events : event[e].failed <= errorLog[e]
        /\ \A t \in Threads : thread[t].pc \in {"retry", "fail"} =>
               thread[t].seen.failed < errorLog[thread[t].ev]

LEMMA LogStep == TypeInv /\ LogInv /\ [Next]_vars => LogInv'
  <1>. SUFFICES ASSUME TypeInv, LogInv, [Next]_vars, "errorlog" \notin FlakyStores
                PROVE  /\ \A e \in Events : event'[e].failed <= errorLog'[e]
                       /\ \A t \in Threads : thread'[t].pc \in {"retry", "fail"} =>
                              thread'[t].seen.failed < errorLog'[thread'[t].ev]
    BY DEF LogInv
  <1>1. /\ \A e \in Events : errorLog[e] \in Nat /\ event[e] \in Row /\ event[e].failed \in Nat
        /\ \A t \in Threads : /\ thread[t].seen.failed \in Nat
                              /\ thread[t].pc # "idle" => thread[t].ev \in Events
    BY DEF TypeInv, TypeOK, ThreadsOK, Thread, Row
  <1>2. CASE errorLog' = errorLog /\ NoNewFailure
    <2>1. \A t \in Threads : thread'[t].pc \in {"retry", "fail"} =>
              thread'[t].seen.failed < errorLog'[thread'[t].ev]
      BY <1>2 DEF LogInv, NoNewFailure
    <2>2. ASSUME NEW e \in Events, NEW new, event' = [event EXCEPT ![e] = new],
                 new.failed <= errorLog[e]
          PROVE  \A d \in Events : event'[d].failed <= errorLog'[d]
      BY <1>2, <2>2 DEF LogInv, TypeInv, TypeOK
    <2>3. ASSUME NEW u \in Threads, NEW e \in Events, NEW new \in Row, UpdateStep(u, e, new)
          PROVE  \A d \in Events : event'[d].failed <= errorLog'[d]
      <3>1. \/ new.failed = event[e].failed
            \/ new.failed = thread[u].seen.failed + 1 /\ thread[u].pc \in {"retry", "fail"}
        BY <2>3 DEF UpdateStep
      <3>2. event' = [event EXCEPT ![e] = new] /\ thread[u].ev = e
        BY <2>3 DEF UpdateStep
      <3>3. event[e].failed <= errorLog[e]
            /\ (thread[u].pc \in {"retry", "fail"} => thread[u].seen.failed < errorLog[e])
        BY <3>2 DEF LogInv
      <3>4. new.failed <= errorLog[e]
        BY <1>1, <3>1, <3>3
      <3>. QED  BY <2>2, <3>2, <3>4
    <2>4. ASSUME NEW u \in Threads, NEW e \in Events, NEW new \in Row, NEW why \in Cause,
                 CreateStep(u, e, new, why)
          PROVE  \A d \in Events : event'[d].failed <= errorLog'[d]
      <3>1. event' = [event EXCEPT ![e] = new] /\ new.failed = 0
        BY <2>4 DEF CreateStep
      <3>2. new.failed <= errorLog[e]
        BY <1>1, <3>1
      <3>. QED  BY <2>2, <3>1, <3>2
    <2>5. ASSUME event' = event
          PROVE  \A d \in Events : event'[d].failed <= errorLog'[d]
      BY <1>2, <2>5 DEF LogInv
    <2>6. Shape
      BY NextShape
    <2>7. \A d \in Events : event'[d].failed <= errorLog'[d]
      BY <2>3, <2>4, <2>5, <2>6 DEF Shape, QuietStep, LoadStep
    <2>. QED  BY <2>1, <2>7
  <1>3. ASSUME NEW u \in Threads, NEW e \in Events, LoadForFailure(u, e)
        PROVE  /\ \A d \in Events : event'[d].failed <= errorLog'[d]
               /\ \A t \in Threads : thread'[t].pc \in {"retry", "fail"} =>
                      thread'[t].seen.failed < errorLog'[thread'[t].ev]
    <2>. DEFINE p == IF event[e].left > 1 /\ e \notin expired THEN "retry" ELSE "fail"
    <2>1. event' = event /\ errorLog' = [errorLog EXCEPT ![e] = errorLog[e] + 1]
      BY <1>3 DEF LoadForFailure, LogFailure
    <2>2. /\ errorLog'[e] = errorLog[e] + 1
          /\ \A d \in Events : errorLog[d] <= errorLog'[d]
      BY <1>1, <2>1 DEF TypeInv, TypeOK
    <2>3. p \in PCs /\ p # "idle" /\ thread[u].body \in Body
      BY DEF PCs, Updating, TypeInv, TypeOK, Thread
    <2>4. Load(u, e, p, thread[u].body)
      BY <1>3 DEF LoadForFailure
    <2>. HIDE DEF p
    <2>5. Moves(u, p, e) /\ thread'[u].seen = event[e]
      BY <2>3, <2>4, LoadMoves DEF TypeInv
    <2>6. \A d \in Events : event[d].failed <= errorLog[d]
      BY DEF LogInv
    <2>7. event[e].failed < errorLog'[e]
      BY <1>1, <2>2, <2>6
    <2>8. ASSUME NEW d \in Events PROVE event'[d].failed <= errorLog'[d]
      <3>1. errorLog'[d] \in Nat /\ errorLog[d] <= errorLog'[d] /\ event[d].failed <= errorLog[d]
        BY <1>1, <2>1, <2>2, <2>6 DEF TypeInv, TypeOK
      <3>. QED  BY <1>1, <2>1, <3>1
    <2>9. ASSUME NEW t \in Threads, t # u, thread'[t].pc \in {"retry", "fail"}
          PROVE  thread'[t].seen.failed < errorLog'[thread'[t].ev]
      <3>1. thread'[t] = thread[t] /\ thread[t].ev \in Events
        BY <1>1, <2>5, <2>9 DEF Moves
      <3>2. thread[t].seen.failed < errorLog[thread[t].ev]
        BY <2>9, <3>1 DEF LogInv
      <3>3. errorLog[thread[t].ev] <= errorLog'[thread[t].ev] /\ errorLog'[thread[t].ev] \in Nat
        BY <1>1, <2>1, <2>2, <3>1 DEF TypeInv, TypeOK
      <3>. QED  BY <1>1, <3>1, <3>2, <3>3
    <2>. QED  BY <2>5, <2>7, <2>8, <2>9 DEF Moves
  <1>. QED  BY <1>2, <1>3, LoggedOrNot

\* No failed attempt is missing from the error log, unless that store fails: the
\* entry is written first, by whoever reports, and a lost UPDATE only adds one.
THEOREM FailuresLogged == Spec => []FailedAttemptsLogged
  <1>1. Init => LogInv
    BY DEF Init, LogInv, Absent, Idle
  <1>2. LogInv => FailedAttemptsLogged
    BY DEF LogInv, FailedAttemptsLogged
  <1>. QED  BY InitTypeInv, TypeStep, LogStep, <1>1, <1>2, PTL DEF Spec

-----------------------------------------------------------------------------
(* The adapter contract: callers report only events whose permit they hold. *)

Reporting == {"succeed", "retry", "fail"}

\* What the copy of a goroutine says the row was when it was taken.
SnapshotSources ==
    \A u \in Threads :
        /\ thread[u].pc = "mark" =>
               thread[u].seen.status \in {"AWAITING_PROCESSING", "DISPATCHED"}
        /\ thread[u].pc = "activate" => thread[u].seen.status = "AWAITING_PROCESSING"
        /\ thread[u].pc = "permit" => thread[u].seen.status = "DISPATCHED"

PermitInv == SnapshotSources /\ PermitExclusive /\ NoReportLost /\ AttemptsAccounted

\* In the state before an update the row is what the goroutine's copy says, so
\* its status is the one the update starts from.
LEMMA UpdateFrom ==
    ASSUME TypeInv, VersionInv, PermitInv,
           NEW u \in Threads, NEW e \in Events, NEW new, UpdateStep(u, e, new)
    PROVE  /\ thread[u].seen = event[e] /\ event[e] # Absent
           /\ thread[u].pc = "mark" => event[e].status \in {"AWAITING_PROCESSING", "DISPATCHED"}
           /\ thread[u].pc = "activate" => event[e].status = "AWAITING_PROCESSING"
           /\ thread[u].pc = "permit" => event[e].status = "DISPATCHED"
           /\ thread[u].pc \in Reporting => event[e].status = "BEING_PROCESSED"
           /\ thread[u].pc = "retry" => event[e].left > 1
  <1>1. thread[u].pc \in Updating /\ thread[u].ev = e /\ Matches(u)
    BY DEF UpdateStep
  <1>2. thread[u].seen = event[e] /\ thread[u].seen.status # "ABSENT"
    BY <1>1 DEF VersionInv, SnapshotCoherent, Matches
  <1>3. event[e] # Absent  BY <1>2, AbsentStatus
  <1>4. thread[u].pc \in Reporting => u \in Holders(e)
    BY <1>1 DEF Reporting, Holders, Holding
  <1>5. thread[u].pc \in Reporting => event[e].status = "BEING_PROCESSED"
    BY <1>4 DEF PermitInv, PermitExclusive
  <1>6. thread[u].pc = "retry" => event[e].left > 1
    BY <1>2 DEF TypeInv, ThreadsOK
  <1>. QED  BY <1>2, <1>3, <1>5, <1>6 DEF PermitInv, SnapshotSources

LEMMA PermitStep ==
    ASSUME Operators = {}, TypeInv, VersionInv, ScheduleMatchesStatus, PermitInv, Shape
    PROVE  PermitInv'
  <1>1. \A e \in Events : event[e].left \in Nat /\ event[e].failed \in Nat
    BY DEF TypeInv, TypeOK, Row
  <1>2. CASE QuietStep
    <2>1. \A e \in Events : event'[e] = event[e]  BY <1>2 DEF QuietStep
    <2>2. \A u \in Threads, e \in Events : u \in Holders(e)' => u \in Holders(e)
      BY <1>2 DEF QuietStep, Holders, Holding
    <2>3. SnapshotSources'
      BY <1>2 DEF QuietStep, PermitInv, SnapshotSources
    <2>4. PermitExclusive'
      <3>1. \A e \in Events : Holders(e)' \subseteq Threads  BY DEF Holders
      <3>. QED  BY <2>1, <2>2, <3>1 DEF PermitInv, PermitExclusive
    <2>5. NoReportLost'
      BY <1>2 DEF QuietStep, PermitInv, NoReportLost
    <2>6. AttemptsAccounted'
      BY <1>2 DEF QuietStep, PermitInv, AttemptsAccounted
    <2>. QED  BY <2>3, <2>4, <2>5, <2>6 DEF PermitInv
  <1>3. ASSUME NEW u \in Threads, NEW e \in Events, LoadStep(u, e) PROVE PermitInv'
    <2>1. /\ event' = event /\ thread'[u].seen = event[e] /\ thread'[u].ev = e
          /\ \A v \in Threads \ {u} : thread'[v] = thread[v]
      BY <1>3 DEF LoadStep, OthersStay
    <2>2. thread'[u].pc \in Holding => thread[u].pc = "working" /\ thread[u].ev = e
      BY <1>3 DEF LoadStep, Holding
    <2>3. \A v \in Threads, d \in Events : v \in Holders(d)' => v \in Holders(d)
      BY <2>1, <2>2 DEF Holders, Holding
    <2>4. SnapshotSources'
      BY <1>3, <2>1 DEF LoadStep, PermitInv, SnapshotSources, ScheduleMatchesStatus
    <2>5. PermitExclusive'
      <3>1. \A d \in Events : Holders(d)' \subseteq Threads  BY DEF Holders
      <3>. QED  BY <2>1, <2>3, <3>1 DEF PermitInv, PermitExclusive
    <2>6. NoReportLost'  BY <2>1 DEF PermitInv, NoReportLost
    <2>7. AttemptsAccounted'  BY <2>1 DEF PermitInv, AttemptsAccounted
    <2>. QED  BY <2>4, <2>5, <2>6, <2>7 DEF PermitInv
  <1>4. ASSUME NEW u \in Threads, NEW e \in Events, NEW new \in Row,
               UpdateStep(u, e, new)
        PROVE  PermitInv'
    <2>1. /\ event' = [event EXCEPT ![e] = new] /\ thread[u].ev = e
          /\ \A v \in Threads \ {u} : thread'[v] = thread[v]
          /\ thread'[u].pc \notin {"mark", "activate", "permit"}
          /\ thread'[u].pc \notin Reporting
      BY <1>4 DEF UpdateStep, OthersStay, Reporting
    <2>2. event'[e] = new /\ \A d \in Events \ {e} : event'[d] = event[d]
      BY <2>1 DEF TypeInv, TypeOK
    <2>3. thread'[u].pc \in Holding => thread'[u].pc = "granted" /\ thread'[u].ev = e
                                       /\ thread[u].pc = "permit"
      BY <1>4 DEF UpdateStep, Holding
    <2>4. thread[u].pc \in Reporting => u \in Holders(e)
      BY <2>1 DEF Reporting, Holders, Holding
    <2>5. \A v \in Holders(e) : v = u /\ thread[u].pc \in Reporting
      <3>1. CASE thread[u].pc \in Reporting
        BY <2>4, <3>1 DEF PermitInv, PermitExclusive
      <3>2. CASE thread[u].pc \notin Reporting
        <4>1. event[e].status # "BEING_PROCESSED"
          BY <1>4, <3>2, UpdateFrom DEF UpdateStep, Reporting, Updating
        <4>. QED  BY <4>1 DEF PermitInv, PermitExclusive
      <3>. QED  BY <3>1, <3>2
    <2>6. \A d \in Events \ {e}, v \in Threads : v \in Holders(d)' => v \in Holders(d)
      BY <2>1, <2>3 DEF Holders
    <2>7. \A v \in Threads : v \in Holders(e)' => v = u /\ new.status = "BEING_PROCESSED"
      <3>. SUFFICES ASSUME NEW v \in Threads, v \in Holders(e)'
                    PROVE  v = u /\ new.status = "BEING_PROCESSED"
        OBVIOUS
      <3>1. v = u
        <4>. SUFFICES ASSUME v # u PROVE FALSE
          OBVIOUS
        <4>1. v \in Holders(e)  BY <2>1 DEF Holders
        <4>. QED  BY <2>5, <4>1
      <3>2. thread'[u].pc \in Holding  BY <3>1 DEF Holders
      <3>. QED  BY <1>4, <2>3, <3>1, <3>2 DEF UpdateStep
    <2>8. SnapshotSources'  BY <2>1 DEF PermitInv, SnapshotSources
    <2>9. PermitExclusive'
      <3>1. \A d \in Events : Holders(d)' \subseteq Threads  BY DEF Holders
      <3>. QED  BY <2>2, <2>6, <2>7, <3>1 DEF PermitInv, PermitExclusive
    <2>10. NoReportLost'
      <3>. SUFFICES ASSUME NEW v \in Threads, thread'[v].pc \in Reporting
                    PROVE  thread'[v].seen = event'[thread'[v].ev]
        BY DEF NoReportLost, Reporting
      <3>1. v # u /\ thread'[v] = thread[v]  BY <2>1
      <3>2. thread[v].ev \in Events /\ v \in Holders(thread[v].ev)
        BY <3>1 DEF TypeInv, ThreadsOK, Reporting, Holders, Holding
      <3>3. thread[v].ev # e  BY <2>5, <3>1, <3>2
      <3>. QED  BY <2>2, <3>1, <3>2, <3>3 DEF PermitInv, NoReportLost, Reporting
    <2>11. AttemptsAccounted'
      <3>1. /\ event[e].left >= 1 /\ event[e] # Absent
            /\ event[e].left + event[e].failed = MaxAttempts
            /\ thread[u].seen = event[e]
            /\ thread[u].pc = "retry" => event[e].left > 1
        BY <1>4, UpdateFrom
           DEF UpdateStep, Updating, Reporting, PermitInv, AttemptsAccounted
      <3>2. /\ new.left >= 1
            /\ new.left + new.failed =
                   IF new.status = "FAILED" THEN MaxAttempts + 1 ELSE MaxAttempts
        BY <1>1, <1>4, <3>1 DEF UpdateStep
      <3>. QED  BY <2>2, <3>2 DEF PermitInv, AttemptsAccounted
    <2>. QED  BY <2>8, <2>9, <2>10, <2>11 DEF PermitInv
  <1>5. ASSUME NEW u \in Threads, NEW e \in Events, NEW new \in Row, NEW why \in Cause,
               CreateStep(u, e, new, why)
        PROVE  PermitInv'
    <2>1. /\ event' = [event EXCEPT ![e] = new] /\ event[e] = Absent
          /\ \A v \in Threads \ {u} : thread'[v] = thread[v]
          /\ thread'[u].pc = "save"
      BY <1>5 DEF CreateStep, OthersStay
    <2>2. event'[e] = new /\ \A d \in Events \ {e} : event'[d] = event[d]
      BY <2>1 DEF TypeInv, TypeOK
    <2>3. \A v \in Threads, d \in Events : v \in Holders(d)' => v \in Holders(d)
      BY <2>1 DEF Holders, Holding
    <2>4. Holders(e) = {}
      BY <2>1, AbsentStatus DEF PermitInv, PermitExclusive
    <2>5. SnapshotSources'  BY <2>1 DEF PermitInv, SnapshotSources
    <2>6. PermitExclusive'
      <3>1. \A d \in Events : Holders(d)' \subseteq Threads  BY DEF Holders
      <3>. QED  BY <2>2, <2>3, <2>4, <3>1 DEF PermitInv, PermitExclusive
    <2>7. NoReportLost'
      <3>. SUFFICES ASSUME NEW v \in Threads, thread'[v].pc \in Reporting
                    PROVE  thread'[v].seen = event'[thread'[v].ev]
        BY DEF NoReportLost, Reporting
      <3>1. v # u /\ thread'[v] = thread[v]  BY <2>1 DEF Reporting
      <3>2. thread[v].ev \in Events /\ v \in Holders(thread[v].ev)
        BY <3>1 DEF TypeInv, ThreadsOK, Reporting, Holders, Holding
      <3>3. thread[v].ev # e  BY <2>4, <3>2
      <3>. QED  BY <2>2, <3>1, <3>2, <3>3 DEF PermitInv, NoReportLost, Reporting
    <2>8. AttemptsAccounted'
      BY <1>5, <2>2, ConstantsOK DEF CreateStep, PermitInv, AttemptsAccounted
    <2>. QED  BY <2>5, <2>6, <2>7, <2>8 DEF PermitInv
  <1>. QED  BY <1>2, <1>3, <1>4, <1>5 DEF Shape

LEMMA PermitInit == Init => PermitInv
  BY DEF Init, PermitInv, SnapshotSources, PermitExclusive, NoReportLost,
         AttemptsAccounted, Holders, Holding, Idle

-----------------------------------------------------------------------------
(* Follow-up events.                                                       *)

Following == {"spinoff", "onfail"}

\* A goroutine about to publish a follow-up is the only one for its event, and
\* the event has none yet.
FollowerAlone ==
    \A u \in Threads : thread[u].pc \in Following =>
        /\ event[thread[u].ev].status =
               IF thread[u].pc = "spinoff" THEN "PROCESSED" ELSE "FAILED"
        /\ \A c \in Events : cause[c].of # thread[u].ev
        /\ \A v \in Threads : thread[v].pc \in Following /\ thread[v].ev = thread[u].ev
                                  => v = u

FollowInv == Consequences /\ FollowerAlone

LEMMA FollowStep ==
    ASSUME Operators = {}, TypeInv, VersionInv, PermitInv, FollowInv, Shape
    PROVE  FollowInv'
  <1>1. CASE QuietStep
    <2>1. \A u \in Threads : thread'[u].pc \in Following => thread'[u] = thread[u]
      BY <1>1 DEF QuietStep, Following, Updating
    <2>2. FollowerAlone'
      BY <1>1, <2>1 DEF QuietStep, FollowInv, FollowerAlone
    <2>3. Consequences'  BY <1>1 DEF QuietStep, FollowInv, Consequences
    <2>. QED  BY <2>2, <2>3 DEF FollowInv
  <1>2. ASSUME NEW u \in Threads, NEW e \in Events, LoadStep(u, e) PROVE FollowInv'
    <2>1. \A v \in Threads : thread'[v].pc \in Following => thread'[v] = thread[v]
      BY <1>2 DEF LoadStep, OthersStay, Following
    <2>2. FollowerAlone'  BY <1>2, <2>1 DEF LoadStep, FollowInv, FollowerAlone
    <2>3. Consequences'  BY <1>2 DEF LoadStep, FollowInv, Consequences
    <2>. QED  BY <2>2, <2>3 DEF FollowInv
  <1>3. ASSUME NEW u \in Threads, NEW e \in Events, NEW new \in Row,
               UpdateStep(u, e, new)
        PROVE  FollowInv'
    <2>1. /\ event' = [event EXCEPT ![e] = new] /\ cause' = cause
          /\ \A v \in Threads \ {u} : thread'[v] = thread[v]
      BY <1>3 DEF UpdateStep, OthersStay
    <2>2. event'[e] = new /\ \A d \in Events \ {e} : event'[d] = event[d]
      BY <2>1 DEF TypeInv, TypeOK
    <2>3. event[e].status \notin {"PROCESSED", "FAILED"}
      BY <1>3, UpdateFrom DEF UpdateStep, Updating, Reporting
    <2>4. \A c \in Events : cause[c].of # e
      BY <2>3 DEF FollowInv, Consequences
    <2>5. \A v \in Threads : thread[v].pc \in Following => thread[v].ev # e
      BY <2>3 DEF FollowInv, FollowerAlone
    <2>6. thread'[u].pc \in Following =>
              /\ thread'[u].ev = e
              /\ new.status = IF thread'[u].pc = "spinoff" THEN "PROCESSED" ELSE "FAILED"
      BY <1>3 DEF UpdateStep, Following
    <2>7. \A v \in Threads : thread[v].pc \in Following => thread[v].ev \in Events
      BY DEF TypeInv, ThreadsOK, Following
    <2>8. FollowerAlone'
      BY <2>1, <2>2, <2>4, <2>5, <2>6, <2>7 DEF FollowInv, FollowerAlone
    <2>9. Consequences'  BY <2>1, <2>2, <2>4 DEF FollowInv, Consequences
    <2>. QED  BY <2>8, <2>9 DEF FollowInv
  <1>4. ASSUME NEW u \in Threads, NEW e \in Events, NEW new \in Row, NEW why \in Cause,
               CreateStep(u, e, new, why)
        PROVE  FollowInv'
    <2>1. /\ event' = [event EXCEPT ![e] = new] /\ cause' = [cause EXCEPT ![e] = why]
          /\ \A v \in Threads \ {u} : thread'[v] = thread[v]
          /\ thread'[u].pc \notin Following
          /\ event[e].status = "ABSENT"
      BY <1>4, AbsentStatus DEF CreateStep, OthersStay, Following
    <2>2. event'[e] = new /\ \A d \in Events \ {e} : event'[d] = event[d]
      BY <2>1 DEF TypeInv, TypeOK
    <2>3. cause'[e] = why /\ \A d \in Events \ {e} : cause'[d] = cause[d]
      BY <2>1 DEF TypeInv, TypeOK
    <2>4. \A c \in Events : cause[c].of # e
      BY <2>1 DEF FollowInv, Consequences
    <2>5. \A v \in Threads : thread[v].pc \in Following =>
              thread[v].ev # e /\ thread[v].ev \in Events
      BY <2>1 DEF FollowInv, FollowerAlone, TypeInv, ThreadsOK, Following
    <2>6. \/ why.of = None
          \/ thread[u].pc = "spinoff" /\ why.of = thread[u].ev /\ why.kind = "spinoff"
          \/ thread[u].pc = "onfail" /\ why.of = thread[u].ev /\ why.kind = "onfail"
      BY <1>4 DEF CreateStep
    <2>7. why.of # e /\ None \notin Events
      BY <2>5, <2>6, ConstantsOK DEF Following
    <2>8. \A v \in Threads \ {u} : thread[v].pc \in Following => why.of # thread[v].ev
      BY <2>5, <2>6, <2>7 DEF FollowInv, FollowerAlone, Following
    <2>9. FollowerAlone'
      BY <2>1, <2>2, <2>3, <2>5, <2>8 DEF FollowInv, FollowerAlone
    <2>10. ASSUME NEW p \in Events, why.of = p
           PROVE  /\ \/ why.kind = "spinoff" /\ event[p].status = "PROCESSED"
                     \/ why.kind = "onfail" /\ event[p].status = "FAILED"
                  /\ \A c \in Events : cause[c].of # p
      BY <2>6, <2>7, <2>10 DEF FollowInv, FollowerAlone, Following
    <2>11. Consequences'
      BY <2>2, <2>3, <2>4, <2>7, <2>10 DEF FollowInv, Consequences
    <2>. QED  BY <2>9, <2>11 DEF FollowInv
  <1>. QED  BY <1>1, <1>2, <1>3, <1>4 DEF Shape

LEMMA FollowInit == Init => FollowInv
  BY ConstantsOK DEF Init, FollowInv, Consequences, FollowerAlone, Following, Idle

-----------------------------------------------------------------------------
(* The theorems of the adapter contract.                                   *)

ContractInv == TypeInv /\ VersionInv /\ ScheduleMatchesStatus /\ PermitInv /\ FollowInv

LEMMA ContractInvariant ==
    ASSUME Operators = {} PROVE Spec => []ContractInv
  <1>1. Init => ContractInv
    BY InitTypeInv, VersionInit, ScheduleInit, PermitInit, FollowInit DEF ContractInv
  <1>2. ContractInv /\ [Next]_vars => ContractInv'
    BY TypeStep, NextShape, VersionStep, ScheduleStep, PermitStep, FollowStep
       DEF ContractInv
  <1>. QED  BY <1>1, <1>2, PTL DEF Spec

\* At most one caller holds the permit of an event, however many jobs dispatch
\* it, however often, and whatever is lost, delayed or aborted on the way.
THEOREM PermitsExclusive ==
    ASSUME Operators = {} PROVE Spec => []PermitExclusive
  <1>1. ContractInv => PermitExclusive  BY DEF ContractInv, PermitInv
  <1>. QED  BY ContractInvariant, <1>1, PTL

\* The report of the permit holder always finds the row it loaded.
THEOREM ReportsArrive ==
    ASSUME Operators = {} PROVE Spec => []NoReportLost
  <1>1. ContractInv => NoReportLost  BY DEF ContractInv, PermitInv
  <1>. QED  BY ContractInvariant, <1>1, PTL

\* No attempt is counted twice or forgotten.
THEOREM AttemptsAddUp ==
    ASSUME Operators = {} PROVE Spec => []AttemptsAccounted
  <1>1. ContractInv => AttemptsAccounted  BY DEF ContractInv, PermitInv
  <1>. QED  BY ContractInvariant, <1>1, PTL

\* An event has at most one follow-up, of the kind its final status calls for.
THEOREM OneConsequence ==
    ASSUME Operators = {} PROVE Spec => []Consequences
  <1>1. ContractInv => Consequences  BY DEF ContractInv, FollowInv
  <1>. QED  BY ContractInvariant, <1>1, PTL

\* No step changes a PROCESSED or FAILED event: an update starts from the copy
\* it was computed from, and no such copy is of a final event.
THEOREM FinalIsFinal ==
    ASSUME Operators = {} PROVE Spec => TerminalIsFinal
  <1>1. ASSUME ContractInv, [Next]_vars
        PROVE  \A e \in Events : IsFinal(event[e].status) => event'[e] = event[e]
    <2>1. Shape  BY <1>1, NextShape DEF ContractInv
    <2>2. CASE QuietStep \/ \E u \in Threads, e \in Events : LoadStep(u, e)
      BY <2>2 DEF QuietStep, LoadStep
    <2>3. ASSUME NEW u \in Threads, NEW e \in Events, NEW new \in Row,
                 UpdateStep(u, e, new)
          PROVE  \A d \in Events : IsFinal(event[d].status) => event'[d] = event[d]
      <3>1. ~ IsFinal(event[e].status)
        BY <1>1, <2>3, UpdateFrom
           DEF ContractInv, UpdateStep, Updating, Reporting, IsFinal
      <3>2. \A d \in Events \ {e} : event'[d] = event[d]
        BY <1>1, <2>3 DEF ContractInv, TypeInv, TypeOK, UpdateStep
      <3>. QED  BY <3>1, <3>2
    <2>4. ASSUME NEW u \in Threads, NEW e \in Events, NEW new \in Row,
                 NEW why \in Cause, CreateStep(u, e, new, why)
          PROVE  \A d \in Events : IsFinal(event[d].status) => event'[d] = event[d]
      <3>1. ~ IsFinal(event[e].status)
        BY <2>4, AbsentStatus DEF CreateStep, IsFinal
      <3>2. \A d \in Events \ {e} : event'[d] = event[d]
        BY <1>1, <2>4 DEF ContractInv, TypeInv, TypeOK, CreateStep
      <3>. QED  BY <3>1, <3>2
    <2>. QED  BY <2>1, <2>2, <2>3, <2>4 DEF Shape
  <1>. QED  BY ContractInvariant, <1>1, PTL DEF Spec, TerminalIsFinal

-----------------------------------------------------------------------------
(* The engine implements the abstract state machine.                       *)

\* The abstract state: StateMachine!status and StateMachine!attempts.
StatusBar   == [e \in Events |-> event[e].status]
AttemptsBar == [e \in Events |-> AttemptsBegun(event[e])]

LEMMA FunctionUpdate ==
    ASSUME NEW S, NEW f, NEW g, NEW e \in S, NEW v,
           f = [d \in S |-> f[d]], g = [d \in S |-> g[d]],
           \A d \in S : g[d] = IF d = e THEN v ELSE f[d]
    PROVE  g = [f EXCEPT ![e] = v]
  OBVIOUS

\* What an update of one row does to the abstract state.
LEMMA BarUpdate ==
    ASSUME TypeInv, NEW e \in Events, NEW new \in Row,
           event' = [event EXCEPT ![e] = new]
    PROVE  /\ StatusBar' = [StatusBar EXCEPT ![e] = new.status]
           /\ AttemptsBar' = [AttemptsBar EXCEPT ![e] = AttemptsBegun(new)]
           /\ StatusBar[e] = event[e].status
           /\ AttemptsBar[e] = AttemptsBegun(event[e])
  <1>1. \A d \in Events : event'[d] = IF d = e THEN new ELSE event[d]
    BY DEF TypeInv, TypeOK
  <1>2. /\ StatusBar' = [d \in Events |-> event'[d].status]
        /\ AttemptsBar' = [d \in Events |-> AttemptsBegun(event'[d])]
    BY DEF StatusBar, AttemptsBar
  <1>3. \A d \in Events :
           /\ StatusBar[d] = event[d].status
           /\ AttemptsBar[d] = AttemptsBegun(event[d])
           /\ StatusBar'[d] = IF d = e THEN new.status ELSE StatusBar[d]
           /\ AttemptsBar'[d] = IF d = e THEN AttemptsBegun(new) ELSE AttemptsBar[d]
    BY <1>1, <1>2 DEF StatusBar, AttemptsBar
  <1>4. /\ StatusBar = [d \in Events |-> StatusBar[d]]
        /\ StatusBar' = [d \in Events |-> StatusBar'[d]]
        /\ AttemptsBar = [d \in Events |-> AttemptsBar[d]]
        /\ AttemptsBar' = [d \in Events |-> AttemptsBar'[d]]
    BY DEF StatusBar, AttemptsBar
  <1>5. StatusBar' = [StatusBar EXCEPT ![e] = new.status]
    BY <1>3, <1>4, FunctionUpdate
  <1>6. AttemptsBar' = [AttemptsBar EXCEPT ![e] = AttemptsBegun(new)]
    BY <1>3, <1>4, FunctionUpdate
  <1>. QED  BY <1>3, <1>5, <1>6

\* The abstract next-state relation over the mapped state.
AbstractStep ==
    \/ StatusBar' = StatusBar /\ AttemptsBar' = AttemptsBar /\ cause' = cause
    \/ \E e \in Events :
        \/ /\ StatusBar[e] = "ABSENT"
           /\ StatusBar' = [StatusBar EXCEPT ![e] = "AWAITING_PROCESSING"]
           /\ AttemptsBar' = AttemptsBar
           /\ \/ cause' = [cause EXCEPT ![e] = [kind |-> "client", of |-> None]]
              \/ \E p \in Events :
                    /\ \A d \in Events : cause[d].of # p
                    /\ \/ /\ StatusBar[p] = "PROCESSED"
                          /\ cause' = [cause EXCEPT ![e] = [kind |-> "spinoff", of |-> p]]
                       \/ /\ StatusBar[p] = "FAILED"
                          /\ cause' = [cause EXCEPT ![e] = [kind |-> "onfail", of |-> p]]
        \/ /\ StatusBar[e] \in {"AWAITING_PROCESSING", "DISPATCHED"}
           /\ StatusBar' = [StatusBar EXCEPT ![e] = "DISPATCHED"]
           /\ AttemptsBar' = AttemptsBar /\ cause' = cause
        \/ /\ AttemptsBar[e] < MaxAttempts
           /\ StatusBar[e] \in {"DISPATCHED"}
           /\ StatusBar' = [StatusBar EXCEPT ![e] = "BEING_PROCESSED"]
           /\ AttemptsBar' = [AttemptsBar EXCEPT ![e] = AttemptsBar[e] + 1]
           /\ cause' = cause
        \/ /\ AttemptsBar[e] < MaxAttempts
           /\ StatusBar[e] \in {"BEING_PROCESSED"}
           /\ StatusBar' = [StatusBar EXCEPT ![e] = "AWAITING_PROCESSING"]
           /\ AttemptsBar' = AttemptsBar /\ cause' = cause
        \/ /\ StatusBar[e] \in {"BEING_PROCESSED"}
           /\ \E end \in {"PROCESSED", "FAILED"} :
                 StatusBar' = [StatusBar EXCEPT ![e] = end]
           /\ AttemptsBar' = AttemptsBar /\ cause' = cause

LEMMA AbstractStepIsNext ==
    ASSUME AbstractStep PROVE [StateMachine!Next]_StateMachine!svars
  BY DEF AbstractStep, StatusBar, AttemptsBar, StateMachine!Next, StateMachine!svars,
         StateMachine!Initiate, StateMachine!Follow, StateMachine!Dispatch,
         StateMachine!Begin, StateMachine!Retry, StateMachine!End, StateMachine!Move,
         StateMachine!FromClient, StateMachine!SpinoffOf, StateMachine!OnFailOf

LEMMA StepIsAbstract ==
    ASSUME ContractInv, Shape PROVE AbstractStep
  <1>1. CASE QuietStep \/ \E u \in Threads, e \in Events : LoadStep(u, e)
    BY <1>1 DEF QuietStep, LoadStep, AbstractStep, StatusBar, AttemptsBar
  <1>2. ASSUME NEW u \in Threads, NEW e \in Events, NEW new \in Row,
               UpdateStep(u, e, new)
        PROVE  AbstractStep
    <2>. DEFINE n == AttemptsBegun(new)
    <2>1. event' = [event EXCEPT ![e] = new] /\ cause' = cause
      BY <1>2 DEF UpdateStep
    <2>2. /\ n = new.failed + (IF new.status \in {"BEING_PROCESSED", "PROCESSED"}
                                  THEN 1 ELSE 0)
          /\ AttemptsBegun(event[e]) = event[e].failed +
                 (IF event[e].status \in {"BEING_PROCESSED", "PROCESSED"} THEN 1 ELSE 0)
      BY DEF AttemptsBegun
    <2>3. /\ event[e].left \in Nat /\ event[e].failed \in Nat /\ MaxAttempts \in Nat
      BY ConstantsOK DEF ContractInv, TypeInv, TypeOK, Row
    <2>4. /\ StatusBar' = [StatusBar EXCEPT ![e] = new.status]
          /\ AttemptsBar' = [AttemptsBar EXCEPT ![e] = n]
          /\ StatusBar[e] = event[e].status
          /\ AttemptsBar[e] = AttemptsBegun(event[e])
      BY <2>1, BarUpdate DEF ContractInv
    <2>. HIDE DEF n
    <2>5. /\ thread[u].seen = event[e] /\ event[e] # Absent
          /\ thread[u].pc = "mark" =>
                 event[e].status \in {"AWAITING_PROCESSING", "DISPATCHED"}
          /\ thread[u].pc = "activate" => event[e].status = "AWAITING_PROCESSING"
          /\ thread[u].pc = "permit" => event[e].status = "DISPATCHED"
          /\ thread[u].pc \in Reporting => event[e].status = "BEING_PROCESSED"
          /\ thread[u].pc = "retry" => event[e].left > 1
      BY <1>2, UpdateFrom DEF ContractInv
    <2>6. event[e].left >= 1 /\ (event[e].status # "FAILED" =>
                                    event[e].left + event[e].failed = MaxAttempts)
      BY <2>5 DEF ContractInv, PermitInv, AttemptsAccounted
    <2>7. AttemptsBar[e] = n => AttemptsBar' = AttemptsBar
      BY <2>4 DEF AttemptsBar
    <2>8. StatusBar[e] = new.status => StatusBar' = StatusBar
      BY <2>4 DEF StatusBar
    <2>9. CASE thread[u].pc = "mark"
      <3>1. n = AttemptsBar[e] /\ new.status = "DISPATCHED"
        BY <1>2, <2>2, <2>3, <2>4, <2>5, <2>9 DEF UpdateStep
      <3>. QED  BY <2>1, <2>4, <2>5, <2>7, <2>9, <3>1 DEF AbstractStep
    <2>10. CASE thread[u].pc = "activate"
      <3>1. n = AttemptsBar[e] /\ new.status = StatusBar[e]
        BY <1>2, <2>2, <2>3, <2>4, <2>5, <2>10 DEF UpdateStep
      <3>. QED  BY <2>1, <2>7, <2>8, <3>1 DEF AbstractStep
    <2>11. CASE thread[u].pc = "permit"
      <3>1. n = AttemptsBar[e] + 1 /\ new.status = "BEING_PROCESSED"
        BY <1>2, <2>2, <2>3, <2>4, <2>5, <2>11 DEF UpdateStep
      <3>2. AttemptsBar[e] < MaxAttempts
        BY <2>2, <2>3, <2>4, <2>5, <2>6, <2>11
      <3>. QED  BY <2>1, <2>4, <2>5, <2>11, <3>1, <3>2 DEF AbstractStep
    <2>12. CASE thread[u].pc = "succeed"
      <3>1. n = AttemptsBar[e] /\ new.status = "PROCESSED"
            /\ StatusBar[e] = "BEING_PROCESSED"
        BY <1>2, <2>2, <2>3, <2>4, <2>5, <2>12 DEF UpdateStep, Reporting
      <3>. QED  BY <2>1, <2>4, <2>7, <3>1 DEF AbstractStep
    <2>13. CASE thread[u].pc = "retry"
      <3>1. /\ n = AttemptsBar[e] /\ new.status = "AWAITING_PROCESSING"
            /\ StatusBar[e] = "BEING_PROCESSED"
        BY <1>2, <2>2, <2>3, <2>4, <2>5, <2>13 DEF UpdateStep, Reporting
      <3>2. AttemptsBar[e] < MaxAttempts
        BY <2>2, <2>3, <2>4, <2>5, <2>6, <2>13 DEF Reporting
      <3>. QED  BY <2>1, <2>4, <2>7, <3>1, <3>2 DEF AbstractStep
    <2>14. CASE thread[u].pc = "fail"
      <3>1. n = AttemptsBar[e] /\ new.status = "FAILED"
            /\ StatusBar[e] = "BEING_PROCESSED"
        BY <1>2, <2>2, <2>3, <2>4, <2>5, <2>14 DEF UpdateStep, Reporting
      <3>. QED  BY <2>1, <2>4, <2>7, <3>1 DEF AbstractStep
    <2>. QED  BY <1>2, <2>9, <2>10, <2>11, <2>12, <2>13, <2>14 DEF UpdateStep, Updating
  <1>3. ASSUME NEW u \in Threads, NEW e \in Events, NEW new \in Row, NEW why \in Cause,
               CreateStep(u, e, new, why)
        PROVE  AbstractStep
    <2>1. /\ event' = [event EXCEPT ![e] = new] /\ cause' = [cause EXCEPT ![e] = why]
          /\ new.status = "AWAITING_PROCESSING" /\ new.failed = 0
          /\ event[e].status = "ABSENT" /\ event[e].failed = 0
      BY <1>3 DEF CreateStep, Absent
    <2>2. /\ StatusBar' = [StatusBar EXCEPT ![e] = new.status]
          /\ AttemptsBar' = [AttemptsBar EXCEPT ![e] = AttemptsBegun(new)]
          /\ StatusBar[e] = event[e].status
          /\ AttemptsBar[e] = AttemptsBegun(event[e])
      BY <2>1, BarUpdate DEF ContractInv
    <2>3. AttemptsBar' = AttemptsBar
      BY <2>1, <2>2 DEF AttemptsBar, AttemptsBegun
    <2>4. thread[u].pc \in Following =>
              /\ thread[u].ev \in Events
              /\ \A d \in Events : cause[d].of # thread[u].ev
              /\ StatusBar[thread[u].ev] =
                     IF thread[u].pc = "spinoff" THEN "PROCESSED" ELSE "FAILED"
      BY DEF ContractInv, TypeInv, ThreadsOK, FollowInv, FollowerAlone, Following, StatusBar
    <2>5. \/ why = [kind |-> "client", of |-> None]
          \/ thread[u].pc = "spinoff" /\ why = [kind |-> "spinoff", of |-> thread[u].ev]
          \/ thread[u].pc = "onfail" /\ why = [kind |-> "onfail", of |-> thread[u].ev]
      BY <1>3 DEF CreateStep
    <2>. QED  BY <2>1, <2>2, <2>3, <2>4, <2>5 DEF AbstractStep, Following
  <1>. QED  BY <1>1, <1>2, <1>3 DEF Shape

LEMMA InitIsAbstract == Init => StateMachine!Init
  <1>1. Absent.status = "ABSENT" /\ Absent.failed = 0  BY DEF Absent
  <1>. QED  BY <1>1 DEF Init, AttemptsBegun, StateMachine!Init, StateMachine!NoCause

\* Every step of the engine is a step of the abstract state machine, or none of
\* its concern: jobs, handlers, races and failures together only ever move an
\* event along the state diagram, within its attempts, to one end.
THEOREM Refinement ==
    ASSUME Operators = {} PROVE Spec => ImplementsStateMachine
  <1>1. ContractInv /\ [Next]_vars => [StateMachine!Next]_StateMachine!svars
    BY NextShape, StepIsAbstract, AbstractStepIsNext DEF ContractInv
  <1>. QED  BY ContractInvariant, InitIsAbstract, <1>1, PTL
            DEF Spec, ImplementsStateMachine, StateMachine!Spec

-----------------------------------------------------------------------------
(* What the version column decides, whoever calls the API.                 *)

\* Goroutine t is about to send an UPDATE for a version the row has left.
Overtaken(t) ==
    thread[t].pc \in Updating /\ thread[t].seen.version < event[thread[t].ev].version

\* A row that changes moves one version on, past the copy of everybody who still
\* means to update it; and who has been overtaken stays so, with all that
\* withRetry repeats, until the call gives up: nothing it does changes a row.
WinnersOvertake ==
    /\ \A e \in Events : event'[e] # event[e] =>
          /\ event'[e].version = event[e].version + 1
          /\ \A t \in Threads : thread'[t].pc \in Updating /\ thread'[t].ev = e =>
                thread'[t].seen.version < event'[e].version
    /\ \A t \in Threads : Overtaken(t) =>
          /\ thread'[t] # thread[t] => event' = event
          /\ thread'[t].pc \in Updating =>
                /\ thread'[t].ev = thread[t].ev /\ thread'[t].seen = thread[t].seen
                /\ thread'[t].seen.version < event'[thread'[t].ev].version

LEMMA ChangeOvertakes ==
    ASSUME TypeInv, VersionInv, NEW u \in Threads, NEW e \in Events, NEW new \in Row,
           NEW why \in Cause, UpdateStep(u, e, new) \/ CreateStep(u, e, new, why)
    PROVE  /\ event'[e] = new /\ new.version = event[e].version + 1
           /\ \A d \in Events \ {e} : event'[d] = event[d]
           /\ thread'[u].pc \notin Updating
           /\ \A v \in Threads \ {u} : thread'[v] = thread[v]
  <1>1. \A d \in Events : event[d].version \in Nat
    BY DEF TypeInv, TypeOK, Row
  <1>2. CASE UpdateStep(u, e, new)
    <2>1. thread'[u].pc \notin Updating
      BY <1>2 DEF UpdateStep, Updating
    <2>2. event' = [event EXCEPT ![e] = new] /\ new.version = event[e].version + 1
          /\ \A v \in Threads \ {u} : thread'[v] = thread[v]
      BY <1>2 DEF UpdateStep, OthersStay
    <2>. QED  BY <2>1, <2>2 DEF TypeInv, TypeOK
  <1>3. CASE CreateStep(u, e, new, why)
    <2>1. thread'[u].pc \notin Updating
      BY <1>3 DEF CreateStep, Updating
    <2>2. event' = [event EXCEPT ![e] = new] /\ new.version = 1 /\ event[e].version = 0
          /\ \A v \in Threads \ {u} : thread'[v] = thread[v]
      BY <1>3, AbsentStatus DEF CreateStep, OthersStay
    <2>. QED  BY <2>1, <2>2 DEF TypeInv, TypeOK
  <1>. QED  BY <1>2, <1>3

LEMMA OvertakeStep ==
    ASSUME TypeInv, VersionInv, Shape
    PROVE  WinnersOvertake
  <1>0. /\ \A e \in Events : event[e].version \in Nat
        /\ \A t \in Threads : thread[t].pc \in Updating =>
              thread[t].ev \in Events /\ thread[t].seen.version \in Nat
    BY DEF TypeInv, TypeOK, ThreadsOK, Thread, Row, Updating
  <1>1. \A t \in Threads : thread[t].pc \in Updating =>
              thread[t].seen.version <= event[thread[t].ev].version
    BY DEF VersionInv, SnapshotCoherent
  <1>2. CASE QuietStep
    <2>1. event' = event
      BY <1>2 DEF QuietStep
    <2>2. ASSUME NEW t \in Threads, Overtaken(t), thread'[t].pc \in Updating
          PROVE  thread'[t].ev = thread[t].ev /\ thread'[t].seen = thread[t].seen
      BY <1>2, <2>2 DEF QuietStep, Updating
    <2>. QED  BY <2>1, <2>2 DEF WinnersOvertake, Overtaken
  <1>3. ASSUME NEW u \in Threads, NEW e \in Events, LoadStep(u, e)
        PROVE  WinnersOvertake
    <2>1. event' = event /\ \A t \in Threads : Overtaken(t) => thread'[t] = thread[t]
      BY <1>3 DEF LoadStep, OthersStay, Overtaken, Updating
    <2>. QED  BY <2>1 DEF WinnersOvertake, Overtaken
  <1>4. ASSUME NEW u \in Threads, NEW e \in Events, NEW new \in Row, NEW why \in Cause,
               UpdateStep(u, e, new) \/ CreateStep(u, e, new, why)
        PROVE  WinnersOvertake
    <2>1. /\ event'[e] = new /\ new.version = event[e].version + 1
          /\ \A d \in Events \ {e} : event'[d] = event[d]
          /\ thread'[u].pc \notin Updating
          /\ \A v \in Threads \ {u} : thread'[v] = thread[v]
      BY <1>4, ChangeOvertakes
    <2>2. ~Overtaken(u)
      <3>1. CASE UpdateStep(u, e, new)
        BY <1>0, <3>1 DEF UpdateStep, Overtaken, Matches
      <3>2. CASE CreateStep(u, e, new, why)
        BY <3>2 DEF CreateStep, Overtaken, Updating
      <3>. QED  BY <1>4, <3>1, <3>2
    <2>3. ASSUME NEW d \in Events, event'[d] # event[d]
          PROVE  /\ event'[d].version = event[d].version + 1
                 /\ \A t \in Threads : thread'[t].pc \in Updating /\ thread'[t].ev = d =>
                       thread'[t].seen.version < event'[d].version
      BY <1>0, <1>1, <2>1, <2>3
    <2>4. ASSUME NEW t \in Threads, Overtaken(t)
          PROVE  /\ thread'[t] = thread[t]
                 /\ thread'[t].seen.version < event'[thread'[t].ev].version
      <3>1. t # u /\ thread'[t] = thread[t] /\ thread[t].ev \in Events
        BY <1>0, <2>1, <2>2, <2>4 DEF Overtaken
      <3>. QED  BY <1>0, <2>1, <2>4, <3>1 DEF Overtaken
    <2>. QED  BY <2>3, <2>4 DEF WinnersOvertake
  <1>5. [kind |-> "none", of |-> None] \in Cause
    BY DEF Cause
  <1>. QED  BY <1>2, <1>3, <1>4, <1>5 DEF Shape

\* Of all who hold the same version of a row one at most updates it, and the
\* others never do: on every engine instance, with operators and repetitions.
THEOREM OneWriterPerVersion == Spec => [][WinnersOvertake]_vars
  <1>1. TypeInv /\ VersionInv /\ [Next]_vars => [WinnersOvertake]_vars
    BY NextShape, OvertakeStep
  <1>. QED  BY InitTypeInv, TypeStep, VersionInit, VersionStable, <1>1, PTL DEF Spec

-----------------------------------------------------------------------------
(* The life of an event is finite.                                         *)

StatusRank(status) ==
    CASE status = "ABSENT"              -> 0
      [] status = "AWAITING_PROCESSING" -> 1
      [] status = "DISPATCHED"          -> 2
      [] status = "BEING_PROCESSED"     -> 3
      [] status = "PROCESSED"           -> 4
      [] status = "FAILED"              -> 1

\* How many times an event has changed its status.
Journey(row) == 3 * row.failed + StatusRank(row.status)

LivesBounded == \A e \in Events : Journey(event[e]) <= 3 * MaxAttempts + 1

AttemptsBounded == \A e \in Events : AttemptsBegun(event[e]) <= MaxAttempts

\* Every change of status takes an event one further, nothing takes it back.
MovesForward ==
    \A e \in Events :
        Journey(event'[e]) = IF event'[e].status = event[e].status
                               THEN Journey(event[e]) ELSE Journey(event[e]) + 1

LEMMA RankValues ==
    /\ StatusRank("ABSENT") = 0 /\ StatusRank("AWAITING_PROCESSING") = 1
    /\ StatusRank("DISPATCHED") = 2 /\ StatusRank("BEING_PROCESSED") = 3
    /\ StatusRank("PROCESSED") = 4 /\ StatusRank("FAILED") = 1
  BY DEF StatusRank

LEMMA WithinAttempts ==
    ASSUME ContractInv, NEW e \in Events
    PROVE  /\ AttemptsBegun(event[e]) <= MaxAttempts
           /\ Journey(event[e]) <= 3 * MaxAttempts + 1
  <1>. DEFINE row == event[e]
  <1>1. row.left \in Nat /\ row.failed \in Nat /\ MaxAttempts \in Nat \ {0}
        /\ row.status \in Status \cup {"ABSENT"}
    BY ConstantsOK DEF ContractInv, TypeInv, TypeOK, Row
  <1>2. row.status # "ABSENT" =>
            /\ row.left >= 1
            /\ row.left + row.failed =
                   IF row.status = "FAILED" THEN MaxAttempts + 1 ELSE MaxAttempts
    BY AbsentStatus DEF ContractInv, PermitInv, AttemptsAccounted
  <1>3. row.status = "ABSENT" => row.failed = 0
    BY DEF ContractInv, VersionInv, RowsExist, Absent
  <1>4. /\ AttemptsBegun(row) =
               row.failed + (IF row.status \in {"BEING_PROCESSED", "PROCESSED"} THEN 1 ELSE 0)
        /\ Journey(row) = 3 * row.failed + StatusRank(row.status)
    BY DEF AttemptsBegun, Journey
  <1>. HIDE DEF row
  <1>5. ASSUME row.status = "FAILED"
        PROVE  AttemptsBegun(row) <= MaxAttempts /\ Journey(row) <= 3 * MaxAttempts + 1
    BY <1>1, <1>2, <1>4, <1>5, RankValues
  <1>6. ASSUME row.status \in {"AWAITING_PROCESSING", "DISPATCHED", "BEING_PROCESSED", "PROCESSED"}
        PROVE  AttemptsBegun(row) <= MaxAttempts /\ Journey(row) <= 3 * MaxAttempts + 1
    <2>1. row.failed <= MaxAttempts - 1
      BY <1>1, <1>2, <1>6
    <2>2. StatusRank(row.status) \in 1 .. 4
      BY <1>6, RankValues
    <2>. QED  BY <1>1, <1>4, <2>1, <2>2
  <1>7. ASSUME row.status = "ABSENT"
        PROVE  AttemptsBegun(row) <= MaxAttempts /\ Journey(row) <= 3 * MaxAttempts + 1
    <2>1. StatusRank(row.status) = 0 /\ row.failed = 0
      BY <1>3, <1>7, RankValues
    <2>2. AttemptsBegun(row) = 0 /\ Journey(row) = 0
      BY <1>4, <1>7, <2>1
    <2>. QED  BY <1>1, <2>2
  <1>8. AttemptsBegun(row) <= MaxAttempts /\ Journey(row) <= 3 * MaxAttempts + 1
    BY <1>1, <1>5, <1>6, <1>7 DEF Status
  <1>. QED  BY <1>8 DEF row

LEMMA JourneyStep ==
    ASSUME ContractInv, Shape
    PROVE  MovesForward
  <1>1. CASE QuietStep \/ \E u \in Threads, e \in Events : LoadStep(u, e)
    BY <1>1 DEF QuietStep, LoadStep, MovesForward
  <1>2. ASSUME NEW u \in Threads, NEW e \in Events, NEW new \in Row, UpdateStep(u, e, new)
        PROVE  MovesForward
    <2>. DEFINE row == event[e]
    <2>1. /\ event'[e] = new /\ \A d \in Events \ {e} : event'[d] = event[d]
          /\ thread[u].pc \in Updating
      BY <1>2 DEF UpdateStep, ContractInv, TypeInv, TypeOK
    <2>2. /\ thread[u].seen = row
          /\ thread[u].pc = "mark" =>
                 row.status \in {"AWAITING_PROCESSING", "DISPATCHED"}
          /\ thread[u].pc = "activate" => row.status = "AWAITING_PROCESSING"
          /\ thread[u].pc = "permit" => row.status = "DISPATCHED"
          /\ thread[u].pc \in {"succeed", "retry", "fail"} => row.status = "BEING_PROCESSED"
      BY <1>2, UpdateFrom DEF ContractInv, Reporting
    <2>3. row.failed \in Nat /\ new.failed \in Nat
      BY DEF ContractInv, TypeInv, TypeOK, Row
    <2>4. /\ thread[u].pc = "mark" => new.status = "DISPATCHED" /\ new.failed = row.failed
          /\ thread[u].pc = "activate" =>
                 new.status = "AWAITING_PROCESSING" /\ new.failed = row.failed
          /\ thread[u].pc = "permit" =>
                 new.status = "BEING_PROCESSED" /\ new.failed = row.failed
          /\ thread[u].pc = "succeed" => new.status = "PROCESSED" /\ new.failed = row.failed
          /\ thread[u].pc = "retry" =>
                 new.status = "AWAITING_PROCESSING" /\ new.failed = row.failed + 1
          /\ thread[u].pc = "fail" => new.status = "FAILED" /\ new.failed = row.failed + 1
      BY <1>2, <2>2 DEF UpdateStep
    <2>. HIDE DEF row
    <2>5. \/ new.status = row.status /\ new.failed = row.failed
          \/ /\ new.status # row.status /\ new.failed = row.failed
             /\ StatusRank(new.status) = StatusRank(row.status) + 1
          \/ /\ new.status # row.status /\ new.failed = row.failed + 1
             /\ row.status = "BEING_PROCESSED"
             /\ new.status \in {"AWAITING_PROCESSING", "FAILED"}
      BY <2>1, <2>2, <2>4, RankValues DEF Updating
    <2>6. StatusRank(new.status) \in Nat /\ StatusRank(row.status) \in Nat
      BY <2>1, <2>2, <2>4, RankValues DEF Updating
    <2>7. Journey(new) = IF new.status = row.status THEN Journey(row) ELSE Journey(row) + 1
      BY <2>3, <2>5, <2>6, RankValues DEF Journey
    <2>. QED  BY <2>1, <2>7 DEF MovesForward, row
  <1>3. ASSUME NEW u \in Threads, NEW e \in Events, NEW new \in Row, NEW why \in Cause,
               CreateStep(u, e, new, why)
        PROVE  MovesForward
    <2>1. /\ event'[e] = new /\ \A d \in Events \ {e} : event'[d] = event[d]
          /\ new.status = "AWAITING_PROCESSING" /\ new.failed = 0
          /\ event[e].status = "ABSENT" /\ event[e].failed = 0
      BY <1>3 DEF CreateStep, Absent, ContractInv, TypeInv, TypeOK
    <2>2. Journey(new) = 1 /\ Journey(event[e]) = 0
      BY <2>1, RankValues DEF Journey
    <2>. QED  BY <2>1, <2>2 DEF MovesForward
  <1>. QED  BY <1>1, <1>2, <1>3 DEF Shape

\* No event is taken up more often than max_attempts, however often it is
\* dispatched, delivered and reported.
THEOREM NoAttemptTooMany ==
    ASSUME Operators = {} PROVE Spec => []AttemptsBounded
  <1>1. ContractInv => AttemptsBounded
    BY WithinAttempts DEF AttemptsBounded
  <1>. QED  BY ContractInvariant, <1>1, PTL

\* The life of an event is finite: its status changes three times for each
\* attempt and once to be published, at most, and only ever forward.
THEOREM LivesAreFinite ==
    ASSUME Operators = {} PROVE Spec => []LivesBounded /\ [][MovesForward]_vars
  <1>1. ContractInv => LivesBounded
    BY WithinAttempts DEF LivesBounded
  <1>2. ContractInv /\ [Next]_vars => [MovesForward]_vars
    BY NextShape, JourneyStep DEF ContractInv
  <1>. QED  BY ContractInvariant, <1>1, <1>2, PTL DEF Spec
=============================================================================
