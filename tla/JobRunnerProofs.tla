--------------------------- MODULE JobRunnerProofs ---------------------------
(***************************************************************************)
(* Proofs about one scheduled job, for every number of events, every batch *)
(* size, every limit and every kind of job and surroundings.               *)
(***************************************************************************)
EXTENDS JobRunner, FiniteSetTheorems, TLAPS

\* What the query returns: everything, or a full batch.
LEMMA BatchSizes ==
    ASSUME TypeOK, Fetch
    PROVE  /\ batch' \subseteq selected
           /\ size' \in 0 .. BatchSize
           /\ size' < BatchSize => batch' = selected
  <1>1. batch' \subseteq selected /\ IsFiniteSet(batch')
    BY FS_Subset, LimitsOK DEF Fetch, TypeOK
  <1>2. Cardinality(batch') \in Nat
    BY <1>1, FS_CardinalityType
  <1>3. BatchSize \in Nat \ {0}
    BY LimitsOK DEF Limits
  <1>4. size' = Cardinality(batch') /\ Cardinality(batch') <= BatchSize
    BY <1>2, <1>3 DEF Fetch, Limit
  <1>5. size' < BatchSize => batch' = selected
    BY <1>2, <1>3, <1>4 DEF Fetch, Limit
  <1>6. QED
    BY <1>1, <1>2, <1>3, <1>4, <1>5

LEMMA TypeInit == Init => TypeOK
  <1> SUFFICES ASSUME Init
               PROVE  TypeOK
    OBVIOUS
  <1>1. 0 \in 0 .. BatchSize /\ 0 \in 0 .. MaxItems /\ 0 \in 0 .. MaxFails /\ 0 \in 0 .. MaxReturns
    BY LimitsOK DEF Limits
  <1>2. mode \in Modes /\ suspended \subseteq Events /\ pc = "starting"
    BY DEF Init
  <1>3. QED
    BY <1>1, <1>2 DEF Init, TypeOK

\* No outcome of an event takes a counter past its limit: the limits are tested
\* before each event.
LEMMA TypeProcess ==
    ASSUME TypeOK, Next, NEW e \in Events, ProcessItem(e)
    PROVE  TypeOK'
  <1>1. MaxItems \in Nat \ {0} /\ MaxFails \in Nat \ {0}
    BY LimitsOK DEF Limits
  <1>2. ok + 1 \in 0 .. MaxItems /\ bad + 1 \in 0 .. MaxFails
    BY <1>1 DEF ProcessItem, LimitReached, TypeOK
  <1>3. PICK success \in BOOLEAN, dispatched \in BOOLEAN : Process(e, success, dispatched)
    BY DEF ProcessItem, Skip, Dispatch, Fail
  <1>4. ok' \in 0 .. MaxItems /\ bad' \in 0 .. MaxFails
    BY <1>2, <1>3 DEF Process, TypeOK
  <1>5. mode' = mode
    BY DEF Next
  <1>6. batch' \subseteq Events /\ left' \subseteq Events /\ selected' \subseteq Events
    BY <1>3 DEF Process, TypeOK
  <1>7. QED
    BY <1>3, <1>4, <1>5, <1>6 DEF Process, TypeOK

LEMMA TypeStep == TypeOK /\ [Next]_vars => TypeOK'
  <1> SUFFICES ASSUME TypeOK, [Next]_vars
               PROVE  TypeOK'
    OBVIOUS
  <1>0. BatchSize \in Nat \ {0} /\ MaxItems \in Nat \ {0} /\ MaxFails \in Nat \ {0} /\ MaxReturns \in Nat
    BY LimitsOK DEF Limits
  <1>1. CASE UNCHANGED vars
    BY <1>1 DEF vars, env, job, TypeOK
  <1>2. CASE Next
    <2>0. UNCHANGED mode
      BY <1>2 DEF Next
    <2>1. CASE Begin
      BY <2>0, <2>1 DEF Begin, env, TypeOK
    <2>2. CASE Tick
      <3>1. 0 \in 0 .. BatchSize /\ 0 \in 0 .. MaxItems /\ 0 \in 0 .. MaxFails
        BY <1>0
      <3>2. QED
        BY <2>0, <2>2, <3>1 DEF Tick, env, TypeOK
    <2>3. CASE StopAtLimit \/ FetchError \/ EndBatch \/ Stop
      BY <2>0, <2>3 DEF StopAtLimit, FetchError, EndBatch, Stop, Finish, env, TypeOK
    <2>4. CASE Fetch
      <3>1. batch' \subseteq Events /\ size' \in 0 .. BatchSize
        BY <2>4, BatchSizes DEF TypeOK
      <3>2. QED
        BY <2>0, <2>4, <3>1 DEF Fetch, env, TypeOK
    <2>5. ASSUME NEW e \in Events, ProcessItem(e)
          PROVE  TypeOK'
      BY <1>2, <2>5, TypeProcess
    <2>6. CASE MaxRuntimeOver
      BY <2>0, <2>6 DEF MaxRuntimeOver, env, TypeOK
    <2>7. CASE Shutdown
      BY <2>0, <2>7 DEF Shutdown, env, job, TypeOK
    <2>8. ASSUME NEW e \in Events, Publish(e) \/ Unsuspend(e) \/ MovedElsewhere(e)
          PROVE  TypeOK'
      BY <2>0, <2>8 DEF Publish, Unsuspend, MovedElsewhere, job, TypeOK
    <2>9. ASSUME NEW e \in Events, Return(e)
          PROVE  TypeOK'
      <3>1. returns' \in 0 .. MaxReturns
        BY <1>0, <2>9 DEF Return, TypeOK
      <3>2. QED
        BY <2>0, <2>9, <3>1 DEF Return, job, TypeOK
    <2>10. QED
      BY <1>2, <2>1, <2>2, <2>3, <2>4, <2>5, <2>6, <2>7, <2>8, <2>9 DEF Next, Step, JobStep
  <1>3. QED
    BY <1>1, <1>2

\* Types are kept and no execution exceeds its limits, for every batch size and
\* every pair of limits.
THEOREM LimitsHold == Spec => []TypeOK
  BY TypeInit, TypeStep, PTL DEF Spec

-----------------------------------------------------------------------------
\* A short batch was all there was, and what has not been tried of it is still
\* to come; an execution that has not begun has nothing to try.
Drained ==
    /\ pc = "starting" => left = {}
    /\ pc = "items" /\ size < BatchSize => left = batch
    /\ DrainedMeansAllTried

LEMMA DrainedInit == Init => Drained
  BY DEF Init, Drained, DrainedMeansAllTried

LEMMA DrainedStep == TypeOK /\ Drained /\ [Next]_vars => Drained'
  <1> SUFFICES ASSUME TypeOK, Drained, [Next]_vars
               PROVE  Drained'
    OBVIOUS
  <1> USE DEF Drained, DrainedMeansAllTried, LimitReached, Faults
  <1>1. CASE UNCHANGED vars
    BY <1>1 DEF vars, env, job
  <1>2. CASE Next
    <2>0. UNCHANGED mode
      BY <1>2 DEF Next
    <2>1. CASE Begin
      BY <2>0, <2>1 DEF Begin
    <2>2. CASE Tick
      BY <2>0, <2>2 DEF Tick
    <2>3. CASE StopAtLimit
      BY <2>0, <2>3 DEF StopAtLimit, Finish
    <2>4. CASE FetchError
      BY <2>0, <2>4 DEF FetchError, Finish
    <2>5. CASE Fetch
      <3>1. size' < BatchSize => batch' = left'
        BY <2>5, BatchSizes DEF Fetch
      <3>2. batch' = {} => left' = {}
        <4>1. SUFFICES ASSUME batch' = {}
                       PROVE  size' < BatchSize
          BY <3>1
        <4>2. size' = 0
          BY <2>5, <4>1, FS_EmptySet DEF Fetch
        <4>3. QED
          BY <4>2, LimitsOK DEF Limits
      <3>3. QED
        BY <2>0, <2>5, <3>1, <3>2 DEF Fetch
    <2>6. ASSUME NEW e \in Events, ProcessItem(e)
          PROVE  Drained'
      <3>1. PICK success \in BOOLEAN, dispatched \in BOOLEAN : Process(e, success, dispatched)
        BY <2>6 DEF ProcessItem, Skip, Dispatch, Fail
      <3>2. pc = "items" /\ pc' = "items" /\ size' = size
        BY <2>6, <3>1 DEF ProcessItem, Process
      <3>3. QED
        BY <3>1, <3>2 DEF Process
    <2>7. CASE EndBatch
      BY <2>0, <2>7 DEF EndBatch, Short
    <2>8. CASE Stop
      BY <2>0, <2>8 DEF Stop
    <2>9. CASE MaxRuntimeOver
      BY <2>0, <2>9 DEF MaxRuntimeOver
    <2>10. CASE Shutdown
      BY <2>0, <2>10 DEF Shutdown, job
    <2>11. ASSUME NEW e \in Events, Publish(e) \/ Unsuspend(e) \/ MovedElsewhere(e) \/ Return(e)
           PROVE  Drained'
      BY <2>0, <2>11 DEF Publish, Unsuspend, MovedElsewhere, Return, job
    <2>12. QED
      BY <1>2, <2>1, <2>2, <2>3, <2>4, <2>5, <2>6, <2>7, <2>8, <2>9, <2>10, <2>11
         DEF Next, Step, JobStep
  <1>3. QED
    BY <1>1, <1>2

\* An execution ended by a short batch has tried all its last query selected.
THEOREM ShortBatchIsLast == Spec => []DrainedMeansAllTried
  <1>1. Init => TypeOK /\ Drained
    BY TypeInit, DrainedInit
  <1>2. TypeOK /\ Drained /\ [Next]_vars => (TypeOK /\ Drained)'
    BY TypeStep, DrainedStep
  <1>3. Drained => DrainedMeansAllTried
    BY DEF Drained
  <1>4. QED
    BY <1>1, <1>2, <1>3, PTL DEF Spec

-----------------------------------------------------------------------------
(* Why every execution ends: each of its steps takes something of a natural *)
(* number that nothing else in the system gives back.                       *)

Executing == pc \in {"fetch", "items"}

Untouched == Cardinality(batch) = size

\* What an execution may still process, and what it has to do before the next
\* event: a query is worth making only once per event.
Remaining == (MaxItems - ok) + (MaxFails - bad)

Overhead == IF pc = "fetch" THEN IF LimitReached THEN 0 ELSE 2
                            ELSE IF Untouched THEN 1 ELSE 3

Variant == 3 * Remaining + Overhead

\* A batch that is worked on came with an event at least.
BatchOK == pc = "items" => size > 0

NearsItsEnd ==
    Executing /\ pc' \in {"fetch", "items"} =>
        /\ Variant \in Nat /\ Variant' \in Nat
        /\ Variant' <= Variant
        /\ JobStep => Variant' < Variant

LEMMA BatchOKStep == TypeOK /\ BatchOK /\ [Next]_vars => BatchOK'
  <1> SUFFICES ASSUME TypeOK, BatchOK, [Next]_vars
               PROVE  BatchOK'
    OBVIOUS
  <1> USE DEF BatchOK
  <1>1. CASE UNCHANGED vars
    BY <1>1 DEF vars, job
  <1>2. CASE Fetch
    <2>1. SUFFICES ASSUME batch' # {}
                   PROVE  size' > 0
      BY <1>2 DEF Fetch
    <2>2. IsFiniteSet(batch')
      BY <1>2, BatchSizes, FS_Subset, LimitsOK DEF TypeOK
    <2>3. Cardinality(batch') \in Nat /\ Cardinality(batch') # 0
      BY <2>1, <2>2, FS_CardinalityType, FS_EmptySet
    <2>4. QED
      BY <1>2, <2>3 DEF Fetch
  <1>3. ASSUME NEW e \in Events, ProcessItem(e)
        PROVE  BatchOK'
    BY <1>3 DEF ProcessItem, Skip, Dispatch, Fail, Process
  <1>4. CASE Begin \/ Tick \/ StopAtLimit \/ FetchError \/ EndBatch \/ Stop
    BY <1>4 DEF Begin, Tick, StopAtLimit, FetchError, EndBatch, Stop, Finish
  <1>5. CASE MaxRuntimeOver \/ Shutdown
    BY <1>5 DEF MaxRuntimeOver, Shutdown, job
  <1>6. ASSUME NEW e \in Events, Publish(e) \/ Unsuspend(e) \/ MovedElsewhere(e) \/ Return(e)
        PROVE  BatchOK'
    BY <1>6 DEF Publish, Unsuspend, MovedElsewhere, Return, job
  <1>7. QED
    BY <1>1, <1>2, <1>3, <1>4, <1>5, <1>6 DEF Next, Step, JobStep

LEMMA Weights ==
    ASSUME NEW a \in Nat, NEW b \in Nat, NEW o \in 0 .. 3, NEW p \in 0 .. 3
    PROVE  /\ 3 * a + o \in Nat
           /\ b = a /\ p <= o => 3 * b + p <= 3 * a + o
           /\ b = a /\ p < o => 3 * b + p < 3 * a + o
           /\ b = a - 1 /\ o >= 1 => 3 * b + p < 3 * a + o
  OBVIOUS

LEMMA VariantStep == TypeOK /\ BatchOK /\ [Next]_vars => NearsItsEnd
  <1> SUFFICES ASSUME TypeOK, BatchOK, [Next]_vars, Executing, pc' \in {"fetch", "items"}
               PROVE  /\ Variant \in Nat /\ Variant' \in Nat
                      /\ Variant' <= Variant
                      /\ JobStep => Variant' < Variant
    BY DEF NearsItsEnd
  <1>0. MaxItems \in Nat /\ MaxFails \in Nat /\ BatchSize \in Nat \ {0}
    BY LimitsOK DEF Limits
  <1>1. PICK a \in Nat, b \in Nat : a = Remaining /\ b = Remaining'
    <2>1. \A i \in 0 .. MaxItems, f \in 0 .. MaxFails : (MaxItems - i) + (MaxFails - f) \in Nat
      BY <1>0
    <2>2. TypeOK'
      BY TypeStep
    <2>3. Remaining \in Nat
      BY <2>1 DEF TypeOK, Remaining
    <2>4. Remaining' \in Nat
      BY <2>1, <2>2 DEF TypeOK, Remaining
    <2>5. QED
      BY <2>3, <2>4
  <1>2. PICK o \in 0 .. 3, p \in 0 .. 3 : o = Overhead /\ p = Overhead'
    <2>1. Overhead \in 0 .. 3 /\ Overhead' \in 0 .. 3
      BY DEF Overhead
    <2>2. QED
      BY <2>1
  <1>3. Variant = 3 * a + o /\ Variant' = 3 * b + p
    BY <1>1, <1>2 DEF Variant
  <1>4. 3 * a + o \in Nat /\ 3 * b + p \in Nat
    BY Weights
  <1>5. Variant \in Nat /\ Variant' \in Nat
    BY <1>3, <1>4
  \* one event less to process pays for everything else
  <1>6. ASSUME NEW e \in Events, ProcessItem(e)
        PROVE  3 * b + p < 3 * a + o
    <2>1. PICK success \in BOOLEAN, dispatched \in BOOLEAN : Process(e, success, dispatched)
      BY <1>6 DEF ProcessItem, Skip, Dispatch, Fail
    <2>2. ok \in Nat /\ bad \in Nat
      BY <1>0 DEF TypeOK
    <2>3. b = a - 1
      BY <1>0, <1>1, <2>1, <2>2 DEF Process, Remaining
    <2>4. o >= 1
      BY <1>2, <1>6 DEF ProcessItem, Overhead
    <2>5. QED
      BY <2>3, <2>4, Weights
  <1>7. ASSUME Fetch
        PROVE  3 * b + p < 3 * a + o
    <2>1. b = a
      BY <1>1, <1>7 DEF Fetch, Remaining
    <2>2. o = 2
      BY <1>2, <1>7 DEF Fetch, Overhead
    <2>3. pc' = "items" /\ Untouched'
      BY <1>7 DEF Fetch, Untouched
    <2>4. p = 1
      BY <1>2, <2>3 DEF Overhead
    <2>5. QED
      BY <2>1, <2>2, <2>4, Weights
  \* the batch is used up, or no further query will be made
  <1>8. ASSUME EndBatch
        PROVE  3 * b + p < 3 * a + o
    <2>1. b = a
      BY <1>1, <1>8 DEF EndBatch, Remaining
    <2>2. pc = "items" /\ pc' = "fetch"
      BY <1>8 DEF EndBatch
    <2>3. CASE LimitReached
      <3>1. LimitReached'
        BY <1>8, <2>3 DEF EndBatch, LimitReached
      <3>2. o >= 1 /\ p = 0
        BY <1>2, <2>2, <3>1 DEF Overhead
      <3>3. QED
        BY <2>1, <3>2, Weights
    <2>4. CASE batch = {}
      <3>1. Cardinality(batch) = 0
        BY <2>4, FS_EmptySet
      <3>2. ~Untouched
        BY <1>0, <2>2, <3>1 DEF Untouched, BatchOK, TypeOK
      <3>3. o = 3 /\ p <= 2
        BY <1>2, <2>2, <3>2 DEF Overhead
      <3>4. QED
        BY <2>1, <3>3, Weights
    <2>5. QED
      BY <1>8, <2>3, <2>4 DEF EndBatch
  <1>9. ASSUME StopAtLimit \/ FetchError
        PROVE  FALSE
    BY <1>9 DEF StopAtLimit, FetchError, Finish
  <1>10. ASSUME JobStep
         PROVE  3 * b + p < 3 * a + o
    BY <1>6, <1>7, <1>8, <1>9, <1>10 DEF JobStep
  \* the others take nothing from an execution but the time it has
  <1>11. ASSUME ~JobStep
         PROVE  3 * b + p <= 3 * a + o
    <2>1. UNCHANGED <<pc, batch, size, ok, bad>> /\ (LimitReached => LimitReached')
      <3>1. CASE UNCHANGED vars
        BY <3>1 DEF vars, job, LimitReached
      <3>2. CASE Begin \/ Tick \/ Stop
        BY <3>2 DEF Begin, Tick, Stop, Executing
      <3>3. CASE MaxRuntimeOver \/ Shutdown
        BY <3>3 DEF MaxRuntimeOver, Shutdown, job, LimitReached
      <3>4. ASSUME NEW e \in Events, Publish(e) \/ Unsuspend(e) \/ MovedElsewhere(e) \/ Return(e)
            PROVE  UNCHANGED <<pc, batch, size, ok, bad, done, canceled>>
        BY <3>4 DEF Publish, Unsuspend, MovedElsewhere, Return, job
      <3>5. QED
        BY <1>11, <3>1, <3>2, <3>3, <3>4 DEF Next, Step, LimitReached
    <2>2. b = a
      BY <1>1, <2>1 DEF Remaining
    <2>3. p = o \/ p = 0
      BY <1>2, <2>1 DEF Overhead, Untouched
    <2>4. QED
      BY <2>2, <2>3, Weights
  <1>12. 3 * b + p <= 3 * a + o
    BY <1>4, <1>10, <1>11
  <1>13. QED
    BY <1>3, <1>5, <1>10, <1>12

\* Every step of an execution brings its end nearer and nothing moves it away,
\* for every batch size and all limits: an execution makes at most
\* 3 * (MaxItems + MaxFails) + 3 steps, also when suspended or requeued events
\* fill every batch.
THEOREM ExecutionsShrink == Spec => [][NearsItsEnd]_vars
  <1>1. Init => TypeOK /\ BatchOK
    BY TypeInit DEF Init, BatchOK
  <1>2. TypeOK /\ BatchOK /\ [Next]_vars => (TypeOK /\ BatchOK)'
    BY TypeStep, BatchOKStep
  <1>3. TypeOK /\ BatchOK /\ [Next]_vars => [NearsItsEnd]_vars
    BY VariantStep
  <1>4. QED
    BY <1>1, <1>2, <1>3, PTL DEF Spec
=============================================================================
