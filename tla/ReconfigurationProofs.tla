------------------------ MODULE ReconfigurationProofs ------------------------
(***************************************************************************)
(* Proofs about the configuration caches and about an event whose type is  *)
(* reconfigured under it, for any number of engines, callers and writes    *)
(* and any attempts the writes may set.                                    *)
(***************************************************************************)
EXTENDS Reconfiguration, TLAPS

-----------------------------------------------------------------------------
(* The caches.                                                             *)

LEMMA NoRowType == NoRow \in Config /\ NoEntry \in Entry /\ Idle \in Call
  BY DEF NoRow, Config, NoEntry, Entry, Idle, Call

\* A caller that goes on with a value that is a row, or with none at all.
LEMMA GotoType ==
    ASSUME TypeOK, NEW c \in Callers, NEW v \in Config,
           NEW p \in {"idle", "evict", "find", "set", "use", "delete"},
           p \in {"set", "use"} => v # NoRow,
           Goto(c, p, v)
    PROVE  /\ call' \in [Callers -> Call]
           /\ \A d \in Callers : call'[d].pc \in {"set", "use"} => call'[d].value # NoRow
           /\ \A d \in Callers \ {c} : call'[d] = call[d]
           /\ call'[c] = [pc |-> p, value |-> v]
  <1>1. call'[c] = [pc |-> p, value |-> v] /\ \A d \in Callers \ {c} : call'[d] = call[d]
    BY DEF Goto, TypeOK, Call
  <1>2. call' \in [Callers -> Call]
    BY DEF Goto, TypeOK, Call
  <1>3. QED
    BY <1>1, <1>2 DEF TypeOK

LEMMA ReturnType ==
    ASSUME TypeOK, NEW c \in Callers, Return(c)
    PROVE  /\ call' \in [Callers -> Call]
           /\ \A d \in Callers : call'[d].pc \in {"set", "use"} => call'[d].value # NoRow
           /\ \A d \in Callers \ {c} : call'[d] = call[d]
           /\ call'[c] = Idle
  BY NoRowType DEF Return, TypeOK, Idle

LEMMA PutType ==
    ASSUME TypeOK, NEW c \in Callers, NEW e \in Entry, e.used => e.value # NoRow, Put(c, e)
    PROVE  /\ cache' \in [Engines -> Entry]
           /\ \A n \in Engines : cache'[n].used => cache'[n].value # NoRow
  BY EngineOfOK DEF Put, TypeOK

LEMMA TypeInit == Init => TypeOK
  BY NoRowType DEF Init, TypeOK, NoEntry, Idle

LEMMA TypeGet ==
    ASSUME TypeOK, NEW c \in Callers, Get(c)
    PROVE  TypeOK'
  <1>1. EngineOf[c] \in Engines
    BY EngineOfOK
  <1>2. /\ Lookup(c) \in {"find", "use", "evict"}
        /\ Lookup(c) = "use" => Cached(c).used
    BY DEF Lookup
  <1>3. Cached(c).value \in Config /\ (Lookup(c) = "use" => Cached(c).value # NoRow)
    BY <1>1, <1>2 DEF TypeOK, Entry, Cached
  <1>4. CASE Lookup(c) = "use"
    <2>1. Goto(c, "use", Cached(c).value)
      BY <1>4 DEF Get
    <2>2. QED
      BY <1>3, <1>4, <2>1, GotoType DEF Get, TypeOK
  <1>5. CASE Lookup(c) # "use"
    <2>1. Goto(c, Lookup(c), NoRow)
      BY <1>5 DEF Get
    <2>2. QED
      BY <1>2, <1>5, <2>1, GotoType, NoRowType DEF Get, TypeOK
  <1>6. QED
    BY <1>4, <1>5

LEMMA TypeContinue ==
    ASSUME TypeOK, NEW c \in Callers, Continue(c)
    PROVE  TypeOK'
  <1>1. CASE Evict(c)
    <2>1. Goto(c, "find", NoRow) /\ UNCHANGED row
      BY <1>1 DEF Evict
    <2>2. /\ cache' \in [Engines -> Entry]
          /\ \A n \in Engines : cache'[n].used => cache'[n].value # NoRow
      <3>1. CASE UNCHANGED cache
        BY <3>1 DEF TypeOK
      <3>2. CASE Put(c, NoEntry)
        BY <3>2, PutType, NoRowType DEF NoEntry
      <3>3. QED
        BY <1>1, <3>1, <3>2 DEF Evict
    <2>3. QED
      BY <2>1, <2>2, GotoType, NoRowType DEF TypeOK
  <1>2. CASE Find(c)
    <2>1. CASE row = NoRow
      <3>1. Return(c)
        BY <1>2, <2>1 DEF Find
      <3>2. QED
        BY <1>2, <3>1, ReturnType DEF Find, TypeOK
    <2>2. CASE row # NoRow
      <3>1. Goto(c, "set", row) /\ row \in Config
        BY <1>2, <2>2 DEF Find, TypeOK
      <3>2. QED
        BY <1>2, <2>2, <3>1, GotoType DEF Find, TypeOK
    <2>3. QED
      BY <2>1, <2>2
  <1>3. CASE Set(c)
    <2>1. call[c].value \in Config /\ call[c].value # NoRow
      BY <1>3 DEF Set, TypeOK, Call
    <2> DEFINE e == [used |-> TRUE, value |-> call[c].value, fresh |-> TRUE]
    <2>2. e \in Entry /\ e.value # NoRow /\ Put(c, e)
      BY <1>3, <2>1 DEF Set, Entry
    <2>3. Goto(c, "use", call[c].value) /\ UNCHANGED row
      BY <1>3 DEF Set
    <2>4. /\ cache' \in [Engines -> Entry]
          /\ \A n \in Engines : cache'[n].used => cache'[n].value # NoRow
      BY <2>2, PutType
    <2>5. QED
      BY <2>1, <2>3, <2>4, GotoType DEF TypeOK
  <1>4. CASE Use(c)
    BY <1>4, ReturnType DEF Use, TypeOK
  <1>5. CASE Delete(c)
    BY <1>5, PutType, ReturnType, NoRowType DEF Delete, TypeOK, NoEntry
  <1>6. CASE FindFails(c)
    BY <1>6, ReturnType DEF FindFails, TypeOK
  <1>7. QED
    BY <1>1, <1>2, <1>3, <1>4, <1>5, <1>6 DEF Continue

LEMMA TypeWrite ==
    ASSUME TypeOK, NEW c \in Callers, NEW new \in Config, Write(c, new)
    PROVE  TypeOK'
  <1>1. row' \in Config /\ UNCHANGED cache
    BY DEF Write
  <1>2. CASE Goto(c, "delete", NoRow)
    BY <1>1, <1>2, GotoType, NoRowType DEF TypeOK
  <1>3. CASE UNCHANGED call
    BY <1>1, <1>3 DEF TypeOK
  <1>4. QED
    BY <1>2, <1>3 DEF Write

LEMMA TypeStep == TypeOK /\ [Next]_vars => TypeOK'
  <1> SUFFICES ASSUME TypeOK, [Next]_vars
               PROVE  TypeOK'
    OBVIOUS
  <1>1. CASE UNCHANGED vars
    BY <1>1 DEF vars, TypeOK
  <1>2. ASSUME NEW c \in Callers, Get(c) \/ Continue(c)
        PROVE  TypeOK'
    BY <1>2, TypeGet, TypeContinue
  <1>3. ASSUME NEW c \in Callers, UpdateConfig(c)
        PROVE  TypeOK'
    <2>1. [rev |-> row.rev + 1, settings |-> row.rev + 1, suspended |-> FALSE] \in Config
      <3>1. row.rev \in Nat /\ row.rev < MaxWrites
        BY <1>3, EngineOfOK DEF UpdateConfig, Write, TypeOK, Config, NoRow
      <3>2. row.rev + 1 \in Nat \ {0} /\ row.rev + 1 \in 1 .. MaxWrites
        BY <3>1, EngineOfOK
      <3>3. QED
        BY <3>2 DEF Config
    <2>2. QED
      BY <1>3, <2>1, TypeWrite DEF UpdateConfig
  <1>4. ASSUME NEW c \in Callers, NEW b \in BOOLEAN, UpdateSuspensionState(c, b)
        PROVE  TypeOK'
    <2>1. CASE row = NoRow
      BY <1>4, <2>1, TypeWrite, NoRowType DEF UpdateSuspensionState
    <2>2. CASE row # NoRow
      <3>1. /\ row = [rev |-> row.rev, settings |-> row.settings, suspended |-> row.suspended]
            /\ row.rev + 1 \in Nat \ {0} /\ row.settings \in 1 .. MaxWrites
        BY <2>2 DEF TypeOK, Config
      <3>2. [row EXCEPT !.rev = @ + 1, !.suspended = b] \in Config
        <4>1. CASE b = TRUE
          BY <3>1, <4>1 DEF Config
        <4>2. CASE b = FALSE
          BY <3>1, <4>2 DEF Config
        <4>3. QED
          BY <4>1, <4>2
      <3>3. QED
        BY <1>4, <2>2, <3>2, TypeWrite DEF UpdateSuspensionState
    <2>3. QED
      BY <2>1, <2>2
  <1>5. ASSUME NEW n \in Engines, Expire(n)
        PROVE  TypeOK'
    <2>1. cache' \in [Engines -> Entry]
      BY <1>5 DEF Expire, TypeOK, Entry
    <2>2. \A m \in Engines : cache'[m].used = cache[m].used /\ cache'[m].value = cache[m].value
      BY <1>5 DEF Expire, TypeOK, Entry
    <2>3. QED
      BY <1>5, <2>1, <2>2 DEF Expire, TypeOK
  <1>6. ASSUME NEW n \in Engines, Restart(n)
        PROVE  TypeOK'
    <2>1. row' \in Config
      <3>1. 1 \in 1 .. MaxWrites
        BY EngineOfOK
      <3>2. QED
        BY <1>6, <3>1 DEF Restart, Seeded, TypeOK, Config
    <2>2. /\ cache' \in [Engines -> Entry]
          /\ \A m \in Engines : cache'[m].used => cache'[m].value # NoRow
      BY <1>6, NoRowType DEF Restart, TypeOK, NoEntry
    <2>3. /\ call' \in [Callers -> Call]
          /\ \A c \in Callers : call'[c].pc \in {"set", "use"} => call'[c].value # NoRow
      BY <1>6, NoRowType DEF Restart, TypeOK, Idle
    <2>4. QED
      BY <2>1, <2>2, <2>3 DEF TypeOK
  <1>7. QED
    BY <1>1, <1>2, <1>3, <1>4, <1>5, <1>6 DEF Next

\* The clean-up of an expired entry throws no refreshed one away.
LEMMA EvictionStep ==
    ASSUME TypeOK, [Next]_vars, NEW c \in Callers,
           call[c].pc = "evict", call'[c].pc = "find", Cached(c).fresh
    PROVE  cache'[EngineOf[c]] = Cached(c)
  <1>1. CASE UNCHANGED vars
    BY <1>1 DEF vars
  <1>2. ASSUME NEW d \in Callers,
               \/ Get(d) \/ Continue(d) \/ UpdateConfig(d)
               \/ \E b \in BOOLEAN : UpdateSuspensionState(d, b)
        PROVE  cache'[EngineOf[c]] = Cached(c)
    <2>1. d = c
      BY <1>2 DEF Get, Continue, Evict, Find, FindFails, Set, Use, Delete, UpdateConfig,
                  UpdateSuspensionState, Write, Goto, Return, TypeOK
    <2>2. Evict(c)
      BY <1>2, <2>1 DEF Get, Continue, Find, FindFails, Set, Use, Delete, UpdateConfig,
                        UpdateSuspensionState, Write
    <2>3. QED
      BY <2>2 DEF Evict, Cached
  <1>3. ASSUME NEW n \in Engines, Expire(n) \/ Restart(n)
        PROVE  FALSE
    BY <1>3 DEF Expire, Restart, TypeOK, Idle
  <1>4. QED
    BY <1>1, <1>2, <1>3 DEF Next

THEOREM CachesTypeCorrect == Spec => []TypeOK
  BY TypeInit, TypeStep, PTL DEF Spec

THEOREM FreshEntriesStay == Spec => NoFreshEvicted
  <1>1. TypeOK /\ [Next]_vars =>
          [\A c \in Callers :
              call[c].pc = "evict" /\ call'[c].pc = "find" /\ Cached(c).fresh =>
                  cache'[EngineOf[c]] = Cached(c)]_vars
    BY EvictionStep
  <1>2. QED
    BY <1>1, CachesTypeCorrect, PTL DEF Spec, NoFreshEvicted

-----------------------------------------------------------------------------
(* An event under reconfiguration does nothing to the configuration that a *)
(* caller of EventConfig could not do: what holds of the caches still does. *)

LEMMA RNextIsNext == [RNext]_rvars => [Next]_vars
  <1> SUFFICES ASSUME [RNext]_rvars
               PROVE  [Next]_vars
    OBVIOUS
  <1>1. CASE UNCHANGED rvars
    BY <1>1 DEF rvars
  <1>2. ASSUME NEW c \in Callers, Complete(c)
        PROVE  Next
    BY <1>2 DEF Complete, Load, NotConfigured, DatabaseFails, Publish, ProcessPendingEvent,
                Acquire, ReportFailure, Continue, Next
  <1>3. ASSUME NEW c \in Jobs, BeginDispatch(c)
        PROVE  Next
    BY <1>3, ReconfigurationOK DEF BeginDispatch, Begin, Next
  <1>4. ASSUME NEW c \in Callers, BeginPublish(c) \/ BeginAcquire(c) \/ BeginFailure(c)
        PROVE  Next
    BY <1>4 DEF BeginPublish, BeginAcquire, BeginFailure, Begin, Next
  <1>5. ASSUME NEW c \in Operators, Reconfigure(c)
        PROVE  Next
    BY <1>5, ReconfigurationOK DEF Reconfigure, Next
  <1>6. CASE ReportSuccess \/ LoseReport \/ LoseMessage
    BY <1>6 DEF ReportSuccess, LoseReport, LoseMessage
  <1>7. ASSUME NEW n \in Engines, Crash(n) \/ Expire(n)
        PROVE  Next
    BY <1>7 DEF Crash, Next
  <1>8. QED
    BY <1>1, <1>2, <1>3, <1>4, <1>5, <1>6, <1>7 DEF RNext

\* The composition implements the caches alone.
THEOREM ReconfigurationKeepsCaches == RSpec => Spec
  <1>1. RInit => Init
    BY DEF RInit
  <1>2. QED
    BY <1>1, RNextIsNext, PTL DEF RSpec, Spec

\* So no caller is handed the nil pointer of a missing row.
THEOREM CallersTypeCorrect == RSpec => []TypeOK
  BY ReconfigurationKeepsCaches, CachesTypeCorrect, PTL

\* And no clean-up throws a refreshed entry away.
THEOREM RefreshedEntriesStay == RSpec => NoFreshEvicted
  BY ReconfigurationKeepsCaches, FreshEntriesStay, PTL

\* Engines that start change no configuration that is there.
THEOREM SeedsAreInert == RSpec => OnlyOperatorsReconfigure
  <1>1. [RNext]_rvars =>
          [row # NoRow /\ row' # row =>
              \E c \in Operators : call[c].pc = "idle" /\ Reconfigure(c)]_rvars
    <2> SUFFICES ASSUME RNext, row # NoRow, row' # row
                 PROVE  \E c \in Operators : call[c].pc = "idle" /\ Reconfigure(c)
      OBVIOUS
    <2>1. ASSUME NEW c \in Callers,
                 Complete(c) \/ BeginDispatch(c) \/ BeginPublish(c) \/ BeginAcquire(c) \/ BeginFailure(c)
          PROVE  UNCHANGED row
      BY <2>1 DEF Complete, Load, NotConfigured, DatabaseFails, Publish, ProcessPendingEvent,
                  Acquire, ReportFailure, BeginDispatch, BeginPublish, BeginAcquire, BeginFailure,
                  Begin, Get, Evict, Find, FindFails, Set, Use, Delete
    <2>2. CASE ReportSuccess \/ LoseReport \/ LoseMessage
      BY <2>2 DEF ReportSuccess, LoseReport, LoseMessage, vars
    <2>3. ASSUME NEW n \in Engines, Crash(n) \/ Expire(n)
          PROVE  UNCHANGED row
      BY <2>3 DEF Crash, Restart, Seeded, Expire
    <2>4. PICK c \in Operators : Reconfigure(c)
      BY <2>1, <2>2, <2>3, ReconfigurationOK DEF RNext
    <2>5. call[c].pc = "idle"
      BY <2>4 DEF Reconfigure, UpdateConfig, UpdateSuspensionState, Write
    <2>6. QED
      BY <2>4, <2>5
  <1>2. QED
    BY <1>1, PTL DEF RSpec, OnlyOperatorsReconfigure

-----------------------------------------------------------------------------
(* The event.                                                              *)

Ops == {"none", "publish", "dispatch", "acquire", "failure"}

Statuses == {"ABSENT", "AWAITING_PROCESSING", "DISPATCHED", "BEING_PROCESSED", "PROCESSED", "FAILED"}

EventTypeOK ==
    /\ event \in [status: Statuses, left: Int, failed: Nat]
    /\ task \in [Callers -> [op: Ops, current: BOOLEAN]]
    /\ held \in BOOLEAN
    /\ budget \in Int /\ begun \in Nat

\* A caller at rest is in no call of the lifecycle service.
Linked == \A c \in Callers : call[c].pc \in {"idle", "delete"} => task[c].op = "none"

\* What a call knows of the row as long as its copy is current.
Copies ==
    \A c \in Callers :
        /\ task[c].op = "publish" /\ task[c].current => event = Absent
        /\ task[c].op = "dispatch" /\ task[c].current =>
               event.status \in {"AWAITING_PROCESSING", "DISPATCHED"}
        /\ task[c].op = "acquire" /\ task[c].current => event.status = "DISPATCHED"
        /\ task[c].op = "failure" => task[c].current /\ event.status = "BEING_PROCESSED"

\* The permit is held, reported on by one call, or lost, and its row stays.
OneReport ==
    /\ held \/ lost # {} => event.status = "BEING_PROCESSED"
    /\ held => lost = {}
    /\ \A c \in Callers : task[c].op = "failure" =>
           ~held /\ lost = {} /\ \A d \in Callers \ {c} : task[d].op # "failure"

\* No permit is forgotten.
Reported ==
    event.status = "BEING_PROCESSED" =>
        held \/ lost # {} \/ \E c \in Callers : task[c].op = "failure"

\* Only the first attempt can begin without one that is left.
Counted ==
    /\ event.status = "ABSENT" => event = Absent /\ begun = 0
    /\ event.status \in {"AWAITING_PROCESSING", "DISPATCHED", "BEING_PROCESSED"} =>
           event.left >= 1 \/ event.failed = 0
    /\ AttemptsFixedAtPublication

\* A row is there for good: whoever has seen it, and the event published by it.
RowStays ==
    row = NoRow =>
        /\ event = Absent
        /\ \A n \in Engines : ~cache[n].used
        /\ \A c \in Callers : call[c].pc \notin {"set", "use"}

EInv == EventTypeOK /\ Linked /\ Copies /\ OneReport /\ Counted /\ Reported

LEMMA EInvInit == RInit => EInv
  <1> SUFFICES ASSUME RInit
               PROVE  EInv
    OBVIOUS
  <1>1. /\ event = Absent /\ held = FALSE /\ budget = 0 /\ begun = 0 /\ lost = {}
        /\ task = [c \in Callers |-> NoTask]
    BY DEF RInit
  <1>2. EventTypeOK
    <2>1. event \in [status: Statuses, left: Int, failed: Nat]
      BY <1>1 DEF Absent, Statuses
    <2>2. task \in [Callers -> [op: Ops, current: BOOLEAN]]
      BY <1>1 DEF NoTask, Ops
    <2>3. budget \in Int /\ begun \in Nat
      BY <1>1
    <2>4. held \in BOOLEAN
      BY <1>1
    <2>5. QED
      BY <2>1, <2>2, <2>3, <2>4 DEF EventTypeOK
  <1>3. Linked /\ Copies /\ OneReport
    BY <1>1 DEF Linked, Copies, OneReport, NoTask, Absent
  <1>4. Counted /\ Reported
    BY <1>1 DEF Counted, Reported, AttemptsFixedAtPublication, Absent
  <1>5. QED
    BY <1>2, <1>3, <1>4 DEF EInv

\* LoadConfig begins: the caller was at rest, and is not any more.
LEMMA GetLinks ==
    ASSUME TypeOK, EventTypeOK, Linked, NEW c \in Callers, NEW op \in Ops, Begin(c, op)
    PROVE  /\ task[c].op = "none" /\ Linked'
           /\ task' \in [Callers -> [op: Ops, current: BOOLEAN]]
           /\ task'[c] = [op |-> op, current |-> TRUE]
           /\ \A d \in Callers \ {c} : task'[d] = task[d]
  <1>1. call[c].pc = "idle"
    BY DEF Begin, Get
  <1>2. \A d \in Callers \ {c} : call'[d] = call[d]
    BY DEF Begin, Get, Goto, TypeOK
  <1>3. call'[c].pc \in {"find", "use", "evict"}
    BY DEF Begin, Get, Goto, Lookup, TypeOK, Call
  <1>4. /\ task' \in [Callers -> [op: Ops, current: BOOLEAN]]
        /\ task'[c] = [op |-> op, current |-> TRUE]
        /\ \A d \in Callers \ {c} : task'[d] = task[d]
    BY DEF Begin, EventTypeOK
  <1>5. QED
    BY <1>1, <1>2, <1>3, <1>4 DEF Linked

\* The call is over, its task with it.
LEMMA ReturnLinks ==
    ASSUME TypeOK, EventTypeOK, Linked, NEW c \in Callers, Return(c),
           task' \in [Callers -> [op: Ops, current: BOOLEAN]],
           task'[c] = NoTask, \A d \in Callers \ {c} : task'[d].op = task[d].op
    PROVE  Linked'
  BY ReturnType DEF Linked, NoTask

LEMMA LeaveTask ==
    ASSUME EventTypeOK, NEW c \in Callers, Leave(c)
    PROVE  /\ task' \in [Callers -> [op: Ops, current: BOOLEAN]]
           /\ task'[c] = NoTask
           /\ \A d \in Callers \ {c} : task'[d] = task[d]
           /\ event' = event
  BY DEF Leave, EventTypeOK, NoTask, Ops

LEMMA UpdateTask ==
    ASSUME EventTypeOK, NEW c \in Callers, NEW new, Update(c, new)
    PROVE  /\ task' \in [Callers -> [op: Ops, current: BOOLEAN]]
           /\ task'[c] = NoTask
           /\ \A d \in Callers \ {c} : task'[d].op = task[d].op /\ task'[d].current = FALSE
           /\ event' = new /\ task[c].current
  BY DEF Update, EventTypeOK, NoTask, Ops

\* A caller that uses a configuration was given one that is there.
LEMMA MaxAttemptsType ==
    ASSUME TypeOK, NEW c \in Callers, Use(c)
    PROVE  MaxAttemptsGiven(c) \in Int
  <1>1. call[c].value \in Config /\ call[c].value # NoRow
    BY DEF Use, TypeOK, Call
  <1>2. call[c].value.settings \in 1 .. MaxWrites
    BY <1>1 DEF Config
  <1>3. QED
    BY <1>2, ReconfigurationOK DEF MaxAttemptsGiven

\* A call with a current copy of the row finds no permit, unless it reports on it.
LEMMA CurrentCopy ==
    ASSUME EInv, NEW c \in Callers, task[c].op # "none", task[c].current
    PROVE  /\ lost = {} /\ held = FALSE
           /\ task[c].op # "failure" => event.status # "BEING_PROCESSED"
  <1>1. task[c].op \in Ops \ {"none"} /\ held \in BOOLEAN
    BY DEF EInv, EventTypeOK
  <1>2. CASE task[c].op = "failure"
    BY <1>1, <1>2 DEF EInv, OneReport
  <1>3. CASE task[c].op \in {"publish", "dispatch", "acquire"}
    <2>1. event.status # "BEING_PROCESSED"
      BY <1>3 DEF EInv, Copies, Absent
    <2>2. QED
      BY <1>1, <2>1 DEF EInv, OneReport
  <1>4. QED
    BY <1>1, <1>2, <1>3 DEF Ops

\* Whoever updates the row leaves nobody with a current copy of it, and only the
\* call that reports could have been reporting.
LEMMA UpdateStep ==
    ASSUME TypeOK, EInv, NEW c \in Callers, Use(c), task[c].op # "none",
           NEW new, new \in [status: Statuses, left: Int, failed: Nat], Update(c, new),
           held' \in BOOLEAN, held' => new.status = "BEING_PROCESSED" /\ UNCHANGED lost,
           lost' # lost => new.status = "BEING_PROCESSED",
           budget' \in Int, begun' \in Nat
    PROVE  EventTypeOK' /\ Linked' /\ Copies' /\ OneReport'
  <1> USE DEF EInv
  <1>1. /\ task' \in [Callers -> [op: Ops, current: BOOLEAN]]
        /\ task'[c] = NoTask
        /\ \A d \in Callers \ {c} : task'[d].op = task[d].op /\ task'[d].current = FALSE
        /\ event' = new /\ task[c].current
    BY UpdateTask
  <1>2. EventTypeOK'
    BY <1>1 DEF EventTypeOK
  <1>3. Linked'
    BY <1>1, ReturnLinks DEF Use
  <1>4. \A d \in Callers \ {c} : task[d].op # "failure"
    <2>1. task[c].op \in Ops \ {"none"}
      BY DEF EventTypeOK
    <2>2. CASE task[c].op = "failure"
      BY <2>2 DEF OneReport
    <2>3. CASE task[c].op \in {"publish", "dispatch", "acquire"}
      <3>1. event.status # "BEING_PROCESSED"
        BY <1>1, <2>3, CurrentCopy
      <3>2. QED
        BY <3>1 DEF Copies
    <2>4. QED
      BY <2>1, <2>2, <2>3 DEF Ops
  <1>5. \A d \in Callers : task'[d].current = FALSE /\ task'[d].op # "failure"
    BY <1>1, <1>4 DEF NoTask
  <1>6. lost = {}
    BY <1>1, CurrentCopy
  <1>7. Copies' /\ OneReport'
    BY <1>1, <1>5, <1>6 DEF Copies, OneReport
  <1>8. QED
    BY <1>2, <1>3, <1>7

\* A call that ends without an update changes nothing; if it was a report, it is
\* lost for a cause.
LEMMA LeaveStep ==
    ASSUME TypeOK, EInv, NEW c \in Callers, Return(c), Leave(c),
           UNCHANGED <<held, budget, begun>>,
           IF task[c].op = "failure" THEN lost' # {} ELSE lost' = lost
    PROVE  EInv'
  <1> USE DEF EInv
  <1>1. /\ task' \in [Callers -> [op: Ops, current: BOOLEAN]]
        /\ task'[c] = NoTask
        /\ \A d \in Callers \ {c} : task'[d] = task[d]
        /\ event' = event
    BY LeaveTask
  <1>2. EventTypeOK'
    BY <1>1 DEF EventTypeOK
  <1>3. Linked'
    BY <1>1, ReturnLinks
  <1>4. Copies' /\ OneReport'
    <2>1. Copies'
      BY <1>1 DEF Copies, NoTask
    <2>2. task[c].op = "failure" => event.status = "BEING_PROCESSED"
      BY DEF Copies
    <2>3. QED
      BY <1>1, <2>1, <2>2 DEF OneReport, NoTask
  <1>5. Counted'
    BY <1>1 DEF Counted, AttemptsFixedAtPublication
  <1>6. Reported'
    BY <1>1 DEF Reported
  <1>7. QED
    BY <1>2, <1>3, <1>4, <1>5, <1>6

LEMMA PublishKeeps ==
    ASSUME TypeOK, EInv, NEW c \in Callers, Publish(c)
    PROVE  EInv'
  <1>1. MaxAttemptsGiven(c) \in Int /\ Use(c) /\ Return(c) /\ task[c].op = "publish"
    BY MaxAttemptsType DEF Publish, Use
  <1>2. CASE MaxAttemptsGiven(c) = 0
    BY <1>1, <1>2, LeaveStep DEF Publish
  <1>3. CASE MaxAttemptsGiven(c) # 0
    <2> DEFINE new == [status |-> "AWAITING_PROCESSING", left |-> MaxAttemptsGiven(c), failed |-> 0]
    <2>1. Update(c, new) /\ budget' = MaxAttemptsGiven(c) /\ UNCHANGED <<held, begun, lost>>
      BY <1>3 DEF Publish
    <2>2. event' = new /\ task[c].current
      BY <2>1, UpdateTask DEF EInv
    <2>3. event = Absent /\ begun = 0 /\ ~held
      BY <1>1, <2>2 DEF EInv, Copies, Counted, OneReport, Absent
    <2>4. new \in [status: Statuses, left: Int, failed: Nat]
      BY <1>1 DEF Statuses
    <2>5. EventTypeOK' /\ Linked' /\ Copies' /\ OneReport'
      BY <1>1, <2>1, <2>3, <2>4, UpdateStep DEF EInv, EventTypeOK
    <2>6. Counted'
      BY <1>1, <2>1, <2>2, <2>3 DEF Counted, AttemptsFixedAtPublication, Absent
    <2>7. Reported'
      BY <2>2 DEF Reported
    <2>8. QED
      BY <2>5, <2>6, <2>7 DEF EInv
  <1>4. QED
    BY <1>2, <1>3

LEMMA DispatchKeeps ==
    ASSUME TypeOK, EInv, NEW c \in Callers, ProcessPendingEvent(c)
    PROVE  EInv'
  <1>1. Use(c) /\ Return(c) /\ task[c].op = "dispatch" /\ UNCHANGED <<held, budget, begun, lost>>
    BY DEF ProcessPendingEvent, Use
  <1>2. CASE Leave(c)
    BY <1>1, <1>2, LeaveStep
  <1>3. CASE Update(c, [event EXCEPT !.status = "DISPATCHED"])
    <2> DEFINE new == [event EXCEPT !.status = "DISPATCHED"]
    <2>1. event' = new /\ task[c].current
      BY <1>3, UpdateTask DEF EInv
    <2>2. event.status \in {"AWAITING_PROCESSING", "DISPATCHED"} /\ ~held
      BY <1>1, <2>1 DEF EInv, Copies, OneReport
    <2>3. /\ new \in [status: Statuses, left: Int, failed: Nat]
          /\ new.status = "DISPATCHED" /\ new.left = event.left /\ new.failed = event.failed
      BY DEF EInv, EventTypeOK, Statuses
    <2>4. EventTypeOK' /\ Linked' /\ Copies' /\ OneReport'
      BY <1>1, <1>3, <2>2, <2>3, UpdateStep DEF EInv, EventTypeOK
    <2>5. Counted'
      BY <1>1, <2>1, <2>2, <2>3 DEF EInv, Counted, AttemptsFixedAtPublication, Absent
    <2>6. Reported'
      BY <2>1, <2>3 DEF Reported
    <2>7. QED
      BY <2>4, <2>5, <2>6 DEF EInv
  <1>4. QED
    BY <1>2, <1>3 DEF ProcessPendingEvent

LEMMA AcquireKeeps ==
    ASSUME TypeOK, EInv, NEW c \in Callers, Acquire(c)
    PROVE  EInv'
  <1>1. Use(c) /\ Return(c) /\ task[c].op = "acquire" /\ UNCHANGED budget
    BY DEF Acquire, Use
  <1>2. CASE Leave(c) /\ UNCHANGED <<held, begun, lost>>
    BY <1>1, <1>2, LeaveStep
  <1>3. CASE /\ Update(c, [event EXCEPT !.status = "BEING_PROCESSED"]) /\ begun' = begun + 1
             /\ \/ held' = TRUE /\ UNCHANGED lost
                \/ lost' = lost \cup {"answer"} /\ UNCHANGED held
    <2> DEFINE new == [event EXCEPT !.status = "BEING_PROCESSED"]
    <2>1. event' = new /\ task[c].current
      BY <1>3, UpdateTask DEF EInv
    <2>2. event.status = "DISPATCHED"
      BY <1>1, <2>1 DEF EInv, Copies
    <2>3. /\ new \in [status: Statuses, left: Int, failed: Nat]
          /\ new.status = "BEING_PROCESSED" /\ new.left = event.left /\ new.failed = event.failed
      BY DEF EInv, EventTypeOK, Statuses
    <2>4. begun' \in Nat /\ budget' \in Int /\ held = FALSE
      <3>1. held = FALSE
        BY <1>1, <2>1, CurrentCopy
      <3>2. QED
        BY <1>1, <1>3, <3>1 DEF EInv, EventTypeOK
    <2>5. EventTypeOK' /\ Linked' /\ Copies' /\ OneReport'
      BY <1>1, <1>3, <2>3, <2>4, UpdateStep
    <2>6. /\ event.left >= 1 \/ event.failed = 0
          /\ event.left \in Int /\ event.failed \in Nat /\ budget \in Int
          /\ begun = event.failed /\ event.left + event.failed = budget
      BY <2>2 DEF EInv, EventTypeOK, Counted, AttemptsFixedAtPublication, Absent
    <2>7. /\ begun' <= budget' \/ begun' <= 1
          /\ begun' = event'.failed + 1 /\ event'.left + event'.failed = budget'
      <3>1. begun + 1 <= budget \/ begun + 1 <= 1
        BY <2>6
      <3>2. QED
        BY <1>1, <1>3, <2>1, <2>3, <2>6, <3>1
    <2>8. Counted'
      BY <2>1, <2>3, <2>6, <2>7 DEF Counted, AttemptsFixedAtPublication
    <2>9. Reported'
      BY <1>3 DEF Reported
    <2>10. QED
      BY <2>5, <2>8, <2>9 DEF EInv
  <1>4. QED
    BY <1>2, <1>3 DEF Acquire

LEMMA ReportFailureKeeps ==
    ASSUME TypeOK, EInv, NEW c \in Callers, ReportFailure(c)
    PROVE  EInv'
  <1>1. Use(c) /\ Return(c) /\ task[c].op = "failure" /\ UNCHANGED <<held, budget, begun>>
    BY DEF ReportFailure, Use
  <1>2. event.status = "BEING_PROCESSED" /\ ~held
    BY <1>1 DEF EInv, Copies, OneReport
  <1>3. /\ event.left \in Int /\ event.failed \in Nat
        /\ budget \in Int /\ begun \in Nat /\ (begun <= budget \/ begun <= 1)
        /\ begun = event.failed + 1 /\ event.left + event.failed = budget
    BY <1>2 DEF EInv, EventTypeOK, Counted, AttemptsFixedAtPublication, Absent
  <1>4. CASE event.left > 1 /\ Update(c, NextAttempt(c)) /\ UNCHANGED lost
    <2>1. event' = NextAttempt(c)
      BY <1>4, UpdateTask DEF EInv
    <2>2. NextAttempt(c) \in [status: Statuses, left: Int, failed: Nat]
      BY <1>3, <1>4 DEF NextAttempt, Statuses
    <2>3. held' = FALSE /\ budget' \in Int /\ begun' \in Nat
      BY <1>1, <1>2, <1>3 DEF EInv, EventTypeOK
    <2>4. EventTypeOK' /\ Linked' /\ Copies' /\ OneReport'
      BY <1>1, <1>4, <2>2, <2>3, UpdateStep
    <2>5. Counted'
      BY <1>1, <1>3, <1>4, <2>1 DEF Counted, AttemptsFixedAtPublication, NextAttempt
    <2>6. Reported'
      BY <2>1 DEF Reported, NextAttempt
    <2>7. QED
      BY <2>4, <2>5, <2>6 DEF EInv
  <1>5. CASE Leave(c) /\ lost' = lost \cup {"division"}
    BY <1>1, <1>5, LeaveStep
  <1>6. CASE Update(c, [event EXCEPT !.status = "FAILED", !.failed = @ + 1]) /\ UNCHANGED lost
    <2> DEFINE new == [event EXCEPT !.status = "FAILED", !.failed = @ + 1]
    <2>1. event' = new
      BY <1>6, UpdateTask DEF EInv
    <2>2. /\ new \in [status: Statuses, left: Int, failed: Nat]
          /\ new.status = "FAILED" /\ new.left = event.left /\ new.failed = event.failed + 1
      <3> DEFINE old == [event EXCEPT !.status = "FAILED"]
      <3>1. /\ old \in [status: Statuses, left: Int, failed: Nat]
            /\ old.status = "FAILED" /\ old.left = event.left /\ old.failed = event.failed
        BY DEF EInv, EventTypeOK, Statuses
      <3>2. new = [old EXCEPT !.failed = event.failed + 1] /\ event.failed + 1 \in Nat
        BY <1>3
      <3> HIDE DEF old
      <3>3. QED
        BY <3>1, <3>2
    <2>3. held' = FALSE /\ budget' \in Int /\ begun' \in Nat
      BY <1>1, <1>2, <1>3 DEF EInv, EventTypeOK
    <2>4. EventTypeOK' /\ Linked' /\ Copies' /\ OneReport'
      BY <1>1, <1>6, <2>2, <2>3, UpdateStep
    <2>5. Counted'
      BY <1>1, <1>3, <2>1, <2>2 DEF Counted, AttemptsFixedAtPublication
    <2>6. Reported'
      BY <2>1, <2>2 DEF Reported
    <2>7. QED
      BY <2>4, <2>5, <2>6 DEF EInv
  <1>7. QED
    BY <1>4, <1>5, <1>6 DEF ReportFailure

\* A call that has only begun knows the row as it is.
LEMMA BeginKeeps ==
    ASSUME TypeOK, EInv, NEW c \in Callers,
           BeginPublish(c) \/ BeginDispatch(c) \/ BeginAcquire(c) \/ BeginFailure(c)
    PROVE  EInv'
  <1>1. PICK op \in Ops \ {"none"} :
          /\ Begin(c, op) /\ UNCHANGED <<event, budget, begun, lost>>
          /\ op = "publish" => event = Absent
          /\ op = "dispatch" => event.status \in {"AWAITING_PROCESSING", "DISPATCHED"}
          /\ op = "acquire" => event.status = "DISPATCHED"
          /\ IF op = "failure" THEN held /\ held' = FALSE ELSE held' = held
    <2>1. CASE BeginPublish(c)
      <3>1. /\ Begin(c, "publish") /\ event = Absent
            /\ UNCHANGED <<event, budget, begun, lost>> /\ held' = held
        BY <2>1 DEF BeginPublish
      <3>2. QED
        BY <3>1 DEF Ops
    <2>2. CASE BeginDispatch(c)
      <3>1. /\ Begin(c, "dispatch") /\ event.status \in {"AWAITING_PROCESSING", "DISPATCHED"}
            /\ UNCHANGED <<event, budget, begun, lost>> /\ held' = held
        BY <2>2 DEF BeginDispatch
      <3>2. QED
        BY <3>1 DEF Ops
    <2>3. CASE BeginAcquire(c)
      <3>1. /\ Begin(c, "acquire") /\ event.status = "DISPATCHED"
            /\ UNCHANGED <<event, budget, begun, lost>> /\ held' = held
        BY <2>3 DEF BeginAcquire
      <3>2. QED
        BY <3>1 DEF Ops
    <2>4. CASE BeginFailure(c)
      <3>1. /\ Begin(c, "failure") /\ held /\ held' = FALSE
            /\ UNCHANGED <<event, budget, begun, lost>>
        BY <2>4 DEF BeginFailure
      <3>2. QED
        BY <3>1 DEF Ops
    <2>5. QED
      BY <2>1, <2>2, <2>3, <2>4
  <1>2. /\ Linked'
        /\ task' \in [Callers -> [op: Ops, current: BOOLEAN]]
        /\ task'[c] = [op |-> op, current |-> TRUE]
        /\ \A d \in Callers \ {c} : task'[d] = task[d]
    BY <1>1, GetLinks DEF EInv
  <1>3. EventTypeOK'
    BY <1>1, <1>2 DEF EInv, EventTypeOK
  <1>4. op = "failure" => /\ event.status = "BEING_PROCESSED"
                         /\ \A d \in Callers : task[d].op # "failure"
    BY <1>1 DEF EInv, OneReport
  <1>5. Copies'
    BY <1>1, <1>2, <1>4 DEF EInv, Copies
  <1>6. OneReport'
    BY <1>1, <1>2, <1>4 DEF EInv, OneReport
  <1>7. Counted'
    BY <1>1 DEF EInv, Counted, AttemptsFixedAtPublication
  <1>8. Reported'
    <2>1. CASE op = "failure"
      BY <1>2, <2>1 DEF Reported
    <2>2. CASE op # "failure"
      <3>1. task[c].op # "failure"
        BY <1>1, GetLinks DEF EInv
      <3>2. QED
        BY <1>1, <1>2, <2>2, <3>1 DEF EInv, Reported
    <2>3. QED
      BY <2>1, <2>2
  <1>9. QED
    BY <1>2, <1>3, <1>5, <1>6, <1>7, <1>8 DEF EInv

\* Nor if a query or its UPDATE fails; only a report is lost by that.
LEMMA DatabaseFailsKeeps ==
    ASSUME TypeOK, EInv, NEW c \in Callers, DatabaseFails(c)
    PROVE  EInv'
  <1>1. /\ Return(c) /\ Leave(c) /\ UNCHANGED <<held, budget, begun>>
        /\ IF task[c].op = "failure" THEN lost' # {} ELSE lost' = lost
    BY DEF DatabaseFails, FindFails, Use
  <1>2. QED
    BY <1>1, LeaveStep

\* The permit that is reported on was held; no copy is current any more.
LEMMA ReportSuccessKeeps == TypeOK /\ EInv /\ ReportSuccess => EInv'
  <1> SUFFICES ASSUME TypeOK, EInv, ReportSuccess
               PROVE  EInv'
    OBVIOUS
  <1>1. /\ held /\ held' = FALSE /\ UNCHANGED <<vars, budget, begun, lost>>
        /\ event' = [event EXCEPT !.status = "PROCESSED"]
        /\ \A c \in Callers : task'[c].op = task[c].op /\ task'[c].current = FALSE
        /\ task' \in [Callers -> [op: Ops, current: BOOLEAN]]
    BY DEF ReportSuccess, EInv, EventTypeOK
  <1>2. /\ event.status = "BEING_PROCESSED" /\ lost = {}
        /\ \A c \in Callers : task[c].op # "failure"
    BY <1>1 DEF EInv, OneReport
  <1>3. /\ event' \in [status: Statuses, left: Int, failed: Nat]
        /\ event'.status = "PROCESSED" /\ event'.left = event.left /\ event'.failed = event.failed
    BY <1>1 DEF EInv, EventTypeOK, Statuses
  <1>4. EventTypeOK' /\ Linked'
    BY <1>1, <1>3 DEF EInv, EventTypeOK, Linked, vars
  <1>5. Copies' /\ OneReport'
    BY <1>1, <1>2 DEF Copies, OneReport
  <1>6. Counted' /\ Reported'
    BY <1>1, <1>2, <1>3 DEF EInv, Counted, AttemptsFixedAtPublication, Reported, Absent
  <1>7. QED
    BY <1>4, <1>5, <1>6 DEF EInv

\* A permit that is not reported on any more was held, too.
LEMMA LoseReportKeeps == EInv /\ LoseReport => EInv'
  <1> SUFFICES ASSUME EInv, LoseReport
               PROVE  EInv'
    OBVIOUS
  <1>1. /\ held /\ held' = FALSE /\ lost' # {}
        /\ UNCHANGED <<call, event, task, budget, begun>>
    BY DEF LoseReport, vars
  <1>2. event.status = "BEING_PROCESSED" /\ \A c \in Callers : task[c].op # "failure"
    BY <1>1 DEF EInv, OneReport
  <1>3. EventTypeOK' /\ Linked' /\ Copies' /\ Counted'
    BY <1>1 DEF EInv, EventTypeOK, Linked, Copies, Counted, AttemptsFixedAtPublication
  <1>4. OneReport' /\ Reported'
    BY <1>1, <1>2 DEF OneReport, Reported
  <1>5. QED
    BY <1>3, <1>4 DEF EInv

\* A caller that is under way in LoadConfig stays so; one that is done with an
\* update of the configuration was in no call of the service.
LEMMA LinkedStays ==
    ASSUME TypeOK, EInv, NEW c \in Callers, Load(c) \/ Reconfigure(c)
    PROVE  EInv'
  <1>1. UNCHANGED evars
    BY DEF Load, Reconfigure
  <1>2. Linked'
    <2>1. \A d \in Callers \ {c} : call'[d] = call[d]
      BY DEF Load, Reconfigure, Evict, Find, Set, Delete, UpdateConfig, UpdateSuspensionState,
             Write, Goto, Return, TypeOK
    <2>2. call'[c].pc \in {"idle", "delete"} => call[c].pc \in {"idle", "delete"}
      <3>1. CASE Load(c)
        BY <3>1 DEF Load, Evict, Find, Set, Delete, Goto, Return, TypeOK, Call
      <3>2. CASE Reconfigure(c)
        BY <3>2 DEF Reconfigure, Evict, Delete, UpdateConfig, UpdateSuspensionState, Write, Goto, Return,
                    TypeOK, Call
      <3>3. QED
        BY <3>1, <3>2
    <2>3. QED
      BY <1>1, <2>1, <2>2 DEF EInv, Linked, evars
  <1>3. EventTypeOK' /\ Copies' /\ OneReport' /\ Counted' /\ Reported'
    BY <1>1 DEF EInv, evars, EventTypeOK, Copies, OneReport, Counted, Reported,
                AttemptsFixedAtPublication
  <1>4. QED
    BY <1>2, <1>3 DEF EInv

\* An engine stops: its calls are gone, and the report among them is lost.
LEMMA CrashKeeps ==
    ASSUME TypeOK, EInv, NEW n \in Engines, Crash(n)
    PROVE  EInv'
  <1>1. /\ UNCHANGED <<event, held, budget, begun>>
        /\ \A c \in Callers : IF EngineOf[c] = n THEN task'[c] = NoTask /\ call'[c] = Idle
                              ELSE task'[c] = task[c] /\ call'[c] = call[c]
        /\ task' \in [Callers -> [op: Ops, current: BOOLEAN]]
    BY DEF Crash, Restart, EInv, EventTypeOK, NoTask, Ops
  <1>2. EventTypeOK' /\ Linked' /\ Copies'
    BY <1>1 DEF EInv, EventTypeOK, Linked, Copies, NoTask
  <1>3. Counted'
    BY <1>1 DEF EInv, Counted, AttemptsFixedAtPublication
  <1>4. OneReport' /\ Reported'
    <2>1. CASE \E c \in Callers : EngineOf[c] = n /\ task[c].op = "failure"
      <3>1. PICK c \in Callers : EngineOf[c] = n /\ task[c].op = "failure"
        BY <2>1
      <3>2. ~held /\ event.status = "BEING_PROCESSED" /\ \A d \in Callers \ {c} : task[d].op # "failure"
        BY <3>1 DEF EInv, OneReport, Copies
      <3>3. \A d \in Callers : task'[d].op # "failure"
        BY <1>1, <3>1, <3>2 DEF NoTask
      <3>4. lost' # {}
        BY <2>1 DEF Crash
      <3>5. QED
        BY <1>1, <3>2, <3>3, <3>4 DEF OneReport, Reported
    <2>2. CASE ~\E c \in Callers : EngineOf[c] = n /\ task[c].op = "failure"
      <3>1. lost' = lost
        BY <2>2 DEF Crash
      <3>2. QED
        BY <1>1, <2>2, <3>1 DEF EInv, OneReport, Reported, NoTask
    <2>3. QED
      BY <2>1, <2>2
  <1>5. QED
    BY <1>2, <1>3, <1>4 DEF EInv

LEMMA LoseOrExpireKeeps ==
    ASSUME EInv, LoseMessage \/ \E n \in Engines : Expire(n) /\ UNCHANGED evars
    PROVE  EInv'
  <1>1. UNCHANGED <<call, event, task, held, budget, begun, lost>>
    BY DEF LoseMessage, Expire, vars, evars
  <1>2. QED
    BY <1>1 DEF EInv, EventTypeOK, Linked, Copies, OneReport, Counted, Reported,
                AttemptsFixedAtPublication

-----------------------------------------------------------------------------
(* The row of the configuration, once seen, is there for good.             *)

LEMMA RowStaysInit == RInit => RowStays
  BY DEF RInit, Init, RowStays, NoEntry, Idle

\* While there is no row, nobody is given one and no event is published.
LEMMA RowStaysStep == TypeOK /\ EInv /\ RowStays /\ [RNext]_rvars => RowStays'
  <1> SUFFICES ASSUME TypeOK, EInv, RowStays, [RNext]_rvars, row' = NoRow
               PROVE  RowStays'
    BY DEF RowStays
  <1>1. [Next]_vars
    BY RNextIsNext
  <1>2. row = NoRow
    <2> SUFFICES ASSUME row # NoRow
                 PROVE  FALSE
      OBVIOUS
    <2>1. row.rev \in Nat \ {0} /\ row'.rev = 0
      BY DEF TypeOK, Config, NoRow
    <2>2. CASE UNCHANGED vars
      BY <2>2 DEF vars
    <2>3. ASSUME NEW c \in Callers, Get(c) \/ Continue(c)
          PROVE  FALSE
      BY <2>3 DEF Get, Continue, Evict, Find, FindFails, Set, Use, Delete
    <2>4. ASSUME NEW c \in Callers, UpdateConfig(c)
          PROVE  FALSE
      BY <2>1, <2>4 DEF UpdateConfig, Write
    <2>5. ASSUME NEW c \in Callers, NEW b \in BOOLEAN, UpdateSuspensionState(c, b)
          PROVE  FALSE
      <3>1. row' = [row EXCEPT !.rev = @ + 1, !.suspended = b] /\ row \in [rev: Nat \ {0}, settings: 1 .. MaxWrites, suspended: BOOLEAN]
        BY <2>5 DEF UpdateSuspensionState, Write, TypeOK, Config
      <3>2. row'.rev = row.rev + 1
        BY <3>1
      <3>3. QED
        BY <2>1, <3>2
    <2>6. ASSUME NEW n \in Engines, Expire(n) \/ Restart(n)
          PROVE  FALSE
      BY <2>6 DEF Expire, Restart, Seeded
    <2>7. QED
      BY <1>1, <2>2, <2>3, <2>4, <2>5, <2>6 DEF Next
  <1>3. /\ event = Absent
        /\ \A n \in Engines : ~cache[n].used
        /\ \A c \in Callers : call[c].pc \notin {"set", "use"}
    BY <1>2 DEF RowStays
  <1>4. CASE UNCHANGED rvars
    BY <1>3, <1>4 DEF rvars, vars, evars, RowStays
  <1>5. ASSUME NEW c \in Callers, Load(c) \/ NotConfigured(c)
        PROVE  RowStays'
    <2>1. Evict(c) \/ Find(c) \/ Delete(c)
      BY <1>3, <1>5 DEF Load, NotConfigured, Set
    <2>2. event' = Absent
      BY <1>3, <1>5 DEF Load, NotConfigured, Leave, evars
    <2>3. \A n \in Engines : ~cache'[n].used
      BY <1>3, <2>1 DEF Evict, Find, Delete, Put, NoEntry, TypeOK
    <2>4. \A d \in Callers : call'[d].pc \notin {"set", "use"}
      BY <1>2, <1>3, <2>1 DEF Evict, Find, Delete, Goto, Return, Idle, TypeOK, Call
    <2>5. QED
      BY <2>2, <2>3, <2>4 DEF RowStays
  <1>6. ASSUME NEW c \in Callers,
               \/ Publish(c) \/ ProcessPendingEvent(c) \/ Acquire(c) \/ ReportFailure(c)
               \/ DatabaseFails(c)
        PROVE  FALSE
    BY <1>2, <1>3, <1>6 DEF Publish, ProcessPendingEvent, Acquire, ReportFailure, DatabaseFails, Use
  <1>7. ASSUME NEW c \in Callers,
               BeginPublish(c) \/ BeginDispatch(c) \/ BeginAcquire(c) \/ BeginFailure(c)
        PROVE  RowStays'
    <2>1. Get(c) /\ event' = event
      BY <1>7 DEF BeginPublish, BeginDispatch, BeginAcquire, BeginFailure, Begin
    <2>2. Lookup(c) = "find"
      BY <1>3, EngineOfOK DEF Lookup, Cached
    <2>3. QED
      BY <1>3, <2>1, <2>2 DEF Get, Goto, RowStays, TypeOK
  <1>8. ASSUME NEW c \in Callers, Reconfigure(c)
        PROVE  RowStays'
    <2>1. /\ UNCHANGED <<cache, event>>
          /\ Goto(c, "delete", NoRow) \/ UNCHANGED call
      BY <1>8 DEF Reconfigure, UpdateConfig, UpdateSuspensionState, Write, evars
    <2>2. \A d \in Callers : call'[d].pc \notin {"set", "use"}
      BY <1>3, <2>1 DEF Goto, TypeOK, Call
    <2>3. QED
      BY <1>3, <2>1, <2>2 DEF RowStays
  <1>9. CASE ReportSuccess \/ LoseReport
    BY <1>3, <1>9 DEF ReportSuccess, LoseReport, EInv, OneReport, Absent
  <1>10. CASE LoseMessage
    BY <1>3, <1>10 DEF LoseMessage, RowStays, vars
  <1>11. ASSUME NEW n \in Engines, Crash(n)
         PROVE  FALSE
    BY <1>2, <1>11 DEF Crash, Restart, Seeded, NoRow
  <1>12. ASSUME NEW n \in Engines, Expire(n), UNCHANGED evars
         PROVE  RowStays'
    BY <1>3, <1>12 DEF Expire, RowStays, evars, TypeOK, Entry
  <1>13. QED
    BY <1>4, <1>5, <1>6, <1>7, <1>8, <1>9, <1>10, <1>11, <1>12, ReconfigurationOK DEF RNext, Complete

-----------------------------------------------------------------------------
(* Together.                                                               *)

\* A report finds the row of the configuration its event was published by.
LEMMA NotConfiguredKeeps ==
    ASSUME TypeOK, EInv, RowStays, NEW c \in Callers, NotConfigured(c)
    PROVE  EInv'
  <1>1. event = Absent
    BY DEF NotConfigured, RowStays
  <1>2. task[c].op # "failure"
    BY <1>1 DEF EInv, Copies, Absent
  <1>3. Return(c) /\ Leave(c) /\ UNCHANGED <<held, budget, begun, lost>>
    BY DEF NotConfigured, Find
  <1>4. QED
    BY <1>2, <1>3, LeaveStep

LEMMA EInvStep == TypeOK /\ RowStays /\ EInv /\ [RNext]_rvars => EInv'
  <1> SUFFICES ASSUME TypeOK, RowStays, EInv, [RNext]_rvars
               PROVE  EInv'
    OBVIOUS
  <1>1. CASE UNCHANGED rvars
    BY <1>1 DEF rvars, vars, evars, EInv, EventTypeOK, Linked, Copies, OneReport, Counted,
                Reported, AttemptsFixedAtPublication
  <1>2. ASSUME NEW c \in Callers, Complete(c)
        PROVE  EInv'
    BY <1>2, LinkedStays, NotConfiguredKeeps, DatabaseFailsKeeps, PublishKeeps, DispatchKeeps,
       AcquireKeeps, ReportFailureKeeps DEF Complete
  <1>3. ASSUME NEW c \in Callers,
               BeginPublish(c) \/ BeginDispatch(c) \/ BeginAcquire(c) \/ BeginFailure(c)
        PROVE  EInv'
    BY <1>3, BeginKeeps
  <1>4. ASSUME NEW c \in Callers, Reconfigure(c)
        PROVE  EInv'
    BY <1>4, LinkedStays
  <1>5. CASE ReportSuccess \/ LoseReport
    BY <1>5, ReportSuccessKeeps, LoseReportKeeps
  <1>6. ASSUME LoseMessage \/ \E n \in Engines : Expire(n) /\ UNCHANGED evars
        PROVE  EInv'
    BY <1>6, LoseOrExpireKeeps
  <1>7. ASSUME NEW n \in Engines, Crash(n)
        PROVE  EInv'
    BY <1>7, CrashKeeps
  <1>8. QED
    BY <1>1, <1>2, <1>3, <1>4, <1>5, <1>6, <1>7, ReconfigurationOK DEF RNext

LEMMA EInvHolds == RSpec => []EInv
  <1>1. RInit => EInv /\ RowStays
    BY EInvInit, RowStaysInit
  <1>2. TypeOK /\ EInv /\ RowStays /\ [RNext]_rvars => EInv' /\ RowStays'
    BY EInvStep, RowStaysStep
  <1>3. QED
    BY <1>1, <1>2, CallersTypeCorrect, PTL DEF RSpec

\* However often the configuration is written while the event is under way, it
\* has the attempts its publication gave it and every one is accounted for.
THEOREM AttemptsFixed == RSpec => []AttemptsFixedAtPublication
  BY EInvHolds, PTL DEF EInv, Counted

LEMMA EInvAccounts == EInv => LostForCause
  <1> SUFFICES ASSUME EInv
               PROVE  LostForCause
    OBVIOUS
  <1>1. \A c \in Callers : task[c].op = "failure" => c \in Failing
    BY DEF EInv, Copies, Failing
  <1>2. Failing # {} => event.status = "BEING_PROCESSED" /\ ~held /\ lost = {}
    BY DEF EInv, Copies, OneReport, Failing
  <1>3. QED
    BY <1>1, <1>2 DEF EInv, OneReport, Reported, LostForCause

\* An event under way is held, about to be failed or lost, one of the three, and
\* suspensions, races and stale or missing configurations lose none.
THEOREM ReportsLostForCause == RSpec => []LostForCause
  BY EInvHolds, EInvAccounts, PTL

-----------------------------------------------------------------------------
(* The event is one of the lifecycle engine.                               *)

EStatus   == [e \in {1} |-> event.status]
EAttempts == [e \in {1} |-> begun]
ECause    == [e \in {1} |-> [kind |-> IF event = Absent THEN "none" ELSE "client", of |-> 0]]

\* The engine's promise for this one event, if no configuration allows it more
\* than most attempts.
Machine(most) == INSTANCE EventStateMachine
    WITH Events <- {1}, None <- 0, MaxAttempts <- most,
         status <- EStatus, attempts <- EAttempts, cause <- ECause

Bounds(most) == most \in Nat \ {0} /\ \A w \in 1 .. MaxWrites : MaxOf[w] <= most

\* The attempts of the event are within the bound.
Within(most) == event # Absent => budget <= most

MachineStep(most) == Within(most)' /\ [Machine(most)!Next]_(Machine(most)!svars)

\* A step that leaves the event alone.
LEMMA QuietStep ==
    ASSUME NEW most, Within(most), UNCHANGED <<event, budget, begun>>
    PROVE  MachineStep(most)
  <1>1. UNCHANGED Machine(most)!svars
    BY DEF Machine!svars, EStatus, EAttempts, ECause
  <1>2. QED
    BY <1>1 DEF MachineStep, Within

\* A step that moves it from one status to another.
LEMMA MoveStep ==
    ASSUME NEW most, EInv, Within(most), event # Absent, UNCHANGED budget,
           event'.status \in Statuses \ {"ABSENT"}
    PROVE  /\ Within(most)' /\ ECause' = ECause
           /\ EStatus' = [EStatus EXCEPT ![1] = event'.status]
  <1>1. event' # Absent
    BY DEF Absent
  <1>2. QED
    BY <1>1 DEF Within, ECause, EStatus

LEMMA PublishStep ==
    ASSUME NEW most, Bounds(most), TypeOK, EInv, Within(most), NEW c \in Callers, Publish(c)
    PROVE  MachineStep(most)
  <1>1. Use(c) /\ task[c].op = "publish" /\ UNCHANGED begun
    BY DEF Publish
  <1>2. MaxAttemptsGiven(c) \in Int /\ MaxAttemptsGiven(c) <= most
    <2>1. call[c].value \in Config /\ call[c].value # NoRow
      BY <1>1 DEF Use, TypeOK, Call
    <2>2. call[c].value.settings \in 1 .. MaxWrites
      BY <2>1 DEF Config
    <2>3. QED
      BY <1>1, <2>2, MaxAttemptsType DEF MaxAttemptsGiven, Bounds
  <1>3. CASE MaxAttemptsGiven(c) = 0
    BY <1>1, <1>3, QuietStep DEF Publish, Leave
  <1>4. CASE MaxAttemptsGiven(c) # 0
    <2> DEFINE new == [status |-> "AWAITING_PROCESSING", left |-> MaxAttemptsGiven(c), failed |-> 0]
    <2>1. event' = new /\ task[c].current /\ budget' = MaxAttemptsGiven(c)
      BY <1>4 DEF Publish, Update
    <2>2. event = Absent
      BY <1>1, <2>1 DEF EInv, Copies
    <2>3. new.status = "AWAITING_PROCESSING" /\ new # Absent /\ Absent.status = "ABSENT"
      BY DEF Absent
    <2> HIDE DEF new
    <2>4. Within(most)'
      BY <1>2, <2>1 DEF Within
    <2>5. /\ EStatus[1] = "ABSENT" /\ EStatus' = [EStatus EXCEPT ![1] = "AWAITING_PROCESSING"]
          /\ EAttempts' = EAttempts
          /\ ECause' = [ECause EXCEPT ![1] = [kind |-> "client", of |-> 0]]
      BY <1>1, <2>1, <2>2, <2>3 DEF EStatus, EAttempts, ECause
    <2>6. Machine(most)!Initiate(1, Machine(most)!FromClient)
      BY <2>5 DEF Machine!Initiate, Machine!Move, Machine!FromClient
    <2>7. QED
      BY <2>4, <2>6 DEF MachineStep, Machine!Next
  <1>5. QED
    BY <1>3, <1>4

LEMMA DispatchStep ==
    ASSUME NEW most, EInv, Within(most), NEW c \in Callers, ProcessPendingEvent(c)
    PROVE  MachineStep(most)
  <1>1. task[c].op = "dispatch" /\ UNCHANGED <<budget, begun>>
    BY DEF ProcessPendingEvent
  <1>2. CASE Leave(c)
    BY <1>1, <1>2, QuietStep DEF Leave
  <1>3. CASE Update(c, [event EXCEPT !.status = "DISPATCHED"])
    <2>1. task[c].current /\ event' = [event EXCEPT !.status = "DISPATCHED"]
      BY <1>3 DEF Update
    <2>2. event.status \in {"AWAITING_PROCESSING", "DISPATCHED"} /\ event'.status = "DISPATCHED"
      BY <1>1, <2>1 DEF EInv, Copies, EventTypeOK
    <2>3. event # Absent
      BY <2>2 DEF Absent
    <2>4. Within(most)' /\ ECause' = ECause /\ EStatus' = [EStatus EXCEPT ![1] = "DISPATCHED"]
      BY <1>1, <2>2, <2>3, MoveStep DEF Statuses
    <2>5. EAttempts' = EAttempts /\ EStatus[1] = event.status
      BY <1>1 DEF EAttempts, EStatus
    <2>6. Machine(most)!Dispatch(1)
      BY <2>2, <2>4, <2>5 DEF Machine!Dispatch, Machine!Move
    <2>7. QED
      BY <2>4, <2>6 DEF MachineStep, Machine!Next
  <1>4. QED
    BY <1>2, <1>3 DEF ProcessPendingEvent

LEMMA AcquireStep ==
    ASSUME NEW most \in Nat \ {0}, EInv, Within(most), NEW c \in Callers, Acquire(c)
    PROVE  MachineStep(most)
  <1>1. task[c].op = "acquire" /\ UNCHANGED budget
    BY DEF Acquire
  <1>2. CASE Leave(c) /\ UNCHANGED begun
    BY <1>1, <1>2, QuietStep DEF Leave
  <1>3. CASE Update(c, [event EXCEPT !.status = "BEING_PROCESSED"]) /\ begun' = begun + 1
    <2>1. task[c].current /\ event' = [event EXCEPT !.status = "BEING_PROCESSED"]
      BY <1>3 DEF Update
    <2>2. event.status = "DISPATCHED" /\ event'.status = "BEING_PROCESSED"
      BY <1>1, <2>1 DEF EInv, Copies, EventTypeOK
    <2>3. event # Absent
      BY <2>2 DEF Absent
    <2>4. Within(most)' /\ ECause' = ECause /\ EStatus' = [EStatus EXCEPT ![1] = "BEING_PROCESSED"]
      BY <1>1, <2>2, <2>3, MoveStep DEF Statuses
    <2>5. begun < most
      <3>1. /\ event.left >= 1 \/ event.failed = 0
            /\ event.left \in Int /\ event.failed \in Nat /\ budget \in Int
            /\ begun = event.failed /\ event.left + event.failed = budget
        BY <2>2, <2>3 DEF EInv, EventTypeOK, Counted, AttemptsFixedAtPublication
      <3>2. budget <= most
        BY <2>3 DEF Within
      <3>3. QED
        BY <3>1, <3>2
    <2>6. /\ EAttempts[1] < most /\ EAttempts' = [EAttempts EXCEPT ![1] = @ + 1]
          /\ EStatus[1] = event.status
      BY <1>3, <2>5 DEF EAttempts, EStatus
    <2>7. Machine(most)!Begin(1)
      BY <2>2, <2>4, <2>6 DEF Machine!Begin, Machine!Move
    <2>8. QED
      BY <2>4, <2>7 DEF MachineStep, Machine!Next
  <1>4. QED
    BY <1>2, <1>3 DEF Acquire

\* The end of the event, failed or processed.
LEMMA EndStep ==
    ASSUME NEW most, EInv, Within(most), event.status = "BEING_PROCESSED",
           UNCHANGED <<budget, begun>>, event'.status \in {"PROCESSED", "FAILED"}
    PROVE  MachineStep(most)
  <1>1. event # Absent
    BY DEF Absent
  <1>2. Within(most)' /\ ECause' = ECause /\ EStatus' = [EStatus EXCEPT ![1] = event'.status]
    BY <1>1, MoveStep DEF Statuses
  <1>3. EAttempts' = EAttempts /\ EStatus[1] = event.status
    BY DEF EAttempts, EStatus
  <1>4. Machine(most)!End(1)
    BY <1>2, <1>3 DEF Machine!End, Machine!Move
  <1>5. QED
    BY <1>2, <1>4 DEF MachineStep, Machine!Next

LEMMA FailureStep ==
    ASSUME NEW most \in Nat \ {0}, EInv, Within(most), NEW c \in Callers, ReportFailure(c)
    PROVE  MachineStep(most)
  <1>1. task[c].op = "failure" /\ UNCHANGED <<budget, begun>>
    BY DEF ReportFailure
  <1>2. event.status = "BEING_PROCESSED"
    BY <1>1 DEF EInv, Copies
  <1>3. event # Absent
    BY <1>2 DEF Absent
  <1>4. CASE event.left > 1 /\ Update(c, NextAttempt(c))
    <2>1. event'.status = "AWAITING_PROCESSING"
      BY <1>4 DEF Update, NextAttempt
    <2>2. Within(most)' /\ ECause' = ECause /\ EStatus' = [EStatus EXCEPT ![1] = "AWAITING_PROCESSING"]
      BY <1>1, <1>3, <2>1, MoveStep DEF Statuses
    <2>3. begun < most
      <3>1. /\ event.left \in Int /\ event.failed \in Nat /\ budget \in Int
            /\ begun = event.failed + 1 /\ event.left + event.failed = budget
        BY <1>2, <1>3 DEF EInv, EventTypeOK, Counted, AttemptsFixedAtPublication
      <3>2. budget <= most
        BY <1>3 DEF Within
      <3>3. QED
        BY <1>4, <3>1, <3>2
    <2>4. EAttempts' = EAttempts /\ EAttempts[1] < most /\ EStatus[1] = event.status
      BY <1>1, <2>3 DEF EAttempts, EStatus
    <2>5. Machine(most)!Retry(1)
      BY <1>2, <2>2, <2>4 DEF Machine!Retry, Machine!Move
    <2>6. QED
      BY <2>2, <2>5 DEF MachineStep, Machine!Next
  <1>5. CASE Leave(c)
    BY <1>1, <1>5, QuietStep DEF Leave
  <1>6. CASE Update(c, [event EXCEPT !.status = "FAILED", !.failed = @ + 1])
    <2>1. event'.status = "FAILED"
      <3> DEFINE old == [event EXCEPT !.status = "FAILED"]
      <3>1. old.status = "FAILED" /\ event' = [old EXCEPT !.failed = event.failed + 1]
        BY <1>6 DEF Update, EInv, EventTypeOK
      <3>2. old \in [status: Statuses, left: Int, failed: Nat]
        BY DEF EInv, EventTypeOK, Statuses
      <3> HIDE DEF old
      <3>3. QED
        BY <3>1, <3>2
    <2>2. QED
      BY <1>1, <1>2, <2>1, EndStep
  <1>7. QED
    BY <1>4, <1>5, <1>6 DEF ReportFailure

LEMMA SuccessStep ==
    ASSUME NEW most, EInv, Within(most), ReportSuccess
    PROVE  MachineStep(most)
  <1>1. event.status = "BEING_PROCESSED" /\ UNCHANGED <<budget, begun>>
    BY DEF ReportSuccess, EInv, OneReport
  <1>2. event'.status = "PROCESSED"
    BY DEF ReportSuccess, EInv, EventTypeOK
  <1>3. QED
    BY <1>1, <1>2, EndStep

LEMMA EveryMachineStep ==
    ASSUME NEW most, Bounds(most), TypeOK, EInv, Within(most), [RNext]_rvars
    PROVE  MachineStep(most)
  <1>1. CASE UNCHANGED <<event, budget, begun>>
    BY <1>1, QuietStep
  <1>2. ASSUME NEW c \in Callers, Complete(c)
        PROVE  MachineStep(most)
    <2>1. CASE Load(c) \/ NotConfigured(c) \/ DatabaseFails(c)
      BY <1>1, <2>1 DEF Load, NotConfigured, DatabaseFails, Leave, evars
    <2>2. most \in Nat \ {0}
      BY DEF Bounds
    <2>3. QED
      BY <1>2, <2>1, <2>2, PublishStep, DispatchStep, AcquireStep, FailureStep DEF Complete
  <1>3. ASSUME NEW c \in Callers,
               BeginPublish(c) \/ BeginDispatch(c) \/ BeginAcquire(c) \/ BeginFailure(c) \/ Reconfigure(c)
        PROVE  MachineStep(most)
    BY <1>1, <1>3 DEF BeginPublish, BeginDispatch, BeginAcquire, BeginFailure, Reconfigure, evars
  <1>4. ASSUME LoseReport \/ LoseMessage \/ \E n \in Engines : Crash(n) \/ (Expire(n) /\ UNCHANGED evars)
        PROVE  MachineStep(most)
    BY <1>1, <1>4 DEF LoseReport, LoseMessage, Crash, evars
  <1>5. CASE UNCHANGED rvars
    BY <1>1, <1>5 DEF rvars, evars
  <1>6. QED
    BY <1>2, <1>3, <1>4, <1>5, SuccessStep, ReconfigurationOK DEF RNext

\* An event whose type is reconfigured, suspended and resumed under it, on
\* whatever stale copies of the configuration its calls act, keeps the engine's
\* promise: the bound is any positive one that no configuration exceeds.
THEOREM ReconfigurationImplementsStateMachine ==
    ASSUME NEW CONSTANT most, Bounds(most)
    PROVE  RSpec => Machine(most)!Spec
  <1>1. RInit => Within(most) /\ Machine(most)!Init
    BY DEF RInit, Within, Machine!Init, Machine!NoCause, EStatus, EAttempts, ECause, Absent
  <1>2. TypeOK /\ EInv /\ Within(most) /\ [RNext]_rvars => MachineStep(most)
    BY EveryMachineStep
  <1>3. QED
    BY <1>1, <1>2, EInvHolds, CallersTypeCorrect, PTL DEF RSpec, MachineStep, Machine!Spec

-----------------------------------------------------------------------------
(* What is left of an old configuration.                                   *)

StaleFills   == {c \in Callers : call[c].pc = "set" /\ call[c].value # row}
StaleEntries == {n \in Engines : cache[n].used /\ cache[n].fresh /\ cache[n].value # row}
StaleUses    == {c \in Callers : call[c].pc = "use" /\ call[c].value # row}

\* As long as the row is left alone, no caller comes to fill a cache with an old
\* one; a cache comes to hold one only by such a fill, and a call is given one
\* only by such a fill or such a cache.
Fades ==
    /\ StaleFills' \subseteq StaleFills
    /\ StaleEntries' \subseteq StaleEntries \/ StaleFills' # StaleFills
    /\ StaleUses' \subseteq StaleUses \/ StaleFills' # StaleFills \/ StaleEntries # {}

\* What holds of caller c alone; the others stay.
LEMMA CallerFades ==
    ASSUME TypeOK, NEW c \in Callers, UNCHANGED row,
           \A d \in Callers \ {c} : call'[d] = call[d],
           call'[c].pc = "set" => call'[c].value = row
    PROVE  /\ StaleFills' \subseteq StaleFills
           /\ (call'[c].pc = "use" => call'[c].value = row) => StaleUses' \subseteq StaleUses
  <1>1. \A d \in Callers : d # c => (d \in StaleFills' => d \in StaleFills) /\ (d \in StaleUses' => d \in StaleUses)
    BY DEF StaleFills, StaleUses
  <1>2. c \notin StaleFills'
    BY DEF StaleFills
  <1>3. (call'[c].pc = "use" => call'[c].value = row) => c \notin StaleUses'
    BY DEF StaleUses
  <1>4. StaleFills' \subseteq Callers /\ StaleUses' \subseteq Callers
    BY DEF StaleFills, StaleUses
  <1>5. QED
    BY <1>1, <1>2, <1>3, <1>4

LEMMA NoNewEntry ==
    ASSUME UNCHANGED row,
           \A n \in Engines : cache'[n] = cache[n] \/ ~cache'[n].used \/ ~cache'[n].fresh
                                \/ cache'[n].value = row
    PROVE  StaleEntries' \subseteq StaleEntries
  BY DEF StaleEntries

LEMMA FadesStep ==
    ASSUME TypeOK, [Next]_vars, UNCHANGED row
    PROVE  Fades
  <1>1. CASE UNCHANGED vars
    BY <1>1 DEF vars, Fades, StaleFills, StaleEntries, StaleUses
  <1>2. ASSUME NEW c \in Callers, Get(c)
        PROVE  Fades
    <2>1. /\ \A d \in Callers \ {c} : call'[d] = call[d]
          /\ call'[c].pc = Lookup(c) /\ UNCHANGED cache
          /\ Lookup(c) = "use" => call'[c].value = Cached(c).value
      BY <1>2 DEF Get, Goto, TypeOK, Call
    <2>2. Lookup(c) # "set"
      BY DEF Lookup
    <2>3. StaleFills' \subseteq StaleFills /\ StaleEntries' \subseteq StaleEntries
      BY <2>1, <2>2, CallerFades, NoNewEntry
    <2>4. CASE Lookup(c) = "use" /\ Cached(c).value # row
      <3>1. EngineOf[c] \in StaleEntries
        BY <2>4, EngineOfOK DEF Lookup, Cached, StaleEntries
      <3>2. QED
        BY <2>3, <3>1 DEF Fades
    <2>5. CASE ~(Lookup(c) = "use" /\ Cached(c).value # row)
      BY <2>1, <2>2, <2>3, <2>5, CallerFades DEF Fades
    <2>6. QED
      BY <2>4, <2>5
  <1>3. ASSUME NEW c \in Callers, Set(c)
        PROVE  Fades
    <2>1. /\ \A d \in Callers \ {c} : call'[d] = call[d]
          /\ call'[c].pc = "use" /\ call'[c].value = call[c].value /\ call[c].pc = "set"
          /\ \A n \in Engines : cache'[n] = cache[n] \/ cache'[n].value = call[c].value
      BY <1>3 DEF Set, Goto, Put, TypeOK, Call
    <2>2. StaleFills' \subseteq StaleFills
      BY <2>1, CallerFades
    <2>3. CASE call[c].value = row
      BY <2>1, <2>2, <2>3, CallerFades, NoNewEntry DEF Fades
    <2>4. CASE call[c].value # row
      <3>1. c \in StaleFills /\ c \notin StaleFills'
        BY <2>1, <2>4 DEF StaleFills
      <3>2. QED
        BY <2>2, <3>1 DEF Fades
    <2>5. QED
      BY <2>3, <2>4
  <1>4. ASSUME NEW c \in Callers,
               \A d \in Callers \ {c} : call'[d] = call[d],
               call'[c].pc = "set" => call'[c].value = row,
               call'[c].pc = "use" => call'[c].value = row \/ call'[c] = call[c],
               \A n \in Engines : cache'[n] = cache[n] \/ ~cache'[n].used
        PROVE  Fades
    <2>1. StaleFills' \subseteq StaleFills /\ StaleEntries' \subseteq StaleEntries
      BY <1>4, CallerFades, NoNewEntry
    <2>2. StaleUses' \subseteq StaleUses
      <3>1. CASE call'[c] = call[c]
        BY <1>4, <3>1 DEF StaleUses
      <3>2. CASE call'[c] # call[c]
        BY <1>4, <3>2, CallerFades
      <3>3. QED
        BY <3>1, <3>2
    <2>3. QED
      BY <2>1, <2>2 DEF Fades
  <1>5. ASSUME NEW c \in Callers, Evict(c) \/ Find(c) \/ FindFails(c) \/ Use(c) \/ Delete(c)
        PROVE  Fades
    <2>1. \A d \in Callers \ {c} : call'[d] = call[d]
      BY <1>5 DEF Evict, Find, FindFails, Use, Delete, Goto, Return, TypeOK
    <2>2. call'[c].pc # "use" /\ (call'[c].pc = "set" => call'[c].value = row)
      BY <1>5 DEF Evict, Find, FindFails, Use, Delete, Goto, Return, Idle, TypeOK, Call
    <2>3. \A n \in Engines : cache'[n] = cache[n] \/ ~cache'[n].used
      BY <1>5 DEF Evict, Find, FindFails, Use, Delete, Put, NoEntry, TypeOK
    <2>4. QED
      BY <1>4, <2>1, <2>2, <2>3
  <1>6. ASSUME NEW c \in Callers, UpdateConfig(c) \/ \E b \in BOOLEAN : UpdateSuspensionState(c, b)
        PROVE  Fades
    <2>1. (Goto(c, "delete", NoRow) \/ UNCHANGED call) /\ UNCHANGED cache /\ call[c].pc = "idle"
      BY <1>6 DEF UpdateConfig, UpdateSuspensionState, Write
    <2>2. \A d \in Callers \ {c} : call'[d] = call[d]
      BY <2>1 DEF Goto, TypeOK
    <2>3. call'[c].pc \in {"idle", "delete"}
      BY <2>1 DEF Goto, TypeOK, Call
    <2>4. QED
      BY <1>4, <2>1, <2>2, <2>3
  <1>7. ASSUME NEW n \in Engines, Expire(n)
        PROVE  Fades
    <2>1. UNCHANGED call /\ \A m \in Engines : cache'[m] = cache[m] \/ ~cache'[m].fresh
      BY <1>7 DEF Expire, TypeOK, Entry
    <2>2. StaleFills' = StaleFills /\ StaleUses' = StaleUses
      BY <2>1 DEF StaleFills, StaleUses
    <2>3. StaleEntries' \subseteq StaleEntries
      BY <2>1, NoNewEntry
    <2>4. QED
      BY <2>2, <2>3 DEF Fades
  <1>8. ASSUME NEW n \in Engines, Restart(n)
        PROVE  Fades
    <2>1. \A c \in Callers : call'[c] = call[c] \/ call'[c].pc = "idle"
      BY <1>8 DEF Restart, Idle
    <2>2. StaleFills' \subseteq StaleFills /\ StaleUses' \subseteq StaleUses
      BY <2>1 DEF StaleFills, StaleUses
    <2>3. \A m \in Engines : cache'[m] = cache[m] \/ ~cache'[m].used
      BY <1>8 DEF Restart, NoEntry, TypeOK
    <2>4. StaleEntries' \subseteq StaleEntries
      BY <2>3, NoNewEntry
    <2>5. QED
      BY <2>2, <2>4 DEF Fades
  <1>9. QED
    BY <1>1, <1>2, <1>3, <1>5, <1>6, <1>7, <1>8 DEF Next, Continue

\* An old configuration fades: what ConvergesToRow counts on.  Fills with it run
\* out first, then the entries, which expire, then the calls that were given it.
THEOREM OldRowsFade == Spec => [][UNCHANGED row => Fades]_vars
  <1>1. TypeOK /\ [Next]_vars => [UNCHANGED row => Fades]_vars
    BY FadesStep
  <1>2. QED
    BY <1>1, CachesTypeCorrect, PTL DEF Spec

\* A suspended type is dispatched only by a call that was given an old row: once
\* those have faded, never.  It is what SuspensionTakesEffect counts on.
THEOREM OnlyOldRowsDispatch ==
    RSpec => [][row.suspended /\ StaleUses = {} => (sent' => sent)]_rvars
  <1>1. [RNext]_rvars => [row.suspended /\ StaleUses = {} => (sent' => sent)]_rvars
    <2> SUFFICES ASSUME RNext, row.suspended, StaleUses = {}
                 PROVE  sent' => sent
      OBVIOUS
    <2>1. ASSUME NEW c \in Callers, ProcessPendingEvent(c)
          PROVE  sent' => sent
      <3>1. call[c].value = row
        BY <2>1 DEF ProcessPendingEvent, Use, StaleUses
      <3>2. QED
        BY <2>1, <3>1 DEF ProcessPendingEvent
    <2>2. ASSUME NEW c \in Callers,
                 \/ Load(c) \/ NotConfigured(c) \/ DatabaseFails(c)
                 \/ Publish(c) \/ Acquire(c) \/ ReportFailure(c)
                 \/ BeginDispatch(c) \/ BeginPublish(c) \/ BeginAcquire(c) \/ BeginFailure(c)
                 \/ Reconfigure(c)
          PROVE  sent' => sent
      BY <2>2 DEF Load, NotConfigured, DatabaseFails, Publish, Acquire, ReportFailure,
                  BeginDispatch, BeginPublish, BeginAcquire, BeginFailure, Reconfigure, evars
    <2>3. CASE ReportSuccess \/ LoseReport \/ LoseMessage
      BY <2>3 DEF ReportSuccess, LoseReport, LoseMessage
    <2>4. ASSUME NEW n \in Engines, Crash(n) \/ (Expire(n) /\ UNCHANGED evars)
          PROVE  sent' => sent
      BY <2>4 DEF Crash, evars
    <2>5. QED
      BY <2>1, <2>2, <2>3, <2>4, ReconfigurationOK DEF RNext, Complete
  <1>2. QED
    BY <1>1, PTL DEF RSpec
=============================================================================
