----------------------------- MODULE EventConfig -----------------------------
(***************************************************************************)
(* The lifecycle configuration of one event type: its row in table         *)
(* event_lifecycle_config and the TTL cache each engine instance keeps in  *)
(* front of it.  The grain is one critical section of the cache's mutex or *)
(* one statement on the database per step, so a fill that has read the row *)
(* and an update that has written it can complete in either order.         *)
(***************************************************************************)
EXTENDS Naturals

CONSTANTS
    Engines,    \* engine instances, each with a cache of its own
    Callers,    \* goroutines that read or change the configuration
    EngineOf,   \* EngineOf[c]: the instance that runs caller c
    MaxWrites   \* bound on the writes to the row

ASSUME EngineOfOK == EngineOf \in [Callers -> Engines] /\ MaxWrites \in Nat \ {0}

VARIABLES
    row,     \* the row in the database
    cache,   \* cache[n]: the entry of instance n
    call      \* call[c]: control point and local variables of caller c

vars == <<row, cache, call>>

\* rev numbers the writes that took effect, 0 for no row; settings stands for
\* the columns other than is_suspended: the write that set them.
NoRow  == [rev |-> 0, settings |-> 0, suspended |-> FALSE]
Config == {NoRow} \cup [rev: Nat \ {0}, settings: 1 .. MaxWrites, suspended: BOOLEAN]

\* used: the row has been read and the entry filled; fresh: time is not up.
Entry   == [used: BOOLEAN, value: Config, fresh: BOOLEAN]
NoEntry == [used |-> FALSE, value |-> NoRow, fresh |-> FALSE]

\* pc names the step a caller takes next; at "use" it acts on value.
Call == [pc: {"idle", "evict", "find", "set", "use", "delete"}, value: Config]
Idle == [pc |-> "idle", value |-> NoRow]

Cached(c) == cache[EngineOf[c]]

Put(c, entry) == cache' = [cache EXCEPT ![EngineOf[c]] = entry]

Goto(c, p, v) == call' = [call EXCEPT ![c].pc = p, ![c].value = v]

Return(c) == call' = [call EXCEPT ![c] = Idle]

Init ==
    /\ row = NoRow
    /\ cache = [n \in Engines |-> NoEntry]
    /\ call = [c \in Callers |-> Idle]

-----------------------------------------------------------------------------
(* LoadConfig.                                                             *)

\* mutant of Lookup: an entry is returned whatever its age
LookupIgnoresAge(c) ==
    IF Cached(c).used THEN "use" ELSE "find"

\* Get under the read lock: where the caller goes on.
Lookup(c) ==
    IF ~Cached(c).used THEN "find" ELSE IF Cached(c).fresh THEN "use" ELSE "evict"

Get(c) ==
    /\ call[c].pc = "idle"
    /\ Goto(c, Lookup(c), IF Lookup(c) = "use" THEN Cached(c).value ELSE NoRow)
    /\ UNCHANGED <<row, cache>>

\* mutant of Evict: no re-check under the write lock
EvictUnchecked(c) ==
    /\ call[c].pc = "evict"
    /\ Put(c, NoEntry)
    /\ Goto(c, "find", NoRow)
    /\ UNCHANGED row

\* The lazy clean-up under the write lock, with its re-check.
Evict(c) ==
    /\ call[c].pc = "evict"
    /\ IF Cached(c).fresh THEN UNCHANGED cache ELSE Put(c, NoEntry)
    /\ Goto(c, "find", NoRow)
    /\ UNCHANGED row

\* mutant of Find: a missing row is handed on like any other
FindNil(c) ==
    /\ call[c].pc = "find"
    /\ Goto(c, "set", row)
    /\ UNCHANGED <<row, cache>>

\* FindByEventType; ErrConfigNotFound is not cached.
Find(c) ==
    /\ call[c].pc = "find"
    /\ IF row = NoRow THEN Return(c) ELSE Goto(c, "set", row)
    /\ UNCHANGED <<row, cache>>

\* Any other error of the query ends the call too; the caller gets no row.
FindFails(c) ==
    /\ call[c].pc = "find"
    /\ Return(c)
    /\ UNCHANGED <<row, cache>>

Set(c) ==
    /\ call[c].pc = "set"
    /\ Put(c, [used |-> TRUE, value |-> call[c].value, fresh |-> TRUE])
    /\ Goto(c, "use", call[c].value)
    /\ UNCHANGED row

\* The caller is done with the configuration it was given.
Use(c) ==
    /\ call[c].pc = "use"
    /\ Return(c)
    /\ UNCHANGED <<row, cache>>

-----------------------------------------------------------------------------
(* Updates: a statement on the row, then the eviction.                     *)

\* The write is followed by Delete, or reported as failed though it was done.
Write(c, new) ==
    /\ call[c].pc = "idle"
    /\ row.rev < MaxWrites
    /\ row' = new
    /\ Goto(c, "delete", NoRow) \/ UNCHANGED call
    /\ UNCHANGED cache

\* INSERT ... ON DUPLICATE KEY UPDATE with every column of the configuration;
\* update_lifecycle_config, its only caller, leaves IsSuspended at false.
UpdateConfig(c) ==
    Write(c, [rev |-> row.rev + 1, settings |-> row.rev + 1, suspended |-> FALSE])

\* UPDATE ... SET is_suspended: no row, no effect, and no error.
UpdateSuspensionState(c, suspended) ==
    Write(c, IF row = NoRow THEN NoRow
             ELSE [row EXCEPT !.rev = @ + 1, !.suspended = suspended])

Delete(c) ==
    /\ call[c].pc = "delete"
    /\ Put(c, NoEntry)
    /\ Return(c)
    /\ UNCHANGED row

-----------------------------------------------------------------------------
\* Sixty seconds after Set.
Expire(n) ==
    /\ cache[n].fresh
    /\ cache' = [cache EXCEPT ![n].fresh = FALSE]
    /\ UNCHANGED <<row, call>>

\* mutant of Seeded: the seeds replace what is there
SeededAnew == [rev |-> IF row = NoRow THEN 1 ELSE row.rev, settings |-> 1, suspended |-> FALSE]

\* The seeds of the migrations, applied at every start: INSERT IGNORE.
Seeded == IF row = NoRow THEN [rev |-> 1, settings |-> 1, suspended |-> FALSE] ELSE row

\* An instance stops and starts again: its cache and its callers are gone.
Restart(n) ==
    /\ row' = Seeded
    /\ cache' = [cache EXCEPT ![n] = NoEntry]
    /\ call' = [c \in Callers |-> IF EngineOf[c] = n THEN Idle ELSE call[c]]

Continue(c) == Evict(c) \/ Find(c) \/ FindFails(c) \/ Set(c) \/ Use(c) \/ Delete(c)

Next ==
    \/ \E c \in Callers : \/ Get(c)
                          \/ Continue(c)
                          \/ UpdateConfig(c)
                          \/ \E b \in BOOLEAN : UpdateSuspensionState(c, b)
    \/ \E n \in Engines : Expire(n) \/ Restart(n)

Spec == Init /\ [][Next]_vars

-----------------------------------------------------------------------------
(* Properties.                                                             *)

\* Every variable keeps its type, and no caller goes on with the nil pointer
\* that a missing row leaves: neither from the table nor from the cache.
TypeOK ==
    /\ row \in Config
    /\ cache \in [Engines -> Entry]
    /\ call \in [Callers -> Call]
    /\ \A n \in Engines : cache[n].used => cache[n].value # NoRow
    /\ \A c \in Callers : call[c].pc \in {"set", "use"} => call[c].value # NoRow

\* The clean-up of an expired entry never takes away one that another caller
\* has refreshed since the clean-up saw it expired.
NoFreshEvicted ==
    [][\A c \in Callers :
          call[c].pc = "evict" /\ call'[c].pc = "find" /\ Cached(c).fresh =>
              cache'[EngineOf[c]] = Cached(c)]_vars

\* However fills and evictions interleave on however many instances, and whatever
\* queries fail, once the row is left alone a caller that is given a configuration
\* is given what the row says, on every instance and for good.
ConvergesToRow ==
    <>[](\A c \in Callers : call[c].pc = "use" => call[c].value = row)
=============================================================================
