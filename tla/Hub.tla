--------------------------------- MODULE Hub ---------------------------------
(***************************************************************************)
(* The WebSocket hub: a map of connections under a sync.RWMutex.  Every    *)
(* state change of an event is broadcast by the goroutine that made it, a  *)
(* job or a request handler, which writes to each connection in turn while *)
(* it holds the read lock.  A short critical section (the lock, a map      *)
(* operation, the unlock) is one step; a goroutine that waits for the      *)
(* write lock keeps new readers out.                                       *)
(***************************************************************************)
EXTENDS Naturals, FiniteSets

CONSTANTS
    Conns,       \* WebSocket connections
    Casters,     \* goroutines that broadcast
    JobCasters,  \* those of them that are jobs, not request handlers
    Hanging,     \* connections whose peer may stop reading and stay connected
    MaxSends     \* bound on the broadcasts of a goroutine

ASSUME HubOK ==
    /\ JobCasters \subseteq Casters
    /\ Hanging \subseteq Conns
    /\ MaxSends \in Nat

VARIABLES
    clients,   \* the map's keys
    open,      \* connections the server has not closed
    broken,    \* connections whose peer is gone
    hung,      \* connections whose peer does not read
    reg,       \* reg[k]: the handler of /ws that registers k
    unreg,     \* unreg[k][s]: the Unregister of k started by s
    cast,      \* cast[b]: control point and locals of broadcaster b
    missed     \* history: a broadcast ended without a write to these

vars == <<clients, open, broken, hung, reg, unreg, cast, missed>>

\* Unregister is started by the read loop of k or by a broadcast that failed.
Starters == Casters \cup {"readLoop"}

Step == {"none", "lock", "close", "count", "end"}

\* pc: idle, lock (RLock), next (the loop), write (inside WriteMessage)
Cast == [pc: {"idle", "lock", "next", "write"}, todo: SUBSET Conns,
         conn: SUBSET Conns, sends: 0 .. MaxSends]

\* mutant of Readers: the loop runs over a copy of the map, without the lock
LockGivenBack == {}

Readers == {b \in Casters : cast[b].pc \in {"next", "write"}}

WriterWaiting ==
    \/ \E k \in Conns : reg[k] = "lock"
    \/ \E k \in Conns, s \in Starters : unreg[k][s] = "lock"

MayRead  == ~WriterWaiting
MayWrite == Readers = {}

Writing(k) == {b \in Casters : cast[b].pc = "write" /\ k \in cast[b].conn}

Init ==
    /\ clients = {} /\ open = {} /\ broken = {} /\ hung = {} /\ missed = {}
    /\ reg = [k \in Conns |-> "none"]
    /\ unreg = [k \in Conns |-> [s \in Starters |-> "none"]]
    /\ cast = [b \in Casters |-> [pc |-> "idle", todo |-> {}, conn |-> {}, sends |-> 0]]

-----------------------------------------------------------------------------
(* Register, in the handler of /ws.                                        *)

Connect(k) ==
    /\ reg[k] = "none"
    /\ reg' = [reg EXCEPT ![k] = "lock"]
    /\ open' = open \cup {k}
    /\ UNCHANGED <<clients, broken, hung, unreg, cast, missed>>

Register(k) ==
    /\ reg[k] = "lock" /\ MayWrite
    /\ clients' = clients \cup {k}
    /\ reg' = [reg EXCEPT ![k] = "count"]
    /\ UNCHANGED <<open, broken, hung, unreg, cast, missed>>

RegisterCount(k) ==
    /\ reg[k] = "count" /\ MayRead
    /\ reg' = [reg EXCEPT ![k] = "end"]
    /\ UNCHANGED <<clients, open, broken, hung, unreg, cast, missed>>

-----------------------------------------------------------------------------
(* Unregister.                                                             *)

UnregAt(k, s, from, to) ==
    /\ unreg[k][s] = from
    /\ unreg' = [unreg EXCEPT ![k][s] = to]

\* mutant of ReadLoopEnds: the read loop ends without Unregister
ReadLoopForgets(k) == reg[k] = "none" /\ FALSE

\* The read loop, started when k is registered, ends with an error.
ReadLoopEnds(k) ==
    /\ reg[k] = "end"
    /\ k \in broken \/ k \notin open
    /\ UnregAt(k, "readLoop", "none", "lock")
    /\ UNCHANGED <<clients, open, broken, hung, reg, cast, missed>>

Delete(k, s) ==
    /\ MayWrite
    /\ UnregAt(k, s, "lock", "close")
    /\ clients' = clients \ {k}
    /\ UNCHANGED <<open, broken, hung, reg, cast, missed>>

Close(k, s) ==
    /\ UnregAt(k, s, "close", "count")
    /\ open' = open \ {k}
    /\ UNCHANGED <<clients, broken, hung, reg, cast, missed>>

UnregisterCount(k, s) ==
    /\ MayRead
    /\ UnregAt(k, s, "count", "end")
    /\ UNCHANGED <<clients, open, broken, hung, reg, cast, missed>>

-----------------------------------------------------------------------------
(* BroadcastEvent.                                                         *)

\* Broadcaster b goes on at p.
Goto(b, p, todo, conn) ==
    cast' = [cast EXCEPT ![b] = [pc |-> p, todo |-> todo, conn |-> conn, sends |-> @.sends]]

Broadcast(b) ==
    /\ cast[b].pc = "idle" /\ cast[b].sends < MaxSends
    /\ cast' = [cast EXCEPT ![b] = [pc |-> "lock", todo |-> {}, conn |-> {}, sends |-> @.sends + 1]]
    /\ UNCHANGED <<clients, open, broken, hung, reg, unreg, missed>>

RLock(b) ==
    /\ cast[b].pc = "lock" /\ MayRead
    /\ Goto(b, "next", clients, {})
    /\ UNCHANGED <<clients, open, broken, hung, reg, unreg, missed>>

BeginWrite(b, k) ==
    /\ cast[b].pc = "next" /\ k \in cast[b].todo
    /\ Goto(b, "write", cast[b].todo \ {k}, {k})
    /\ UNCHANGED <<clients, open, broken, hung, reg, unreg, missed>>

\* mutant of EndWrite: h.Unregister(conn) without go, under the read lock
EndWriteUnregisters(b, k) ==
    /\ cast[b].pc = "write" /\ k \in cast[b].conn
    /\ k \notin hung \/ k \in broken \/ k \notin open
    /\ IF k \notin broken \/ unreg[k][b] = "end"
         THEN /\ Goto(b, "next", cast[b].todo, {})
              /\ UNCHANGED unreg
         ELSE UnregAt(k, b, "none", "lock") /\ UNCHANGED cast
    /\ UNCHANGED <<clients, open, broken, hung, reg, missed>>

\* WriteMessage has no deadline: it returns when the peer reads, is found gone,
\* or the connection is closed under it.  On an error: go h.Unregister(conn).
EndWrite(b, k) ==
    /\ cast[b].pc = "write" /\ k \in cast[b].conn
    /\ k \notin hung \/ k \in broken \/ k \notin open
    /\ Goto(b, "next", cast[b].todo, {})
    /\ IF k \in broken \/ k \notin open
         THEN unreg' = [unreg EXCEPT ![k][b] = IF @ \in {"none", "end"} THEN "lock" ELSE @]
         ELSE UNCHANGED unreg
    /\ UNCHANGED <<clients, open, broken, hung, reg, missed>>

Overlaps(b) == \E k \in cast[b].conn : Writing(k) # {b}

\* mutant of Panic: no defer, so that the read lock is never given back
PanicKeepsLock(b) ==
    /\ cast[b].pc = "write" /\ Overlaps(b)
    /\ Goto(b, "write", {}, {})
    /\ missed' = missed \cup cast[b].todo
    /\ UNCHANGED <<clients, open, broken, hung, reg, unreg>>

\* "concurrent write to websocket connection": in a handler the deferred RUnlock
\* runs and the panic is recovered; the clients still to come are left out.
Panic(b) ==
    /\ b \notin JobCasters
    /\ cast[b].pc = "write" /\ Overlaps(b)
    /\ Goto(b, "idle", {}, {})
    /\ missed' = missed \cup cast[b].todo
    /\ UNCHANGED <<clients, open, broken, hung, reg, unreg>>

\* In a job nobody recovers: the engine is gone, with every connection.
Crash(b) ==
    /\ b \in JobCasters
    /\ cast[b].pc = "write" /\ Overlaps(b)
    /\ clients' = {} /\ open' = {} /\ hung' = {}
    /\ reg' = [k \in Conns |-> "end"]
    /\ unreg' = [k \in Conns |-> [s \in Starters |-> "end"]]
    /\ cast' = [c \in Casters |->
                   [pc |-> "idle", todo |-> {}, conn |-> {}, sends |-> MaxSends]]
    /\ missed' = missed \cup UNION {cast[c].todo : c \in Casters}
    /\ UNCHANGED broken

RUnlock(b) ==
    /\ cast[b].pc = "next" /\ cast[b].todo = {}
    /\ Goto(b, "idle", {}, {})
    /\ UNCHANGED <<clients, open, broken, hung, reg, unreg, missed>>

-----------------------------------------------------------------------------
(* The peers.                                                              *)

Break(k) ==
    /\ k \in open \ broken
    /\ broken' = broken \cup {k}
    /\ UNCHANGED <<clients, open, hung, reg, unreg, cast, missed>>

Hang(k) ==
    /\ k \in (open \cap Hanging) \ hung
    /\ hung' = hung \cup {k}
    /\ UNCHANGED <<clients, open, broken, reg, unreg, cast, missed>>

HubStep(k) ==
    \/ Register(k) \/ RegisterCount(k) \/ ReadLoopEnds(k)
    \/ \E s \in Starters : Delete(k, s) \/ Close(k, s) \/ UnregisterCount(k, s)

CastStep(b) ==
    \/ RLock(b) \/ RUnlock(b) \/ Panic(b) \/ Crash(b)
    \/ \E k \in Conns : BeginWrite(b, k) \/ EndWrite(b, k)

Next ==
    \/ \E k \in Conns : Connect(k) \/ HubStep(k) \/ Break(k) \/ Hang(k)
    \/ \E b \in Casters : Broadcast(b) \/ CastStep(b)

Spec == Init /\ [][Next]_vars

\* Every goroutine of the server runs; what peers do is up to them.
FairSpec ==
    /\ Spec
    /\ \A k \in Conns : WF_vars(HubStep(k))
    /\ \A b \in Casters : WF_vars(CastStep(b))

-----------------------------------------------------------------------------
(* Properties.                                                             *)

\* Every variable keeps its type; a goroutine is inside WriteMessage for one
\* connection at a time, and one that has returned has nothing left to do.
TypeOK ==
    /\ {clients, open, broken, hung, missed} \subseteq SUBSET Conns
    /\ reg \in [Conns -> Step \ {"close"}]
    /\ unreg \in [Conns -> [Starters -> Step]]
    /\ cast \in [Casters -> Cast]
    /\ \A b \in Casters :
          /\ Cardinality(cast[b].conn) = IF cast[b].pc = "write" THEN 1 ELSE 0
          /\ cast[b].pc = "idle" => cast[b].todo = {}

\* The hub closes no connection that a broadcast is writing to or has still to
\* write to, however many goroutines find it broken and unregister it.
NoWriteToClosed ==
    \A b \in Casters : cast[b].todo \cup cast[b].conn \subseteq clients \cap open

\* No deadlock between readers, waiting writers and the goroutines a failed
\* write starts: every broadcast returns, unless a peer stays and does not read.
BroadcastEnds ==
    \A b \in Casters :
        cast[b].pc # "idle" ~> cast[b].pc = "idle" \/ hung # {}

\* A connection whose peer is gone leaves the map, broadcast or not, unless
\* another peer that does not read keeps the read lock held.
BrokenForgotten ==
    \A k \in Conns :
        k \in broken \cap clients ~> k \notin clients \/ hung # {}

\* "BroadcastEvent sends an event state change to all connected clients": none
\* is left out because of another broadcast.
NoneMissed == missed = {}
=============================================================================
