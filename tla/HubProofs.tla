------------------------------ MODULE HubProofs ------------------------------
(***************************************************************************)
(* Proofs about the WebSocket hub, for any number of connections and of    *)
(* goroutines that broadcast, as often as they like.                       *)
(***************************************************************************)
EXTENDS Hub, FiniteSetTheorems, TLAPS

\* The types without the sizes.
Typed ==
    /\ clients \subseteq Conns /\ open \subseteq Conns /\ broken \subseteq Conns
    /\ hung \subseteq Conns /\ missed \subseteq Conns
    /\ reg \in [Conns -> Step \ {"close"}]
    /\ unreg \in [Conns -> [Starters -> Step]]
    /\ cast \in [Casters -> Cast]

\* Only a goroutine that holds the read lock has connections to write to, and
\* inside WriteMessage it has exactly one.
Holding ==
    \A b \in Casters :
        /\ cast[b].pc \in {"idle", "lock"} => cast[b].todo = {}
        /\ cast[b].pc # "write" => cast[b].conn = {}
        /\ cast[b].pc = "write" => \E k \in Conns : cast[b].conn = {k}

\* The map is what broadcasts loop over, and it holds open connections only.
Mapped ==
    /\ clients \subseteq open
    /\ \A b \in Casters : cast[b].todo \cup cast[b].conn \subseteq clients

\* A connection is registered once, before anyone can unregister it, and is in
\* the map no longer when it is about to be closed.
Lifecycle ==
    \A k \in Conns :
        /\ reg[k] \in {"none", "lock"} =>
               k \notin clients /\ \A s \in Starters : unreg[k][s] = "none"
        /\ reg[k] = "lock" => k \in open
        /\ \A s \in Starters : unreg[k][s] = "close" => k \notin clients

IInv == Typed /\ Holding /\ Mapped /\ Lifecycle

LEMMA IInvInit == Init => IInv
  <1> SUFFICES ASSUME Init
               PROVE  IInv
    OBVIOUS
  <1>1. Typed
    BY HubOK DEF Init, Typed, Step, Cast
  <1>2. Holding /\ Mapped /\ Lifecycle
    BY DEF Init, Holding, Mapped, Lifecycle
  <1>3. QED
    BY <1>1, <1>2 DEF IInv

\* What a broadcast does to its own record.
LEMMA CastUpdate ==
    ASSUME Typed, Holding, Mapped, NEW b \in Casters, NEW new \in Cast,
           cast' = [cast EXCEPT ![b] = new],
           new.pc \in {"idle", "lock"} => new.todo = {},
           new.pc # "write" => new.conn = {},
           new.pc = "write" => \E k \in Conns : new.conn = {k},
           new.todo \cup new.conn \subseteq clients, UNCHANGED <<clients, open>>
    PROVE  cast' \in [Casters -> Cast] /\ Holding' /\ Mapped'
  <1>1. cast' \in [Casters -> Cast] /\ cast'[b] = new /\ \A c \in Casters \ {b} : cast'[c] = cast[c]
    BY DEF Typed
  <1>2. QED
    BY <1>1 DEF Holding, Mapped

\* Nobody has a connection to write to when the write lock can be taken.
LEMMA NobodyWrites ==
    ASSUME Typed, Holding, MayWrite
    PROVE  \A b \in Casters : cast[b].todo = {} /\ cast[b].conn = {}
  BY DEF Typed, Cast, Holding, MayWrite, Readers

LEMMA RegisterKeeps ==
    ASSUME IInv, NEW k \in Conns, Connect(k) \/ Register(k) \/ RegisterCount(k)
    PROVE  IInv'
  <1> USE DEF IInv
  <1>1. CASE Connect(k)
    BY <1>1 DEF Connect, Typed, Step, Holding, Mapped, Lifecycle
  <1>2. CASE Register(k)
    <2>1. Typed'
      BY <1>2 DEF Register, Typed, Step
    <2>2. Holding'
      BY <1>2 DEF Register, Holding
    <2>3. Mapped'
      BY <1>2 DEF Register, Mapped, Lifecycle
    <2>4. Lifecycle'
      BY <1>2 DEF Register, Typed, Lifecycle
    <2>5. QED
      BY <2>1, <2>2, <2>3, <2>4
  <1>3. CASE RegisterCount(k)
    BY <1>3 DEF RegisterCount, Typed, Step, Holding, Mapped, Lifecycle
  <1>4. QED
    BY <1>1, <1>2, <1>3

LEMMA UnregisterKeeps ==
    ASSUME IInv, NEW k \in Conns, NEW s \in Starters,
           ReadLoopEnds(k) \/ Delete(k, s) \/ Close(k, s) \/ UnregisterCount(k, s)
    PROVE  IInv'
  <1> USE DEF IInv
  <1>1. ASSUME NEW from, NEW to \in Step, NEW t \in Starters, UnregAt(k, t, from, to)
        PROVE  /\ unreg' \in [Conns -> [Starters -> Step]]
               /\ unreg'[k][t] = to /\ unreg[k][t] = from
               /\ \A j \in Conns, r \in Starters :
                     j # k \/ r # t => unreg'[j][r] = unreg[j][r]
    BY <1>1 DEF UnregAt, Typed
  <1>2. CASE ReadLoopEnds(k)
    <2>1. "readLoop" \in Starters /\ "lock" \in Step
      BY DEF Starters, Step
    <2>2. /\ unreg' \in [Conns -> [Starters -> Step]] /\ unreg'[k]["readLoop"] = "lock"
          /\ \A j \in Conns, r \in Starters :
                j # k \/ r # "readLoop" => unreg'[j][r] = unreg[j][r]
      BY <1>1, <1>2, <2>1 DEF ReadLoopEnds
    <2>3. reg[k] = "end" /\ UNCHANGED <<clients, open, broken, hung, reg, cast, missed>>
      BY <1>2 DEF ReadLoopEnds
    <2>4. Typed' /\ Holding' /\ Mapped'
      BY <2>2, <2>3 DEF Typed, Holding, Mapped
    <2>5. \A j \in Conns, r \in Starters :
            /\ unreg'[j][r] = "close" => unreg[j][r] = "close"
            /\ reg[j] \in {"none", "lock"} => unreg'[j][r] = unreg[j][r]
      BY <2>2, <2>3
    <2>6. Lifecycle'
      BY <2>3, <2>5 DEF Lifecycle
    <2>7. QED
      BY <2>4, <2>6
  <1>3. CASE Delete(k, s)
    <2>1. "close" \in Step
      BY DEF Step
    <2>2. /\ unreg' \in [Conns -> [Starters -> Step]]
          /\ unreg'[k][s] = "close" /\ unreg[k][s] = "lock"
          /\ \A j \in Conns, r \in Starters : j # k \/ r # s => unreg'[j][r] = unreg[j][r]
      BY <1>1, <1>3, <2>1 DEF Delete
    <2>3. /\ clients' = clients \ {k}
          /\ UNCHANGED <<open, broken, hung, reg, cast, missed>>
          /\ \A b \in Casters : cast[b].todo = {} /\ cast[b].conn = {}
      BY <1>3, NobodyWrites DEF Delete
    <2>4. Typed' /\ Holding' /\ Mapped'
      BY <2>2, <2>3 DEF Typed, Holding, Mapped
    <2>5. Lifecycle'
      BY <2>2, <2>3 DEF Lifecycle
    <2>6. QED
      BY <2>4, <2>5
  <1>4. CASE Close(k, s)
    <2>1. "count" \in Step
      BY DEF Step
    <2>2. /\ unreg' \in [Conns -> [Starters -> Step]]
          /\ unreg'[k][s] = "count" /\ unreg[k][s] = "close"
          /\ \A j \in Conns, r \in Starters : j # k \/ r # s => unreg'[j][r] = unreg[j][r]
      BY <1>1, <1>4, <2>1 DEF Close
    <2>3. open' = open \ {k} /\ UNCHANGED <<clients, broken, hung, reg, cast, missed>>
      BY <1>4 DEF Close
    <2>4. k \notin clients /\ reg[k] \notin {"none", "lock"}
      BY <2>2 DEF Lifecycle
    <2>5. QED
      BY <2>2, <2>3, <2>4 DEF Typed, Holding, Mapped, Lifecycle
  <1>5. CASE UnregisterCount(k, s)
    <2>1. "end" \in Step
      BY DEF Step
    <2>2. /\ unreg' \in [Conns -> [Starters -> Step]]
          /\ unreg'[k][s] = "end" /\ unreg[k][s] = "count"
          /\ \A j \in Conns, r \in Starters : j # k \/ r # s => unreg'[j][r] = unreg[j][r]
      BY <1>1, <1>5, <2>1 DEF UnregisterCount
    <2>3. UNCHANGED <<clients, open, broken, hung, reg, cast, missed>>
      BY <1>5 DEF UnregisterCount
    <2>4. reg[k] \notin {"none", "lock"}
      BY <2>2 DEF Lifecycle
    <2>5. QED
      BY <2>2, <2>3, <2>4 DEF Typed, Holding, Mapped, Lifecycle
  <1>6. QED
    BY <1>2, <1>3, <1>4, <1>5

\* A broadcast but for the end of a write: nothing but its own record changes,
\* and what was missed.
LEMMA CastKeeps ==
    ASSUME IInv, NEW b \in Casters,
           \/ Broadcast(b) \/ RLock(b) \/ RUnlock(b) \/ Panic(b)
           \/ \E k \in Conns : BeginWrite(b, k)
    PROVE  IInv'
  <1> USE DEF IInv
  <1>1. cast[b] = [pc |-> cast[b].pc, todo |-> cast[b].todo, conn |-> cast[b].conn, sends |-> cast[b].sends]
        /\ cast[b].sends \in 0 .. MaxSends /\ cast[b].todo \subseteq Conns
    BY DEF Typed, Cast
  <1>2. PICK new \in Cast :
          /\ cast' = [cast EXCEPT ![b] = new]
          /\ new.pc \in {"idle", "lock"} => new.todo = {}
          /\ new.pc # "write" => new.conn = {}
          /\ new.pc = "write" => \E k \in Conns : new.conn = {k}
          /\ new.todo \cup new.conn \subseteq clients
    <2>1. CASE Broadcast(b)
      <3> DEFINE new == [pc |-> "lock", todo |-> {}, conn |-> {}, sends |-> cast[b].sends + 1]
      <3>1. cast[b].todo = {} /\ cast[b].conn = {} /\ cast[b].sends + 1 \in 0 .. MaxSends
        BY <1>1, <2>1, HubOK DEF Broadcast, Holding
      <3>2. cast' = [cast EXCEPT ![b] = new]
        BY <1>1, <2>1, <3>1 DEF Broadcast, Typed
      <3>3. new \in Cast
        BY <3>1 DEF Cast
      <3>4. QED
        BY <3>2, <3>3
    <2>2. CASE RLock(b)
      <3> DEFINE new == [pc |-> "next", todo |-> clients, conn |-> {}, sends |-> cast[b].sends]
      <3>1. cast[b].conn = {}
        BY <2>2 DEF RLock, Holding
      <3>2. cast' = [cast EXCEPT ![b] = new]
        BY <1>1, <2>2, <3>1 DEF RLock, Goto, Typed
      <3>3. new \in Cast
        BY <1>1 DEF Cast, Typed
      <3>4. QED
        BY <3>2, <3>3
    <2>3. CASE RUnlock(b)
      <3> DEFINE new == [pc |-> "idle", todo |-> {}, conn |-> {}, sends |-> cast[b].sends]
      <3>1. cast[b].todo = {} /\ cast[b].conn = {}
        BY <2>3 DEF RUnlock, Holding
      <3>2. cast' = [cast EXCEPT ![b] = new]
        BY <1>1, <2>3, <3>1 DEF RUnlock, Goto, Typed
      <3>3. new \in Cast
        BY <1>1 DEF Cast
      <3>4. QED
        BY <3>2, <3>3
    <2>4. CASE Panic(b)
      <3> DEFINE new == [pc |-> "idle", todo |-> {}, conn |-> {}, sends |-> cast[b].sends]
      <3>1. cast' = [cast EXCEPT ![b] = new]
        BY <1>1, <2>4 DEF Panic, Goto, Typed
      <3>2. new \in Cast
        BY <1>1 DEF Cast
      <3>3. QED
        BY <3>1, <3>2
    <2>5. ASSUME NEW k \in Conns, BeginWrite(b, k)
          PROVE  \E new \in Cast :
                   /\ cast' = [cast EXCEPT ![b] = new]
                   /\ new.pc \in {"idle", "lock"} => new.todo = {}
                   /\ new.pc # "write" => new.conn = {}
                   /\ new.pc = "write" => \E j \in Conns : new.conn = {j}
                   /\ new.todo \cup new.conn \subseteq clients
      <3> DEFINE new == [pc |-> "write", todo |-> cast[b].todo \ {k}, conn |-> {k},
                         sends |-> cast[b].sends]
      <3>1. cast' = [cast EXCEPT ![b] = new]
        BY <1>1, <2>5 DEF BeginWrite, Goto, Typed
      <3>2. new \in Cast
        BY <1>1 DEF Cast
      <3>3. k \in clients /\ cast[b].todo \subseteq clients
        BY <2>5 DEF BeginWrite, Mapped
      <3>4. QED
        BY <3>1, <3>2, <3>3
    <2>6. QED
      BY <2>1, <2>2, <2>3, <2>4, <2>5
  <1>3. UNCHANGED <<clients, open, broken, hung, reg, unreg>> /\ missed' \subseteq Conns
    BY <1>1 DEF Broadcast, RLock, RUnlock, Panic, BeginWrite, Typed
  <1>4. cast' \in [Casters -> Cast] /\ Holding' /\ Mapped'
    BY <1>2, <1>3, CastUpdate
  <1>5. Typed' /\ Lifecycle'
    BY <1>3, <1>4 DEF Typed, Lifecycle
  <1>6. QED
    BY <1>4, <1>5

\* A failed write has its connection unregistered, which is in the map yet.
LEMMA EndWriteKeeps ==
    ASSUME IInv, NEW b \in Casters, NEW k \in Conns, EndWrite(b, k)
    PROVE  IInv'
  <1> USE DEF IInv
  <1> DEFINE new == [pc |-> "next", todo |-> cast[b].todo, conn |-> {}, sends |-> cast[b].sends]
  <1>1. cast[b] = [pc |-> cast[b].pc, todo |-> cast[b].todo, conn |-> cast[b].conn, sends |-> cast[b].sends]
        /\ cast[b].sends \in 0 .. MaxSends /\ cast[b].todo \subseteq Conns
    BY DEF Typed, Cast
  <1>2. new \in Cast /\ cast' = [cast EXCEPT ![b] = new]
    BY <1>1 DEF EndWrite, Goto, Typed, Cast
  <1>3. UNCHANGED <<clients, open, broken, hung, reg, missed>> /\ k \in clients
        /\ cast[b].todo \subseteq clients
    BY DEF EndWrite, Mapped
  <1>4. cast' \in [Casters -> Cast] /\ Holding' /\ Mapped'
    BY <1>2, <1>3, CastUpdate
  <1>5. /\ unreg' \in [Conns -> [Starters -> Step]]
        /\ \A j \in Conns, s \in Starters :
              unreg'[j][s] = unreg[j][s] \/ (j = k /\ unreg'[j][s] = "lock")
    <2>1. b \in Starters /\ "lock" \in Step
      BY DEF Starters, Step
    <2>2. QED
      BY <2>1 DEF EndWrite, Typed
  <1>6. reg[k] \notin {"none", "lock"}
    BY <1>3 DEF Lifecycle
  <1>7. Typed'
    BY <1>3, <1>4, <1>5 DEF Typed
  <1>8. Lifecycle'
    <2>1. ASSUME NEW j \in Conns, reg[j] \in {"none", "lock"}
          PROVE  j \notin clients' /\ \A s \in Starters : unreg'[j][s] = "none"
      <3>1. j # k /\ j \notin clients /\ \A s \in Starters : unreg[j][s] = "none"
        BY <1>6, <2>1 DEF Lifecycle
      <3>2. QED
        BY <1>3, <1>5, <3>1
    <2>2. \A j \in Conns : \A s \in Starters : unreg'[j][s] = "close" => j \notin clients'
      BY <1>3, <1>5 DEF Lifecycle
    <2>3. \A j \in Conns : reg'[j] = "lock" => j \in open'
      BY <1>3 DEF Lifecycle
    <2>4. QED
      BY <1>3, <2>1, <2>2, <2>3 DEF Lifecycle
  <1>9. QED
    BY <1>4, <1>7, <1>8

LEMMA CrashKeeps ==
    ASSUME IInv, NEW b \in Casters, Crash(b)
    PROVE  IInv'
  <1>1. /\ clients' = {} /\ open' = {} /\ hung' = {} /\ broken' = broken
        /\ missed' \subseteq Conns
        /\ reg' = [k \in Conns |-> "end"]
        /\ unreg' = [k \in Conns |-> [s \in Starters |-> "end"]]
        /\ cast' = [c \in Casters |-> [pc |-> "idle", todo |-> {}, conn |-> {}, sends |-> MaxSends]]
    BY DEF Crash, IInv, Typed, Cast
  <1>2. Typed'
    BY <1>1, HubOK DEF IInv, Typed, Step, Cast
  <1>3. Holding' /\ Mapped' /\ Lifecycle'
    BY <1>1 DEF Holding, Mapped, Lifecycle
  <1>4. QED
    BY <1>2, <1>3 DEF IInv

LEMMA PeerKeeps ==
    ASSUME IInv, NEW k \in Conns, Break(k) \/ Hang(k)
    PROVE  IInv'
  BY DEF IInv, Break, Hang, Typed, Holding, Mapped, Lifecycle

LEMMA IInvStep == IInv /\ [Next]_vars => IInv'
  <1> SUFFICES ASSUME IInv, [Next]_vars
               PROVE  IInv'
    OBVIOUS
  <1>1. CASE UNCHANGED vars
    BY <1>1 DEF vars, IInv, Typed, Holding, Mapped, Lifecycle
  <1>2. ASSUME NEW k \in Conns, Connect(k) \/ HubStep(k) \/ Break(k) \/ Hang(k)
        PROVE  IInv'
    <2>1. "readLoop" \in Starters
      BY DEF Starters
    <2>2. QED
      BY <1>2, <2>1, RegisterKeeps, UnregisterKeeps, PeerKeeps DEF HubStep
  <1>3. ASSUME NEW b \in Casters, Broadcast(b) \/ CastStep(b)
        PROVE  IInv'
    BY <1>3, CastKeeps, EndWriteKeeps, CrashKeeps DEF CastStep
  <1>4. QED
    BY <1>1, <1>2, <1>3 DEF Next

LEMMA IInvHolds == Spec => []IInv
  BY IInvInit, IInvStep, PTL DEF Spec

\* Every variable keeps its type, whatever the goroutines do.
THEOREM TypeCorrect == Spec => []TypeOK
  <1>1. IInv => TypeOK
    <2> SUFFICES ASSUME IInv
                 PROVE  TypeOK
      OBVIOUS
    <2>1. \A b \in Casters : Cardinality(cast[b].conn) = IF cast[b].pc = "write" THEN 1 ELSE 0
      BY FS_EmptySet, FS_Singleton DEF IInv, Holding
    <2>2. QED
      BY <2>1 DEF IInv, Typed, Holding, TypeOK
  <1>2. QED
    BY <1>1, IInvHolds, PTL

\* No broadcast writes to a connection the hub has closed, with any number of
\* goroutines that broadcast, register and unregister.
THEOREM WritesToOpenOnly == Spec => []NoWriteToClosed
  <1>1. IInv => NoWriteToClosed
    BY DEF IInv, Mapped, NoWriteToClosed
  <1>2. QED
    BY <1>1, IInvHolds, PTL

-----------------------------------------------------------------------------
(* Why a broadcast gives the read lock back.                               *)

HoldsLock(b) == cast[b].pc \in {"next", "write"}

\* Steps a broadcast has still to take before it can unlock.
StepsLeft(b) == 2 * Cardinality(cast[b].todo) + (IF cast[b].pc = "write" THEN 1 ELSE 0)

LoopShrinks(b) ==
    HoldsLock(b) /\ cast'[b].pc \in {"next", "write"} =>
        /\ StepsLeft(b) \in Nat /\ StepsLeft(b)' \in Nat
        /\ IF CastStep(b) THEN StepsLeft(b)' < StepsLeft(b) ELSE cast'[b] = cast[b]

\* The map and the loops over it are finite, whatever the number of goroutines.
FiniteMap == IsFiniteSet(clients) /\ \A b \in Casters : IsFiniteSet(cast[b].todo)

LEMMA FiniteMapInit == Init => FiniteMap
  <1>1. Init => clients = {} /\ \A b \in Casters : cast[b].todo = {}
    BY DEF Init
  <1>2. QED
    BY <1>1, FS_EmptySet DEF FiniteMap

LEMMA FiniteMapStep == IInv /\ FiniteMap /\ [Next]_vars => FiniteMap'
  <1> SUFFICES ASSUME IInv, FiniteMap, [Next]_vars
               PROVE  FiniteMap'
    OBVIOUS
  <1> USE DEF FiniteMap
  <1>1. cast \in [Casters -> Cast] /\ IsFiniteSet({})
    BY FS_EmptySet DEF IInv, Typed
  \* only RLock takes over the map; everybody else's list shrinks or stays
  <1>2. ASSUME NEW b \in Casters, CastStep(b) \/ Broadcast(b)
        PROVE  \A c \in Casters : cast'[c].todo \in {{}, clients, cast[c].todo, cast[b].todo}
                                    \/ \E k \in Conns : cast'[c].todo = cast[c].todo \ {k}
    <2>1. CASE Crash(b)
      BY <2>1 DEF Crash
    <2>2. CASE Broadcast(b) \/ RLock(b) \/ RUnlock(b) \/ Panic(b)
      BY <1>1, <2>2 DEF Broadcast, RLock, RUnlock, Panic, Goto
    <2>3. ASSUME NEW k \in Conns, BeginWrite(b, k)
          PROVE  \A c \in Casters : cast'[c].todo = cast[c].todo \/ cast'[c].todo = cast[c].todo \ {k}
      BY <1>1, <2>3 DEF BeginWrite, Goto
    <2>4. ASSUME NEW k \in Conns, EndWrite(b, k)
          PROVE  \A c \in Casters : cast'[c].todo = cast[c].todo
      BY <1>1, <2>4 DEF EndWrite, Goto
    <2>5. QED
      BY <1>2, <2>1, <2>2, <2>3, <2>4 DEF CastStep
  <1>3. ASSUME NEW b \in Casters, CastStep(b) \/ Broadcast(b)
        PROVE  FiniteMap'
    <2>1. \A c \in Casters, k \in Conns : IsFiniteSet(cast[c].todo \ {k})
      BY FS_RemoveElement
    <2>2. clients' \in {{}, clients}
      BY <1>3 DEF CastStep, Broadcast, RLock, RUnlock, Panic, Crash, BeginWrite, EndWrite
    <2>3. ASSUME NEW c \in Casters
          PROVE  IsFiniteSet(cast'[c].todo)
      <3>1. CASE cast'[c].todo \in {{}, clients, cast[c].todo, cast[b].todo}
        BY <1>1, <3>1
      <3>2. CASE \E k \in Conns : cast'[c].todo = cast[c].todo \ {k}
        BY <2>1, <3>2
      <3>3. QED
        BY <1>2, <1>3, <3>1, <3>2
    <2>4. QED
      BY <1>1, <2>2, <2>3
  <1>4. ASSUME NEW k \in Conns, Connect(k) \/ HubStep(k) \/ Break(k) \/ Hang(k)
        PROVE  FiniteMap'
    <2>1. cast' = cast
      BY <1>4 DEF Connect, HubStep, Break, Hang, Register, RegisterCount, ReadLoopEnds,
                  Delete, Close, UnregisterCount
    <2>2. clients' \in {clients, clients \cup {k}, clients \ {k}}
      BY <1>4 DEF Connect, HubStep, Break, Hang, Register, RegisterCount, ReadLoopEnds,
                  Delete, Close, UnregisterCount
    <2>3. QED
      BY <2>1, <2>2, FS_AddElement, FS_RemoveElement
  <1>5. CASE UNCHANGED vars
    BY <1>5 DEF vars
  <1>6. QED
    BY <1>3, <1>4, <1>5 DEF Next

LEMMA LoopStep ==
    ASSUME IInv, FiniteMap, [Next]_vars, NEW b \in Casters
    PROVE  LoopShrinks(b)
  <1> SUFFICES ASSUME HoldsLock(b), cast'[b].pc \in {"next", "write"}
               PROVE  /\ StepsLeft(b) \in Nat /\ StepsLeft(b)' \in Nat
                      /\ CastStep(b) => StepsLeft(b)' < StepsLeft(b)
                      /\ ~CastStep(b) => cast'[b] = cast[b]
    BY DEF LoopShrinks
  <1>1. cast \in [Casters -> Cast]
    BY DEF IInv, Typed
  <1>2. PICK n \in Nat, m \in Nat : n = Cardinality(cast[b].todo) /\ m = Cardinality(cast'[b].todo)
    BY FiniteMapStep, FS_CardinalityType DEF FiniteMap
  <1>3. PICK w \in 0 .. 1, v \in 0 .. 1 :
           /\ w = (IF cast[b].pc = "write" THEN 1 ELSE 0)
           /\ v = (IF cast'[b].pc = "write" THEN 1 ELSE 0)
    OBVIOUS
  <1>4. StepsLeft(b) = 2 * n + w /\ StepsLeft(b)' = 2 * m + v
    BY <1>2, <1>3 DEF StepsLeft
  <1>5. 2 * n + w \in Nat /\ 2 * m + v \in Nat
    OBVIOUS
  <1>6. ASSUME NEW k \in Conns, BeginWrite(b, k)
        PROVE  2 * m + v < 2 * n + w
    <2>1. cast'[b].todo = cast[b].todo \ {k} /\ k \in cast[b].todo
      BY <1>1, <1>6 DEF BeginWrite, Goto
    <2>2. Cardinality(cast[b].todo \ {k}) = Cardinality(cast[b].todo) - 1
      BY <2>1, FS_RemoveElement DEF FiniteMap
    <2>3. m = n - 1
      BY <1>2, <2>1, <2>2
    <2>4. QED
      BY <2>3
  <1>7. ASSUME NEW k \in Conns, EndWrite(b, k)
        PROVE  2 * m + v < 2 * n + w
    <2>1. cast'[b].todo = cast[b].todo /\ cast[b].pc = "write" /\ cast'[b].pc = "next"
      BY <1>1, <1>7 DEF EndWrite, Goto
    <2>2. m = n /\ w = 1 /\ v = 0
      BY <1>2, <1>3, <2>1
    <2>3. QED
      BY <2>2
  <1>8. ASSUME RLock(b) \/ RUnlock(b) \/ Panic(b) \/ \E c \in Casters : Crash(c)
        PROVE  FALSE
    BY <1>1, <1>8 DEF RLock, RUnlock, Panic, Crash, Goto, HoldsLock
  <1>9. CastStep(b) => 2 * m + v < 2 * n + w
    BY <1>6, <1>7, <1>8 DEF CastStep
  <1>10. ASSUME ~CastStep(b)
         PROVE  cast'[b] = cast[b]
    <2>1. CASE UNCHANGED vars
      BY <2>1 DEF vars
    <2>2. ASSUME NEW k \in Conns, Connect(k) \/ HubStep(k) \/ Break(k) \/ Hang(k)
          PROVE  cast' = cast
      BY <2>2 DEF Connect, HubStep, Break, Hang, Register, RegisterCount, ReadLoopEnds,
                  Delete, Close, UnregisterCount
    <2>3. ASSUME NEW c \in Casters, CastStep(c)
          PROVE  cast'[b] = cast[b]
      BY <1>1, <1>8, <1>10, <2>3 DEF CastStep, RLock, RUnlock, Panic, BeginWrite, EndWrite, Goto
    <2>4. ASSUME NEW c \in Casters, Broadcast(c)
          PROVE  cast'[b] = cast[b]
      BY <1>1, <2>4 DEF Broadcast, HoldsLock
    <2>5. QED
      BY <2>1, <2>2, <2>3, <2>4 DEF Next
  <1>11. QED
    BY <1>4, <1>5, <1>9, <1>10

\* A broadcast that holds the read lock unlocks after 2 * |todo| + 1 of its own
\* steps at most: connections that register, break or are unregistered
\* meanwhile, and other broadcasts, do not prolong its loop.
THEOREM LoopsEnd == Spec => [][\A b \in Casters : LoopShrinks(b)]_vars
  <1>1. Init => IInv /\ FiniteMap
    BY IInvInit, FiniteMapInit
  <1>2. IInv /\ FiniteMap /\ [Next]_vars => (IInv /\ FiniteMap)'
    BY IInvStep, FiniteMapStep
  <1>3. IInv /\ FiniteMap /\ [Next]_vars => [\A b \in Casters : LoopShrinks(b)]_vars
    BY LoopStep
  <1>4. QED
    BY <1>1, <1>2, <1>3, PTL DEF Spec

=============================================================================
