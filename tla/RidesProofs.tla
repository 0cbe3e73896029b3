----------------------------- MODULE RidesProofs -----------------------------
(***************************************************************************)
(* Proof that Rides implements Ride: for any number of adapters, messages, *)
(* faults and events, a ride is one step at a time, in the order of the    *)
(* table.  And proofs of what strands a ride or loses its payload.         *)
(***************************************************************************)
EXTENDS Rides, FiniteSetTheorems, SequenceTheorems, TLAPS

Types    == DOMAIN NextStep
Statuses == {"AWAITING_PROCESSING", "DISPATCHED", "BEING_PROCESSED", "PROCESSED", "FAILED"}
Row      == [type: Types, status: Statuses, left: Int]
Body     == {"data", "blank"}
Pcs      == Updating \cup {"idle", "lost", "save", "dispatch", "granted", "working", "spinoff"}
Thread   == [pc: Pcs, ev: Events \cup {0}, body: Body]

N == Cardinality(Published)

IsLast(type) == NextStep[type] = ""

TypesOK ==
    /\ event \in [Events -> Row \cup {Absent}]
    /\ payload \in [Events -> Body \cup {"none"}]
    /\ \A m \in msgs : m.body \in Body
    /\ thread \in [Threads -> Thread]
    /\ early \subseteq Events

\* Events are published in order; all but the last one are processed.
Numbered ==
    /\ \E n \in 0 .. MaxEvents : Published = 1 .. n
    /\ \A e \in Published : e < N => event[e].status = "PROCESSED"

\* What a goroutine knows of the event it is about, until it has lost.
Knows(t, e, p) ==
    /\ p \notin {"idle", "lost"} => e \in Published
    /\ p = "mark" => event[e].status \in {"AWAITING_PROCESSING", "DISPATCHED"}
    /\ p = "permit" => event[e].status = "DISPATCHED"
    /\ p \in Holding =>
          /\ event[e].status = "BEING_PROCESSED"
          /\ \A u \in Threads \ {t} : thread[u].ev = e => thread[u].pc \notin Holding
    /\ p = "fail" => event[e].type \in MayFail
    /\ p = "spinoff" =>
          /\ event[e].status = "PROCESSED" /\ e = N /\ ~IsLast(event[e].type)
          /\ \A u \in Threads \ {t} : thread[u].pc # "spinoff"

Known ==
    /\ \A t \in Threads : Knows(t, thread[t].ev, thread[t].pc)
    /\ \A m \in msgs : m.ev \in Published

IInv == TypesOK /\ Numbered /\ Known

-----------------------------------------------------------------------------
(* The table.                                                              *)

LEMMA BoundsType == MaxEvents \in Nat /\ MaxMsgs \in Nat
  BY RidesOK

LEMMA NoEventZero == 0 \notin Events /\ Events \subseteq Nat
  BY BoundsType DEF Events

LEMMA FirstType == First \in Types /\ \A t \in Types : IsLast(t) \/ NextStep[t] \in Types
  BY RidesOK DEF Types, IsLast

LEMMA AttemptsType == \A t \in Types : MaxAttempts[t] \in Int
  BY DEF Types, NextStep, MaxAttempts

LEMMA AbsentIsNoRow == Absent \notin Row
  BY DEF Absent, Row, Statuses

LEMMA PublishedRows ==
    ASSUME TypesOK, NEW e \in Events
    PROVE  (e \in Published <=> event[e] \in Row) /\ (e \notin Published <=> event[e] = Absent)
  BY AbsentIsNoRow DEF TypesOK, Published

LEMMA NumberOfEvents ==
    ASSUME Numbered
    PROVE  N \in 0 .. MaxEvents /\ N \in Nat /\ Published = 1 .. N
  <1>1. PICK n \in 0 .. MaxEvents : Published = 1 .. n
    BY DEF Numbered
  <1>2. n \in Nat /\ n \in Int /\ 1 \in Int
    BY <1>1, BoundsType
  <1>3. N = n
    BY <1>1, <1>2, FS_Interval DEF N
  <1>4. QED
    BY <1>1, <1>2, <1>3

-----------------------------------------------------------------------------
(* Initially.                                                              *)

LEMMA IInvInit == Init => IInv
  <1> SUFFICES ASSUME Init
               PROVE  IInv
    OBVIOUS
  <1>1. TypesOK
    BY DEF Init, TypesOK, Row, Body, Message, Idle, Thread, Pcs
  <1>2. Published = {}
    BY DEF Init, Published
  <1>3. Numbered
    <2>1. 0 \in 0 .. MaxEvents
      BY BoundsType
    <2>2. {} = 1 .. 0
      OBVIOUS
    <2>3. QED
      BY <1>2, <2>1, <2>2 DEF Numbered
  <1>4. Known
    BY DEF Init, Known, Knows, Idle, Holding
  <1>5. QED
    BY <1>1, <1>3, <1>4 DEF IInv

-----------------------------------------------------------------------------
(* Steps that leave the table alone: goroutine t, or nobody, goes on.      *)

\* t goes on at a place it may be at; nobody else is touched.
LEMMA GoOn ==
    ASSUME IInv, NEW t \in Threads, NEW to \in Thread, thread' = [thread EXCEPT ![t] = to],
           UNCHANGED event, Knows(t, to.ev, to.pc),
           to.pc \in Holding =>
               to.ev = thread[t].ev /\ thread[t].pc \in Holding,
           to.pc # "spinoff",
           \A m \in msgs' : m.ev \in Published /\ m.body \in Body,
           payload' \in [Events -> Body \cup {"none"}], early' \subseteq Events
    PROVE  IInv'
  <1> USE DEF IInv
  <1>1. Published' = Published /\ N' = N
    BY DEF Published, N
  <1>2. /\ thread' \in [Threads -> Thread] /\ thread'[t] = to
        /\ \A u \in Threads \ {t} : thread'[u] = thread[u]
    BY DEF TypesOK
  <1>3. TypesOK'
    BY <1>2 DEF TypesOK
  <1>4. Numbered'
    BY <1>1 DEF Numbered
  <1>5. Known'
    <2>1. Knows(t, to.ev, to.pc)'
      BY <1>1, <1>2 DEF Knows
    <2>2. ASSUME NEW u \in Threads, u # t
          PROVE  Knows(u, thread[u].ev, thread[u].pc)'
      <3>1. Knows(u, thread[u].ev, thread[u].pc) /\ thread'[u] = thread[u]
        BY <1>2, <2>2 DEF Known
      <3>2. QED
        BY <1>1, <1>2, <2>2, <3>1 DEF Knows
    <2>3. QED
      BY <1>1, <1>2, <2>1, <2>2 DEF Known
  <1>6. QED
    BY <1>3, <1>4, <1>5

-----------------------------------------------------------------------------
(* Updates.                                                                *)

\* A goroutine that may still update a row is about the last event, which no
\* other one holds and no call has still to follow up.
LEMMA Latest ==
    ASSUME IInv, NEW t \in Threads, thread[t].pc \in {"mark", "permit"} \cup Holding
    PROVE  /\ thread[t].ev = N /\ N \in Published /\ N \in Events
           /\ event[N] \in Row /\ event[N].status # "PROCESSED"
           /\ \A u \in Threads \ {t} : thread[u].ev = N => thread[u].pc \notin Holding
           /\ \A u \in Threads : thread[u].pc # "spinoff"
  <1> DEFINE e == thread[t].ev
  <1>1. Knows(t, e, thread[t].pc)
    BY DEF IInv, Known
  <1>2. e \in Published /\ e \in Events
    BY <1>1 DEF Knows, Holding, Published
  <1>3. /\ event[e].status # "PROCESSED"
        /\ \A u \in Threads \ {t} : thread[u].ev = e => thread[u].pc \notin Holding
    <2>1. CASE thread[t].pc \in {"mark", "permit"}
      <3>1. event[e].status \in {"AWAITING_PROCESSING", "DISPATCHED"}
        BY <1>1, <2>1 DEF Knows
      <3>2. QED
        BY <3>1 DEF IInv, Known, Knows
    <2>2. CASE thread[t].pc \in Holding
      BY <1>1, <2>2 DEF Knows
    <2>3. QED
      BY <2>1, <2>2
  <1>4. N \in Nat /\ Published = 1 .. N
    BY NumberOfEvents DEF IInv
  <1>5. e = N
    BY <1>2, <1>3, <1>4 DEF IInv, Numbered
  <1>6. \A u \in Threads : thread[u].pc # "spinoff"
    BY <1>3, <1>5 DEF IInv, Known, Knows
  <1>7. event[e] \in Row
    BY <1>2, PublishedRows DEF IInv
  <1>8. QED
    BY <1>2, <1>3, <1>5, <1>6, <1>7

\* What the updates of the goroutines have in common.
Updates(t, row, p) ==
    /\ thread[t].pc \in {"mark", "permit"} \cup Holding
    /\ row \in Row /\ p \in {"idle", "dispatch", "granted", "spinoff"} /\ Update(t, row, p)
    /\ p = "granted" => row.status = "BEING_PROCESSED"
    /\ p = "spinoff" => row.status = "PROCESSED" /\ ~IsLast(row.type)
    /\ msgs' \subseteq msgs /\ UNCHANGED <<payload, early>>

LEMMA UpdateGoesOn ==
    ASSUME IInv, NEW t \in Threads, NEW row, NEW p, Updates(t, row, p)
    PROVE  /\ IInv'
           /\ event' = [event EXCEPT ![N] = row] /\ Published' = Published /\ N' = N
           /\ thread'[t] = IF p = "idle" THEN Idle ELSE [thread[t] EXCEPT !.pc = p]
           /\ \A u \in Threads \ {t} : thread'[u] = thread[u] \/ thread'[u] = Lost
  <1> USE DEF IInv, Updates
  <1>1. /\ thread[t].ev = N /\ N \in Published /\ N \in Events
        /\ \A u \in Threads \ {t} : thread[u].ev = N => thread[u].pc \notin Holding
        /\ \A u \in Threads : thread[u].pc # "spinoff"
    BY Latest
  <1>2. /\ event' = [event EXCEPT ![N] = row]
        /\ thread'[t] = IF p = "idle" THEN Idle ELSE [thread[t] EXCEPT !.pc = p]
        /\ \A u \in Threads \ {t} :
              IF thread[u].ev = N /\ thread[u].pc \in Updating THEN thread'[u] = Lost
                                                            ELSE thread'[u] = thread[u]
        /\ DOMAIN thread' = Threads
    BY <1>1 DEF Update
  <1>3. /\ event' \in [Events -> Row \cup {Absent}] /\ event'[N] = row
        /\ \A e \in Events \ {N} : event'[e] = event[e]
    BY <1>1, <1>2 DEF TypesOK
  <1>4. Published' = Published
    BY <1>1, <1>3, AbsentIsNoRow DEF Published
  <1>5. N' = N
    BY <1>4 DEF N
  <1>6. thread[t] \in Thread /\ Idle \in Thread /\ Lost \in Thread
    BY DEF TypesOK, Thread, Idle, Lost, Pcs, Updating, Body
  <1>7. [thread[t] EXCEPT !.pc = p] \in Thread /\ [thread[t] EXCEPT !.pc = p].pc = p
        /\ [thread[t] EXCEPT !.pc = p].ev = N
    BY <1>1, <1>6 DEF Thread, Pcs
  <1>8. TypesOK'
    <2>1. thread' \in [Threads -> Thread]
      <3>1. \A u \in Threads : thread'[u] \in Thread
        BY <1>2, <1>6, <1>7 DEF TypesOK
      <3>2. thread' = [u \in Threads |-> thread'[u]]
        BY DEF Update
      <3>3. QED
        BY <3>1, <3>2
    <2>2. QED
      BY <1>3, <2>1 DEF TypesOK
  <1>9. Numbered'
    <2>1. N \in Nat /\ Published = 1 .. N
      BY NumberOfEvents
    <2>2. ~ (N < N)
      BY <2>1
    <2>3. Published \subseteq Events
      BY DEF Published
    <2>4. QED
      BY <1>1, <1>3, <1>4, <1>5, <2>2, <2>3 DEF Numbered
  <1>10. Known'
    <2>1. Knows(t, thread[t].ev, thread[t].pc)'
      <3>1. CASE p = "idle"
        BY <1>2, <3>1 DEF Knows, Idle, Holding
      <3>2. CASE p # "idle"
        <4>1. thread'[t].pc = p /\ thread'[t].ev = N
          BY <1>2, <1>7, <3>2
        <4>2. \A u \in Threads \ {t} :
                thread'[u].pc # "spinoff" /\ (thread'[u].ev = N => thread'[u].pc \notin Holding)
          BY <1>1, <1>2 DEF Lost, Idle, Holding
        <4>3. QED
          BY <1>1, <1>3, <1>4, <1>5, <4>1, <4>2 DEF Knows, Holding
      <3>3. QED
        BY <3>1, <3>2
    <2>2. ASSUME NEW u \in Threads, u # t
          PROVE  Knows(u, thread[u].ev, thread[u].pc)'
      <3>1. CASE thread'[u].pc \in {"idle", "lost"}
        BY <3>1 DEF Knows, Holding
      <3>2. CASE thread'[u].pc \notin {"idle", "lost"}
        <4>1. thread'[u] = thread[u] /\ (thread[u].ev = N => thread[u].pc \notin Updating)
          BY <1>2, <2>2, <3>2 DEF Lost, Idle
        <4>2. Knows(u, thread[u].ev, thread[u].pc) /\ thread[u].ev \in Published
          BY <3>2, <4>1 DEF Known, Knows
        <4>3. thread[u].ev \in Events /\ 0 \notin Events
          BY <4>2, NoEventZero DEF Published
        <4>4. CASE thread[u].ev = N
          BY <1>1, <1>4, <2>2, <4>1, <4>2, <4>4 DEF Knows, Updating, Holding
        <4>5. CASE thread[u].ev # N
          <5>1. event'[thread[u].ev] = event[thread[u].ev]
            BY <1>3, <4>3, <4>5
          <5>2. \A w \in Threads \ {u} :
                  thread'[w].ev = thread[u].ev /\ thread'[w].pc \in Holding =>
                      thread[w].ev = thread[u].ev /\ thread[w].pc \in Holding
            <6>1. thread'[t].ev # thread[u].ev
              <7>1. Idle.ev = 0
                BY DEF Idle
              <7>2. thread'[t].ev \in {0, N}
                BY <1>2, <1>7, <7>1
              <7>3. QED
                BY <4>3, <4>5, <7>2
            <6>2. Lost.pc \notin Holding
              BY DEF Lost, Idle, Holding
            <6>3. QED
              BY <1>2, <6>1, <6>2
          <5>3. QED
            BY <1>1, <1>4, <4>1, <4>2, <5>1, <5>2 DEF Knows
        <4>6. QED
          BY <4>4, <4>5
      <3>3. QED
        BY <3>1, <3>2
    <2>3. \A m \in msgs' : m.ev \in Published'
      BY <1>4 DEF Known
    <2>4. QED
      BY <2>1, <2>2, <2>3 DEF Known
  <1>11. QED
    BY <1>2, <1>4, <1>5, <1>8, <1>9, <1>10

-----------------------------------------------------------------------------
(* Publications.                                                           *)

LEMMA CreateKeeps ==
    ASSUME IInv, NEW t \in Threads, NEW type \in Types, NEW b \in Body, Create(t, type, b),
           \A u \in Threads \ {t} : thread[u].pc # "spinoff",
           \A e \in Published : event[e].status = "PROCESSED"
    PROVE  /\ IInv' /\ N' = N + 1
           /\ event'[N + 1].type = type /\ event'[N + 1].status = "AWAITING_PROCESSING"
           /\ \A e \in Published : event'[e] = event[e]
  <1> USE DEF IInv
  <1> DEFINE row == [type |-> type, left |-> MaxAttempts[type], status |-> "AWAITING_PROCESSING"]
             to  == [pc |-> "save", ev |-> N + 1, body |-> b]
  <1>1. N \in Nat /\ Published = 1 .. N
    BY NumberOfEvents
  <1>2. /\ N + 1 \in Events
        /\ event' = [event EXCEPT ![N + 1] = row]
        /\ thread' = [thread EXCEPT ![t] = to]
        /\ UNCHANGED <<payload, msgs, expired, faults, early>>
    BY DEF Create, N
  <1>3. row \in Row
    BY AttemptsType DEF Row, Statuses
  <1>4. to \in Thread /\ to.pc = "save" /\ to.ev = N + 1
    BY <1>2 DEF Thread, Pcs
  <1> HIDE DEF to
  <1>5. /\ event' \in [Events -> Row \cup {Absent}] /\ event'[N + 1] = row
        /\ \A e \in Events \ {N + 1} : event'[e] = event[e]
    BY <1>2, <1>3 DEF TypesOK
  <1>6. /\ thread' \in [Threads -> Thread] /\ thread'[t] = to
        /\ \A u \in Threads \ {t} : thread'[u] = thread[u]
    BY <1>2, <1>4 DEF TypesOK
  <1>7. TypesOK'
    BY <1>2, <1>5, <1>6 DEF TypesOK
  <1>8. Published' = Published \cup {N + 1}
    BY <1>2, <1>3, <1>5, AbsentIsNoRow DEF Published
  <1>9. Published' = 1 .. (N + 1) /\ N + 1 \in Nat
    <2>1. 1 .. (N + 1) = (1 .. N) \cup {N + 1}
      BY <1>1
    <2>2. QED
      BY <1>1, <1>8, <2>1
  <1>10. N' = N + 1
    <2>1. N + 1 \in Int /\ 1 \in Int /\ ~ (1 > N + 1)
      BY <1>1
    <2>2. Cardinality(1 .. (N + 1)) = (N + 1) - 1 + 1
      BY <2>1, FS_Interval
    <2>3. (N + 1) - 1 + 1 = N + 1
      BY <1>1
    <2>4. QED
      BY <1>9, <2>2, <2>3 DEF N
  <1>11. N + 1 \notin Published
    BY <1>1
  <1>12. \A e \in Published : event'[e] = event[e]
    BY <1>5, <1>11 DEF Published
  <1>13. Numbered'
    <2>1. N + 1 \in 0 .. MaxEvents
      BY <1>2, BoundsType DEF Events
    <2>2. \A e \in Published' : e < N' => e \in Published
      <3>1. ~ (N + 1 < N + 1)
        BY <1>1
      <3>2. QED
        BY <1>8, <1>10, <3>1
    <2>3. QED
      BY <1>9, <1>12, <2>1, <2>2 DEF Numbered
  <1>14. Known'
    <2>1. Knows(t, thread[t].ev, thread[t].pc)'
      BY <1>4, <1>6, <1>8 DEF Knows, Holding
    <2>2. ASSUME NEW u \in Threads, u # t
          PROVE  Knows(u, thread[u].ev, thread[u].pc)'
      <3>1. Knows(u, thread[u].ev, thread[u].pc) /\ thread'[u] = thread[u]
        BY <1>6, <2>2 DEF Known
      <3>2. CASE thread[u].pc \in {"idle", "lost"}
        BY <3>1, <3>2 DEF Knows, Holding
      <3>3. CASE thread[u].pc \notin {"idle", "lost"}
        <4>1. thread[u].ev \in Published /\ thread[u].ev \in Published' /\ thread[u].pc # "spinoff"
          BY <1>8, <2>2, <3>1, <3>3 DEF Knows
        <4>2. event'[thread[u].ev] = event[thread[u].ev]
          BY <1>12, <4>1
        <4>3. to.pc \notin Holding
          BY <1>4 DEF Holding
        <4>4. QED
          BY <1>6, <2>2, <3>1, <4>1, <4>2, <4>3 DEF Knows
      <3>4. QED
        BY <3>2, <3>3
    <2>3. \A m \in msgs' : m.ev \in Published'
      BY <1>2, <1>8 DEF Known
    <2>4. QED
      BY <2>1, <2>2, <2>3 DEF Known
  <1>15. QED
    BY <1>5, <1>7, <1>10, <1>12, <1>13, <1>14

-----------------------------------------------------------------------------
(* What the table says of the ride.                                        *)

State(st) == CASE st = "PROCESSED" -> "done" [] st = "FAILED" -> "failed" [] OTHER -> "open"

Entries == [type: Types, state: {"open", "done", "failed"}]

View(rows, n) ==
    [i \in 1 .. n |-> [type |-> rows[i].type, state |-> State(rows[i].status)]]

LEMMA ViewType ==
    ASSUME NEW n \in Nat, NEW rows, \A i \in 1 .. n : rows[i] \in Row
    PROVE  View(rows, n) \in Seq(Entries) /\ Len(View(rows, n)) = n
  <1> DEFINE view == View(rows, n)
  <1>1. \A i \in 1 .. n : [type |-> rows[i].type, state |-> State(rows[i].status)] \in Entries
    BY DEF Row, Entries, State
  <1>2. view \in [1 .. n -> Entries]
    BY <1>1 DEF View
  <1> HIDE DEF view
  <1>3. view \in Seq(Entries)
    BY <1>2, SeqDef
  <1>4. Len(view) = n
    BY <1>2, <1>3
  <1>5. QED
    BY <1>3, <1>4 DEF view

\* The table's rows of a ride, and what the log makes of them.
Viewed ==
    /\ N \in Nat /\ Published = 1 .. N
    /\ \A i \in 1 .. N : event[i] \in Row
    /\ Log = View(event, N) /\ Log \in Seq(Entries) /\ Len(Log) = N

LEMMA IInvViewed == IInv => Viewed
  <1> SUFFICES ASSUME IInv
               PROVE  Viewed
    OBVIOUS
  <1>1. N \in Nat /\ Published = 1 .. N
    BY NumberOfEvents DEF IInv
  <1>2. Log = View(event, N)
    BY DEF Log, N, View, State
  <1>3. \A i \in 1 .. N : event[i] \in Row
    BY <1>1, PublishedRows DEF Published, IInv
  <1>4. QED
    BY <1>1, <1>2, <1>3, ViewType DEF Viewed

LEMMA IInvViewedNext == IInv' => Viewed'
  BY IInvViewed, PTL

\* Steps that settle nothing and publish nothing.
LEMMA LogStays ==
    ASSUME IInv, IInv', N' = N,
           \A i \in 1 .. N : /\ event'[i].type = event[i].type
                            /\ State(event'[i].status) = State(event[i].status)
    PROVE  Log' = Log
  <1>1. Log = View(event, N) /\ Log' = View(event', N')
    BY IInvViewed, IInvViewedNext DEF Viewed
  <1>2. View(event', N) = View(event, N)
    BY DEF View
  <1>3. QED
    BY <1>1, <1>2

\* The last step ends.
LEMMA LogSettles ==
    ASSUME IInv, IInv', N' = N, N \in Published, NEW row, event' = [event EXCEPT ![N] = row],
           event[N].status = "BEING_PROCESSED", row.type = event[N].type,
           row.status \in {"PROCESSED", "FAILED"}
    PROVE  Trip!Settle(State(row.status))
  <1>1. /\ N \in Nat /\ N \in 1 .. N
        /\ Log \in Seq(Entries) /\ Len(Log) = N /\ Log = View(event, N)
    BY IInvViewed DEF Viewed
  <1>2. Log' = View(event', N)
    BY IInvViewedNext DEF Viewed
  <1>3. event'[N] = row /\ \A i \in 1 .. N : i # N => event'[i] = event[i]
    BY IInvViewed DEF IInv, TypesOK, Published, Viewed
  <1>4. Log[N] = [type |-> event[N].type, state |-> "open"]
    BY <1>1 DEF State, View
  <1>5. Log # << >>
    BY <1>1, EmptySeq
  <1> DEFINE new == [type |-> event[N].type, state |-> State(row.status)]
             upd == [Log EXCEPT ![N] = new]
  <1>6. Log' = upd
    <2>1. Log'[N] = new
      BY <1>1, <1>2, <1>3 DEF View
    <2>2. ASSUME NEW i \in 1 .. N, i # N
          PROVE  Log'[i] = Log[i]
      <3>1. event'[i] = event[i]
        BY <1>3, <2>2
      <3>2. Log[i] = [type |-> event[i].type, state |-> State(event[i].status)]
        BY <1>1 DEF View
      <3>3. Log'[i] = [type |-> event'[i].type, state |-> State(event'[i].status)]
        BY <1>2 DEF View
      <3>4. QED
        BY <3>1, <3>2, <3>3
    <2> HIDE DEF new
    <2>3. upd[N] = new /\ \A i \in 1 .. N : i # N => upd[i] = Log[i]
      BY <1>1
    <2>4. upd = [i \in 1 .. N |-> upd[i]]
      <3>1. Log = [i \in 1 .. N |-> Log[i]]
        BY <1>1 DEF View
      <3>2. QED
        BY <3>1
    <2>5. Log' = [i \in 1 .. N |-> Log'[i]]
      BY <1>2 DEF View
    <2> HIDE DEF upd
    <2>6. \A i \in 1 .. N : Log'[i] = upd[i]
      BY <2>1, <2>2, <2>3
    <2>7. QED
      BY <2>4, <2>5, <2>6
  <1>7. [Log[N] EXCEPT !.state = State(row.status)]
          = [type |-> event[N].type, state |-> State(row.status)]
    BY <1>4
  <1>8. Log' = [Log EXCEPT ![Len(Log)].state = State(row.status)]
    BY <1>1, <1>6, <1>7
  <1>9. Trip!Last = Log[N] /\ Log[N].state = "open"
    BY <1>1, <1>4 DEF Trip!Last
  <1> DEFINE st == State(row.status)
  <1> HIDE DEF st
  <1>10. Trip!Settle(st) <=> Log # << >> /\ Trip!Last.state = "open" /\ Log' = [Log EXCEPT ![Len(Log)].state = st]
    BY DEF Trip!Settle
  <1>11. QED
    BY <1>5, <1>8, <1>9, <1>10 DEF st

\* The next one begins.
LEMMA LogOpens ==
    ASSUME IInv, IInv', N' = N + 1, NEW type \in Types,
           event'[N + 1].type = type, event'[N + 1].status = "AWAITING_PROCESSING",
           \A e \in Published : event'[e] = event[e]
    PROVE  Trip!Open(type)
  <1>1. /\ N \in Nat /\ Published = 1 .. N
        /\ Log \in Seq(Entries) /\ Len(Log) = N /\ Log = View(event, N)
    BY IInvViewed DEF Viewed
  <1>2. Log' \in Seq(Entries) /\ Len(Log') = N + 1 /\ Log' = View(event', N + 1)
    BY IInvViewedNext DEF Viewed
  <1> DEFINE new == [type |-> type, state |-> "open"]
             app == Append(Log, new)
  <1>3. new \in Entries
    BY DEF Entries
  <1>4. /\ app \in Seq(Entries) /\ Len(app) = N + 1 /\ app[N + 1] = new
        /\ \A i \in 1 .. N : app[i] = Log[i]
    BY <1>1, <1>3, AppendProperties
  <1>5. \A i \in 1 .. N : Log'[i] = Log[i]
    BY <1>1, <1>2 DEF View
  <1>6. Log'[N + 1] = new
    BY <1>1, <1>2 DEF State, View
  <1> HIDE DEF app
  <1>7. \A i \in 1 .. (N + 1) : Log'[i] = app[i]
    BY <1>1, <1>4, <1>5, <1>6
  <1>8. Log' = app
    BY <1>2, <1>4, <1>7, SeqEqual
  <1>9. QED
    BY <1>8 DEF Trip!Open, app

-----------------------------------------------------------------------------
(* The steps.                                                              *)

RideStep == Trip!Next \/ Log' = Log

\* As GoOn, seen from the ride: nothing happens.
LEMMA GoOnStep ==
    ASSUME IInv, NEW t \in Threads, NEW to \in Thread, thread' = [thread EXCEPT ![t] = to],
           UNCHANGED event, Knows(t, to.ev, to.pc),
           to.pc \in Holding =>
               to.ev = thread[t].ev /\ thread[t].pc \in Holding,
           to.pc # "spinoff",
           \A m \in msgs' : m.ev \in Published /\ m.body \in Body,
           payload' \in [Events -> Body \cup {"none"}], early' \subseteq Events
    PROVE  IInv' /\ RideStep
  <1>1. IInv'
    BY GoOn
  <1>2. N' = N
    BY DEF N, Published
  <1>3. Log' = Log
    BY <1>1, <1>2, LogStays
  <1>4. QED
    BY <1>1, <1>3 DEF RideStep

LEMMA IdleStep ==
    ASSUME IInv, NEW t \in Threads, thread' = [thread EXCEPT ![t] = Idle], UNCHANGED event,
           \A m \in msgs' : m.ev \in Published /\ m.body \in Body,
           payload' \in [Events -> Body \cup {"none"}], early' \subseteq Events
    PROVE  IInv' /\ RideStep
  <1>1. Idle \in Thread /\ Idle.pc = "idle"
    BY DEF Idle, Thread, Pcs, Body
  <1>2. Knows(t, Idle.ev, Idle.pc) /\ Idle.pc \notin Holding
    BY <1>1 DEF Knows, Holding
  <1>3. QED
    BY <1>1, <1>2, GoOnStep

LEMMA Unsent ==
    ASSUME IInv
    PROVE  /\ \A m \in msgs : m.ev \in Published /\ m.body \in Body
           /\ payload \in [Events -> Body \cup {"none"}] /\ early \subseteq Events
           /\ thread \in [Threads -> Thread]
           /\ Published \subseteq Events
           /\ Jobs \subseteq Threads /\ Adapters \subseteq Threads /\ Client \in Threads
  BY DEF IInv, TypesOK, Known, Published, Threads

LEMMA SaveStep ==
    ASSUME IInv, NEW t \in Threads, SavePayload(t)
    PROVE  IInv' /\ RideStep
  <1>1. thread[t] \in Thread /\ thread[t].body \in Body
    BY Unsent DEF Thread
  <1>2. payload' \in [Events -> Body \cup {"none"}]
    BY <1>1, Unsent DEF SavePayload
  <1>3. QED
    BY <1>2, Unsent, IdleStep DEF SavePayload

LEMMA FetchStep ==
    ASSUME IInv, NEW j \in Jobs, NEW e \in Events, Fetch(j, e)
    PROVE  IInv' /\ RideStep
  <1> DEFINE to == [pc |-> "mark", ev |-> e, body |-> "data"]
  <1>1. /\ thread' = [thread EXCEPT ![j] = to] /\ Selects(j, e)
        /\ UNCHANGED <<event, payload, msgs, expired, faults, early>>
    BY DEF Fetch, Load
  <1>2. to \in Thread /\ to.pc = "mark" /\ to.ev = e
    BY DEF Thread, Pcs, Updating, Body
  <1> HIDE DEF to
  <1>3. event[e].status \in {"AWAITING_PROCESSING", "DISPATCHED"}
    BY <1>1 DEF Selects
  <1>4. e \in Published
    <2>1. Absent.status = "ABSENT"
      BY DEF Absent
    <2>2. event[e] # Absent
      BY <1>3, <2>1
    <2>3. QED
      BY <2>2 DEF Published
  <1>5. Knows(j, to.ev, to.pc) /\ to.pc \notin Holding
    BY <1>2, <1>3, <1>4 DEF Knows, Holding
  <1>6. QED
    BY <1>1, <1>2, <1>5, Unsent, GoOnStep

LEMMA SendStep ==
    ASSUME IInv, NEW j \in Jobs, NEW b \in Body, Send(j, b)
    PROVE  IInv' /\ RideStep
  <1> DEFINE e == thread[j].ev
  <1>1. thread[j].pc = "dispatch" /\ thread' = [thread EXCEPT ![j] = Idle]
        /\ UNCHANGED <<event, payload, expired>>
    BY DEF Send
  <1>2. e \in Published
    <2>1. Knows(j, e, "dispatch")
      BY <1>1, Unsent DEF IInv, Known
    <2>2. QED
      BY <2>1 DEF Knows
  <1>3. early' \subseteq Events
    BY <1>2, Unsent DEF Send
  <1>4. \A m \in msgs' : m.ev \in Published /\ m.body \in Body
    <2>1. CASE msgs' = msgs
      BY <2>1, Unsent
    <2>2. ASSUME NEW n, msgs' = msgs \cup {[ev |-> e, body |-> b, copy |-> n]}
          PROVE  \A m \in msgs' : m.ev \in Published /\ m.body \in Body
      BY <1>2, <2>2, Unsent
    <2>3. QED
      BY <2>1, <2>2 DEF Send
  <1>5. QED
    BY <1>1, <1>3, <1>4, Unsent, IdleStep

\* An update that neither settles the step nor takes it back.
LEMMA UpdateStays ==
    ASSUME IInv, NEW t \in Threads, NEW row, NEW p, Updates(t, row, p),
           event[N].status \in {"AWAITING_PROCESSING", "DISPATCHED", "BEING_PROCESSED"},
           row.status \in {"AWAITING_PROCESSING", "DISPATCHED", "BEING_PROCESSED"},
           row.type = event[N].type
    PROVE  IInv' /\ RideStep
  <1>1. IInv' /\ event' = [event EXCEPT ![N] = row] /\ N' = N
    BY UpdateGoesOn
  <1>2. 1 .. N \subseteq Events /\ N \in Events
    BY IInvViewed, Latest DEF Viewed, Published, Updates
  <1>3. event'[N] = row /\ \A i \in 1 .. N : i # N => event'[i] = event[i]
    BY <1>1, <1>2 DEF IInv, TypesOK
  <1>4. State(row.status) = State(event[N].status)
    BY DEF State
  <1>5. Log' = Log
    BY <1>1, <1>3, <1>4, LogStays
  <1>6. QED
    BY <1>1, <1>5 DEF RideStep

LEMMA MarkStep ==
    ASSUME IInv, NEW j \in Jobs, MarkAsDispatched(j)
    PROVE  IInv' /\ RideStep
  <1> DEFINE row == [event[N] EXCEPT !.status = "DISPATCHED"]
  <1>1. j \in Threads /\ thread[j].pc = "mark"
    BY Unsent DEF MarkAsDispatched
  <1>2. thread[j].ev = N /\ event[N] \in Row
    BY <1>1, Latest
  <1>3. event[N].status \in {"AWAITING_PROCESSING", "DISPATCHED"}
    BY <1>1, <1>2 DEF IInv, Known, Knows
  <1>4. row \in Row /\ row.status = "DISPATCHED" /\ row.type = event[N].type
    BY <1>2 DEF Row, Statuses
  <1>5. Update(j, row, "dispatch") /\ UNCHANGED <<payload, msgs, expired, faults, early>>
    BY <1>2 DEF MarkAsDispatched
  <1> HIDE DEF row
  <1>6. Updates(j, row, "dispatch")
    BY <1>1, <1>4, <1>5 DEF Updates
  <1>7. QED
    BY <1>3, <1>4, <1>1, <1>6, UpdateStays

LEMMA AcquireStep ==
    ASSUME IInv, NEW a \in Adapters, AcquireProcessingPermit(a)
    PROVE  IInv' /\ RideStep
  <1> DEFINE row == [event[N] EXCEPT !.status = "BEING_PROCESSED"]
  <1>1. a \in Threads /\ thread[a].pc = "permit"
    BY Unsent DEF AcquireProcessingPermit
  <1>2. thread[a].ev = N /\ event[N] \in Row
    BY <1>1, Latest
  <1>3. event[N].status = "DISPATCHED"
    BY <1>1, <1>2 DEF IInv, Known, Knows
  <1>4. row \in Row /\ row.status = "BEING_PROCESSED" /\ row.type = event[N].type
    BY <1>2 DEF Row, Statuses
  <1>5. Update(a, row, "granted") /\ UNCHANGED <<payload, msgs, expired, faults, early>>
    BY <1>2 DEF AcquireProcessingPermit
  <1> HIDE DEF row
  <1>6. Updates(a, row, "granted")
    BY <1>1, <1>4, <1>5 DEF Updates
  <1>7. QED
    BY <1>3, <1>4, <1>1, <1>6, UpdateStays

LEMMA HandleStep ==
    ASSUME IInv, NEW a \in Adapters, NEW m \in msgs, HandleMessage(a, m)
    PROVE  IInv' /\ RideStep
  <1>1. /\ a \in Threads /\ m.ev \in Published /\ m.body \in Body /\ m.ev \in Events
        /\ msgs' = msgs \ {m} /\ UNCHANGED <<event, payload, expired, faults, early>>
        /\ thread[a].pc = "idle" /\ thread[a] \in Thread
    BY Unsent DEF HandleMessage
  <1>2. CASE event[m.ev].status = "DISPATCHED"
    <2> DEFINE to == [pc |-> "permit", ev |-> m.ev, body |-> m.body]
    <2>1. thread' = [thread EXCEPT ![a] = to]
      BY <1>2 DEF HandleMessage, Load
    <2>2. to \in Thread /\ to.pc = "permit" /\ to.ev = m.ev
      BY <1>1 DEF Thread, Pcs, Updating
    <2> HIDE DEF to
    <2>3. Knows(a, to.ev, to.pc) /\ to.pc \notin Holding
      BY <1>1, <1>2, <2>2 DEF Knows, Holding
    <2>4. QED
      BY <1>1, <2>1, <2>2, <2>3, Unsent, GoOnStep
  <1>3. CASE event[m.ev].status # "DISPATCHED"
    <2>1. thread' = [thread EXCEPT ![a] = thread[a]]
      BY <1>1, <1>3, Unsent DEF HandleMessage
    <2>2. Knows(a, thread[a].ev, thread[a].pc) /\ thread[a].pc \notin Holding
      BY <1>1 DEF IInv, Known, Holding
    <2>3. QED
      BY <1>1, <2>1, <2>2, Unsent, GoOnStep
  <1>4. QED
    BY <1>2, <1>3

\* A holder goes on holding.
LEMMA HolderStep ==
    ASSUME IInv, NEW a \in Threads, NEW to \in Thread, thread' = [thread EXCEPT ![a] = to],
           thread[a].pc \in Holding, to.ev = thread[a].ev, to.pc \in Holding,
           to.pc = "fail" => event[to.ev].type \in MayFail,
           UNCHANGED <<event, payload, msgs, early>>
    PROVE  IInv' /\ RideStep
  <1>1. Knows(a, thread[a].ev, thread[a].pc)
    BY DEF IInv, Known
  <1>2. Knows(a, to.ev, to.pc) /\ to.pc # "spinoff"
    BY <1>1 DEF Knows, Holding
  <1>3. QED
    BY <1>2, Unsent, GoOnStep

LEMMA AnswerStep ==
    ASSUME IInv, NEW a \in Adapters, AnswerPermit(a)
    PROVE  IInv' /\ RideStep
  <1>1. a \in Threads /\ thread[a] \in Thread /\ thread[a].pc = "granted"
    BY Unsent DEF AnswerPermit
  <1>2. CASE payload[thread[a].ev] = "none"
    BY <1>1, <1>2, Unsent, IdleStep DEF AnswerPermit
  <1>3. CASE payload[thread[a].ev] # "none"
    <2> DEFINE to == [thread[a] EXCEPT !.pc = "working"]
    <2>1. to \in Thread /\ to.ev = thread[a].ev /\ to.pc = "working"
      BY <1>1 DEF Thread, Pcs
    <2>2. thread' = [thread EXCEPT ![a] = to]
      BY <1>3 DEF AnswerPermit
    <2> HIDE DEF to
    <2>3. QED
      BY <1>1, <2>1, <2>2, HolderStep DEF AnswerPermit, Holding
  <1>4. QED
    BY <1>2, <1>3

LEMMA WorkStep ==
    ASSUME IInv, NEW a \in Adapters, Work(a)
    PROVE  IInv' /\ RideStep
  <1> DEFINE e == thread[a].ev
  <1>1. a \in Threads /\ thread[a] \in Thread /\ thread[a].pc = "working"
        /\ UNCHANGED <<event, payload, msgs, expired, faults, early>>
    BY Unsent DEF Work
  <1>2. PICK p \in {"succeed", "retry", "fail"} :
          /\ Load(a, e, p, thread[a].body)
          /\ p = "fail" => event[e].type \in MayFail
    BY DEF Work
  <1> DEFINE to == [pc |-> p, ev |-> e, body |-> thread[a].body]
  <1>3. thread' = [thread EXCEPT ![a] = to]
    BY <1>2 DEF Load
  <1>4. to \in Thread /\ to.ev = e /\ to.pc = p
    BY <1>1 DEF Thread, Pcs, Updating
  <1> HIDE DEF to
  <1>5. QED
    BY <1>1, <1>2, <1>3, <1>4, HolderStep DEF Holding

LEMMA SuccessStep ==
    ASSUME IInv, NEW a \in Adapters, ReportSuccess(a)
    PROVE  IInv' /\ RideStep
  <1> DEFINE row == [event[N] EXCEPT !.status = "PROCESSED"]
             p   == IF NextStep[event[N].type] = "" THEN "idle" ELSE "spinoff"
  <1>1. a \in Threads /\ thread[a].pc = "succeed" /\ "succeed" \in Holding
    BY Unsent DEF ReportSuccess, Holding
  <1>2. thread[a].ev = N /\ event[N] \in Row /\ N \in Published
    BY <1>1, Latest
  <1>3. event[N].status = "BEING_PROCESSED"
    <2>1. Knows(a, N, "succeed")
      BY <1>1, <1>2 DEF IInv, Known
    <2>2. QED
      BY <1>1, <2>1 DEF Knows
  <1>4. row \in Row /\ row.status = "PROCESSED" /\ row.type = event[N].type
    BY <1>2 DEF Row, Statuses
  <1>5. Update(a, row, p) /\ msgs' \subseteq msgs /\ UNCHANGED <<payload, early>>
    BY <1>2 DEF ReportSuccess, Without
  <1>6. p \in {"idle", "spinoff"} /\ (p = "spinoff" => ~IsLast(event[N].type))
    BY DEF IsLast
  <1> HIDE DEF row, p
  <1>7. IInv' /\ event' = [event EXCEPT ![N] = row] /\ N' = N
    <2>1. Updates(a, row, p)
      BY <1>1, <1>4, <1>5, <1>6 DEF Updates
    <2>2. QED
      BY <1>1, <2>1, UpdateGoesOn
  <1>8. Trip!Settle(State(row.status))
    BY <1>2, <1>3, <1>4, <1>7, LogSettles
  <1>9. Trip!Settle("done")
    BY <1>4, <1>8 DEF State
  <1>10. QED
    BY <1>7, <1>9 DEF RideStep, Trip!Next

LEMMA FailureStep ==
    ASSUME IInv, NEW a \in Adapters, ReportFailure(a)
    PROVE  IInv' /\ RideStep
  <1>1. a \in Threads /\ thread[a].pc \in {"retry", "fail"} /\ thread[a].pc \in Holding
    BY Unsent DEF ReportFailure, Holding
  <1>2. thread[a].ev = N /\ event[N] \in Row /\ N \in Published
    BY <1>1, Latest
  <1>3. event[N].status = "BEING_PROCESSED" /\ (thread[a].pc = "fail" => event[N].type \in MayFail)
    <2>1. Knows(a, N, thread[a].pc)
      BY <1>1, <1>2 DEF IInv, Known
    <2>2. QED
      BY <1>1, <2>1 DEF Knows
  <1>4. CASE thread[a].pc = "retry"
    <2> DEFINE row == [event[N] EXCEPT !.status = "AWAITING_PROCESSING", !.left = @ - 1]
    <2>1. row \in Row /\ row.status = "AWAITING_PROCESSING" /\ row.type = event[N].type
      <3> DEFINE old == [event[N] EXCEPT !.status = "AWAITING_PROCESSING"]
      <3>1. old \in Row /\ old.status = "AWAITING_PROCESSING" /\ old.type = event[N].type
        BY <1>2 DEF Row, Statuses
      <3>2. row = [old EXCEPT !.left = event[N].left - 1] /\ event[N].left - 1 \in Int
        BY <1>2 DEF Row
      <3> HIDE DEF old
      <3>3. QED
        BY <3>1, <3>2 DEF Row
    <2>2. Update(a, row, "idle") /\ UNCHANGED <<payload, msgs, early>>
      BY <1>2, <1>4 DEF ReportFailure
    <2> HIDE DEF row
    <2>3. Updates(a, row, "idle")
      BY <1>1, <2>1, <2>2 DEF Updates
    <2>4. QED
      BY <1>1, <1>3, <2>1, <2>3, UpdateStays
  <1>5. CASE thread[a].pc = "fail"
    <2> DEFINE row == [event[N] EXCEPT !.status = "FAILED"]
    <2>1. row \in Row /\ row.status = "FAILED" /\ row.type = event[N].type
      BY <1>2 DEF Row, Statuses
    <2>2. Update(a, row, "idle") /\ msgs' \subseteq msgs /\ UNCHANGED <<payload, early>>
      BY <1>2, <1>5 DEF ReportFailure, Without
    <2> HIDE DEF row
    <2>3. IInv' /\ event' = [event EXCEPT ![N] = row] /\ N' = N
      <3>1. Updates(a, row, "idle")
        BY <1>1, <2>1, <2>2 DEF Updates
      <3>2. QED
        BY <1>1, <3>1, UpdateGoesOn
    <2>4. Trip!Settle("failed")
      <3>1. Trip!Settle(State(row.status))
        BY <1>2, <1>3, <2>1, <2>3, LogSettles
      <3>2. QED
        BY <2>1, <3>1 DEF State
    <2>5. Trip!Last.type \in MayFail /\ Log # << >>
      <3>1. /\ N \in 1 .. N /\ Log = View(event, N) /\ Log \in Seq(Entries) /\ Len(Log) = N
        BY <1>2, IInvViewed DEF Viewed
      <3>2. Log[N].type = event[N].type
        BY <3>1 DEF View
      <3>3. QED
        BY <1>3, <1>5, <3>1, <3>2, EmptySeq DEF Trip!Last
    <2>6. Trip!Fail
      BY <2>4, <2>5 DEF Trip!Fail
    <2>7. QED
      BY <2>3, <2>6 DEF RideStep, Trip!Next
  <1>6. QED
    BY <1>1, <1>4, <1>5

\* A call at rest, or one that has still to follow up, is not in the way.
LEMMA NobodyElse ==
    ASSUME IInv, NEW t \in Threads, thread[t].pc = "spinoff"
    PROVE  /\ thread[t].ev = N /\ N \in Published /\ event[N].status = "PROCESSED"
           /\ ~IsLast(event[N].type) /\ event[N] \in Row
           /\ \A u \in Threads \ {t} : thread[u].pc # "spinoff"
           /\ \A e \in Published : event[e].status = "PROCESSED"
  <1>1. Knows(t, thread[t].ev, "spinoff")
    BY DEF IInv, Known
  <1>2. /\ thread[t].ev = N /\ N \in Published /\ event[N].status = "PROCESSED"
        /\ ~IsLast(event[N].type)
        /\ \A u \in Threads \ {t} : thread[u].pc # "spinoff"
    BY <1>1 DEF Knows
  <1>3. N \in Nat /\ Published = 1 .. N /\ \A i \in 1 .. N : event[i] \in Row
    BY IInvViewed DEF Viewed
  <1>4. \A e \in Published : e = N \/ e < N
    BY <1>3
  <1>5. \A e \in Published : event[e].status = "PROCESSED"
    BY <1>2, <1>4 DEF IInv, Numbered
  <1>6. QED
    BY <1>2, <1>3, <1>5

LEMMA SpinoffStep ==
    ASSUME IInv, NEW a \in Adapters, PublishSpinoff(a)
    PROVE  IInv' /\ RideStep
  <1> DEFINE type == NextStep[event[N].type]
  <1>1. /\ a \in Threads /\ thread[a].pc = "spinoff" /\ thread[a] \in Thread
    BY Unsent DEF PublishSpinoff
  <1>2. /\ thread[a].ev = N /\ N \in Published /\ event[N].status = "PROCESSED"
        /\ ~IsLast(event[N].type) /\ event[N] \in Row
        /\ \A u \in Threads \ {a} : thread[u].pc # "spinoff"
        /\ \A e \in Published : event[e].status = "PROCESSED"
    BY <1>1, NobodyElse
  <1>3. type \in Types /\ thread[a].body \in Body
    BY <1>1, <1>2, FirstType DEF Row, Thread
  <1>4. Create(a, type, thread[a].body)
    BY <1>2 DEF PublishSpinoff
  <1>5. /\ IInv' /\ N' = N + 1
        /\ event'[N + 1].type = type /\ event'[N + 1].status = "AWAITING_PROCESSING"
        /\ \A e \in Published : event'[e] = event[e]
    BY <1>1, <1>2, <1>3, <1>4, CreateKeeps
  <1>6. Trip!Open(type)
    BY <1>3, <1>5, LogOpens
  <1>7. /\ N \in 1 .. N /\ Log = View(event, N) /\ Log \in Seq(Entries) /\ Len(Log) = N
    BY <1>2, IInvViewed DEF Viewed
  <1>8. Log[N].type = event[N].type /\ Log[N].state = "done"
    BY <1>2, <1>7 DEF View, State
  <1>9. Log # << >> /\ Trip!Last = Log[N]
    BY <1>7, EmptySeq DEF Trip!Last
  <1>10. NextStep[Trip!Last.type] = type /\ ~IsLast(Trip!Last.type) /\ Trip!Last.state = "done"
    BY <1>2, <1>8, <1>9
  <1> HIDE DEF type
  <1>11. Trip!Advance
    BY <1>6, <1>9, <1>10 DEF Trip!Advance, IsLast
  <1>12. QED
    BY <1>5, <1>11 DEF RideStep, Trip!Next

LEMMA RequestStep ==
    ASSUME IInv, RequestRide
    PROVE  IInv' /\ RideStep
  <1>1. Published = {} /\ Create(Client, First, "data") /\ Client \in Threads
    BY Unsent DEF RequestRide
  <1>2. \A t \in Threads : thread[t].pc # "spinoff"
    BY <1>1, NobodyElse
  <1>3. First \in Types /\ "data" \in Body
    BY FirstType DEF Body
  <1>4. /\ IInv' /\ N' = N + 1
        /\ event'[N + 1].type = First /\ event'[N + 1].status = "AWAITING_PROCESSING"
        /\ \A e \in Published : event'[e] = event[e]
    BY <1>1, <1>2, <1>3, CreateKeeps
  <1>5. Trip!Open(First)
    BY <1>3, <1>4, LogOpens
  <1>6. Log = << >>
    <2>1. N = 0
      BY <1>1, FS_EmptySet DEF N
    <2>2. Log \in Seq(Entries) /\ Len(Log) = 0
      BY <2>1, IInvViewed DEF Viewed
    <2>3. QED
      BY <2>2
  <1>7. Trip!Request
    BY <1>5, <1>6 DEF Trip!Request
  <1>8. QED
    BY <1>4, <1>7 DEF RideStep, Trip!Next

\* A restart ends calls and forgets payloads; the table is in the database.
LEMMA RestartStep ==
    ASSUME IInv, Restart
    PROVE  IInv' /\ RideStep
  <1>1. /\ UNCHANGED <<event, msgs, early>> /\ thread' \in [Threads -> Thread]
        /\ payload' \in [Events -> Body \cup {"none"}]
        /\ \A t \in Threads : thread'[t] = thread[t] \/ thread'[t] = Idle
    <2>1. Idle \in Thread
      BY DEF Idle, Thread, Pcs, Body
    <2>2. QED
      BY <2>1, Unsent DEF Restart
  <1>2. Published' = Published /\ N' = N
    BY <1>1 DEF Published, N
  <1>3. TypesOK' /\ Numbered'
    BY <1>1, <1>2 DEF IInv, TypesOK, Numbered
  <1>4. Known'
    <2>1. ASSUME NEW t \in Threads
          PROVE  Knows(t, thread[t].ev, thread[t].pc)'
      <3>1. CASE thread'[t] = Idle
        BY <3>1 DEF Knows, Idle, Holding
      <3>2. CASE thread'[t] = thread[t]
        <4>1. Knows(t, thread[t].ev, thread[t].pc)
          BY DEF IInv, Known
        <4>2. \A u \in Threads \ {t} : thread'[u] = thread[u] \/ thread'[u].pc = "idle"
          BY <1>1 DEF Idle
        <4>3. QED
          BY <1>1, <1>2, <3>2, <4>1, <4>2 DEF Knows, Holding
      <3>3. QED
        BY <1>1, <3>1, <3>2
    <2>2. QED
      BY <1>1, <1>2, <2>1 DEF IInv, Known
  <1>5. IInv'
    BY <1>3, <1>4 DEF IInv
  <1>6. QED
    BY <1>1, <1>2, <1>5, LogStays DEF RideStep

\* What goes wrong moves nothing on.
LEMMA FaultStep ==
    ASSUME IInv,
           \/ \E t \in Threads : RaceLost(t) \/ Abort(t)
           \/ \E m \in msgs : LoseMessage(m)
           \/ \E e \in Events : Expire(e)
           \/ UNCHANGED vars
    PROVE  IInv' /\ RideStep
  <1>1. ASSUME NEW t \in Threads, RaceLost(t) \/ Abort(t)
        PROVE  IInv' /\ RideStep
    <2>1. /\ thread' = [thread EXCEPT ![t] = Idle]
          /\ UNCHANGED <<event, payload, msgs, early>>
      BY <1>1 DEF RaceLost, Abort
    <2>2. QED
      BY <2>1, Unsent, IdleStep
  <1>2. ASSUME UNCHANGED <<event, payload, thread, early>>, msgs' \subseteq msgs
        PROVE  IInv' /\ RideStep
    <2>1. Published' = Published /\ N' = N
      BY <1>2 DEF Published, N
    <2>2. TypesOK' /\ Numbered'
      BY <1>2, <2>1 DEF IInv, TypesOK, Numbered
    <2>3. Known'
      BY <1>2, <2>1 DEF IInv, Known, Knows
    <2>4. IInv'
      BY <2>2, <2>3 DEF IInv
    <2>5. QED
      BY <1>2, <2>1, <2>4, LogStays DEF RideStep
  <1>3. QED
    BY <1>1, <1>2 DEF LoseMessage, Expire, vars

-----------------------------------------------------------------------------
(* The refinement.                                                         *)

LEMMA EveryStep == IInv /\ [Next]_vars => IInv' /\ [Trip!Next]_Log
  <1> SUFFICES ASSUME IInv, [Next]_vars
               PROVE  IInv' /\ RideStep
    BY DEF RideStep
  <1>1. ASSUME NEW j \in Jobs, JobStep(j)
        PROVE  IInv' /\ RideStep
    <2>1. ASSUME NEW b \in Body, Send(j, b)
          PROVE  IInv' /\ RideStep
      BY <2>1, SendStep
    <2>2. CASE Dispatch(j) \/ DispatchUnread(j)
      <3>1. j \in Threads /\ thread[j].pc = "dispatch"
        BY <2>2, Unsent DEF Dispatch, DispatchUnread, Send
      <3>2. thread[j].ev \in Events
        <4>1. Knows(j, thread[j].ev, "dispatch")
          BY <3>1 DEF IInv, Known
        <4>2. QED
          BY <4>1, Unsent DEF Knows
      <3>3. payload[thread[j].ev] \in Body \cup {"none"} /\ "blank" \in Body
        BY <3>2, Unsent DEF Body
      <3>4. QED
        BY <2>1, <2>2, <3>3 DEF Dispatch, DispatchUnread
    <2>3. CASE RaceLost(j)
      BY <2>3, FaultStep, Unsent
    <2>4. QED
      BY <1>1, <2>2, <2>3, FetchStep, MarkStep DEF JobStep
  <1>2. ASSUME NEW a \in Adapters, AdapterStep(a)
        PROVE  IInv' /\ RideStep
    <2>1. CASE CallStep(a)
      <3>1. CASE RaceLost(a)
        BY <3>1, FaultStep, Unsent
      <3>2. QED
        BY <2>1, <3>1, AnswerStep, WorkStep, SuccessStep, FailureStep, SpinoffStep DEF CallStep
    <2>2. QED
      BY <1>2, <2>1, HandleStep, AcquireStep DEF AdapterStep
  <1>3. ASSUME NEW t \in Threads, SavePayload(t) \/ Abort(t)
        PROVE  IInv' /\ RideStep
    BY <1>3, SaveStep, FaultStep
  <1>4. QED
    BY <1>1, <1>2, <1>3, RequestStep, FaultStep, RestartStep DEF Next

LEMMA InitialLog == Init => Trip!Init
  <1> SUFFICES ASSUME Init
               PROVE  Log = << >>
    BY DEF Trip!Init
  <1>1. Published = {} /\ IInv
    BY IInvInit DEF Init, Published
  <1>2. N = 0
    BY <1>1, FS_EmptySet DEF N
  <1>3. Log \in Seq(Entries) /\ Len(Log) = 0
    BY <1>1, <1>2, IInvViewed DEF Viewed
  <1>4. QED
    BY <1>3

LEMMA IInvHolds == Spec => []IInv
  BY IInvInit, EveryStep, PTL DEF Spec

\* A ride is the ride of the adapter's table: one step at a time, in order, and
\* every step published once, whatever is repeated, lost or crosses.
THEOREM RidesImplementRide == Spec => ImplementsRide
  BY InitialLog, EveryStep, IInvHolds, PTL DEF Spec, Trip!Spec, ImplementsRide

-----------------------------------------------------------------------------
(* What strands a ride, and what loses its payload.                        *)

\* A payload may have been replaced by {} at an event up to e, or before e.
UntilBlank(e)  == "unread" \in faults \/ \E d \in early : d <= e
BeforeBlank(e) == "unread" \in faults \/ \E d \in early : d < e

\* The payload of e is there to be answered with the permit, but for a cause.
Backed(e) == payload[e] # "none" \/ e \in early \/ "abort" \in faults

Carries(th) ==
    /\ th.body = "blank" /\ th.pc = "save" => BeforeBlank(th.ev)
    /\ th.body = "blank" /\ th.pc \notin {"idle", "lost", "save"} => UntilBlank(th.ev)
    /\ th.pc \in {"permit"} \cup Holding => Backed(th.ev)

Sent(m) == Backed(m.ev) /\ (m.body = "blank" => UntilBlank(m.ev))

\* Somebody goes on with event e, or did until it was aborted.
Held(e) ==
    \/ "abort" \in faults \/ e \in early
    \/ \E a \in Adapters : thread[a].ev = e /\ thread[a].pc \in Holding

FollowedUp(e) ==
    \/ "abort" \in faults \/ e + 1 \in Published
    \/ \E a \in Adapters : thread[a].ev = e /\ thread[a].pc = "spinoff"

Carried ==
    /\ \A e \in Events : payload[e] = "blank" => BeforeBlank(e)
    /\ \A m \in msgs : Sent(m)
    /\ \A t \in Threads : Carries(thread[t])

GoesOn ==
    \A e \in Published :
        /\ event[e].status = "BEING_PROCESSED" => Held(e)
        /\ event[e].status = "PROCESSED" /\ ~IsLast(event[e].type) => FollowedUp(e)

CInv == Carried /\ GoesOn

\* Nothing of the history, and no payload, is ever taken back, but by a restart.
Grows ==
    /\ faults \subseteq faults' /\ early \subseteq early'
    /\ \A e \in Events : payload[e] # "none" => payload'[e] # "none" \/ "abort" \in faults'

LEMMA CarriesStays ==
    ASSUME IInv, Grows, NEW t \in Threads, Carries(thread[t]), thread'[t] = thread[t] \/ thread'[t] = Lost
    PROVE  Carries(thread[t])'
  <1>1. CASE thread'[t] = Lost
    BY <1>1 DEF Carries, Lost, Idle, Holding
  <1>2. CASE thread'[t] = thread[t]
    <2>1. thread[t].pc \notin {"idle", "lost"} => thread[t].ev \in Events
      <3>1. Knows(t, thread[t].ev, thread[t].pc)
        BY DEF IInv, Known
      <3>2. QED
        BY <3>1, Unsent DEF Knows
    <2>2. QED
      BY <1>2, <2>1 DEF Grows, Carries, Holding, UntilBlank, BeforeBlank, Backed
  <1>3. QED
    BY <1>1, <1>2

LEMMA SentStays ==
    ASSUME IInv, Grows, NEW m \in msgs, Sent(m)
    PROVE  Sent(m)'
  <1>1. m.ev \in Events
    BY Unsent
  <1>2. QED
    BY <1>1 DEF Grows, Sent, UntilBlank, Backed

\* Goroutine t goes on, or everything else does.
LEMMA GoOnCauses ==
    ASSUME IInv, CInv, Grows, UNCHANGED event,
           NEW t \in Threads, NEW to, thread' = [thread EXCEPT ![t] = to],
           Carries(to)', \A m \in msgs' : m \in msgs \/ Sent(m)',
           \A e \in Events : payload'[e] = "blank" => payload[e] = "blank" \/ BeforeBlank(e)',
           thread[t].pc \in Holding =>
               \/ to.ev = thread[t].ev /\ to.pc \in Holding
               \/ "abort" \in faults' \/ thread[t].ev \in early',
           thread[t].pc = "spinoff" => "abort" \in faults'
    PROVE  CInv'
  <1>1. /\ thread'[t] = to /\ \A u \in Threads \ {t} : thread'[u] = thread[u]
        /\ Published' = Published /\ Adapters \subseteq Threads
    BY Unsent DEF Published
  <1>2. Carried'
    <2>1. \A u \in Threads : Carries(thread[u])'
      <3> SUFFICES ASSUME NEW u \in Threads
                   PROVE  Carries(thread[u])'
        OBVIOUS
      <3>1. CASE u = t
        BY <1>1, <3>1 DEF Carries, UntilBlank, BeforeBlank, Backed
      <3>2. CASE u # t
        BY <1>1, <3>2, CarriesStays DEF CInv, Carried
      <3>3. QED
        BY <3>1, <3>2
    <2>2. \A m \in msgs' : Sent(m)'
      BY SentStays DEF CInv, Carried
    <2>3. ASSUME NEW e \in Events, payload'[e] = "blank"
          PROVE  BeforeBlank(e)'
      <3>1. payload[e] = "blank" => BeforeBlank(e)
        BY DEF CInv, Carried
      <3>2. BeforeBlank(e) => BeforeBlank(e)'
        BY DEF Grows, BeforeBlank
      <3>3. QED
        BY <2>3, <3>1, <3>2
    <2>4. QED
      BY <2>1, <2>2, <2>3 DEF Carried
  <1>3. GoesOn'
    <2> SUFFICES ASSUME NEW e \in Published
                 PROVE  /\ event[e].status = "BEING_PROCESSED" => Held(e)'
                        /\ event[e].status = "PROCESSED" /\ ~IsLast(event[e].type) => FollowedUp(e)'
      BY <1>1 DEF GoesOn
    <2>1. Held(e) => Held(e)'
      BY <1>1 DEF Held, Grows
    <2>2. FollowedUp(e) => FollowedUp(e)'
      BY <1>1 DEF FollowedUp, Grows
    <2>3. QED
      BY <2>1, <2>2 DEF CInv, GoesOn
  <1>4. QED
    BY <1>2, <1>3 DEF CInv

LEMMA UpdateCauses ==
    ASSUME IInv, CInv, NEW t \in Threads, NEW row, NEW p, Updates(t, row, p), UNCHANGED faults,
           p = "granted" => thread[t].pc = "permit",
           row.status = "BEING_PROCESSED" => p = "granted" /\ t \in Adapters,
           row.status = "PROCESSED" /\ ~IsLast(row.type) => p = "spinoff" /\ t \in Adapters
    PROVE  CInv'
  <1>1. /\ IInv' /\ event' = [event EXCEPT ![N] = row] /\ Published' = Published /\ N' = N
        /\ thread'[t] = IF p = "idle" THEN Idle ELSE [thread[t] EXCEPT !.pc = p]
        /\ \A u \in Threads \ {t} : thread'[u] = thread[u] \/ thread'[u] = Lost
    BY UpdateGoesOn
  <1>2. thread[t].ev = N /\ N \in Published /\ N \in Events /\ thread[t] \in Thread
    BY Latest, Unsent DEF Updates
  <1> USE DEF Updates
  <1>3. N \in Nat /\ Published = 1 .. N
    BY IInvViewed DEF Viewed
  <1>4. Grows
    BY DEF Grows
  <1>5. p # "idle" => thread'[t].pc = p /\ thread'[t].ev = N /\ thread'[t].body = thread[t].body
    BY <1>1, <1>2 DEF Thread
  <1>6. Carries(thread[t])'
    <2>1. CASE p = "idle"
      BY <1>1, <2>1 DEF Carries, Idle, Holding
    <2>2. CASE p # "idle"
      <3>1. thread[t].pc \notin {"idle", "lost", "save"}
        BY DEF Holding
      <3>2. thread[t].body = "blank" => UntilBlank(N)
        BY <1>2, <3>1 DEF CInv, Carried, Carries
      <3>3. p = "granted" => Backed(N)
        BY <1>2 DEF CInv, Carried, Carries
      <3>4. p \notin {"permit", "save"} /\ (p \in Holding => p = "granted")
        BY DEF Holding
      <3>5. QED
        BY <1>5, <2>2, <3>2, <3>3, <3>4 DEF Carries, UntilBlank, Backed
    <2>3. QED
      BY <2>1, <2>2
  <1>7. Carried'
    <2>1. \A u \in Threads : Carries(thread[u])'
      BY <1>1, <1>4, <1>6, CarriesStays DEF CInv, Carried
    <2>2. \A m \in msgs' : Sent(m)'
      BY <1>4, SentStays DEF CInv, Carried
    <2>3. \A e \in Events : payload'[e] = "blank" => BeforeBlank(e)'
      BY DEF CInv, Carried, BeforeBlank
    <2>4. QED
      BY <2>1, <2>2, <2>3 DEF Carried
  <1>8. GoesOn'
    <2> SUFFICES ASSUME NEW e \in Published
                 PROVE  /\ event'[e].status = "BEING_PROCESSED" => Held(e)'
                        /\ event'[e].status = "PROCESSED" /\ ~IsLast(event'[e].type) => FollowedUp(e)'
      BY <1>1 DEF GoesOn
    <2>1. event'[N] = row /\ (e # N => event'[e] = event[e])
      BY <1>1, <1>2 DEF IInv, TypesOK, Published
    <2>2. CASE e = N
      BY <1>5, <2>1, <2>2 DEF Held, FollowedUp, Holding
    <2>3. CASE e # N
      <3>1. e < N /\ e + 1 \in Published
        BY <1>3, <2>3
      <3>2. event'[e].status = "PROCESSED"
        BY <2>1, <2>3, <3>1 DEF IInv, Numbered
      <3>3. QED
        BY <1>1, <3>1, <3>2 DEF FollowedUp
    <2>4. QED
      BY <2>2, <2>3
  <1>9. QED
    BY <1>7, <1>8 DEF CInv

LEMMA CreateCauses ==
    ASSUME IInv, CInv, NEW t \in Threads, NEW type \in Types, NEW b \in Body, Create(t, type, b),
           \A u \in Threads \ {t} : thread[u].pc # "spinoff",
           \A e \in Published : event[e].status = "PROCESSED",
           b = "blank" => BeforeBlank(N + 1)
    PROVE  CInv'
  <1> DEFINE to == [pc |-> "save", ev |-> N + 1, body |-> b]
  <1>1. /\ IInv' /\ N' = N + 1 /\ event'[N + 1].status = "AWAITING_PROCESSING"
        /\ \A e \in Published : event'[e] = event[e]
    BY CreateKeeps
  <1>2. thread' = [thread EXCEPT ![t] = to] /\ UNCHANGED <<payload, msgs, faults, early>>
    BY DEF Create, N
  <1>3. to.pc = "save" /\ to.ev = N + 1 /\ to.body = b
    OBVIOUS
  <1> HIDE DEF to
  <1>4. thread'[t] = to /\ \A u \in Threads \ {t} : thread'[u] = thread[u]
    BY <1>2, Unsent
  <1>5. Grows
    BY <1>2 DEF Grows
  <1>6. Carries(thread[t])'
    BY <1>2, <1>3, <1>4 DEF Carries, BeforeBlank, Holding
  <1>7. Carried'
    <2>1. \A u \in Threads : Carries(thread[u])'
      BY <1>4, <1>5, <1>6, CarriesStays DEF CInv, Carried
    <2>2. \A m \in msgs' : Sent(m)'
      BY <1>2, <1>5, SentStays DEF CInv, Carried
    <2>3. \A e \in Events : payload'[e] = "blank" => BeforeBlank(e)'
      BY <1>2 DEF CInv, Carried, BeforeBlank
    <2>4. QED
      BY <2>1, <2>2, <2>3 DEF Carried
  <1>8. GoesOn'
    <2>1. N \in Nat /\ Published = 1 .. N /\ Published' = 1 .. (N + 1)
      BY <1>1, IInvViewed, IInvViewedNext DEF Viewed
    <2>2. \A e \in Published' : e = N + 1 \/ (e \in Published /\ e + 1 \in Published')
      BY <2>1
    <2>3. \A e \in Published : event'[e].status = "PROCESSED"
      BY <1>1
    <2>4. QED
      BY <1>1, <2>2, <2>3 DEF GoesOn, FollowedUp
  <1>9. QED
    BY <1>7, <1>8 DEF CInv

\* Goroutine t has nothing more to do, or gives up.
LEMMA IdleCauses ==
    ASSUME IInv, CInv, Grows, UNCHANGED event,
           NEW t \in Threads, thread' = [thread EXCEPT ![t] = Idle],
           \A m \in msgs' : m \in msgs \/ Sent(m)',
           \A e \in Events : payload'[e] = "blank" => payload[e] = "blank" \/ BeforeBlank(e)',
           thread[t].pc \in Holding => "abort" \in faults' \/ thread[t].ev \in early',
           thread[t].pc = "spinoff" => "abort" \in faults'
    PROVE  CInv'
  <1>1. Carries(Idle)'
    BY DEF Carries, Idle, Holding
  <1>2. QED
    BY <1>1, GoOnCauses

\* Nothing is done but that messages get lost, or a fault comes about.
LEMMA NobodyCauses ==
    ASSUME IInv, CInv, Grows, UNCHANGED <<event, thread, payload>>, msgs' \subseteq msgs
    PROVE  CInv'
  <1>1. Published' = Published /\ Adapters \subseteq Threads
    BY Unsent DEF Published
  <1>2. Carried'
    <2>1. \A t \in Threads : Carries(thread[t])'
      BY CarriesStays DEF CInv, Carried
    <2>2. \A m \in msgs' : Sent(m)'
      BY SentStays DEF CInv, Carried
    <2>3. \A e \in Events : payload'[e] = "blank" => BeforeBlank(e)'
      BY DEF CInv, Carried, BeforeBlank, Grows
    <2>4. QED
      BY <2>1, <2>2, <2>3 DEF Carried
  <1>3. GoesOn'
    <2>1. \A e \in Published : (Held(e) => Held(e)') /\ (FollowedUp(e) => FollowedUp(e)')
      BY <1>1 DEF Held, FollowedUp, Grows
    <2>2. QED
      BY <1>1, <2>1 DEF CInv, GoesOn
  <1>4. QED
    BY <1>2, <1>3 DEF CInv

LEMMA SaveCauses ==
    ASSUME IInv, CInv, NEW t \in Threads, SavePayload(t)
    PROVE  CInv'
  <1>1. /\ thread[t].pc = "save" /\ thread[t] \in Thread
        /\ payload' = [payload EXCEPT ![thread[t].ev] = thread[t].body]
        /\ thread' = [thread EXCEPT ![t] = Idle]
        /\ UNCHANGED <<event, msgs, faults, early>>
    BY Unsent DEF SavePayload
  <1>2. \A e \in Events : payload'[e] = IF e = thread[t].ev THEN thread[t].body ELSE payload[e]
    BY <1>1, Unsent
  <1>3. Grows
    BY <1>1, <1>2 DEF Grows, Thread, Body
  <1>4. thread[t].body = "blank" => BeforeBlank(thread[t].ev)
    BY <1>1 DEF CInv, Carried, Carries
  <1>5. \A e \in Events : payload'[e] = "blank" => payload[e] = "blank" \/ BeforeBlank(e)'
    BY <1>1, <1>2, <1>4 DEF BeforeBlank
  <1>6. thread[t].pc \notin Holding /\ thread[t].pc # "spinoff"
    BY <1>1 DEF Holding
  <1>7. QED
    BY <1>1, <1>3, <1>5, <1>6, IdleCauses

LEMMA FetchCauses ==
    ASSUME IInv, CInv, NEW j \in Jobs, NEW e \in Events, Fetch(j, e)
    PROVE  CInv'
  <1> DEFINE to == [pc |-> "mark", ev |-> e, body |-> "data"]
  <1>1. /\ j \in Threads /\ thread[j].pc = "idle" /\ thread' = [thread EXCEPT ![j] = to]
        /\ UNCHANGED <<event, payload, msgs, faults, early>>
    BY Unsent DEF Fetch, Load
  <1>2. Carries(to)'
    BY DEF Carries, Holding
  <1> HIDE DEF to
  <1>3. Grows /\ thread[j].pc \notin Holding /\ thread[j].pc # "spinoff"
    BY <1>1 DEF Grows, Holding
  <1>4. QED
    BY <1>1, <1>2, <1>3, GoOnCauses

\* b is {} only because no payload was found, or none could be read.
LEMMA SendCauses ==
    ASSUME IInv, CInv, NEW j \in Jobs, NEW b \in Body, Send(j, b), faults \subseteq faults',
           LET body == payload[thread[j].ev]
           IN  b = "blank" => body \in {"none", "blank"} \/ "unread" \in faults'
    PROVE  CInv'
  <1>1. /\ j \in Threads /\ thread[j].pc = "dispatch" /\ thread' = [thread EXCEPT ![j] = Idle]
        /\ UNCHANGED <<event, payload>>
    BY Unsent DEF Send
  <1>2. PICK e \in Published : e = thread[j].ev
    <2>1. Knows(j, thread[j].ev, "dispatch")
      BY <1>1 DEF IInv, Known
    <2>2. QED
      BY <2>1 DEF Knows
  <1>3. e \in Events /\ e \in Nat
    BY Unsent, NoEventZero
  <1>4. early' = IF payload[e] = "none" THEN early \cup {e} ELSE early
    BY <1>2 DEF Send
  <1>5. Grows /\ thread[j].pc \notin Holding /\ thread[j].pc # "spinoff"
    BY <1>1, <1>4 DEF Grows, Holding
  <1>6. Backed(e)'
    BY <1>1, <1>4 DEF Backed
  <1>7. b = "blank" => UntilBlank(e)'
    <2>1. CASE payload[e] = "none"
      <3>1. e \in early' /\ e <= e
        BY <1>3, <1>4, <2>1
      <3>2. QED
        BY <3>1 DEF UntilBlank
    <2>2. CASE payload[e] = "blank"
      <3>1. BeforeBlank(e)
        BY <1>3, <2>2 DEF CInv, Carried
      <3>2. \A d \in early : d < e => d <= e
        <4>1. \A d \in early : d \in Nat
          BY Unsent, NoEventZero
        <4>2. \A d \in Nat : d < e => d <= e
          BY <1>3
        <4>3. QED
          BY <4>1, <4>2
      <3>3. QED
        BY <1>5, <3>1, <3>2 DEF BeforeBlank, UntilBlank, Grows
    <2>3. CASE "unread" \in faults'
      BY <2>3 DEF UntilBlank
    <2>4. QED
      BY <1>2, <2>1, <2>2, <2>3
  <1>8. ASSUME NEW m \in msgs', m \notin msgs
        PROVE  Backed(e)' /\ m.ev = e /\ m.body = b
    BY <1>2, <1>6, <1>8 DEF Send
  <1>9. \A m \in msgs' : m \in msgs \/ Sent(m)'
    BY <1>7, <1>8 DEF Sent, Backed, UntilBlank
  <1>10. QED
    BY <1>1, <1>5, <1>9, IdleCauses

LEMMA MarkCauses ==
    ASSUME IInv, CInv, NEW j \in Jobs, MarkAsDispatched(j)
    PROVE  CInv'
  <1> DEFINE row == [event[N] EXCEPT !.status = "DISPATCHED"]
  <1>1. j \in Threads /\ thread[j].pc = "mark"
    BY Unsent DEF MarkAsDispatched
  <1>2. thread[j].ev = N /\ event[N] \in Row
    BY <1>1, Latest
  <1>3. row \in Row /\ row.status = "DISPATCHED"
    BY <1>2 DEF Row, Statuses
  <1>4. Update(j, row, "dispatch") /\ UNCHANGED <<payload, msgs, expired, faults, early>>
    BY <1>2 DEF MarkAsDispatched
  <1> HIDE DEF row
  <1>5. Updates(j, row, "dispatch")
    BY <1>1, <1>3, <1>4 DEF Updates
  <1>6. QED
    BY <1>1, <1>3, <1>4, <1>5, UpdateCauses

LEMMA AcquireCauses ==
    ASSUME IInv, CInv, NEW a \in Adapters, AcquireProcessingPermit(a)
    PROVE  CInv'
  <1> DEFINE row == [event[N] EXCEPT !.status = "BEING_PROCESSED"]
  <1>1. a \in Threads /\ thread[a].pc = "permit"
    BY Unsent DEF AcquireProcessingPermit
  <1>2. thread[a].ev = N /\ event[N] \in Row
    BY <1>1, Latest
  <1>3. row \in Row /\ row.status = "BEING_PROCESSED"
    BY <1>2 DEF Row, Statuses
  <1>4. Update(a, row, "granted") /\ UNCHANGED <<payload, msgs, expired, faults, early>>
    BY <1>2 DEF AcquireProcessingPermit
  <1> HIDE DEF row
  <1>5. Updates(a, row, "granted")
    BY <1>1, <1>3, <1>4 DEF Updates
  <1>6. QED
    BY <1>1, <1>3, <1>4, <1>5, UpdateCauses

LEMMA HandleCauses ==
    ASSUME IInv, CInv, NEW a \in Adapters, NEW m \in msgs, HandleMessage(a, m)
    PROVE  CInv'
  <1>1. /\ a \in Threads /\ thread[a].pc = "idle" /\ thread[a] \in Thread
        /\ msgs' = msgs \ {m} /\ UNCHANGED <<event, payload, faults, early>>
    BY Unsent DEF HandleMessage
  <1>2. Grows /\ thread[a].pc \notin Holding /\ thread[a].pc # "spinoff"
    BY <1>1 DEF Grows, Holding
  <1>3. CASE event[m.ev].status = "DISPATCHED"
    <2> DEFINE to == [pc |-> "permit", ev |-> m.ev, body |-> m.body]
    <2>1. thread' = [thread EXCEPT ![a] = to]
      BY <1>3 DEF HandleMessage, Load
    <2>2. Sent(m)'
      BY <1>2, SentStays DEF CInv, Carried
    <2>3. Carries(to)'
      BY <2>2 DEF Carries, Sent, UntilBlank, Backed
    <2> HIDE DEF to
    <2>4. QED
      BY <1>1, <1>2, <2>1, <2>3, GoOnCauses
  <1>4. CASE event[m.ev].status # "DISPATCHED"
    <2>1. UNCHANGED thread
      BY <1>4 DEF HandleMessage
    <2>2. QED
      BY <1>1, <1>2, <2>1, NobodyCauses
  <1>5. QED
    BY <1>3, <1>4

\* A holder goes on holding, with the body it has.
LEMMA HolderCauses ==
    ASSUME IInv, CInv, NEW a \in Threads, NEW to, thread' = [thread EXCEPT ![a] = to],
           thread[a].pc \in Holding, to.ev = thread[a].ev, to.pc \in Holding,
           to.body = thread[a].body,
           UNCHANGED <<event, payload, msgs, faults, early>>
    PROVE  CInv'
  <1>1. /\ thread[a].body = "blank" => UntilBlank(thread[a].ev)
        /\ Backed(thread[a].ev)
    <2>1. Carries(thread[a]) /\ thread[a].pc \notin {"idle", "lost", "save"}
      BY DEF CInv, Carried, Holding
    <2>2. QED
      BY <2>1 DEF Carries
  <1>2. Carries(to)'
    BY <1>1 DEF Carries, Holding, UntilBlank, Backed
  <1>3. Grows
    BY DEF Grows
  <1>4. thread[a].pc # "spinoff"
    BY DEF Holding
  <1>5. QED
    BY <1>2, <1>3, <1>4, GoOnCauses

LEMMA AnswerCauses ==
    ASSUME IInv, CInv, NEW a \in Adapters, AnswerPermit(a)
    PROVE  CInv'
  <1>1. /\ a \in Threads /\ thread[a] \in Thread /\ thread[a].pc = "granted"
        /\ thread[a].pc \in Holding /\ UNCHANGED <<event, payload, msgs, faults, early>>
    BY Unsent DEF AnswerPermit, Holding
  <1>2. CASE payload[thread[a].ev] = "none"
    <2>1. thread[a].ev \in early \/ "abort" \in faults
      BY <1>1, <1>2 DEF CInv, Carried, Carries, Backed
    <2>2. thread' = [thread EXCEPT ![a] = Idle]
      BY <1>2 DEF AnswerPermit
    <2>3. Grows
      BY <1>1 DEF Grows
    <2>4. QED
      BY <1>1, <2>1, <2>2, <2>3, IdleCauses
  <1>3. CASE payload[thread[a].ev] # "none"
    <2> DEFINE to == [thread[a] EXCEPT !.pc = "working"]
    <2>1. to.ev = thread[a].ev /\ to.pc \in Holding /\ to.body = thread[a].body
      BY <1>1 DEF Thread, Holding
    <2>2. thread' = [thread EXCEPT ![a] = to]
      BY <1>3 DEF AnswerPermit
    <2> HIDE DEF to
    <2>3. QED
      BY <1>1, <2>1, <2>2, HolderCauses
  <1>4. QED
    BY <1>2, <1>3

LEMMA WorkCauses ==
    ASSUME IInv, CInv, NEW a \in Adapters, Work(a)
    PROVE  CInv'
  <1>1. /\ a \in Threads /\ thread[a].pc = "working" /\ thread[a].pc \in Holding
        /\ UNCHANGED <<event, payload, msgs, faults, early>>
    BY Unsent DEF Work, Holding
  <1>2. PICK p \in {"succeed", "retry", "fail"} : Load(a, thread[a].ev, p, thread[a].body)
    BY DEF Work
  <1> DEFINE to == [pc |-> p, ev |-> thread[a].ev, body |-> thread[a].body]
  <1>3. thread' = [thread EXCEPT ![a] = to]
    BY <1>2 DEF Load
  <1>4. to.ev = thread[a].ev /\ to.pc \in Holding /\ to.body = thread[a].body
    BY DEF Holding
  <1> HIDE DEF to
  <1>5. QED
    BY <1>1, <1>3, <1>4, HolderCauses

LEMMA SuccessCauses ==
    ASSUME IInv, CInv, NEW a \in Adapters, ReportSuccess(a)
    PROVE  CInv'
  <1> DEFINE row == [event[N] EXCEPT !.status = "PROCESSED"]
             p   == IF NextStep[event[N].type] = "" THEN "idle" ELSE "spinoff"
  <1>1. a \in Threads /\ thread[a].pc = "succeed" /\ thread[a].pc \in Holding
    BY Unsent DEF ReportSuccess, Holding
  <1>2. thread[a].ev = N /\ event[N] \in Row
    BY <1>1, Latest
  <1>3. row \in Row /\ row.status = "PROCESSED" /\ row.type = event[N].type
    BY <1>2 DEF Row, Statuses
  <1>4. /\ Update(a, row, p) /\ msgs' \subseteq msgs
        /\ UNCHANGED <<payload, faults, early>>
    BY <1>2 DEF ReportSuccess, Without
  <1>5. p \in {"idle", "spinoff"} /\ (p = "spinoff" <=> ~IsLast(event[N].type))
    BY DEF IsLast
  <1> HIDE DEF row, p
  <1>6. /\ p = "spinoff" <=> ~IsLast(row.type)
        /\ p \in {"idle", "dispatch", "granted", "spinoff"} /\ p # "granted"
        /\ row.status # "BEING_PROCESSED"
    BY <1>3, <1>5
  <1>7. Updates(a, row, p)
    BY <1>1, <1>3, <1>4, <1>6 DEF Updates
  <1>8. QED
    BY <1>1, <1>3, <1>4, <1>6, <1>7, UpdateCauses

LEMMA FailureCauses ==
    ASSUME IInv, CInv, NEW a \in Adapters, ReportFailure(a)
    PROVE  CInv'
  <1>1. /\ a \in Threads /\ thread[a].pc \in {"retry", "fail"} /\ thread[a].pc \in Holding
        /\ UNCHANGED <<payload, faults, early>>
    BY Unsent DEF ReportFailure, Holding
  <1>2. thread[a].ev = N /\ event[N] \in Row
    BY <1>1, Latest
  <1>3. ASSUME NEW row \in Row, row.status \in {"AWAITING_PROCESSING", "FAILED"},
               Update(a, row, "idle"), msgs' \subseteq msgs
        PROVE  CInv'
    <2>1. Updates(a, row, "idle")
      BY <1>1, <1>3 DEF Updates
    <2>2. QED
      BY <1>1, <1>3, <2>1, UpdateCauses
  <1>4. CASE thread[a].pc = "retry"
    <2> DEFINE row == [event[N] EXCEPT !.status = "AWAITING_PROCESSING", !.left = @ - 1]
    <2>1. row \in Row /\ row.status = "AWAITING_PROCESSING"
      <3> DEFINE old == [event[N] EXCEPT !.status = "AWAITING_PROCESSING"]
      <3>1. old \in Row /\ old.status = "AWAITING_PROCESSING"
        BY <1>2 DEF Row, Statuses
      <3>2. row = [old EXCEPT !.left = event[N].left - 1] /\ event[N].left - 1 \in Int
        BY <1>2 DEF Row
      <3> HIDE DEF old
      <3>3. QED
        BY <3>1, <3>2 DEF Row
    <2>2. Update(a, row, "idle") /\ UNCHANGED msgs
      BY <1>2, <1>4 DEF ReportFailure
    <2> HIDE DEF row
    <2>3. QED
      BY <1>3, <2>1, <2>2
  <1>5. CASE thread[a].pc = "fail"
    <2> DEFINE row == [event[N] EXCEPT !.status = "FAILED"]
    <2>1. row \in Row /\ row.status = "FAILED"
      BY <1>2 DEF Row, Statuses
    <2>2. Update(a, row, "idle") /\ msgs' \subseteq msgs
      BY <1>2, <1>5 DEF ReportFailure, Without
    <2> HIDE DEF row
    <2>3. QED
      BY <1>3, <2>1, <2>2
  <1>6. QED
    BY <1>1, <1>4, <1>5

LEMMA SpinoffCauses ==
    ASSUME IInv, CInv, NEW a \in Adapters, PublishSpinoff(a)
    PROVE  CInv'
  <1> DEFINE type == NextStep[event[N].type]
  <1>1. a \in Threads /\ thread[a].pc = "spinoff" /\ thread[a] \in Thread
    BY Unsent DEF PublishSpinoff
  <1>2. /\ thread[a].ev = N /\ N \in Published /\ ~IsLast(event[N].type) /\ event[N] \in Row
        /\ \A u \in Threads \ {a} : thread[u].pc # "spinoff"
        /\ \A e \in Published : event[e].status = "PROCESSED"
    BY <1>1, NobodyElse
  <1>3. type \in Types /\ thread[a].body \in Body
    BY <1>1, <1>2, FirstType DEF Row, Thread
  <1>4. Create(a, type, thread[a].body)
    BY <1>2 DEF PublishSpinoff
  <1>5. thread[a].body = "blank" => BeforeBlank(N + 1)
    <2>1. thread[a].body = "blank" => UntilBlank(N)
      BY <1>1, <1>2 DEF CInv, Carried, Carries
    <2>2. \A d \in early : d <= N => d < N + 1
      BY Unsent, NoEventZero, IInvViewed DEF Viewed
    <2>3. QED
      BY <2>1, <2>2 DEF UntilBlank, BeforeBlank
  <1> HIDE DEF type
  <1>6. QED
    BY <1>1, <1>2, <1>3, <1>4, <1>5, CreateCauses

LEMMA RequestCauses ==
    ASSUME IInv, CInv, RequestRide
    PROVE  CInv'
  <1>1. Published = {} /\ Create(Client, First, "data") /\ Client \in Threads
    BY Unsent DEF RequestRide
  <1>2. \A t \in Threads : thread[t].pc # "spinoff"
    BY <1>1, NobodyElse
  <1>3. First \in Types /\ "data" \in Body
    BY FirstType DEF Body
  <1>4. QED
    BY <1>1, <1>2, <1>3, CreateCauses

LEMMA RestartCauses ==
    ASSUME IInv, CInv, Restart
    PROVE  CInv'
  <1>1. /\ UNCHANGED <<event, msgs, early>> /\ "abort" \in faults' /\ faults \subseteq faults'
        /\ \A e \in Events : payload'[e] = "none"
        /\ \A t \in Threads : thread'[t] = thread[t] \/ thread'[t] = Idle
    BY DEF Restart, Fault
  <1>2. Grows
    BY <1>1 DEF Grows
  <1>3. \A t \in Threads : Carries(thread[t])'
    <2>1. ASSUME NEW t \in Threads, thread'[t] = Idle
          PROVE  Carries(thread[t])'
      BY <2>1 DEF Carries, Idle, Holding
    <2>2. QED
      BY <1>1, <1>2, <2>1, CarriesStays DEF CInv, Carried
  <1>4. \A m \in msgs' : Sent(m)'
    BY <1>1, <1>2, SentStays DEF CInv, Carried
  <1>5. Carried'
    BY <1>1, <1>3, <1>4 DEF Carried
  <1>6. GoesOn'
    BY <1>1 DEF GoesOn, Held, FollowedUp
  <1>7. QED
    BY <1>5, <1>6 DEF CInv

LEMMA FaultCauses ==
    ASSUME IInv, CInv,
           \/ \E t \in Threads : RaceLost(t) \/ Abort(t)
           \/ \E m \in msgs : LoseMessage(m)
           \/ \E e \in Events : Expire(e)
           \/ UNCHANGED vars
    PROVE  CInv'
  <1>1. Grows /\ UNCHANGED <<event, payload>> /\ msgs' \subseteq msgs
    BY DEF Grows, RaceLost, Abort, LoseMessage, Expire, Fault, vars
  <1>2. ASSUME NEW t \in Threads, RaceLost(t) \/ Abort(t)
        PROVE  CInv'
    <2>1. /\ thread' = [thread EXCEPT ![t] = Idle]
          /\ thread[t].pc = "lost" \/ "abort" \in faults'
      BY <1>2 DEF RaceLost, Abort, Fault
    <2>2. /\ thread[t].pc \in Holding => "abort" \in faults'
          /\ thread[t].pc = "spinoff" => "abort" \in faults'
      BY <2>1 DEF Holding
    <2>3. QED
      BY <1>1, <2>1, <2>2, IdleCauses
  <1>3. CASE UNCHANGED thread
    BY <1>1, <1>3, NobodyCauses
  <1>4. QED
    BY <1>2, <1>3 DEF LoseMessage, Expire, vars

LEMMA EveryCause == IInv /\ CInv /\ [Next]_vars => CInv'
  <1> SUFFICES ASSUME IInv, CInv, [Next]_vars
               PROVE  CInv'
    OBVIOUS
  <1>1. ASSUME NEW j \in Jobs, JobStep(j)
        PROVE  CInv'
    <2>1. CASE Dispatch(j) \/ DispatchUnread(j)
      <3>1. j \in Threads /\ thread[j].pc = "dispatch"
        BY <2>1, Unsent DEF Dispatch, DispatchUnread, Send
      <3>2. thread[j].ev \in Events
        <4>1. Knows(j, thread[j].ev, "dispatch")
          BY <3>1 DEF IInv, Known
        <4>2. QED
          BY <4>1, Unsent DEF Knows
      <3>3. payload[thread[j].ev] \in Body \cup {"none"} /\ "blank" \in Body
        BY <3>2, Unsent DEF Body
      <3>4. CASE Dispatch(j)
        <4> DEFINE b == IF payload[thread[j].ev] = "none" THEN "blank" ELSE payload[thread[j].ev]
        <4>1. b \in Body /\ (b = "blank" => payload[thread[j].ev] \in {"none", "blank"})
          BY <3>3
        <4>2. Send(j, b) /\ faults \subseteq faults'
          BY <3>4 DEF Dispatch
        <4> HIDE DEF b
        <4>3. QED
          BY <4>1, <4>2, SendCauses
      <3>5. CASE DispatchUnread(j)
        <4>1. Send(j, "blank") /\ faults \subseteq faults' /\ "unread" \in faults'
          BY <3>5 DEF DispatchUnread, Fault
        <4>2. QED
          BY <3>3, <4>1, SendCauses
      <3>6. QED
        BY <2>1, <3>4, <3>5
    <2>2. CASE RaceLost(j)
      BY <2>2, FaultCauses, Unsent
    <2>3. QED
      BY <1>1, <2>1, <2>2, FetchCauses, MarkCauses DEF JobStep
  <1>2. ASSUME NEW a \in Adapters, AdapterStep(a)
        PROVE  CInv'
    <2>1. CASE CallStep(a)
      <3>1. CASE RaceLost(a)
        BY <3>1, FaultCauses, Unsent
      <3>2. QED
        BY <2>1, <3>1, AnswerCauses, WorkCauses, SuccessCauses, FailureCauses, SpinoffCauses
           DEF CallStep
    <2>2. QED
      BY <1>2, <2>1, HandleCauses, AcquireCauses DEF AdapterStep
  <1>3. ASSUME NEW t \in Threads, SavePayload(t) \/ Abort(t)
        PROVE  CInv'
    BY <1>3, SaveCauses, FaultCauses
  <1>4. QED
    BY <1>1, <1>2, <1>3, RequestCauses, FaultCauses, RestartCauses DEF Next

LEMMA CInvInit == Init => CInv
  <1> SUFFICES ASSUME Init
               PROVE  CInv
    OBVIOUS
  <1>1. Published = {}
    BY DEF Init, Published
  <1>2. QED
    BY <1>1 DEF Init, CInv, Carried, GoesOn, Carries, Idle, Holding

LEMMA CInvHolds == Spec => []CInv
  BY CInvInit, EveryCause, IInvHolds, PTL DEF Spec

\* Nothing strands a ride of itself: there was an aborted call, or a dispatch
\* between the row of the event and its payload.
THEOREM RidesStrandForCause == Spec => []StrandedForCause
  <1>1. CInv => StrandedForCause
    <2> SUFFICES ASSUME CInv, NEW e \in Published
                 PROVE  /\ Orphaned(e) => "abort" \in faults \/ e \in early
                        /\ Severed(e) => "abort" \in faults
      BY DEF StrandedForCause
    <2>1. Orphaned(e) => "abort" \in faults \/ e \in early
      BY DEF CInv, GoesOn, Held, Orphaned
    <2>2. Severed(e) => "abort" \in faults
      BY DEF CInv, GoesOn, FollowedUp, Severed, IsLast
    <2>3. QED
      BY <2>1, <2>2
  <1>2. QED
    BY <1>1, CInvHolds, PTL

\* A payload is replaced by {} for two causes only: one that could not be read
\* when its event was dispatched, or an earlier event of the ride that was
\* dispatched when no payload was saved for it, or none any more.
THEOREM RidesBlankForCause == Spec => []BlankForCause
  <1>1. CInv => BlankForCause
    BY DEF CInv, Carried, BeforeBlank, BlankForCause, Published
  <1>2. QED
    BY <1>1, CInvHolds, PTL

-----------------------------------------------------------------------------
(* A ride's events are events of the lifecycle engine.                     *)

\* The attempts a row has taken: those it has failed, and the one it is in or
\* has ended with.
Taken(row) ==
    IF row = Absent THEN 0
    ELSE MaxAttempts[row.type] - row.left
           + (IF row.status \in {"BEING_PROCESSED", "PROCESSED", "FAILED"} THEN 1 ELSE 0)

MStatus   == [e \in Events |-> event[e].status]
MAttempts == [e \in Events |-> Taken(event[e])]
MCause    == [e \in Events |-> [kind |-> IF event[e] = Absent THEN "none"
                                         ELSE IF e = 1 THEN "client" ELSE "spinoff",
                                of   |-> IF event[e] = Absent THEN 0 ELSE e - 1]]

\* No type of the table is given more than three attempts.
Machine == INSTANCE EventStateMachine
    WITH None <- 0, MaxAttempts <- 3,
         status <- MStatus, attempts <- MAttempts, cause <- MCause

\* An event that is not final has an attempt left, and one that is to be retried
\* has another one.
Budgeted ==
    /\ \A e \in Published : event[e].left \in 1 .. MaxAttempts[event[e].type]
    /\ \A t \in Threads : thread[t].pc = "retry" => event[thread[t].ev].left > 1

LEMMA AttemptsBounds == \A ty \in Types : MaxAttempts[ty] \in 1 .. 3
  BY DEF Types, NextStep, MaxAttempts

LEMMA TakenType ==
    ASSUME NEW row \in Row, row.left \in 1 .. MaxAttempts[row.type]
    PROVE  /\ MaxAttempts[row.type] \in 1 .. 3 /\ row.left \in Nat
           /\ Taken(row) = MaxAttempts[row.type] - row.left
                 + (IF row.status \in {"BEING_PROCESSED", "PROCESSED", "FAILED"} THEN 1 ELSE 0)
  <1>1. row # Absent /\ row.type \in Types
    BY AbsentIsNoRow DEF Row
  <1>2. MaxAttempts[row.type] \in 1 .. 3
    BY <1>1, AttemptsBounds
  <1>3. QED
    BY <1>1, <1>2 DEF Taken

\* Goroutine t goes on, and the table is left alone.
LEMMA GoOnBudgeted ==
    ASSUME IInv, Budgeted, UNCHANGED event,
           \A t \in Threads : thread'[t] = thread[t] \/ thread'[t].pc # "retry"
                                \/ event[thread'[t].ev].left > 1
    PROVE  Budgeted' /\ UNCHANGED Machine!svars
  <1>1. Published' = Published
    BY DEF Published
  <1>2. Budgeted'
    BY <1>1 DEF Budgeted
  <1>3. UNCHANGED Machine!svars
    BY DEF Machine!svars, MStatus, MAttempts, MCause, Taken
  <1>4. QED
    BY <1>2, <1>3

\* The row of the last event is updated.
LEMMA UpdateBudgeted ==
    ASSUME IInv, Budgeted, NEW t \in Threads, NEW row, NEW p, Updates(t, row, p),
           row.left \in 1 .. MaxAttempts[row.type]
    PROVE  /\ Budgeted'
           /\ MStatus' = [MStatus EXCEPT ![N] = row.status]
           /\ MAttempts' = [MAttempts EXCEPT ![N] = Taken(row)]
           /\ MCause' = MCause
  <1>1. /\ IInv' /\ event' = [event EXCEPT ![N] = row] /\ Published' = Published
        /\ thread'[t] = IF p = "idle" THEN Idle ELSE [thread[t] EXCEPT !.pc = p]
        /\ \A u \in Threads \ {t} : thread'[u] = thread[u] \/ thread'[u] = Lost
    BY UpdateGoesOn
  <1>2. /\ N \in Published /\ N \in Events /\ event[N] \in Row /\ thread[t] \in Thread
        /\ \A u \in Threads \ {t} : thread[u].ev = N => thread[u].pc \notin Holding
    BY Latest, Unsent DEF Updates
  <1>3. /\ row \in Row /\ event'[N] = row
        /\ \A e \in Events : e # N => event'[e] = event[e]
        /\ event \in [Events -> Row \cup {Absent}]
    BY <1>1, <1>2 DEF IInv, TypesOK, Updates
  <1>4. row # Absent /\ event[N] # Absent
    BY <1>2, <1>3, AbsentIsNoRow
  <1>5. Budgeted'
    <2>1. \A e \in Published' : event'[e].left \in 1 .. MaxAttempts[event'[e].type]
      BY <1>1, <1>3 DEF Budgeted, Published
    <2>2. thread'[t].pc # "retry"
      BY <1>1, <1>2 DEF Updates, Idle, Thread
    <2>3. ASSUME NEW u \in Threads, u # t, thread'[u].pc = "retry"
          PROVE  event'[thread'[u].ev].left > 1
      <3>1. thread'[u] = thread[u] /\ thread[u].pc \in Holding
        BY <1>1, <2>3 DEF Lost, Idle, Holding
      <3>2. thread[u].ev # N /\ thread[u].ev \in Published
        BY <1>2, <2>3, <3>1 DEF IInv, Known, Knows, Holding
      <3>3. event'[thread[u].ev] = event[thread[u].ev]
        BY <1>3, <3>2 DEF Published
      <3>4. QED
        BY <2>3, <3>1, <3>3 DEF Budgeted
    <2>4. QED
      BY <2>1, <2>2, <2>3 DEF Budgeted
  <1>6. MStatus' = [MStatus EXCEPT ![N] = row.status]
    <2>1. \A e \in Events : event'[e].status = IF e = N THEN row.status ELSE event[e].status
      BY <1>3
    <2>2. QED
      BY <2>1 DEF MStatus
  <1>7. MAttempts' = [MAttempts EXCEPT ![N] = Taken(row)]
    <2>1. \A e \in Events : Taken(event'[e]) = IF e = N THEN Taken(row) ELSE Taken(event[e])
      BY <1>3
    <2> DEFINE tk(r) == Taken(r)
    <2>2. MAttempts' = [e \in Events |-> tk(event'[e])]
      BY DEF MAttempts, Taken
    <2>3. MAttempts = [e \in Events |-> tk(event[e])]
      BY DEF MAttempts
    <2> HIDE DEF tk
    <2>4. \A e \in Events : tk(event'[e]) = IF e = N THEN tk(row) ELSE tk(event[e])
      BY <2>1 DEF tk
    <2>5. MAttempts' = [MAttempts EXCEPT ![N] = tk(row)]
      BY <2>2, <2>3, <2>4
    <2>6. QED
      BY <2>5 DEF tk
  <1>8. MCause' = MCause
    <2>1. \A e \in Events : event'[e] = Absent <=> event[e] = Absent
      BY <1>3, <1>4
    <2>2. QED
      BY <2>1 DEF MCause
  <1>9. QED
    BY <1>5, <1>6, <1>7, <1>8

MachineStep == Budgeted' /\ [Machine!Next]_(Machine!svars)

LEMMA MarkMachine ==
    ASSUME IInv, Budgeted, NEW j \in Jobs, MarkAsDispatched(j)
    PROVE  MachineStep
  <1> DEFINE row == [event[N] EXCEPT !.status = "DISPATCHED"]
  <1>1. j \in Threads /\ thread[j].pc = "mark"
    BY Unsent DEF MarkAsDispatched
  <1>2. thread[j].ev = N /\ event[N] \in Row /\ N \in Events /\ N \in Published
    BY <1>1, Latest
  <1>3. event[N].status \in {"AWAITING_PROCESSING", "DISPATCHED"}
    BY <1>1, <1>2 DEF IInv, Known, Knows
  <1>4. row \in Row /\ row.status = "DISPATCHED" /\ row.type = event[N].type /\ row.left = event[N].left
    BY <1>2 DEF Row, Statuses
  <1>5. Update(j, row, "dispatch") /\ UNCHANGED <<payload, msgs, expired, faults, early>>
    BY <1>2 DEF MarkAsDispatched
  <1> HIDE DEF row
  <1>6. Updates(j, row, "dispatch")
    BY <1>1, <1>4, <1>5 DEF Updates
  <1>7. event[N].left \in 1 .. MaxAttempts[event[N].type]
    BY <1>2 DEF Budgeted
  <1>8. /\ Budgeted'
        /\ MStatus' = [MStatus EXCEPT ![N] = "DISPATCHED"]
        /\ MAttempts' = [MAttempts EXCEPT ![N] = Taken(row)] /\ MCause' = MCause
    BY <1>1, <1>4, <1>6, <1>7, UpdateBudgeted
  <1>9. Taken(row) = Taken(event[N])
    BY <1>2, <1>3, <1>4, <1>7, TakenType
  <1>10. MAttempts' = MAttempts
    BY <1>8, <1>9 DEF MAttempts
  <1>11. PICK n \in Events : n = N
    BY <1>2
  <1>12. Machine!Dispatch(n)
    BY <1>2, <1>11, <1>3, <1>8, <1>10 DEF Machine!Dispatch, Machine!Move, MStatus, MAttempts, MCause
  <1>13. QED
    BY <1>8, <1>12 DEF MachineStep, Machine!Next

LEMMA AcquireMachine ==
    ASSUME IInv, Budgeted, NEW a \in Adapters, AcquireProcessingPermit(a)
    PROVE  MachineStep
  <1> DEFINE row == [event[N] EXCEPT !.status = "BEING_PROCESSED"]
  <1>1. a \in Threads /\ thread[a].pc = "permit"
    BY Unsent DEF AcquireProcessingPermit
  <1>2. thread[a].ev = N /\ event[N] \in Row /\ N \in Events /\ N \in Published
    BY <1>1, Latest
  <1>3. event[N].status = "DISPATCHED"
    BY <1>1, <1>2 DEF IInv, Known, Knows
  <1>4. row \in Row /\ row.status = "BEING_PROCESSED" /\ row.type = event[N].type /\ row.left = event[N].left
    BY <1>2 DEF Row, Statuses
  <1>5. Update(a, row, "granted") /\ UNCHANGED <<payload, msgs, expired, faults, early>>
    BY <1>2 DEF AcquireProcessingPermit
  <1> HIDE DEF row
  <1>6. Updates(a, row, "granted")
    BY <1>1, <1>4, <1>5 DEF Updates
  <1>7. event[N].left \in 1 .. MaxAttempts[event[N].type]
    BY <1>2 DEF Budgeted
  <1>8. /\ Budgeted'
        /\ MStatus' = [MStatus EXCEPT ![N] = "BEING_PROCESSED"]
        /\ MAttempts' = [MAttempts EXCEPT ![N] = Taken(row)] /\ MCause' = MCause
    BY <1>1, <1>4, <1>6, <1>7, UpdateBudgeted
  <1>9. Taken(row) = Taken(event[N]) + 1 /\ Taken(event[N]) < 3
    BY <1>2, <1>3, <1>4, <1>7, TakenType
  <1>10. MAttempts[N] < 3 /\ MAttempts' = [MAttempts EXCEPT ![N] = @ + 1]
    BY <1>2, <1>8, <1>9 DEF MAttempts
  <1>11. PICK n \in Events : n = N
    BY <1>2
  <1>12. Machine!Begin(n)
    BY <1>2, <1>11, <1>3, <1>8, <1>10 DEF Machine!Begin, Machine!Move, MStatus, MAttempts, MCause
  <1>13. QED
    BY <1>8, <1>12 DEF MachineStep, Machine!Next

\* A report that ends the event.
LEMMA EndMachine ==
    ASSUME IInv, Budgeted, NEW a \in Threads, thread[a].pc \in Holding, NEW row, NEW p, Updates(a, row, p),
           row.status \in {"PROCESSED", "FAILED"}, row.type = event[N].type, row.left = event[N].left
    PROVE  MachineStep
  <1>1. thread[a].ev = N /\ event[N] \in Row /\ N \in Events /\ N \in Published /\ row \in Row
    BY Latest DEF Updates
  <1>2. event[N].status = "BEING_PROCESSED"
    BY <1>1 DEF IInv, Known, Knows
  <1>3. event[N].left \in 1 .. MaxAttempts[event[N].type]
    BY <1>1 DEF Budgeted
  <1>4. /\ Budgeted'
        /\ MStatus' = [MStatus EXCEPT ![N] = row.status]
        /\ MAttempts' = [MAttempts EXCEPT ![N] = Taken(row)] /\ MCause' = MCause
    BY <1>3, UpdateBudgeted
  <1>5. Taken(row) = Taken(event[N])
    BY <1>1, <1>2, <1>3, TakenType
  <1>6. MAttempts' = MAttempts
    BY <1>4, <1>5 DEF MAttempts
  <1>7. PICK n \in Events : n = N
    BY <1>1
  <1>8. Machine!End(n)
    BY <1>1, <1>7, <1>2, <1>4, <1>6 DEF Machine!End, Machine!Move, MStatus, MAttempts, MCause
  <1>9. QED
    BY <1>4, <1>8 DEF MachineStep, Machine!Next

LEMMA SuccessMachine ==
    ASSUME IInv, Budgeted, NEW a \in Adapters, ReportSuccess(a)
    PROVE  MachineStep
  <1> DEFINE row == [event[N] EXCEPT !.status = "PROCESSED"]
             p   == IF NextStep[event[N].type] = "" THEN "idle" ELSE "spinoff"
  <1>1. a \in Threads /\ thread[a].pc = "succeed" /\ thread[a].pc \in Holding
    BY Unsent DEF ReportSuccess, Holding
  <1>2. thread[a].ev = N /\ event[N] \in Row
    BY <1>1, Latest
  <1>3. row \in Row /\ row.status = "PROCESSED" /\ row.type = event[N].type /\ row.left = event[N].left
    BY <1>2 DEF Row, Statuses
  <1>4. Update(a, row, p) /\ msgs' \subseteq msgs /\ UNCHANGED <<payload, early>>
    BY <1>2 DEF ReportSuccess, Without
  <1>5. p \in {"idle", "spinoff"} /\ (p = "spinoff" => ~IsLast(event[N].type))
    BY DEF IsLast
  <1> HIDE DEF row, p
  <1>6. Updates(a, row, p)
    BY <1>1, <1>3, <1>4, <1>5 DEF Updates
  <1>7. QED
    BY <1>1, <1>3, <1>6, EndMachine

LEMMA FailureMachine ==
    ASSUME IInv, Budgeted, NEW a \in Adapters, ReportFailure(a)
    PROVE  MachineStep
  <1>1. a \in Threads /\ thread[a].pc \in {"retry", "fail"} /\ thread[a].pc \in Holding
    BY Unsent DEF ReportFailure, Holding
  <1>2. thread[a].ev = N /\ event[N] \in Row /\ N \in Events /\ N \in Published
    BY <1>1, Latest
  <1>3. event[N].status = "BEING_PROCESSED"
    BY <1>1, <1>2 DEF IInv, Known, Knows
  <1>4. CASE thread[a].pc = "retry"
    <2> DEFINE row == [event[N] EXCEPT !.status = "AWAITING_PROCESSING", !.left = @ - 1]
               old == [event[N] EXCEPT !.status = "AWAITING_PROCESSING"]
               k   == event[N].left - 1
    <2>1. event[N].left \in 1 .. MaxAttempts[event[N].type] /\ event[N].left > 1
      <3>1. event[N].left \in 1 .. MaxAttempts[event[N].type]
        BY <1>2 DEF Budgeted
      <3>2. event[N].left > 1
        BY <1>1, <1>2, <1>4 DEF Budgeted
      <3>3. QED
        BY <3>1, <3>2
    <2>2. MaxAttempts[event[N].type] \in 1 .. 3
      BY <1>2, <2>1, TakenType
    <2>3. k \in Int /\ k \in 1 .. MaxAttempts[event[N].type]
      BY <2>1, <2>2
    <2>4. Update(a, row, "idle") /\ UNCHANGED <<payload, msgs, early>>
      BY <1>2, <1>4 DEF ReportFailure
    <2>5. old \in Row /\ old.status = "AWAITING_PROCESSING" /\ old.type = event[N].type
      BY <1>2 DEF Row, Statuses
    <2>6. row = [old EXCEPT !.left = k]
      BY <1>2 DEF Row
    <2> HIDE DEF old, k
    <2>7. row \in Row /\ row.status = "AWAITING_PROCESSING" /\ row.type = event[N].type /\ row.left = k
      BY <2>3, <2>5, <2>6 DEF Row
    <2> HIDE DEF row
    <2>8. Updates(a, row, "idle")
      BY <1>1, <2>4, <2>7 DEF Updates
    <2>9. /\ Budgeted'
          /\ MStatus' = [MStatus EXCEPT ![N] = "AWAITING_PROCESSING"]
          /\ MAttempts' = [MAttempts EXCEPT ![N] = Taken(row)] /\ MCause' = MCause
      BY <1>1, <2>3, <2>7, <2>8, UpdateBudgeted
    <2>10. Taken(row) = Taken(event[N]) /\ Taken(event[N]) < 3
      <3>1. Taken(event[N]) = MaxAttempts[event[N].type] - event[N].left + 1
        BY <1>2, <1>3, <2>1, TakenType
      <3>2. Taken(row) = MaxAttempts[event[N].type] - k + 0
        BY <2>3, <2>7, TakenType
      <3>3. event[N].left \in Int
        BY <1>2 DEF Row
      <3>4. QED
        BY <2>1, <2>2, <3>1, <3>2, <3>3 DEF k
    <2>11. MAttempts' = MAttempts /\ MAttempts[N] < 3
      BY <1>2, <2>9, <2>10 DEF MAttempts
    <2>12. PICK n \in Events : n = N
      BY <1>2
    <2>13. Machine!Retry(n)
      BY <1>2, <2>12, <1>3, <2>9, <2>11 DEF Machine!Retry, Machine!Move, MStatus, MAttempts, MCause
    <2>14. QED
      BY <2>9, <2>13 DEF MachineStep, Machine!Next
  <1>5. CASE thread[a].pc = "fail"
    <2> DEFINE row == [event[N] EXCEPT !.status = "FAILED"]
    <2>1. row \in Row /\ row.status = "FAILED" /\ row.type = event[N].type /\ row.left = event[N].left
      BY <1>2 DEF Row, Statuses
    <2>2. Update(a, row, "idle") /\ msgs' \subseteq msgs /\ UNCHANGED <<payload, early>>
      BY <1>2, <1>5 DEF ReportFailure, Without
    <2> HIDE DEF row
    <2>3. Updates(a, row, "idle")
      BY <1>1, <2>1, <2>2 DEF Updates
    <2>4. QED
      BY <1>1, <2>1, <2>3, EndMachine
  <1>6. QED
    BY <1>1, <1>4, <1>5

\* A new row: an event nobody has published, the follow-up of none but the last.
LEMMA CreateMachine ==
    ASSUME IInv, Budgeted, NEW t \in Threads, NEW type \in Types, NEW b \in Body, Create(t, type, b),
           \A u \in Threads \ {t} : thread[u].pc # "spinoff",
           \A e \in Published : event[e].status = "PROCESSED"
    PROVE  /\ Budgeted' /\ N \in Nat /\ N + 1 \in Events /\ Published = 1 .. N
           /\ MStatus[N + 1] = "ABSENT"
           /\ MStatus' = [MStatus EXCEPT ![N + 1] = "AWAITING_PROCESSING"]
           /\ MAttempts' = MAttempts
           /\ MCause' = [MCause EXCEPT ![N + 1] =
                            [kind |-> IF N = 0 THEN "client" ELSE "spinoff", of |-> N]]
  <1> DEFINE row == [type |-> type, left |-> MaxAttempts[type], status |-> "AWAITING_PROCESSING"]
             to  == [pc |-> "save", ev |-> N + 1, body |-> b]
  <1>1. N \in Nat /\ Published = 1 .. N
    BY IInvViewed DEF Viewed
  <1>2. /\ N + 1 \in Events
        /\ event' = [event EXCEPT ![N + 1] = row]
        /\ thread' = [thread EXCEPT ![t] = to]
    BY DEF Create, N
  <1>3. row \in Row /\ row.type = type /\ row.left = MaxAttempts[type] /\ row.status = "AWAITING_PROCESSING"
    BY AttemptsType DEF Row, Statuses
  <1>4. N + 1 \notin Published /\ event[N + 1] = Absent
    BY <1>1, <1>2 DEF Published
  <1>5. MaxAttempts[type] \in 1 .. 3
    BY AttemptsBounds
  <1>6. Taken(row) = 0 /\ Taken(Absent) = 0
    BY <1>3, <1>5, TakenType DEF Taken
  <1>7. to.pc = "save"
    OBVIOUS
  <1> HIDE DEF row, to
  <1>8. /\ event'[N + 1] = row
        /\ \A e \in Events : e # N + 1 => event'[e] = event[e]
    BY <1>2 DEF IInv, TypesOK
  <1>9. row # Absent
    BY <1>3, AbsentIsNoRow
  <1>10. Budgeted'
    <2>1. \A e \in Published' : event'[e].left \in 1 .. MaxAttempts[event'[e].type]
      BY <1>3, <1>5, <1>8 DEF Budgeted, Published
    <2>2. \A u \in Threads : thread'[u] = IF u = t THEN to ELSE thread[u]
      BY <1>2, Unsent
    <2>3. ASSUME NEW u \in Threads, thread'[u].pc = "retry"
          PROVE  event'[thread'[u].ev].left > 1
      <3>1. thread'[u] = thread[u]
        BY <1>7, <2>2, <2>3
      <3>2. thread[u].ev \in Published
        BY <2>3, <3>1 DEF IInv, Known, Knows
      <3>3. event'[thread[u].ev] = event[thread[u].ev]
        BY <1>4, <1>8, <3>2 DEF Published
      <3>4. QED
        BY <2>3, <3>1, <3>3 DEF Budgeted
    <2>4. QED
      BY <2>1, <2>3 DEF Budgeted
  <1>11. MStatus[N + 1] = "ABSENT" /\ MStatus' = [MStatus EXCEPT ![N + 1] = "AWAITING_PROCESSING"]
    <2>1. MStatus[N + 1] = "ABSENT"
      <3>1. Absent.status = "ABSENT"
        BY DEF Absent
      <3>2. event[N + 1].status = "ABSENT"
        BY <1>4, <3>1
      <3>3. QED
        BY <1>2, <3>2 DEF MStatus
    <2>2. \A e \in Events : event'[e].status = IF e = N + 1 THEN row.status ELSE event[e].status
      BY <1>8
    <2>3. MStatus' = [MStatus EXCEPT ![N + 1] = row.status]
      BY <2>2 DEF MStatus
    <2>4. QED
      BY <1>3, <2>1, <2>3
  <1>12. MAttempts' = MAttempts
    <2> DEFINE tk(r) == Taken(r)
    <2>1. MAttempts' = [e \in Events |-> tk(event'[e])] /\ MAttempts = [e \in Events |-> tk(event[e])]
      BY DEF MAttempts, Taken
    <2>2. tk(row) = 0 /\ tk(Absent) = 0
      BY <1>6
    <2> HIDE DEF tk
    <2>3. \A e \in Events : tk(event'[e]) = tk(event[e])
      BY <1>4, <1>8, <2>2
    <2>4. QED
      BY <2>1, <2>3
  <1>13. MCause' = [MCause EXCEPT ![N + 1] = [kind |-> IF N = 0 THEN "client" ELSE "spinoff", of |-> N]]
    <2>1. N + 1 = 1 <=> N = 0
      BY <1>1
    <2>2. (N + 1) - 1 = N
      BY <1>1
    <2>3. \A e \in Events : e # N + 1 => (event'[e] = Absent <=> event[e] = Absent)
      BY <1>8
    <2>4. QED
      BY <1>2, <1>8, <1>9, <2>1, <2>2, <2>3 DEF MCause
  <1>14. QED
    BY <1>1, <1>2, <1>10, <1>11, <1>12, <1>13

LEMMA RequestMachine ==
    ASSUME IInv, Budgeted, RequestRide
    PROVE  MachineStep
  <1>1. Published = {} /\ Create(Client, First, "data") /\ Client \in Threads
    BY Unsent DEF RequestRide
  <1>2. \A t \in Threads : thread[t].pc # "spinoff"
    BY <1>1, NobodyElse
  <1>3. First \in Types /\ "data" \in Body
    BY FirstType DEF Body
  <1>4. N = 0
    BY <1>1, FS_EmptySet DEF N
  <1>5. /\ Budgeted' /\ N + 1 \in Events /\ MStatus[N + 1] = "ABSENT"
        /\ MStatus' = [MStatus EXCEPT ![N + 1] = "AWAITING_PROCESSING"]
        /\ MAttempts' = MAttempts
        /\ MCause' = [MCause EXCEPT ![N + 1] = [kind |-> "client", of |-> 0]]
    BY <1>1, <1>2, <1>3, <1>4, CreateMachine
  <1>6. PICK n \in Events : n = N + 1
    BY <1>5
  <1>7. Machine!Initiate(n, Machine!FromClient)
    BY <1>5, <1>6 DEF Machine!Initiate, Machine!Move, Machine!FromClient, MStatus, MAttempts, MCause
  <1>8. QED
    BY <1>5, <1>7 DEF MachineStep, Machine!Next

LEMMA SpinoffMachine ==
    ASSUME IInv, Budgeted, NEW a \in Adapters, PublishSpinoff(a)
    PROVE  MachineStep
  <1> DEFINE type == NextStep[event[N].type]
  <1>1. /\ a \in Threads /\ thread[a].pc = "spinoff" /\ thread[a] \in Thread
    BY Unsent DEF PublishSpinoff
  <1>2. /\ thread[a].ev = N /\ N \in Published /\ event[N].status = "PROCESSED"
        /\ ~IsLast(event[N].type) /\ event[N] \in Row
        /\ \A u \in Threads \ {a} : thread[u].pc # "spinoff"
        /\ \A e \in Published : event[e].status = "PROCESSED"
    BY <1>1, NobodyElse
  <1>3. type \in Types /\ thread[a].body \in Body
    BY <1>1, <1>2, FirstType DEF Row, Thread
  <1>4. Create(a, type, thread[a].body)
    BY <1>2 DEF PublishSpinoff
  <1>5. N \in Events /\ N # 0
    BY <1>2, NoEventZero DEF Published
  <1> HIDE DEF type
  <1>6. /\ Budgeted' /\ N \in Nat /\ N + 1 \in Events /\ Published = 1 .. N
        /\ MStatus[N + 1] = "ABSENT"
        /\ MStatus' = [MStatus EXCEPT ![N + 1] = "AWAITING_PROCESSING"]
        /\ MAttempts' = MAttempts
        /\ MCause' = [MCause EXCEPT ![N + 1] = [kind |-> "spinoff", of |-> N]]
    BY <1>1, <1>2, <1>3, <1>4, <1>5, CreateMachine
  <1>7. \A d \in Events : MCause[d].of # N
    <2> SUFFICES ASSUME NEW d \in Events
                 PROVE  MCause[d].of # N
      OBVIOUS
    <2>1. CASE event[d] = Absent
      BY <1>5, <2>1 DEF MCause
    <2>2. CASE event[d] # Absent
      <3>1. d \in 1 .. N
        BY <1>6, <2>2 DEF Published
      <3>2. MCause[d].of = d - 1 /\ d - 1 # N
        BY <1>6, <2>2, <3>1 DEF MCause
      <3>3. QED
        BY <3>2
    <2>3. QED
      BY <2>1, <2>2
  <1>8. PICK n \in Events, m \in Events : n = N + 1 /\ m = N
    BY <1>5, <1>6
  <1>9. Machine!Initiate(n, Machine!SpinoffOf(m))
    BY <1>6, <1>8 DEF Machine!Initiate, Machine!Move, Machine!SpinoffOf, MStatus, MAttempts, MCause
  <1>10. Machine!Follow(n, m, "PROCESSED", Machine!SpinoffOf(m))
    BY <1>2, <1>5, <1>7, <1>8, <1>9 DEF Machine!Follow, MStatus, MCause
  <1>11. QED
    BY <1>6, <1>10 DEF MachineStep, Machine!Next

\* Goroutine t goes on, or nobody, and the table is left alone.
LEMMA QuietMachine ==
    ASSUME IInv, Budgeted, UNCHANGED event, NEW t \in Threads, NEW to,
           thread' = [thread EXCEPT ![t] = to] \/ UNCHANGED thread,
           to.pc = "retry" => event[to.ev].left > 1
    PROVE  MachineStep
  <1>1. \A u \in Threads : thread'[u] = thread[u] \/ thread'[u] = to
    BY Unsent
  <1>2. QED
    BY <1>1, GoOnBudgeted DEF MachineStep

LEMMA IdleMachine ==
    ASSUME IInv, Budgeted, UNCHANGED event,
           (\E t \in Threads : thread' = [thread EXCEPT ![t] = Idle]) \/ UNCHANGED thread
    PROVE  MachineStep
  <1>1. Idle.pc # "retry" /\ Client \in Threads
    BY Unsent DEF Idle
  <1>2. QED
    BY <1>1, QuietMachine

LEMMA RestartMachine ==
    ASSUME IInv, Budgeted, Restart
    PROVE  MachineStep
  <1>1. UNCHANGED event /\ \A t \in Threads : thread'[t] = thread[t] \/ thread'[t] = Idle
    BY DEF Restart
  <1>2. QED
    BY <1>1, GoOnBudgeted DEF MachineStep, Idle

LEMMA FetchMachine ==
    ASSUME IInv, Budgeted, NEW j \in Jobs, NEW e \in Events, Fetch(j, e)
    PROVE  MachineStep
  <1> DEFINE to == [pc |-> "mark", ev |-> e, body |-> "data"]
  <1>1. thread' = [thread EXCEPT ![j] = to] /\ UNCHANGED event /\ j \in Threads
    BY Unsent DEF Fetch, Load
  <1>2. to.pc = "mark"
    OBVIOUS
  <1> HIDE DEF to
  <1>3. QED
    BY <1>1, <1>2, QuietMachine

LEMMA HandleMachine ==
    ASSUME IInv, Budgeted, NEW a \in Adapters, NEW m \in msgs, HandleMessage(a, m)
    PROVE  MachineStep
  <1> DEFINE to == [pc |-> "permit", ev |-> m.ev, body |-> m.body]
  <1>1. /\ thread' = [thread EXCEPT ![a] = to] \/ UNCHANGED thread
        /\ UNCHANGED event /\ a \in Threads
    BY Unsent DEF HandleMessage, Load
  <1>2. to.pc = "permit"
    OBVIOUS
  <1> HIDE DEF to
  <1>3. QED
    BY <1>1, <1>2, QuietMachine

LEMMA AnswerMachine ==
    ASSUME IInv, Budgeted, NEW a \in Adapters, AnswerPermit(a)
    PROVE  MachineStep
  <1> DEFINE to == IF payload[thread[a].ev] = "none" THEN Idle ELSE [thread[a] EXCEPT !.pc = "working"]
  <1>1. thread' = [thread EXCEPT ![a] = to] /\ UNCHANGED event /\ a \in Threads
    BY Unsent DEF AnswerPermit
  <1>2. thread[a] \in Thread
    BY <1>1, Unsent
  <1>3. to.pc \in {"idle", "working"}
    BY <1>2 DEF Idle, Thread
  <1> HIDE DEF to
  <1>4. QED
    BY <1>1, <1>3, QuietMachine

\* The handler of the report has looked at the attempts left.
LEMMA WorkMachine ==
    ASSUME IInv, Budgeted, NEW a \in Adapters, Work(a)
    PROVE  MachineStep
  <1>1. PICK p \in {"succeed", "retry", "fail"} :
          /\ Load(a, thread[a].ev, p, thread[a].body)
          /\ p = "retry" => event[thread[a].ev].left > 1
    BY DEF Work
  <1> DEFINE to == [pc |-> p, ev |-> thread[a].ev, body |-> thread[a].body]
  <1>2. thread' = [thread EXCEPT ![a] = to] /\ UNCHANGED event /\ a \in Threads
    BY <1>1, Unsent DEF Work, Load
  <1>3. to.pc = p /\ to.ev = thread[a].ev
    OBVIOUS
  <1> HIDE DEF to
  <1>4. QED
    BY <1>1, <1>2, <1>3, QuietMachine

LEMMA EveryMachineStep == IInv /\ Budgeted /\ [Next]_vars => MachineStep
  <1> SUFFICES ASSUME IInv, Budgeted, [Next]_vars
               PROVE  MachineStep
    OBVIOUS
  <1>1. ASSUME NEW t \in Threads, RaceLost(t) \/ SavePayload(t) \/ Abort(t)
        PROVE  MachineStep
    BY <1>1, IdleMachine DEF RaceLost, SavePayload, Abort
  <1>2. ASSUME NEW j \in Jobs, JobStep(j)
        PROVE  MachineStep
    <2>1. CASE Dispatch(j) \/ DispatchUnread(j)
      BY <2>1, Unsent, IdleMachine DEF Dispatch, DispatchUnread, Send
    <2>2. CASE RaceLost(j)
      BY <1>1, <2>2, Unsent
    <2>3. QED
      BY <1>2, <2>1, <2>2, FetchMachine, MarkMachine DEF JobStep
  <1>3. ASSUME NEW a \in Adapters, AdapterStep(a)
        PROVE  MachineStep
    <2>1. CASE CallStep(a)
      <3>1. CASE RaceLost(a)
        BY <1>1, <3>1, Unsent
      <3>2. QED
        BY <2>1, <3>1, AnswerMachine, WorkMachine, SuccessMachine, FailureMachine, SpinoffMachine
           DEF CallStep
    <2>2. QED
      BY <1>3, <2>1, HandleMachine, AcquireMachine DEF AdapterStep
  <1>4. CASE UNCHANGED <<event, thread>>
    BY <1>4, IdleMachine
  <1>5. CASE (\E m \in msgs : LoseMessage(m)) \/ (\E e \in Events : Expire(e)) \/ UNCHANGED vars
    BY <1>4, <1>5 DEF LoseMessage, Expire, vars
  <1>6. QED
    BY <1>1, <1>2, <1>3, <1>5, RequestMachine, RestartMachine DEF Next

LEMMA InitialMachine == Init => Budgeted /\ Machine!Init
  <1> SUFFICES ASSUME Init
               PROVE  Budgeted /\ Machine!Init
    OBVIOUS
  <1>1. Published = {}
    BY DEF Init, Published
  <1>2. Budgeted
    BY <1>1 DEF Budgeted, Init, Idle
  <1>3. Machine!Init
    BY DEF Init, Machine!Init, Machine!NoCause, MStatus, MAttempts, MCause, Taken, Absent
  <1>4. QED
    BY <1>2, <1>3

\* Every event that is not final has an attempt left, and never more than its
\* type is given; one about to be retried has another.
THEOREM RidesKeepTheirBudget == Spec => []Budgeted
  BY InitialMachine, EveryMachineStep, IInvHolds, PTL DEF Spec, MachineStep

\* The events of a ride are events of the lifecycle engine as EventStateMachine
\* has them, and so are those of EventLifecycle: the two models, each with what
\* it leaves out of the code, agree on what an event may do.
THEOREM RidesImplementStateMachine == Spec => Machine!Spec
  BY InitialMachine, EveryMachineStep, IInvHolds, RidesKeepTheirBudget, PTL
     DEF Spec, Machine!Spec, MachineStep
=============================================================================
