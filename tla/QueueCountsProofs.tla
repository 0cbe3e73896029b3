-------------------------- MODULE QueueCountsProofs --------------------------
(***************************************************************************)
(* Proof that the counts overlook no event that moves on while they are    *)
(* taken, for any number of events, flows and requests.                    *)
(***************************************************************************)
EXTENDS QueueCounts, SequenceTheorems, FunctionTheorems, FiniteSetTheorems, TLAPS

Total    == Len(Queries(Statuses))
Asked(k) == Queries(Statuses)[k]

\* Query k, or a later one, still has to count e.
Ahead(e, k) ==
    \E n \in k .. Total : Asked(n).flow = FlowOf[e] /\ Asked(n).status = status[e]

Found(r, e) == \E f \in scan[r].found : f[1] = e

Scan == [next: Nat, excused: SUBSET Events,
         found: SUBSET (Events \X {Asked(k) : k \in 1 .. Total})]

TypesOK ==
    /\ status \in [Events -> StatusSet \cup {"ABSENT"}]
    /\ scan \in [Requests -> Scan]

NoneLost ==
    \A r \in Requests : scan[r].next > 0 =>
        \A e \in Events \ scan[r].excused : Found(r, e) \/ Ahead(e, scan[r].next)

CountInv == TypesOK /\ NoneLost

-----------------------------------------------------------------------------
(* The order of the queries.                                               *)

LEMMA FiveStatuses ==
    /\ Len(Statuses) = 5
    /\ Statuses[1] = "AWAITING_PROCESSING" /\ Statuses[2] = "DISPATCHED"
    /\ Statuses[3] = "BEING_PROCESSED" /\ Statuses[4] = "PROCESSED" /\ Statuses[5] = "FAILED"
  BY DEF Statuses

LEMMA FlowsType == Len(Flows) \in Nat /\ DOMAIN Flows = 1 .. Len(Flows)
  BY QueueCountsOK

LEMMA QueryAt ==
    /\ Total \in Nat /\ Total = Len(Flows) * 5
    /\ \A k \in 1 .. Total :
          /\ Asked(k).flow = Flows[((k - 1) \div 5) + 1]
          /\ Asked(k).status = Statuses[((k - 1) % 5) + 1]
  <1> DEFINE total == Len(Flows) * 5
             query(k) == [flow |-> Flows[((k - 1) \div 5) + 1], status |-> Statuses[((k - 1) % 5) + 1]]
             list == [k \in 1 .. total |-> query(k)]
  <1>1. Queries(Statuses) = list
    BY FiveStatuses DEF Queries
  <1>2. total \in Nat
    BY FlowsType
  <1> HIDE DEF total
  <1>3. list \in Seq({query(k) : k \in 1 .. total}) /\ Len(list) = total
    <2>1. list \in [1 .. total -> {query(k) : k \in 1 .. total}]
      OBVIOUS
    <2> HIDE DEF list, query
    <2>2. list \in Seq({query(k) : k \in 1 .. total})
      BY <1>2, <2>1, SeqDef
    <2>3. QED
      BY <1>2, <2>1, <2>2
  <1>4. Total = total /\ \A k \in 1 .. Total : Asked(k) = query(k)
    BY <1>1, <1>3 DEF Total, Asked
  <1>5. QED
    BY <1>2, <1>4 DEF total

LEMMA Places ==
    ASSUME NEW n \in Nat, NEW k \in 1 .. n * 5
    PROVE  /\ (k - 1) \div 5 \in 0 .. n - 1 /\ (k - 1) % 5 \in 0 .. 4
           /\ k = ((k - 1) \div 5) * 5 + ((k - 1) % 5) + 1
  OBVIOUS

LEMMA PlaceOf ==
    ASSUME NEW n \in Nat, NEW i \in Nat, i < n, NEW j \in 1 .. 5
    PROVE  /\ i * 5 + j \in 1 .. n * 5
           /\ ((i * 5 + j) - 1) \div 5 = i /\ (((i * 5 + j) - 1) % 5) + 1 = j
  OBVIOUS

\* In a flow each status is asked for, and after those it comes from.
LEMMA AskedFor ==
    ASSUME NEW i \in 1 .. Len(Flows), NEW j \in 1 .. 5
    PROVE  \E k \in 1 .. Total : Asked(k).flow = Flows[i] /\ Asked(k).status = Statuses[j]
  <1> DEFINE k == (i - 1) * 5 + j
  <1>1. /\ k \in 1 .. Len(Flows) * 5
        /\ ((k - 1) \div 5) + 1 = i /\ ((k - 1) % 5) + 1 = j
    BY FlowsType
  <1>2. QED
    BY <1>1, QueryAt

LEMMA AskedLater ==
    ASSUME NEW k \in 1 .. Total, NEW j \in 1 .. 5, ((k - 1) % 5) + 1 <= j
    PROVE  \E n \in k .. Total : Asked(n).flow = Asked(k).flow /\ Asked(n).status = Statuses[j]
  <1> DEFINE i == (k - 1) \div 5
             n == i * 5 + j
  <1>1. /\ i \in Nat /\ i < Len(Flows) /\ k = i * 5 + ((k - 1) % 5) + 1
        /\ (k - 1) % 5 \in 0 .. 4
    <2> DEFINE flows == Len(Flows)
    <2>1. flows \in Nat /\ k \in 1 .. flows * 5
      BY FlowsType, QueryAt
    <2> HIDE DEF flows
    <2>2. i \in 0 .. flows - 1
      BY <2>1, Places
    <2>3. (k - 1) % 5 \in 0 .. 4 /\ k = i * 5 + ((k - 1) % 5) + 1
      BY <2>1, Places
    <2> HIDE DEF i
    <2>4. i \in Nat /\ i < flows
      BY <2>1, <2>2
    <2>5. QED
      BY <2>3, <2>4 DEF flows
  <1>2. n \in 1 .. Total /\ (n - 1) \div 5 = i /\ ((n - 1) % 5) + 1 = j
    BY <1>1, FlowsType, QueryAt, PlaceOf
  <1>6. n \in k .. Total
    BY <1>1, <1>2, QueryAt
  <1>3. Asked(n).flow = Flows[((n - 1) \div 5) + 1] /\ Asked(n).status = Statuses[((n - 1) % 5) + 1]
    BY <1>2, QueryAt
  <1>4. Asked(k).flow = Flows[i + 1]
    BY QueryAt
  <1>5. QED
    BY <1>2, <1>3, <1>4, <1>6

\* The statuses an event moves on to.
MovesOn(from, to) ==
    \/ from \in {"AWAITING_PROCESSING", "DISPATCHED"} /\ to = "DISPATCHED"
    \/ from = "DISPATCHED" /\ to = "BEING_PROCESSED"
    \/ from = "BEING_PROCESSED" /\ to \in {"PROCESSED", "FAILED"}

LEMMA StillAhead ==
    ASSUME NEW k \in 1 .. Total, NEW to, MovesOn(Asked(k).status, to)
    PROVE  \E n \in k .. Total : Asked(n).flow = Asked(k).flow /\ Asked(n).status = to
  <1> DEFINE j == ((k - 1) % 5) + 1
  <1>1. k \in Nat /\ j \in 1 .. 5 /\ Asked(k).status = Statuses[j]
    BY QueryAt, FlowsType, Places
  <1> HIDE DEF j
  <1>2. PICK n \in 1 .. 5 : j <= n /\ Statuses[n] = to
    <2>1. j \in {1, 2, 3, 4, 5}
      BY <1>1
    <2>2. CASE to = "DISPATCHED"
      <3>1. j <= 2
        BY <1>1, <2>1, <2>2, FiveStatuses DEF MovesOn
      <3>2. QED
        BY <2>2, <3>1, FiveStatuses
    <2>3. CASE to = "BEING_PROCESSED"
      <3>1. j = 2
        BY <1>1, <2>1, <2>3, FiveStatuses DEF MovesOn
      <3>2. QED
        BY <2>3, <3>1, FiveStatuses
    <2>4. CASE to \in {"PROCESSED", "FAILED"}
      <3>1. j = 3
        BY <1>1, <2>1, <2>4, FiveStatuses DEF MovesOn
      <3>2. QED
        BY <2>4, <3>1, FiveStatuses
    <2>5. QED
      BY <2>2, <2>3, <2>4 DEF MovesOn
  <1>3. QED
    BY <1>2, AskedLater DEF j

-----------------------------------------------------------------------------
(* The invariant.                                                          *)

LEMMA CountInit == QInit => CountInv
  <1> SUFFICES ASSUME QInit
               PROVE  CountInv
    OBVIOUS
  <1>1. Closed \in Scan /\ Closed.next = 0
    BY DEF Closed, Scan
  <1>2. status \in [Events -> StatusSet \cup {"ABSENT"}] /\ scan = [r \in Requests |-> Closed]
    BY DEF QInit, Init
  <1>3. QED
    BY <1>1, <1>2 DEF CountInv, TypesOK, NoneLost

\* Rows and requests stay, or one of the two changes.
LEMMA EventMoves ==
    ASSUME CountInv, NEW d \in Events, Step(d)
    PROVE  CountInv'
  <1>1. PICK to \in StatusSet : /\ status' = [status EXCEPT ![d] = to]
                                /\ to = "AWAITING_PROCESSING" \/ MovesOn(status[d], to)
    <2>1. {Statuses[i] : i \in DOMAIN Statuses} =
            {"AWAITING_PROCESSING", "DISPATCHED", "BEING_PROCESSED", "PROCESSED", "FAILED"}
      BY DEF Statuses
    <2>2. QED
      BY <2>1 DEF Step, Initiate, Dispatch, Begin, Retry, End, Move, MovesOn, StatusSet
  <1>2. status'[d] = to /\ \A e \in Events : e # d => status'[e] = status[e]
    BY <1>1 DEF CountInv, TypesOK
  <1>3. scan' = [r \in Requests |->
                   IF scan[r].next > 0 /\ to = "AWAITING_PROCESSING"
                     THEN [scan[r] EXCEPT !.excused = @ \cup {d}] ELSE scan[r]]
    BY <1>2 DEF Step
  <1>4. TypesOK'
    <2>1. status' \in [Events -> StatusSet \cup {"ABSENT"}]
      BY <1>1 DEF CountInv, TypesOK
    <2>2. ASSUME NEW r \in Requests
          PROVE  scan'[r] \in Scan
      BY <1>3 DEF CountInv, TypesOK, Scan
    <2>3. QED
      BY <1>3, <2>1, <2>2 DEF TypesOK
  <1>5. NoneLost'
    <2> SUFFICES ASSUME NEW r \in Requests, scan'[r].next > 0, NEW e \in Events, e \notin scan'[r].excused
                 PROVE  Found(r, e)' \/ Ahead(e, scan[r].next)'
      BY DEF NoneLost
    <2>1. /\ scan'[r].next = scan[r].next /\ scan'[r].found = scan[r].found
          /\ e \notin scan[r].excused /\ scan[r].next > 0 /\ scan[r].next \in Nat
          /\ to = "AWAITING_PROCESSING" => e # d
      BY <1>3 DEF CountInv, TypesOK, Scan
    <2>2. CASE Found(r, e)
      BY <2>1, <2>2 DEF Found
    <2>3. CASE Ahead(e, scan[r].next)
      <3>1. PICK k \in scan[r].next .. Total :
              Asked(k).flow = FlowOf[e] /\ Asked(k).status = status[e]
        BY <2>3 DEF Ahead
      <3>2. k \in 1 .. Total /\ k \in Nat
        BY <2>1, <3>1, QueryAt
      <3>3. PICK n \in k .. Total : Asked(n).flow = FlowOf[e] /\ Asked(n).status = status'[e]
        <4>1. CASE e # d
          BY <1>2, <3>1, <3>2, <4>1
        <4>2. CASE e = d
          BY <1>1, <1>2, <2>1, <3>1, <3>2, <4>2, StillAhead
        <4>3. QED
          BY <4>1, <4>2
      <3>4. n \in scan[r].next .. Total
        BY <2>1, <3>1, <3>2, <3>3, QueryAt
      <3>5. QED
        BY <2>1, <3>3, <3>4 DEF Ahead
    <2>4. QED
      BY <2>1, <2>2, <2>3 DEF CountInv, NoneLost
  <1>6. QED
    BY <1>4, <1>5 DEF CountInv

\* Request r goes on; the events stay.
LEMMA RequestGoesOn ==
    ASSUME CountInv, NEW r \in Requests, NEW to \in Scan, UNCHANGED status,
           scan' = [scan EXCEPT ![r] = to],
           to.next > 0 => \A e \in Events \ to.excused :
                              (\E f \in to.found : f[1] = e) \/ Ahead(e, to.next)
    PROVE  CountInv'
  <1>1. scan'[r] = to /\ \A q \in Requests \ {r} : scan'[q] = scan[q]
    BY DEF CountInv, TypesOK
  <1>2. TypesOK'
    BY <1>1 DEF CountInv, TypesOK
  <1>3. ASSUME NEW q \in Requests, scan'[q].next > 0, NEW e \in Events \ scan'[q].excused
        PROVE  Found(q, e)' \/ \E n \in scan'[q].next .. Total :
                                   Asked(n).flow = FlowOf[e] /\ Asked(n).status = status'[e]
    <2>1. CASE q = r
      BY <1>1, <1>3, <2>1 DEF Found, Ahead
    <2>2. CASE q # r
      BY <1>1, <1>3, <2>2 DEF CountInv, NoneLost, Found, Ahead
    <2>3. QED
      BY <2>1, <2>2
  <1>4. NoneLost'
    BY <1>3 DEF NoneLost, Ahead
  <1>5. QED
    BY <1>2, <1>4 DEF CountInv

LEMMA RequestCloses ==
    ASSUME CountInv, NEW r \in Requests, UNCHANGED status, scan' = [scan EXCEPT ![r] = Closed]
    PROVE  CountInv'
  <1>1. Closed \in Scan /\ ~ (Closed.next > 0)
    BY DEF Closed, Scan
  <1>2. QED
    BY <1>1, RequestGoesOn

\* Every event that is there has all the queries ahead.
LEMMA FetchKeeps ==
    ASSUME CountInv, NEW r \in Requests, FetchCounts(r)
    PROVE  CountInv'
  <1> DEFINE gone == {e \in Events : status[e] = "ABSENT"}
             to == [Closed EXCEPT !.next = 1, !.excused = gone]
  <1>1. UNCHANGED status /\ scan' = [scan EXCEPT ![r] = to]
    BY DEF FetchCounts, svars
  <1>2. to \in Scan /\ to.next = 1 /\ to.excused = gone
    BY DEF Closed, Scan
  <1>3. ASSUME NEW e \in Events \ gone
        PROVE  Ahead(e, 1)
    <2>1. PICK i \in 1 .. Len(Flows) : FlowOf[e] = Flows[i]
      BY QueueCountsOK, FlowsType
    <2>2. PICK j \in 1 .. 5 : status[e] = Statuses[j]
      <3>1. status[e] \in StatusSet
        BY DEF CountInv, TypesOK
      <3>2. DOMAIN Statuses = 1 .. 5
        BY DEF Statuses
      <3>3. QED
        BY <3>1, <3>2 DEF StatusSet
    <2>3. QED
      BY <2>1, <2>2, AskedFor DEF Ahead
  <1> HIDE DEF to, gone
  <1>4. \A e \in Events \ to.excused : Ahead(e, to.next)
    BY <1>2, <1>3
  <1>5. QED
    BY <1>1, <1>2, <1>4, RequestGoesOn

\* The events a query was ahead of are found by it, or have another one ahead.
LEMMA QueryKeeps ==
    ASSUME CountInv, NEW r \in Requests, Query(r)
    PROVE  CountInv'
  <1> DEFINE i == scan[r].next
             now == Matching(Asked(i)) \X {Asked(i)}
             old == [scan[r] EXCEPT !.next = i + 1]
             to == [old EXCEPT !.found = scan[r].found \cup now]
  <1>1. scan[r] \in Scan /\ scan \in [Requests -> Scan] /\ i \in Nat /\ UNCHANGED status
    BY DEF Query, CountInv, TypesOK, Scan, svars
  <1>2. i \in 1 .. Total
    <2>1. DOMAIN Queries(Statuses) = 1 .. Total
      BY QueryAt DEF Queries, Total
    <2>2. QED
      BY <2>1 DEF Query
  <1>3. scan' = [scan EXCEPT ![r].next = i + 1, ![r].found = @ \cup now]
    BY DEF Query, Asked
  <1>4. now \subseteq Events \X {Asked(k) : k \in 1 .. Total}
    BY <1>2 DEF Matching
  <1> HIDE DEF now
  <1>5. old \in Scan /\ old.next = i + 1 /\ old.found = scan[r].found /\ old.excused = scan[r].excused
    BY <1>1 DEF Scan
  <1> HIDE DEF old
  <1>6. /\ to \in Scan /\ to.next = i + 1 /\ to.excused = scan[r].excused
        /\ to.found = scan[r].found \cup now
    BY <1>1, <1>4, <1>5 DEF Scan
  <1>7. scan' = [scan EXCEPT ![r] = to]
    BY <1>1, <1>3 DEF old, Scan
  <1>8. ASSUME NEW e \in Events \ scan[r].excused
        PROVE  (\E f \in scan[r].found \cup now : f[1] = e) \/ Ahead(e, i + 1)
    <2>1. CASE Found(r, e)
      BY <2>1 DEF Found
    <2>2. CASE Ahead(e, i)
      <3>1. PICK n \in i .. Total : Asked(n).flow = FlowOf[e] /\ Asked(n).status = status[e]
        BY <2>2 DEF Ahead
      <3>2. CASE n = i
        <4>1. e \in Matching(Asked(i))
          BY <3>1, <3>2 DEF Matching
        <4>2. <<e, Asked(i)>> \in now
          BY <4>1 DEF now
        <4>3. <<e, Asked(i)>>[1] = e
          OBVIOUS
        <4>4. QED
          BY <4>2, <4>3
      <3>3. CASE n # i
        <4>1. n \in i + 1 .. Total
          BY <1>1, <3>3, QueryAt
        <4>2. QED
          BY <3>1, <4>1 DEF Ahead
      <3>4. QED
        BY <3>2, <3>3
    <2>3. i > 0
      BY <1>1, <1>2
    <2>4. QED
      BY <2>1, <2>2, <2>3 DEF CountInv, NoneLost
  <1> HIDE DEF to
  <1>9. \A e \in Events \ to.excused : (\E f \in to.found : f[1] = e) \/ Ahead(e, to.next)
    BY <1>6, <1>8
  <1>10. QED
    BY <1>1, <1>6, <1>7, <1>9, RequestGoesOn

\* A query that fails excuses all of them.
LEMMA FailedQueryKeeps ==
    ASSUME CountInv, NEW r \in Requests, QueryFails(r)
    PROVE  CountInv'
  <1> DEFINE old == [scan[r] EXCEPT !.next = scan[r].next + 1]
             to == [old EXCEPT !.excused = Events]
  <1>1. scan[r] \in Scan /\ scan \in [Requests -> Scan] /\ UNCHANGED status
    BY DEF QueryFails, CountInv, TypesOK, svars
  <1>2. old \in Scan
    BY <1>1 DEF Scan
  <1> HIDE DEF old
  <1>3. to \in Scan /\ to.excused = Events
    BY <1>2 DEF Scan
  <1>4. scan' = [scan EXCEPT ![r] = to]
    BY <1>1 DEF QueryFails, old, Scan
  <1> HIDE DEF to
  <1>5. QED
    BY <1>1, <1>3, <1>4, RequestGoesOn

\* The other steps look at no request and move no event.
LEMMA OthersKeep ==
    ASSUME CountInv, UNCHANGED <<status, scan>>
    PROVE  CountInv'
  BY DEF CountInv, TypesOK, NoneLost, Found, Ahead

LEMMA CountStep == CountInv /\ [QNext]_vars => CountInv'
  <1> SUFFICES ASSUME CountInv, [QNext]_vars
               PROVE  CountInv'
    OBVIOUS
  <1>1. ASSUME NEW r \in Requests, Show(r) \/ Ignore(r)
        PROVE  CountInv'
    <2>1. UNCHANGED status /\ scan' = [scan EXCEPT ![r] = Closed]
      BY <1>1 DEF Show, Ignore, svars
    <2>2. QED
      BY <2>1, RequestCloses
  <1>2. ASSUME NEW r \in Requests, FetchCounts(r) \/ Serve(r) \/ Ignore(r)
        PROVE  CountInv'
    BY <1>1, <1>2, FetchKeeps, QueryKeeps, FailedQueryKeeps DEF Serve
  <1>3. ASSUME \/ StartCollection \/ Collect \/ CollectFails
               \/ Outage \/ UNCHANGED vars
        PROVE  CountInv'
    <2>1. UNCHANGED <<status, scan>>
      BY <1>3 DEF StartCollection, Collect, CollectFails, Outage, vars, svars
    <2>2. QED
      BY <2>1, OthersKeep
  <1>4. QED
    BY <1>2, <1>3, EventMoves DEF QNext

\* No event that was there at the start, and did not go back, is overlooked by
\* the counts, wherever it moves on to while the queries are made.
THEOREM CountsOverlookNone == QSpec => []NoneOverlooked
  <1>1. CountInv => NoneOverlooked
    <2> SUFFICES ASSUME CountInv, NEW r \in Requests, Counted(r), NEW e \in Events \ scan[r].excused
                 PROVE  Found(r, e)
      BY DEF NoneOverlooked, Found
    <2>1. scan[r].next \in Nat /\ scan[r].next > Total /\ Total \in Nat
      BY QueryAt DEF CountInv, TypesOK, Scan, Counted, Total
    <2>2. ~ Ahead(e, scan[r].next)
      BY <2>1 DEF Ahead
    <2>3. QED
      BY <2>1, <2>2 DEF CountInv, NoneLost
  <1>2. QED
    BY <1>1, CountInit, CountStep, PTL DEF QSpec

-----------------------------------------------------------------------------
(* Why the counts converge: an answer none of whose facts is out of date is *)
(* exact, though each event is counted as often as it was met.              *)

\* What request r has counted is still so, and it could overlook nobody.
Fresh(r) ==
    /\ \A f \in scan[r].found : status[f[1]] = f[2].status
    /\ \A e \in scan[r].excused : status[e] = "ABSENT"

FreshIsExact ==
    \A r \in Requests :
        /\ FetchCounts(r) => Fresh(r)'
        /\ Fresh(r) /\ up /\ UNCHANGED status => Fresh(r)'
        /\ Fresh(r) /\ Show(r) => \A s \in StatusSet : shown'[s] = Size(s)

\* An event is counted by the queries of its own flow; there are as many events
\* as were published.
Sound ==
    /\ \A r \in Requests : \A f \in scan[r].found : FlowOf[f[1]] = f[2].flow
    /\ IsFiniteSet({e \in Events : status[e] # "ABSENT"})

LEMMA SoundInit == QInit => Sound
  <1> SUFFICES ASSUME QInit
               PROVE  Sound
    OBVIOUS
  <1>1. \A r \in Requests : scan[r].found = {}
    BY DEF QInit, Closed
  <1>2. {e \in Events : status[e] # "ABSENT"} = {}
    BY DEF QInit, Init
  <1>3. QED
    BY <1>1, <1>2, FS_EmptySet DEF Sound

\* Who was counted by a query is in its flow.
LEMMA QueryFound ==
    ASSUME CountInv, NEW r \in Requests, Query(r)
    PROVE  /\ scan'[r].found = scan[r].found \cup
                  (Matching(Asked(scan[r].next)) \X {Asked(scan[r].next)})
           /\ scan'[r].excused = scan[r].excused
           /\ \A q \in Requests \ {r} : scan'[q] = scan[q]
  <1>1. scan[r] \in Scan /\ scan \in [Requests -> Scan]
    BY DEF CountInv, TypesOK
  <1>2. QED
    BY <1>1 DEF Query, Asked, Scan

LEMMA SoundStep == CountInv /\ Sound /\ [QNext]_vars => Sound'
  <1> SUFFICES ASSUME CountInv, Sound, [QNext]_vars
               PROVE  Sound'
    OBVIOUS
  <1>1. scan \in [Requests -> Scan] /\ status \in [Events -> StatusSet \cup {"ABSENT"}]
    BY DEF CountInv, TypesOK
  <1>2. \A r \in Requests : \A f \in scan'[r].found : FlowOf[f[1]] = f[2].flow
    <2>1. ASSUME NEW d \in Events, Step(d), NEW r \in Requests
          PROVE  scan'[r].found = scan[r].found
      BY <1>1, <2>1 DEF Step, Scan
    <2>2. ASSUME NEW q \in Requests, FetchCounts(q) \/ QueryFails(q) \/ Show(q) \/ Ignore(q),
                 NEW r \in Requests
          PROVE  scan'[r].found \subseteq scan[r].found
      <3>1. CASE FetchCounts(q)
        BY <1>1, <3>1 DEF FetchCounts, Closed
      <3>2. CASE QueryFails(q)
        BY <1>1, <3>2 DEF QueryFails, Scan
      <3>3. CASE Show(q) \/ Ignore(q)
        BY <1>1, <3>3 DEF Show, Ignore, Closed
      <3>4. QED
        BY <2>2, <3>1, <3>2, <3>3
    <2>3. ASSUME NEW q \in Requests, Query(q), NEW r \in Requests, NEW f \in scan'[r].found
          PROVE  FlowOf[f[1]] = f[2].flow
      BY <2>3, QueryFound DEF Sound, Matching
    <2>4. CASE StartCollection \/ Collect \/ CollectFails \/ Outage \/ UNCHANGED vars
      BY <2>4 DEF StartCollection, Collect, CollectFails, Outage, vars, Sound
    <2>5. QED
      BY <2>1, <2>2, <2>3, <2>4 DEF QNext, Serve, Sound
  <1>3. IsFiniteSet({e \in Events : status'[e] # "ABSENT"})
    <2> DEFINE there == {e \in Events : status[e] # "ABSENT"}
    <2>1. ASSUME NEW d \in Events, Step(d)
          PROVE  {e \in Events : status'[e] # "ABSENT"} \subseteq there \cup {d}
      BY <1>1, <2>1 DEF Step, Initiate, Dispatch, Begin, Retry, End, Move
    <2>2. ASSUME NEW r \in Requests, FetchCounts(r) \/ Serve(r) \/ Ignore(r)
          PROVE  status' = status
      BY <2>2 DEF FetchCounts, Serve, Query, QueryFails, Show, Ignore, svars
    <2>3. CASE StartCollection \/ Collect \/ CollectFails \/ Outage \/ UNCHANGED vars
      BY <2>3 DEF StartCollection, Collect, CollectFails, Outage, vars, svars, Sound
    <2>4. IsFiniteSet(there) /\ \A d \in Events : IsFiniteSet(there \cup {d})
      BY FS_AddElement DEF Sound
    <2>5. QED
      BY <2>1, <2>2, <2>3, <2>4, FS_Subset DEF QNext
  <1>4. QED
    BY <1>2, <1>3 DEF Sound

\* A query is what it asks for.
LEMMA QueryAsked ==
    ASSUME NEW k \in 1 .. Total, NEW m \in 1 .. Total,
           Asked(k).flow = Asked(m).flow, Asked(k).status = Asked(m).status
    PROVE  Asked(k) = Asked(m)
  <1>1. \A i \in 1 .. Total : Asked(i) = [flow |-> Asked(i).flow, status |-> Asked(i).status]
    <2>1. Total = Len(Flows) * Len(Statuses)
      BY QueryAt, FiveStatuses
    <2>2. QED
      BY <2>1 DEF Asked, Queries
  <1>2. QED
    BY <1>1

\* The facts of an answer that is not out of date are one for each event.
LEMMA ExactCount ==
    ASSUME CountInv, Sound, NEW r \in Requests, Fresh(r), Counted(r), NEW s \in StatusSet
    PROVE  Cardinality({f \in scan[r].found : f[2].status = s}) = Size(s)
  <1> DEFINE E == {e \in Events : status[e] = s}
             F == {f \in scan[r].found : f[2].status = s}
             g == [f \in F |-> f[1]]
  <1>1. scan[r] \in Scan
    BY DEF CountInv, TypesOK
  <1>2. s # "ABSENT"
    BY FiveStatuses DEF StatusSet, Statuses
  <1>3. IsFiniteSet(E)
    <2>1. E \subseteq {e \in Events : status[e] # "ABSENT"}
      BY <1>2
    <2>2. QED
      BY <2>1, FS_Subset DEF Sound
  <1>4. g \in [F -> E]
    BY <1>1 DEF Fresh, Scan
  <1>5. ASSUME NEW f \in F, NEW h \in F, g[f] = g[h]
        PROVE  f = h
    <2>1. PICK k \in 1 .. Total : f[2] = Asked(k)
      BY <1>1 DEF Scan
    <2>2. PICK m \in 1 .. Total : h[2] = Asked(m)
      BY <1>1 DEF Scan
    <2>3. f = <<f[1], f[2]>> /\ h = <<h[1], h[2]>> /\ f[1] = h[1]
      BY <1>1, <1>5 DEF Scan
    <2>4. f[2].status = h[2].status /\ f[2].flow = h[2].flow
      BY <2>3 DEF Sound
    <2>5. Asked(k) = Asked(m)
      BY <2>1, <2>2, <2>4, QueryAsked
    <2>6. QED
      BY <2>1, <2>2, <2>3, <2>5
  <1>6. ASSUME NEW e \in E
        PROVE  \E f \in F : g[f] = e
    <2>1. e \in Events \ scan[r].excused
      BY <1>2 DEF Fresh
    <2>2. ~ Ahead(e, scan[r].next) /\ scan[r].next > 0
      BY <1>1, QueryAt DEF Ahead, Counted, Scan, Total
    <2>3. PICK f \in scan[r].found : f[1] = e
      BY <2>1, <2>2 DEF CountInv, NoneLost, Found
    <2>4. f \in F
      BY <2>3 DEF Fresh
    <2>5. QED
      BY <2>3, <2>4
  <1>7. g \in Bijection(F, E)
    <2> HIDE DEF g, F, E
    <2>1. IsInjective(g)
      BY <1>4, <1>5 DEF IsInjective
    <2>2. QED
      BY <1>4, <1>6, <2>1 DEF Bijection, Injection, Surjection
  <1>8. ExistsBijection(E, F)
    BY <1>7, Fun_ExistsBijSymmetric DEF ExistsBijection
  <1>9. Cardinality(F) = Cardinality(E)
    BY <1>3, <1>8, FS_Bijection
  <1>10. QED
    BY <1>9 DEF Size

LEMMA FreshStep == CountInv /\ Sound /\ [QNext]_vars => FreshIsExact
  <1> SUFFICES ASSUME CountInv, Sound, [QNext]_vars, NEW r \in Requests
               PROVE  /\ FetchCounts(r) => Fresh(r)'
                      /\ Fresh(r) /\ up /\ UNCHANGED status => Fresh(r)'
                      /\ Fresh(r) /\ Show(r) => \A s \in StatusSet : shown'[s] = Size(s)
    BY DEF FreshIsExact
  <1>1. scan \in [Requests -> Scan] /\ status \in [Events -> StatusSet \cup {"ABSENT"}]
    BY DEF CountInv, TypesOK
  <1>2. ASSUME FetchCounts(r)
        PROVE  Fresh(r)'
    <2>1. /\ scan'[r].found = {} /\ status' = status
          /\ scan'[r].excused = {e \in Events : status[e] = "ABSENT"}
      BY <1>1, <1>2 DEF FetchCounts, Closed, svars
    <2>2. QED
      BY <2>1 DEF Fresh
  <1>3. ASSUME Fresh(r), up, status' = status
        PROVE  Fresh(r)'
    <2>1. CASE Query(r)
      <3>1. \A f \in scan'[r].found : status[f[1]] = f[2].status
        BY <1>3, <2>1, QueryFound DEF Fresh, Matching
      <3>2. QED
        BY <1>3, <2>1, <3>1, QueryFound DEF Fresh
    <2>2. CASE Show(r) \/ Ignore(r)
      <3>1. scan'[r].found = {} /\ scan'[r].excused = {}
        BY <1>1, <2>2 DEF Show, Ignore, Closed
      <3>2. QED
        BY <3>1 DEF Fresh
    <2>3. ASSUME NEW d \in Events, Step(d)
          PROVE  scan'[r] = scan[r]
      <3>1. status'[d] # "AWAITING_PROCESSING" \/ status[d] # status'[d]
        BY <1>1, <2>3 DEF Step, Initiate, Dispatch, Begin, Retry, End, Move
      <3>2. status'[d] # "AWAITING_PROCESSING"
        BY <1>3, <3>1
      <3>3. QED
        BY <1>1, <2>3, <3>2 DEF Step
    <2>4. ASSUME NEW q \in Requests \ {r}, FetchCounts(q) \/ Serve(q) \/ Ignore(q)
          PROVE  scan'[r] = scan[r]
      BY <1>1, <2>4 DEF FetchCounts, Serve, Query, QueryFails, Show, Ignore
    <2>5. ASSUME StartCollection \/ Collect \/ CollectFails \/ Outage \/ UNCHANGED vars
          PROVE  scan'[r] = scan[r]
      BY <2>5 DEF StartCollection, Collect, CollectFails, Outage, vars
    <2>6. ASSUME scan'[r] = scan[r]
          PROVE  Fresh(r)'
      BY <1>3, <2>6 DEF Fresh
    <2>7. ~ QueryFails(r)
      BY <1>3 DEF QueryFails
    <2>8. QED
      BY <1>2, <2>1, <2>2, <2>3, <2>4, <2>5, <2>6, <2>7 DEF QNext, Serve
  <1>4. ASSUME Fresh(r), Show(r), NEW s \in StatusSet
        PROVE  shown'[s] = Size(s)
    BY <1>4, ExactCount DEF Show, Counts
  <1>5. QED
    BY <1>2, <1>3, <1>4

\* An answer counted while the events rest and the database answers is exact,
\* whatever was asked before: taken up in any state, it shows the size of every
\* status as it is.
THEOREM RestingCountsAreExact == QSpec => [][FreshIsExact]_vars
  <1>1. QInit => CountInv /\ Sound
    BY CountInit, SoundInit
  <1>2. CountInv /\ Sound /\ [QNext]_vars => (CountInv /\ Sound)'
    BY CountStep, SoundStep
  <1>3. CountInv /\ Sound /\ [QNext]_vars => [FreshIsExact]_vars
    BY FreshStep
  <1>4. QED
    BY <1>1, <1>2, <1>3, PTL DEF QSpec
=============================================================================
