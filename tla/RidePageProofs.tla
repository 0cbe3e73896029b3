--------------------------- MODULE RidePageProofs ---------------------------
(***************************************************************************)
(* Proofs that the page of the ride demo is never ahead of the table, and  *)
(* not behind it when nothing is under way, for rides of any number of     *)
(* steps and any number of repeated attempts; and that the ride it watches *)
(* is the one of Ride.                                                     *)
(***************************************************************************)
EXTENDS RidePage, SequenceTheorems, TLAPS

Statuses ==
    {"ABSENT", "AWAITING_PROCESSING", "DISPATCHED", "BEING_PROCESSED", "PROCESSED", "FAILED"}

Typed ==
    /\ status \in [Events -> Statuses]
    /\ calls \subseteq Calls
    /\ page \in Page

\* Steps are published one after the other, each when all before are processed.
Order ==
    \A d, e \in Events : d < e /\ status[e] # "ABSENT" => status[d] = "PROCESSED"

\* A call that has still to publish the next step is the one that will.
Spinoffs ==
    \A c \in calls : c.at = "spinoff" =>
        /\ c = Call("end", c.ev, "spinoff")
        /\ status[c.ev] = "PROCESSED"
        /\ c.ev + 1 \in Events /\ status[c.ev + 1] = "ABSENT"

\* A call is about an event that is there; what it saw to be final is so for good.
Seen ==
    \A c \in calls : status[c.ev] # "ABSENT" /\ (c.saw \in Final => status[c.ev] = c.saw)

IInv == Typed /\ Order /\ Spinoffs /\ Seen /\ NeverAhead

LEMMA EventsType == Events \subseteq Nat /\ 1 \in Events /\ Steps \in Events
  BY RidePageOK DEF Events

LEMMA IInvInit == Init => IInv
  <1> SUFFICES ASSUME Init
               PROVE  IInv
    OBVIOUS
  <1>1. Typed
    <2>1. 0 \in 0 .. Steps
      BY RidePageOK
    <2>2. QED
      BY <2>1 DEF Init, Typed, Statuses, Page
  <1>2. Order /\ Spinoffs /\ Seen
    BY DEF Init, Order, Spinoffs, Seen
  <1>3. NeverAhead
    BY DEF Init, NeverAhead
  <1>4. QED
    BY <1>1, <1>2, <1>3 DEF IInv

\* A final status that stays, or a step that is processed, takes nothing away
\* from what the page says or a call has seen.
LEMMA PageStays ==
    ASSUME IInv, UNCHANGED page, status' \in [Events -> Statuses],
           \A e \in Events : status[e] \in Final => status'[e] = status[e]
    PROVE  NeverAhead'
  <1>1. page.step \in 0 .. Steps
    BY DEF IInv, Typed, Page
  <1>2. \A e \in 1 .. page.step : e \in Events
    BY <1>1, RidePageOK DEF Events
  <1>3. QED
    BY <1>2, EventsType DEF IInv, NeverAhead, Paid, Failed, Final

LEMMA MoveKeeps ==
    ASSUME IInv, NEW e \in Events,
           NEW from \in SUBSET {"AWAITING_PROCESSING", "DISPATCHED", "BEING_PROCESSED"},
           NEW to \in Statuses \ {"ABSENT"}, NEW c \in Calls, Move(e, from, to, c),
           c.saw = "?", c.ev = e,
           c.at = "spinoff" => c = Call("end", e, "spinoff") /\ to = "PROCESSED" /\ e < Steps
    PROVE  IInv'
  <1> USE DEF IInv
  <1>1. /\ status[e] \in {"AWAITING_PROCESSING", "DISPATCHED", "BEING_PROCESSED"}
        /\ status' \in [Events -> Statuses] /\ status'[e] = to
        /\ \A d \in Events \ {e} : status'[d] = status[d]
        /\ calls' = calls \cup {c} /\ page' = page
    BY DEF Move, Typed
  <1>2. Typed'
    BY <1>1 DEF Typed
  <1>3. Order'
    BY <1>1 DEF Order
  <1>4. Spinoffs'
    <2>1. ASSUME NEW d \in calls, d.at = "spinoff"
          PROVE  d.ev # e /\ d.ev + 1 # e
      BY <1>1, <2>1 DEF Spinoffs
    <2>2. ASSUME c.at = "spinoff"
          PROVE  e + 1 \in Events /\ status'[e + 1] = "ABSENT" /\ status'[e] = "PROCESSED"
      <3>1. e + 1 \in Events /\ e < e + 1 /\ e # e + 1
        BY <2>2, RidePageOK DEF Events
      <3>2. status[e + 1] = "ABSENT"
        BY <1>1, <3>1 DEF Order
      <3>3. QED
        BY <1>1, <2>2, <3>1, <3>2
    <2>3. ASSUME NEW d \in calls, d.at = "spinoff"
          PROVE  /\ d = Call("end", d.ev, "spinoff") /\ status'[d.ev] = "PROCESSED"
                 /\ d.ev + 1 \in Events /\ status'[d.ev + 1] = "ABSENT"
      <3>1. d.ev \in Events
        BY DEF Typed, Calls
      <3>2. QED
        BY <1>1, <2>1, <2>3, <3>1 DEF Spinoffs
    <2>4. QED
      BY <1>1, <2>2, <2>3 DEF Spinoffs
  <1>5. Seen'
    <2>1. ASSUME NEW d \in calls
          PROVE  status'[d.ev] # "ABSENT" /\ (d.saw \in Final => status'[d.ev] = d.saw)
      <3>1. /\ d.ev \in Events /\ status[d.ev] # "ABSENT"
            /\ d.saw \in Final => status[d.ev] = d.saw
        BY DEF Seen, Typed, Calls
      <3>2. QED
        BY <1>1, <3>1 DEF Final
    <2>2. QED
      BY <1>1, <2>1 DEF Seen, Final
  <1>6. NeverAhead'
    BY <1>1, PageStays DEF Final
  <1>7. QED
    BY <1>2, <1>3, <1>4, <1>5, <1>6

LEMMA CallsType ==
    ASSUME NEW e \in Events, NEW by \in Jobs \cup {"retry", "end"}, NEW at \in {"spinoff", "load"}
    PROVE  /\ Call(by, e, at) \in Calls
           /\ Call(by, e, at).saw = "?" /\ Call(by, e, at).ev = e /\ Call(by, e, at).at = at
  BY DEF Call, Calls

\* The calls that leave a notification to come.
LEMMA CallKeeps ==
    ASSUME IInv, NEW e \in Events,
           \/ \E j \in Jobs : Dispatch(j, e)
           \/ ReportSuccess(e) \/ Retry(e) \/ Fail(e)
    PROVE  IInv'
  <1>1. ASSUME NEW j \in Jobs, Dispatch(j, e)
        PROVE  IInv'
    <2>1. PICK from \in SUBSET {"AWAITING_PROCESSING", "DISPATCHED", "BEING_PROCESSED"} :
            Move(e, from, "DISPATCHED", Call(j, e, "load"))
      BY <1>1 DEF Dispatch
    <2>2. QED
      BY <2>1, CallsType, MoveKeeps DEF Statuses
  <1>2. CASE ReportSuccess(e)
    <2> DEFINE at == IF e < Steps THEN "spinoff" ELSE "load"
    <2>1. Move(e, {"BEING_PROCESSED"}, "PROCESSED", Call("end", e, at))
      BY <1>2 DEF ReportSuccess
    <2>2. at \in {"spinoff", "load"} /\ (at = "spinoff" => e < Steps)
      OBVIOUS
    <2> HIDE DEF at
    <2>3. QED
      BY <2>1, <2>2, CallsType, MoveKeeps DEF Statuses
  <1>3. CASE Retry(e)
    <2>1. Move(e, {"BEING_PROCESSED"}, "AWAITING_PROCESSING", Call("retry", e, "load"))
      BY <1>3 DEF Retry
    <2>2. QED
      BY <2>1, CallsType, MoveKeeps DEF Statuses
  <1>4. CASE Fail(e)
    <2>1. Move(e, {"BEING_PROCESSED"}, "FAILED", Call("end", e, "load"))
      BY <1>4 DEF Fail
    <2>2. QED
      BY <2>1, CallsType, MoveKeeps DEF Statuses
  <1>5. QED
    BY <1>1, <1>2, <1>3, <1>4

\* The steps that leave the calls alone.
LEMMA QuietKeeps ==
    ASSUME IInv, NEW e \in Events, RequestRide \/ Acquire(e) \/ CreateRide
    PROVE  IInv'
  <1> USE DEF IInv
  <1>1. CASE CreateRide
    <2>1. page' = [page EXCEPT !.known = TRUE] /\ UNCHANGED <<status, calls>>
      BY <1>1 DEF CreateRide
    <2>2. page' \in Page /\ page'.step = page.step /\ page'.done = page.done /\ page'.failed = page.failed
      BY <2>1 DEF Typed, Page
    <2>3. QED
      BY <2>1, <2>2 DEF Typed, Order, Spinoffs, Seen, NeverAhead, Paid, Failed
  <1>2. ASSUME NEW d \in Events, NEW to \in {"AWAITING_PROCESSING", "BEING_PROCESSED"},
               status[d] \in {"ABSENT", "DISPATCHED"}, status[d] = "ABSENT" => d = 1,
               status' = [status EXCEPT ![d] = to], UNCHANGED <<calls, page>>
        PROVE  IInv'
    <2>1. /\ status' \in [Events -> Statuses] /\ status'[d] = to
          /\ \A f \in Events \ {d} : status'[f] = status[f]
          /\ to # "ABSENT"
      BY <1>2 DEF Typed, Statuses
    <2>2. Typed'
      BY <1>2, <2>1 DEF Typed
    <2>3. Order'
      BY <1>2, <2>1, EventsType DEF Order, Events
    <2>4. Spinoffs'
      <3>1. ASSUME NEW c \in calls, c.at = "spinoff"
            PROVE  c.ev \in Events /\ c.ev # d /\ c.ev + 1 # d
        BY <1>2, <3>1, EventsType DEF Typed, Calls, Spinoffs, Events
      <3>2. QED
        BY <1>2, <2>1, <3>1 DEF Spinoffs
    <2>5. Seen' /\ NeverAhead'
      <3>1. \A f \in Events : status[f] \in Final => status'[f] = status[f]
        BY <1>2, <2>1 DEF Final
      <3>2. \A c \in calls : c.ev \in Events
        BY DEF Typed, Calls
      <3>3. QED
        BY <1>2, <2>1, <3>1, <3>2, PageStays DEF Seen
    <2>6. QED
      BY <2>2, <2>3, <2>4, <2>5
  <1>3. CASE RequestRide
    BY <1>2, <1>3, EventsType DEF RequestRide
  <1>4. CASE Acquire(e)
    BY <1>2, <1>4 DEF Acquire
  <1>5. QED
    BY <1>1, <1>3, <1>4

LEMMA SpinoffKeeps ==
    ASSUME IInv, NEW c \in calls, PublishSpinoff(c)
    PROVE  IInv'
  <1> USE DEF IInv
  <1> DEFINE after == [c EXCEPT !.at = "load"]
             next == c.ev + 1
  <1>1. /\ c \in Calls /\ c.at = "spinoff" /\ c = Call("end", c.ev, "spinoff")
        /\ status[c.ev] = "PROCESSED" /\ next \in Events /\ status[next] = "ABSENT"
    BY DEF PublishSpinoff, Typed, Spinoffs
  <1>2. c.ev \in Events /\ c.ev \in Nat
    BY <1>1, EventsType DEF Calls
  <1>3. after \in Calls /\ after.at = "load" /\ after.saw = "?" /\ after.ev = c.ev
    BY <1>1 DEF Calls, Call
  <1>4. calls' = (calls \ {c}) \cup {after} /\ UNCHANGED page
    BY DEF PublishSpinoff, Goto
  <1> HIDE DEF after
  <1>5. CASE status' = status
    <2>1. Typed' /\ Order' /\ NeverAhead'
      BY <1>3, <1>4, <1>5 DEF Typed, Order, NeverAhead, Paid, Failed
    <2>2. Spinoffs' /\ Seen'
      BY <1>1, <1>3, <1>4, <1>5 DEF Spinoffs, Seen, Final
    <2>3. QED
      BY <2>1, <2>2
  <1>6. CASE status' = [status EXCEPT ![next] = "AWAITING_PROCESSING"]
    <2>1. /\ status' \in [Events -> Statuses] /\ status'[next] = "AWAITING_PROCESSING"
          /\ \A f \in Events \ {next} : status'[f] = status[f]
      BY <1>6, <1>1 DEF Typed, Statuses
    <2>2. Typed'
      BY <1>3, <1>4, <2>1 DEF Typed
    <2>3. Order'
      <3> SUFFICES ASSUME NEW d \in Events, NEW e \in Events, d < e, status'[e] # "ABSENT"
                   PROVE  status'[d] = "PROCESSED"
        BY DEF Order
      <3>1. CASE e = next
        <4>1. d = c.ev \/ d < c.ev
          BY <1>2, <3>1, EventsType
        <4>2. status[d] = "PROCESSED"
          BY <1>1, <1>2, <4>1 DEF Order
        <4>3. d # next
          BY <1>2, <4>1, EventsType
        <4>4. QED
          BY <2>1, <4>2, <4>3
      <3>2. CASE e # next
        BY <1>1, <2>1, <3>2 DEF Order
      <3>3. QED
        BY <3>1, <3>2
    <2>4. Spinoffs'
      <3> SUFFICES ASSUME NEW d \in calls, d # c, d.at = "spinoff"
                   PROVE  /\ d = Call("end", d.ev, "spinoff") /\ status'[d.ev] = "PROCESSED"
                          /\ d.ev + 1 \in Events /\ status'[d.ev + 1] = "ABSENT"
        BY <1>3, <1>4 DEF Spinoffs
      <3>1. /\ d = Call("end", d.ev, "spinoff") /\ status[d.ev] = "PROCESSED"
            /\ d.ev + 1 \in Events /\ status[d.ev + 1] = "ABSENT" /\ d.ev \in Events
        BY DEF Spinoffs, Typed, Calls
      <3>2. d.ev # c.ev
        BY <1>1, <3>1
      <3>3. d.ev + 1 # next /\ d.ev # next
        <4>1. d.ev \in Nat /\ c.ev \in Nat
          BY <1>2, <3>1, EventsType
        <4>2. d.ev # next
          BY <1>1, <3>1
        <4>3. d.ev + 1 # c.ev + 1
          BY <3>2, <4>1
        <4>4. QED
          BY <4>2, <4>3
      <3>4. QED
        BY <2>1, <3>1, <3>3
    <2>5. Seen' /\ NeverAhead'
      <3>1. \A f \in Events : status[f] \in Final => status'[f] = status[f]
        BY <1>1, <2>1 DEF Final
      <3>2. \A d \in calls : d.ev \in Events
        BY DEF Typed, Calls
      <3>3. \A f \in Events : status[f] # "ABSENT" => status'[f] # "ABSENT"
        BY <2>1
      <3>4. Seen'
        BY <1>3, <1>4, <3>1, <3>2, <3>3 DEF Seen, Final
      <3>5. QED
        BY <1>4, <2>1, <3>1, <3>4, PageStays
    <2>6. QED
      BY <2>2, <2>3, <2>4, <2>5
  <1>7. QED
    BY <1>5, <1>6 DEF PublishSpinoff

LEMMA ReloadKeeps ==
    ASSUME IInv, NEW c \in calls, Reload(c)
    PROVE  IInv'
  <1> USE DEF IInv
  <1> DEFINE after == [c EXCEPT !.at = "notify", !.saw = status[c.ev]]
  <1>1. c \in Calls /\ c.at = "load"
    BY DEF Reload, Typed
  <1>2. c = [by |-> c.by, ev |-> c.ev, at |-> "load", saw |-> c.saw] /\ c.ev \in Events
        /\ c.by \in Jobs \cup {"retry", "end"}
    BY <1>1 DEF Calls
  <1>3. calls' = (calls \ {c}) \cup {after} /\ UNCHANGED <<status, page>>
    BY DEF Reload, Goto
  <1>4. status[c.ev] \in Statuses \ {"ABSENT"}
    BY <1>2 DEF Seen, Typed
  <1>5. after \in Calls /\ after.at = "notify" /\ after.saw = status[c.ev] /\ after.ev = c.ev
    <2> DEFINE old == [c EXCEPT !.at = "notify"]
    <2>1. old \in [by: Jobs \cup {"retry", "end"}, ev: Events, at: {"notify"}, saw: {c.saw}]
          /\ old.ev = c.ev
      BY <1>2
    <2>2. after = [old EXCEPT !.saw = status[c.ev]]
      OBVIOUS
    <2> HIDE DEF old
    <2>3. QED
      BY <1>4, <2>1, <2>2 DEF Calls, Statuses, Final
  <1> HIDE DEF after
  <1>6. Typed'
    BY <1>3, <1>5 DEF Typed
  <1>7. Order' /\ NeverAhead'
    BY <1>3 DEF Order, NeverAhead, Paid, Failed
  <1>8. Spinoffs'
    BY <1>3, <1>5 DEF Spinoffs
  <1>9. Seen'
    BY <1>3, <1>4, <1>5 DEF Seen
  <1>10. QED
    BY <1>6, <1>7, <1>8, <1>9

\* A step that is shown as processed is, and all before it are.
LEMMA DeliverKeeps ==
    ASSUME IInv, NEW c \in calls, Deliver(c)
    PROVE  IInv'
  <1> USE DEF IInv
  <1>1. calls' = calls \ {c} /\ UNCHANGED status /\ c.ev \in Events
    BY DEF Deliver, Typed, Calls
  <1>2. c.ev \in 0 .. Steps /\ c.ev \in Nat
    BY <1>1, RidePageOK DEF Events
  <1>3. CASE page' = page
    BY <1>1, <1>3 DEF Typed, Order, Spinoffs, Seen, NeverAhead, Paid, Failed
  <1>4. CASE c.saw = "PROCESSED" /\ page' = [page EXCEPT !.step = c.ev, !.done = @ \/ c.ev = Steps]
    <2>1. /\ page' \in Page /\ page'.step = c.ev /\ page'.failed = page.failed
          /\ page'.done => page.done \/ c.ev = Steps
      <3> DEFINE old == [page EXCEPT !.step = c.ev]
      <3>1. old \in Page /\ old.step = c.ev /\ old.failed = page.failed /\ old.done = page.done
        BY <1>2 DEF Typed, Page
      <3>2. CASE page.done \/ c.ev = Steps
        <4>1. page' = [old EXCEPT !.done = TRUE]
          BY <1>4, <3>2
        <4> HIDE DEF old
        <4>2. QED
          BY <3>1, <3>2, <4>1 DEF Page
      <3>3. CASE ~(page.done \/ c.ev = Steps)
        <4>1. page' = [old EXCEPT !.done = FALSE]
          BY <1>4, <3>3
        <4> HIDE DEF old
        <4>2. QED
          BY <3>1, <4>1 DEF Page
      <3>4. QED
        BY <3>2, <3>3
    <2>2. status[c.ev] = "PROCESSED"
      BY <1>4 DEF Seen, Final
    <2>3. \A e \in 1 .. c.ev : status[e] = "PROCESSED"
      <3> SUFFICES ASSUME NEW e \in 1 .. c.ev
                   PROVE  status[e] = "PROCESSED"
        OBVIOUS
      <3>1. e = c.ev \/ e < c.ev
        BY <1>2
      <3>2. e \in Events
        BY <1>2, RidePageOK DEF Events
      <3>3. QED
        BY <1>1, <2>2, <3>1, <3>2 DEF Order
    <2>4. NeverAhead'
      BY <1>1, <2>1, <2>2, <2>3 DEF NeverAhead, Paid, Failed
    <2>5. QED
      BY <1>1, <2>1, <2>4 DEF Typed, Order, Spinoffs, Seen
  <1>5. CASE c.saw = "FAILED" /\ page' = [page EXCEPT !.failed = TRUE]
    <2>1. page' \in Page /\ page'.step = page.step /\ page'.done = page.done
      BY <1>5 DEF Typed, Page
    <2>2. status[c.ev] = "FAILED"
      BY <1>5 DEF Seen, Final
    <2>3. NeverAhead'
      BY <1>1, <2>1, <2>2 DEF NeverAhead, Paid, Failed
    <2>4. QED
      BY <1>1, <2>1, <2>3 DEF Typed, Order, Spinoffs, Seen
  <1>6. QED
    BY <1>3, <1>4, <1>5 DEF Deliver, OnEventUpdate

LEMMA DropKeeps ==
    ASSUME IInv, NEW c \in calls, Drop(c)
    PROVE  IInv'
  <1>1. calls' = calls \ {c} /\ UNCHANGED <<status, page>>
    BY DEF Drop
  <1>2. QED
    BY <1>1 DEF IInv, Typed, Order, Spinoffs, Seen, NeverAhead, Paid, Failed

LEMMA IInvStep == IInv /\ [Next]_vars => IInv'
  <1> SUFFICES ASSUME IInv, [Next]_vars
               PROVE  IInv'
    OBVIOUS
  <1>1. CASE UNCHANGED vars
    BY <1>1 DEF vars, IInv, Typed, Order, Spinoffs, Seen, NeverAhead, Paid, Failed
  <1>2. CASE RequestRide \/ CreateRide
    BY <1>2, QuietKeeps, EventsType
  <1>3. ASSUME NEW e \in Events,
               \/ \E j \in Jobs : Dispatch(j, e)
               \/ Acquire(e) \/ ReportSuccess(e) \/ Retry(e) \/ Fail(e)
        PROVE  IInv'
    BY <1>3, CallKeeps, QuietKeeps
  <1>4. ASSUME NEW c \in calls, Continue(c) \/ Drop(c)
        PROVE  IInv'
    BY <1>4, SpinoffKeeps, ReloadKeeps, DeliverKeeps, DropKeeps DEF Continue
  <1>5. QED
    BY <1>1, <1>2, <1>3, <1>4 DEF Next

\* Whatever notifications overtake each other, are late or are lost, the page
\* shows no step as done and no outcome as reached that the table does not have.
THEOREM PageNeverAhead == Spec => []NeverAhead
  <1>1. IInv => NeverAhead
    BY DEF IInv
  <1>2. QED
    BY <1>1, IInvInit, IInvStep, PTL DEF Spec
-----------------------------------------------------------------------------
(* The outcome is shown.                                                   *)

\* What the page shows of an event that has come to its end.
Told(e) ==
    /\ status[e] = "PROCESSED" /\ e = Steps => page.done
    /\ status[e] = "FAILED" => page.failed

\* The report that ended e has still to be broadcast.
Coming(e, c) == c.by = "end" /\ c.ev = e /\ (c.at = "notify" => c.saw = status[e])

Reported ==
    ~missed => \A e \in Events : status[e] \in Final => Told(e) \/ \E c \in calls : Coming(e, c)

\* The steps of the engine: a new end has its report, the old ones keep theirs.
LEMMA ReportedGrows ==
    ASSUME IInv, Reported, UNCHANGED <<page, missed>>,
           \A e \in Events : \/ status'[e] = status[e]
                             \/ status[e] \notin Final /\ (status'[e] \in Final =>
                                   \E c \in calls' : c.by = "end" /\ c.ev = e /\ c.at # "notify"),
           \A e \in Events : \A c \in calls : status'[e] = status[e] /\ Coming(e, c) =>
               \E d \in calls' : Coming(e, d)'
    PROVE  Reported'
  <1> SUFFICES ASSUME ~missed, NEW e \in Events, status'[e] \in Final
               PROVE  Told(e)' \/ \E c \in calls' : Coming(e, c)'
    BY DEF Reported
  <1>1. CASE status'[e] = status[e]
    BY <1>1 DEF Reported, Told
  <1>2. CASE status'[e] # status[e]
    BY <1>2 DEF Coming
  <1>3. QED
    BY <1>1, <1>2

LEMMA ReportedMove ==
    ASSUME IInv, Reported, NEW e \in Events, NEW from, NEW to, NEW c, Move(e, from, to, c),
           from \cap Final = {},
           to \in Final => c.by = "end" /\ c.ev = e /\ c.at # "notify"
    PROVE  Reported'
  <1>1. /\ status'[e] = to /\ status[e] \notin Final
        /\ \A d \in Events \ {e} : status'[d] = status[d]
        /\ calls' = calls \cup {c} /\ UNCHANGED <<page, missed>>
    BY DEF Move, IInv, Typed
  <1>2. \A f \in Events : \A d \in calls : status'[f] = status[f] /\ Coming(f, d) =>
            \E g \in calls' : Coming(f, g)'
    BY <1>1 DEF Coming
  <1>3. \A f \in Events : \/ status'[f] = status[f]
                          \/ status[f] \notin Final /\ (status'[f] \in Final =>
                                \E d \in calls' : d.by = "end" /\ d.ev = f /\ d.at # "notify")
    BY <1>1
  <1>4. QED
    BY <1>1, <1>2, <1>3, ReportedGrows

LEMMA ReportedCall ==
    ASSUME IInv, Reported, NEW e \in Events,
           \/ \E j \in Jobs : Dispatch(j, e)
           \/ ReportSuccess(e) \/ Retry(e) \/ Fail(e)
    PROVE  Reported'
  <1> USE ReportedMove DEF Final
  <1>1. ASSUME NEW j \in Jobs, Dispatch(j, e)
        PROVE  Reported'
    <2>1. PICK from \in SUBSET {"AWAITING_PROCESSING", "DISPATCHED"} :
            Move(e, from, "DISPATCHED", Call(j, e, "load"))
      BY <1>1 DEF Dispatch
    <2>2. QED
      BY <2>1
  <1>2. CASE ReportSuccess(e)
    BY <1>2 DEF ReportSuccess, Call
  <1>3. CASE Retry(e)
    BY <1>3 DEF Retry
  <1>4. CASE Fail(e)
    BY <1>4 DEF Fail, Call
  <1>5. QED
    BY <1>1, <1>2, <1>3, <1>4

LEMMA ReportedQuiet ==
    ASSUME IInv, Reported, NEW e \in Events, RequestRide \/ Acquire(e) \/ CreateRide
    PROVE  Reported'
  <1>1. CASE CreateRide
    BY <1>1 DEF CreateRide, Reported, Told, Coming, IInv, Typed, Page
  <1>2. CASE RequestRide \/ Acquire(e)
    <2>1. UNCHANGED <<calls, page, missed>>
      BY <1>2 DEF RequestRide, Acquire
    <2>2. \A d \in Events : status'[d] = status[d] \/ (status[d] \notin Final /\ status'[d] \notin Final)
      BY <1>2 DEF RequestRide, Acquire, IInv, Typed, Final
    <2>3. QED
      BY <2>1, <2>2, ReportedGrows DEF Coming
  <1>3. QED
    BY <1>1, <1>2

LEMMA ReportedSpinoff ==
    ASSUME IInv, Reported, NEW c \in calls, PublishSpinoff(c)
    PROVE  Reported'
  <1> DEFINE after == [c EXCEPT !.at = "load"]
  <1>1. /\ c \in Calls /\ c.at = "spinoff" /\ c.ev + 1 \in Events /\ status[c.ev + 1] = "ABSENT"
    BY DEF PublishSpinoff, IInv, Typed, Spinoffs
  <1>2. after.by = c.by /\ after.ev = c.ev /\ after.at = "load"
    BY <1>1 DEF Calls
  <1>3. calls' = (calls \ {c}) \cup {after} /\ UNCHANGED <<page, missed>>
    BY DEF PublishSpinoff, Goto
  <1> HIDE DEF after
  <1>4. \A d \in Events : status'[d] = status[d] \/ (status[d] \notin Final /\ status'[d] \notin Final)
    BY <1>1 DEF PublishSpinoff, IInv, Typed, Final
  <1>5. \A e \in Events : \A d \in calls : status'[e] = status[e] /\ Coming(e, d) =>
            \E g \in calls' : Coming(e, g)'
    BY <1>2, <1>3 DEF Coming
  <1>6. QED
    BY <1>3, <1>4, <1>5, ReportedGrows

LEMMA ReportedReload ==
    ASSUME IInv, Reported, NEW c \in calls, Reload(c)
    PROVE  Reported'
  <1> DEFINE after == [c EXCEPT !.at = "notify", !.saw = status[c.ev]]
  <1>1. c \in Calls
    BY DEF IInv, Typed
  <1>2. after.by = c.by /\ after.ev = c.ev /\ after.saw = status[c.ev]
    BY <1>1 DEF Calls
  <1>3. calls' = (calls \ {c}) \cup {after} /\ UNCHANGED <<status, page, missed>>
    BY DEF Reload, Goto
  <1> HIDE DEF after
  <1>4. \A e \in Events : \A d \in calls : Coming(e, d) => \E g \in calls' : Coming(e, g)'
    BY <1>2, <1>3 DEF Coming
  <1>5. QED
    BY <1>3, <1>4, ReportedGrows

\* A report that is delivered tells the page, or is missed.
LEMMA ReportedDeliver ==
    ASSUME IInv, Reported, NEW c \in calls, Deliver(c)
    PROVE  Reported'
  <1> SUFFICES ASSUME ~missed', NEW e \in Events, status'[e] \in Final
               PROVE  Told(e)' \/ \E d \in calls' : Coming(e, d)'
    BY DEF Reported
  <1>1. /\ calls' = calls \ {c} /\ UNCHANGED status /\ ~missed /\ c.at = "notify"
        /\ page.known \/ c.by # "end"
        /\ page' = IF page.known THEN OnEventUpdate(c.ev, c.saw) ELSE page
    BY DEF Deliver
  <1>2. (page.done => page'.done) /\ (page.failed => page'.failed)
    BY <1>1 DEF OnEventUpdate, IInv, Typed, Page
  <1>3. CASE Coming(e, c)
    <2>1. page' = OnEventUpdate(e, status[e])
      BY <1>1, <1>3 DEF Coming
    <2>2. Told(e)'
      BY <1>1, <2>1 DEF OnEventUpdate, Told, Final, IInv, Typed, Page
    <2>3. QED
      BY <2>2
  <1>4. CASE ~Coming(e, c)
    <2>1. Told(e) \/ \E d \in calls' : Coming(e, d)
      BY <1>1, <1>4 DEF Reported
    <2>2. QED
      BY <1>1, <1>2, <2>1 DEF Told, Coming
  <1>5. QED
    BY <1>3, <1>4

LEMMA ReportedDrop ==
    ASSUME IInv, Reported, NEW c \in calls, Drop(c)
    PROVE  Reported'
  <1> SUFFICES ASSUME ~missed', NEW e \in Events, status'[e] \in Final
               PROVE  Told(e)' \/ \E d \in calls' : Coming(e, d)'
    BY DEF Reported
  <1>1. calls' = calls \ {c} /\ UNCHANGED <<status, page>> /\ ~missed /\ c.by # "end"
    BY DEF Drop
  <1>2. Told(e) \/ \E d \in calls' : Coming(e, d)
    BY <1>1 DEF Reported, Coming
  <1>3. QED
    BY <1>1, <1>2 DEF Told, Coming

LEMMA ReportedStep == IInv /\ Reported /\ [Next]_vars => Reported'
  <1> SUFFICES ASSUME IInv, Reported, [Next]_vars
               PROVE  Reported'
    OBVIOUS
  <1>1. CASE UNCHANGED vars
    BY <1>1 DEF vars, Reported, Told, Coming
  <1>2. CASE RequestRide \/ CreateRide
    BY <1>2, ReportedQuiet, EventsType
  <1>3. ASSUME NEW e \in Events,
               \/ \E j \in Jobs : Dispatch(j, e)
               \/ Acquire(e) \/ ReportSuccess(e) \/ Retry(e) \/ Fail(e)
        PROVE  Reported'
    BY <1>3, ReportedCall, ReportedQuiet
  <1>4. ASSUME NEW c \in calls, Continue(c) \/ Drop(c)
        PROVE  Reported'
    BY <1>4, ReportedSpinoff, ReportedReload, ReportedDeliver, ReportedDrop DEF Continue
  <1>5. QED
    BY <1>1, <1>2, <1>3, <1>4 DEF Next

\* A page that was there for every report that ended a step shows the outcome of
\* the ride as soon as no call is under way, whatever else was dropped or late.
THEOREM OutcomeIsShown == Spec => []OutcomeShown
  <1>1. Init => Reported
    BY DEF Init, Reported, Final
  <1>2. IInv /\ Reported => OutcomeShown
    <2> SUFFICES ASSUME IInv, Reported, calls = {}, ~missed
                 PROVE  (page.done <=> Paid) /\ (page.failed <=> Failed)
      BY DEF OutcomeShown
    <2>1. \A e \in Events : status[e] \in Final => Told(e)
      BY DEF Reported
    <2>2. (Paid => page.done) /\ (Failed => page.failed)
      BY <2>1, EventsType DEF Told, Final, Paid, Failed
    <2>3. page.done \in BOOLEAN /\ page.failed \in BOOLEAN
      BY DEF IInv, Typed, Page
    <2>4. QED
      BY <2>2, <2>3 DEF IInv, NeverAhead
  <1>3. QED
    BY <1>1, <1>2, IInvInit, IInvStep, ReportedStep, PTL DEF Spec

-----------------------------------------------------------------------------
(* Behind the page there is a ride.                                        *)

State(st) == CASE st = "PROCESSED" -> "done" [] st = "FAILED" -> "failed" [] OTHER -> "open"

IsBegun(n) == n \in 0 .. Steps /\ \A e \in Events : status[e] # "ABSENT" <=> e <= n

\* The number of steps begun.
Begun == CHOOSE n \in 0 .. Steps : IsBegun(n)

\* Name[e]: the type of step e, of steps that are told apart by it.
Naming(Name) ==
    /\ Name \in [Events -> STRING]
    /\ \A e \in Events : Name[e] # "" /\ \A d \in Events \ {e} : Name[d] # Name[e]

Types(Name) == {Name[e] : e \in Events}

Number(Name, t) == CHOOSE e \in Events : Name[e] = t

After(Name) ==
    [t \in Types(Name) |-> LET e == Number(Name, t)
                           IN  IF e < Steps THEN Name[e + 1] ELSE ""]

View(Name, st, n) == [i \in 1 .. n |-> [type |-> Name[i], state |-> State(st[i])]]

Log(Name) == View(Name, status, Begun)

Trip(Name) == INSTANCE Ride WITH First <- Name[1], NextStep <- After(Name),
                                 MayFail <- Types(Name), log <- Log(Name)

BegunUnique == \A n : IsBegun(n) => Begun = n

LEMMA BegunIs == IInv => BegunUnique
  <1> SUFFICES ASSUME IInv, NEW n, IsBegun(n)
               PROVE  Begun = n
    BY DEF BegunUnique
  <1> DEFINE m == Begun
  <1>1. n \in 0 .. Steps /\ n \in Nat
    BY RidePageOK DEF IsBegun
  <1>2. m \in 0 .. Steps /\ IsBegun(m) /\ m \in Nat
    BY <1>1, RidePageOK DEF Begun, IsBegun
  <1> HIDE DEF m
  <1>3. ASSUME m < n
        PROVE  FALSE
    BY <1>1, <1>2, <1>3, RidePageOK DEF IsBegun, Events
  <1>4. ASSUME n < m
        PROVE  FALSE
    BY <1>1, <1>2, <1>4, RidePageOK DEF IsBegun, Events
  <1>5. m = n
    BY <1>1, <1>2, <1>3, <1>4
  <1>6. QED
    BY <1>5 DEF m

LEMMA BegunIsNext == IInv' => BegunUnique'
  BY BegunIs, PTL

LEMMA ViewType ==
    ASSUME NEW Name, Naming(Name), NEW n \in 0 .. Steps, NEW st
    PROVE  LET Entries == [type : Types(Name), state : {"open", "done", "failed"}]
           IN  /\ View(Name, st, n) \in Seq(Entries) /\ Len(View(Name, st, n)) = n
               /\ View(Name, st, n) \in [1 .. n -> Entries]
  <1> DEFINE view == View(Name, st, n)
             Entries == [type : Types(Name), state : {"open", "done", "failed"}]
  <1>1. n \in Nat /\ \A i \in 1 .. n : i \in Events
    BY RidePageOK DEF Events
  <1>2. \A i \in 1 .. n : [type |-> Name[i], state |-> State(st[i])] \in Entries
    BY <1>1 DEF Types, State
  <1>3. view \in [1 .. n -> Entries]
    BY <1>2 DEF View
  <1> HIDE DEF view, Entries
  <1>4. view \in Seq(Entries)
    BY <1>1, <1>3, SeqDef
  <1>5. Len(view) = n
    BY <1>1, <1>3, <1>4
  <1>6. QED
    BY <1>3, <1>4, <1>5 DEF view, Entries

\* What every step of the page, the calls and the engine is for the ride.
RideStep(Name) == (\E n : IsBegun(n)') /\ (Trip(Name)!Next \/ Log(Name)' = Log(Name))

LEMMA LogStays ==
    ASSUME IInv, IInv', NEW Name, Naming(Name), NEW n, IsBegun(n),
           \A e \in Events : State(status'[e]) = State(status[e])
                             /\ (status'[e] = "ABSENT" <=> status[e] = "ABSENT")
    PROVE  RideStep(Name)
  <1>1. n \in 0 .. Steps /\ IsBegun(n)'
    BY DEF IsBegun
  <1>2. Begun = n
    BY BegunIs DEF BegunUnique
  <1>3. Begun' = n
    BY <1>1, BegunIsNext DEF BegunUnique
  <1>4. View(Name, status', n) = View(Name, status, n)
    BY <1>1, RidePageOK DEF View, Events
  <1>5. QED
    BY <1>1, <1>2, <1>3, <1>4 DEF RideStep, Log

\* The step last begun comes to its end.
LEMMA LogSettles ==
    ASSUME IInv, IInv', NEW Name, Naming(Name), NEW n, IsBegun(n), NEW e \in Events,
           status[e] = "BEING_PROCESSED", NEW to \in Final, status' = [status EXCEPT ![e] = to]
    PROVE  RideStep(Name)
  <1> DEFINE old == View(Name, status, n)
             new == View(Name, status', n)
             st  == State(to)
             upd == [old EXCEPT ![n].state = st]
  <1>1. /\ n \in 0 .. Steps /\ n \in Nat /\ e \in Nat /\ n \in 1 .. n
        /\ e = n
    <2>1. n \in 0 .. Steps /\ n \in Nat /\ e \in Nat /\ e <= n /\ n \in Events
      BY RidePageOK DEF IsBegun, Events
    <2>2. ~(e < n)
      BY <2>1 DEF IInv, Order, IsBegun
    <2>3. QED
      BY <2>1, <2>2, RidePageOK DEF Events
  <1>2. /\ status'[n] = to
        /\ \A i \in Events : i # n => status'[i] = status[i]
    BY <1>1 DEF IInv, Typed
  <1>3. IsBegun(n)'
    BY <1>1, <1>2 DEF IsBegun, Final
  <1>4. Log(Name) = old /\ Log(Name)' = new
    BY <1>3, BegunIs, BegunIsNext DEF BegunUnique, Log
  <1>5. Len(old) = n
    BY <1>1, ViewType
  <1>6. old[n] = [type |-> Name[n], state |-> "open"]
    BY <1>1 DEF View, State
  <1>7. new = upd
    <2>1. \A i \in 1 .. n : i # n => status'[i] = status[i]
      BY <1>1, <1>2, RidePageOK DEF Events
    <2>2. [old[n] EXCEPT !.state = st] = [type |-> Name[n], state |-> st]
      BY <1>6
    <2>3. new[n] = [type |-> Name[n], state |-> st]
      BY <1>1, <1>2 DEF View
    <2>4. \A i \in 1 .. n : i # n => new[i] = old[i]
      BY <2>1 DEF View
    <2>5. old = [i \in 1 .. n |-> old[i]] /\ new = [i \in 1 .. n |-> new[i]]
      BY DEF View
    <2> HIDE DEF old, new, st
    <2>6. upd = [i \in 1 .. n |-> IF i = n THEN [old[n] EXCEPT !.state = st] ELSE old[i]]
      BY <2>5
    <2> HIDE DEF upd
    <2>7. upd = [i \in 1 .. n |-> new[i]]
      BY <2>2, <2>3, <2>4, <2>6
    <2>8. QED
      BY <2>5, <2>7
  <1>8. old # <<>>
    BY <1>1, <1>5
  <1>9. Trip(Name)!Settle(st)
    <2>1. Trip(Name)!Last = old[n]
      BY <1>4, <1>5 DEF Trip!Last
    <2> HIDE DEF old, new, st
    <2>2. Trip(Name)!Settle(st) <=>
            Log(Name) # <<>> /\ Trip(Name)!Last.state = "open"
              /\ Log(Name)' = [Log(Name) EXCEPT ![Len(Log(Name))].state = st]
      BY DEF Trip!Settle
    <2>3. QED
      BY <1>4, <1>5, <1>6, <1>7, <1>8, <2>1, <2>2
  <1>10. Trip(Name)!Next
    <2>1. CASE to = "PROCESSED"
      BY <1>9, <2>1 DEF Trip!Next, State
    <2>2. CASE to = "FAILED"
      <3>1. Trip(Name)!Last.type \in Types(Name) /\ Log(Name) # <<>>
        BY <1>1, <1>4, <1>5, <1>6, <1>8, RidePageOK DEF Trip!Last, Types, Events
      <3>2. QED
        BY <1>9, <2>2, <3>1 DEF Trip!Next, Trip!Fail, State
    <2>3. QED
      BY <2>1, <2>2 DEF Final
  <1>11. QED
    BY <1>3, <1>10 DEF RideStep

\* The next one begins.
LEMMA LogOpens ==
    ASSUME IInv, IInv', NEW Name, Naming(Name), NEW n, IsBegun(n), n + 1 \in Events,
           n > 0 => status[n] = "PROCESSED",
           status' = [status EXCEPT ![n + 1] = "AWAITING_PROCESSING"]
    PROVE  RideStep(Name)
  <1> DEFINE m   == n + 1
             old == View(Name, status, n)
             new == View(Name, status', m)
             ent == [type |-> Name[m], state |-> "open"]
             app == Append(old, ent)
             Entries == [type : Types(Name), state : {"open", "done", "failed"}]
  <1>1. /\ n \in 0 .. Steps /\ n \in Nat /\ m \in Nat /\ m \in 0 .. Steps /\ m \in Events
        /\ m \in 1 .. m /\ n # m
    BY RidePageOK DEF IsBegun, Events
  <1>2. /\ status'[m] = "AWAITING_PROCESSING"
        /\ \A i \in Events : i # m => status'[i] = status[i]
    BY <1>1 DEF IInv, Typed
  <1>3. IsBegun(m)'
    <2>1. \A i \in Events : i <= m <=> i <= n \/ i = m
      BY <1>1, EventsType
    <2> HIDE DEF m
    <2>2. QED
      BY <1>1, <1>2, <2>1 DEF IsBegun
  <1>4. Log(Name) = old /\ Log(Name)' = new
    BY <1>3, BegunIs, BegunIsNext DEF BegunUnique, Log
  <1>5. ent \in Entries
    BY <1>1 DEF Types
  <1>6. old \in Seq(Entries) /\ Len(old) = n /\ new \in Seq(Entries) /\ Len(new) = m
    BY <1>1, ViewType
  <1>7. app \in Seq(Entries) /\ Len(app) = m /\ app[m] = ent
        /\ \A i \in 1 .. n : app[i] = old[i]
    <2> HIDE DEF old, ent, Entries
    <2>1. QED
      BY <1>1, <1>5, <1>6, AppendProperties
  <1>8. \A i \in 1 .. m : new[i] = app[i]
    <2>1. \A i \in 1 .. n : i \in Events /\ i # m
      BY <1>1, RidePageOK DEF Events
    <2>2. \A i \in 1 .. n : new[i] = old[i]
      BY <1>1, <1>2, <2>1 DEF View
    <2>3. new[m] = ent
      BY <1>1, <1>2 DEF View, State
    <2> HIDE DEF new, app, old, ent
    <2>4. QED
      BY <1>1, <1>7, <2>2, <2>3
  <1>9. new = app
    <2> HIDE DEF new, app, Entries, m
    <2>1. QED
      BY <1>6, <1>7, <1>8, SeqEqual
  <1>10. Trip(Name)!Open(Name[m])
    BY <1>4, <1>9 DEF Trip!Open
  <1>11. Trip(Name)!Next
    <2>1. CASE n = 0
      <3>1. old = <<>>
        BY <1>6, <2>1, EmptySeq
      <3>2. QED
        BY <1>4, <1>10, <2>1, <3>1 DEF Trip!Next, Trip!Request
    <2>2. CASE n > 0
      <3>1. n \in Events /\ n < Steps /\ n \in 1 .. n
        BY <1>1, <2>2, RidePageOK DEF Events
      <3>2. old[n] = [type |-> Name[n], state |-> "done"] /\ old # <<>>
        <4>1. old[n] = [type |-> Name[n], state |-> "done"]
          BY <2>2, <3>1 DEF View, State
        <4>2. QED
          BY <1>6, <2>2, <4>1
      <3>3. Number(Name, Name[n]) = n
        BY <3>1 DEF Number, Naming
      <3>4. After(Name)[Name[n]] = Name[m] /\ Name[m] # ""
        BY <1>1, <3>1, <3>3 DEF After, Types, Naming
      <3>5. Trip(Name)!Last = old[n]
        BY <1>4, <1>6 DEF Trip!Last
      <3> DEFINE last == Trip(Name)!Last
      <3>6. last.state = "done" /\ After(Name)[last.type] = Name[m]
        <4>1. last = [type |-> Name[n], state |-> "done"]
          BY <3>2, <3>5
        <4> HIDE DEF last
        <4>2. last.state = "done" /\ last.type = Name[n]
          BY <4>1
        <4>3. QED
          BY <3>4, <4>2
      <3> HIDE DEF old, new, m
      <3>7. Trip(Name)!Advance
        BY <1>4, <1>10, <3>2, <3>4, <3>6 DEF Trip!Advance, Trip!Open
      <3>8. QED
        BY <3>7 DEF Trip!Next
    <2>3. QED
      BY <1>1, <2>1, <2>2
  <1>12. QED
    BY <1>3, <1>11 DEF RideStep

\* Steps of the engine, one by one.
LEMMA EngineStep ==
    ASSUME IInv, IInv', NEW Name, Naming(Name), NEW n, IsBegun(n), NEW e \in Events,
           \/ \E j \in Jobs : Dispatch(j, e)
           \/ Acquire(e) \/ ReportSuccess(e) \/ Retry(e) \/ Fail(e)
    PROVE  RideStep(Name)
  <1>1. ASSUME NEW to \in {"AWAITING_PROCESSING", "DISPATCHED", "BEING_PROCESSED"},
               status' = [status EXCEPT ![e] = to],
               status[e] \in {"AWAITING_PROCESSING", "DISPATCHED", "BEING_PROCESSED"}
        PROVE  RideStep(Name)
    <2>1. \A d \in Events : State(status'[d]) = State(status[d])
                            /\ (status'[d] = "ABSENT" <=> status[d] = "ABSENT")
      BY <1>1 DEF IInv, Typed, State
    <2>2. QED
      BY <2>1, LogStays
  <1>2. CASE (\E j \in Jobs : Dispatch(j, e)) \/ Acquire(e) \/ Retry(e)
    BY <1>1, <1>2 DEF Dispatch, Acquire, Retry, Move
  <1>3. CASE ReportSuccess(e) \/ Fail(e)
    BY <1>3, LogSettles DEF ReportSuccess, Fail, Move, Final
  <1>4. QED
    BY <1>2, <1>3

LEMMA PublishStep ==
    ASSUME IInv, IInv', NEW Name, Naming(Name), NEW n, IsBegun(n), NEW c \in calls,
           PublishSpinoff(c)
    PROVE  RideStep(Name)
  <1>1. /\ c.ev \in Events /\ status[c.ev] = "PROCESSED"
        /\ c.ev + 1 \in Events /\ status[c.ev + 1] = "ABSENT"
    BY DEF PublishSpinoff, IInv, Typed, Calls, Spinoffs
  <1>2. n = c.ev
    BY <1>1, RidePageOK DEF IsBegun, Events
  <1>3. CASE status' = status
    BY <1>3, LogStays
  <1>4. CASE status' = [status EXCEPT ![c.ev + 1] = "AWAITING_PROCESSING"]
    BY <1>1, <1>2, <1>4, LogOpens
  <1>5. QED
    BY <1>3, <1>4 DEF PublishSpinoff

LEMMA RequestStep ==
    ASSUME IInv, IInv', NEW Name, Naming(Name), NEW n, IsBegun(n), RequestRide
    PROVE  RideStep(Name)
  <1>1. n = 0
    BY EventsType, RidePageOK DEF RequestRide, IsBegun
  <1>2. n + 1 \in Events /\ status' = [status EXCEPT ![n + 1] = "AWAITING_PROCESSING"]
    BY <1>1, EventsType DEF RequestRide
  <1>3. ~(n > 0)
    BY <1>1
  <1>4. QED
    BY <1>2, <1>3, LogOpens

LEMMA EveryRideStep ==
    ASSUME IInv, IInv', NEW Name, Naming(Name), NEW n, IsBegun(n), [Next]_vars
    PROVE  RideStep(Name)
  <1>1. ASSUME UNCHANGED status
        PROVE  RideStep(Name)
    BY <1>1, LogStays
  <1>2. CASE UNCHANGED vars \/ CreateRide
    BY <1>1, <1>2 DEF vars, CreateRide
  <1>3. CASE RequestRide
    BY <1>3, RequestStep
  <1>4. ASSUME NEW e \in Events,
               \/ \E j \in Jobs : Dispatch(j, e)
               \/ Acquire(e) \/ ReportSuccess(e) \/ Retry(e) \/ Fail(e)
        PROVE  RideStep(Name)
    BY <1>4, EngineStep
  <1>5. ASSUME NEW c \in calls, Continue(c) \/ Drop(c)
        PROVE  RideStep(Name)
    <2>1. CASE PublishSpinoff(c)
      BY <2>1, PublishStep
    <2>2. CASE Reload(c) \/ Deliver(c) \/ Drop(c)
      BY <1>1, <2>2 DEF Reload, Deliver, Drop
    <2>3. QED
      BY <1>5, <2>1, <2>2 DEF Continue
  <1>6. QED
    BY <1>2, <1>3, <1>4, <1>5 DEF Next

\* What the page watches is the ride that Rides implements as well: in the
\* order of the steps, whatever they are called, one open at a time, each
\* begun once and only after the one before it is done.
THEOREM PageWatchesARide ==
    ASSUME NEW CONSTANT Name, Naming(Name)
    PROVE  Spec => Trip(Name)!Spec
  <1> DEFINE Some == \E n : IsBegun(n)
  <1>1. Init => Some /\ Trip(Name)!Init
    <2> SUFFICES ASSUME Init
                 PROVE  Some /\ Log(Name) = <<>>
      BY DEF Trip!Init
    <2>1. IsBegun(0)
      BY RidePageOK DEF Init, IsBegun, Events
    <2>2. Begun = 0
      BY <2>1, IInvInit, BegunIs DEF BegunUnique
    <2>3. View(Name, status, 0) = <<>>
      <3>1. 0 \in 0 .. Steps
        BY RidePageOK
      <3> DEFINE view == View(Name, status, 0)
                 Entries == [type : Types(Name), state : {"open", "done", "failed"}]
      <3>2. view \in Seq(Entries) /\ Len(view) = 0
        BY <3>1, ViewType
      <3> HIDE DEF view, Entries
      <3>3. view = <<>>
        BY <3>2, EmptySeq
      <3>4. QED
        BY <3>3 DEF view
    <2>4. QED
      BY <2>1, <2>2, <2>3 DEF Log
  <1>2. IInv /\ IInv' /\ Some /\ [Next]_vars => Some' /\ [Trip(Name)!Next]_(Log(Name))
    BY EveryRideStep DEF RideStep
  <1> HIDE DEF Some
  <1>3. QED
    BY <1>1, <1>2, IInvInit, IInvStep, PTL DEF Spec, Trip!Spec
=============================================================================
