------------------------------ MODULE RidePage ------------------------------
(***************************************************************************)
(* What the page of the ride demo shows of a ride.  Every call that moves  *)
(* an event on reloads the row afterwards and has the hub broadcast what   *)
(* it finds; the calls are goroutines of their own, so notifications carry *)
(* states newer than the one they report and overtake each other.  The     *)
(* page keeps nothing but what they say, and only for rides it knows from  *)
(* the answer to its own POST.                                             *)
(***************************************************************************)
EXTENDS Naturals, FiniteSets

CONSTANTS
    Steps,       \* number of steps of a ride, each an event: 1 .. Steps
    MaxRetries   \* bound on the failed attempts that are repeated

ASSUME RidePageOK == Steps \in Nat \ {0} /\ MaxRetries \in Nat

Events == 1 .. Steps
Jobs   == {"awaiting", "scheduled"}

VARIABLES
    status,    \* status[e] of the row of step e
    retries,   \* attempts repeated so far
    calls,     \* goroutines between their UPDATE and the end of their broadcast
    page,      \* the page's record of the ride
    missed     \* history: a report that ended a step was not shown

vars == <<status, retries, calls, page, missed>>

Final == {"PROCESSED", "FAILED"}

\* by: the job, or the report, that moved event ev; saw: the row it reloaded
Calls == [by: Jobs \cup {"retry", "end"}, ev: Events,
          at: {"spinoff", "load", "notify"}, saw: {"?", "AWAITING_PROCESSING", "DISPATCHED",
                                                   "BEING_PROCESSED"} \cup Final]

\* known: createRide was called; step: currentStep, the number of steps done
Page == [known: BOOLEAN, step: 0 .. Steps, done: BOOLEAN, failed: BOOLEAN]

Init ==
    /\ status = [e \in Events |-> "ABSENT"]
    /\ retries = 0 /\ calls = {}
    /\ page = [known |-> FALSE, step |-> 0, done |-> FALSE, failed |-> FALSE]
    /\ missed = FALSE

-----------------------------------------------------------------------------
(* The engine.  Publications and permits are broadcast too; what they say  *)
(* does not show on the page, and they are over before the event moves on. *)

\* mutant of Call: the row is not reloaded, the notification says what it was
CallWithOldRow(by, e, at) == [by |-> by, ev |-> e, at |-> "notify", saw |-> status[e]]

Call(by, e, at) == [by |-> by, ev |-> e, at |-> at, saw |-> "?"]

\* Event e moves on; call c goes on after it, unless its like is still under way.
Move(e, from, to, c) ==
    /\ status[e] \in from
    /\ status' = [status EXCEPT ![e] = to]
    /\ \A d \in calls : d.by # c.by \/ (d.by \notin Jobs /\ d.ev # e)
    /\ calls' = calls \cup {c}
    /\ UNCHANGED <<page, missed>>

RequestRide ==
    /\ status[1] = "ABSENT"
    /\ status' = [status EXCEPT ![1] = "AWAITING_PROCESSING"]
    /\ UNCHANGED <<retries, calls, page, missed>>

Dispatch(j, e) ==
    /\ Move(e, IF j = "awaiting" THEN {"AWAITING_PROCESSING"}
               ELSE {"AWAITING_PROCESSING", "DISPATCHED"}, "DISPATCHED", Call(j, e, "load"))
    /\ UNCHANGED retries

Acquire(e) ==
    /\ status[e] = "DISPATCHED"
    /\ status' = [status EXCEPT ![e] = "BEING_PROCESSED"]
    /\ UNCHANGED <<retries, calls, page, missed>>

ReportSuccess(e) ==
    /\ Move(e, {"BEING_PROCESSED"}, "PROCESSED",
            Call("end", e, IF e < Steps THEN "spinoff" ELSE "load"))
    /\ UNCHANGED retries

Retry(e) ==
    /\ retries < MaxRetries /\ retries' = retries + 1
    /\ Move(e, {"BEING_PROCESSED"}, "AWAITING_PROCESSING", Call("retry", e, "load"))

Fail(e) ==
    /\ Move(e, {"BEING_PROCESSED"}, "FAILED", Call("end", e, "load"))
    /\ UNCHANGED retries

Goto(c, d) == calls' = (calls \ {c}) \cup {d}

\* A spinoff that cannot be published is logged; the call goes on.
PublishSpinoff(c) ==
    /\ c.at = "spinoff"
    /\ status' \in {status, [status EXCEPT ![c.ev + 1] = "AWAITING_PROCESSING"]}
    /\ Goto(c, [c EXCEPT !.at = "load"])
    /\ UNCHANGED <<retries, page, missed>>

Reload(c) ==
    /\ c.at = "load"
    /\ Goto(c, [c EXCEPT !.at = "notify", !.saw = status[c.ev]])
    /\ UNCHANGED <<status, retries, page, missed>>

-----------------------------------------------------------------------------
(* The page.                                                               *)

\* mutant of OnEventUpdate: the last step is looked for behind the last one
OnEventUpdateOffByOne(e, s) ==
    CASE s = "PROCESSED" -> [page EXCEPT !.step = e, !.done = @ \/ e = Steps + 1]
      [] s = "FAILED"    -> [page EXCEPT !.failed = TRUE]
      [] OTHER           -> page

\* mutant of OnEventUpdate: an attempt that is repeated counts as the end
OnEventUpdateNoRetries(e, s) ==
    CASE s = "PROCESSED" -> [page EXCEPT !.step = e, !.done = @ \/ e = Steps]
      [] s \in {"FAILED", "AWAITING_PROCESSING"} -> [page EXCEPT !.failed = TRUE]
      [] OTHER           -> page

\* onEventUpdate: the step is set, back if need be; the outcome stays.
OnEventUpdate(e, s) ==
    CASE s = "PROCESSED" -> [page EXCEPT !.step = e, !.done = @ \/ e = Steps]
      [] s = "FAILED"    -> [page EXCEPT !.failed = TRUE]
      [] OTHER           -> page

\* A flow the page does not know is ignored.
Deliver(c) ==
    /\ c.at = "notify"
    /\ calls' = calls \ {c}
    /\ page' = IF page.known THEN OnEventUpdate(c.ev, c.saw) ELSE page
    /\ missed' = (missed \/ (~page.known /\ c.by = "end"))
    /\ UNCHANGED <<status, retries>>

\* The row cannot be reloaded, the socket is down for a while, or the hub has
\* dropped the client; nothing is asked for again on reconnection.
Drop(c) ==
    /\ c.at # "spinoff"
    /\ calls' = calls \ {c}
    /\ missed' = (missed \/ c.by = "end")
    /\ UNCHANGED <<status, retries, page>>

\* The answer to the POST: createRide.
CreateRide ==
    /\ status[1] # "ABSENT" /\ ~page.known
    /\ page' = [page EXCEPT !.known = TRUE]
    /\ UNCHANGED <<status, retries, calls, missed>>

Continue(c) == PublishSpinoff(c) \/ Reload(c) \/ Deliver(c)

Next ==
    \/ RequestRide \/ CreateRide
    \/ \E e \in Events : \/ \E j \in Jobs : Dispatch(j, e)
                         \/ Acquire(e) \/ ReportSuccess(e) \/ Retry(e) \/ Fail(e)
    \/ \E c \in calls : Continue(c) \/ Drop(c)

Spec == Init /\ [][Next]_vars

\* Goroutines go on and end in a broadcast, or in a missed one.
Fairness == \A c \in Calls : WF_vars(c \in calls /\ Continue(c))

FairSpec == Spec /\ Fairness

-----------------------------------------------------------------------------
(* Properties.                                                             *)

Paid   == status[Steps] = "PROCESSED"
Failed == \E e \in Events : status[e] = "FAILED"

\* Whatever overtakes what, the page is never ahead of the table: it shows a
\* step as done only if it is, and an outcome only if the ride has come to it.
NeverAhead ==
    /\ \A e \in 1 .. page.step : status[e] = "PROCESSED"
    /\ page.done => Paid
    /\ page.failed => Failed

\* When no call is under way any more and the page was there for every report
\* that ended a step, it shows how the ride ended: late notifications do not
\* undo it, whatever else was dropped.
OutcomeShown ==
    calls = {} /\ ~missed => (page.done <=> Paid) /\ (page.failed <=> Failed)

\* A ride that ends is shown to have ended, unless its page missed it.
EndIsShown == Paid \/ Failed ~> page.done \/ page.failed \/ missed
=============================================================================
