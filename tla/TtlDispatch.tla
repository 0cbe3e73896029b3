----------------------------- MODULE TtlDispatch -----------------------------
(***************************************************************************)
(* The time to live of a dispatched message: how the dispatcher chooses it *)
(* from the time the event has left, and how the subscriber enforces it.   *)
(* Time advances in ticks, Second of them to a second, because both sides  *)
(* cut fractions off: the dispatcher from the remaining time, RFC 3339     *)
(* from the moment of publication.                                         *)
(***************************************************************************)
EXTENDS Integers, FiniteSets

CONSTANTS
    Second,    \* ticks in a second
    Buckets,   \* ttlBuckets, in seconds
    Horizon    \* bound: the clock stops here

Longest(S) == CHOOSE b \in S : \A a \in S : a <= b
Shortest(S) == CHOOSE b \in S : \A a \in S : b <= a

ASSUME ClockOK == Second \in Nat \ {0} /\ Horizon \in Nat

ASSUME BucketsOK ==
    /\ Buckets \subseteq Nat
    /\ \E b \in Buckets : \A a \in Buckets : a <= b
    /\ \A S \in SUBSET Buckets : S # {} => \E b \in S : \A a \in S : b <= a

VARIABLES
    now,    \* the clock, in ticks
    due,    \* event_processing_due_date of the event
    msg,    \* the message: its headers Nats-TTL and Published-At, in seconds
    sent,   \* history: the tick at which it was published
    fate    \* what became of it

vars == <<now, due, msg, sent, fate>>

NoMsg == [ttl |-> 0, published |-> 0]

Init ==
    /\ now \in 0 .. Horizon
    /\ due \in 0 .. Horizon
    /\ msg = NoMsg
    /\ sent = 0
    /\ fate = "none"

\* mutant of SelectTTLBucket: the first bucket above, not at, the remaining time
NextTTLBucket(remaining) ==
    LET fits == {b \in Buckets : b > remaining \div Second}
    IN  IF fits # {} THEN Shortest(fits) ELSE Longest(Buckets)

\* mutant of SelectTTLBucket: the largest bucket below the remaining time
LowerTTLBucket(remaining) ==
    LET fits == {b \in Buckets : b <= remaining \div Second}
    IN  IF fits # {} THEN Longest(fits) ELSE Shortest(Buckets)

\* int(remaining.Seconds()), then the first bucket of the ascending list that
\* is large enough, or the last one.
SelectTTLBucket(remaining) ==
    LET fits == {b \in Buckets : b >= remaining \div Second}
    IN  IF fits # {} THEN Shortest(fits) ELSE Longest(Buckets)

\* An event already expired is refused.
Dispatch ==
    /\ fate = "none"
    /\ now < due
    /\ msg' = [ttl |-> SelectTTLBucket(due - now), published |-> now \div Second]
    /\ sent' = now
    /\ fate' = "sent"
    /\ UNCHANGED <<now, due>>

Elapsed == now - msg.published * Second

\* time.Since(publishedAt) > ttl
PastTTL == Elapsed > msg.ttl * Second

HandleMessage ==
    /\ fate = "sent"
    /\ fate' = IF PastTTL THEN "discarded" ELSE "accepted"
    /\ UNCHANGED <<now, due, msg, sent>>

Tick ==
    /\ now < Horizon
    /\ fate \in {"none", "sent"}
    /\ now' = now + 1
    /\ UNCHANGED <<due, msg, sent, fate>>

Next == Dispatch \/ HandleMessage \/ Tick

Spec == Init /\ [][Next]_vars

-----------------------------------------------------------------------------
(* Properties.                                                             *)

\* Every variable keeps its type; the TTL of a message is one of the buckets.
TypeOK ==
    /\ now \in Nat /\ due \in Nat /\ sent \in Nat
    /\ msg \in [ttl: Nat, published: Nat]
    /\ fate \in {"none", "sent", "accepted", "discarded"}
    /\ fate # "none" => msg.ttl \in Buckets

\* The longest bucket is long enough for the event.
Covered == due - sent < (Longest(Buckets) + 1) * Second

\* A message is thrown away with its event still alive only within the two
\* fractions of a second that are cut off before the deadline -- or if the
\* event had more time left than the longest bucket.
DiscardedNearDeadline ==
    fate = "discarded" /\ Covered => now > due - 2 * (Second - 1)

\* A message accepted after the deadline of its event is late by less than one
\* bucket: no bucket that covers the remaining time would have refused it.
LateByLessThanABucket ==
    fate = "accepted" =>
        \A b \in Buckets : b * Second >= due - sent => now <= sent + b * Second
=============================================================================
