-------------------------- MODULE TtlDispatchProofs --------------------------
(***************************************************************************)
(* Proofs about the time to live of messages, for every length of a tick   *)
(* and every set of buckets that has a longest and shortest elements.      *)
(***************************************************************************)
EXTENDS TtlDispatch, TLAPS

USE ClockOK, BucketsOK

\* Division by Second cuts off less than a second.
LEMMA CutOff ==
    ASSUME NEW t \in Nat
    PROVE  /\ t \div Second \in Nat
           /\ (t \div Second) * Second <= t
           /\ t <= (t \div Second) * Second + (Second - 1)
  OBVIOUS

\* A product with Second respects the order.
LEMMA Monotone ==
    ASSUME NEW a \in Nat, NEW b \in Nat, a <= b
    PROVE  a * Second <= b * Second
  OBVIOUS

LEMMA LongestIs ==
    /\ Longest(Buckets) \in Buckets
    /\ \A a \in Buckets : a <= Longest(Buckets)
  BY DEF Longest

LEMMA ShortestIs ==
    ASSUME NEW S \in SUBSET Buckets, S # {}
    PROVE  /\ Shortest(S) \in S
           /\ \A a \in S : Shortest(S) <= a
  <1>1. \E b \in S : \A a \in S : b <= a
    OBVIOUS
  <1>2. QED
    BY <1>1 DEF Shortest

\* The bucket chosen is one of the list; it covers the whole seconds left if
\* any bucket does, and no bucket that covers them is shorter.
LEMMA Selected ==
    ASSUME NEW r \in Nat
    PROVE  /\ SelectTTLBucket(r) \in Buckets
           /\ r \div Second <= Longest(Buckets) => r \div Second <= SelectTTLBucket(r)
           /\ \A b \in Buckets : r \div Second <= b => SelectTTLBucket(r) <= b
  <1> DEFINE fits == {b \in Buckets : b >= r \div Second}
  <1>1. r \div Second \in Nat
    BY CutOff
  <1>2. CASE fits # {}
    <2>1. SelectTTLBucket(r) = Shortest(fits)
      BY <1>2 DEF SelectTTLBucket
    <2>2. Shortest(fits) \in fits /\ \A a \in fits : Shortest(fits) <= a
      BY <1>2, ShortestIs
    <2>3. QED
      BY <1>1, <2>1, <2>2
  <1>3. CASE fits = {}
    <2>1. SelectTTLBucket(r) = Longest(Buckets)
      BY <1>3 DEF SelectTTLBucket
    <2>2. \A b \in Buckets : ~ (b >= r \div Second)
      BY <1>3
    <2>3. QED
      BY <1>1, <2>1, <2>2, LongestIs
  <1>4. QED
    BY <1>2, <1>3

-----------------------------------------------------------------------------
\* What a message carries, from its publication on.
Published ==
    /\ sent < due /\ sent <= now
    /\ msg.ttl = SelectTTLBucket(due - sent)
    /\ msg.published = sent \div Second

Inv ==
    /\ TypeOK
    /\ fate # "none" => Published
    /\ fate = "discarded" => PastTTL
    /\ fate = "accepted" => ~PastTTL

LEMMA InitInv == Init => Inv
  BY DEF Init, Inv, TypeOK, NoMsg

LEMMA NextInv == Inv /\ [Next]_vars => Inv'
  <1> SUFFICES ASSUME Inv, [Next]_vars PROVE Inv'
    OBVIOUS
  <1> USE DEF Inv
  <1>1. CASE Dispatch
    <2>1. due - now \in Nat
      BY <1>1 DEF Dispatch, TypeOK
    <2>2. SelectTTLBucket(due - now) \in Buckets
      BY <2>1, Selected
    <2>3. now \div Second \in Nat
      BY CutOff DEF TypeOK
    <2>4. TypeOK'
      BY <1>1, <2>2, <2>3 DEF Dispatch, TypeOK
    <2>5. Published'
      BY <1>1 DEF Dispatch, TypeOK, Published
    <2>6. QED
      BY <1>1, <2>4, <2>5 DEF Dispatch
  <1>2. CASE HandleMessage
    BY <1>2 DEF HandleMessage, TypeOK, Published, PastTTL, Elapsed
  <1>3. CASE Tick
    BY <1>3 DEF Tick, TypeOK, Published, PastTTL, Elapsed
  <1>4. CASE UNCHANGED vars
    BY <1>4 DEF vars, TypeOK, Published, PastTTL, Elapsed
  <1>5. QED
    BY <1>1, <1>2, <1>3, <1>4 DEF Next

LEMMA InvAlways == Spec => []Inv
  BY InitInv, NextInv, PTL DEF Spec

-----------------------------------------------------------------------------
\* The TTL of a message is one of the buckets.
THEOREM TtlIsABucket == Spec => []TypeOK
  BY InvAlways, PTL DEF Inv

\* A message is discarded at most two fractions of a second early.
THEOREM DiscardedLate == Spec => []DiscardedNearDeadline
  <1>1. Inv => DiscardedNearDeadline
    <2> SUFFICES ASSUME Inv, fate = "discarded", Covered
                 PROVE  now > due - 2 * (Second - 1)
      BY DEF DiscardedNearDeadline
    <2> DEFINE r == due - sent
    <2>1. r \in Nat /\ sent \in Nat /\ now \in Nat /\ due \in Nat
      BY DEF Inv, TypeOK, Published
    <2>2. Longest(Buckets) \in Nat /\ r < (Longest(Buckets) + 1) * Second
      BY LongestIs DEF Covered
    <2>3. r \div Second <= Longest(Buckets)
      BY <2>1, <2>2
    <2>4. r \div Second <= msg.ttl /\ msg.ttl \in Nat
      BY <2>1, <2>3, Selected DEF Inv, TypeOK, Published
    <2>5. (r \div Second) * Second <= msg.ttl * Second
      BY <2>1, <2>4, CutOff, Monotone
    <2>6. now - (sent \div Second) * Second > msg.ttl * Second
      BY DEF Inv, Published, PastTTL, Elapsed
    <2>7. /\ r <= (r \div Second) * Second + (Second - 1)
          /\ sent <= (sent \div Second) * Second + (Second - 1)
          /\ r \div Second \in Nat /\ sent \div Second \in Nat
      BY <2>1, CutOff
    <2>8. QED
      BY <2>1, <2>4, <2>5, <2>6, <2>7
  <1>2. QED
    BY <1>1, InvAlways, PTL

\* A message accepted late is late by less than a bucket.
THEOREM AcceptedInTime == Spec => []LateByLessThanABucket
  <1>1. Inv => LateByLessThanABucket
    <2> SUFFICES ASSUME Inv, fate = "accepted", NEW b \in Buckets, b * Second >= due - sent
                 PROVE  now <= sent + b * Second
      BY DEF LateByLessThanABucket
    <2> DEFINE r == due - sent
    <2>1. r \in Nat /\ sent \in Nat /\ now \in Nat /\ b \in Nat
      BY DEF Inv, TypeOK, Published
    <2>2. r \div Second <= b
      BY <2>1
    <2>3. msg.ttl <= b /\ msg.ttl \in Nat
      BY <2>1, <2>2, Selected DEF Inv, TypeOK, Published
    <2>4. msg.ttl * Second <= b * Second
      BY <2>1, <2>3, Monotone
    <2>5. now - (sent \div Second) * Second <= msg.ttl * Second
      BY <2>1, <2>3 DEF Inv, Published, PastTTL, Elapsed
    <2>6. (sent \div Second) * Second <= sent /\ sent \div Second \in Nat
      BY <2>1, CutOff
    <2>7. QED
      BY <2>1, <2>3, <2>4, <2>5, <2>6
  <1>2. QED
    BY <1>1, InvAlways, PTL
=============================================================================
