------------------------- MODULE RedisIdWorkerProofs -------------------------
(***************************************************************************)
(* Uniqueness of the ids, for every number of calls, days and restarts.    *)
(* The second and the count of an id can be told apart (JoinInjective).    *)
(* Equal seconds mean equal epochs (ClockInv), and within an epoch a day's *)
(* counter answers no two calls alike (CountInv).                          *)
(***************************************************************************)
EXTENDS RedisIdWorker, TLAPS

\* The shift leaves room for the count: a joined pair has one second.
LEMMA LaterSecondLargerId ==
    ASSUME NEW s \in Nat, NEW t \in Nat, NEW a \in Counts, NEW b \in Counts, s < t
    PROVE  s * CountLimit + a < t * CountLimit + b
<1>1. CountLimit \in Nat /\ CountLimit > 0
  BY CountPositive
<1>2. PICK d \in Nat : t = s + 1 + d
  <2>1. t - s - 1 \in Nat /\ t = s + 1 + (t - s - 1)
    OBVIOUS
  <2> QED
    BY <2>1
<1>3. t * CountLimit = s * CountLimit + CountLimit + d * CountLimit
  BY <1>1, <1>2
<1>4. d * CountLimit \in Nat /\ s * CountLimit \in Nat
  BY <1>1
<1>5. a < CountLimit /\ b >= 0 /\ a \in Int /\ b \in Int
  BY <1>1 DEF Counts
<1> QED
  BY <1>1, <1>3, <1>4, <1>5

LEMMA JoinInjective ==
    ASSUME NEW s \in Nat, NEW t \in Nat, NEW a \in Counts, NEW b \in Counts,
           s * CountLimit + a = t * CountLimit + b
    PROVE  s = t /\ a = b
<1>1. CountLimit \in Nat /\ a \in Int /\ b \in Int /\ s * CountLimit \in Int /\ t * CountLimit \in Int
  BY CountPositive DEF Counts
<1>2. ~(s < t)
  <2>1. SUFFICES ASSUME s < t PROVE FALSE
    OBVIOUS
  <2>2. s * CountLimit + a < t * CountLimit + b
    BY <2>1, LaterSecondLargerId
  <2> QED
    BY <1>1, <2>2
<1>3. ~(t < s)
  <2>1. SUFFICES ASSUME t < s PROVE FALSE
    OBVIOUS
  <2>2. t * CountLimit + b < s * CountLimit + a
    BY <2>1, LaterSecondLargerId
  <2> QED
    BY <1>1, <2>2
<1>4. s = t
  BY <1>2, <1>3
<1> QED
  BY <1>1, <1>4

-----------------------------------------------------------------------------
\* Every variable keeps its type.
LEMMA TypeCorrect == Spec => []TypeOK
<1> USE DayPositive, CountPositive, SkewBounded, RestartIsSlow, TimesBounded
<1>1. Init => TypeOK
  BY DEF Init, TypeOK, Epochs, Times
<1>2. TypeOK /\ [Next]_vars => TypeOK'
  <2> SUFFICES ASSUME TypeOK, [Next]_vars PROVE TypeOK'
    OBVIOUS
  <2>1. CASE Tick
    BY <2>1 DEF TypeOK, Tick
  <2>2. ASSUME NEW r \in Requests, ReadClock(r) PROVE TypeOK'
    BY <2>2 DEF TypeOK, ReadClock, Times
  <2>3. ASSUME NEW r \in Requests, Increment(r) PROVE TypeOK'
    <3>1. Day(second[r]) \in Days
      BY DEF TypeOK, Days
    <3>2. icr[Day(second[r])] + 1 \in Nat
      BY <3>1 DEF TypeOK
    <3> QED
      BY <2>3, <3>1, <3>2 DEF TypeOK, Increment
  <2>4. CASE RedisRestart
    BY <2>4 DEF TypeOK, RedisRestart, Epochs
  <2>5. CASE UNCHANGED vars
    BY <2>5 DEF TypeOK, vars
  <2> QED
    BY <2>1, <2>2, <2>3, <2>4, <2>5 DEF Next
<1> QED
  BY <1>1, <1>2, PTL DEF Spec

LEMMA ClocksInOrder == Spec => []ClockInv
<1> USE SkewBounded, RestartIsSlow, TimesBounded
<1>1. Init => ClockInv
  BY DEF Init, ClockInv, HasSecond
<1>2. TypeOK /\ ClockInv /\ [Next]_vars => ClockInv'
  <2> SUFFICES ASSUME TypeOK, ClockInv, [Next]_vars PROVE ClockInv'
    OBVIOUS
  <2> USE DEF TypeOK, ClockInv, HasSecond, Times, Epochs
  <2>1. CASE Tick
    BY <2>1 DEF Tick
  <2>2. ASSUME NEW r \in Requests, ReadClock(r) PROVE ClockInv'
    <3>1. PICK s \in now..now + MaxSkew : second' = [second EXCEPT ![r] = s]
      BY <2>2 DEF ReadClock
    <3>2. /\ \A q \in Requests : HasSecond(q)' /\ q # r => HasSecond(q)
          /\ \A q \in Requests \ {r} :
                second'[q] = second[q] /\ readEpoch'[q] = readEpoch[q]
          /\ second'[r] = s /\ readEpoch'[r] = epoch
          /\ now' = now /\ epoch' = epoch
      BY <2>2, <3>1 DEF ReadClock
    <3>3. \A q \in Requests : HasSecond(q)' =>
             /\ second'[q] <= now' + MaxSkew
             /\ readEpoch'[q] <= epoch'
             /\ readEpoch'[q] < epoch' => second'[q] < now'
      BY <3>1, <3>2
    <3>4. ASSUME NEW p \in Requests, NEW q \in Requests, HasSecond(p)', HasSecond(q)',
                 readEpoch'[p] < readEpoch'[q]
          PROVE  second'[p] < second'[q]
      <4>1. CASE p = r
        BY <3>2, <3>4, <4>1
      <4>2. CASE p # r /\ q = r
        BY <3>1, <3>2, <3>4, <4>2
      <4>3. CASE p # r /\ q # r
        BY <3>2, <3>4, <4>3
      <4> QED
        BY <4>1, <4>2, <4>3
    <3> QED
      BY <3>3, <3>4
  <2>3. ASSUME NEW r \in Requests, Increment(r) PROVE ClockInv'
    <3>1. \A q \in Requests : HasSecond(q)' => HasSecond(q)
      BY <2>3 DEF Increment
    <3> QED
      BY <2>3, <3>1 DEF Increment
  <2>4. CASE RedisRestart
    BY <2>4 DEF RedisRestart
  <2>5. CASE UNCHANGED vars
    BY <2>5 DEF vars
  <2> QED
    BY <2>1, <2>2, <2>3, <2>4, <2>5 DEF Next
<1> QED
  BY <1>1, <1>2, TypeCorrect, PTL DEF Spec

LEMMA CountsDiffer == Spec => []CountInv
<1> USE TimesBounded
<1>1. Init => CountInv
  BY DEF Init, CountInv
<1>2. TypeOK /\ CountInv /\ [Next]_vars => CountInv'
  <2> SUFFICES ASSUME TypeOK, CountInv, [Next]_vars PROVE CountInv'
    OBVIOUS
  <2>1. CASE Tick
    BY <2>1 DEF Tick, CountInv
  <2>2. ASSUME NEW r \in Requests, ReadClock(r) PROVE CountInv'
    <3>1. \A q \in Requests : pc'[q] = "done" => pc[q] = "done" /\ second'[q] = second[q]
      BY <2>2 DEF ReadClock, TypeOK
    <3> QED
      BY <2>2, <3>1 DEF ReadClock, CountInv
  <2>3. ASSUME NEW r \in Requests, Increment(r) PROVE CountInv'
    <3> DEFINE d == Day(second[r])
    <3>1. d \in Days /\ \A q \in Requests : Day(second[q]) \in Days
      BY DEF TypeOK, Days
    <3>2. /\ icr' = [icr EXCEPT ![d] = icr[d] + 1]
          /\ epoch' = epoch /\ second' = second
          /\ count'[r] = icr[d] + 1 /\ incrEpoch'[r] = epoch
          /\ \A q \in Requests \ {r} :
                pc'[q] = pc[q] /\ count'[q] = count[q] /\ incrEpoch'[q] = incrEpoch[q]
      BY <2>3 DEF Increment, TypeOK
    <3>3. \A e \in Days : icr[e] \in Int /\ icr'[e] >= icr[e] /\ icr'[e] \in Int
      BY <3>1, <3>2 DEF TypeOK
    <3>4. \A q \in Requests : pc'[q] = "done" =>
             /\ incrEpoch'[q] <= epoch'
             /\ incrEpoch'[q] = epoch' => count'[q] <= icr'[Day(second'[q])]
      <4>1. TAKE q \in Requests
      <4>2. CASE q = r
        <5>1. icr'[d] = icr[d] + 1
          BY <3>1, <3>2 DEF TypeOK
        <5> QED
          BY <3>1, <3>2, <3>3, <4>2, <5>1 DEF TypeOK, Epochs
      <4>3. CASE q # r
        BY <3>1, <3>2, <3>3, <4>3 DEF CountInv, TypeOK
      <4> QED
        BY <4>2, <4>3
    <3>5. ASSUME NEW q \in Requests, q # r, pc[q] = "done", incrEpoch[q] = epoch,
                 Day(second[q]) = d
          PROVE  count[q] # icr[d] + 1
      BY <3>1, <3>3, <3>5 DEF CountInv, TypeOK
    <3>6. ASSUME NEW p \in Requests, NEW q \in Requests, pc'[p] = "done", pc'[q] = "done",
                 incrEpoch'[p] = incrEpoch'[q], Day(second'[p]) = Day(second'[q]),
                 count'[p] = count'[q]
          PROVE  p = q
      <4>1. CASE p = r
        BY <3>2, <3>5, <3>6, <4>1
      <4>2. CASE q = r
        BY <3>2, <3>5, <3>6, <4>2
      <4>3. CASE p # r /\ q # r
        BY <3>2, <3>6, <4>3 DEF CountInv
      <4> QED
        BY <4>1, <4>2, <4>3
    <3> QED
      BY <3>4, <3>6 DEF CountInv
  <2>4. CASE RedisRestart
    BY <2>4 DEF RedisRestart, CountInv, TypeOK, Epochs
  <2>5. CASE UNCHANGED vars
    BY <2>5 DEF vars, CountInv
  <2> QED
    BY <2>1, <2>2, <2>3, <2>4, <2>5 DEF Next
<1> QED
  BY <1>1, <1>2, TypeCorrect, PTL DEF Spec

\* No two calls of nextId get the same id, on whatever instances and days, unless
\* a restart of Redis cut one of them in two or the count of its day outgrew its bits.
THEOREM UniqueIdsTheorem == Spec => []UniqueIds
<1>1. TypeOK /\ ClockInv /\ CountInv => UniqueIds
  <2> SUFFICES ASSUME TypeOK, ClockInv, CountInv,
                      NEW r \in Requests, NEW q \in Requests,
                      Undisturbed(r), Undisturbed(q), IdOf(r) = IdOf(q)
               PROVE  r = q
    BY DEF UniqueIds
  <2>1. /\ second[r] \in Nat /\ second[q] \in Nat
        /\ count[r] \in Counts /\ count[q] \in Counts
        /\ readEpoch[r] \in Nat /\ readEpoch[q] \in Nat
    BY SkewBounded, TimesBounded DEF TypeOK, Times, Epochs, Undisturbed
  <2>2. second[r] = second[q] /\ count[r] = count[q]
    BY <2>1, JoinInjective DEF IdOf
  <2>3. readEpoch[r] = readEpoch[q]
    <3>1. ~(second[r] < second[q]) /\ ~(second[q] < second[r])
      BY <2>1, <2>2
    <3> QED
      BY <2>1, <3>1 DEF ClockInv, HasSecond, Undisturbed
  <2> QED
    BY <2>2, <2>3 DEF CountInv, Undisturbed
<1> QED
  BY <1>1, TypeCorrect, ClocksInOrder, CountsDiffer, PTL
=============================================================================
