---------------------------- MODULE RedisIdWorker ----------------------------
(***************************************************************************)
(* RedisIdWorker.nextId: an id is the second at which its caller's clock   *)
(* was read, followed by the value of a counter in Redis that starts again *)
(* every day.  Callers run on instances whose clocks differ, and Redis,    *)
(* which keeps snapshots only, may restart with counters of the past.      *)
(***************************************************************************)
EXTENDS Integers, FiniteSets

CONSTANTS
    Requests,      \* calls of nextId with one key prefix
    DayLength,     \* seconds per day
    CountLimit,    \* 2^COUNT_BITS
    MaxSkew,       \* bound on how far an instance's clock is ahead
    Downtime,      \* seconds a restart of Redis takes
    MaxTime,       \* bound on the clock
    MaxRestarts    \* bound on restarts of Redis

ASSUME DayPositive == DayLength \in Nat \ {0}
ASSUME CountPositive == CountLimit \in Nat \ {0}
ASSUME SkewBounded == MaxSkew \in Nat
ASSUME RestartIsSlow == Downtime \in Nat /\ Downtime > MaxSkew
ASSUME TimesBounded == MaxTime \in Nat /\ MaxRestarts \in Nat

VARIABLES
    now,        \* seconds since BEGIN_TIMESTAMP
    icr,        \* [Days -> icr:<prefix>:<day>], 0 when the key is not there
    epoch,      \* number of restarts of Redis so far
    pc,         \* [Requests -> step of nextId]
    second,     \* [Requests -> timestamp it has read]
    count,      \* [Requests -> what INCR answered]
    readEpoch,  \* history: [Requests -> epoch in which it read its clock]
    incrEpoch   \* history: [Requests -> epoch in which it ran INCR]

vars == <<now, icr, epoch, pc, second, count, readEpoch, incrEpoch>>

Times == 0..MaxTime + MaxSkew
Day(s) == s \div DayLength
Days == {Day(s) : s \in Times}
Counts == 0..CountLimit - 1    \* what fits in COUNT_BITS
Epochs == 0..MaxRestarts

\* Every variable keeps its type.
TypeOK ==
    /\ now \in 0..MaxTime
    /\ icr \in [Days -> Nat]
    /\ epoch \in Epochs
    /\ pc \in [Requests -> {"start", "incr", "done"}]
    /\ second \in [Requests -> Times]
    /\ count \in [Requests -> Nat]
    /\ readEpoch \in [Requests -> Epochs]
    /\ incrEpoch \in [Requests -> Epochs]

Init ==
    /\ now = 0
    /\ icr = [d \in Days |-> 0]
    /\ epoch = 0
    /\ pc = [r \in Requests |-> "start"]
    /\ second = [r \in Requests |-> 0]
    /\ count = [r \in Requests |-> 0]
    /\ readEpoch = [r \in Requests |-> 0]
    /\ incrEpoch = [r \in Requests |-> 0]

Tick ==
    /\ now < MaxTime
    /\ now' = now + 1
    /\ UNCHANGED <<icr, epoch, pc, second, count, readEpoch, incrEpoch>>

\* LocalDateTime.now(): the second and the day of the key come from one reading.
ReadClock(r) ==
    /\ pc[r] = "start"
    /\ \E s \in now..now + MaxSkew : second' = [second EXCEPT ![r] = s]
    /\ readEpoch' = [readEpoch EXCEPT ![r] = epoch]
    /\ pc' = [pc EXCEPT ![r] = "incr"]
    /\ UNCHANGED <<now, icr, epoch, count, incrEpoch>>

\* INCR icr:<prefix>:<day>, atomic in Redis and without a limit.
Increment(r) ==
    /\ pc[r] = "incr"
    /\ icr' = [icr EXCEPT ![Day(second[r])] = @ + 1]
    /\ count' = [count EXCEPT ![r] = icr[Day(second[r])] + 1]
    /\ incrEpoch' = [incrEpoch EXCEPT ![r] = epoch]
    /\ pc' = [pc EXCEPT ![r] = "done"]
    /\ UNCHANGED <<now, epoch, second, readEpoch>>

\* Every counter comes back as some earlier snapshot had it; none exceeds the number of
\* calls.
RedisRestart ==
    /\ epoch < MaxRestarts
    /\ now + Downtime <= MaxTime
    /\ epoch' = epoch + 1
    /\ now' = now + Downtime
    /\ \E kept \in [Days -> 0..Cardinality(Requests)] :
          /\ \A d \in Days : kept[d] <= icr[d]
          /\ icr' = kept
    /\ UNCHANGED <<pc, second, count, readEpoch, incrEpoch>>

Next ==
    \/ Tick
    \/ \E r \in Requests : ReadClock(r) \/ Increment(r)
    \/ RedisRestart

Spec == Init /\ [][Next]_vars

\* Mutant: COUNT_BITS one too small.
IdOfNarrow(r) == second[r] * (CountLimit \div 2) + count[r]

\* The bits that m or n has.
Or[m \in Nat, n \in Nat] ==
    IF m + n = 0 THEN 0
    ELSE (IF m % 2 = 1 \/ n % 2 = 1 THEN 1 ELSE 0) + 2 * Or[m \div 2, n \div 2]

\* timeStamp << COUNT_BITS | count: the bits of a count that has too many fall upon the
\* time's.
IdOf(r) ==
    IF count[r] \in Counts THEN second[r] * CountLimit + count[r]
    ELSE Or[second[r], count[r] \div CountLimit] * CountLimit + (count[r] % CountLimit)

-----------------------------------------------------------------------------
(* Properties.                                                              *)

\* The call was not cut in two by a restart of Redis, and its count has its bits' room.
Undisturbed(r) == pc[r] = "done" /\ readEpoch[r] = incrEpoch[r] /\ count[r] \in Counts

\* "Globally unique": ids drawn on any instance differ, across days, with clocks
\* apart, and although a restart repeats counter values, because by then the clocks
\* have moved on.  (INCR knows no limit: an id beyond the 2^32nd of a day may be another's.)
UniqueIds ==
    \A r, q \in Requests : Undisturbed(r) /\ Undisturbed(q) /\ IdOf(r) = IdOf(q) => r = q

-----------------------------------------------------------------------------
(* The inductive invariant behind UniqueIds (RedisIdWorkerProofs).          *)

HasSecond(r) == pc[r] # "start"

\* A clock read before a restart is behind every clock read after it.
ClockInv ==
    /\ \A r \in Requests : HasSecond(r) =>
          /\ second[r] <= now + MaxSkew
          /\ readEpoch[r] <= epoch
          /\ readEpoch[r] < epoch => second[r] < now
    /\ \A r, q \in Requests :
          HasSecond(r) /\ HasSecond(q) /\ readEpoch[r] < readEpoch[q] => second[r] < second[q]

\* Between two restarts the counter of a day never answers the same twice.
CountInv ==
    /\ \A r \in Requests : pc[r] = "done" =>
          /\ incrEpoch[r] <= epoch
          /\ incrEpoch[r] = epoch => count[r] <= icr[Day(second[r])]
    /\ \A r, q \in Requests :
          /\ pc[r] = "done" /\ pc[q] = "done"
          /\ incrEpoch[r] = incrEpoch[q] /\ Day(second[r]) = Day(second[q])
          /\ count[r] = count[q]
          => r = q
=============================================================================
