----------------------------- MODULE RateLimiter -----------------------------
(***************************************************************************)
(* The sliding-window limit on annotated methods: RateLimiterAspect and    *)
(* limiter.lua.                                                            *)
(*                                                                         *)
(* A request reads its instance's clock, then runs the script in Redis:    *)
(* clocks differ and the scripts of two requests may run in either order.  *)
(* A member of the sorted set is its score and a random suffix.  One unit  *)
(* of time is a fraction of the window; the script itself is atomic.       *)
(***************************************************************************)
EXTENDS Integers, FiniteSets

CONSTANTS
    Requests,
    UserOf,       \* [Requests -> user, or Anonymous]
    IpOf,         \* [Requests -> address]
    LimitType,    \* "USER", "IP", "COMBINED" or "GLOBAL"
    Window,       \* RateLimit.time
    Limit,        \* RateLimit.count
    Suffixes,     \* what math.random(1000, 9999) may return
    MaxSkew,      \* bound on how far an instance's clock is ahead of Redis's
    MaxDelay,     \* bound on how far a script's run is behind its time stamp
    MaxTime,      \* bound on the model's clock
    MaxFaults     \* bound on Redis failures

ASSUME RequestsFinite == IsFiniteSet(Requests)
ASSUME WindowPositive == Window \in Nat \ {0} /\ Limit \in Nat
ASSUME ClocksBounded == {MaxSkew, MaxDelay, MaxTime, MaxFaults} \subseteq Nat
ASSUME TypeKnown == LimitType \in {"USER", "IP", "COMBINED", "GLOBAL"}

\* buildKey.  The method's name is the same for all requests of the model.
KeyOf(r) ==
    [user |-> IF LimitType \in {"USER", "COMBINED"} THEN UserOf[r] ELSE "",
     ip   |-> IF LimitType \in {"IP", "COMBINED"} THEN IpOf[r] ELSE ""]

Keys == {KeyOf(r) : r \in Requests}

VARIABLES
    now,        \* Redis's clock
    pc,         \* [Requests -> step of doBefore]
    stamp,      \* [Requests -> System.currentTimeMillis() of its instance]
    zset,       \* [Keys -> members recorded in Redis]
    expireAt,   \* [Keys -> when Redis drops the key]
    faults,
    shadowed    \* history: recorded requests whose member was taken over by another

vars == <<now, pc, stamp, zset, expireAt, faults, shadowed>>

Times == 0..MaxTime + MaxSkew
Members == [score : Times, suffix : Suffixes, by : Requests]

\* Every variable keeps its type, and no key ever holds more members than count:
\* the script counts and adds in one step.
TypeOK ==
    /\ now \in 0..MaxTime
    /\ pc \in [Requests -> {"start", "script", "admitted", "blocked", "bypassed"}]
    /\ stamp \in [Requests -> Times]
    /\ zset \in [Keys -> SUBSET Members]
    /\ \A k \in Keys : Cardinality(zset[k]) <= Limit
    /\ expireAt \in [Keys -> 0..MaxTime + 2 * Window]
    /\ faults \in 0..MaxFaults
    /\ shadowed \subseteq Requests

Init ==
    /\ now = 0
    /\ pc = [r \in Requests |-> "start"]
    /\ stamp = [r \in Requests |-> 0]
    /\ zset = [k \in Keys |-> {}]
    /\ expireAt = [k \in Keys |-> 0]
    /\ faults = 0
    /\ shadowed = {}

\* Time waits for a script that is MaxDelay behind its time stamp.
Tick ==
    /\ now < MaxTime
    /\ \A r \in Requests : pc[r] = "script" => now < stamp[r] + MaxDelay
    /\ now' = now + 1
    /\ UNCHANGED <<pc, stamp, zset, expireAt, faults, shadowed>>

ReadClock(r) ==
    /\ pc[r] = "start"
    /\ \E skew \in 0..MaxSkew : stamp' = [stamp EXCEPT ![r] = now + skew]
    /\ pc' = [pc EXCEPT ![r] = "script"]
    /\ UNCHANGED <<now, zset, expireAt, faults, shadowed>>

\* ZREMRANGEBYSCORE key 0 (now - window), on a key that may have expired.
InWindow(r) ==
    {m \in zset[KeyOf(r)] : now < expireAt[KeyOf(r)] /\ m.score > stamp[r] - Window}

\* ZADD: a member with the same score and suffix is the same member.
Add(r, suffix) ==
    LET same == {m \in InWindow(r) : m.score = stamp[r] /\ m.suffix = suffix}
    IN  /\ zset' = [zset EXCEPT ![KeyOf(r)] = (InWindow(r) \ same) \cup
                        {[score |-> stamp[r], suffix |-> suffix, by |-> r]}]
        /\ shadowed' = shadowed \cup {m.by : m \in same}

\* Mutant: the seconds of EXPIRE are taken for milliseconds.
AdmitForgetsSoon(r) ==
    /\ pc[r] = "script"
    /\ Cardinality(InWindow(r)) < Limit
    /\ \E suffix \in Suffixes : Add(r, suffix)
    /\ expireAt' = [expireAt EXCEPT ![KeyOf(r)] = now]
    /\ pc' = [pc EXCEPT ![r] = "admitted"]
    /\ UNCHANGED <<now, stamp, faults>>

\* Mutant: count <= limit.
AdmitOneTooMany(r) ==
    /\ pc[r] = "script"
    /\ Cardinality(InWindow(r)) <= Limit
    /\ \E suffix \in Suffixes : Add(r, suffix)
    /\ expireAt' = [expireAt EXCEPT ![KeyOf(r)] = now + 2 * Window]
    /\ pc' = [pc EXCEPT ![r] = "admitted"]
    /\ UNCHANGED <<now, stamp, faults>>

\* The script returns 1: the request is recorded and the key lives two more windows.
Admit(r) ==
    /\ pc[r] = "script"
    /\ Cardinality(InWindow(r)) < Limit
    /\ \E suffix \in Suffixes : Add(r, suffix)
    /\ expireAt' = [expireAt EXCEPT ![KeyOf(r)] = now + 2 * Window]
    /\ pc' = [pc EXCEPT ![r] = "admitted"]
    /\ UNCHANGED <<now, stamp, faults>>

\* The script returns 0, after the old members were removed: RateLimitException.
Block(r) ==
    /\ pc[r] = "script"
    /\ Cardinality(InWindow(r)) >= Limit
    /\ zset' = [zset EXCEPT ![KeyOf(r)] = InWindow(r)]
    /\ pc' = [pc EXCEPT ![r] = "blocked"]
    /\ UNCHANGED <<now, stamp, expireAt, faults, shadowed>>

\* Redis throws: the aspect logs the exception and lets the request pass.
FailOpen(r) ==
    /\ faults < MaxFaults
    /\ faults' = faults + 1
    /\ pc[r] = "script"
    /\ pc' = [pc EXCEPT ![r] = "bypassed"]
    /\ UNCHANGED <<now, stamp, zset, expireAt, shadowed>>

Next ==
    \/ Tick
    \/ \E r \in Requests : ReadClock(r) \/ Admit(r) \/ Block(r) \/ FailOpen(r)

Spec == Init /\ [][Next]_vars

-----------------------------------------------------------------------------
(* Properties.                                                              *)

Admitted(k, from, to) ==
    {r \in Requests : pc[r] = "admitted" /\ KeyOf(r) = k /\ stamp[r] \in from + 1..to}

\* At most Limit requests of one key pass per window, by their own time stamps, up
\* to the two things the code leaves open: clocks and scripts may be out of order
\* by MaxSkew + MaxDelay, which shortens the window that is guaranteed, and a
\* request whose member was taken over by another one is not counted.
SlidingWindow ==
    \A k \in Keys, t \in Times :
        LET A == Admitted(k, t - (Window - MaxSkew - MaxDelay), t)
        IN  Cardinality(A \ shadowed) <= Limit

\* A request is refused only when Limit requests of its own key were let through
\* in its window: refused and foreign requests use up nothing, nor do expired ones.
RefusedForAReason ==
    [][\A r \in Requests :
          pc[r] # "blocked" /\ pc'[r] = "blocked" =>
             Cardinality({q \in Requests : /\ pc[q] = "admitted"
                                           /\ KeyOf(q) = KeyOf(r)
                                           /\ stamp[q] > stamp[r] - Window}) >= Limit]_vars

-----------------------------------------------------------------------------
(* The inductive invariants behind the two (RateLimiterProofs).             *)

HasMember(q) == \E m \in zset[KeyOf(q)] : m.by = q

\* The sorted set of a key holds admitted requests of that key, each once.
MemberInv ==
    \A k \in Keys :
        /\ \A m \in zset[k] :
              pc[m.by] = "admitted" /\ KeyOf(m.by) = k /\ m.score = stamp[m.by]
        /\ \A m, n \in zset[k] : m.by = n.by => m = n

\* An admitted request stays in the set until no window of a request to come, be its
\* clock MaxSkew ahead, reaches back to it; the key does not expire before that.
CoverInv ==
    /\ \A q \in Requests \ shadowed :
          pc[q] = "admitted" => HasMember(q) \/ stamp[q] <= now + MaxSkew - Window
    /\ \A k \in Keys :
          /\ expireAt[k] <= now + 2 * Window
          /\ \A m \in zset[k] : m.score + 2 * Window <= expireAt[k] + MaxSkew
    /\ \A r \in Requests :
          pc[r] = "script" => stamp[r] <= now + MaxSkew /\ now <= stamp[r] + MaxDelay
=============================================================================
