-------------------------- MODULE RateLimiterProofs --------------------------
(***************************************************************************)
(* How many requests pass per window, and why one is refused, for every    *)
(* number of requests and keys, every window, limit, skew and delay.       *)
(* MemberInv ties the members of a key's sorted set to admitted requests   *)
(* one to one, so that ZCARD counts requests; CoverInv says how long an    *)
(* admitted request is sure to be counted.                                 *)
(***************************************************************************)
EXTENDS RateLimiter, FiniteSetTheorems, TLAPS

\* The assumptions on numbers in one place.
LEMMA Numbers ==
    /\ Window \in Nat /\ Window > 0 /\ Limit \in Nat
    /\ MaxSkew \in Nat /\ MaxDelay \in Nat /\ MaxTime \in Nat /\ MaxFaults \in Nat
BY WindowPositive, ClocksBounded

LEMMA KeysOfRequests == \A r \in Requests : KeyOf(r) \in Keys
BY DEF Keys

\* Members of different requests are as many as these requests at least.
LEMMA MembersAreRequests ==
    ASSUME NEW S, NEW T, IsFiniteSet(T),
           \A m \in S : m.by \in T,
           \A m, n \in S : m.by = n.by => m = n
    PROVE  IsFiniteSet(S) /\ Cardinality(S) <= Cardinality(T)
<1> DEFINE f == [m \in S |-> m.by]
<1>1. f \in Injection(S, T)
  BY DEF Injection, IsInjective
<1> QED
  BY <1>1, FS_Injection

\* Requests that have a member each are no more than the members.
LEMMA RequestsAreMembers ==
    ASSUME NEW S, NEW T, IsFiniteSet(S), \A q \in T : \E m \in S : m.by = q
    PROVE  IsFiniteSet(T) /\ Cardinality(T) <= Cardinality(S)
<1> DEFINE f == [q \in T |-> CHOOSE m \in S : m.by = q]
<1>1. \A q \in T : f[q] \in S /\ f[q].by = q
  OBVIOUS
<1>2. f \in Injection(T, S)
  BY <1>1 DEF Injection, IsInjective
<1> QED
  BY <1>2, FS_Injection

-----------------------------------------------------------------------------
Inv == TypeOK /\ MemberInv /\ CoverInv

\* The members a script counts: finitely many, all members of the key.
LEMMA InWindowFinite ==
    ASSUME TypeOK, MemberInv, NEW r \in Requests
    PROVE  /\ InWindow(r) \subseteq zset[KeyOf(r)]
           /\ IsFiniteSet(zset[KeyOf(r)]) /\ IsFiniteSet(InWindow(r))
           /\ Cardinality(InWindow(r)) \in Nat
           /\ Cardinality(InWindow(r)) <= Cardinality(zset[KeyOf(r)])
<1>1. InWindow(r) \subseteq zset[KeyOf(r)]
  BY DEF InWindow
<1>2. /\ \A m \in zset[KeyOf(r)] : m.by \in Requests
      /\ \A m, n \in zset[KeyOf(r)] : m.by = n.by => m = n
  BY KeysOfRequests DEF TypeOK, MemberInv, Members
<1>3. IsFiniteSet(zset[KeyOf(r)])
  BY <1>2, MembersAreRequests, RequestsFinite
<1> QED
  BY <1>1, <1>3, FS_Subset, FS_CardinalityType

\* What ZADD leaves in the set: the counted members, less the one it takes over,
\* and one more.
LEMMA AddEffect ==
    ASSUME Inv, NEW r \in Requests, NEW suffix \in Suffixes, pc[r] = "script", Add(r, suffix)
    PROVE  \E same \in SUBSET InWindow(r) :
              LET x == [score |-> stamp[r], suffix |-> suffix, by |-> r]
              IN  /\ zset' = [zset EXCEPT ![KeyOf(r)] = (InWindow(r) \ same) \cup {x}]
                  /\ x \in Members
                  /\ shadowed' = shadowed \cup {m.by : m \in same}
BY DEF Add, Inv, TypeOK, Members

LEMMA AdmitStep ==
    ASSUME Inv, NEW r \in Requests, Admit(r)
    PROVE  Inv'
<1> DEFINE k == KeyOf(r)
<1>1. /\ pc[r] = "script" /\ pc' = [pc EXCEPT ![r] = "admitted"]
      /\ expireAt' = [expireAt EXCEPT ![k] = now + 2 * Window]
      /\ UNCHANGED <<now, stamp, faults>>
      /\ Cardinality(InWindow(r)) < Limit
  BY DEF Admit
<1>2. PICK suffix \in Suffixes : Add(r, suffix)
  BY DEF Admit
<1> DEFINE x == [score |-> stamp[r], suffix |-> suffix, by |-> r]
<1>3. PICK same \in SUBSET InWindow(r) :
         /\ zset' = [zset EXCEPT ![k] = (InWindow(r) \ same) \cup {x}]
         /\ x \in Members
         /\ shadowed' = shadowed \cup {m.by : m \in same}
  BY <1>1, <1>2, AddEffect
<1>4. k \in Keys /\ zset \in [Keys -> SUBSET Members] /\ expireAt \in [Keys -> 0..MaxTime + 2 * Window]
  BY KeysOfRequests DEF Inv, TypeOK
<1>5. /\ zset'[k] = (InWindow(r) \ same) \cup {x}
      /\ \A j \in Keys \ {k} : zset'[j] = zset[j] /\ expireAt'[j] = expireAt[j]
      /\ expireAt'[k] = now + 2 * Window
  BY <1>1, <1>3, <1>4
<1>6. InWindow(r) \subseteq zset[k] /\ IsFiniteSet(InWindow(r)) /\ Cardinality(InWindow(r)) \in Nat
  BY InWindowFinite DEF Inv
<1>7. \A j \in Keys : \A m \in zset[j] : m.by # r /\ m.by \in Requests
  BY <1>1 DEF Inv, MemberInv, TypeOK, Members
<1>8. TypeOK'
  <2>1. zset' \in [Keys -> SUBSET Members]
    BY <1>3, <1>4, <1>6
  <2>2. Cardinality(zset'[k]) <= Limit
    <3>1. IsFiniteSet(InWindow(r) \ same) /\ Cardinality(InWindow(r) \ same) <= Cardinality(InWindow(r))
      <4>1. InWindow(r) \ same \in SUBSET InWindow(r)
        OBVIOUS
      <4> QED
        BY <1>6, <4>1, FS_Subset
    <3>2. Cardinality(InWindow(r) \ same) \in Nat
      BY <3>1, FS_CardinalityType
    <3>3. Cardinality(zset'[k]) <= Cardinality(InWindow(r) \ same) + 1
      <4>1. Cardinality((InWindow(r) \ same) \cup {x}) =
               IF x \in InWindow(r) \ same THEN Cardinality(InWindow(r) \ same)
                                           ELSE Cardinality(InWindow(r) \ same) + 1
        BY <3>1, FS_AddElement
      <4> QED
        BY <1>5, <3>2, <4>1
    <3>4. Cardinality(zset'[k]) \in Nat
      BY <1>5, <3>1, FS_AddElement, FS_CardinalityType
    <3> QED
      BY <1>1, <1>6, <3>1, <3>2, <3>3, <3>4, Numbers
  <2>3. \A j \in Keys : Cardinality(zset'[j]) <= Limit
    BY <1>5, <2>2 DEF Inv, TypeOK
  <2>4. shadowed' \subseteq Requests
    BY <1>3, <1>4, <1>6, <1>7 DEF Inv, TypeOK
  <2>5. expireAt' \in [Keys -> 0..MaxTime + 2 * Window]
    BY <1>1, <1>4, Numbers DEF Inv, TypeOK
  <2> QED
    BY <1>1, <2>1, <2>3, <2>4, <2>5 DEF Inv, TypeOK
<1>9. MemberInv'
  <2>1. pc'[r] = "admitted" /\ \A q \in Requests \ {r} : pc'[q] = pc[q]
    BY <1>1 DEF Inv, TypeOK
  <2>2. ASSUME NEW j \in Keys, NEW m \in zset'[j]
        PROVE  pc'[m.by] = "admitted" /\ KeyOf(m.by) = j /\ m.score = stamp'[m.by]
    <3>1. CASE m \in zset[j]
      BY <1>1, <1>7, <2>1, <3>1 DEF Inv, MemberInv
    <3>2. CASE j = k /\ m = x
      BY <1>1, <2>1, <3>2
    <3> QED
      BY <1>5, <1>6, <2>2, <3>1, <3>2
  <2>3. ASSUME NEW j \in Keys, NEW m \in zset'[j], NEW n \in zset'[j], m.by = n.by
        PROVE  m = n
    <3>1. CASE m \in zset[j] /\ n \in zset[j]
      BY <2>3, <3>1 DEF Inv, MemberInv
    <3>2. CASE j = k /\ (m = x \/ n = x)
      BY <1>5, <1>6, <1>7, <2>3, <3>2
    <3> QED
      BY <1>5, <1>6, <2>3, <3>1, <3>2
  <2> QED
    BY <2>2, <2>3 DEF MemberInv
<1>10. CoverInv'
  <2>1. ASSUME NEW q \in Requests \ shadowed', pc'[q] = "admitted"
        PROVE  HasMember(q)' \/ stamp'[q] <= now' + MaxSkew - Window
    <3>1. CASE q = r
      <4>1. x \in zset'[KeyOf(q)] /\ x.by = q
        BY <1>5, <3>1
      <4> QED
        BY <4>1 DEF HasMember
    <3>2. CASE q # r /\ KeyOf(q) # k
      <4>1. pc[q] = "admitted" /\ q \notin shadowed /\ KeyOf(q) \in Keys
        BY <1>1, <1>3, <2>1, <3>2, KeysOfRequests DEF Inv, TypeOK
      <4> QED
        BY <1>1, <1>5, <3>2, <4>1 DEF Inv, CoverInv, HasMember
    <3>3. CASE q # r /\ KeyOf(q) = k
      <4>1. pc[q] = "admitted" /\ q \notin shadowed
        BY <1>1, <1>3, <2>1, <3>3 DEF Inv, TypeOK
      <4>2. CASE ~HasMember(q)
        BY <1>1, <4>1, <4>2 DEF Inv, CoverInv
      <4>3. CASE HasMember(q)
        <5>1. PICK m \in zset[k] : m.by = q
          BY <3>3, <4>3 DEF HasMember
        <5>2. m \notin same
          BY <1>3, <2>1, <5>1
        <5>3. CASE m \in InWindow(r)
          BY <1>5, <3>3, <5>1, <5>2, <5>3 DEF HasMember
        <5>4. CASE m \notin InWindow(r)
          <6>1. /\ m.score = stamp[q] /\ m.score \in Int
                /\ m.score + 2 * Window <= expireAt[k] + MaxSkew
                /\ stamp[r] \in Int /\ stamp[r] <= now + MaxSkew
                /\ now \in Int /\ expireAt[k] \in Int
            BY <1>1, <1>4, <5>1, Numbers DEF Inv, MemberInv, CoverInv, TypeOK, Members, Times
          <6>2. ~(now < expireAt[k]) \/ ~(m.score > stamp[r] - Window)
            BY <5>1, <5>4 DEF InWindow
          <6>3. stamp[q] <= now + MaxSkew - Window
            BY <6>1, <6>2, Numbers
          <6> QED
            BY <1>1, <6>3
        <5> QED
          BY <5>3, <5>4
      <4> QED
        BY <4>2, <4>3
    <3> QED
      BY <3>1, <3>2, <3>3
  <2>4. \A j \in Keys : expireAt'[j] <= now' + 2 * Window
    BY <1>1, <1>4, <1>5, Numbers DEF Inv, CoverInv, TypeOK
  <2>2. ASSUME NEW j \in Keys, NEW m \in zset'[j]
        PROVE  m.score + 2 * Window <= expireAt'[j] + MaxSkew
    <3>1. CASE j # k
      BY <1>5, <2>2, <3>1 DEF Inv, CoverInv
    <3>2. CASE j = k /\ m = x
      BY <1>1, <1>5, <3>2, Numbers DEF Inv, CoverInv, TypeOK, Times
    <3>3. CASE j = k /\ m \in InWindow(r)
      <4>1. /\ m.score \in Int /\ now \in Int /\ expireAt[k] \in 0..MaxTime + 2 * Window
            /\ m.score = stamp[m.by] /\ m.by \in Requests
        BY <1>4, <1>6, <1>7, <3>3, Numbers DEF Inv, TypeOK, Members, Times, MemberInv
      <4>2. m.score + 2 * Window <= expireAt[k] + MaxSkew
        BY <1>4, <1>6, <3>3 DEF Inv, CoverInv
      <4>3. expireAt[k] <= now + 2 * Window
        BY <1>4 DEF Inv, CoverInv
      <4> QED
        BY <1>5, <3>3, <4>1, <4>2, <4>3, Numbers
    <3> QED
      BY <1>5, <2>2, <3>1, <3>2, <3>3
  <2>3. \A q \in Requests : pc'[q] = "script" =>
           stamp'[q] <= now' + MaxSkew /\ now' <= stamp'[q] + MaxDelay
    BY <1>1 DEF Inv, CoverInv, TypeOK
  <2> QED
    BY <2>1, <2>2, <2>3, <2>4 DEF CoverInv
<1> QED
  BY <1>8, <1>9, <1>10 DEF Inv

LEMMA BlockStep ==
    ASSUME Inv, NEW r \in Requests, Block(r)
    PROVE  Inv'
<1> DEFINE k == KeyOf(r)
<1>1. /\ pc[r] = "script" /\ pc' = [pc EXCEPT ![r] = "blocked"]
      /\ zset' = [zset EXCEPT ![k] = InWindow(r)]
      /\ UNCHANGED <<now, stamp, expireAt, faults, shadowed>>
  BY DEF Block
<1>2. k \in Keys /\ zset \in [Keys -> SUBSET Members]
  BY KeysOfRequests DEF Inv, TypeOK
<1>3. zset'[k] = InWindow(r) /\ \A j \in Keys \ {k} : zset'[j] = zset[j]
  BY <1>1, <1>2
<1>4. /\ InWindow(r) \subseteq zset[k]
      /\ Cardinality(InWindow(r)) \in Nat
      /\ Cardinality(InWindow(r)) <= Cardinality(zset[k])
      /\ IsFiniteSet(zset[k])
  BY InWindowFinite DEF Inv
<1>5. \A j \in Keys : zset'[j] \subseteq zset[j]
  BY <1>3, <1>4
<1>6. TypeOK'
  <2>1. zset' \in [Keys -> SUBSET Members]
    BY <1>1, <1>2, <1>4
  <2>2. Cardinality(zset[k]) \in Nat
    BY <1>4, FS_CardinalityType
  <2>3. \A j \in Keys : Cardinality(zset'[j]) <= Limit
    BY <1>2, <1>3, <1>4, <2>2, Numbers DEF Inv, TypeOK
  <2> QED
    BY <1>1, <2>1, <2>3 DEF Inv, TypeOK
<1>7. MemberInv'
  <2>1. \A q \in Requests \ {r} : pc'[q] = pc[q]
    BY <1>1 DEF Inv, TypeOK
  <2>2. \A j \in Keys : \A m \in zset[j] : m.by # r /\ m.by \in Requests
    BY <1>1 DEF Inv, MemberInv, TypeOK, Members
  <2> QED
    BY <1>1, <1>5, <2>1, <2>2 DEF Inv, MemberInv
<1>8. CoverInv'
  <2>1. ASSUME NEW q \in Requests \ shadowed, pc'[q] = "admitted"
        PROVE  HasMember(q)' \/ stamp[q] <= now + MaxSkew - Window
    <3>1. pc[q] = "admitted" /\ KeyOf(q) \in Keys
      BY <1>1, <2>1, KeysOfRequests DEF Inv, TypeOK
    <3>2. CASE ~HasMember(q)
      BY <3>1, <3>2 DEF Inv, CoverInv
    <3>3. CASE HasMember(q) /\ KeyOf(q) # k
      BY <1>3, <3>1, <3>3 DEF HasMember
    <3>4. CASE HasMember(q) /\ KeyOf(q) = k
      <4>1. PICK m \in zset[k] : m.by = q
        BY <3>4 DEF HasMember
      <4>2. CASE m \in InWindow(r)
        BY <1>3, <3>4, <4>1, <4>2 DEF HasMember
      <4>3. CASE m \notin InWindow(r)
        <5>1. /\ m.score = stamp[q] /\ m.score \in Int
              /\ m.score + 2 * Window <= expireAt[k] + MaxSkew
              /\ stamp[r] \in Int /\ stamp[r] <= now + MaxSkew
              /\ now \in Int /\ expireAt[k] \in Int
          BY <1>1, <1>2, <4>1, Numbers DEF Inv, MemberInv, CoverInv, TypeOK, Members, Times
        <5>2. ~(now < expireAt[k]) \/ ~(m.score > stamp[r] - Window)
          BY <4>1, <4>3 DEF InWindow
        <5> QED
          BY <5>1, <5>2, Numbers
      <4> QED
        BY <4>2, <4>3
    <3> QED
      BY <3>2, <3>3, <3>4
  <2>2. \A j \in Keys : /\ expireAt[j] <= now + 2 * Window
                        /\ \A m \in zset'[j] : m.score + 2 * Window <= expireAt[j] + MaxSkew
    BY <1>5 DEF Inv, CoverInv
  <2>3. \A q \in Requests : pc'[q] = "script" => stamp[q] <= now + MaxSkew /\ now <= stamp[q] + MaxDelay
    BY <1>1 DEF Inv, CoverInv, TypeOK
  <2> QED
    BY <1>1, <2>1, <2>2, <2>3 DEF CoverInv
<1> QED
  BY <1>6, <1>7, <1>8 DEF Inv

LEMMA TickStep == ASSUME Inv, Tick PROVE Inv'
<1>1. now \in Nat /\ now' = now + 1 /\ now < MaxTime
  BY DEF Tick, Inv, TypeOK
<1>2. TypeOK'
  BY <1>1, Numbers DEF Tick, Inv, TypeOK
<1>3. MemberInv'
  BY DEF Tick, Inv, MemberInv
<1>4. CoverInv'
  <2>1. \A q \in Requests : stamp[q] \in Int
    BY DEF Inv, TypeOK, Times
  <2>2. \A q \in Requests \ shadowed :
           pc[q] = "admitted" => HasMember(q) \/ stamp[q] <= now + 1 + MaxSkew - Window
    BY <1>1, <2>1, Numbers DEF Inv, CoverInv
  <2>3. \A k \in Keys : expireAt[k] <= now + 1 + 2 * Window
    BY <1>1, Numbers DEF Inv, CoverInv, TypeOK
  <2>4. \A r \in Requests :
           pc[r] = "script" => stamp[r] <= now + 1 + MaxSkew /\ now + 1 <= stamp[r] + MaxDelay
    BY <1>1, <2>1, Numbers DEF Inv, CoverInv, Tick
  <2> QED
    BY <1>1, <2>2, <2>3, <2>4 DEF Tick, Inv, CoverInv, HasMember
<1> QED
  BY <1>2, <1>3, <1>4 DEF Inv

\* Reading a clock and passing a limiter that fails touch no member.
LEMMA OtherStep ==
    ASSUME Inv, NEW r \in Requests, ReadClock(r) \/ FailOpen(r)
    PROVE  Inv'
<1>1. /\ pc[r] # "admitted" /\ pc'[r] # "admitted"
      /\ \A q \in Requests \ {r} : pc'[q] = pc[q] /\ stamp'[q] = stamp[q]
      /\ UNCHANGED <<now, zset, expireAt, shadowed>>
  BY DEF ReadClock, FailOpen, Inv, TypeOK
<1>2. TypeOK'
  BY Numbers DEF ReadClock, FailOpen, Inv, TypeOK, Times
<1>3. pc'[r] = "script" => stamp'[r] <= now + MaxSkew /\ now <= stamp'[r] + MaxDelay
  BY Numbers DEF ReadClock, FailOpen, Inv, TypeOK, Times
<1>4. MemberInv'
  BY <1>1 DEF Inv, MemberInv, TypeOK, Members
<1>5. CoverInv'
  BY <1>1, <1>3 DEF Inv, CoverInv, HasMember
<1> QED
  BY <1>2, <1>4, <1>5 DEF Inv

LEMMA InvCorrect == Spec => []Inv
<1>1. Init => Inv
  <2> SUFFICES ASSUME Init PROVE Inv
    OBVIOUS
  <2>1. \A k \in Keys : zset[k] = {} /\ Cardinality(zset[k]) = 0
    BY FS_EmptySet DEF Init
  <2>2. TypeOK
    BY <2>1, Numbers DEF Init, TypeOK, Times
  <2> QED
    BY <2>1, <2>2, Numbers DEF Init, Inv, MemberInv, CoverInv
<1>2. Inv /\ [Next]_vars => Inv'
  <2>1. ASSUME Inv, UNCHANGED vars PROVE Inv'
    BY <2>1 DEF vars, Inv, TypeOK, MemberInv, CoverInv, HasMember
  <2> QED
    BY <2>1, AdmitStep, BlockStep, TickStep, OtherStep DEF Next
<1> QED
  BY <1>1, <1>2, PTL DEF Spec

\* No sorted set outgrows the limit, every variable keeps its type.
THEOREM TypeCorrect == Spec => []TypeOK
BY InvCorrect, PTL DEF Inv

\* A member is an admitted request of its key, and counted once.
THEOREM MembersCorrect == Spec => []MemberInv
BY InvCorrect, PTL DEF Inv

\* An admitted request is counted as long as a window can reach back to it.
THEOREM CoverCorrect == Spec => []CoverInv
BY InvCorrect, PTL DEF Inv

-----------------------------------------------------------------------------
\* A request that passes finds every request of the shortened window before it among
\* the members it counts.
LEMMA AdmitWindow ==
    ASSUME Inv, SlidingWindow, NEW r \in Requests, Admit(r)
    PROVE  SlidingWindow'
<1> DEFINE W == Window - MaxSkew - MaxDelay
           A(k, t) == Admitted(k, t - W, t)
<1>1. /\ pc[r] = "script" /\ pc' = [pc EXCEPT ![r] = "admitted"]
      /\ UNCHANGED <<now, stamp>>
      /\ Cardinality(InWindow(r)) < Limit
      /\ shadowed \subseteq shadowed'
  BY DEF Admit, Add
<1>2. /\ pc'[r] = "admitted" /\ \A q \in Requests \ {r} : pc'[q] = pc[q]
      /\ stamp \in [Requests -> Times] /\ now \in Nat
  BY <1>1 DEF Inv, TypeOK
<1>3. SUFFICES ASSUME NEW k \in Keys, NEW t \in Times
               PROVE  Cardinality(A(k, t)' \ shadowed') <= Limit
  BY DEF SlidingWindow
<1>4. IsFiniteSet(A(k, t) \ shadowed) /\ Cardinality(A(k, t) \ shadowed) \in Nat
  <2>1. A(k, t) \ shadowed \in SUBSET Requests
    BY DEF Admitted
  <2> QED
    BY <2>1, RequestsFinite, FS_Subset, FS_CardinalityType
<1>5. CASE r \notin A(k, t)'
  <2>1. A(k, t)' \ shadowed' \in SUBSET (A(k, t) \ shadowed)
    BY <1>1, <1>2, <1>5 DEF Admitted
  <2>2. Cardinality(A(k, t)' \ shadowed') <= Cardinality(A(k, t) \ shadowed)
    BY <1>4, <2>1, FS_Subset
  <2>3. Cardinality(A(k, t)' \ shadowed') \in Nat
    BY <1>4, <2>1, FS_Subset, FS_CardinalityType
  <2>4. Cardinality(A(k, t) \ shadowed) <= Limit
    BY DEF SlidingWindow
  <2> QED
    BY <1>4, <2>2, <2>3, <2>4, Numbers
<1>6. CASE r \in A(k, t)'
  <2> DEFINE B == (A(k, t)' \ shadowed') \ {r}
  <2>1. KeyOf(r) = k /\ stamp[r] <= t /\ t \in Int /\ stamp[r] \in Int
    BY <1>1, <1>2, <1>6, Numbers DEF Admitted, Times
  <2>2. \A q \in B : \E m \in InWindow(r) : m.by = q
    <3>1. SUFFICES ASSUME NEW q \in B PROVE \E m \in InWindow(r) : m.by = q
      OBVIOUS
    <3>2. /\ q \in Requests /\ pc[q] = "admitted" /\ q \notin shadowed
          /\ KeyOf(q) = k /\ stamp[q] >= t - W + 1 /\ stamp[q] \in Int
      BY <1>1, <1>2, <3>1, Numbers DEF Admitted, Times
    <3>3. now <= stamp[r] + MaxDelay
      BY <1>1 DEF Inv, CoverInv
    <3>4. stamp[q] > now + MaxSkew - Window /\ stamp[q] > stamp[r] - Window
      BY <1>2, <2>1, <3>2, <3>3, Numbers
    <3>5. PICK m \in zset[k] : m.by = q
      <4>1. HasMember(q)
        <5>1. ~(stamp[q] <= now + MaxSkew - Window)
          BY <1>2, <3>2, <3>4, Numbers
        <5> QED
          BY <3>2, <5>1 DEF Inv, CoverInv
      <4> QED
        BY <3>2, <4>1 DEF HasMember
    <3>6. m.score = stamp[q] /\ m.score + 2 * Window <= expireAt[k] + MaxSkew
      BY <3>5 DEF Inv, MemberInv, CoverInv
    <3>7. now < expireAt[k]
      <4>1. expireAt[k] \in Int
        BY Numbers DEF Inv, TypeOK
      <4> QED
        BY <1>2, <3>2, <3>4, <3>6, <4>1, Numbers
    <3>8. m \in InWindow(r)
      BY <2>1, <3>4, <3>5, <3>6, <3>7 DEF InWindow
    <3> QED
      BY <3>5, <3>8
  <2>3. IsFiniteSet(InWindow(r)) /\ Cardinality(InWindow(r)) \in Nat
    BY InWindowFinite DEF Inv
  <2>4. IsFiniteSet(B) /\ Cardinality(B) <= Cardinality(InWindow(r))
    BY <2>2, <2>3, RequestsAreMembers
  <2>5. Cardinality(B) \in Nat
    BY <2>4, FS_CardinalityType
  <2>6. IsFiniteSet(B \cup {r}) /\ Cardinality(B \cup {r}) = Cardinality(B) + 1
    <3>1. r \notin B
      OBVIOUS
    <3> QED
      BY <2>4, <3>1, FS_AddElement
  <2>7. A(k, t)' \ shadowed' \in SUBSET (B \cup {r})
    OBVIOUS
  <2>8. /\ Cardinality(A(k, t)' \ shadowed') <= Cardinality(B \cup {r})
        /\ Cardinality(A(k, t)' \ shadowed') \in Nat
    BY <2>6, <2>7, FS_Subset, FS_CardinalityType
  <2> QED
    BY <1>1, <2>3, <2>4, <2>5, <2>6, <2>8, Numbers
<1> QED
  BY <1>5, <1>6

\* At most Limit requests of one key pass in any Window - MaxSkew - MaxDelay, not
\* counting those whose member another request has taken over.
THEOREM WindowIsKept == Spec => []SlidingWindow
<1>1. Init => SlidingWindow
  <2> SUFFICES ASSUME Init, NEW k \in Keys, NEW t \in Times
               PROVE  Cardinality(Admitted(k, t - (Window - MaxSkew - MaxDelay), t) \ shadowed) <= Limit
    BY DEF SlidingWindow
  <2>1. Admitted(k, t - (Window - MaxSkew - MaxDelay), t) \ shadowed = {}
    BY DEF Init, Admitted
  <2> QED
    BY <2>1, FS_EmptySet, Numbers
<1>2. Inv /\ SlidingWindow /\ [Next]_vars => SlidingWindow'
  <2> SUFFICES ASSUME Inv, SlidingWindow, [Next]_vars PROVE SlidingWindow'
    OBVIOUS
  <2>1. ASSUME UNCHANGED shadowed, \A q \in Requests : pc'[q] = "admitted" <=> pc[q] = "admitted",
               \A q \in Requests : pc[q] = "admitted" => stamp'[q] = stamp[q]
        PROVE  SlidingWindow'
    <3>1. \A k \in Keys : \A a \in Int, b \in Int : Admitted(k, a, b)' = Admitted(k, a, b)
      BY <2>1 DEF Admitted
    <3>2. \A t \in Times : t \in Int /\ t - (Window - MaxSkew - MaxDelay) \in Int
      BY Numbers DEF Times
    <3> QED
      BY <2>1, <3>1, <3>2 DEF SlidingWindow
  <2>2. ASSUME NEW r \in Requests, ReadClock(r) \/ Block(r) \/ FailOpen(r) PROVE SlidingWindow'
    <3>1. UNCHANGED shadowed
      BY <2>2 DEF ReadClock, Block, FailOpen
    <3>2. pc[r] # "admitted" /\ pc'[r] # "admitted"
      BY <2>2 DEF ReadClock, Block, FailOpen, Inv, TypeOK
    <3>3. \A q \in Requests \ {r} : pc'[q] = pc[q] /\ stamp'[q] = stamp[q]
      BY <2>2 DEF ReadClock, Block, FailOpen, Inv, TypeOK
    <3> QED
      BY <2>1, <3>1, <3>2, <3>3
  <2>3. CASE Tick
    BY <2>1, <2>3 DEF Tick
  <2>4. CASE UNCHANGED vars
    BY <2>1, <2>4 DEF vars
  <2> QED
    BY <2>2, <2>3, <2>4, AdmitWindow DEF Next
<1> QED
  BY <1>1, <1>2, InvCorrect, PTL DEF Spec

\* A refused request has Limit admitted requests of its key in its window.
THEOREM RefusalsHaveReasons == Spec => RefusedForAReason
<1> DEFINE Q(r) == {q \in Requests : /\ pc[q] = "admitted"
                                     /\ KeyOf(q) = KeyOf(r)
                                     /\ stamp[q] > stamp[r] - Window}
           Step == \A r \in Requests :
                      pc[r] # "blocked" /\ pc'[r] = "blocked" => Cardinality(Q(r)) >= Limit
<1>1. Inv /\ [Next]_vars => [Step]_vars
  <2> SUFFICES ASSUME Inv, Next, NEW r \in Requests, pc[r] # "blocked", pc'[r] = "blocked"
               PROVE  Cardinality(Q(r)) >= Limit
    OBVIOUS
  <2>1. Block(r)
    BY DEF Next, Tick, ReadClock, Admit, Block, FailOpen, Inv, TypeOK
  <2>2. Q(r) \in SUBSET Requests
    OBVIOUS
  <2>3. IsFiniteSet(Q(r)) /\ Cardinality(Q(r)) \in Nat
    BY <2>2, RequestsFinite, FS_Subset, FS_CardinalityType
  <2>4. \A m \in InWindow(r) : m.by \in Q(r)
    BY KeysOfRequests DEF InWindow, Inv, MemberInv, TypeOK, Members
  <2>5. \A m, n \in InWindow(r) : m.by = n.by => m = n
    BY KeysOfRequests DEF InWindow, Inv, MemberInv
  <2>6. Cardinality(InWindow(r)) <= Cardinality(Q(r)) /\ IsFiniteSet(InWindow(r))
    BY <2>3, <2>4, <2>5, MembersAreRequests
  <2>7. Cardinality(InWindow(r)) \in Nat
    BY <2>6, FS_CardinalityType
  <2> QED
    BY <2>1, <2>3, <2>6, <2>7, Numbers DEF Block
<1> QED
  BY <1>1, InvCorrect, PTL DEF Spec, RefusedForAReason
=============================================================================
