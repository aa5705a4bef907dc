--------------------------- MODULE ShopCacheProofs ---------------------------
(***************************************************************************)
(* Where outdated cache entries come from, for every number of instances,  *)
(* readers, writers, updates and faults.  NoVersionAhead is needed for the *)
(* insert of the row: no level can hold a version before there is one.     *)
(***************************************************************************)
EXTENDS ShopCache, TLAPS

\* The threads' types, None and the place "redis" apart from everything else.
LEMMA Distinct ==
    /\ None \notin 0..MaxVersion /\ None \notin Readers /\ Redis \notin Instances
    /\ MaxVersion \in Nat /\ MaxFaults \in Nat /\ InitVersions \subseteq {0, 1} \cap 0..MaxVersion
    /\ \A d \in Deleters : InstanceOf[d] \in Instances
    /\ \A r \in Readers : InstanceOf[r] \in Instances
BY ThreadsDisjoint, BoundsType, InstanceOfType

-----------------------------------------------------------------------------
Inv == TypeOK /\ NoVersionAhead

\* A step of each action keeps the types and puts nothing that is not in the database
\* or in Redis already.
LEMMA VersionStep == ASSUME Inv, [Next]_vars PROVE Inv'
<1> USE Distinct DEF Inv, TypeOK, NoVersionAhead, Versions, Fault, ReaderTo, DeleterTo, PutAt, ClearAt, readVars
<1>1. ASSUME NEW r \in Readers, QueryLocal(r) PROVE Inv'
  BY <1>1 DEF QueryLocal
<1>2. ASSUME NEW r \in Readers, MightContain(r) PROVE Inv'
  BY <1>2 DEF MightContain
<1>3. ASSUME NEW r \in Readers, GetRedis(r) PROVE Inv'
  BY <1>3 DEF GetRedis
<1>4. ASSUME NEW r \in Readers, FillLocal(r) PROVE Inv'
  BY <1>4 DEF FillLocal
<1>5. ASSUME NEW r \in Readers, TryLock(r) PROVE Inv'
  BY <1>5 DEF TryLock
<1>6. ASSUME NEW r \in Readers, RetryUnlocks(r) PROVE Inv'
  BY <1>6 DEF RetryUnlocks
<1>7. ASSUME NEW r \in Readers, DoubleCheck(r) PROVE Inv'
  BY <1>7 DEF DoubleCheck
<1>8. ASSUME NEW r \in Readers, LoadShop(r) PROVE Inv'
  BY <1>8 DEF LoadShop
<1>9. ASSUME NEW r \in Readers, StoreRedis(r) PROVE Inv'
  BY <1>9 DEF StoreRedis
<1>10. ASSUME NEW r \in Readers, Unlock(r) PROVE Inv'
  BY <1>10 DEF Unlock
<1>11. ASSUME NEW r \in Readers, QueryThrows(r) PROVE Inv'
  BY <1>11 DEF QueryThrows
<1>12. ASSUME NEW w \in Writers, UpdateShop(w) PROVE Inv'
  BY <1>12 DEF UpdateShop, Deleters
<1>13. ASSUME NEW w \in Writers, SaveShop(w) PROVE Inv'
  BY <1>13 DEF SaveShop, Deleters
<1>14. ASSUME NEW d \in Deleters, SaveCommits(d) PROVE Inv'
  BY <1>14 DEF SaveCommits
<1>15. ASSUME NEW d \in Deleters, InvalidateLocal(d) PROVE Inv'
  BY <1>15 DEF InvalidateLocal
<1>16. ASSUME NEW d \in Deleters, DeleteRedis(d) PROVE Inv'
  BY <1>16 DEF DeleteRedis
<1>17. ASSUME NEW d \in Deleters, DeleteFails(d) PROVE Inv'
  <2>1. retries' \in 0..faults' /\ faults' \in 0..MaxFaults
    <3>1. faults < MaxFaults /\ faults' = faults + 1 /\ retries' \in {retries, retries + 1}
      BY <1>17 DEF DeleteFails
    <3> QED
      BY <3>1
  <2>4. gaveUp' \in BOOLEAN
    <3>1. gaveUp' = TRUE \/ UNCHANGED gaveUp
      BY <1>17 DEF DeleteFails
    <3> QED
      BY <3>1
  <2>2. wPc' = [wPc EXCEPT ![d] = "idle"]
    BY <1>17 DEF DeleteFails
  <2>3. UNCHANGED <<db, l2, lock, l1, bloom, rPc, val, late>>
    BY <1>17 DEF DeleteFails
  <2> QED
    BY <2>1, <2>2, <2>3, <2>4
<1>18. ASSUME NEW k \in RetryConsumers, ConsumeDeleteRetry(k) PROVE Inv'
  BY <1>18 DEF ConsumeDeleteRetry, Deleters
<1>19. ASSUME NEW i \in Instances, ExpireLocal(i) PROVE Inv'
  BY <1>19 DEF ExpireLocal
<1>20. ASSUME NEW i \in Instances, Restart(i) PROVE Inv'
  BY <1>20 DEF Restart
<1>21. ASSUME NEW i \in Instances, InitBloomFilter(i) PROVE Inv'
  BY <1>21 DEF InitBloomFilter
<1>22. CASE RetryMessageLost
  BY <1>22 DEF RetryMessageLost
<1>23. CASE ExpireRedis
  BY <1>23 DEF ExpireRedis
<1>24. CASE ExpireLock
  BY <1>24 DEF ExpireLock
<1>25. CASE UNCHANGED vars
  BY <1>25 DEF vars
<1> QED
  BY <1>1, <1>2, <1>3, <1>4, <1>5, <1>6, <1>7, <1>8, <1>9, <1>10, <1>11, <1>12, <1>13,
     <1>14, <1>15, <1>16, <1>17, <1>18, <1>19, <1>20, <1>21, <1>22, <1>23, <1>24, <1>25
     DEF Next, QueryStep, DeleteStep

\* Every variable keeps its type and no level is ahead of the database.
LEMMA VersionsInOrder == Spec => []Inv
<1>1. Init => Inv
  <2> SUFFICES ASSUME Init PROVE Inv
    OBVIOUS
  <2>1. db \in Versions /\ db \in Nat
    BY Distinct DEF Init, Versions
  <2>2. TypeOK
    <3>1. 0 \in Versions /\ retries \in 0..faults /\ faults \in 0..MaxFaults
      BY Distinct DEF Init, Versions
    <3>2. bloom \in [Instances -> BOOLEAN] /\ gaveUp \in BOOLEAN
      BY DEF Init
    <3>3. /\ l1 \in [Instances -> (Versions \ {0}) \cup {None}]
          /\ val \in [Readers -> Versions]
          /\ wPc \in [Deleters -> {"idle", "save", "invalidate", "delete"}]
      BY <3>1 DEF Init
    <3> QED
      BY <2>1, <3>1, <3>2, <3>3 DEF Init, TypeOK
  <2>3. NoVersionAhead
    BY <2>1 DEF Init, NoVersionAhead
  <2> QED
    BY <2>2, <2>3 DEF Inv
<1> QED
  BY <1>1, VersionStep, PTL DEF Spec

\* The state of CacheClient, its callers and the retry consumer keeps its type.
THEOREM TypeCorrect == Spec => []TypeOK
BY VersionsInOrder, PTL DEF Inv

-----------------------------------------------------------------------------
LEMMA RedisStep ==
    ASSUME Inv, RedisStaleOnlyByRace, [Next]_vars PROVE RedisStaleOnlyByRace'
<1> USE Distinct DEF RedisStaleOnlyByRace, DeletePending, ReaderTo, DeleterTo, PutAt, ClearAt, readVars
<1>1. ASSUME UNCHANGED <<db, l2, wPc, retries, gaveUp>>, Redis \in late <=> Redis \in late'
      PROVE  RedisStaleOnlyByRace'
  BY <1>1
<1>2. ASSUME NEW r \in Readers, QueryLocal(r) \/ QueryStep(r) \/ QueryThrows(r)
      PROVE  RedisStaleOnlyByRace'
  <2>1. CASE StoreRedis(r)
    BY <2>1 DEF StoreRedis
  <2>2. CASE FillLocal(r)
    BY <1>1, <2>2 DEF FillLocal, Inv, TypeOK
  <2>3. CASE ~StoreRedis(r) /\ ~FillLocal(r)
    BY <1>1, <1>2, <2>3 DEF QueryStep, QueryLocal, QueryThrows, MightContain, GetRedis, TryLock,
       RetryUnlocks, DoubleCheck, LoadShop, Unlock
  <2> QED
    BY <2>1, <2>2, <2>3
<1>3. ASSUME NEW w \in Writers, UpdateShop(w) PROVE RedisStaleOnlyByRace'
  BY <1>3 DEF UpdateShop, Inv, TypeOK, Deleters
<1>4. ASSUME NEW w \in Writers, SaveShop(w) PROVE RedisStaleOnlyByRace'
  <2>1. wPc[w] = "idle" /\ w \in Deleters /\ wPc' = [wPc EXCEPT ![w] = "save"]
    BY <1>4 DEF SaveShop, Deleters
  <2> QED
    BY <1>4, <2>1 DEF SaveShop, Inv, TypeOK
<1>5. ASSUME NEW d \in Deleters, SaveCommits(d) PROVE RedisStaleOnlyByRace'
  <2>1. l2 \notin {None, 0, db'} => l2 \notin {None, 0, db}
    BY <1>5 DEF SaveCommits, Inv, TypeOK, NoVersionAhead, Versions
  <2> QED
    BY <1>5, <2>1 DEF SaveCommits, Inv, TypeOK
<1>6. ASSUME NEW d \in Deleters, InvalidateLocal(d) PROVE RedisStaleOnlyByRace'
  BY <1>6 DEF InvalidateLocal, Inv, TypeOK
<1>7. ASSUME NEW d \in Deleters, DeleteRedis(d) PROVE RedisStaleOnlyByRace'
  BY <1>7 DEF DeleteRedis
<1>8. ASSUME NEW d \in Deleters, DeleteFails(d) PROVE RedisStaleOnlyByRace'
  BY <1>8 DEF DeleteFails, Deleters, Inv, TypeOK, Fault
<1>9. ASSUME NEW k \in RetryConsumers, ConsumeDeleteRetry(k) PROVE RedisStaleOnlyByRace'
  BY <1>9 DEF ConsumeDeleteRetry, Inv, TypeOK, Deleters
<1>10. ASSUME NEW i \in Instances, ExpireLocal(i) PROVE RedisStaleOnlyByRace'
  BY <1>1, <1>10 DEF ExpireLocal
<1>11. ASSUME NEW i \in Instances, Restart(i) PROVE RedisStaleOnlyByRace'
  BY <1>11 DEF Restart, Inv, TypeOK
<1>12. ASSUME NEW i \in Instances, InitBloomFilter(i) PROVE RedisStaleOnlyByRace'
  BY <1>1, <1>12 DEF InitBloomFilter
<1>13. CASE RetryMessageLost
  BY <1>13 DEF RetryMessageLost
<1>14. CASE ExpireRedis
  BY <1>14 DEF ExpireRedis
<1>15. CASE ExpireLock
  BY <1>1, <1>15 DEF ExpireLock
<1>16. CASE UNCHANGED vars
  BY <1>1, <1>16 DEF vars
<1> QED
  BY <1>2, <1>3, <1>4, <1>5, <1>6, <1>7, <1>8, <1>9, <1>10, <1>11, <1>12, <1>13, <1>14,
     <1>15, <1>16 DEF Next, DeleteStep

\* An outdated row stays in Redis only with a delete due or given up, or after a late
\* store.
THEOREM RedisStaleness == Spec => []RedisStaleOnlyByRace
<1>1. Init => RedisStaleOnlyByRace
  BY DEF Init, RedisStaleOnlyByRace
<1> QED
  BY <1>1, VersionsInOrder, RedisStep, PTL DEF Spec

-----------------------------------------------------------------------------
LEMMA LocalStep ==
    ASSUME Inv, LocalStaleOnlyByRace, [Next]_vars PROVE LocalStaleOnlyByRace'
<1> USE Distinct DEF LocalStaleOnlyByRace, ReaderTo, DeleterTo, PutAt, ClearAt, readVars
<1>1. ASSUME UNCHANGED <<db, l1, wPc>>, \A i \in Instances : i \in late <=> i \in late'
      PROVE  LocalStaleOnlyByRace'
  BY <1>1
<1>2. ASSUME NEW r \in Readers, QueryLocal(r) \/ QueryStep(r) \/ QueryThrows(r)
      PROVE  LocalStaleOnlyByRace'
  <2>1. CASE StoreRedis(r)
    BY <1>1, <2>1 DEF StoreRedis
  <2>2. CASE FillLocal(r)
    BY <2>2 DEF FillLocal, Inv, TypeOK
  <2>3. CASE ~StoreRedis(r) /\ ~FillLocal(r)
    BY <1>1, <1>2, <2>3 DEF QueryStep, QueryLocal, QueryThrows, MightContain, GetRedis, TryLock,
       RetryUnlocks, DoubleCheck, LoadShop, Unlock
  <2> QED
    BY <2>1, <2>2, <2>3
<1>3. ASSUME NEW w \in Writers, UpdateShop(w) PROVE LocalStaleOnlyByRace'
  BY <1>3 DEF UpdateShop, Inv, TypeOK, Deleters
<1>4. ASSUME NEW w \in Writers, SaveShop(w) PROVE LocalStaleOnlyByRace'
  BY <1>4 DEF SaveShop, Inv, TypeOK, Deleters
<1>5. ASSUME NEW d \in Deleters, SaveCommits(d) PROVE LocalStaleOnlyByRace'
  <2>1. \A i \in Instances : l1[i] \notin {None, db'} => l1[i] \notin {None, db}
    BY <1>5 DEF SaveCommits, Inv, TypeOK, NoVersionAhead, Versions
  <2> QED
    BY <1>5, <2>1 DEF SaveCommits, Inv, TypeOK, Deleters
<1>6. ASSUME NEW d \in Deleters, InvalidateLocal(d) PROVE LocalStaleOnlyByRace'
  BY <1>6 DEF InvalidateLocal, Inv, TypeOK, Deleters
<1>7. ASSUME NEW d \in Deleters, DeleteRedis(d) PROVE LocalStaleOnlyByRace'
  BY <1>7 DEF DeleteRedis, Inv, TypeOK, Deleters
<1>8. ASSUME NEW d \in Deleters, DeleteFails(d) PROVE LocalStaleOnlyByRace'
  BY <1>8 DEF DeleteFails, Inv, TypeOK, Deleters
<1>9. ASSUME NEW k \in RetryConsumers, ConsumeDeleteRetry(k) PROVE LocalStaleOnlyByRace'
  BY <1>9, ThreadsDisjoint DEF ConsumeDeleteRetry, Inv, TypeOK, Deleters
<1>10. ASSUME NEW i \in Instances, ExpireLocal(i) PROVE LocalStaleOnlyByRace'
  BY <1>10 DEF ExpireLocal, Inv, TypeOK
<1>11. ASSUME NEW i \in Instances, Restart(i) PROVE LocalStaleOnlyByRace'
  BY <1>11 DEF Restart, Inv, TypeOK, Deleters
<1>12. ASSUME NEW i \in Instances, InitBloomFilter(i) PROVE LocalStaleOnlyByRace'
  BY <1>1, <1>12 DEF InitBloomFilter
<1>13. CASE RetryMessageLost
  BY <1>1, <1>13 DEF RetryMessageLost
<1>14. CASE ExpireRedis
  BY <1>1, <1>14 DEF ExpireRedis
<1>15. CASE ExpireLock
  BY <1>1, <1>15 DEF ExpireLock
<1>16. CASE UNCHANGED vars
  BY <1>1, <1>16 DEF vars
<1> QED
  BY <1>2, <1>3, <1>4, <1>5, <1>6, <1>7, <1>8, <1>9, <1>10, <1>11, <1>12, <1>13, <1>14,
     <1>15, <1>16 DEF Next, DeleteStep

\* An outdated row stays in the Caffeine cache of the updating instance only until it
\* is invalidated there, or after a late put.
THEOREM LocalStaleness == Spec => []LocalStaleOnlyByRace
<1>1. Init => LocalStaleOnlyByRace
  BY DEF Init, LocalStaleOnlyByRace
<1> QED
  BY <1>1, VersionsInOrder, LocalStep, PTL DEF Spec
=============================================================================
