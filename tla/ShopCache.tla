------------------------------ MODULE ShopCache ------------------------------
(***************************************************************************)
(* The multi-level cache in front of one shop: CacheClient and             *)
(* ShopServiceImpl, on several instances.                                  *)
(*                                                                         *)
(*   L1     Caffeine, one per instance, entries live 5 minutes             *)
(*   L2     Redis, shared; "" is the cached absence of the shop            *)
(*   lock   lock:shop:<id> in Redis, SETNX with a 10 s expiry              *)
(*   bloom  Guava filter, one per instance, filled when it starts          *)
(*                                                                         *)
(* A value is the version of the shop's row it was read from; version 0    *)
(* stands for "no row" and, in Redis, for "".  Every call to Redis, MySQL  *)
(* or Caffeine is a step of its own.                                       *)
(***************************************************************************)
EXTENDS Integers

CONSTANTS
    Instances,
    Readers,         \* request threads in queryById
    Writers,         \* request threads in updateShop or save
    RetryConsumers,  \* listener threads on cache.delete.retry
    InstanceOf,      \* [threads -> Instances]
    InitVersions,    \* {0}, {1} or both: is the shop there from the start?
    MaxVersion,      \* bound on the number of writes
    MaxFaults,       \* bound on exceptions, crashes and late locks
    None             \* no entry, nobody

Deleters == Writers \cup RetryConsumers
Redis == "redis"     \* the place that is not an instance

ASSUME InstanceOfType == InstanceOf \in [Readers \cup Deleters -> Instances]
ASSUME BoundsType == MaxVersion \in Nat /\ MaxFaults \in Nat /\ InitVersions \subseteq {0, 1} \cap 0..MaxVersion
ASSUME ThreadsDisjoint ==
    /\ Readers \cap Deleters = {} /\ Writers \cap RetryConsumers = {}
    /\ None \notin Readers \cup 0..MaxVersion /\ Redis \notin Instances

VARIABLES
    db,        \* committed version of the row
    l2,        \* cache:shop:<id>
    lock,      \* who set lock:shop:<id>; the value in Redis is "1" for all
    l1,        \* [Instances -> entry]
    bloom,     \* [Instances -> does the filter hold the id?]
    rPc,       \* [Readers -> step of queryWithPassThroughAndMutex]
    val,       \* [Readers -> value in hand]
    wPc,       \* [Deleters -> step of updateShop, save or delete]
    retries,   \* messages on cache.delete.retry
    faults,
    late,      \* history: the places whose entry was out of date when it was put
    gaveUp     \* history: a delete was abandoned

readVars == <<rPc, val>>
vars == <<db, l2, lock, l1, bloom, readVars, wPc, retries, faults, late, gaveUp>>

Versions == 0..MaxVersion

\* Every variable keeps its type; Caffeine never holds an absence, and there are
\* never more retry messages than failures.
TypeOK ==
    /\ db \in Versions
    /\ l2 \in Versions \cup {None}
    /\ lock \in Readers \cup {None}
    /\ l1 \in [Instances -> (Versions \ {0}) \cup {None}]
    /\ bloom \in [Instances -> BOOLEAN]
    /\ rPc \in [Readers -> {"idle", "bloom", "get", "fill", "tryLock", "retry",
                            "check", "load", "store", "fillLocked", "unlock"}]
    /\ val \in [Readers -> Versions]
    /\ wPc \in [Deleters -> {"idle", "save", "invalidate", "delete"}]
    /\ retries \in 0..faults
    /\ faults \in 0..MaxFaults
    /\ late \subseteq Instances \cup {Redis}
    /\ gaveUp \in BOOLEAN

Init ==
    /\ db \in InitVersions
    /\ l2 = None
    /\ lock = None
    /\ l1 = [i \in Instances |-> None]
    /\ bloom = [i \in Instances |-> FALSE]
    /\ rPc = [r \in Readers |-> "idle"]
    /\ val = [r \in Readers |-> 0]
    /\ wPc = [d \in Deleters |-> "idle"]
    /\ retries = 0
    /\ faults = 0
    /\ late = {}
    /\ gaveUp = FALSE

Fault == faults < MaxFaults /\ faults' = faults + 1
ReaderTo(r, pc) == rPc' = [rPc EXCEPT ![r] = pc]
DeleterTo(d, pc) == wPc' = [wPc EXCEPT ![d] = pc]

\* Version n is put where p says; late remembers whether it was out of date.
PutAt(p, n) == late' = IF n = db THEN late \ {p} ELSE late \cup {p}
ClearAt(ps) == late' = late \ ps

-----------------------------------------------------------------------------
(* CacheClient.queryWithPassThroughAndMutex.                                *)

\* The request and its look at Caffeine: a hit is the answer.
QueryLocal(r) ==
    /\ rPc[r] = "idle"
    /\ l1[InstanceOf[r]] = None
    /\ ReaderTo(r, "bloom")
    /\ UNCHANGED <<db, l2, lock, l1, bloom, val, wPc, retries, faults, late, gaveUp>>

\* A Bloom filter may also say yes to an id it was never given.
MightContain(r) ==
    /\ rPc[r] = "bloom"
    /\ \/ ReaderTo(r, "get")
       \/ ~bloom[InstanceOf[r]] /\ ReaderTo(r, "idle")
    /\ UNCHANGED <<db, l2, lock, l1, bloom, val, wPc, retries, faults, late, gaveUp>>

\* Mutant: "" is taken for a value.
GetRedisBlank(r) ==
    /\ rPc[r] = "get"
    /\ \/ l2 # None /\ val' = [val EXCEPT ![r] = l2] /\ ReaderTo(r, "fill")
       \/ l2 = None /\ ReaderTo(r, "tryLock") /\ UNCHANGED val
    /\ UNCHANGED <<db, l2, lock, l1, bloom, wPc, retries, faults, late, gaveUp>>

GetRedis(r) ==
    /\ rPc[r] = "get"
    /\ \/ l2 \notin {None, 0} /\ val' = [val EXCEPT ![r] = l2] /\ ReaderTo(r, "fill")
       \/ l2 = 0 /\ ReaderTo(r, "idle") /\ UNCHANGED val
       \/ l2 = None /\ ReaderTo(r, "tryLock") /\ UNCHANGED val
    /\ UNCHANGED <<db, l2, lock, l1, bloom, wPc, retries, faults, late, gaveUp>>

\* localCache.put, after an L2 hit and at the end of a load.
FillLocal(r) ==
    /\ \/ rPc[r] = "fill" /\ ReaderTo(r, "idle")
       \/ rPc[r] = "fillLocked" /\ ReaderTo(r, "unlock")
    /\ l1' = [l1 EXCEPT ![InstanceOf[r]] = val[r]]
    /\ PutAt(InstanceOf[r], val[r])
    /\ UNCHANGED <<db, l2, lock, bloom, val, wPc, retries, faults, gaveUp>>

TryLock(r) ==
    /\ rPc[r] = "tryLock"
    /\ \/ lock = None /\ lock' = r /\ ReaderTo(r, "check")
       \/ lock # None /\ ReaderTo(r, "retry") /\ UNCHANGED lock
    /\ UNCHANGED <<db, l2, l1, bloom, val, wPc, retries, faults, late, gaveUp>>

\* The loser sleeps and continues, through the finally block: it deletes a lock
\* that is not its own.
RetryUnlocks(r) ==
    /\ rPc[r] = "retry"
    /\ lock' = None
    /\ ReaderTo(r, "get")
    /\ UNCHANGED <<db, l2, l1, bloom, val, wPc, retries, faults, late, gaveUp>>

\* The second look at Redis does not know the cached "": it loads again.
DoubleCheck(r) ==
    /\ rPc[r] = "check"
    /\ \/ l2 \notin {None, 0} /\ val' = [val EXCEPT ![r] = l2] /\ ReaderTo(r, "fillLocked")
       \/ l2 \in {None, 0} /\ ReaderTo(r, "load") /\ UNCHANGED val
    /\ UNCHANGED <<db, l2, lock, l1, bloom, wPc, retries, faults, late, gaveUp>>

LoadShop(r) ==
    /\ rPc[r] = "load"
    /\ val' = [val EXCEPT ![r] = db]
    /\ ReaderTo(r, "store")
    /\ UNCHANGED <<db, l2, lock, l1, bloom, wPc, retries, faults, late, gaveUp>>

\* Mutant: the absence of the shop is not cached, the query tries again.
StoreNothingForNull(r) ==
    /\ rPc[r] = "store"
    /\ \/ /\ val[r] = 0
          /\ ReaderTo(r, "retry")
          /\ UNCHANGED <<l2, late>>
       \/ /\ val[r] # 0
          /\ ReaderTo(r, "fillLocked")
          /\ l2' = val[r]
          /\ PutAt(Redis, val[r])
    /\ UNCHANGED <<db, lock, l1, bloom, val, wPc, retries, faults, gaveUp>>

\* SET of the row, or of "" with the shorter TTL when there is none.
StoreRedis(r) ==
    /\ rPc[r] = "store"
    /\ l2' = val[r]
    /\ PutAt(Redis, val[r])
    /\ ReaderTo(r, IF val[r] = 0 THEN "unlock" ELSE "fillLocked")
    /\ UNCHANGED <<db, lock, l1, bloom, val, wPc, retries, faults, gaveUp>>

Unlock(r) ==
    /\ rPc[r] = "unlock"
    /\ lock' = None
    /\ ReaderTo(r, "idle")
    /\ UNCHANGED <<db, l2, l1, bloom, val, wPc, retries, faults, late, gaveUp>>

\* Redis or MySQL throws.  Inside the try block the finally block still runs;
\* outside it, or when the DEL itself fails, the lock is left as it is.
QueryThrows(r) ==
    /\ Fault
    /\ \/ rPc[r] \in {"tryLock", "check", "load", "store"} /\ ReaderTo(r, "unlock")
       \/ rPc[r] \in {"get", "retry", "unlock"} /\ ReaderTo(r, "idle")
    /\ UNCHANGED <<db, l2, lock, l1, bloom, val, wPc, retries, late, gaveUp>>

-----------------------------------------------------------------------------
(* ShopServiceImpl.updateShop and save, CacheClient.deleteWithRetry,        *)
(* CacheSyncConsumer.consumeDeleteRetry.                                    *)

\* updateById commits on its own; the caches are cleared after it.
UpdateShop(w) ==
    /\ wPc[w] = "idle"
    /\ db \in 1..MaxVersion - 1
    /\ db' = db + 1
    /\ DeleterTo(w, "invalidate")
    /\ UNCHANGED <<l2, lock, l1, bloom, readVars, retries, faults, late, gaveUp>>

\* save: the id enters the filter of this instance before the insert commits.
SaveShop(w) ==
    /\ wPc[w] = "idle"
    /\ db = 0
    /\ bloom' = [bloom EXCEPT ![InstanceOf[w]] = TRUE]
    /\ DeleterTo(w, "save")
    /\ UNCHANGED <<db, l2, lock, l1, readVars, retries, faults, late, gaveUp>>

\* The insert commits (it clears no cache) or rolls back (the id stays).
SaveCommits(w) ==
    /\ wPc[w] = "save"
    /\ \/ db = 0 /\ MaxVersion > 0 /\ db' = 1 /\ UNCHANGED faults
       \/ Fault /\ UNCHANGED db
       \/ db # 0 /\ UNCHANGED <<db, faults>>
    /\ DeleterTo(w, "idle")
    /\ UNCHANGED <<l2, lock, l1, bloom, readVars, retries, late, gaveUp>>

\* Mutant: delete forgets the local level.
InvalidateNothing(d) ==
    /\ wPc[d] = "invalidate"
    /\ DeleterTo(d, "delete")
    /\ UNCHANGED <<db, l2, lock, l1, bloom, readVars, retries, faults, late, gaveUp>>

\* delete, first L1 ...
InvalidateLocal(d) ==
    /\ wPc[d] = "invalidate"
    /\ l1' = [l1 EXCEPT ![InstanceOf[d]] = None]
    /\ ClearAt({InstanceOf[d]})
    /\ DeleterTo(d, "delete")
    /\ UNCHANGED <<db, l2, lock, bloom, readVars, retries, faults, gaveUp>>

\* ... then L2.
DeleteRedis(d) ==
    /\ wPc[d] = "delete"
    /\ l2' = None
    /\ ClearAt({Redis})
    /\ DeleterTo(d, "idle")
    /\ UNCHANGED <<db, lock, l1, bloom, readVars, retries, faults, gaveUp>>

\* Mutant: the failed delete is only logged.
DeleteFailureLogged(d) ==
    /\ Fault
    /\ wPc[d] = "delete"
    /\ DeleterTo(d, "idle")
    /\ UNCHANGED <<db, l2, lock, l1, bloom, readVars, retries, late, gaveUp>>

\* The DEL throws: a request sends the key to the retry topic, the retry
\* consumer swallows the exception.
DeleteFails(d) ==
    /\ Fault
    /\ wPc[d] = "delete"
    /\ DeleterTo(d, "idle")
    /\ \/ d \in Writers /\ retries' = retries + 1 /\ UNCHANGED gaveUp
       \/ d \in RetryConsumers /\ gaveUp' = TRUE /\ UNCHANGED retries
    /\ UNCHANGED <<db, l2, lock, l1, bloom, readVars, late>>

\* One instance of the consumer group gets the message; its own L1 is cleared.
ConsumeDeleteRetry(k) ==
    /\ wPc[k] = "idle"
    /\ retries > 0
    /\ retries' = retries - 1
    /\ DeleterTo(k, "invalidate")
    /\ UNCHANGED <<db, l2, lock, l1, bloom, readVars, faults, late, gaveUp>>

\* kafkaTemplate.send is asynchronous, nobody looks at its result.  Every message
\* goes back to a fault, so this one needs no budget of its own.
RetryMessageLost ==
    /\ retries > 0
    /\ retries' = retries - 1
    /\ gaveUp' = TRUE
    /\ UNCHANGED <<db, l2, lock, l1, bloom, readVars, wPc, faults, late>>

-----------------------------------------------------------------------------
(* Expiries and restarts.                                                   *)

\* Mutant: the cached absence has no TTL.
ExpireRedisValue ==
    /\ l2 \notin {None, 0}
    /\ l2' = None
    /\ ClearAt({Redis})
    /\ UNCHANGED <<db, lock, l1, bloom, readVars, wPc, retries, faults, gaveUp>>

ExpireRedis ==
    /\ l2 # None
    /\ l2' = None
    /\ ClearAt({Redis})
    /\ UNCHANGED <<db, lock, l1, bloom, readVars, wPc, retries, faults, gaveUp>>

\* Five minutes after the put, or evicted by the size bound.
ExpireLocal(i) ==
    /\ l1[i] # None
    /\ l1' = [l1 EXCEPT ![i] = None]
    /\ ClearAt({i})
    /\ UNCHANGED <<db, l2, lock, bloom, readVars, wPc, retries, faults, gaveUp>>

\* The process of the holder is gone, or it has moved on without the DEL.
Abandoned == rPc[lock] \notin {"check", "load", "store", "fillLocked", "unlock"}

\* Mutant: SETNX without the expiry.
LockNeverExpires == FALSE /\ UNCHANGED vars

\* Ten seconds after the SETNX: at once for the model if the holder is gone, as
\* a fault if it is still at work.
ExpireLock ==
    /\ lock # None
    /\ \/ Abandoned /\ UNCHANGED faults
       \/ ~Abandoned /\ Fault
    /\ lock' = None
    /\ UNCHANGED <<db, l2, l1, bloom, readVars, wPc, retries, late, gaveUp>>

\* The process dies and starts again: memory is empty, deletes are not resumed.
Restart(i) ==
    /\ Fault
    /\ l1' = [l1 EXCEPT ![i] = None]
    /\ ClearAt({i})
    /\ bloom' = [bloom EXCEPT ![i] = FALSE]
    /\ rPc' = [r \in Readers |-> IF InstanceOf[r] = i THEN "idle" ELSE rPc[r]]
    /\ wPc' = [d \in Deleters |-> IF InstanceOf[d] = i THEN "idle" ELSE wPc[d]]
    /\ gaveUp' = (gaveUp \/ \E d \in Deleters : InstanceOf[d] = i /\ wPc[d] # "idle")
    /\ UNCHANGED <<db, l2, lock, val, retries>>

\* BloomFilterInitializer.run: the server already answers while it lists the ids.
InitBloomFilter(i) ==
    /\ ~bloom[i]
    /\ db # 0
    /\ bloom' = [bloom EXCEPT ![i] = TRUE]
    /\ UNCHANGED <<db, l2, lock, l1, readVars, wPc, retries, faults, late, gaveUp>>

-----------------------------------------------------------------------------
QueryStep(r) ==
    \/ MightContain(r) \/ GetRedis(r) \/ FillLocal(r) \/ TryLock(r) \/ RetryUnlocks(r)
    \/ DoubleCheck(r) \/ LoadShop(r) \/ StoreRedis(r) \/ Unlock(r)
DeleteStep(d) == SaveCommits(d) \/ InvalidateLocal(d) \/ DeleteRedis(d)

Next ==
    \/ \E r \in Readers : QueryLocal(r) \/ QueryStep(r) \/ QueryThrows(r)
    \/ \E w \in Writers : UpdateShop(w) \/ SaveShop(w)
    \/ \E d \in Deleters : DeleteStep(d) \/ DeleteFails(d)
    \/ \E k \in RetryConsumers : ConsumeDeleteRetry(k)
    \/ \E i \in Instances : ExpireLocal(i) \/ Restart(i) \/ InitBloomFilter(i)
    \/ RetryMessageLost \/ ExpireRedis \/ ExpireLock

Spec == Init /\ [][Next]_vars

\* Request threads keep running and everything cached has a TTL.
Fairness ==
    /\ \A r \in Readers : WF_vars(QueryStep(r))
    /\ \A d \in Deleters : WF_vars(DeleteStep(d))
    /\ \A i \in Instances : WF_vars(ExpireLocal(i))
    /\ WF_vars(ExpireRedis) /\ WF_vars(ExpireLock)

FairSpec == Spec /\ Fairness

-----------------------------------------------------------------------------
(* Properties.                                                              *)

DeletePending == retries > 0 \/ \E d \in Deleters : wPc[d] \in {"invalidate", "delete"}

\* updateShop's order, the database first and Redis after it, with the retry topic
\* behind the DEL, leaves an outdated row in Redis only while a delete is still
\* due, after one was given up for good, or when a loader that had read the
\* database before the update stored its value late.
RedisStaleOnlyByRace ==
    l2 \notin {None, 0, db} => DeletePending \/ gaveUp \/ Redis \in late

\* The Caffeine cache of an instance that performs all the updates is outdated only
\* until the updating thread has invalidated it, or when a query put an outdated
\* value, read from the database or from Redis, after that.  Other instances are
\* never told, and a failing DEL makes no difference here.
LocalStaleOnlyByRace ==
    \A i \in Instances :
        (\A w \in Writers : InstanceOf[w] = i) /\ l1[i] \notin {None, db} =>
            i \in late \/ \E w \in Writers : wPc[w] = "invalidate"

\* When the writes have stopped, all levels of all instances end up with what the
\* database holds, cached absences and late loads included: every entry expires.
CachesConverge == <>[](l2 \in {None, db} /\ \A i \in Instances : l1[i] \in {None, db})

\* No query loops for ever for the shop lock, unless the entry expires over and
\* over before it gets to read it.
QueriesReturn ==
    (\A r \in Readers : rPc[r] # "idle" ~> rPc[r] = "idle") \/ []<><<ExpireRedis>>_vars

\* The shop lock does not stay taken, not even by a loader that died.
LockIsFreed == lock # None ~> lock = None

\* "with a mutex": one loader at a time queries the database.
DbQueryIsExclusive ==
    \A r, q \in Readers : rPc[r] = "load" /\ rPc[q] = "load" => r = q

-----------------------------------------------------------------------------
(* The inductive invariant behind the two (ShopCacheProofs).                *)

\* Nothing cached or in a reader's hand is ahead of the database: a value that
\* differs from the row is an older one.
NoVersionAhead ==
    /\ l2 # None => l2 <= db
    /\ \A i \in Instances : l1[i] # None => l1[i] <= db
    /\ \A r \in Readers : val[r] <= db
    /\ \A r \in Readers : rPc[r] \in {"fill", "fillLocked"} => val[r] # 0
=============================================================================
