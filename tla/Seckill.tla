------------------------------- MODULE Seckill -------------------------------
(***************************************************************************)
(* The flash-sale order pipeline of nexus-service-main.                    *)
(*                                                                         *)
(*   HTTP request      Lua script in Redis, send to topic seckill.order,   *)
(*                     register the order in a Redis ZSet                  *)
(*   pollers           move due orders from the ZSet to topic order.cancel *)
(*   order consumers   createVoucherOrder: Redisson lock, count, deduct,   *)
(*                     insert, unlock, and only then commit                *)
(*   cancel consumers  cancelVoucherOrder: read, mark, Redis INCR, DB      *)
(*                     stock + 1, commit                                   *)
(*                                                                         *)
(* A request is named by the order id it draws from RedisIdWorker.  Every  *)
(* call that another actor can interleave with is an action of its own.    *)
(* Writes of an open transaction are staged in tx and applied at commit;   *)
(* rowLock and orderLock are the InnoDB record locks it holds until then.  *)
(***************************************************************************)
EXTENDS Integers, FiniteSets

CONSTANTS
    OrderIds,            \* ids handed out by RedisIdWorker, one per request
    Users,
    Vouchers,
    UserOf,              \* [OrderIds -> Users]
    VoucherOf,           \* [OrderIds -> Vouchers]
    InitStock,           \* [Vouchers -> Nat]: published in MySQL and in Redis
    OrderConsumers,      \* listener threads on seckill.order, one per instance
    CancelConsumers,     \* listener threads on order.cancel, one per instance
    Pollers,             \* pollExpiredTasks threads, one per instance
    MaxFaults,           \* bound on crashes, exceptions, rebalances, lost sends, preheats
    PreheatValues,       \* stocks an operator may SET through SupportController
    SchedulingEnabled,   \* TRUE: @Scheduled is active.  The code has no @EnableScheduling,
                         \* so a run that says TRUE covers more than this build does
    PromptConsumption,   \* TRUE: an order message is handled once before its 60 s delay ends
    RedisForgets,        \* TRUE: Redis may restart from its last RDB snapshot
    None,                \* no order, nobody
    Orphan               \* holder of a Redisson lock whose process is gone

Consumers == OrderConsumers \cup CancelConsumers

ASSUME OrderIdsFinite == IsFiniteSet(OrderIds)
ASSUME UserOfType == UserOf \in [OrderIds -> Users]
ASSUME VoucherOfType == VoucherOf \in [OrderIds -> Vouchers]
ASSUME InitStockType == InitStock \in [Vouchers -> Nat]
ASSUME PreheatType == PreheatValues \subseteq Nat
ASSUME MaxFaultsType == MaxFaults \in Nat
ASSUME SwitchesType == {SchedulingEnabled, PromptConsumption, RedisForgets} \subseteq BOOLEAN
ASSUME ConsumersDisjoint == OrderConsumers \cap CancelConsumers = {}
ASSUME NobodyAssumption ==
    /\ None \notin OrderIds \cup Consumers
    /\ Orphan \notin Consumers \cup {None}

VARIABLES
    (* the HTTP requests *)
    reqPc,        \* [OrderIds -> step of seckillVoucher]
    (* Redis *)
    redisStock,   \* seckill:stock:<voucher>
    bought,       \* seckill:order:<voucher>, the set of users
    stream,       \* stream.orders: XADDed by the script, read by nobody
    delayQueue,   \* order:delay:queue
    lockOwner,    \* lock:order:<user>, the Redisson lock
    rdb,          \* the last RDB snapshot of the first four
    (* Kafka *)
    orderMsg,     \* [OrderIds -> fate of its message on seckill.order]
    cancelMsg,    \* [OrderIds -> fate of its message on order.cancel]
    zombies,      \* consumers that lost their partition and do not know it yet
    (* MySQL, committed state and record locks *)
    dbStock,      \* tb_seckill_voucher.stock
    orderRow,     \* tb_voucher_order.status, "none" while there is no row
    rowLock,      \* [Vouchers -> consumer whose transaction locks the stock row]
    orderLock,    \* [OrderIds -> consumer whose transaction locks the order row]
    (* pollExpiredTasks *)
    batch,        \* [Pollers -> expired ids still to be looked at]
    sending,      \* [Pollers -> id removed from the ZSet, message not yet sent]
    (* listener threads *)
    cPc,          \* [Consumers -> step of the transaction]
    cMsg,         \* [Consumers -> order id being handled]
    tx,           \* [Consumers -> what the open transaction has written]
    faults        \* faults so far

redisVars == <<redisStock, bought, stream, rdb>>
dbVars    == <<dbStock, orderRow>>
lockVars  == <<rowLock, orderLock>>
pollVars  == <<delayQueue, batch, sending>>
consVars  == <<cPc, cMsg, tx>>
vars == <<reqPc, redisVars, lockOwner, orderMsg, cancelMsg, zombies, dbVars,
          lockVars, pollVars, consVars, faults>>

ReqSteps  == {"start", "send", "register", "done", "soldOut", "repeat", "failed"}
MsgStates == {"none", "buffered", "queued", "taken", "processed", "committed", "lost"}
RowStates == {"none", "unpaid", "paid", "cancelled"}
TxStates  == {"clean", "deducted", "ordered", "marked", "returned", "rollback"}
ConsSteps == {"idle", "count", "deduct", "save", "unlock", "end",
              "mark", "incr", "restock"}

Snapshots == [stock : [Vouchers -> Nat], bought : [Vouchers -> SUBSET Users],
              stream : SUBSET OrderIds, delayQueue : SUBSET OrderIds]

\* Every variable keeps its type; neither stock ever goes below zero, which is what
\* the script's test and the UPDATE's stock > 0 are for.
TypeOK ==
    /\ reqPc \in [OrderIds -> ReqSteps]
    /\ redisStock \in [Vouchers -> Nat]
    /\ bought \in [Vouchers -> SUBSET Users]
    /\ stream \subseteq OrderIds
    /\ delayQueue \subseteq OrderIds
    /\ lockOwner \in [Users -> OrderConsumers \cup {None, Orphan}]
    /\ rdb \in Snapshots
    /\ orderMsg \in [OrderIds -> MsgStates]
    /\ cancelMsg \in [OrderIds -> MsgStates]
    /\ zombies \subseteq Consumers
    /\ dbStock \in [Vouchers -> Nat]
    /\ orderRow \in [OrderIds -> RowStates]
    /\ rowLock \in [Vouchers -> Consumers \cup {None}]
    /\ orderLock \in [OrderIds -> Consumers \cup {None}]
    /\ batch \in [Pollers -> SUBSET OrderIds]
    /\ sending \in [Pollers -> OrderIds \cup {None}]
    /\ cPc \in [Consumers -> ConsSteps]
    /\ cMsg \in [Consumers -> OrderIds \cup {None}]
    /\ tx \in [Consumers -> TxStates]
    /\ faults \in 0..MaxFaults

RedisNow == [stock |-> redisStock, bought |-> bought, stream |-> stream,
             delayQueue |-> delayQueue]

Init ==
    /\ reqPc = [o \in OrderIds |-> "start"]
    /\ redisStock = InitStock
    /\ bought = [v \in Vouchers |-> {}]
    /\ stream = {}
    /\ delayQueue = {}
    /\ lockOwner = [u \in Users |-> None]
    /\ rdb = RedisNow
    /\ orderMsg = [o \in OrderIds |-> "none"]
    /\ cancelMsg = [o \in OrderIds |-> "none"]
    /\ zombies = {}
    /\ dbStock = InitStock
    /\ orderRow = [o \in OrderIds |-> "none"]
    /\ rowLock = [v \in Vouchers |-> None]
    /\ orderLock = [o \in OrderIds |-> None]
    /\ batch = [p \in Pollers |-> {}]
    /\ sending = [p \in Pollers |-> None]
    /\ cPc = [c \in Consumers |-> "idle"]
    /\ cMsg = [c \in Consumers |-> None]
    /\ tx = [c \in Consumers |-> "clean"]
    /\ faults = 0

Fault == faults < MaxFaults /\ faults' = faults + 1

-----------------------------------------------------------------------------
(* The request: VoucherOrderServiceImpl.seckillVoucher and seckill.lua.     *)

\* Return code 1: the stock key is exhausted.
LuaSoldOut(o) ==
    /\ reqPc[o] = "start"
    /\ redisStock[VoucherOf[o]] = 0
    /\ reqPc' = [reqPc EXCEPT ![o] = "soldOut"]
    /\ UNCHANGED <<redisVars, lockOwner, orderMsg, cancelMsg, zombies, dbVars,
                   lockVars, pollVars, consVars, faults>>

\* Return code 2: the user is already in the voucher's order set.
LuaRepeat(o) ==
    /\ reqPc[o] = "start"
    /\ redisStock[VoucherOf[o]] > 0
    /\ UserOf[o] \in bought[VoucherOf[o]]
    /\ reqPc' = [reqPc EXCEPT ![o] = "repeat"]
    /\ UNCHANGED <<redisVars, lockOwner, orderMsg, cancelMsg, zombies, dbVars,
                   lockVars, pollVars, consVars, faults>>

\* Mutant: the script forgets SISMEMBER.
LuaAcceptRepeat(o) ==
    /\ reqPc[o] = "start"
    /\ redisStock[VoucherOf[o]] > 0
    /\ redisStock' = [redisStock EXCEPT ![VoucherOf[o]] = @ - 1]
    /\ bought' = [bought EXCEPT ![VoucherOf[o]] = @ \cup {UserOf[o]}]
    /\ stream' = stream \cup {o}
    /\ reqPc' = [reqPc EXCEPT ![o] = "send"]
    /\ UNCHANGED <<rdb, lockOwner, orderMsg, cancelMsg, zombies, dbVars, lockVars,
                   pollVars, consVars, faults>>

\* Return code 0: INCRBY -1, SADD and XADD in one atomic script.
LuaAccept(o) ==
    /\ reqPc[o] = "start"
    /\ redisStock[VoucherOf[o]] > 0
    /\ UserOf[o] \notin bought[VoucherOf[o]]
    /\ redisStock' = [redisStock EXCEPT ![VoucherOf[o]] = @ - 1]
    /\ bought' = [bought EXCEPT ![VoucherOf[o]] = @ \cup {UserOf[o]}]
    /\ stream' = stream \cup {o}
    /\ reqPc' = [reqPc EXCEPT ![o] = "send"]
    /\ UNCHANGED <<rdb, lockOwner, orderMsg, cancelMsg, zombies, dbVars, lockVars,
                   pollVars, consVars, faults>>

\* Mutant: the XADD of the script is taken for the message.
SendNothing(o) ==
    /\ reqPc[o] = "send"
    /\ reqPc' = [reqPc EXCEPT ![o] = "register"]
    /\ UNCHANGED <<redisVars, lockOwner, orderMsg, cancelMsg, zombies, dbVars, lockVars,
                   pollVars, consVars, faults>>

\* kafkaTemplate.send only hands the record to the producer's buffer.
SendOrderMessage(o) ==
    /\ reqPc[o] = "send"
    /\ orderMsg' = [orderMsg EXCEPT ![o] = "buffered"]
    /\ reqPc' = [reqPc EXCEPT ![o] = "register"]
    /\ UNCHANGED <<redisVars, lockOwner, cancelMsg, zombies, dbVars, lockVars,
                   pollVars, consVars, faults>>

RegisterDelayTask(o) ==
    /\ reqPc[o] = "register"
    /\ delayQueue' = delayQueue \cup {o}
    /\ reqPc' = [reqPc EXCEPT ![o] = "done"]
    /\ UNCHANGED <<redisVars, lockOwner, orderMsg, cancelMsg, zombies, dbVars,
                   lockVars, batch, sending, consVars, faults>>

\* send or ZADD throws, or the process dies: nothing undoes the script.
RequestFails(o) ==
    /\ Fault
    /\ reqPc[o] \in {"send", "register"}
    /\ reqPc' = [reqPc EXCEPT ![o] = "failed"]
    /\ UNCHANGED <<redisVars, lockOwner, orderMsg, cancelMsg, zombies, dbVars,
                   lockVars, pollVars, consVars>>

\* SupportController.preheatSeckill: SET of the stock key alone.
PreheatSeckill(v) ==
    /\ Fault
    /\ \E n \in PreheatValues : redisStock' = [redisStock EXCEPT ![v] = n]
    /\ UNCHANGED <<reqPc, bought, stream, rdb, lockOwner, orderMsg, cancelMsg, zombies,
                   dbVars, lockVars, pollVars, consVars>>

\* Redis is deployed with RDB snapshots only (k8s/04-deployments-db.yaml sets no
\* appendonly).  A snapshot no restart can follow any more is not saved.
RedisSavesSnapshot ==
    /\ RedisForgets
    /\ faults < MaxFaults
    /\ rdb' = RedisNow
    /\ UNCHANGED <<reqPc, redisStock, bought, stream, lockOwner, orderMsg, cancelMsg,
                   zombies, dbVars, lockVars, pollVars, consVars, faults>>

\* A restart brings back the last snapshot: what was removed since is there again, what
\* was added is gone.  Which locks it holds is left open: a lock of today's holder, one
\* whose holder has finished since and whose lease has not ended, or none.
RedisRestoresSnapshot ==
    /\ RedisForgets
    /\ Fault
    /\ redisStock' = rdb.stock
    /\ bought' = rdb.bought
    /\ stream' = rdb.stream
    /\ delayQueue' = rdb.delayQueue
    /\ \E kept, old \in SUBSET {UserOf[o] : o \in rdb.stream} :
          lockOwner' = [u \in Users |-> IF u \in old THEN Orphan
                                       ELSE IF u \in kept THEN lockOwner[u] ELSE None]
    /\ UNCHANGED <<reqPc, rdb, orderMsg, cancelMsg, zombies, dbVars, lockVars, batch,
                   sending, consVars>>

-----------------------------------------------------------------------------
(* Kafka, as the code uses it: acknowledged asynchronously, delivered at    *)
(* least once, offsets committed after the listener returned (AckMode       *)
(* BATCH).  The orders of a topic are spread over partitions by key hash,   *)
(* so no order of delivery between two ids is assumed.                      *)

BrokerAppend(o) ==
    /\ \/ /\ orderMsg[o] = "buffered"
          /\ orderMsg' = [orderMsg EXCEPT ![o] = "queued"]
          /\ UNCHANGED cancelMsg
       \/ /\ cancelMsg[o] = "buffered"
          /\ cancelMsg' = [cancelMsg EXCEPT ![o] = "queued"]
          /\ UNCHANGED orderMsg
    /\ UNCHANGED <<reqPc, redisVars, lockOwner, zombies, dbVars, lockVars,
                   pollVars, consVars, faults>>

\* The buffer dies with its process, or the retries run out: nobody is told.
SendLost(o) ==
    /\ Fault
    /\ \/ /\ orderMsg[o] = "buffered"
          /\ orderMsg' = [orderMsg EXCEPT ![o] = "lost"]
          /\ UNCHANGED cancelMsg
       \/ /\ cancelMsg[o] = "buffered"
          /\ cancelMsg' = [cancelMsg EXCEPT ![o] = "lost"]
          /\ UNCHANGED orderMsg
    /\ UNCHANGED <<reqPc, redisVars, lockOwner, zombies, dbVars, lockVars,
                   pollVars, consVars>>

OffsetCommit(o) ==
    /\ \/ /\ orderMsg[o] = "processed"
          /\ orderMsg' = [orderMsg EXCEPT ![o] = "committed"]
          /\ UNCHANGED cancelMsg
       \/ /\ cancelMsg[o] = "processed"
          /\ cancelMsg' = [cancelMsg EXCEPT ![o] = "committed"]
          /\ UNCHANGED orderMsg
    /\ UNCHANGED <<reqPc, redisVars, lockOwner, zombies, dbVars, lockVars,
                   pollVars, consVars, faults>>

\* A crash or a rebalance between the listener's return and the offset commit.
Redeliver(o) ==
    /\ Fault
    /\ \/ /\ orderMsg[o] = "processed"
          /\ orderMsg' = [orderMsg EXCEPT ![o] = "queued"]
          /\ UNCHANGED cancelMsg
       \/ /\ cancelMsg[o] = "processed"
          /\ cancelMsg' = [cancelMsg EXCEPT ![o] = "queued"]
          /\ UNCHANGED orderMsg
    /\ UNCHANGED <<reqPc, redisVars, lockOwner, zombies, dbVars, lockVars,
                   pollVars, consVars>>

\* The fate of the message a consumer was handling becomes s.
SetMsg(c, s) ==
    /\ orderMsg' = IF c \in OrderConsumers
                   THEN [orderMsg EXCEPT ![cMsg[c]] = s] ELSE orderMsg
    /\ cancelMsg' = IF c \in CancelConsumers
                    THEN [cancelMsg EXCEPT ![cMsg[c]] = s] ELSE cancelMsg

\* The group takes a slow consumer's partition away; its thread runs on.
Rebalance(c) ==
    /\ Fault
    /\ cPc[c] # "idle"
    /\ c \notin zombies
    /\ zombies' = zombies \cup {c}
    /\ SetMsg(c, "queued")
    /\ UNCHANGED <<reqPc, redisVars, lockOwner, dbVars, lockVars, pollVars, consVars>>

-----------------------------------------------------------------------------
(* OrderDelayTaskRegistry.pollExpiredTasks.                                 *)

\* Time is abstract: any registered order may be found expired.
Expired == {o \in delayQueue :
              PromptConsumption => \/ orderMsg[o] \in {"processed", "committed"}
                                   \/ orderRow[o] # "none"}

PollExpiredTasks(p) ==
    /\ SchedulingEnabled
    /\ batch[p] = {} /\ sending[p] = None
    /\ \E S \in SUBSET Expired :
          /\ S # {}
          /\ batch' = [batch EXCEPT ![p] = S]
    /\ UNCHANGED <<reqPc, redisVars, lockOwner, orderMsg, cancelMsg, zombies, dbVars,
                   lockVars, delayQueue, sending, consVars, faults>>

\* Mutant: the result of ZREM is not looked at.
RemoveTaskUnchecked(p) ==
    /\ sending[p] = None
    /\ \E o \in batch[p] :
          /\ batch' = [batch EXCEPT ![p] = @ \ {o}]
          /\ delayQueue' = delayQueue \ {o}
          /\ sending' = [sending EXCEPT ![p] = o]
    /\ UNCHANGED <<reqPc, redisVars, lockOwner, orderMsg, cancelMsg, zombies, dbVars,
                   lockVars, consVars, faults>>

\* Mutant: the scan removes all the ids it found before it sends the first message.
RemoveTasksTogether(p) ==
    /\ sending[p] = None
    /\ \E o \in batch[p] :
          /\ batch' = [batch EXCEPT ![p] = @ \ {o}]
          /\ delayQueue' = delayQueue \ batch[p]
          /\ sending' = [sending EXCEPT ![p] = IF o \in delayQueue THEN o ELSE None]
    /\ UNCHANGED <<reqPc, redisVars, lockOwner, orderMsg, cancelMsg, zombies, dbVars,
                   lockVars, consVars, faults>>

\* ZREM decides which instance sends the message.
RemoveTask(p) ==
    /\ sending[p] = None
    /\ \E o \in batch[p] :
          /\ batch' = [batch EXCEPT ![p] = @ \ {o}]
          /\ delayQueue' = delayQueue \ {o}
          /\ sending' = [sending EXCEPT ![p] = IF o \in delayQueue THEN o ELSE None]
    /\ UNCHANGED <<reqPc, redisVars, lockOwner, orderMsg, cancelMsg, zombies, dbVars,
                   lockVars, consVars, faults>>

SendOrderCancelMessage(p) ==
    /\ sending[p] # None
    /\ cancelMsg' = [cancelMsg EXCEPT ![sending[p]] = "buffered"]
    /\ sending' = [sending EXCEPT ![p] = None]
    /\ UNCHANGED <<reqPc, redisVars, lockOwner, orderMsg, zombies, dbVars, lockVars,
                   delayQueue, batch, consVars, faults>>

\* An exception or a crash ends the scan; the id removed last is gone.
PollerFails(p) ==
    /\ Fault
    /\ batch[p] # {} \/ sending[p] # None
    /\ batch' = [batch EXCEPT ![p] = {}]
    /\ sending' = [sending EXCEPT ![p] = None]
    /\ UNCHANGED <<reqPc, redisVars, lockOwner, orderMsg, cancelMsg, zombies, dbVars,
                   lockVars, delayQueue, consVars>>

-----------------------------------------------------------------------------
(* createVoucherOrder, called by consumeOrderMessage.                       *)

Goto(c, s) == cPc' = [cPc EXCEPT ![c] = s]

\* The transaction is over: its record locks are free.
ReleaseRows(c) ==
    /\ rowLock' = [v \in Vouchers |-> IF rowLock[v] = c THEN None ELSE rowLock[v]]
    /\ orderLock' = [o \in OrderIds |-> IF orderLock[o] = c THEN None ELSE orderLock[o]]

\* The listener returns: the message counts as handled, whatever happened,
\* unless the partition has been given away meanwhile.
Finish(c) ==
    /\ Goto(c, "idle")
    /\ cMsg' = [cMsg EXCEPT ![c] = None]
    /\ tx' = [tx EXCEPT ![c] = "clean"]
    /\ zombies' = zombies \ {c}
    /\ IF c \in zombies THEN UNCHANGED <<orderMsg, cancelMsg>> ELSE SetMsg(c, "processed")

\* Mutant: one lock for all users, the key without the user id.
TryLockShared(c, o) ==
    /\ cPc[c] = "idle"
    /\ orderMsg[o] = "queued"
    /\ \/ /\ \A u \in Users : lockOwner[u] = None
          /\ lockOwner' = [lockOwner EXCEPT ![UserOf[o]] = c]
          /\ cMsg' = [cMsg EXCEPT ![c] = o]
          /\ Goto(c, "count")
          /\ orderMsg' = [orderMsg EXCEPT ![o] = "taken"]
       \/ /\ \E u \in Users : lockOwner[u] # None
          /\ orderMsg' = [orderMsg EXCEPT ![o] = "processed"]
          /\ UNCHANGED <<lockOwner, cMsg, cPc>>
    /\ UNCHANGED <<reqPc, redisVars, cancelMsg, zombies, dbVars, lockVars, pollVars,
                   tx, faults>>

\* tryLock without waiting; when the user's lock is taken the message is dropped.
TryLock(c, o) ==
    /\ cPc[c] = "idle"
    /\ orderMsg[o] = "queued"
    /\ \/ /\ lockOwner[UserOf[o]] = None
          /\ lockOwner' = [lockOwner EXCEPT ![UserOf[o]] = c]
          /\ cMsg' = [cMsg EXCEPT ![c] = o]
          /\ Goto(c, "count")
          /\ orderMsg' = [orderMsg EXCEPT ![o] = "taken"]
       \/ /\ lockOwner[UserOf[o]] # None
          /\ orderMsg' = [orderMsg EXCEPT ![o] = "processed"]
          /\ UNCHANGED <<lockOwner, cMsg, cPc>>
    /\ UNCHANGED <<reqPc, redisVars, cancelMsg, zombies, dbVars, lockVars, pollVars,
                   tx, faults>>

SamePurchase(o, q) == UserOf[o] = UserOf[q] /\ VoucherOf[o] = VoucherOf[q]

\* query().eq("user_id").eq("voucher_id").count() > 0 over the committed rows.
AlreadyOrdered(o) == \E q \in OrderIds : SamePurchase(o, q) /\ orderRow[q] # "none"

CheckCount(c) ==
    /\ cPc[c] = "count"
    /\ Goto(c, IF AlreadyOrdered(cMsg[c]) THEN "unlock" ELSE "deduct")
    /\ UNCHANGED <<reqPc, redisVars, lockOwner, orderMsg, cancelMsg, zombies, dbVars,
                   lockVars, pollVars, cMsg, tx, faults>>

\* Mutant: stock is read, then written, instead of one UPDATE under the row lock.
DeductStockUnlocked(c) ==
    /\ cPc[c] = "deduct"
    /\ rowLock' = [rowLock EXCEPT ![VoucherOf[cMsg[c]]] = c]
    /\ \/ /\ dbStock[VoucherOf[cMsg[c]]] > 0
          /\ tx' = [tx EXCEPT ![c] = "deducted"]
          /\ Goto(c, "save")
       \/ /\ dbStock[VoucherOf[cMsg[c]]] = 0
          /\ Goto(c, "unlock")
          /\ UNCHANGED tx
    /\ UNCHANGED <<reqPc, redisVars, lockOwner, orderMsg, cancelMsg, zombies, dbVars,
                   orderLock, pollVars, cMsg, faults>>

\* Mutant: no gt("stock", 0).
DeductStockBelowZero(c) ==
    /\ cPc[c] = "deduct"
    /\ rowLock[VoucherOf[cMsg[c]]] = None
    /\ rowLock' = [rowLock EXCEPT ![VoucherOf[cMsg[c]]] = c]
    /\ tx' = [tx EXCEPT ![c] = "deducted"]
    /\ Goto(c, "save")
    /\ UNCHANGED <<reqPc, redisVars, lockOwner, orderMsg, cancelMsg, zombies, dbVars,
                   orderLock, pollVars, cMsg, faults>>

\* Mutant: gt("stock", 1).
DeductStockOffByOne(c) ==
    /\ cPc[c] = "deduct"
    /\ rowLock[VoucherOf[cMsg[c]]] = None
    /\ rowLock' = [rowLock EXCEPT ![VoucherOf[cMsg[c]]] = c]
    /\ \/ /\ dbStock[VoucherOf[cMsg[c]]] > 1
          /\ tx' = [tx EXCEPT ![c] = "deducted"]
          /\ Goto(c, "save")
       \/ /\ dbStock[VoucherOf[cMsg[c]]] <= 1
          /\ Goto(c, "unlock")
          /\ UNCHANGED tx
    /\ UNCHANGED <<reqPc, redisVars, lockOwner, orderMsg, cancelMsg, zombies, dbVars,
                   orderLock, pollVars, cMsg, faults>>

\* UPDATE ... stock - 1 WHERE stock > 0 locks the row even when it changes nothing.
DeductStock(c) ==
    /\ cPc[c] = "deduct"
    /\ rowLock[VoucherOf[cMsg[c]]] = None
    /\ rowLock' = [rowLock EXCEPT ![VoucherOf[cMsg[c]]] = c]
    /\ \/ /\ dbStock[VoucherOf[cMsg[c]]] > 0
          /\ tx' = [tx EXCEPT ![c] = "deducted"]
          /\ Goto(c, "save")
       \/ /\ dbStock[VoucherOf[cMsg[c]]] = 0
          /\ Goto(c, "unlock")
          /\ UNCHANGED tx
    /\ UNCHANGED <<reqPc, redisVars, lockOwner, orderMsg, cancelMsg, zombies, dbVars,
                   orderLock, pollVars, cMsg, faults>>

\* Mutant: INSERT ... ON DUPLICATE KEY UPDATE.
UpsertOrder(c) ==
    /\ cPc[c] = "save"
    /\ orderLock[cMsg[c]] = None
    /\ orderLock' = [orderLock EXCEPT ![cMsg[c]] = c]
    /\ tx' = [tx EXCEPT ![c] = "ordered"]
    /\ Goto(c, "unlock")
    /\ UNCHANGED <<reqPc, redisVars, lockOwner, orderMsg, cancelMsg, zombies, dbVars,
                   rowLock, pollVars, cMsg, faults>>

\* INSERT with the order id as primary key; a duplicate throws.
SaveOrder(c) ==
    /\ cPc[c] = "save"
    /\ orderLock[cMsg[c]] = None
    /\ orderLock' = [orderLock EXCEPT ![cMsg[c]] = c]
    /\ tx' = [tx EXCEPT ![c] = IF orderRow[cMsg[c]] = "none" THEN "ordered" ELSE "rollback"]
    /\ Goto(c, "unlock")
    /\ UNCHANGED <<reqPc, redisVars, lockOwner, orderMsg, cancelMsg, zombies, dbVars,
                   rowLock, pollVars, cMsg, faults>>

\* Mutant: no finally block.
NoUnlock(c) ==
    /\ cPc[c] = "unlock"
    /\ Goto(c, "end")
    /\ UNCHANGED <<reqPc, redisVars, lockOwner, orderMsg, cancelMsg, zombies, dbVars,
                   lockVars, pollVars, cMsg, tx, faults>>

\* finally { unlock }, before the commit; not the holder any more: it throws.
Unlock(c) ==
    /\ cPc[c] = "unlock"
    /\ Goto(c, "end")
    /\ \/ /\ lockOwner[UserOf[cMsg[c]]] = c
          /\ lockOwner' = [lockOwner EXCEPT ![UserOf[cMsg[c]]] = None]
          /\ UNCHANGED tx
       \/ /\ lockOwner[UserOf[cMsg[c]]] # c
          /\ tx' = [tx EXCEPT ![c] = "rollback"]
          /\ UNCHANGED lockOwner
    /\ UNCHANGED <<reqPc, redisVars, orderMsg, cancelMsg, zombies, dbVars, lockVars,
                   pollVars, cMsg, faults>>

\* The @Transactional proxy commits the deduction and the row together.
CommitCreate(c) ==
    /\ cPc[c] = "end"
    /\ tx[c] = "ordered"
    /\ orderRow' = [orderRow EXCEPT ![cMsg[c]] = "unpaid"]
    /\ dbStock' = [dbStock EXCEPT ![VoucherOf[cMsg[c]]] = @ - 1]
    /\ ReleaseRows(c)
    /\ Finish(c)
    /\ UNCHANGED <<reqPc, redisVars, lockOwner, pollVars, faults>>

\* Mutant: an early return leaves the transaction open, its record locks held.
EndLeavesTransactionOpen(c) ==
    /\ cPc[c] = "end"
    /\ tx[c] \in {"clean", "rollback"}
    /\ Finish(c)
    /\ UNCHANGED <<reqPc, redisVars, lockOwner, dbVars, lockVars, pollVars, faults>>

\* Nothing was written, or an exception rolls the transaction back and is
\* swallowed by the listener: the same for both methods.
EndWithoutEffect(c) ==
    /\ cPc[c] = "end"
    /\ tx[c] \in {"clean", "rollback"}
    /\ ReleaseRows(c)
    /\ Finish(c)
    /\ UNCHANGED <<reqPc, redisVars, lockOwner, dbVars, pollVars, faults>>

-----------------------------------------------------------------------------
(* cancelVoucherOrder, called by consumeCancelMessage.                      *)

\* getById: an order not there or not unpaid needs no cancelling.
ReadOrder(c, o) ==
    /\ cPc[c] = "idle"
    /\ cancelMsg[o] = "queued"
    /\ \/ /\ orderRow[o] = "unpaid"
          /\ cMsg' = [cMsg EXCEPT ![c] = o]
          /\ Goto(c, "mark")
          /\ cancelMsg' = [cancelMsg EXCEPT ![o] = "taken"]
       \/ /\ orderRow[o] # "unpaid"
          /\ cancelMsg' = [cancelMsg EXCEPT ![o] = "processed"]
          /\ UNCHANGED <<cMsg, cPc>>
    /\ UNCHANGED <<reqPc, redisVars, lockOwner, orderMsg, zombies, dbVars, lockVars,
                   pollVars, tx, faults>>

\* Mutant: the number of updated rows is not looked at.
MarkUnchecked(c) ==
    /\ cPc[c] = "mark"
    /\ orderLock[cMsg[c]] = None
    /\ orderLock' = [orderLock EXCEPT ![cMsg[c]] = c]
    /\ tx' = [tx EXCEPT ![c] = IF orderRow[cMsg[c]] = "unpaid" THEN "marked" ELSE @]
    /\ Goto(c, "incr")
    /\ UNCHANGED <<reqPc, redisVars, lockOwner, orderMsg, cancelMsg, zombies, dbVars,
                   rowLock, pollVars, cMsg, faults>>

\* UPDATE ... status = 4 WHERE id = ? AND status = 1.
MarkCancelled(c) ==
    /\ cPc[c] = "mark"
    /\ orderLock[cMsg[c]] = None
    /\ orderLock' = [orderLock EXCEPT ![cMsg[c]] = c]
    /\ \/ /\ orderRow[cMsg[c]] = "unpaid"
          /\ tx' = [tx EXCEPT ![c] = "marked"]
          /\ Goto(c, "incr")
       \/ /\ orderRow[cMsg[c]] # "unpaid"
          /\ Goto(c, "end")
          /\ UNCHANGED tx
    /\ UNCHANGED <<reqPc, redisVars, lockOwner, orderMsg, cancelMsg, zombies, dbVars,
                   rowLock, pollVars, cMsg, faults>>

\* Redis takes no part in the transaction: the INCR is visible at once.
IncrRedisStock(c) ==
    /\ cPc[c] = "incr"
    /\ redisStock' = [redisStock EXCEPT ![VoucherOf[cMsg[c]]] = @ + 1]
    /\ Goto(c, "restock")
    /\ UNCHANGED <<reqPc, bought, stream, rdb, lockOwner, orderMsg, cancelMsg, zombies,
                   dbVars, lockVars, pollVars, cMsg, tx, faults>>

RestoreDbStock(c) ==
    /\ cPc[c] = "restock"
    /\ rowLock[VoucherOf[cMsg[c]]] = None
    /\ rowLock' = [rowLock EXCEPT ![VoucherOf[cMsg[c]]] = c]
    /\ tx' = [tx EXCEPT ![c] = "returned"]
    /\ Goto(c, "end")
    /\ UNCHANGED <<reqPc, redisVars, lockOwner, orderMsg, cancelMsg, zombies, dbVars,
                   orderLock, pollVars, cMsg, faults>>

\* Mutant: the unit is given back to Redis only.
CommitCancelKeepsUnit(c) ==
    /\ cPc[c] = "end"
    /\ tx[c] = "returned"
    /\ orderRow' = [orderRow EXCEPT ![cMsg[c]] = "cancelled"]
    /\ ReleaseRows(c)
    /\ Finish(c)
    /\ UNCHANGED <<reqPc, redisVars, lockOwner, dbStock, pollVars, faults>>

CommitCancel(c) ==
    /\ cPc[c] = "end"
    /\ tx[c] = "returned"
    /\ orderRow' = [orderRow EXCEPT ![cMsg[c]] = "cancelled"]
    /\ dbStock' = [dbStock EXCEPT ![VoucherOf[cMsg[c]]] = @ + 1]
    /\ ReleaseRows(c)
    /\ Finish(c)
    /\ UNCHANGED <<reqPc, redisVars, lockOwner, pollVars, faults>>

\* The payment the status guards are written for; outside the repository.
Pay(o) ==
    /\ orderRow[o] = "unpaid"
    /\ orderLock[o] = None
    /\ orderRow' = [orderRow EXCEPT ![o] = "paid"]
    /\ UNCHANGED <<reqPc, redisVars, lockOwner, orderMsg, cancelMsg, zombies, dbStock,
                   lockVars, pollVars, consVars, faults>>

-----------------------------------------------------------------------------
(* What can go wrong inside a listener.                                     *)

\* MySQL or Redis throws: createVoucherOrder still passes through its finally
\* block, a failing commit rolls back.
CreateThrows(c) ==
    /\ Fault
    /\ \/ cPc[c] \in {"count", "deduct", "save"} /\ Goto(c, "unlock")
       \/ cPc[c] = "end" /\ tx[c] # "rollback" /\ UNCHANGED cPc
    /\ tx' = [tx EXCEPT ![c] = "rollback"]
    /\ UNCHANGED <<reqPc, redisVars, lockOwner, orderMsg, cancelMsg, zombies, dbVars,
                   lockVars, pollVars, cMsg>>

CancelThrows(c) ==
    /\ Fault
    /\ cPc[c] # "idle" /\ tx[c] # "rollback"
    /\ tx' = [tx EXCEPT ![c] = "rollback"]
    /\ Goto(c, "end")
    /\ UNCHANGED <<reqPc, redisVars, lockOwner, orderMsg, cancelMsg, zombies, dbVars,
                   lockVars, pollVars, cMsg>>

\* The process dies: MySQL rolls back, Kafka will redeliver, and the Redisson
\* lock stays behind until its lease ends.
ConsumerCrash(c) ==
    /\ Fault
    /\ cPc[c] # "idle"
    /\ ReleaseRows(c)
    /\ lockOwner' = [u \in Users |-> IF lockOwner[u] = c THEN Orphan ELSE lockOwner[u]]
    /\ Goto(c, "idle")
    /\ cMsg' = [cMsg EXCEPT ![c] = None]
    /\ tx' = [tx EXCEPT ![c] = "clean"]
    /\ zombies' = zombies \ {c}
    /\ IF c \in zombies THEN UNCHANGED <<orderMsg, cancelMsg>> ELSE SetMsg(c, "queued")
    /\ UNCHANGED <<reqPc, redisVars, dbVars, pollVars>>

OrphanLockExpires(u) ==
    /\ lockOwner[u] = Orphan
    /\ lockOwner' = [lockOwner EXCEPT ![u] = None]
    /\ UNCHANGED <<reqPc, redisVars, orderMsg, cancelMsg, zombies, dbVars, lockVars,
                   pollVars, consVars, faults>>

\* A holder paused for longer than the watchdog's lease loses the lock unnoticed.
HeldLockExpires(u) ==
    /\ Fault
    /\ lockOwner[u] \in OrderConsumers
    /\ lockOwner' = [lockOwner EXCEPT ![u] = None]
    /\ UNCHANGED <<reqPc, redisVars, orderMsg, cancelMsg, zombies, dbVars, lockVars,
                   pollVars, consVars>>

\* A duplicate of o's message waits to insert o while holding the stock row, o's
\* cancellation waits for the stock row while holding o: InnoDB rolls one back.
BreakDeadlock(c, k) ==
    /\ cPc[c] = "save" /\ orderLock[cMsg[c]] = k
    /\ cPc[k] = "restock" /\ rowLock[VoucherOf[cMsg[k]]] = c
    /\ \/ ReleaseRows(c) /\ tx' = [tx EXCEPT ![c] = "rollback"] /\ Goto(c, "unlock")
       \/ ReleaseRows(k) /\ tx' = [tx EXCEPT ![k] = "rollback"] /\ Goto(k, "end")
    /\ UNCHANGED <<reqPc, redisVars, lockOwner, orderMsg, cancelMsg, zombies, dbVars,
                   pollVars, cMsg, faults>>

-----------------------------------------------------------------------------
RequestStep(o) == SendOrderMessage(o) \/ RegisterDelayTask(o)
PollerStep(p) == PollExpiredTasks(p) \/ RemoveTask(p) \/ SendOrderCancelMessage(p)
CreateStep(c) ==
    \/ \E o \in OrderIds : TryLock(c, o)
    \/ CheckCount(c) \/ DeductStock(c) \/ SaveOrder(c) \/ Unlock(c) \/ CommitCreate(c)
    \/ EndWithoutEffect(c)
CancelStep(c) ==
    \/ \E o \in OrderIds : ReadOrder(c, o)
    \/ MarkCancelled(c) \/ IncrRedisStock(c) \/ RestoreDbStock(c) \/ CommitCancel(c)
    \/ EndWithoutEffect(c)

Next ==
    \/ \E o \in OrderIds :
          \/ LuaSoldOut(o) \/ LuaRepeat(o) \/ LuaAccept(o) \/ RequestStep(o)
          \/ RequestFails(o) \/ BrokerAppend(o) \/ SendLost(o) \/ OffsetCommit(o)
          \/ Redeliver(o) \/ Pay(o)
    \/ \E v \in Vouchers : PreheatSeckill(v)
    \/ RedisSavesSnapshot \/ RedisRestoresSnapshot
    \/ \E p \in Pollers : PollerStep(p) \/ PollerFails(p)
    \/ \E c \in OrderConsumers : CreateStep(c) \/ CreateThrows(c)
    \/ \E c \in CancelConsumers : CancelStep(c) \/ CancelThrows(c)
    \/ \E c \in Consumers : Rebalance(c) \/ ConsumerCrash(c)
    \/ \E c \in OrderConsumers, k \in CancelConsumers : BreakDeadlock(c, k)
    \/ \E u \in Users : OrphanLockExpires(u) \/ HeldLockExpires(u)

Spec == Init /\ [][Next]_vars

\* Threads that were started keep running, Kafka delivers, an abandoned lease ends and
\* InnoDB breaks deadlocks.  A scan that has begun goes on, but nobody owes a scan.
\* Users, operators, snapshots and faults owe nothing.
Fairness ==
    /\ \A o \in OrderIds : WF_vars(RequestStep(o)) /\ WF_vars(BrokerAppend(o))
    /\ \A p \in Pollers : WF_vars(RemoveTask(p) \/ SendOrderCancelMessage(p))
    /\ \A c \in OrderConsumers : WF_vars(CreateStep(c))
    /\ \A k \in CancelConsumers : WF_vars(CancelStep(k))
    /\ \A c \in OrderConsumers, k \in CancelConsumers : WF_vars(BreakDeadlock(c, k))
    /\ \A u \in Users : WF_vars(OrphanLockExpires(u))

FairSpec == Spec /\ Fairness

\* Moreover a scan that Spring schedules comes again and again (fixedDelay = 1000).
ScanningSpec == FairSpec /\ \A p \in Pollers : WF_vars(PollExpiredTasks(p))

-----------------------------------------------------------------------------
(* Properties.                                                              *)

Ledger == INSTANCE StockLedger WITH stock <- dbStock, row <- orderRow

\* The committed database behaves as the atomic ledger: redeliveries, duplicate
\* deliveries, lost locks, rollbacks and the unlock before the commit included,
\* each unit of stock leaves once per order row and comes back once per
\* cancellation, and a paid or cancelled row never changes again.
LedgerSpec == Ledger!LedgerSpec

\* Every unit of MySQL stock is for sale or held by one live order row.
StockConserved == Ledger!StockConserved

\* A user has at most one row per voucher, cancelled rows included ("one order per
\* person"): nothing but the Lua script's order set makes it so, since the lock is
\* released before the commit and the table has no unique key on the pair.
OneRowPerPurchase ==
    \A o, q \in OrderIds :
        SamePurchase(o, q) /\ orderRow[o] # "none" /\ orderRow[q] # "none" => o = q

\* An expired order is in the ZSet, or with the one poller whose ZREM returned 1,
\* or its cancel message was sent: no two instances cancel the same order.
OneCancelMessage ==
    \A o \in OrderIds :
        /\ \A p \in Pollers : sending[p] = o => o \notin delayQueue /\ cancelMsg[o] = "none"
        /\ \A p, q \in Pollers : sending[p] = o /\ sending[q] = o => p = q
        /\ cancelMsg[o] # "none" => o \notin delayQueue

\* Accepted orders whose unit the cancellation has not given back to Redis.
Cancelling(o) == \E k \in CancelConsumers : cMsg[k] = o /\ cPc[k] \in {"restock", "end"}
                                            /\ tx[k] \in {"marked", "returned"}
Claims(v) == {o \in stream : /\ VoucherOf[o] = v
                             /\ orderRow[o] # "cancelled"
                             /\ ~Cancelling(o)}

\* Without faults, the Redis counter and the accepted orders always add up to the
\* published stock, although INCR runs ahead of the transaction it belongs to.
RedisAccountsForEveryUnit ==
    faults = 0 =>
       \A v \in Vouchers : redisStock[v] + Cardinality(Claims(v)) = InitStock[v]

\* Without faults, a user who was told ok gets an order row: no listener discards
\* the message.
AcceptedIsSaved ==
    faults = 0 =>
       \A o \in OrderIds :
          orderMsg[o] \in {"processed", "committed"} => orderRow[o] # "none"

Handles(c, o) == cPc[c] # "idle" /\ cMsg[c] = o

\* An accepted order of which no row will come: its request is over, its message gone,
\* and no listener, zombies included, still works on it.
Abandoned == {o \in stream :
                 /\ orderRow[o] = "none"
                 /\ reqPc[o] # "send"
                 /\ orderMsg[o] \notin {"buffered", "queued"}
                 /\ \A c \in OrderConsumers : ~Handles(c, o)}

\* A crash, an exception, a rebalance, a lost send or an expired lock costs one accepted
\* order at most: the lock a dead listener leaves behind and the redelivery it causes
\* turn nobody else's order away.  (Where Redis keeps its data, users buy one voucher
\* each, and it has a unit for everybody.)
OneOrderPerFault == Cardinality(Abandoned) <= faults

\* Somebody will still look whether o is paid: the request that has yet to register it,
\* the ZSet, a poller, or a message or listener on order.cancel.
Watched(o) ==
    \/ reqPc[o] \in {"send", "register"}
    \/ o \in delayQueue
    \/ \E p \in Pollers : sending[p] = o
    \/ cancelMsg[o] \in {"buffered", "queued", "taken"}

\* The order ceases to be watched and is neither paid nor cancelled.
Unwatched(o) == Watched(o) /\ ~Watched(o)' /\ orderRow'[o] \notin {"paid", "cancelled"}

UnwatchReason(o) ==
    \/ faults' # faults
    \/ orderRow[o] = "none"
    \/ \E k \in CancelConsumers : cMsg[k] = o /\ tx[k] = "rollback"

\* An order ceases to be watched in a fault, because its cancel message overtook the row
\* it is about, or because its cancellation was rolled back.  No step does that to two
\* orders, a crash between ZREM and send included, while Redis keeps its data.
UnwatchedForAReason ==
    [][/\ \A o \in OrderIds : Unwatched(o) => UnwatchReason(o)
       /\ \A o, q \in OrderIds : Unwatched(o) /\ Unwatched(q) /\ o # q => RedisForgets]_vars

\* A listener leaves createVoucherOrder without the row it was called for.
GivesUp(c) ==
    \/ cPc[c] \in {"count", "deduct", "save"} /\ cPc'[c] = "unlock" /\ tx'[c] # "ordered"
    \/ tx[c] = "ordered" /\ tx'[c] = "rollback"

\* Without faults there are two reasons only to drop an accepted order: the user's lock is
\* taken for another voucher, or the last unit is with an order whose cancellation has
\* told Redis but not yet MySQL.  Neither the count of rows nor the INSERT refuses any.
DroppedForAReason ==
    [][faults' = 0 =>
          /\ \A o \in OrderIds :
                orderMsg[o] = "queued" /\ orderMsg'[o] = "processed" =>
                   \E c \in OrderConsumers :
                      /\ lockOwner[UserOf[o]] = c /\ cPc[c] # "idle"
                      /\ UserOf[cMsg[c]] = UserOf[o] /\ VoucherOf[cMsg[c]] # VoucherOf[o]
          /\ \A c \in OrderConsumers :
                GivesUp(c) =>
                   /\ cPc[c] = "deduct"
                   /\ \E q \in OrderIds : VoucherOf[q] = VoucherOf[cMsg[c]] /\ Cancelling(q)]_vars

\* If nothing fails, the message of every accepted order reaches a listener that takes it
\* to the end; AcceptedIsSaved says what comes of it.
SavedWithoutFaults ==
    [](faults = 0) =>
       \A o \in OrderIds : o \in stream ~> orderMsg[o] \in {"processed", "committed"}

\* If nothing fails, the delay task closes every order that is not paid, as the comments
\* of OrderDelayTaskRegistry and VoucherOrderServiceImpl have it.  Nothing schedules the
\* scan, so it does not.
UnpaidIsSettled ==
    [](faults = 0) => \A o \in OrderIds : orderRow[o] = "unpaid" ~> orderRow[o] # "unpaid"

\* No listener thread waits for ever, on a record lock or otherwise.
ListenersReturn == \A c \in Consumers : cPc[c] # "idle" ~> cPc[c] = "idle"

\* No user's lock stays taken, not even by a process that died holding it.
UserLockIsFreed == \A u \in Users : lockOwner[u] # None ~> lockOwner[u] = None

-----------------------------------------------------------------------------
(* The inductive invariants behind the safety properties (SeckillProofs).   *)

\* What createVoucherOrder has staged stays possible until it commits: the stock
\* row it has deducted from and the order id it has inserted are locked by it.
CreatorOK(c) ==
    /\ cPc[c] \in {"idle", "count", "deduct", "save", "unlock", "end"}
    /\ cPc[c] # "idle" => cMsg[c] \in OrderIds
    /\ tx[c] \in {"clean", "deducted", "ordered", "rollback"}
    /\ cPc[c] \in {"idle", "count", "deduct"} => tx[c] = "clean"
    /\ cPc[c] = "save" <=> tx[c] = "deducted"
    /\ tx[c] \in {"deducted", "ordered"} =>
          rowLock[VoucherOf[cMsg[c]]] = c /\ dbStock[VoucherOf[cMsg[c]]] > 0
    /\ tx[c] = "ordered" => orderLock[cMsg[c]] = c /\ orderRow[cMsg[c]] = "none"

\* What cancelVoucherOrder has marked stays unpaid until it commits.
CancellerOK(k) ==
    /\ cPc[k] \in {"idle", "mark", "incr", "restock", "end"}
    /\ cPc[k] # "idle" => cMsg[k] \in OrderIds
    /\ tx[k] \in {"clean", "marked", "returned", "rollback"}
    /\ cPc[k] \in {"idle", "mark"} => tx[k] = "clean"
    /\ cPc[k] \in {"incr", "restock"} <=> tx[k] = "marked"
    /\ tx[k] \in {"marked", "returned"} =>
          orderLock[cMsg[k]] = k /\ orderRow[cMsg[k]] = "unpaid"
    /\ tx[k] = "returned" => rowLock[VoucherOf[cMsg[k]]] = k

\* An open transaction's writes are covered by record locks and still valid, so
\* commits of concurrent listeners, zombies included, never invalidate them.
ListenerInv ==
    /\ \A c \in OrderConsumers : CreatorOK(c)
    /\ \A k \in CancelConsumers : CancellerOK(k)

\* Whatever Kafka, a listener or MySQL holds was accepted by the script, and the
\* script accepts one order per user and voucher.
AcceptInv ==
    /\ \A o \in OrderIds :
          /\ reqPc[o] = "send" => o \in stream
          /\ orderMsg[o] # "none" => o \in stream
          /\ orderRow[o] # "none" => o \in stream
          /\ o \in stream => UserOf[o] \in bought[VoucherOf[o]]
    /\ \A c \in OrderConsumers : cPc[c] # "idle" => cMsg[c] \in stream
    /\ \A o, q \in stream : SamePurchase(o, q) => o = q

\* Only a registered order is in the ZSet, with a poller or on order.cancel, and
\* it is in one of the three at a time.
DelayInv ==
    /\ OneCancelMessage
    /\ \A o \in OrderIds : reqPc[o] # "done" =>
          /\ o \notin delayQueue
          /\ cancelMsg[o] = "none"
          /\ \A p \in Pollers : sending[p] # o
    /\ \A k \in CancelConsumers : cPc[k] # "idle" => cancelMsg[cMsg[k]] # "none"
=============================================================================
