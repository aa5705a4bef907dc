---------------------------- MODULE SeckillProofs ----------------------------
(***************************************************************************)
(* What holds of the flash-sale pipeline for any number of orders, users,  *)
(* vouchers, instances and faults.                                         *)
(*                                                                         *)
(*   TypeOK /\ ListenerInv     is inductive                                *)
(*   => every step is a step of StockLedger, so the stock is conserved     *)
(*   DelayInv  (with these)    is inductive while Redis keeps its data     *)
(*                             => OneCancelMessage                         *)
(*   AcceptInv (with these)    is inductive while Redis keeps its data     *)
(*                             => OneRowPerPurchase                        *)
(*   AccountInv (with these)   is inductive => RedisAccountsForEveryUnit   *)
(*   CalmInv   (with these)    is inductive => DroppedForAReason, by       *)
(*                             counting units and claims                   *)
(*   WaitInv   (with LockInv)  is inductive => every deadlock is a pair    *)
(*                             => SomebodyGoesOn                           *)
(*   OwnersAreAtWork (with these) is inductive                             *)
(*   SettledInv (with WaitInv) is inductive => UnwatchedForAReason         *)
(*   RiskInv   (with these)    is inductive when there is room for all     *)
(*                             => OneOrderPerFault, AcceptedIsSaved        *)
(***************************************************************************)
EXTENDS Seckill, FiniteSetTheorems, TLAPS

Proved == INSTANCE StockLedgerProofs WITH stock <- dbStock, row <- orderRow

-----------------------------------------------------------------------------
(* Types and record locks.                                                  *)

LEMMA InitInv == Init => TypeOK /\ ListenerInv
<1>1. Init => TypeOK
  BY InitStockType, MaxFaultsType
     DEF Init, TypeOK, ReqSteps, MsgStates, RowStates, TxStates, ConsSteps, Snapshots, RedisNow
<1>2. Init => ListenerInv
  BY ConsumersDisjoint DEF Init, ListenerInv, CreatorOK, CancellerOK, Consumers
<1> QED BY <1>1, <1>2

\* The end of a transaction keeps the types of what it touches.
LEMMA FinishType ==
    ASSUME TypeOK, ListenerInv, NEW c \in Consumers, cPc[c] = "end",
           ReleaseRows(c), Finish(c)
    PROVE  /\ orderMsg' \in [OrderIds -> MsgStates]
           /\ cancelMsg' \in [OrderIds -> MsgStates]
           /\ zombies' \subseteq Consumers
           /\ rowLock' \in [Vouchers -> Consumers \cup {None}]
           /\ orderLock' \in [OrderIds -> Consumers \cup {None}]
           /\ cPc' \in [Consumers -> ConsSteps]
           /\ cMsg' \in [Consumers -> OrderIds \cup {None}]
           /\ tx' \in [Consumers -> TxStates]
<1>1. /\ rowLock' \in [Vouchers -> Consumers \cup {None}]
      /\ orderLock' \in [OrderIds -> Consumers \cup {None}]
  BY DEF TypeOK, ReleaseRows
<1>2. /\ cPc' \in [Consumers -> ConsSteps]
      /\ cMsg' \in [Consumers -> OrderIds \cup {None}]
      /\ tx' \in [Consumers -> TxStates]
      /\ zombies' \subseteq Consumers
  BY DEF TypeOK, Finish, Goto, ConsSteps, TxStates
<1>3. cMsg[c] \in OrderIds
  BY DEF ListenerInv, CreatorOK, CancellerOK, Consumers
<1>4. /\ orderMsg' \in [OrderIds -> MsgStates]
      /\ cancelMsg' \in [OrderIds -> MsgStates]
  BY <1>3 DEF TypeOK, Finish, SetMsg, MsgStates
<1> QED BY <1>1, <1>2, <1>4

\* No step leaves the types.  CommitCreate needs ListenerInv: the stock it
\* decrements is positive.
LEMMA TypeStep ==
    ASSUME TypeOK, ListenerInv, [Next]_vars
    PROVE  TypeOK'
<1> USE UserOfType, VoucherOfType, InitStockType, PreheatType, MaxFaultsType
<1> USE DEF TypeOK, redisVars, dbVars, lockVars, pollVars, consVars, Goto, Fault,
            ReqSteps, MsgStates, RowStates, TxStates, ConsSteps, Consumers
<1>1. ASSUME NEW o \in OrderIds, LuaSoldOut(o) PROVE TypeOK'
  BY <1>1 DEF LuaSoldOut
<1>2. ASSUME NEW o \in OrderIds, LuaRepeat(o) PROVE TypeOK'
  BY <1>2 DEF LuaRepeat
<1>3. ASSUME NEW o \in OrderIds, LuaAccept(o) PROVE TypeOK'
  BY <1>3 DEF LuaAccept
<1>4. ASSUME NEW o \in OrderIds, SendOrderMessage(o) PROVE TypeOK'
  BY <1>4 DEF SendOrderMessage
<1>5. ASSUME NEW o \in OrderIds, RegisterDelayTask(o) PROVE TypeOK'
  BY <1>5 DEF RegisterDelayTask
<1>6. ASSUME NEW o \in OrderIds, RequestFails(o) PROVE TypeOK'
  BY <1>6 DEF RequestFails
<1>7. ASSUME NEW o \in OrderIds, BrokerAppend(o) PROVE TypeOK'
  BY <1>7 DEF BrokerAppend
<1>8. ASSUME NEW o \in OrderIds, SendLost(o) PROVE TypeOK'
  BY <1>8 DEF SendLost
<1>9. ASSUME NEW o \in OrderIds, OffsetCommit(o) PROVE TypeOK'
  BY <1>9 DEF OffsetCommit
<1>10. ASSUME NEW o \in OrderIds, Redeliver(o) PROVE TypeOK'
  BY <1>10 DEF Redeliver
<1>11. ASSUME NEW o \in OrderIds, Pay(o) PROVE TypeOK'
  BY <1>11 DEF Pay
<1>12. ASSUME NEW v \in Vouchers, PreheatSeckill(v) PROVE TypeOK'
  BY <1>12 DEF PreheatSeckill
<1>13. ASSUME RedisRestoresSnapshot PROVE TypeOK'
  BY <1>13 DEF RedisRestoresSnapshot, Snapshots
<1>38. ASSUME RedisSavesSnapshot PROVE TypeOK'
  BY <1>38 DEF RedisSavesSnapshot, Snapshots, RedisNow
<1>14. ASSUME NEW p \in Pollers, PollExpiredTasks(p) PROVE TypeOK'
  BY <1>14 DEF PollExpiredTasks, Expired
<1>15. ASSUME NEW p \in Pollers, RemoveTask(p) PROVE TypeOK'
  BY <1>15 DEF RemoveTask
<1>16. ASSUME NEW p \in Pollers, SendOrderCancelMessage(p) PROVE TypeOK'
  BY <1>16 DEF SendOrderCancelMessage
<1>17. ASSUME NEW p \in Pollers, PollerFails(p) PROVE TypeOK'
  BY <1>17 DEF PollerFails
<1>18. ASSUME NEW c \in OrderConsumers, NEW o \in OrderIds, TryLock(c, o)
     PROVE TypeOK'
  <2>1. UserOf[o] \in Users
    OBVIOUS
  <2>2. lockOwner' \in [Users -> OrderConsumers \cup {None, Orphan}]
    BY <1>18, <2>1 DEF TryLock
  <2>3. /\ orderMsg' \in [OrderIds -> MsgStates]
        /\ cPc' \in [Consumers -> ConsSteps]
        /\ cMsg' \in [Consumers -> OrderIds \cup {None}]
    BY <1>18 DEF TryLock
  <2> QED BY <1>18, <2>2, <2>3 DEF TryLock
<1>19. ASSUME NEW c \in OrderConsumers, CheckCount(c) PROVE TypeOK'
  BY <1>19 DEF CheckCount, ListenerInv, CreatorOK, CancellerOK
<1>20. ASSUME NEW c \in OrderConsumers, DeductStock(c) PROVE TypeOK'
  BY <1>20 DEF DeductStock, ListenerInv, CreatorOK, CancellerOK
<1>21. ASSUME NEW c \in OrderConsumers, SaveOrder(c) PROVE TypeOK'
  BY <1>21 DEF SaveOrder, ListenerInv, CreatorOK, CancellerOK
<1>22. ASSUME NEW c \in OrderConsumers, Unlock(c) PROVE TypeOK'
  BY <1>22 DEF Unlock, ListenerInv, CreatorOK, CancellerOK
<1>23. ASSUME NEW c \in OrderConsumers, CommitCreate(c) PROVE TypeOK'
  <2>1. c \in Consumers /\ cPc[c] = "end" /\ ReleaseRows(c) /\ Finish(c)
    BY <1>23 DEF CommitCreate
  <2>2. /\ cMsg[c] \in OrderIds /\ VoucherOf[cMsg[c]] \in Vouchers
        /\ tx[c] = "ordered" => dbStock[VoucherOf[cMsg[c]]] > 0
    BY <1>23 DEF CommitCreate, ListenerInv, CreatorOK
  <2>3. /\ dbStock' \in [Vouchers -> Nat]
        /\ orderRow' \in [OrderIds -> RowStates]
    BY <1>23, <2>2 DEF CommitCreate
  <2>4. UNCHANGED <<reqPc, redisVars, lockOwner, pollVars, faults>>
    BY <1>23 DEF CommitCreate
  <2> QED BY <2>1, <2>3, <2>4, FinishType
<1>24. ASSUME NEW k \in CancelConsumers, NEW o \in OrderIds, ReadOrder(k, o)
     PROVE TypeOK'
  BY <1>24 DEF ReadOrder
<1>25. ASSUME NEW k \in CancelConsumers, MarkCancelled(k) PROVE TypeOK'
  <2>1. orderLock' \in [OrderIds -> Consumers \cup {None}]
    BY <1>25 DEF MarkCancelled
  <2>2. tx' \in [Consumers -> TxStates]
    BY <1>25 DEF MarkCancelled
  <2>3. cPc' \in [Consumers -> ConsSteps]
    BY <1>25 DEF MarkCancelled
  <2>4. UNCHANGED <<reqPc, redisVars, lockOwner, orderMsg, cancelMsg, zombies, dbVars,
                    rowLock, pollVars, cMsg, faults>>
    BY <1>25 DEF MarkCancelled
  <2> QED
    BY <2>1, <2>2, <2>3, <2>4
<1>26. ASSUME NEW k \in CancelConsumers, IncrRedisStock(k) PROVE TypeOK'
  BY <1>26 DEF IncrRedisStock, ListenerInv, CreatorOK, CancellerOK
<1>27. ASSUME NEW k \in CancelConsumers, RestoreDbStock(k) PROVE TypeOK'
  BY <1>27 DEF RestoreDbStock, ListenerInv, CreatorOK, CancellerOK
<1>28. ASSUME NEW k \in CancelConsumers, CommitCancel(k) PROVE TypeOK'
  <2>1. k \in Consumers /\ cPc[k] = "end" /\ ReleaseRows(k) /\ Finish(k)
    BY <1>28 DEF CommitCancel
  <2>2. /\ cMsg[k] \in OrderIds /\ VoucherOf[cMsg[k]] \in Vouchers
        /\ tx[k] = "ordered" => dbStock[VoucherOf[cMsg[k]]] > 0
    BY <1>28 DEF CommitCancel, ListenerInv, CancellerOK
  <2>3. /\ dbStock' \in [Vouchers -> Nat]
        /\ orderRow' \in [OrderIds -> RowStates]
    BY <1>28, <2>2 DEF CommitCancel
  <2>4. UNCHANGED <<reqPc, redisVars, lockOwner, pollVars, faults>>
    BY <1>28 DEF CommitCancel
  <2> QED BY <2>1, <2>3, <2>4, FinishType
<1>29. ASSUME NEW c \in Consumers, EndWithoutEffect(c) PROVE TypeOK'
  <2>1. cPc[c] = "end" /\ ReleaseRows(c) /\ Finish(c)
    BY <1>29 DEF EndWithoutEffect
  <2>2. UNCHANGED <<reqPc, redisVars, lockOwner, dbVars, pollVars, faults>>
    BY <1>29 DEF EndWithoutEffect
  <2> QED BY <2>1, <2>2, FinishType
<1>30. ASSUME NEW c \in OrderConsumers, CreateThrows(c) PROVE TypeOK'
  BY <1>30 DEF CreateThrows
<1>31. ASSUME NEW k \in CancelConsumers, CancelThrows(k) PROVE TypeOK'
  BY <1>31 DEF CancelThrows
<1>32. ASSUME NEW c \in Consumers, Rebalance(c) PROVE TypeOK'
  BY <1>32 DEF Rebalance,
     ReleaseRows, SetMsg, ListenerInv, CreatorOK, CancellerOK
<1>33. ASSUME NEW c \in Consumers, ConsumerCrash(c) PROVE TypeOK'
  BY <1>33 DEF ConsumerCrash,
     ReleaseRows, SetMsg, ListenerInv, CreatorOK, CancellerOK
<1>34. ASSUME NEW c \in OrderConsumers, NEW k \in CancelConsumers, BreakDeadlock(c, k)
     PROVE TypeOK'
  BY <1>34 DEF BreakDeadlock, ReleaseRows
<1>35. ASSUME NEW u \in Users, OrphanLockExpires(u) PROVE TypeOK'
  BY <1>35 DEF OrphanLockExpires
<1>36. ASSUME NEW u \in Users, HeldLockExpires(u) PROVE TypeOK'
  BY <1>36 DEF HeldLockExpires
<1>37. CASE UNCHANGED vars
  BY <1>37 DEF vars
<1> HIDE DEF TypeOK
<1> QED
  BY <1>1, <1>2, <1>3, <1>4, <1>5, <1>6, <1>7, <1>8, <1>9, <1>10, <1>11,
     <1>12, <1>13, <1>14, <1>15, <1>16, <1>17, <1>18, <1>19, <1>20, <1>21,
     <1>22, <1>23, <1>24, <1>25, <1>26, <1>27, <1>28, <1>29, <1>30, <1>31,
     <1>32, <1>33, <1>34, <1>35, <1>36, <1>37, <1>38
     DEF Next, RequestStep, PollerStep, CreateStep, CancelStep, Consumers

\* Ending a transaction leaves the other listeners' program counters, messages,
\* staged writes and record locks alone.
LEMMA OthersUndisturbed ==
    ASSUME TypeOK, NEW c \in Consumers, NEW d \in Consumers, c # d,
           ReleaseRows(c), Finish(c)
    PROVE  /\ cPc'[d] = cPc[d] /\ cMsg'[d] = cMsg[d] /\ tx'[d] = tx[d]
           /\ \A v \in Vouchers : rowLock[v] = d => rowLock'[v] = d
           /\ \A o \in OrderIds : orderLock[o] = d => orderLock'[o] = d
  BY DEF ReleaseRows, Finish, Goto, TypeOK

\* The listener itself is idle and clean afterwards.
LEMMA SelfIdle ==
    ASSUME TypeOK, NEW c \in Consumers, Finish(c)
    PROVE  cPc'[c] = "idle" /\ tx'[c] = "clean"
  BY DEF Finish, Goto, TypeOK

\* A commit of createVoucherOrder keeps every open transaction covered.
LEMMA ListenerCommitCreate ==
    ASSUME TypeOK, ListenerInv, NEW c \in OrderConsumers, CommitCreate(c)
    PROVE  ListenerInv'
<1> DEFINE o == cMsg[c]
<1>0. c \in Consumers /\ ReleaseRows(c) /\ Finish(c)
  BY DEF CommitCreate, Consumers
<1>1. /\ o \in OrderIds /\ VoucherOf[o] \in Vouchers
      /\ rowLock[VoucherOf[o]] = c /\ orderLock[o] = c
  BY VoucherOfType DEF CommitCreate, ListenerInv, CreatorOK
<1>2. /\ \A q \in OrderIds : orderLock[q] # c => orderRow'[q] = orderRow[q]
      /\ \A v \in Vouchers : rowLock[v] # c => dbStock'[v] = dbStock[v]
  BY <1>1 DEF CommitCreate, TypeOK
<1>3. ASSUME NEW d \in OrderConsumers PROVE CreatorOK(d)'
  <2>1. CASE d = c
    BY <2>1, <1>0, SelfIdle DEF CreatorOK
  <2>2. CASE d # c
    <3>1. d \in Consumers /\ CreatorOK(d)
      BY DEF Consumers, ListenerInv
    <3>2. cMsg[d] \in OrderIds => VoucherOf[cMsg[d]] \in Vouchers
      BY VoucherOfType
    <3>3. tx[d] \in {"deducted", "ordered"} => cMsg[d] \in OrderIds
      BY <3>1 DEF CreatorOK
    <3> QED BY <2>2, <3>1, <3>2, <3>3, <1>0, <1>2, OthersUndisturbed DEF CreatorOK
  <2> QED BY <2>1, <2>2
<1>4. ASSUME NEW k \in CancelConsumers PROVE CancellerOK(k)'
  <2>1. k # c /\ k \in Consumers /\ CancellerOK(k)
    BY ConsumersDisjoint DEF Consumers, ListenerInv
  <2>2. tx[k] \in {"marked", "returned"} =>
           cMsg[k] \in OrderIds /\ VoucherOf[cMsg[k]] \in Vouchers
    BY <2>1, VoucherOfType DEF CancellerOK
  <2> QED BY <2>1, <2>2, <1>0, <1>2, OthersUndisturbed DEF CancellerOK
<1> QED BY <1>3, <1>4 DEF ListenerInv

\* A commit of cancelVoucherOrder does too.
LEMMA ListenerCommitCancel ==
    ASSUME TypeOK, ListenerInv, NEW c \in CancelConsumers, CommitCancel(c)
    PROVE  ListenerInv'
<1> DEFINE o == cMsg[c]
<1>0. c \in Consumers /\ ReleaseRows(c) /\ Finish(c)
  BY DEF CommitCancel, Consumers
<1>1. /\ o \in OrderIds /\ VoucherOf[o] \in Vouchers
      /\ rowLock[VoucherOf[o]] = c /\ orderLock[o] = c
  BY VoucherOfType DEF CommitCancel, ListenerInv, CancellerOK
<1>2. /\ \A q \in OrderIds : orderLock[q] # c => orderRow'[q] = orderRow[q]
      /\ \A v \in Vouchers : rowLock[v] # c => dbStock'[v] = dbStock[v]
  BY <1>1 DEF CommitCancel, TypeOK
<1>3. ASSUME NEW d \in OrderConsumers PROVE CreatorOK(d)'
  <2>1. d # c /\ d \in Consumers /\ CreatorOK(d)
    BY ConsumersDisjoint DEF Consumers, ListenerInv
  <2>2. tx[d] \in {"deducted", "ordered"} =>
           cMsg[d] \in OrderIds /\ VoucherOf[cMsg[d]] \in Vouchers
    BY <2>1, VoucherOfType DEF CreatorOK
  <2> QED BY <2>1, <2>2, <1>0, <1>2, OthersUndisturbed DEF CreatorOK
<1>4. ASSUME NEW k \in CancelConsumers PROVE CancellerOK(k)'
  <2>1. CASE k = c
    BY <2>1, <1>0, SelfIdle DEF CancellerOK
  <2>2. CASE k # c
    <3>1. k \in Consumers /\ CancellerOK(k)
      BY DEF Consumers, ListenerInv
    <3>2. tx[k] \in {"marked", "returned"} =>
             cMsg[k] \in OrderIds /\ VoucherOf[cMsg[k]] \in Vouchers
      BY <3>1, VoucherOfType DEF CancellerOK
    <3> QED BY <2>2, <3>1, <3>2, <1>0, <1>2, OthersUndisturbed DEF CancellerOK
  <2> QED BY <2>1, <2>2
<1> QED BY <1>3, <1>4 DEF ListenerInv

\* Open transactions stay covered by their record locks.
LEMMA ListenerStep ==
    ASSUME TypeOK, ListenerInv, [Next]_vars
    PROVE  ListenerInv'
<1>0. ASSUME UNCHANGED <<dbVars, lockVars, consVars>> PROVE ListenerInv'
  BY <1>0 DEF ListenerInv, CreatorOK, CancellerOK, dbVars, lockVars, consVars
<1> USE ConsumersDisjoint, NobodyAssumption, VoucherOfType
<1> USE DEF Goto, Consumers, dbVars, lockVars, consVars
<1>1. ASSUME NEW o \in OrderIds, LuaSoldOut(o) PROVE ListenerInv'
  BY <1>0, <1>1 DEF LuaSoldOut
<1>2. ASSUME NEW o \in OrderIds, LuaRepeat(o) PROVE ListenerInv'
  BY <1>0, <1>2 DEF LuaRepeat
<1>3. ASSUME NEW o \in OrderIds, LuaAccept(o) PROVE ListenerInv'
  BY <1>0, <1>3 DEF LuaAccept
<1>4. ASSUME NEW o \in OrderIds, SendOrderMessage(o) PROVE ListenerInv'
  BY <1>0, <1>4 DEF SendOrderMessage
<1>5. ASSUME NEW o \in OrderIds, RegisterDelayTask(o) PROVE ListenerInv'
  BY <1>0, <1>5 DEF RegisterDelayTask
<1>6. ASSUME NEW o \in OrderIds, RequestFails(o) PROVE ListenerInv'
  BY <1>0, <1>6 DEF RequestFails
<1>7. ASSUME NEW o \in OrderIds, BrokerAppend(o) PROVE ListenerInv'
  BY <1>0, <1>7 DEF BrokerAppend
<1>8. ASSUME NEW o \in OrderIds, SendLost(o) PROVE ListenerInv'
  BY <1>0, <1>8 DEF SendLost
<1>9. ASSUME NEW o \in OrderIds, OffsetCommit(o) PROVE ListenerInv'
  BY <1>0, <1>9 DEF OffsetCommit
<1>10. ASSUME NEW o \in OrderIds, Redeliver(o) PROVE ListenerInv'
  BY <1>0, <1>10 DEF Redeliver
<1>11. ASSUME NEW o \in OrderIds, Pay(o) PROVE ListenerInv'
  <2>1. ASSUME NEW d \in OrderConsumers PROVE CreatorOK(d)'
    BY <1>11
       DEF Pay, ListenerInv, CreatorOK, CancellerOK, TypeOK
  <2>2. ASSUME NEW l \in CancelConsumers PROVE CancellerOK(l)'
    BY <1>11
       DEF Pay, ListenerInv, CreatorOK, CancellerOK, TypeOK
  <2> QED BY <2>1, <2>2 DEF ListenerInv
<1>12. ASSUME NEW v \in Vouchers, PreheatSeckill(v) PROVE ListenerInv'
  BY <1>0, <1>12 DEF PreheatSeckill
<1>13. ASSUME RedisRestoresSnapshot PROVE ListenerInv'
  BY <1>0, <1>13 DEF RedisRestoresSnapshot
<1>38. ASSUME RedisSavesSnapshot PROVE ListenerInv'
  BY <1>0, <1>38 DEF RedisSavesSnapshot
<1>14. ASSUME NEW p \in Pollers, PollExpiredTasks(p) PROVE ListenerInv'
  BY <1>0, <1>14 DEF PollExpiredTasks
<1>15. ASSUME NEW p \in Pollers, RemoveTask(p) PROVE ListenerInv'
  BY <1>0, <1>15 DEF RemoveTask
<1>16. ASSUME NEW p \in Pollers, SendOrderCancelMessage(p) PROVE ListenerInv'
  BY <1>0, <1>16 DEF SendOrderCancelMessage
<1>17. ASSUME NEW p \in Pollers, PollerFails(p) PROVE ListenerInv'
  BY <1>0, <1>17 DEF PollerFails
<1>18. ASSUME NEW c \in OrderConsumers, NEW o \in OrderIds, TryLock(c, o)
     PROVE ListenerInv'
  <2>1. ASSUME NEW d \in OrderConsumers PROVE CreatorOK(d)'
    BY <1>18
       DEF TryLock, ListenerInv, CreatorOK, CancellerOK, TypeOK
  <2>2. ASSUME NEW l \in CancelConsumers PROVE CancellerOK(l)'
    BY <1>18
       DEF TryLock, ListenerInv, CreatorOK, CancellerOK, TypeOK
  <2> QED BY <2>1, <2>2 DEF ListenerInv
<1>19. ASSUME NEW c \in OrderConsumers, CheckCount(c) PROVE ListenerInv'
  <2>1. ASSUME NEW d \in OrderConsumers PROVE CreatorOK(d)'
    BY <1>19
       DEF CheckCount, ListenerInv, CreatorOK, CancellerOK, TypeOK
  <2>2. ASSUME NEW l \in CancelConsumers PROVE CancellerOK(l)'
    BY <1>19
       DEF CheckCount, ListenerInv, CreatorOK, CancellerOK, TypeOK
  <2> QED BY <2>1, <2>2 DEF ListenerInv
<1>20. ASSUME NEW c \in OrderConsumers, DeductStock(c) PROVE ListenerInv'
  <2>1. ASSUME NEW d \in OrderConsumers PROVE CreatorOK(d)'
    BY <1>20
       DEF DeductStock, ListenerInv, CreatorOK, CancellerOK, TypeOK
  <2>2. ASSUME NEW l \in CancelConsumers PROVE CancellerOK(l)'
    BY <1>20
       DEF DeductStock, ListenerInv, CreatorOK, CancellerOK, TypeOK
  <2> QED BY <2>1, <2>2 DEF ListenerInv
<1>21. ASSUME NEW c \in OrderConsumers, SaveOrder(c) PROVE ListenerInv'
  <2>1. ASSUME NEW d \in OrderConsumers PROVE CreatorOK(d)'
    BY <1>21
       DEF SaveOrder, ListenerInv, CreatorOK, CancellerOK, TypeOK
  <2>2. ASSUME NEW l \in CancelConsumers PROVE CancellerOK(l)'
    BY <1>21
       DEF SaveOrder, ListenerInv, CreatorOK, CancellerOK, TypeOK
  <2> QED BY <2>1, <2>2 DEF ListenerInv
<1>22. ASSUME NEW c \in OrderConsumers, Unlock(c) PROVE ListenerInv'
  <2>1. ASSUME NEW d \in OrderConsumers PROVE CreatorOK(d)'
    BY <1>22
       DEF Unlock, ListenerInv, CreatorOK, CancellerOK, TypeOK
  <2>2. ASSUME NEW l \in CancelConsumers PROVE CancellerOK(l)'
    BY <1>22
       DEF Unlock, ListenerInv, CreatorOK, CancellerOK, TypeOK
  <2> QED BY <2>1, <2>2 DEF ListenerInv
<1>23. ASSUME NEW c \in OrderConsumers, CommitCreate(c) PROVE ListenerInv'
  BY <1>23, ListenerCommitCreate
<1>24. ASSUME NEW k \in CancelConsumers, NEW o \in OrderIds, ReadOrder(k, o)
     PROVE ListenerInv'
  <2>1. ASSUME NEW d \in OrderConsumers PROVE CreatorOK(d)'
    BY <1>24
       DEF ReadOrder, ListenerInv, CreatorOK, CancellerOK, TypeOK
  <2>2. ASSUME NEW l \in CancelConsumers PROVE CancellerOK(l)'
    BY <1>24
       DEF ReadOrder, ListenerInv, CreatorOK, CancellerOK, TypeOK
  <2> QED BY <2>1, <2>2 DEF ListenerInv
<1>25. ASSUME NEW k \in CancelConsumers, MarkCancelled(k) PROVE ListenerInv'
  <2>1. ASSUME NEW d \in OrderConsumers PROVE CreatorOK(d)'
    BY <1>25
       DEF MarkCancelled, ListenerInv, CreatorOK, CancellerOK, TypeOK
  <2>2. ASSUME NEW l \in CancelConsumers PROVE CancellerOK(l)'
    BY <1>25
       DEF MarkCancelled, ListenerInv, CreatorOK, CancellerOK, TypeOK
  <2> QED BY <2>1, <2>2 DEF ListenerInv
<1>26. ASSUME NEW k \in CancelConsumers, IncrRedisStock(k) PROVE ListenerInv'
  <2>1. ASSUME NEW d \in OrderConsumers PROVE CreatorOK(d)'
    BY <1>26
       DEF IncrRedisStock, ListenerInv, CreatorOK, CancellerOK, TypeOK
  <2>2. ASSUME NEW l \in CancelConsumers PROVE CancellerOK(l)'
    BY <1>26
       DEF IncrRedisStock, ListenerInv, CreatorOK, CancellerOK, TypeOK
  <2> QED BY <2>1, <2>2 DEF ListenerInv
<1>27. ASSUME NEW k \in CancelConsumers, RestoreDbStock(k) PROVE ListenerInv'
  <2>1. ASSUME NEW d \in OrderConsumers PROVE CreatorOK(d)'
    BY <1>27
       DEF RestoreDbStock, ListenerInv, CreatorOK, CancellerOK, TypeOK
  <2>2. ASSUME NEW l \in CancelConsumers PROVE CancellerOK(l)'
    BY <1>27
       DEF RestoreDbStock, ListenerInv, CreatorOK, CancellerOK, TypeOK
  <2> QED BY <2>1, <2>2 DEF ListenerInv
<1>28. ASSUME NEW k \in CancelConsumers, CommitCancel(k) PROVE ListenerInv'
  BY <1>28, ListenerCommitCancel
<1>29. ASSUME NEW c \in Consumers, EndWithoutEffect(c) PROVE ListenerInv'
  <2>1. ASSUME NEW d \in OrderConsumers PROVE CreatorOK(d)'
    BY <1>29
       DEF EndWithoutEffect, Finish, ReleaseRows, ListenerInv, CreatorOK, CancellerOK, TypeOK
  <2>2. ASSUME NEW l \in CancelConsumers PROVE CancellerOK(l)'
    BY <1>29
       DEF EndWithoutEffect, Finish, ReleaseRows, ListenerInv, CreatorOK, CancellerOK, TypeOK
  <2> QED BY <2>1, <2>2 DEF ListenerInv
<1>30. ASSUME NEW c \in OrderConsumers, CreateThrows(c) PROVE ListenerInv'
  <2>1. ASSUME NEW d \in OrderConsumers PROVE CreatorOK(d)'
    BY <1>30
       DEF CreateThrows, ListenerInv, CreatorOK, CancellerOK, TypeOK
  <2>2. ASSUME NEW l \in CancelConsumers PROVE CancellerOK(l)'
    BY <1>30
       DEF CreateThrows, ListenerInv, CreatorOK, CancellerOK, TypeOK
  <2> QED BY <2>1, <2>2 DEF ListenerInv
<1>31. ASSUME NEW k \in CancelConsumers, CancelThrows(k) PROVE ListenerInv'
  <2>1. ASSUME NEW d \in OrderConsumers PROVE CreatorOK(d)'
    BY <1>31
       DEF CancelThrows, ListenerInv, CreatorOK, CancellerOK, TypeOK
  <2>2. ASSUME NEW l \in CancelConsumers PROVE CancellerOK(l)'
    BY <1>31
       DEF CancelThrows, ListenerInv, CreatorOK, CancellerOK, TypeOK
  <2> QED BY <2>1, <2>2 DEF ListenerInv
<1>32. ASSUME NEW c \in Consumers, Rebalance(c) PROVE ListenerInv'
  BY <1>0, <1>32 DEF Rebalance
<1>33. ASSUME NEW c \in Consumers, ConsumerCrash(c) PROVE ListenerInv'
  <2>1. ASSUME NEW d \in OrderConsumers PROVE CreatorOK(d)'
    BY <1>33
       DEF ConsumerCrash, ReleaseRows, ListenerInv, CreatorOK, CancellerOK, TypeOK
  <2>2. ASSUME NEW l \in CancelConsumers PROVE CancellerOK(l)'
    BY <1>33
       DEF ConsumerCrash, ReleaseRows, ListenerInv, CreatorOK, CancellerOK, TypeOK
  <2> QED BY <2>1, <2>2 DEF ListenerInv
<1>34. ASSUME NEW c \in OrderConsumers, NEW k \in CancelConsumers, BreakDeadlock(c, k)
     PROVE ListenerInv'
  <2>1. ASSUME NEW d \in OrderConsumers PROVE CreatorOK(d)'
    BY <1>34
       DEF BreakDeadlock, ReleaseRows, ListenerInv, CreatorOK, CancellerOK, TypeOK
  <2>2. ASSUME NEW l \in CancelConsumers PROVE CancellerOK(l)'
    BY <1>34
       DEF BreakDeadlock, ReleaseRows, ListenerInv, CreatorOK, CancellerOK, TypeOK
  <2> QED BY <2>1, <2>2 DEF ListenerInv
<1>35. ASSUME NEW u \in Users, OrphanLockExpires(u) PROVE ListenerInv'
  BY <1>0, <1>35 DEF OrphanLockExpires
<1>36. ASSUME NEW u \in Users, HeldLockExpires(u) PROVE ListenerInv'
  BY <1>0, <1>36 DEF HeldLockExpires
<1>37. CASE UNCHANGED vars
  BY <1>0, <1>37 DEF vars
<1> QED
  BY <1>1, <1>2, <1>3, <1>4, <1>5, <1>6, <1>7, <1>8, <1>9, <1>10, <1>11,
     <1>12, <1>13, <1>14, <1>15, <1>16, <1>17, <1>18, <1>19, <1>20, <1>21,
     <1>22, <1>23, <1>24, <1>25, <1>26, <1>27, <1>28, <1>29, <1>30, <1>31,
     <1>32, <1>33, <1>34, <1>35, <1>36, <1>37, <1>38
     DEF Next, RequestStep, PollerStep, CreateStep, CancelStep, Consumers

\* The inductive invariant of the database part.
THEOREM ListenersCovered == Spec => [](TypeOK /\ ListenerInv)
<1>1. TypeOK /\ ListenerInv /\ [Next]_vars => (TypeOK /\ ListenerInv)'
  BY TypeStep, ListenerStep
<1> QED BY <1>1, InitInv, PTL DEF Spec

\* Every variable keeps its type; in particular no stock column goes below zero.
THEOREM TypeCorrect == Spec => []TypeOK
  BY ListenersCovered, PTL

-----------------------------------------------------------------------------
(* The database implements the atomic ledger.                               *)

LEMMA LedgerStep ==
    ASSUME TypeOK, ListenerInv, [Next]_vars
    PROVE  [Ledger!LedgerNext]_(Ledger!ledgerVars)
<1> USE DEF Ledger!ledgerVars, dbVars
<1>1. ASSUME NEW o \in OrderIds, LuaSoldOut(o)
     PROVE [Ledger!LedgerNext]_(Ledger!ledgerVars)
  BY <1>1 DEF LuaSoldOut
<1>2. ASSUME NEW o \in OrderIds, LuaRepeat(o)
     PROVE [Ledger!LedgerNext]_(Ledger!ledgerVars)
  BY <1>2 DEF LuaRepeat
<1>3. ASSUME NEW o \in OrderIds, LuaAccept(o)
     PROVE [Ledger!LedgerNext]_(Ledger!ledgerVars)
  BY <1>3 DEF LuaAccept
<1>4. ASSUME NEW o \in OrderIds, SendOrderMessage(o)
     PROVE [Ledger!LedgerNext]_(Ledger!ledgerVars)
  BY <1>4 DEF SendOrderMessage
<1>5. ASSUME NEW o \in OrderIds, RegisterDelayTask(o)
     PROVE [Ledger!LedgerNext]_(Ledger!ledgerVars)
  BY <1>5 DEF RegisterDelayTask
<1>6. ASSUME NEW o \in OrderIds, RequestFails(o)
     PROVE [Ledger!LedgerNext]_(Ledger!ledgerVars)
  BY <1>6 DEF RequestFails
<1>7. ASSUME NEW o \in OrderIds, BrokerAppend(o)
     PROVE [Ledger!LedgerNext]_(Ledger!ledgerVars)
  BY <1>7 DEF BrokerAppend
<1>8. ASSUME NEW o \in OrderIds, SendLost(o)
     PROVE [Ledger!LedgerNext]_(Ledger!ledgerVars)
  BY <1>8 DEF SendLost
<1>9. ASSUME NEW o \in OrderIds, OffsetCommit(o)
     PROVE [Ledger!LedgerNext]_(Ledger!ledgerVars)
  BY <1>9 DEF OffsetCommit
<1>10. ASSUME NEW o \in OrderIds, Redeliver(o)
     PROVE [Ledger!LedgerNext]_(Ledger!ledgerVars)
  BY <1>10 DEF Redeliver
<1>11. ASSUME NEW o \in OrderIds, Pay(o)
     PROVE [Ledger!LedgerNext]_(Ledger!ledgerVars)
  BY <1>11 DEF Pay, Ledger!LedgerPay, Ledger!LedgerNext
<1>12. ASSUME NEW v \in Vouchers, PreheatSeckill(v)
     PROVE [Ledger!LedgerNext]_(Ledger!ledgerVars)
  BY <1>12 DEF PreheatSeckill
<1>13. ASSUME RedisRestoresSnapshot
     PROVE [Ledger!LedgerNext]_(Ledger!ledgerVars)
  BY <1>13 DEF RedisRestoresSnapshot
<1>38. ASSUME RedisSavesSnapshot
     PROVE [Ledger!LedgerNext]_(Ledger!ledgerVars)
  BY <1>38 DEF RedisSavesSnapshot
<1>14. ASSUME NEW p \in Pollers, PollExpiredTasks(p)
     PROVE [Ledger!LedgerNext]_(Ledger!ledgerVars)
  BY <1>14 DEF PollExpiredTasks
<1>15. ASSUME NEW p \in Pollers, RemoveTask(p)
     PROVE [Ledger!LedgerNext]_(Ledger!ledgerVars)
  BY <1>15 DEF RemoveTask
<1>16. ASSUME NEW p \in Pollers, SendOrderCancelMessage(p)
     PROVE [Ledger!LedgerNext]_(Ledger!ledgerVars)
  BY <1>16 DEF SendOrderCancelMessage
<1>17. ASSUME NEW p \in Pollers, PollerFails(p)
     PROVE [Ledger!LedgerNext]_(Ledger!ledgerVars)
  BY <1>17 DEF PollerFails
<1>18. ASSUME NEW c \in OrderConsumers, NEW o \in OrderIds, TryLock(c, o)
     PROVE [Ledger!LedgerNext]_(Ledger!ledgerVars)
  BY <1>18 DEF TryLock
<1>19. ASSUME NEW c \in OrderConsumers, CheckCount(c)
     PROVE [Ledger!LedgerNext]_(Ledger!ledgerVars)
  BY <1>19 DEF CheckCount
<1>20. ASSUME NEW c \in OrderConsumers, DeductStock(c)
     PROVE [Ledger!LedgerNext]_(Ledger!ledgerVars)
  BY <1>20 DEF DeductStock
<1>21. ASSUME NEW c \in OrderConsumers, SaveOrder(c)
     PROVE [Ledger!LedgerNext]_(Ledger!ledgerVars)
  BY <1>21 DEF SaveOrder
<1>22. ASSUME NEW c \in OrderConsumers, Unlock(c)
     PROVE [Ledger!LedgerNext]_(Ledger!ledgerVars)
  BY <1>22 DEF Unlock
<1>23. ASSUME NEW c \in OrderConsumers, CommitCreate(c)
     PROVE [Ledger!LedgerNext]_(Ledger!ledgerVars)
  <2>1. cMsg[c] \in OrderIds /\ orderRow[cMsg[c]] = "none" /\ dbStock[VoucherOf[cMsg[c]]] > 0
    BY <1>23 DEF CommitCreate, ListenerInv, CreatorOK
  <2>2. Ledger!LedgerCreate(cMsg[c])
    BY <1>23, <2>1 DEF CommitCreate, Ledger!LedgerCreate
  <2> QED BY <2>1, <2>2 DEF Ledger!LedgerNext
<1>24. ASSUME NEW k \in CancelConsumers, NEW o \in OrderIds, ReadOrder(k, o)
     PROVE [Ledger!LedgerNext]_(Ledger!ledgerVars)
  BY <1>24 DEF ReadOrder
<1>25. ASSUME NEW k \in CancelConsumers, MarkCancelled(k)
     PROVE [Ledger!LedgerNext]_(Ledger!ledgerVars)
  BY <1>25 DEF MarkCancelled
<1>26. ASSUME NEW k \in CancelConsumers, IncrRedisStock(k)
     PROVE [Ledger!LedgerNext]_(Ledger!ledgerVars)
  BY <1>26 DEF IncrRedisStock
<1>27. ASSUME NEW k \in CancelConsumers, RestoreDbStock(k)
     PROVE [Ledger!LedgerNext]_(Ledger!ledgerVars)
  BY <1>27 DEF RestoreDbStock
<1>28. ASSUME NEW k \in CancelConsumers, CommitCancel(k)
     PROVE [Ledger!LedgerNext]_(Ledger!ledgerVars)
  <2>1. cMsg[k] \in OrderIds /\ orderRow[cMsg[k]] = "unpaid"
    BY <1>28 DEF CommitCancel, ListenerInv, CancellerOK
  <2>2. Ledger!LedgerCancel(cMsg[k])
    BY <1>28, <2>1 DEF CommitCancel, Ledger!LedgerCancel
  <2> QED BY <2>1, <2>2 DEF Ledger!LedgerNext
<1>29. ASSUME NEW c \in Consumers, EndWithoutEffect(c)
     PROVE [Ledger!LedgerNext]_(Ledger!ledgerVars)
  BY <1>29 DEF EndWithoutEffect
<1>30. ASSUME NEW c \in OrderConsumers, CreateThrows(c)
     PROVE [Ledger!LedgerNext]_(Ledger!ledgerVars)
  BY <1>30 DEF CreateThrows
<1>31. ASSUME NEW k \in CancelConsumers, CancelThrows(k)
     PROVE [Ledger!LedgerNext]_(Ledger!ledgerVars)
  BY <1>31 DEF CancelThrows
<1>32. ASSUME NEW c \in Consumers, Rebalance(c)
     PROVE [Ledger!LedgerNext]_(Ledger!ledgerVars)
  BY <1>32 DEF Rebalance
<1>33. ASSUME NEW c \in Consumers, ConsumerCrash(c)
     PROVE [Ledger!LedgerNext]_(Ledger!ledgerVars)
  BY <1>33 DEF ConsumerCrash
<1>34. ASSUME NEW c \in OrderConsumers, NEW k \in CancelConsumers, BreakDeadlock(c, k)
     PROVE [Ledger!LedgerNext]_(Ledger!ledgerVars)
  BY <1>34 DEF BreakDeadlock
<1>35. ASSUME NEW u \in Users, OrphanLockExpires(u)
     PROVE [Ledger!LedgerNext]_(Ledger!ledgerVars)
  BY <1>35 DEF OrphanLockExpires
<1>36. ASSUME NEW u \in Users, HeldLockExpires(u)
     PROVE [Ledger!LedgerNext]_(Ledger!ledgerVars)
  BY <1>36 DEF HeldLockExpires
<1>37. CASE UNCHANGED vars
  BY <1>37 DEF vars
<1> HIDE DEF Ledger!ledgerVars
<1> QED
  BY <1>1, <1>2, <1>3, <1>4, <1>5, <1>6, <1>7, <1>8, <1>9, <1>10, <1>11,
     <1>12, <1>13, <1>14, <1>15, <1>16, <1>17, <1>18, <1>19, <1>20, <1>21,
     <1>22, <1>23, <1>24, <1>25, <1>26, <1>27, <1>28, <1>29, <1>30, <1>31,
     <1>32, <1>33, <1>34, <1>35, <1>36, <1>37, <1>38
     DEF Next, RequestStep, PollerStep, CreateStep, CancelStep, Consumers

\* Whatever is redelivered, duplicated, rolled back or crashes, and whatever
\* Redis holds, the committed rows and the stock column move as the ledger does.
THEOREM ImplementsLedger == Spec => LedgerSpec
<1>1. Init => Ledger!LedgerInit
  BY DEF Init, Ledger!LedgerInit
<1>2. TypeOK /\ ListenerInv /\ [Next]_vars => [Ledger!LedgerNext]_(Ledger!ledgerVars)
  BY LedgerStep
<1> QED BY <1>1, <1>2, ListenersCovered, PTL DEF Spec, LedgerSpec, Ledger!LedgerSpec

\* Stock plus live orders is the published stock, in every reachable state: the
\* database never oversells a voucher and never returns a unit twice.
THEOREM StockIsConserved == Spec => []StockConserved
<1>1. Proved!LedgerConstants
  BY OrderIdsFinite, VoucherOfType, InitStockType
     DEF IsFiniteSet, Proved!IsFiniteSet, Proved!LedgerConstants
<1>2. Proved!LedgerSpec => []Proved!StockConserved
  BY <1>1, Proved!LedgerConserves
<1>3. Ledger!LedgerInit => Proved!LedgerInit
  BY DEF Proved!LedgerInit, Ledger!LedgerInit
<1>4. [Ledger!LedgerNext]_(Ledger!ledgerVars) => [Proved!LedgerNext]_(Proved!ledgerVars)
  BY DEF Proved!LedgerNext, Ledger!LedgerNext, Proved!ledgerVars, Ledger!ledgerVars,
         Ledger!LedgerCreate, Proved!LedgerCreate, Ledger!LedgerCancel,
         Proved!LedgerCancel, Ledger!LedgerPay, Proved!LedgerPay
<1>5. Proved!StockConserved => StockConserved
  BY DEF StockConserved, Ledger!StockConserved, Proved!StockConserved, Ledger!Holding,
         Proved!Holding, Ledger!Cardinality, Proved!Cardinality
<1> QED
  BY <1>2, <1>3, <1>4, <1>5, ImplementsLedger, PTL
     DEF LedgerSpec, Ledger!LedgerSpec, Proved!LedgerSpec

-----------------------------------------------------------------------------
(* One cancel message per order.                                            *)

LEMMA DelayStep ==
    ASSUME TypeOK, ListenerInv, DelayInv, ~RedisRestoresSnapshot, [Next]_vars
    PROVE  DelayInv'
<1> USE NobodyAssumption, ConsumersDisjoint
<1> USE DEF DelayInv, OneCancelMessage, TypeOK, pollVars, consVars, Consumers, Goto
<1>1. ASSUME NEW o \in OrderIds, LuaSoldOut(o) PROVE DelayInv'
  BY <1>1 DEF LuaSoldOut
<1>2. ASSUME NEW o \in OrderIds, LuaRepeat(o) PROVE DelayInv'
  BY <1>2 DEF LuaRepeat
<1>3. ASSUME NEW o \in OrderIds, LuaAccept(o) PROVE DelayInv'
  BY <1>3 DEF LuaAccept
<1>4. ASSUME NEW o \in OrderIds, SendOrderMessage(o) PROVE DelayInv'
  BY <1>4 DEF SendOrderMessage
<1>5. ASSUME NEW o \in OrderIds, RegisterDelayTask(o) PROVE DelayInv'
  BY <1>5 DEF RegisterDelayTask
<1>6. ASSUME NEW o \in OrderIds, RequestFails(o) PROVE DelayInv'
  BY <1>6 DEF RequestFails
<1>7. ASSUME NEW o \in OrderIds, BrokerAppend(o) PROVE DelayInv'
  BY <1>7 DEF BrokerAppend, ListenerInv, CancellerOK
<1>8. ASSUME NEW o \in OrderIds, SendLost(o) PROVE DelayInv'
  BY <1>8 DEF SendLost, ListenerInv, CancellerOK
<1>9. ASSUME NEW o \in OrderIds, OffsetCommit(o) PROVE DelayInv'
  BY <1>9 DEF OffsetCommit, ListenerInv, CancellerOK
<1>10. ASSUME NEW o \in OrderIds, Redeliver(o) PROVE DelayInv'
  BY <1>10 DEF Redeliver, ListenerInv, CancellerOK
<1>11. ASSUME NEW o \in OrderIds, Pay(o) PROVE DelayInv'
  BY <1>11 DEF Pay
<1>12. ASSUME NEW v \in Vouchers, PreheatSeckill(v) PROVE DelayInv'
  BY <1>12 DEF PreheatSeckill
<1>13. ASSUME RedisRestoresSnapshot PROVE DelayInv'
  BY <1>13
<1>38. ASSUME RedisSavesSnapshot PROVE DelayInv'
  BY <1>38 DEF RedisSavesSnapshot
<1>14. ASSUME NEW p \in Pollers, PollExpiredTasks(p) PROVE DelayInv'
  BY <1>14 DEF PollExpiredTasks
<1>15. ASSUME NEW p \in Pollers, RemoveTask(p) PROVE DelayInv'
  BY <1>15 DEF RemoveTask
<1>16. ASSUME NEW p \in Pollers, SendOrderCancelMessage(p) PROVE DelayInv'
  BY <1>16 DEF SendOrderCancelMessage
<1>17. ASSUME NEW p \in Pollers, PollerFails(p) PROVE DelayInv'
  BY <1>17 DEF PollerFails
<1>18. ASSUME NEW c \in OrderConsumers, NEW o \in OrderIds, TryLock(c, o)
     PROVE DelayInv'
  BY <1>18 DEF TryLock
<1>19. ASSUME NEW c \in OrderConsumers, CheckCount(c) PROVE DelayInv'
  BY <1>19 DEF CheckCount
<1>20. ASSUME NEW c \in OrderConsumers, DeductStock(c) PROVE DelayInv'
  BY <1>20 DEF DeductStock
<1>21. ASSUME NEW c \in OrderConsumers, SaveOrder(c) PROVE DelayInv'
  BY <1>21 DEF SaveOrder
<1>22. ASSUME NEW c \in OrderConsumers, Unlock(c) PROVE DelayInv'
  BY <1>22 DEF Unlock
<1>23. ASSUME NEW c \in OrderConsumers, CommitCreate(c) PROVE DelayInv'
  BY <1>23 DEF CommitCreate, Finish, SetMsg, ListenerInv, CreatorOK, CancellerOK
<1>24. ASSUME NEW k \in CancelConsumers, NEW o \in OrderIds, ReadOrder(k, o)
     PROVE DelayInv'
  <2>1. UNCHANGED <<reqPc, delayQueue, sending>>
    BY <1>24 DEF ReadOrder
  <2>2. /\ cancelMsg[o] # "none"
        /\ \A q \in OrderIds : cancelMsg'[q] # "none" <=> cancelMsg[q] # "none"
    BY <1>24 DEF ReadOrder
  <2>3. ASSUME NEW l \in CancelConsumers, cPc'[l] # "idle"
        PROVE  cancelMsg'[cMsg'[l]] # "none"
    <3>1. CASE l = k
      <4>1. cMsg'[k] = o
        BY <1>24, <2>3, <3>1 DEF ReadOrder
      <4> QED BY <4>1, <3>1, <2>2
    <3>2. CASE l # k
      <4>1. cPc'[l] = cPc[l] /\ cMsg'[l] = cMsg[l]
        BY <1>24, <3>2 DEF ReadOrder
      <4>2. cMsg[l] \in OrderIds
        BY <2>3, <4>1 DEF ListenerInv, CancellerOK
      <4> QED BY <4>1, <4>2, <2>2, <2>3
    <3> QED BY <3>1, <3>2
  <2> QED BY <2>1, <2>2, <2>3
<1>25. ASSUME NEW k \in CancelConsumers, MarkCancelled(k) PROVE DelayInv'
  BY <1>25 DEF MarkCancelled, ListenerInv, CancellerOK
<1>26. ASSUME NEW k \in CancelConsumers, IncrRedisStock(k) PROVE DelayInv'
  BY <1>26 DEF IncrRedisStock, ListenerInv, CancellerOK
<1>27. ASSUME NEW k \in CancelConsumers, RestoreDbStock(k) PROVE DelayInv'
  BY <1>27 DEF RestoreDbStock, ListenerInv, CancellerOK
<1>28. ASSUME NEW k \in CancelConsumers, CommitCancel(k) PROVE DelayInv'
  BY <1>28 DEF CommitCancel, Finish, SetMsg, ListenerInv, CreatorOK, CancellerOK
<1>29. ASSUME NEW c \in Consumers, EndWithoutEffect(c) PROVE DelayInv'
  BY <1>29 DEF EndWithoutEffect, Finish, SetMsg, ListenerInv, CreatorOK, CancellerOK
<1>30. ASSUME NEW c \in OrderConsumers, CreateThrows(c) PROVE DelayInv'
  BY <1>30 DEF CreateThrows
<1>31. ASSUME NEW k \in CancelConsumers, CancelThrows(k) PROVE DelayInv'
  BY <1>31 DEF CancelThrows, ListenerInv, CancellerOK
<1>32. ASSUME NEW c \in Consumers, Rebalance(c) PROVE DelayInv'
  BY <1>32 DEF Rebalance, SetMsg, ListenerInv, CreatorOK, CancellerOK
<1>33. ASSUME NEW c \in Consumers, ConsumerCrash(c) PROVE DelayInv'
  BY <1>33 DEF ConsumerCrash, SetMsg, ListenerInv, CreatorOK, CancellerOK
<1>34. ASSUME NEW c \in OrderConsumers, NEW k \in CancelConsumers, BreakDeadlock(c, k)
     PROVE DelayInv'
  BY <1>34 DEF BreakDeadlock, ListenerInv, CancellerOK
<1>35. ASSUME NEW u \in Users, OrphanLockExpires(u) PROVE DelayInv'
  BY <1>35 DEF OrphanLockExpires
<1>36. ASSUME NEW u \in Users, HeldLockExpires(u) PROVE DelayInv'
  BY <1>36 DEF HeldLockExpires
<1>37. CASE UNCHANGED vars
  BY <1>37 DEF vars
<1> HIDE DEF DelayInv
<1> QED
  BY <1>1, <1>2, <1>3, <1>4, <1>5, <1>6, <1>7, <1>8, <1>9, <1>10, <1>11,
     <1>12, <1>13, <1>14, <1>15, <1>16, <1>17, <1>18, <1>19, <1>20, <1>21,
     <1>22, <1>23, <1>24, <1>25, <1>26, <1>27, <1>28, <1>29, <1>30, <1>31,
     <1>32, <1>33, <1>34, <1>35, <1>36, <1>37, <1>38
     DEF Next, RequestStep, PollerStep, CreateStep, CancelStep, Consumers

\* Any number of instances may poll the ZSet: as long as Redis forgets nothing, an order is
\* cancelled by one of them.  A snapshot saved between the ZADD and the ZREM brings a
\* removed id back, and a second cancel message with it.
THEOREM OneCanceller ==
    ASSUME ~RedisForgets
    PROVE  Spec => []OneCancelMessage
<1>1. Init => DelayInv
  BY NobodyAssumption DEF Init, DelayInv, OneCancelMessage, Consumers
<1>2. TypeOK /\ ListenerInv /\ DelayInv /\ [Next]_vars => DelayInv'
  BY DelayStep DEF RedisRestoresSnapshot
<1>3. DelayInv => OneCancelMessage
  BY DEF DelayInv
<1> QED BY <1>1, <1>2, <1>3, ListenersCovered, PTL DEF Spec

-----------------------------------------------------------------------------
(* One order per user and voucher, as long as Redis forgets nothing.        *)

LEMMA AcceptStep ==
    ASSUME TypeOK, ListenerInv, AcceptInv, ~RedisRestoresSnapshot, [Next]_vars
    PROVE  AcceptInv'
<1> USE UserOfType, VoucherOfType, ConsumersDisjoint
<1> USE DEF AcceptInv, SamePurchase, TypeOK, redisVars, dbVars, consVars, Consumers, Goto
<1>1. ASSUME NEW o \in OrderIds, LuaSoldOut(o) PROVE AcceptInv'
  BY <1>1 DEF LuaSoldOut
<1>2. ASSUME NEW o \in OrderIds, LuaRepeat(o) PROVE AcceptInv'
  BY <1>2 DEF LuaRepeat
<1>3. ASSUME NEW o \in OrderIds, LuaAccept(o) PROVE AcceptInv'
  <2>1. \A q \in stream : ~SamePurchase(o, q)
    BY <1>3 DEF LuaAccept
  <2>2. stream' = stream \cup {o} /\ UNCHANGED <<orderMsg, orderRow, cPc, cMsg>>
    BY <1>3 DEF LuaAccept
  <2>3. \A q \in OrderIds : q # o => reqPc'[q] = reqPc[q]
    BY <1>3 DEF LuaAccept
  <2>4. /\ UserOf[o] \in bought'[VoucherOf[o]]
        /\ \A v \in Vouchers : bought[v] \subseteq bought'[v]
    BY <1>3 DEF LuaAccept
  <2>5. \A q \in OrderIds : VoucherOf[q] \in Vouchers
    OBVIOUS
  <2>6. \A q \in OrderIds :
           /\ reqPc'[q] = "send" => q \in stream'
           /\ orderMsg'[q] # "none" => q \in stream'
           /\ orderRow'[q] # "none" => q \in stream'
           /\ q \in stream' => UserOf[q] \in bought'[VoucherOf[q]]
    BY <2>2, <2>3, <2>4, <2>5
  <2>7. \A q, r \in stream' : SamePurchase(q, r) => q = r
    BY <2>1, <2>2
  <2>8. \A c \in OrderConsumers : cPc'[c] # "idle" => cMsg'[c] \in stream'
    BY <2>2
  <2> QED BY <2>6, <2>7, <2>8
<1>4. ASSUME NEW o \in OrderIds, SendOrderMessage(o) PROVE AcceptInv'
  BY <1>4 DEF SendOrderMessage
<1>5. ASSUME NEW o \in OrderIds, RegisterDelayTask(o) PROVE AcceptInv'
  BY <1>5 DEF RegisterDelayTask
<1>6. ASSUME NEW o \in OrderIds, RequestFails(o) PROVE AcceptInv'
  BY <1>6 DEF RequestFails
<1>7. ASSUME NEW o \in OrderIds, BrokerAppend(o) PROVE AcceptInv'
  BY <1>7 DEF BrokerAppend
<1>8. ASSUME NEW o \in OrderIds, SendLost(o) PROVE AcceptInv'
  BY <1>8 DEF SendLost
<1>9. ASSUME NEW o \in OrderIds, OffsetCommit(o) PROVE AcceptInv'
  BY <1>9 DEF OffsetCommit
<1>10. ASSUME NEW o \in OrderIds, Redeliver(o) PROVE AcceptInv'
  BY <1>10 DEF Redeliver
<1>11. ASSUME NEW o \in OrderIds, Pay(o) PROVE AcceptInv'
  BY <1>11 DEF Pay
<1>12. ASSUME NEW v \in Vouchers, PreheatSeckill(v) PROVE AcceptInv'
  BY <1>12 DEF PreheatSeckill
<1>13. ASSUME RedisRestoresSnapshot PROVE AcceptInv'
  BY <1>13
<1>38. ASSUME RedisSavesSnapshot PROVE AcceptInv'
  BY <1>38 DEF RedisSavesSnapshot
<1>14. ASSUME NEW p \in Pollers, PollExpiredTasks(p) PROVE AcceptInv'
  BY <1>14 DEF PollExpiredTasks
<1>15. ASSUME NEW p \in Pollers, RemoveTask(p) PROVE AcceptInv'
  BY <1>15 DEF RemoveTask
<1>16. ASSUME NEW p \in Pollers, SendOrderCancelMessage(p) PROVE AcceptInv'
  BY <1>16 DEF SendOrderCancelMessage
<1>17. ASSUME NEW p \in Pollers, PollerFails(p) PROVE AcceptInv'
  BY <1>17 DEF PollerFails
<1>18. ASSUME NEW c \in OrderConsumers, NEW o \in OrderIds, TryLock(c, o)
     PROVE AcceptInv'
  BY <1>18 DEF TryLock
<1>19. ASSUME NEW c \in OrderConsumers, CheckCount(c) PROVE AcceptInv'
  BY <1>19 DEF CheckCount
<1>20. ASSUME NEW c \in OrderConsumers, DeductStock(c) PROVE AcceptInv'
  BY <1>20 DEF DeductStock
<1>21. ASSUME NEW c \in OrderConsumers, SaveOrder(c) PROVE AcceptInv'
  BY <1>21 DEF SaveOrder
<1>22. ASSUME NEW c \in OrderConsumers, Unlock(c) PROVE AcceptInv'
  BY <1>22 DEF Unlock
<1>23. ASSUME NEW c \in OrderConsumers, CommitCreate(c) PROVE AcceptInv'
  BY <1>23 DEF CommitCreate, Finish, SetMsg, ListenerInv, CreatorOK, CancellerOK
<1>24. ASSUME NEW k \in CancelConsumers, NEW o \in OrderIds, ReadOrder(k, o)
     PROVE AcceptInv'
  BY <1>24 DEF ReadOrder
<1>25. ASSUME NEW k \in CancelConsumers, MarkCancelled(k) PROVE AcceptInv'
  BY <1>25 DEF MarkCancelled
<1>26. ASSUME NEW k \in CancelConsumers, IncrRedisStock(k) PROVE AcceptInv'
  BY <1>26 DEF IncrRedisStock
<1>27. ASSUME NEW k \in CancelConsumers, RestoreDbStock(k) PROVE AcceptInv'
  BY <1>27 DEF RestoreDbStock
<1>28. ASSUME NEW k \in CancelConsumers, CommitCancel(k) PROVE AcceptInv'
  BY <1>28 DEF CommitCancel, Finish, SetMsg, ListenerInv, CreatorOK, CancellerOK
<1>29. ASSUME NEW c \in Consumers, EndWithoutEffect(c) PROVE AcceptInv'
  BY <1>29 DEF EndWithoutEffect, Finish, SetMsg, ListenerInv, CreatorOK, CancellerOK
<1>30. ASSUME NEW c \in OrderConsumers, CreateThrows(c) PROVE AcceptInv'
  BY <1>30 DEF CreateThrows
<1>31. ASSUME NEW k \in CancelConsumers, CancelThrows(k) PROVE AcceptInv'
  BY <1>31 DEF CancelThrows
<1>32. ASSUME NEW c \in Consumers, Rebalance(c) PROVE AcceptInv'
  BY <1>32 DEF Rebalance, SetMsg, ListenerInv, CreatorOK, CancellerOK
<1>33. ASSUME NEW c \in Consumers, ConsumerCrash(c) PROVE AcceptInv'
  BY <1>33 DEF ConsumerCrash, SetMsg, ListenerInv, CreatorOK, CancellerOK
<1>34. ASSUME NEW c \in OrderConsumers, NEW k \in CancelConsumers, BreakDeadlock(c, k)
     PROVE AcceptInv'
  BY <1>34 DEF BreakDeadlock
<1>35. ASSUME NEW u \in Users, OrphanLockExpires(u) PROVE AcceptInv'
  BY <1>35 DEF OrphanLockExpires
<1>36. ASSUME NEW u \in Users, HeldLockExpires(u) PROVE AcceptInv'
  BY <1>36 DEF HeldLockExpires
<1>37. CASE UNCHANGED vars
  BY <1>37 DEF vars
<1> HIDE DEF AcceptInv
<1> QED
  BY <1>1, <1>2, <1>3, <1>4, <1>5, <1>6, <1>7, <1>8, <1>9, <1>10, <1>11,
     <1>12, <1>13, <1>14, <1>15, <1>16, <1>17, <1>18, <1>19, <1>20, <1>21,
     <1>22, <1>23, <1>24, <1>25, <1>26, <1>27, <1>28, <1>29, <1>30, <1>31,
     <1>32, <1>33, <1>34, <1>35, <1>36, <1>37, <1>38
     DEF Next, RequestStep, PollerStep, CreateStep, CancelStep, Consumers

\* A user never gets two rows for one voucher, although the listeners release
\* the user's lock before they commit, may lose it, and process messages twice.
THEOREM OneOrderPerPerson ==
    ASSUME ~RedisForgets
    PROVE  Spec => []OneRowPerPurchase
<1>1. Init => AcceptInv
  BY DEF Init, AcceptInv, Consumers
<1>2. TypeOK /\ ListenerInv /\ AcceptInv /\ [Next]_vars => AcceptInv'
  BY AcceptStep DEF RedisRestoresSnapshot
<1>3. AcceptInv => OneRowPerPurchase
  BY DEF AcceptInv, OneRowPerPurchase
<1> QED BY <1>1, <1>2, <1>3, ListenersCovered, PTL DEF Spec

-----------------------------------------------------------------------------
(* Redis accounts for every unit, as long as nothing fails.                 *)

\* All variables but the snapshot, which nothing but a restart of Redis reads.
liveVars == <<reqPc, redisStock, bought, stream, lockOwner, orderMsg, cancelMsg, zombies,
              dbVars, lockVars, pollVars, consVars, faults>>

\* What Next may do to them without a fault.
Undisturbed ==
    \/ \E o \in OrderIds :
          \/ LuaSoldOut(o) \/ LuaRepeat(o) \/ LuaAccept(o) \/ RequestStep(o)
          \/ BrokerAppend(o) \/ OffsetCommit(o) \/ Pay(o)
    \/ \E p \in Pollers : PollerStep(p)
    \/ \E c \in OrderConsumers : CreateStep(c)
    \/ \E k \in CancelConsumers : CancelStep(k)
    \/ \E c \in OrderConsumers, k \in CancelConsumers : BreakDeadlock(c, k)
    \/ \E u \in Users : OrphanLockExpires(u)
    \/ UNCHANGED liveVars

\* Without faults a message is sent once and delivered once, and before its listener
\* commits there is no row.
DeliverInv ==
    /\ \A o \in OrderIds :
          /\ reqPc[o] = "start" => o \notin stream
          /\ reqPc[o] \in {"start", "send"} => orderMsg[o] = "none"
          /\ reqPc[o] = "send" \/ orderMsg[o] # "none" \/ orderRow[o] # "none" => o \in stream
          /\ orderMsg[o] \in {"none", "buffered", "queued"} => orderRow[o] = "none"
    /\ \A c \in OrderConsumers :
          cPc[c] # "idle" => orderMsg[cMsg[c]] = "taken" /\ orderRow[cMsg[c]] = "none"
    /\ \A c, d \in OrderConsumers :
          cPc[c] # "idle" /\ cPc[d] # "idle" /\ cMsg[c] = cMsg[d] => c = d

\* A record lock on an order belongs to a listener that handles it.
LockInv ==
    \A o \in OrderIds, c \in Consumers :
       orderLock[o] = c => cPc[c] # "idle" /\ cMsg[c] = o

AccountInv ==
    /\ LockInv
    /\ faults = 0 => DeliverInv
    /\ RedisAccountsForEveryUnit

LEMMA FaultsShow ==
    ASSUME TypeOK, [Next]_vars, faults' = 0
    PROVE  faults = 0 /\ Undisturbed
<1>1. faults \in Nat
  BY MaxFaultsType DEF TypeOK
<1>2. ~Fault
  BY <1>1 DEF Fault
<1>3. /\ \A o \in OrderIds : ~RequestFails(o) /\ ~SendLost(o) /\ ~Redeliver(o)
      /\ \A v \in Vouchers : ~PreheatSeckill(v)
      /\ ~RedisRestoresSnapshot
      /\ \A p \in Pollers : ~PollerFails(p)
      /\ \A c \in Consumers : ~CreateThrows(c) /\ ~CancelThrows(c) /\ ~Rebalance(c) /\ ~ConsumerCrash(c)
      /\ \A u \in Users : ~HeldLockExpires(u)
  BY <1>2 DEF RequestFails, SendLost, Redeliver, PreheatSeckill, RedisRestoresSnapshot, PollerFails,
              CreateThrows, CancelThrows, Rebalance, ConsumerCrash, HeldLockExpires
<1>4. Undisturbed
  <2>1. RedisSavesSnapshot \/ UNCHANGED vars => UNCHANGED liveVars
    BY DEF RedisSavesSnapshot, vars, liveVars, redisVars
  <2> QED
    BY <1>3, <2>1 DEF Next, Undisturbed, Consumers
<1>5. faults' = faults
  BY <1>4 DEF Undisturbed, LuaSoldOut, LuaRepeat, LuaAccept, RequestStep, SendOrderMessage,
              RegisterDelayTask, BrokerAppend, OffsetCommit, Pay, PollerStep, PollExpiredTasks,
              RemoveTask, SendOrderCancelMessage, CreateStep, TryLock, CheckCount, DeductStock,
              SaveOrder, Unlock, CommitCreate, EndWithoutEffect, CancelStep, ReadOrder,
              MarkCancelled, IncrRedisStock, RestoreDbStock, CommitCancel, BreakDeadlock,
              OrphanLockExpires, liveVars
<1> QED
  BY <1>4, <1>5

LEMMA LockStep ==
    ASSUME TypeOK, ListenerInv, LockInv, [Next]_vars
    PROVE  LockInv'
<1> USE NobodyAssumption, ConsumersDisjoint
<1>0. ASSUME UNCHANGED <<orderLock, cPc, cMsg>> PROVE LockInv'
  BY <1>0 DEF LockInv
<1>1. ASSUME NEW c \in Consumers, ReleaseRows(c),
             \A d \in Consumers : d # c => cPc'[d] = cPc[d] /\ cMsg'[d] = cMsg[d]
      PROVE  LockInv'
  BY <1>1 DEF LockInv, ReleaseRows, TypeOK
<1>2. ASSUME NEW c \in Consumers, cPc[c] # "idle", UNCHANGED <<orderLock, cMsg>>,
             cPc'[c] # "idle", \A d \in Consumers : d # c => cPc'[d] = cPc[d]
      PROVE  LockInv'
  BY <1>2 DEF LockInv
<1>3. ASSUME NEW c \in Consumers, cPc[c] = "idle", UNCHANGED orderLock,
             \A d \in Consumers : d # c => cPc'[d] = cPc[d] /\ cMsg'[d] = cMsg[d]
      PROVE  LockInv'
  BY <1>3 DEF LockInv
<1>4. ASSUME NEW c \in Consumers, cPc[c] # "idle", cPc'[c] # "idle", UNCHANGED cMsg,
             \A d \in Consumers : d # c => cPc'[d] = cPc[d],
             orderLock' = [orderLock EXCEPT ![cMsg[c]] = c]
      PROVE  LockInv'
  BY <1>4 DEF LockInv, TypeOK
<1>5. ASSUME NEW c \in OrderConsumers, CreateStep(c) \/ CreateThrows(c) PROVE LockInv'
  <2> c \in Consumers /\ cPc \in [Consumers -> ConsSteps] /\ cMsg \in [Consumers -> OrderIds \cup {None}]
    BY DEF Consumers, TypeOK
  <2>1. ASSUME NEW o \in OrderIds, TryLock(c, o) PROVE LockInv'
    BY <2>1, <1>3 DEF TryLock, lockVars, Goto
  <2>2. CASE CheckCount(c) \/ DeductStock(c) \/ Unlock(c) \/ CreateThrows(c)
    BY <2>2, <1>0, <1>2 DEF CheckCount, DeductStock, Unlock, CreateThrows, lockVars, consVars, Goto
  <2>3. CASE SaveOrder(c)
    BY <2>3, <1>4 DEF SaveOrder, Goto
  <2>4. CASE CommitCreate(c) \/ EndWithoutEffect(c)
    BY <2>4, <1>1 DEF CommitCreate, EndWithoutEffect, Finish, Goto
  <2> QED
    BY <1>5, <2>1, <2>2, <2>3, <2>4 DEF CreateStep
<1>6. ASSUME NEW c \in CancelConsumers, CancelStep(c) \/ CancelThrows(c) PROVE LockInv'
  <2> c \in Consumers /\ cPc \in [Consumers -> ConsSteps] /\ cMsg \in [Consumers -> OrderIds \cup {None}]
    BY DEF Consumers, TypeOK
  <2>1. ASSUME NEW o \in OrderIds, ReadOrder(c, o) PROVE LockInv'
    BY <2>1, <1>3 DEF ReadOrder, lockVars, Goto
  <2>2. CASE IncrRedisStock(c) \/ RestoreDbStock(c) \/ CancelThrows(c)
    BY <2>2, <1>2 DEF IncrRedisStock, RestoreDbStock, CancelThrows, lockVars, consVars, Goto
  <2>3. CASE MarkCancelled(c)
    BY <2>3, <1>4 DEF MarkCancelled, Goto
  <2>4. CASE CommitCancel(c) \/ EndWithoutEffect(c)
    BY <2>4, <1>1 DEF CommitCancel, EndWithoutEffect, Finish, Goto
  <2> QED
    BY <1>6, <2>1, <2>2, <2>3, <2>4 DEF CancelStep
<1>7. ASSUME NEW c \in OrderConsumers, NEW k \in CancelConsumers, BreakDeadlock(c, k) PROVE LockInv'
  <2> /\ c \in Consumers /\ k \in Consumers /\ cPc \in [Consumers -> ConsSteps]
    BY DEF Consumers, TypeOK
  <2>1. PICK d \in {c, k} : /\ ReleaseRows(d) /\ UNCHANGED cMsg
                           /\ \A e \in Consumers : e # d => cPc'[e] = cPc[e]
    BY <1>7 DEF BreakDeadlock, Goto
  <2> QED
    BY <2>1, <1>1
<1>8. ASSUME NEW c \in Consumers, ConsumerCrash(c) PROVE LockInv'
  <2>1. \A d \in Consumers : d # c => cPc'[d] = cPc[d] /\ cMsg'[d] = cMsg[d]
    BY <1>8 DEF ConsumerCrash, Goto, TypeOK
  <2> QED
    BY <1>1, <1>8, <2>1 DEF ConsumerCrash
<1>9. CASE UNCHANGED <<orderLock, cPc, cMsg>>
  BY <1>0, <1>9
<1>10. \/ \E c \in OrderConsumers : CreateStep(c) \/ CreateThrows(c)
       \/ \E k \in CancelConsumers : CancelStep(k) \/ CancelThrows(k)
       \/ \E c \in OrderConsumers, k \in CancelConsumers : BreakDeadlock(c, k)
       \/ \E c \in Consumers : ConsumerCrash(c)
       \/ UNCHANGED <<orderLock, cPc, cMsg>>
  BY DEF Next, LuaSoldOut, LuaRepeat, LuaAccept, RequestStep, SendOrderMessage,
         RegisterDelayTask, RequestFails, BrokerAppend, SendLost, OffsetCommit, Redeliver, Pay,
         PreheatSeckill, RedisSavesSnapshot, RedisRestoresSnapshot, PollerStep, PollExpiredTasks, RemoveTask,
         SendOrderCancelMessage, PollerFails, Rebalance, OrphanLockExpires, HeldLockExpires,
         vars, lockVars, consVars
<1> QED
  BY <1>5, <1>6, <1>7, <1>8, <1>9, <1>10

LEMMA DeliverStep ==
    ASSUME TypeOK, ListenerInv, DeliverInv, Undisturbed
    PROVE  DeliverInv'
<1> USE ConsumersDisjoint
<1> USE DEF DeliverInv, TypeOK, redisVars, dbVars, consVars, Consumers, Goto
<1>1. ASSUME NEW o \in OrderIds, LuaSoldOut(o) \/ LuaRepeat(o) PROVE DeliverInv'
  BY <1>1 DEF LuaSoldOut, LuaRepeat
<1>2. ASSUME NEW o \in OrderIds, LuaAccept(o) PROVE DeliverInv'
  BY <1>2 DEF LuaAccept
<1>3. ASSUME NEW o \in OrderIds, RequestStep(o) PROVE DeliverInv'
  <2>1. CASE SendOrderMessage(o)
    BY <2>1 DEF SendOrderMessage, ListenerInv, CreatorOK
  <2>2. CASE RegisterDelayTask(o)
    BY <2>2 DEF RegisterDelayTask
  <2> QED
    BY <1>3, <2>1, <2>2 DEF RequestStep
<1>4. ASSUME NEW o \in OrderIds, BrokerAppend(o) PROVE DeliverInv'
  BY <1>4 DEF BrokerAppend, ListenerInv, CreatorOK
<1>5. ASSUME NEW o \in OrderIds, OffsetCommit(o) PROVE DeliverInv'
  BY <1>5 DEF OffsetCommit, ListenerInv, CreatorOK
<1>6. ASSUME NEW o \in OrderIds, Pay(o) PROVE DeliverInv'
  BY <1>6 DEF Pay
<1>7. ASSUME UNCHANGED <<reqPc, stream, orderMsg, orderRow>>,
             \A c \in OrderConsumers : UNCHANGED <<cPc[c], cMsg[c]>>
      PROVE  DeliverInv'
  BY <1>7
<1>8. ASSUME NEW p \in Pollers, PollerStep(p) PROVE DeliverInv'
  BY <1>8 DEF PollerStep, PollExpiredTasks, RemoveTask, SendOrderCancelMessage
<1>9. ASSUME NEW c \in OrderConsumers, NEW o \in OrderIds, TryLock(c, o) PROVE DeliverInv'
  <2>1. /\ UNCHANGED <<reqPc, stream, orderRow>> /\ orderMsg[o] = "queued" /\ orderRow[o] = "none"
        /\ orderMsg'[o] \in {"taken", "processed"}
        /\ \A q \in OrderIds : q # o => orderMsg'[q] = orderMsg[q]
        /\ \A d \in OrderConsumers : d # c => cPc'[d] = cPc[d] /\ cMsg'[d] = cMsg[d]
        /\ cPc'[c] # "idle" => cMsg'[c] = o /\ orderMsg'[o] = "taken"
    BY <1>9 DEF TryLock
  <2>2. \A d \in OrderConsumers : cPc[d] # "idle" => cMsg[d] # o /\ cMsg[d] \in OrderIds
    BY <2>1 DEF ListenerInv, CreatorOK
  <2> QED
    BY <2>1, <2>2
<1>10. ASSUME NEW c \in OrderConsumers, CheckCount(c) \/ DeductStock(c) \/ SaveOrder(c) \/ Unlock(c)
       PROVE  DeliverInv'
  <2>1. /\ UNCHANGED <<reqPc, stream, orderMsg, orderRow, cMsg>> /\ cPc[c] # "idle"
        /\ \A d \in OrderConsumers : d # c => cPc'[d] = cPc[d]
    BY <1>10 DEF CheckCount, DeductStock, SaveOrder, Unlock
  <2> QED
    BY <2>1
<1>11. ASSUME NEW c \in OrderConsumers, CommitCreate(c) \/ EndWithoutEffect(c) PROVE DeliverInv'
  <2>1. PICK o \in OrderIds : o = cMsg[c] /\ cPc[c] # "idle"
    BY <1>11 DEF CommitCreate, EndWithoutEffect, ListenerInv, CreatorOK
  <2>2. /\ UNCHANGED <<reqPc, stream>> /\ cPc'[c] = "idle"
        /\ \A d \in OrderConsumers : d # c => cPc'[d] = cPc[d] /\ cMsg'[d] = cMsg[d]
    BY <1>11 DEF CommitCreate, EndWithoutEffect, Finish
  <2>3. /\ orderMsg'[o] \in {"taken", "processed"}
        /\ \A q \in OrderIds : q # o => orderMsg'[q] = orderMsg[q] /\ orderRow'[q] = orderRow[q]
    BY <1>11, <2>1 DEF CommitCreate, EndWithoutEffect, Finish, SetMsg
  <2>4. \A d \in OrderConsumers : d # c /\ cPc[d] # "idle" => cMsg[d] # o /\ cMsg[d] \in OrderIds
    BY <2>1 DEF ListenerInv, CreatorOK
  <2>5. orderMsg[o] = "taken" /\ o \in stream
    BY <2>1
  <2> QED
    BY <2>2, <2>3, <2>4, <2>5
<1>12. ASSUME NEW k \in CancelConsumers, CancelStep(k) PROVE DeliverInv'
  <2>1. /\ UNCHANGED <<reqPc, stream, orderMsg>>
        /\ \A c \in OrderConsumers : UNCHANGED <<cPc[c], cMsg[c]>>
    BY <1>12 DEF CancelStep, ReadOrder, MarkCancelled, IncrRedisStock, RestoreDbStock, CommitCancel,
                 EndWithoutEffect, Finish, SetMsg
  <2>2. CASE UNCHANGED orderRow
    BY <1>7, <2>1, <2>2
  <2>3. CASE CommitCancel(k)
    <3>1. PICK o \in OrderIds : /\ o = cMsg[k] /\ orderRow[o] = "unpaid"
                                /\ orderRow' = [orderRow EXCEPT ![o] = "cancelled"]
      BY <2>3 DEF CommitCancel, ListenerInv, CancellerOK
    <3> QED
      BY <2>1, <3>1 DEF ListenerInv, CreatorOK
  <2> QED
    BY <1>12, <2>2, <2>3 DEF CancelStep, ReadOrder, MarkCancelled, IncrRedisStock, RestoreDbStock,
                             EndWithoutEffect
<1>13. ASSUME NEW c \in OrderConsumers, NEW k \in CancelConsumers, BreakDeadlock(c, k)
       PROVE  DeliverInv'
  <2>1. /\ UNCHANGED <<reqPc, stream, orderMsg, orderRow, cMsg>> /\ cPc[c] # "idle"
        /\ \A d \in OrderConsumers : d # c => cPc'[d] = cPc[d]
    BY <1>13 DEF BreakDeadlock
  <2> QED
    BY <2>1
<1>14. ASSUME NEW u \in Users, OrphanLockExpires(u) PROVE DeliverInv'
  BY <1>14 DEF OrphanLockExpires
<1>15. CASE UNCHANGED liveVars
  BY <1>15 DEF liveVars
<1> HIDE DEF DeliverInv
<1> QED
  BY <1>1, <1>2, <1>3, <1>4, <1>5, <1>6, <1>8, <1>9, <1>10, <1>11, <1>12, <1>13, <1>14, <1>15
     DEF Undisturbed, CreateStep

\* Without faults nobody inserts an order while it is being cancelled.
LEMMA NoDeadlock ==
    ASSUME TypeOK, ListenerInv, LockInv, DeliverInv,
           NEW c \in OrderConsumers, NEW k \in CancelConsumers, BreakDeadlock(c, k)
    PROVE  FALSE
<1>1. cPc[c] = "save" /\ cMsg[c] \in OrderIds /\ orderRow[cMsg[c]] = "none"
  BY DEF BreakDeadlock, ListenerInv, CreatorOK, DeliverInv
<1>2. /\ tx[k] = "marked" /\ orderRow[cMsg[k]] = "unpaid" /\ orderLock[cMsg[c]] = k
      /\ k \in Consumers
  BY DEF BreakDeadlock, ListenerInv, CancellerOK, Consumers
<1>3. cMsg[k] = cMsg[c]
  BY <1>1, <1>2 DEF LockInv
<1> QED
  BY <1>1, <1>2, <1>3

-----------------------------------------------------------------------------
\* What is claimed after a step that turns no accepted order into a cancelled one.
LEMMA SameClaims ==
    ASSUME UNCHANGED <<redisStock, stream>>, NEW v,
           redisStock[v] + Cardinality(Claims(v)) = InitStock[v],
           \A o \in OrderIds : (orderRow'[o] = "cancelled" \/ Cancelling(o)')
                                  <=> (orderRow[o] = "cancelled" \/ Cancelling(o)),
           stream \subseteq OrderIds
    PROVE  (redisStock[v] + Cardinality(Claims(v)) = InitStock[v])'
<1>1. Claims(v)' = Claims(v)
  BY DEF Claims
<1> QED
  BY <1>1

LEMMA SameCancelling ==
    ASSUME \A k \in CancelConsumers : UNCHANGED <<cPc[k], cMsg[k], tx[k]>>, NEW o
    PROVE  Cancelling(o)' <=> Cancelling(o)
BY DEF Cancelling

LEMMA AccountStep ==
    ASSUME TypeOK, ListenerInv, LockInv, DeliverInv, Undisturbed, NEW v \in Vouchers,
           redisStock[v] + Cardinality(Claims(v)) = InitStock[v]
    PROVE  (redisStock[v] + Cardinality(Claims(v)) = InitStock[v])'
<1> USE ConsumersDisjoint
<1> DEFINE Sum == redisStock[v] + Cardinality(Claims(v)) = InitStock[v]
<1>0. /\ stream \subseteq OrderIds /\ IsFiniteSet(Claims(v)) /\ Cardinality(Claims(v)) \in Nat
      /\ redisStock \in [Vouchers -> Nat] /\ cPc \in [Consumers -> ConsSteps]
      /\ tx \in [Consumers -> TxStates] /\ cMsg \in [Consumers -> OrderIds \cup {None}]
      /\ orderRow \in [OrderIds -> RowStates]
      /\ OrderConsumers \subseteq Consumers /\ CancelConsumers \subseteq Consumers
  <2>1. stream \subseteq OrderIds /\ Claims(v) \subseteq OrderIds
    BY DEF TypeOK, Claims
  <2>2. IsFiniteSet(Claims(v))
    BY <2>1, OrderIdsFinite, FS_Subset
  <2> QED
    BY <2>1, <2>2, FS_CardinalityType DEF TypeOK, Consumers
<1>1. ASSUME UNCHANGED <<redisStock, stream, orderRow>>,
             \A k \in CancelConsumers : UNCHANGED <<cPc[k], cMsg[k], tx[k]>>
      PROVE  Sum'
  BY <1>0, <1>1, SameClaims, SameCancelling
<1>2. ASSUME NEW o \in OrderIds, LuaAccept(o) PROVE Sum'
  <2>1. /\ o \notin stream /\ stream' = stream \cup {o} /\ UNCHANGED <<orderRow, cPc, cMsg, tx>>
        /\ redisStock[VoucherOf[o]] > 0
        /\ redisStock' = [redisStock EXCEPT ![VoucherOf[o]] = @ - 1]
    BY <1>2 DEF LuaAccept, DeliverInv, dbVars, consVars
  <2>2. orderRow[o] = "none"
    BY <1>0, <2>1 DEF DeliverInv
  <2>3. ~Cancelling(o)
    BY <2>2 DEF Cancelling, ListenerInv, CancellerOK
  <2>4. \A q \in OrderIds : Cancelling(q)' <=> Cancelling(q)
    BY <2>1, SameCancelling
  <2>5. CASE VoucherOf[o] # v
    <3>1. Claims(v)' = Claims(v)
      BY <1>0, <2>1, <2>4, <2>5 DEF Claims
    <3> QED
      BY <1>0, <2>1, <2>5, <3>1
  <2>6. CASE VoucherOf[o] = v
    <3>1. Claims(v)' = Claims(v) \cup {o} /\ o \notin Claims(v)
      BY <1>0, <2>1, <2>2, <2>3, <2>4, <2>6 DEF Claims
    <3>2. Cardinality(Claims(v) \cup {o}) = Cardinality(Claims(v)) + 1
      BY <1>0, <3>1, FS_AddElement
    <3> QED
      BY <1>0, <2>1, <2>6, <3>1, <3>2
  <2> QED
    BY <2>5, <2>6
<1>3. ASSUME NEW o \in OrderIds, Pay(o) PROVE Sum'
  <2>1. /\ UNCHANGED <<redisStock, stream, cPc, cMsg, tx>>
        /\ \A q \in OrderIds : orderRow'[q] = "cancelled" <=> orderRow[q] = "cancelled"
    BY <1>0, <1>3 DEF Pay, redisVars, consVars
  <2> QED
    BY <1>0, <2>1, SameClaims, SameCancelling
<1>4. ASSUME NEW c \in OrderConsumers, CreateStep(c) PROVE Sum'
  <2>1. /\ UNCHANGED <<redisStock, stream>>
        /\ \A k \in CancelConsumers : UNCHANGED <<cPc[k], cMsg[k], tx[k]>>
    BY <1>0, <1>4
       DEF CreateStep, TryLock, CheckCount, DeductStock, SaveOrder, Unlock, CommitCreate,
           EndWithoutEffect, Finish, Goto, redisVars, consVars
  <2>2. CASE UNCHANGED orderRow
    BY <1>1, <2>1, <2>2
  <2>3. CASE CommitCreate(c)
    <3>1. \A q \in OrderIds : orderRow'[q] = "cancelled" <=> orderRow[q] = "cancelled"
      BY <1>0, <2>3 DEF CommitCreate, ListenerInv, CreatorOK
    <3> QED
      BY <1>0, <2>1, <3>1, SameClaims, SameCancelling
  <2> QED
    BY <1>4, <2>2, <2>3
       DEF CreateStep, TryLock, CheckCount, DeductStock, SaveOrder, Unlock, EndWithoutEffect, dbVars
<1>5. ASSUME NEW k \in CancelConsumers, CancelStep(k) PROVE Sum'
  <2>1. /\ stream' = stream
        /\ \A l \in CancelConsumers : l # k => UNCHANGED <<cPc[l], cMsg[l], tx[l]>>
    BY <1>0, <1>5
       DEF CancelStep, ReadOrder, MarkCancelled, IncrRedisStock, RestoreDbStock, CommitCancel,
           EndWithoutEffect, Finish, Goto, redisVars, consVars
  <2> DEFINE Gives == cPc[k] \in {"restock", "end"} /\ tx[k] \in {"marked", "returned"}
  <2>2. ASSUME UNCHANGED <<redisStock, orderRow>>, ~Gives, ~Gives' PROVE Sum'
    <3>1. \A o \in OrderIds : Cancelling(o)' <=> Cancelling(o)
      BY <2>1, <2>2 DEF Cancelling
    <3> QED
      BY <1>0, <2>1, <2>2, <3>1, SameClaims
  <2>3. ASSUME NEW o \in OrderIds, ReadOrder(k, o) PROVE Sum'
    <3>1. ~Gives /\ ~Gives' /\ UNCHANGED <<redisStock, orderRow>>
      BY <1>0, <2>3 DEF ReadOrder, Goto, redisVars, dbVars
    <3> QED
      BY <2>2, <3>1
  <2>4. CASE MarkCancelled(k)
    <3>1. ~Gives /\ ~Gives' /\ UNCHANGED <<redisStock, orderRow>>
      BY <1>0, <2>4 DEF MarkCancelled, Goto, redisVars, dbVars, ListenerInv, CancellerOK
    <3> QED
      BY <2>2, <3>1
  <2>5. CASE EndWithoutEffect(k)
    <3>1. ~Gives /\ ~Gives' /\ UNCHANGED <<redisStock, orderRow>>
      BY <1>0, <2>5 DEF EndWithoutEffect, Finish, Goto, redisVars, dbVars
    <3> QED
      BY <2>2, <3>1
  <2>6. CASE RestoreDbStock(k)
    <3>1. UNCHANGED <<redisStock, orderRow, cMsg>> /\ Gives /\ Gives'
      BY <1>0, <2>6 DEF RestoreDbStock, Goto, redisVars, dbVars, ListenerInv, CancellerOK
    <3>2. \A o \in OrderIds : Cancelling(o)' <=> Cancelling(o)
      BY <2>1, <3>1 DEF Cancelling
    <3> QED
      BY <1>0, <2>1, <3>1, <3>2, SameClaims
  <2>7. CASE CommitCancel(k)
    <3>1. PICK o \in OrderIds :
                 /\ o = cMsg[k] /\ Gives /\ UNCHANGED redisStock
                 /\ orderRow' = [orderRow EXCEPT ![o] = "cancelled"] /\ ~Gives'
      BY <1>0, <2>7
         DEF CommitCancel, Finish, Goto, redisVars, ListenerInv, CancellerOK
    <3>2. \A q \in OrderIds : q # o => (Cancelling(q)' <=> Cancelling(q))
      BY <2>1, <3>1 DEF Cancelling
    <3>3. Cancelling(o)
      BY <3>1 DEF Cancelling
    <3> QED
      BY <1>0, <2>1, <3>1, <3>2, <3>3, SameClaims
  <2>8. CASE IncrRedisStock(k)
    <3>0. PICK o \in OrderIds :
                 /\ o = cMsg[k] /\ cPc[k] = "incr" /\ tx[k] = "marked"
                 /\ orderRow[o] = "unpaid" /\ orderLock[o] = k
      BY <2>8 DEF IncrRedisStock, ListenerInv, CancellerOK
    <3>1. /\ ~Gives /\ Gives' /\ UNCHANGED <<cMsg, orderRow>>
          /\ redisStock' = [redisStock EXCEPT ![VoucherOf[o]] = @ + 1]
      BY <1>0, <2>8, <3>0 DEF IncrRedisStock, Goto, dbVars
    <3>2. \A q \in OrderIds : Cancelling(q)' <=> Cancelling(q) \/ q = o
      BY <2>1, <3>0, <3>1 DEF Cancelling
    <3>3. ~Cancelling(o)
      BY <3>0 DEF Cancelling, ListenerInv, CancellerOK
    <3>4. o \in stream /\ VoucherOf[o] \in Vouchers
      BY <3>0, VoucherOfType DEF DeliverInv
    <3>5. CASE VoucherOf[o] # v
      <4>1. Claims(v)' = Claims(v)
        BY <1>0, <2>1, <3>0, <3>1, <3>2, <3>5 DEF Claims
      <4> QED
        BY <1>0, <3>1, <3>5, <4>1
    <3>6. CASE VoucherOf[o] = v
      <4>1. Claims(v)' = Claims(v) \ {o} /\ o \in Claims(v)
        BY <1>0, <2>1, <3>0, <3>1, <3>2, <3>3, <3>4, <3>6 DEF Claims
      <4>2. Cardinality(Claims(v) \ {o}) = Cardinality(Claims(v)) - 1
        BY <1>0, <4>1, FS_RemoveElement
      <4> QED
        BY <1>0, <3>1, <3>4, <3>6, <4>1, <4>2
    <3> QED
      BY <3>5, <3>6
  <2> QED
    BY <1>5, <2>3, <2>4, <2>5, <2>6, <2>7, <2>8 DEF CancelStep
<1>6. ASSUME NEW c \in OrderConsumers, NEW k \in CancelConsumers, BreakDeadlock(c, k) PROVE Sum'
  BY <1>6, NoDeadlock
<1>7. ASSUME UNCHANGED <<redisStock, stream, orderRow, cPc, cMsg, tx>> PROVE Sum'
  BY <1>1, <1>7
<1>8. \/ \E o \in OrderIds : LuaAccept(o) \/ Pay(o)
      \/ \E c \in OrderConsumers : CreateStep(c)
      \/ \E k \in CancelConsumers : CancelStep(k)
      \/ \E c \in OrderConsumers, k \in CancelConsumers : BreakDeadlock(c, k)
      \/ UNCHANGED <<redisStock, stream, orderRow, cPc, cMsg, tx>>
  BY DEF Undisturbed, LuaSoldOut, LuaRepeat, RequestStep, SendOrderMessage, RegisterDelayTask,
         BrokerAppend, OffsetCommit, PollerStep, PollExpiredTasks, RemoveTask,
         SendOrderCancelMessage, OrphanLockExpires, liveVars, redisVars, dbVars, consVars
<1> QED
  BY <1>2, <1>3, <1>4, <1>5, <1>6, <1>7, <1>8

LEMMA AccountInvariant == Spec => []AccountInv
<1>1. Init => AccountInv
  <2> SUFFICES ASSUME Init PROVE AccountInv
    OBVIOUS
  <2>1. LockInv
    BY NobodyAssumption DEF Init, LockInv
  <2>2. DeliverInv
    BY DEF Init, DeliverInv, Consumers
  <2>3. ASSUME NEW v \in Vouchers PROVE redisStock[v] + Cardinality(Claims(v)) = InitStock[v]
    <3>1. Claims(v) = {}
      BY DEF Init, Claims
    <3> QED
      BY <3>1, FS_EmptySet, InitStockType DEF Init
  <2> QED
    BY <2>1, <2>2, <2>3 DEF AccountInv, RedisAccountsForEveryUnit
<1>2. ASSUME TypeOK, ListenerInv, AccountInv, [Next]_vars PROVE AccountInv'
  <2>1. LockInv'
    BY <1>2, LockStep DEF AccountInv
  <2>2. ASSUME faults' = 0 PROVE DeliverInv'
    BY <1>2, <2>2, FaultsShow, DeliverStep DEF AccountInv
  <2>3. ASSUME faults' = 0, NEW v \in Vouchers
        PROVE  (redisStock[v] + Cardinality(Claims(v)) = InitStock[v])'
    BY <1>2, <2>3, FaultsShow, AccountStep DEF AccountInv, RedisAccountsForEveryUnit
  <2> QED
    BY <2>1, <2>2, <2>3 DEF AccountInv, RedisAccountsForEveryUnit
<1>3. TypeOK /\ ListenerInv /\ AccountInv /\ [Next]_vars => AccountInv'
  BY <1>2
<1> QED
  BY <1>1, <1>3, ListenersCovered, PTL DEF Spec

\* As long as nothing fails, the counter in Redis and the accepted orders whose unit was not
\* given back add up to what was published, for any number of orders, users and instances,
\* although a cancellation's INCR runs ahead of its transaction.
THEOREM RedisAccounts == Spec => []RedisAccountsForEveryUnit
<1>1. AccountInv => RedisAccountsForEveryUnit
  BY DEF AccountInv
<1> QED
  BY <1>1, AccountInvariant, PTL

-----------------------------------------------------------------------------
(* Why an accepted order may be dropped, as long as nothing fails.          *)

\* A user's lock is held by the listener that handles an order of this user.
UserLockInv ==
    /\ \A c \in OrderConsumers :
          cPc[c] \notin {"idle", "end"} => lockOwner[UserOf[cMsg[c]]] = c
    /\ \A u \in Users : lockOwner[u] # None =>
          \E c \in OrderConsumers :
             lockOwner[u] = c /\ cPc[c] \notin {"idle", "end"} /\ UserOf[cMsg[c]] = u

CalmInv == faults = 0 => AcceptInv /\ UserLockInv

LEMMA UserLockStep ==
    ASSUME TypeOK, ListenerInv, UserLockInv, Undisturbed
    PROVE  UserLockInv'
<1> USE ConsumersDisjoint, NobodyAssumption, UserOfType
<1>0. /\ cPc \in [Consumers -> ConsSteps] /\ cMsg \in [Consumers -> OrderIds \cup {None}]
      /\ lockOwner \in [Users -> OrderConsumers \cup {None, Orphan}]
      /\ OrderConsumers \subseteq Consumers /\ CancelConsumers \subseteq Consumers
      /\ \A c \in OrderConsumers : cPc[c] # "idle" => cMsg[c] \in OrderIds
  BY DEF TypeOK, Consumers, ListenerInv, CreatorOK
<1>1. ASSUME UNCHANGED lockOwner,
             \A c \in OrderConsumers :
                /\ (cPc'[c] \notin {"idle", "end"}) <=> (cPc[c] \notin {"idle", "end"})
                /\ cPc[c] \notin {"idle", "end"} => cMsg'[c] = cMsg[c]
      PROVE  UserLockInv'
  BY <1>1 DEF UserLockInv
<1>2. ASSUME NEW c \in OrderConsumers, NEW o \in OrderIds, TryLock(c, o) PROVE UserLockInv'
  <2>1. CASE lockOwner[UserOf[o]] # None
    BY <1>1, <1>2, <2>1 DEF TryLock
  <2>2. CASE lockOwner[UserOf[o]] = None
    <3>1. /\ lockOwner' = [lockOwner EXCEPT ![UserOf[o]] = c]
          /\ cMsg' = [cMsg EXCEPT ![c] = o] /\ cPc' = [cPc EXCEPT ![c] = "count"]
          /\ cPc[c] = "idle"
      BY <1>2, <2>2 DEF TryLock, Goto
    <3>2. \A d \in OrderConsumers : d # c =>
             /\ cPc'[d] = cPc[d] /\ cMsg'[d] = cMsg[d]
             /\ cPc[d] \notin {"idle", "end"} =>
                   UserOf[cMsg[d]] # UserOf[o] /\ cMsg[d] \in OrderIds
      BY <1>0, <2>2, <3>1 DEF UserLockInv
    <3>3. cPc'[c] = "count" /\ cMsg'[c] = o /\ lockOwner'[UserOf[o]] = c
      BY <1>0, <3>1
    <3>4. \A u \in Users : u # UserOf[o] => lockOwner'[u] = lockOwner[u] /\ lockOwner[u] # c
      BY <1>0, <3>1 DEF UserLockInv
    <3> QED
      BY <1>0, <3>2, <3>3, <3>4 DEF UserLockInv
  <2> QED
    BY <2>1, <2>2
<1>3. ASSUME NEW c \in OrderConsumers, CheckCount(c) \/ DeductStock(c) \/ SaveOrder(c)
      PROVE  UserLockInv'
  <2>1. /\ UNCHANGED <<lockOwner, cMsg>> /\ cPc[c] \notin {"idle", "end"}
        /\ cPc'[c] \notin {"idle", "end"}
        /\ \A d \in OrderConsumers : d # c => cPc'[d] = cPc[d]
    BY <1>0, <1>3 DEF CheckCount, DeductStock, SaveOrder, Goto
  <2> QED
    BY <1>1, <2>1
<1>4. ASSUME NEW c \in OrderConsumers, Unlock(c) PROVE UserLockInv'
  <2>1. PICK u \in Users : u = UserOf[cMsg[c]] /\ lockOwner[u] = c
    BY <1>0, <1>4 DEF Unlock, UserLockInv
  <2>2. /\ lockOwner' = [lockOwner EXCEPT ![u] = None] /\ UNCHANGED cMsg
        /\ cPc' = [cPc EXCEPT ![c] = "end"] /\ cPc[c] = "unlock"
    BY <1>4, <2>1 DEF Unlock, Goto
  <2>3. \A d \in OrderConsumers : d # c => cPc'[d] = cPc[d]
    BY <1>0, <2>2
  <2>4. \A d \in OrderConsumers : d # c /\ cPc[d] \notin {"idle", "end"} =>
           UserOf[cMsg[d]] # u /\ UserOf[cMsg[d]] \in Users
    BY <1>0, <2>1 DEF UserLockInv
  <2>5. \A w \in Users : w # u => lockOwner'[w] = lockOwner[w] /\ lockOwner[w] # c
    BY <1>0, <2>1, <2>2 DEF UserLockInv
  <2>6. lockOwner'[u] = None /\ cPc'[c] = "end"
    BY <1>0, <2>2
  <2> QED
    BY <1>0, <2>2, <2>3, <2>4, <2>5, <2>6 DEF UserLockInv
<1>5. ASSUME NEW c \in OrderConsumers, CommitCreate(c) \/ EndWithoutEffect(c)
      PROVE  UserLockInv'
  <2>1. /\ UNCHANGED lockOwner /\ cPc[c] = "end" /\ cPc'[c] = "idle"
        /\ \A d \in OrderConsumers : d # c => cPc'[d] = cPc[d] /\ cMsg'[d] = cMsg[d]
    BY <1>0, <1>5 DEF CommitCreate, EndWithoutEffect, Finish, Goto
  <2> QED
    BY <1>1, <2>1
<1>6. ASSUME NEW k \in CancelConsumers, CancelStep(k) PROVE UserLockInv'
  <2>1. /\ UNCHANGED lockOwner
        /\ \A d \in OrderConsumers : cPc'[d] = cPc[d] /\ cMsg'[d] = cMsg[d]
    BY <1>0, <1>6
       DEF CancelStep, ReadOrder, MarkCancelled, IncrRedisStock, RestoreDbStock, CommitCancel,
           EndWithoutEffect, Finish, Goto
  <2> QED
    BY <1>1, <2>1
<1>7. ASSUME NEW c \in OrderConsumers, NEW k \in CancelConsumers, BreakDeadlock(c, k)
      PROVE  UserLockInv'
  <2>1. /\ UNCHANGED <<lockOwner, cMsg>> /\ cPc[c] = "save"
        /\ cPc'[c] \in {"save", "unlock"}
        /\ \A d \in OrderConsumers : d # c => cPc'[d] = cPc[d]
    BY <1>0, <1>7 DEF BreakDeadlock, Goto
  <2> QED
    BY <1>1, <2>1
<1>8. ASSUME NEW u \in Users, OrphanLockExpires(u) PROVE UserLockInv'
  <2>1. lockOwner[u] \notin OrderConsumers /\ lockOwner[u] # None
    BY <1>0, <1>8 DEF OrphanLockExpires
  <2> QED
    BY <2>1 DEF UserLockInv
<1>9. CASE UNCHANGED <<lockOwner, cPc, cMsg>>
  BY <1>1, <1>9
<1>10. \/ \E c \in OrderConsumers : CreateStep(c)
       \/ \E k \in CancelConsumers : CancelStep(k)
       \/ \E c \in OrderConsumers, k \in CancelConsumers : BreakDeadlock(c, k)
       \/ \E u \in Users : OrphanLockExpires(u)
       \/ UNCHANGED <<lockOwner, cPc, cMsg>>
  BY DEF Undisturbed, LuaSoldOut, LuaRepeat, LuaAccept, RequestStep, SendOrderMessage,
         RegisterDelayTask, BrokerAppend, OffsetCommit, Pay, PollerStep, PollExpiredTasks,
         RemoveTask, SendOrderCancelMessage, liveVars, consVars
<1> QED
  BY <1>2, <1>3, <1>4, <1>5, <1>6, <1>7, <1>8, <1>9, <1>10 DEF CreateStep

LEMMA CalmInvariant == Spec => []CalmInv
<1>1. Init => CalmInv
  BY ConsumersDisjoint, NobodyAssumption DEF Init, CalmInv, AcceptInv, UserLockInv, Consumers
<1>2. ASSUME TypeOK, ListenerInv, CalmInv, [Next]_vars PROVE CalmInv'
  <2> SUFFICES ASSUME faults' = 0 PROVE AcceptInv' /\ UserLockInv'
    BY DEF CalmInv
  <2>1. faults = 0 /\ Undisturbed
    BY <1>2, FaultsShow
  <2>2. ~RedisRestoresSnapshot
    BY <2>1, MaxFaultsType DEF RedisRestoresSnapshot, Fault
  <2> QED
    BY <1>2, <2>1, <2>2, AcceptStep, UserLockStep DEF CalmInv
<1>3. TypeOK /\ ListenerInv /\ CalmInv /\ [Next]_vars => CalmInv'
  BY <1>2
<1> QED
  BY <1>1, <1>3, ListenersCovered, PTL DEF Spec

\* While MySQL has no unit left for an order the script has accepted, a cancellation is
\* between its INCR and its commit: otherwise every unit in MySQL is held by another
\* claim, and with this one there would be more claims than units.
LEMMA NoUnitLeft ==
    ASSUME TypeOK, ListenerInv, DeliverInv, StockConserved, RedisAccountsForEveryUnit, faults = 0,
           NEW o \in stream, orderRow[o] = "none", dbStock[VoucherOf[o]] = 0
    PROVE  \E q \in OrderIds : VoucherOf[q] = VoucherOf[o] /\ Cancelling(q)
<1> SUFFICES ASSUME \A q \in OrderIds : VoucherOf[q] = VoucherOf[o] => ~Cancelling(q)
             PROVE  FALSE
  OBVIOUS
<1> DEFINE v == VoucherOf[o]
           held == {q \in OrderIds : VoucherOf[q] = v /\ orderRow[q] \in {"unpaid", "paid"}}
<1>1. o \in OrderIds /\ v \in Vouchers /\ stream \subseteq OrderIds
  BY VoucherOfType DEF TypeOK
<1>2. dbStock[v] + Cardinality(held) = InitStock[v]
  <2>1. dbStock[v] + Ledger!Cardinality(Ledger!Holding(v)) = InitStock[v]
    BY <1>1 DEF StockConserved, Ledger!StockConserved
  <2>2. Ledger!Holding(v) = held
    BY DEF Ledger!Holding
  <2>3. Ledger!Cardinality(held) = Cardinality(held)
    BY DEF Ledger!Cardinality, Cardinality
  <2> QED
    BY <2>1, <2>2, <2>3
<1>3. redisStock[v] + Cardinality(Claims(v)) = InitStock[v]
  BY <1>1 DEF RedisAccountsForEveryUnit
<1>4. held \subseteq Claims(v) /\ o \in Claims(v) /\ o \notin held
  BY <1>1 DEF Claims, DeliverInv, TypeOK
<1>5. held \cup {o} \subseteq Claims(v) /\ o \notin held
  BY <1>4
<1>6. /\ IsFiniteSet(Claims(v)) /\ Cardinality(Claims(v)) \in Nat
      /\ IsFiniteSet(held) /\ Cardinality(held) \in Nat
  <2>1. Claims(v) \subseteq OrderIds /\ held \subseteq OrderIds
    BY <1>1 DEF Claims
  <2>2. IsFiniteSet(Claims(v)) /\ IsFiniteSet(held)
    BY <2>1, OrderIdsFinite, FS_Subset
  <2> QED
    BY <2>2, FS_CardinalityType
<1> HIDE DEF held, v
<1>7. Cardinality(held \cup {o}) = Cardinality(held) + 1
  BY <1>5, <1>6, FS_AddElement
<1>8. Cardinality(held \cup {o}) <= Cardinality(Claims(v))
  BY <1>5, <1>6, FS_Subset
<1>9. dbStock[v] = 0 /\ redisStock[v] \in Nat /\ InitStock[v] \in Nat
  BY <1>1, InitStockType DEF v, TypeOK
<1> QED
  BY <1>2, <1>3, <1>6, <1>7, <1>8, <1>9

\* The steps that end the work on an order without a row for it.
LEMMA GivingUp ==
    ASSUME TypeOK, ListenerInv, LockInv, DeliverInv, AcceptInv, UserLockInv, Undisturbed,
           NEW c \in OrderConsumers, GivesUp(c)
    PROVE  /\ cPc[c] = "deduct" /\ cMsg[c] \in stream /\ orderRow[cMsg[c]] = "none"
           /\ dbStock[VoucherOf[cMsg[c]]] = 0
<1> USE ConsumersDisjoint
<1>0. /\ cPc \in [Consumers -> ConsSteps] /\ tx \in [Consumers -> TxStates]
      /\ OrderConsumers \subseteq Consumers /\ CancelConsumers \subseteq Consumers
  BY DEF TypeOK, Consumers
<1>1. cPc[c] # "idle"
  BY DEF GivesUp, ListenerInv, CreatorOK
<1>2. /\ cMsg[c] \in stream /\ cMsg[c] \in OrderIds /\ orderRow[cMsg[c]] = "none"
  BY <1>1 DEF AcceptInv, DeliverInv, ListenerInv, CreatorOK
<1>3. CASE UNCHANGED <<cPc[c], tx[c]>>
  BY <1>3 DEF GivesUp
<1>4. CASE CheckCount(c)
  <2>1. ~AlreadyOrdered(cMsg[c])
    BY <1>2 DEF AlreadyOrdered, AcceptInv
  <2> QED
    BY <1>0, <1>4, <2>1 DEF CheckCount, Goto, GivesUp
<1>5. CASE DeductStock(c)
  BY <1>0, <1>2, <1>5 DEF DeductStock, Goto, GivesUp
<1>6. CASE SaveOrder(c)
  BY <1>0, <1>2, <1>6 DEF SaveOrder, Goto, GivesUp, ListenerInv, CreatorOK
<1>7. CASE Unlock(c)
  BY <1>0, <1>7 DEF Unlock, Goto, GivesUp, UserLockInv
<1>8. CASE CommitCreate(c) \/ EndWithoutEffect(c)
  BY <1>0, <1>8 DEF CommitCreate, EndWithoutEffect, Finish, Goto, GivesUp
<1>9. ASSUME NEW d \in OrderConsumers, CreateStep(d), d # c PROVE UNCHANGED <<cPc[c], tx[c]>>
  BY <1>0, <1>9
     DEF CreateStep, TryLock, CheckCount, DeductStock, SaveOrder, Unlock, CommitCreate,
         EndWithoutEffect, Finish, Goto
<1>10. ASSUME NEW o \in OrderIds, TryLock(c, o) PROVE FALSE
  BY <1>1, <1>10 DEF TryLock
<1>11. ASSUME NEW k \in CancelConsumers, CancelStep(k) PROVE UNCHANGED <<cPc[c], tx[c]>>
  BY <1>0, <1>11
     DEF CancelStep, ReadOrder, MarkCancelled, IncrRedisStock, RestoreDbStock, CommitCancel,
         EndWithoutEffect, Finish, Goto
<1>12. ASSUME NEW d \in OrderConsumers, NEW k \in CancelConsumers, BreakDeadlock(d, k) PROVE FALSE
  BY <1>12, NoDeadlock
<1>13. \/ \E d \in OrderConsumers : CreateStep(d)
       \/ \E k \in CancelConsumers : CancelStep(k)
       \/ \E d \in OrderConsumers, k \in CancelConsumers : BreakDeadlock(d, k)
       \/ UNCHANGED <<cPc, tx>>
  BY DEF Undisturbed, LuaSoldOut, LuaRepeat, LuaAccept, RequestStep, SendOrderMessage,
         RegisterDelayTask, BrokerAppend, OffsetCommit, Pay, PollerStep, PollExpiredTasks,
         RemoveTask, SendOrderCancelMessage, OrphanLockExpires, liveVars, consVars
<1> QED
  BY <1>3, <1>4, <1>5, <1>6, <1>7, <1>8, <1>9, <1>10, <1>11, <1>12, <1>13 DEF CreateStep

\* The user's lock is taken: by another order of this user, so for another voucher.
LEMMA TurnedAway ==
    ASSUME TypeOK, ListenerInv, DeliverInv, AcceptInv, UserLockInv, Undisturbed,
           NEW o \in OrderIds, orderMsg[o] = "queued", orderMsg'[o] = "processed"
    PROVE  \E c \in OrderConsumers :
              /\ lockOwner[UserOf[o]] = c /\ cPc[c] # "idle"
              /\ UserOf[cMsg[c]] = UserOf[o] /\ VoucherOf[cMsg[c]] # VoucherOf[o]
<1> USE ConsumersDisjoint
<1>0. /\ orderMsg \in [OrderIds -> MsgStates] /\ UserOf[o] \in Users /\ o \in stream
      /\ \A c \in OrderConsumers : cPc[c] # "idle" =>
            cMsg[c] \in OrderIds /\ cMsg[c] \in stream /\ orderMsg[cMsg[c]] = "taken"
  BY UserOfType DEF TypeOK, AcceptInv, ListenerInv, CreatorOK, DeliverInv
<1>1. PICK c \in OrderConsumers : TryLock(c, o) /\ lockOwner[UserOf[o]] # None
  <2>1. \/ \E d \in OrderConsumers : CreateStep(d)
        \/ \E q \in OrderIds : SendOrderMessage(q) \/ BrokerAppend(q) \/ OffsetCommit(q)
        \/ UNCHANGED orderMsg
    BY DEF Undisturbed, LuaSoldOut, LuaRepeat, LuaAccept, RequestStep, RegisterDelayTask, Pay,
           PollerStep, PollExpiredTasks, RemoveTask, SendOrderCancelMessage, OrphanLockExpires,
           liveVars, CancelStep, ReadOrder, MarkCancelled, IncrRedisStock, RestoreDbStock,
           CommitCancel, EndWithoutEffect, Finish, SetMsg, BreakDeadlock
  <2>2. ASSUME NEW q \in OrderIds, SendOrderMessage(q) \/ BrokerAppend(q) \/ OffsetCommit(q)
        PROVE  FALSE
    BY <1>0, <2>2 DEF SendOrderMessage, BrokerAppend, OffsetCommit
  <2>3. ASSUME NEW d \in OrderConsumers,
               CheckCount(d) \/ DeductStock(d) \/ SaveOrder(d) \/ Unlock(d)
        PROVE  FALSE
    BY <2>3 DEF CheckCount, DeductStock, SaveOrder, Unlock
  <2>4. ASSUME NEW d \in OrderConsumers, CommitCreate(d) \/ EndWithoutEffect(d) PROVE FALSE
    <3>1. cPc[d] # "idle"
      BY <2>4 DEF CommitCreate, EndWithoutEffect
    <3>2. orderMsg'[o] = orderMsg[o]
      BY <1>0, <2>4, <3>1 DEF CommitCreate, EndWithoutEffect, Finish, SetMsg
    <3> QED
      BY <3>2
  <2>5. ASSUME NEW d \in OrderConsumers, NEW q \in OrderIds, TryLock(d, q)
        PROVE  q = o /\ lockOwner[UserOf[o]] # None
    BY <1>0, <2>5 DEF TryLock
  <2> QED
    BY <2>1, <2>2, <2>3, <2>4, <2>5 DEF CreateStep
<1>2. PICK d \in OrderConsumers :
             lockOwner[UserOf[o]] = d /\ cPc[d] \notin {"idle", "end"} /\ UserOf[cMsg[d]] = UserOf[o]
  BY <1>0, <1>1 DEF UserLockInv
<1>3. VoucherOf[cMsg[d]] # VoucherOf[o]
  BY <1>0, <1>2 DEF AcceptInv, SamePurchase
<1> QED
  BY <1>2, <1>3

\* Why an order that the script accepted is dropped by a listener, for any number of orders,
\* users, vouchers and instances, as long as nothing fails.
THEOREM DropsHaveReasons == Spec => DroppedForAReason
<1> DEFINE Reasons ==
              faults' = 0 =>
                 /\ \A o \in OrderIds :
                       orderMsg[o] = "queued" /\ orderMsg'[o] = "processed" =>
                          \E c \in OrderConsumers :
                             /\ lockOwner[UserOf[o]] = c /\ cPc[c] # "idle"
                             /\ UserOf[cMsg[c]] = UserOf[o] /\ VoucherOf[cMsg[c]] # VoucherOf[o]
                 /\ \A c \in OrderConsumers :
                       GivesUp(c) =>
                          /\ cPc[c] = "deduct"
                          /\ \E q \in OrderIds :
                                VoucherOf[q] = VoucherOf[cMsg[c]] /\ Cancelling(q)
<1>1. ASSUME TypeOK, ListenerInv, AccountInv, CalmInv, StockConserved, [Next]_vars
      PROVE  [Reasons]_vars
  <2> SUFFICES ASSUME faults' = 0 PROVE Reasons
    OBVIOUS
  <2>1. /\ faults = 0 /\ Undisturbed /\ LockInv /\ DeliverInv /\ AcceptInv /\ UserLockInv
        /\ RedisAccountsForEveryUnit
    BY <1>1, FaultsShow DEF AccountInv, CalmInv
  <2>2. ASSUME NEW c \in OrderConsumers, GivesUp(c)
        PROVE  /\ cPc[c] = "deduct"
               /\ \E q \in OrderIds : VoucherOf[q] = VoucherOf[cMsg[c]] /\ Cancelling(q)
    <3>1. /\ cPc[c] = "deduct" /\ cMsg[c] \in stream /\ orderRow[cMsg[c]] = "none"
          /\ dbStock[VoucherOf[cMsg[c]]] = 0
      BY <1>1, <2>1, <2>2, GivingUp
    <3> QED
      BY <1>1, <2>1, <3>1, NoUnitLeft
  <2> QED
    BY <1>1, <2>1, <2>2, TurnedAway
<1>2. TypeOK /\ ListenerInv /\ AccountInv /\ CalmInv /\ StockConserved /\ [Next]_vars
         => [Reasons]_vars
  BY <1>1
<1> QED
  BY <1>2, ListenersCovered, AccountInvariant, CalmInvariant, StockIsConserved, PTL
     DEF Spec, DroppedForAReason

-----------------------------------------------------------------------------
(* Room for everyone.                                                       *)

\* Who asks for a voucher.
Purchasers(v) == {UserOf[o] : o \in {q \in OrderIds : VoucherOf[q] = v}}

\* Everybody asks for one voucher, and there is a unit for everybody.
RoomForAll ==
    /\ \A o, q \in OrderIds : UserOf[o] = UserOf[q] => VoucherOf[o] = VoucherOf[q]
    /\ \A v \in Vouchers : Cardinality(Purchasers(v)) <= InitStock[v]

\* The orders that hold a unit are of different users, and not of the one who waits.
LEMMA AUnitIsLeft ==
    ASSUME RoomForAll, TypeOK, AcceptInv, StockConserved, NEW o \in stream, orderRow[o] = "none"
    PROVE  dbStock[VoucherOf[o]] > 0
<1> DEFINE v == VoucherOf[o]
           held == {q \in OrderIds : VoucherOf[q] = v /\ orderRow[q] \in {"unpaid", "paid"}}
           others == Purchasers(v) \ {UserOf[o]}
<1>1. o \in OrderIds /\ v \in Vouchers /\ stream \subseteq OrderIds /\ dbStock[v] \in Nat
  BY VoucherOfType DEF TypeOK
<1>2. dbStock[v] + Cardinality(held) = InitStock[v]
  <2>1. dbStock[v] + Ledger!Cardinality(Ledger!Holding(v)) = InitStock[v]
    BY <1>1 DEF StockConserved, Ledger!StockConserved
  <2>2. Ledger!Holding(v) = held
    BY DEF Ledger!Holding
  <2>3. Ledger!Cardinality(held) = Cardinality(held)
    BY DEF Ledger!Cardinality, Cardinality
  <2> QED
    BY <2>1, <2>2, <2>3
<1>3. /\ IsFiniteSet(Purchasers(v)) /\ Cardinality(Purchasers(v)) \in Nat
      /\ IsFiniteSet(others) /\ Cardinality(others) = Cardinality(Purchasers(v)) - 1
  <2>1. IsFiniteSet({q \in OrderIds : VoucherOf[q] = v})
    BY OrderIdsFinite, FS_Subset
  <2>2. IsFiniteSet(Purchasers(v))
    <3> DEFINE askers == {q \in OrderIds : VoucherOf[q] = v}
               f == [q \in askers |-> UserOf[q]]
    <3>1. f \in Surjection(askers, Purchasers(v))
      BY DEF Surjection, Purchasers
    <3> HIDE DEF f
    <3> QED
      BY <2>1, <3>1, FS_Surjection
  <2>3. UserOf[o] \in Purchasers(v)
    BY <1>1 DEF Purchasers
  <2> QED
    BY <2>2, <2>3, FS_RemoveElement, FS_CardinalityType
<1>4. Cardinality(held) <= Cardinality(others)
  <2> DEFINE f == [q \in held |-> UserOf[q]]
  <2>1. \A q \in held : q \in OrderIds /\ q \in stream /\ VoucherOf[q] = v /\ q # o
    BY DEF AcceptInv
  <2>2. \A q \in held : UserOf[q] \in others
    BY <1>1, <2>1 DEF AcceptInv, SamePurchase, Purchasers
  <2>3. \A q, r \in held : UserOf[q] = UserOf[r] => q = r
    BY <2>1 DEF AcceptInv, SamePurchase
  <2> HIDE DEF held, others
  <2>4. f \in Injection(held, others)
    BY <2>2, <2>3 DEF Injection, IsInjective
  <2> QED
    BY <1>3, <2>4, FS_Injection
<1>5. InitStock[v] \in Nat /\ Cardinality(Purchasers(v)) <= InitStock[v]
  BY <1>1, InitStockType DEF RoomForAll
<1>6. Cardinality(held) \in Nat
  <2>1. IsFiniteSet(held)
    BY OrderIdsFinite, FS_Subset
  <2> QED
    BY <2>1, FS_CardinalityType
<1> HIDE DEF held, others, v
<1>7. dbStock[v] > 0
  BY <1>1, <1>2, <1>3, <1>4, <1>5, <1>6
<1> QED
  BY <1>7 DEF v

-----------------------------------------------------------------------------
(* Record locks: every deadlock is of the kind BreakDeadlock ends.          *)

\* The holders of record locks, and the listeners whose next statement needs one that is held.
HoldsStock(c) == \E v \in Vouchers : rowLock[v] = c
HoldsOrder(c) == \E o \in OrderIds : orderLock[o] = c
WaitsForStock(c) == cPc[c] \in {"deduct", "restock"} /\ rowLock[VoucherOf[cMsg[c]]] # None
WaitsForOrder(c) == cPc[c] \in {"save", "mark"} /\ orderLock[cMsg[c]] # None

\* An order message's listener holds the stock row and needs the order, the order's
\* cancellation holds the order and needs this stock row.
Deadlocked(c, k) ==
    /\ c \in OrderConsumers /\ cPc[c] = "save" /\ orderLock[cMsg[c]] = k
    /\ k \in CancelConsumers /\ cPc[k] = "restock" /\ rowLock[VoucherOf[cMsg[k]]] = c

\* In a circle of waiting listeners locks of stock rows and of orders alternate, and where
\* they meet, two listeners are deadlocked.
CirclesArePairs ==
    /\ \A c \in Consumers : HoldsStock(c) => ~WaitsForStock(c)
    /\ \A c \in Consumers : HoldsOrder(c) => ~WaitsForOrder(c)
    /\ \A c, k \in Consumers :
          HoldsStock(c) /\ WaitsForOrder(c) /\ orderLock[cMsg[c]] = k /\ WaitsForStock(k)
             => Deadlocked(c, k)

\* While nothing fails a circle cannot close: who holds a stock row waits for nobody.
StockHoldersGoOn == faults = 0 => \A c \in Consumers : HoldsStock(c) => ~WaitsForOrder(c)

\* How far the holder of a record lock has come, and that only a row can be cancelled.
WaitInv ==
    /\ \A v \in Vouchers, c \in Consumers :
          rowLock[v] = c => cPc[c] \in {"save", "unlock", "end"} /\ VoucherOf[cMsg[c]] = v
    /\ \A o \in OrderIds, c \in Consumers :
          orderLock[o] = c => cPc[c] \in {"unlock", "incr", "restock", "end"}
    /\ \A k \in CancelConsumers : cPc[k] # "idle" => orderRow[cMsg[k]] # "none"

LEMMA WaitStep ==
    ASSUME TypeOK, ListenerInv, LockInv, WaitInv, [Next]_vars
    PROVE  WaitInv'
<1> USE NobodyAssumption, ConsumersDisjoint
<1>0. /\ cPc \in [Consumers -> ConsSteps] /\ cMsg \in [Consumers -> OrderIds \cup {None}]
      /\ orderRow \in [OrderIds -> RowStates]
      /\ rowLock \in [Vouchers -> Consumers \cup {None}]
      /\ orderLock \in [OrderIds -> Consumers \cup {None}]
      /\ OrderConsumers \subseteq Consumers /\ CancelConsumers \subseteq Consumers
      /\ \A c \in Consumers : cPc[c] # "idle" => cMsg[c] \in OrderIds
  BY DEF TypeOK, Consumers, ListenerInv, CreatorOK, CancellerOK
<1>1. ASSUME \A o \in OrderIds : orderRow[o] # "none" => orderRow'[o] # "none",
             \A v \in Vouchers, c \in Consumers :
                rowLock'[v] = c =>
                   cPc'[c] \in {"save", "unlock", "end"} /\ VoucherOf[cMsg'[c]] = v,
             \A o \in OrderIds, c \in Consumers :
                orderLock'[o] = c => cPc'[c] \in {"unlock", "incr", "restock", "end"},
             \A k \in CancelConsumers :
                cPc'[k] # "idle" => orderRow'[cMsg'[k]] # "none"
      PROVE  WaitInv'
  BY <1>1 DEF WaitInv
\* A listener gives its record locks back, another one may find a new message.
<1>2. ASSUME NEW c \in Consumers, ReleaseRows(c),
             \A o \in OrderIds : orderRow[o] # "none" => orderRow'[o] # "none",
             \A d \in Consumers : d # c => cPc'[d] = cPc[d] /\ cMsg'[d] = cMsg[d],
             \/ cPc'[c] = "idle"
             \/ cPc[c] # "idle" /\ cMsg'[c] = cMsg[c]
      PROVE  WaitInv'
  BY <1>0, <1>1, <1>2 DEF WaitInv, ReleaseRows
\* A listener goes on and takes no record lock.
<1>3. ASSUME NEW c \in Consumers, UNCHANGED <<rowLock, orderLock, orderRow>>,
             \A d \in Consumers : d # c => cPc'[d] = cPc[d] /\ cMsg'[d] = cMsg[d],
             \/ cPc[c] = "idle" /\ (c \in CancelConsumers => orderRow[cMsg'[c]] # "none")
             \/ /\ cMsg'[c] = cMsg[c] /\ cPc[c] # "idle"
                /\ cPc[c] \in {"save", "unlock", "end"} => cPc'[c] \in {"unlock", "end"}
                /\ cPc[c] \in {"incr", "restock"} => cPc'[c] \in {"restock", "end"}
      PROVE  WaitInv'
  BY <1>0, <1>1, <1>3 DEF WaitInv, LockInv
\* A listener takes the record lock of its voucher or of its order.
<1>4. ASSUME NEW c \in Consumers, UNCHANGED <<orderRow, cMsg>>, cPc[c] # "idle",
             \A d \in Consumers : d # c => cPc'[d] = cPc[d],
             \/ /\ rowLock' = [rowLock EXCEPT ![VoucherOf[cMsg[c]]] = c]
                /\ UNCHANGED orderLock
                /\ \/ cPc[c] = "deduct" /\ cPc'[c] \in {"save", "unlock"}
                   \/ cPc[c] = "restock" /\ cPc'[c] = "end"
             \/ /\ orderLock' = [orderLock EXCEPT ![cMsg[c]] = c]
                /\ UNCHANGED rowLock
                /\ \/ cPc[c] = "save" /\ cPc'[c] = "unlock"
                   \/ cPc[c] = "mark" /\ cPc'[c] \in {"incr", "end"}
      PROVE  WaitInv'
  BY <1>0, <1>1, <1>4 DEF WaitInv
<1>5. ASSUME NEW c \in OrderConsumers, CreateStep(c) \/ CreateThrows(c) PROVE WaitInv'
  <2>1. ASSUME NEW o \in OrderIds, TryLock(c, o) PROVE WaitInv'
    BY <2>1, <1>0, <1>3 DEF TryLock, lockVars, dbVars, Goto
  <2>2. CASE CheckCount(c) \/ Unlock(c) \/ CreateThrows(c)
    BY <2>2, <1>0, <1>3 DEF CheckCount, Unlock, CreateThrows, lockVars, dbVars, consVars, Goto
  <2>3. CASE DeductStock(c) \/ SaveOrder(c)
    <3>1. cPc[c] # "idle" /\ \A d \in Consumers : d # c => cPc'[d] = cPc[d]
      BY <2>3, <1>0 DEF DeductStock, SaveOrder, Goto
    <3> QED
      BY <2>3, <3>1, <1>0, <1>4 DEF DeductStock, SaveOrder, dbVars, Goto
  <2>4. CASE CommitCreate(c)
    <3>0. cPc'[c] = "idle" /\ \A d \in Consumers : d # c => cPc'[d] = cPc[d] /\ cMsg'[d] = cMsg[d]
      BY <2>4, <1>0 DEF CommitCreate, Finish, Goto
    <3>1. PICK o \in OrderIds : orderRow' = [orderRow EXCEPT ![o] = "unpaid"]
      BY <2>4, <1>0 DEF CommitCreate
    <3>2. \A q \in OrderIds : orderRow[q] # "none" => orderRow'[q] # "none"
      BY <3>1, <1>0
    <3> QED
      BY <2>4, <3>0, <3>2, <1>0, <1>2 DEF CommitCreate
  <2>5. CASE EndWithoutEffect(c)
    <3>0. cPc'[c] = "idle" /\ \A d \in Consumers : d # c => cPc'[d] = cPc[d] /\ cMsg'[d] = cMsg[d]
      BY <2>5, <1>0 DEF EndWithoutEffect, Finish, Goto
    <3> QED
      BY <2>5, <3>0, <1>0, <1>2 DEF EndWithoutEffect, dbVars
  <2> QED
    BY <1>5, <2>1, <2>2, <2>3, <2>4, <2>5 DEF CreateStep
<1>6. ASSUME NEW c \in CancelConsumers, CancelStep(c) \/ CancelThrows(c) PROVE WaitInv'
  <2>1. ASSUME NEW o \in OrderIds, ReadOrder(c, o) PROVE WaitInv'
    <3>0. cPc[c] = "idle" /\ UNCHANGED <<rowLock, orderLock, orderRow>>
      BY <2>1 DEF ReadOrder, lockVars, dbVars
    <3>1. CASE cMsg' = [cMsg EXCEPT ![c] = o] /\ orderRow[o] = "unpaid"
               /\ cPc' = [cPc EXCEPT ![c] = "mark"]
      <4>1. cMsg'[c] = o /\ \A d \in Consumers : d # c => cPc'[d] = cPc[d] /\ cMsg'[d] = cMsg[d]
        BY <3>1, <1>0
      <4> QED
        BY <3>0, <3>1, <4>1, <1>0, <1>3
    <3>2. CASE UNCHANGED <<cMsg, cPc>>
      BY <3>0, <3>2, <1>0, <1>1 DEF WaitInv
    <3> QED
      BY <2>1, <3>1, <3>2 DEF ReadOrder, Goto
  <2>2. CASE IncrRedisStock(c) \/ CancelThrows(c)
    BY <2>2, <1>0, <1>3 DEF IncrRedisStock, CancelThrows, lockVars, dbVars, consVars, Goto
  <2>3. CASE RestoreDbStock(c) \/ MarkCancelled(c)
    BY <2>3, <1>0, <1>4 DEF RestoreDbStock, MarkCancelled, dbVars, Goto
  <2>4. CASE CommitCancel(c)
    <3>0. cPc'[c] = "idle" /\ \A d \in Consumers : d # c => cPc'[d] = cPc[d] /\ cMsg'[d] = cMsg[d]
      BY <2>4, <1>0 DEF CommitCancel, Finish, Goto
    <3>1. orderRow' = [orderRow EXCEPT ![cMsg[c]] = "cancelled"] /\ ReleaseRows(c)
      BY <2>4 DEF CommitCancel
    <3>2. \A q \in OrderIds : orderRow[q] # "none" => orderRow'[q] # "none"
      BY <3>1, <1>0
    <3> QED
      BY <3>0, <3>1, <3>2, <1>0, <1>2
  <2>5. CASE EndWithoutEffect(c)
    <3>0. cPc'[c] = "idle" /\ \A d \in Consumers : d # c => cPc'[d] = cPc[d] /\ cMsg'[d] = cMsg[d]
      BY <2>5, <1>0 DEF EndWithoutEffect, Finish, Goto
    <3> QED
      BY <2>5, <3>0, <1>0, <1>2 DEF EndWithoutEffect, dbVars
  <2> QED
    BY <1>6, <2>1, <2>2, <2>3, <2>4, <2>5 DEF CancelStep
<1>7. ASSUME NEW c \in OrderConsumers, NEW k \in CancelConsumers, BreakDeadlock(c, k) PROVE WaitInv'
  <2>1. PICK d \in {c, k} : /\ ReleaseRows(d) /\ UNCHANGED <<cMsg, orderRow>> /\ cPc[d] # "idle"
                            /\ \A e \in Consumers : e # d => cPc'[e] = cPc[e]
    BY <1>0, <1>7 DEF BreakDeadlock, Goto, dbVars
  <2> QED
    BY <1>0, <2>1, <1>2
<1>8. ASSUME NEW c \in Consumers, ConsumerCrash(c) PROVE WaitInv'
  <2>1. cPc'[c] = "idle" /\ \A d \in Consumers : d # c => cPc'[d] = cPc[d] /\ cMsg'[d] = cMsg[d]
    BY <1>8, <1>0 DEF ConsumerCrash, Goto
  <2> QED
    BY <1>8, <2>1, <1>0, <1>2 DEF ConsumerCrash, dbVars
<1>9. ASSUME NEW o \in OrderIds, Pay(o) PROVE WaitInv'
  <2>1. /\ orderRow' = [orderRow EXCEPT ![o] = "paid"]
        /\ UNCHANGED <<rowLock, orderLock, cPc, cMsg>>
    BY <1>9 DEF Pay, lockVars, consVars
  <2> QED
    BY <2>1, <1>0, <1>1 DEF WaitInv
<1>10. CASE UNCHANGED <<rowLock, orderLock, orderRow, cPc, cMsg>>
  BY <1>0, <1>1, <1>10 DEF WaitInv
<1>11. \/ \E c \in OrderConsumers : CreateStep(c) \/ CreateThrows(c)
       \/ \E k \in CancelConsumers : CancelStep(k) \/ CancelThrows(k)
       \/ \E c \in OrderConsumers, k \in CancelConsumers : BreakDeadlock(c, k)
       \/ \E c \in Consumers : ConsumerCrash(c)
       \/ \E o \in OrderIds : Pay(o)
       \/ UNCHANGED <<rowLock, orderLock, orderRow, cPc, cMsg>>
  BY DEF Next, LuaSoldOut, LuaRepeat, LuaAccept, RequestStep, SendOrderMessage,
         RegisterDelayTask, RequestFails, BrokerAppend, SendLost, OffsetCommit, Redeliver,
         PreheatSeckill, RedisSavesSnapshot, RedisRestoresSnapshot, PollerStep, PollExpiredTasks, RemoveTask,
         SendOrderCancelMessage, PollerFails, Rebalance, OrphanLockExpires, HeldLockExpires,
         vars, lockVars, dbVars, consVars
<1> QED
  BY <1>5, <1>6, <1>7, <1>8, <1>9, <1>10, <1>11

LEMMA WaitInvariant == Spec => [](LockInv /\ WaitInv)
<1>1. Init => LockInv /\ WaitInv
  BY NobodyAssumption, ConsumersDisjoint DEF Init, LockInv, WaitInv, Consumers
<1>2. ASSUME TypeOK, ListenerInv, LockInv /\ WaitInv, [Next]_vars PROVE (LockInv /\ WaitInv)'
  BY <1>2, LockStep, WaitStep
<1>3. TypeOK /\ ListenerInv /\ LockInv /\ WaitInv /\ [Next]_vars => (LockInv /\ WaitInv)'
  BY <1>2
<1> QED
  BY <1>1, <1>3, ListenersCovered, PTL DEF Spec

\* Redeliveries and zombies included, listeners that wait for each other are an order's
\* listener and this order's cancellation, so ending these ends every deadlock.
THEOREM DeadlocksArePairs == Spec => []CirclesArePairs
<1>1. ASSUME TypeOK, ListenerInv, LockInv, WaitInv PROVE CirclesArePairs
  <2> USE NobodyAssumption, ConsumersDisjoint
  <2>1. /\ \A c \in OrderConsumers : CreatorOK(c)
        /\ \A k \in CancelConsumers : CancellerOK(k)
        /\ Consumers = OrderConsumers \cup CancelConsumers
    BY <1>1 DEF ListenerInv, Consumers
  <2>2. \A c \in Consumers : HoldsStock(c) => ~WaitsForStock(c)
    BY <1>1 DEF WaitInv, HoldsStock, WaitsForStock
  <2>3. \A c \in Consumers : HoldsOrder(c) => ~WaitsForOrder(c)
    BY <1>1 DEF WaitInv, HoldsOrder, WaitsForOrder
  <2>4. ASSUME NEW c \in Consumers, NEW k \in Consumers,
               HoldsStock(c), WaitsForOrder(c), orderLock[cMsg[c]] = k, WaitsForStock(k)
        PROVE  Deadlocked(c, k)
    <3>1. cPc[c] = "save" /\ rowLock[VoucherOf[cMsg[c]]] = c
      BY <1>1, <2>4 DEF WaitInv, HoldsStock, WaitsForOrder
    <3>2. c \in OrderConsumers /\ cMsg[c] \in OrderIds
      BY <2>1, <3>1 DEF CreatorOK, CancellerOK
    <3>3. cPc[k] = "restock" /\ cMsg[k] = cMsg[c]
      BY <1>1, <2>4, <3>2 DEF WaitInv, LockInv, WaitsForStock
    <3>4. k \in CancelConsumers
      BY <2>1, <3>3 DEF CreatorOK
    <3> QED
      BY <2>4, <3>1, <3>2, <3>3, <3>4 DEF Deadlocked
  <2> QED
    BY <2>2, <2>3, <2>4 DEF CirclesArePairs
<1>2. TypeOK /\ ListenerInv /\ LockInv /\ WaitInv => CirclesArePairs
  BY <1>1
<1> QED
  BY <1>2, ListenersCovered, WaitInvariant, PTL

\* While nothing fails there is no deadlock to end: an order is not cancelled before it is
\* there, and nobody else inserts it.
THEOREM NoDeadlockByItself == Spec => []StockHoldersGoOn
<1>1. ASSUME TypeOK, ListenerInv, LockInv, WaitInv, DeliverInv PROVE StockHoldersGoOn
  <2> USE NobodyAssumption, ConsumersDisjoint
  <2> SUFFICES ASSUME NEW c \in Consumers, HoldsStock(c), WaitsForOrder(c) PROVE FALSE
    BY DEF StockHoldersGoOn
  <2>1. /\ \A d \in OrderConsumers : CreatorOK(d)
        /\ \A k \in CancelConsumers : CancellerOK(k)
        /\ Consumers = OrderConsumers \cup CancelConsumers
    BY <1>1 DEF ListenerInv, Consumers
  <2>2. cPc[c] = "save"
    BY <1>1 DEF WaitInv, HoldsStock, WaitsForOrder
  <2>3. c \in OrderConsumers /\ cMsg[c] \in OrderIds /\ orderRow[cMsg[c]] = "none"
    BY <1>1, <2>1, <2>2 DEF CreatorOK, CancellerOK, DeliverInv
  <2>4. PICK d \in Consumers : orderLock[cMsg[c]] = d
    BY <1>1, <2>3 DEF WaitsForOrder, TypeOK
  <2>5. cPc[d] # "idle" /\ cPc[d] # "save" /\ cMsg[d] = cMsg[c]
    BY <1>1, <2>3, <2>4 DEF LockInv, WaitInv
  <2>6. d \notin OrderConsumers
    BY <1>1, <2>2, <2>3, <2>5 DEF DeliverInv
  <2> QED
    BY <1>1, <2>1, <2>3, <2>5, <2>6 DEF WaitInv
<1>2. TypeOK /\ ListenerInv /\ LockInv /\ WaitInv /\ (faults = 0 => DeliverInv) => StockHoldersGoOn
  BY <1>1 DEF StockHoldersGoOn
<1>3. AccountInv => (faults = 0 => DeliverInv)
  BY DEF AccountInv
<1> QED
  BY <1>2, <1>3, ListenersCovered, WaitInvariant, AccountInvariant, PTL

\* The guards of a busy listener's steps (CreateStep, CancelStep).
CanGoOn(c) ==
    \/ cPc[c] \in {"count", "unlock", "incr"}
    \/ cPc[c] \in {"deduct", "restock"} /\ rowLock[VoucherOf[cMsg[c]]] = None
    \/ cPc[c] \in {"save", "mark"} /\ orderLock[cMsg[c]] = None
    \/ cPc[c] = "end" /\ tx[c] \in {"clean", "rollback"}
    \/ cPc[c] = "end" /\ c \in OrderConsumers /\ tx[c] = "ordered"
    \/ cPc[c] = "end" /\ c \in CancelConsumers /\ tx[c] = "returned"

\* Waits end: at a listener that goes on, or at a deadlock, which InnoDB breaks.
SomebodyGoesOn ==
    (\E c \in Consumers : cPc[c] # "idle") =>
       \/ \E c \in Consumers : CanGoOn(c)
       \/ \E c, k \in Consumers : Deadlocked(c, k)

\* A user's lock is with a listener that has yet to pass its finally block, or with a lease
\* that ends.
OwnersAreAtWork ==
    \A u \in Users :
       \/ lockOwner[u] \in {None, Orphan}
       \/ /\ lockOwner[u] \in OrderConsumers
          /\ cPc[lockOwner[u]] \in {"count", "deduct", "save", "unlock"}
          /\ UserOf[cMsg[lockOwner[u]]] = u

\* Whatever fails, listeners never all wait: one can go on, or MySQL has a deadlock to break.
\* This is what ListenersReturn needs besides fairness.
THEOREM WaitsEnd == Spec => []SomebodyGoesOn
<1>1. ASSUME TypeOK, ListenerInv, LockInv, WaitInv, CirclesArePairs,
             NEW c \in Consumers, cPc[c] # "idle"
      PROVE  \/ \E d \in Consumers : CanGoOn(d)
             \/ \E d, k \in Consumers : Deadlocked(d, k)
  <2> USE NobodyAssumption, ConsumersDisjoint
  <2> DEFINE Goes == \E d \in Consumers : CanGoOn(d)
             Stuck == \E d, k \in Consumers : Deadlocked(d, k)
  <2>1. ASSUME NEW d \in Consumers, cPc[d] # "idle"
        PROVE  CanGoOn(d) \/ WaitsForStock(d) \/ WaitsForOrder(d)
    <3>1. Consumers = OrderConsumers \cup CancelConsumers
      BY DEF Consumers
    <3> QED
      BY <1>1, <2>1, <3>1 DEF ListenerInv, CreatorOK, CancellerOK, CanGoOn, WaitsForStock, WaitsForOrder
  <2>2. \A d \in Consumers : cPc[d] # "idle" => cMsg[d] \in OrderIds /\ VoucherOf[cMsg[d]] \in Vouchers
    BY <1>1, VoucherOfType DEF ListenerInv, CreatorOK, CancellerOK, Consumers
  <2>3. ASSUME NEW d \in Consumers, WaitsForStock(d)
        PROVE  \E e \in Consumers : HoldsStock(e) /\ cPc[e] # "idle"
    <3>1. cPc[d] # "idle" /\ rowLock[VoucherOf[cMsg[d]]] # None
      BY <2>3 DEF WaitsForStock
    <3>2. rowLock[VoucherOf[cMsg[d]]] \in Consumers
      BY <1>1, <2>2, <3>1 DEF TypeOK
    <3> QED
      BY <1>1, <2>2, <3>1, <3>2 DEF WaitInv, HoldsStock
  <2>4. ASSUME NEW d \in Consumers, WaitsForOrder(d)
        PROVE  \E e \in Consumers : HoldsOrder(e) /\ cPc[e] # "idle" /\ orderLock[cMsg[d]] = e
    <3>1. cPc[d] # "idle" /\ orderLock[cMsg[d]] # None
      BY <2>4 DEF WaitsForOrder
    <3>2. orderLock[cMsg[d]] \in Consumers
      BY <1>1, <2>2, <3>1 DEF TypeOK
    <3> QED
      BY <1>1, <2>2, <3>1, <3>2 DEF WaitInv, HoldsOrder
  \* The holder of a stock row goes on, or the order it waits for is with one who goes on or
  \* with its partner in a deadlock.
  <2>5. ASSUME NEW d \in Consumers, HoldsStock(d), cPc[d] # "idle" PROVE Goes \/ Stuck
    <3>1. CASE WaitsForOrder(d)
      <4>1. PICK e \in Consumers : HoldsOrder(e) /\ cPc[e] # "idle" /\ orderLock[cMsg[d]] = e
        BY <2>4, <3>1
      <4>2. CanGoOn(e) \/ WaitsForStock(e)
        BY <1>1, <2>1, <4>1 DEF CirclesArePairs
      <4> QED
        BY <1>1, <2>5, <3>1, <4>1, <4>2 DEF CirclesArePairs
    <3>2. ~WaitsForStock(d)
      BY <1>1, <2>5 DEF CirclesArePairs
    <3> QED
      BY <2>1, <2>5, <3>1, <3>2
  <2>6. ASSUME NEW d \in Consumers, WaitsForStock(d) PROVE Goes \/ Stuck
    BY <2>3, <2>5, <2>6
  <2>7. ASSUME NEW d \in Consumers, WaitsForOrder(d) PROVE Goes \/ Stuck
    <3>1. PICK e \in Consumers : HoldsOrder(e) /\ cPc[e] # "idle"
      BY <2>4, <2>7
    <3>2. ~WaitsForOrder(e)
      BY <1>1, <3>1 DEF CirclesArePairs
    <3> QED
      BY <2>1, <2>6, <3>1, <3>2
  <2> QED
    BY <1>1, <2>1, <2>6, <2>7
<1>2. TypeOK /\ ListenerInv /\ LockInv /\ WaitInv /\ CirclesArePairs => SomebodyGoesOn
  BY <1>1 DEF SomebodyGoesOn
<1> QED
  BY <1>2, ListenersCovered, WaitInvariant, DeadlocksArePairs, PTL

\* No process keeps a user's lock that it will not give back in its finally block; one that
\* died leaves it to the lease.  This is what UserLockIsFreed needs besides fairness.
THEOREM LocksHaveOwners == Spec => []OwnersAreAtWork
<1> USE NobodyAssumption, ConsumersDisjoint, UserOfType
<1> DEFINE Busy == {"count", "deduct", "save", "unlock"}
<1>1. Init => OwnersAreAtWork
  BY DEF Init, OwnersAreAtWork
<1>2. ASSUME TypeOK, ListenerInv, OwnersAreAtWork, [Next]_vars PROVE OwnersAreAtWork'
  <2>0. /\ cPc \in [Consumers -> ConsSteps] /\ cMsg \in [Consumers -> OrderIds \cup {None}]
        /\ lockOwner \in [Users -> OrderConsumers \cup {None, Orphan}]
        /\ OrderConsumers \subseteq Consumers /\ CancelConsumers \subseteq Consumers
        /\ \A c \in OrderConsumers : cPc[c] # "idle" => cMsg[c] \in OrderIds
    BY <1>2 DEF TypeOK, Consumers, ListenerInv, CreatorOK
  \* Locks are only given back, and the listeners that own one stay at their message.
  <2>1. ASSUME \A u \in Users : lockOwner'[u] \in {lockOwner[u], None, Orphan},
               \A c \in OrderConsumers, u \in Users :
                  lockOwner'[u] = c /\ cPc[c] \in Busy => cPc'[c] \in Busy /\ cMsg'[c] = cMsg[c]
        PROVE  OwnersAreAtWork'
    BY <1>2, <2>0, <2>1 DEF OwnersAreAtWork
  <2>2. ASSUME NEW c \in OrderConsumers, NEW o \in OrderIds, TryLock(c, o) PROVE OwnersAreAtWork'
    <3>1. CASE lockOwner[UserOf[o]] # None
      BY <2>1, <2>2, <3>1 DEF TryLock
    <3>2. CASE lockOwner[UserOf[o]] = None
      <4>1. /\ lockOwner' = [lockOwner EXCEPT ![UserOf[o]] = c]
            /\ cMsg' = [cMsg EXCEPT ![c] = o] /\ cPc' = [cPc EXCEPT ![c] = "count"]
            /\ cPc[c] = "idle"
        BY <2>2, <3>2 DEF TryLock, Goto
      <4>2. /\ cPc'[c] = "count" /\ cMsg'[c] = o /\ lockOwner'[UserOf[o]] = c
            /\ \A u \in Users : u # UserOf[o] => lockOwner'[u] = lockOwner[u] /\ lockOwner[u] # c
            /\ \A d \in OrderConsumers : d # c => cPc'[d] = cPc[d] /\ cMsg'[d] = cMsg[d]
        BY <1>2, <2>0, <4>1 DEF OwnersAreAtWork
      <4> QED
        BY <1>2, <2>0, <4>2 DEF OwnersAreAtWork
    <3> QED
      BY <3>1, <3>2
  <2>3. ASSUME NEW c \in OrderConsumers, CheckCount(c) \/ DeductStock(c) \/ SaveOrder(c) \/ CreateThrows(c)
        PROVE  OwnersAreAtWork'
    <3>1. /\ UNCHANGED <<lockOwner, cMsg>>
          /\ cPc[c] \in Busy => cPc'[c] \in Busy
          /\ \A d \in OrderConsumers : d # c => cPc'[d] = cPc[d]
      BY <2>0, <2>3 DEF CheckCount, DeductStock, SaveOrder, CreateThrows, Goto
    <3> QED
      BY <2>1, <3>1
  <2>4. ASSUME NEW c \in OrderConsumers, Unlock(c) PROVE OwnersAreAtWork'
    <3>1. /\ \A u \in Users : lockOwner'[u] \in {lockOwner[u], None}
          /\ \A u \in Users : u = UserOf[cMsg[c]] => lockOwner'[u] # c
          /\ UNCHANGED cMsg /\ \A d \in OrderConsumers : d # c => cPc'[d] = cPc[d]
      BY <2>0, <2>4 DEF Unlock, Goto
    <3>2. \A u \in Users : lockOwner'[u] # c
      BY <1>2, <2>0, <3>1 DEF OwnersAreAtWork
    <3> QED
      BY <2>1, <3>1, <3>2
  <2>5. ASSUME NEW c \in OrderConsumers, CommitCreate(c) \/ EndWithoutEffect(c)
        PROVE  OwnersAreAtWork'
    <3>1. /\ UNCHANGED lockOwner /\ cPc[c] = "end"
          /\ \A d \in OrderConsumers : d # c => cPc'[d] = cPc[d] /\ cMsg'[d] = cMsg[d]
      BY <2>0, <2>5 DEF CommitCreate, EndWithoutEffect, Finish, Goto
    <3> QED
      BY <2>1, <3>1
  <2>6. ASSUME NEW k \in CancelConsumers, CancelStep(k) \/ CancelThrows(k) PROVE OwnersAreAtWork'
    <3>1. /\ UNCHANGED lockOwner
          /\ \A d \in OrderConsumers : cPc'[d] = cPc[d] /\ cMsg'[d] = cMsg[d]
      BY <2>0, <2>6
         DEF CancelStep, ReadOrder, MarkCancelled, IncrRedisStock, RestoreDbStock, CommitCancel,
             EndWithoutEffect, CancelThrows, Finish, Goto
    <3> QED
      BY <2>1, <3>1
  <2>7. ASSUME NEW c \in OrderConsumers, NEW k \in CancelConsumers, BreakDeadlock(c, k)
        PROVE  OwnersAreAtWork'
    <3>1. /\ UNCHANGED <<lockOwner, cMsg>> /\ cPc[c] = "save"
          /\ \A d \in OrderConsumers : cPc'[d] = cPc[d] \/ (d = c /\ cPc'[d] = "unlock")
      BY <2>0, <2>7 DEF BreakDeadlock, Goto
    <3> QED
      BY <2>1, <3>1
  <2>8. ASSUME NEW c \in Consumers, ConsumerCrash(c) PROVE OwnersAreAtWork'
    <3>1. /\ \A u \in Users : lockOwner'[u] = IF lockOwner[u] = c THEN Orphan ELSE lockOwner[u]
          /\ \A d \in OrderConsumers : d # c => cPc'[d] = cPc[d] /\ cMsg'[d] = cMsg[d]
      BY <2>0, <2>8 DEF ConsumerCrash, Goto
    <3> QED
      BY <2>0, <2>1, <3>1
  <2>9. ASSUME UNCHANGED <<cPc, cMsg>>,
               \/ UNCHANGED lockOwner
               \/ \A u \in Users : lockOwner'[u] \in {lockOwner[u], None, Orphan}
               \/ \E w \in Users : lockOwner' = [lockOwner EXCEPT ![w] = None]
        PROVE  OwnersAreAtWork'
    <3>1. \A u \in Users : lockOwner'[u] \in {lockOwner[u], None, Orphan}
      BY <2>0, <2>9
    <3> QED
      BY <2>1, <2>9, <3>1
  <2>10. \/ \E c \in OrderConsumers : CreateStep(c) \/ CreateThrows(c)
         \/ \E k \in CancelConsumers : CancelStep(k) \/ CancelThrows(k)
         \/ \E c \in OrderConsumers, k \in CancelConsumers : BreakDeadlock(c, k)
         \/ \E c \in Consumers : ConsumerCrash(c)
         \/ /\ UNCHANGED <<cPc, cMsg>>
            /\ \/ UNCHANGED lockOwner
               \/ \A u \in Users : lockOwner'[u] \in {lockOwner[u], None, Orphan}
               \/ \E w \in Users : lockOwner' = [lockOwner EXCEPT ![w] = None]
    BY <1>2
       DEF Next, LuaSoldOut, LuaRepeat, LuaAccept, RequestStep, SendOrderMessage,
           RegisterDelayTask, RequestFails, BrokerAppend, SendLost, OffsetCommit, Redeliver, Pay,
           PreheatSeckill, RedisSavesSnapshot, RedisRestoresSnapshot, PollerStep, PollExpiredTasks, RemoveTask,
           SendOrderCancelMessage, PollerFails, Rebalance, OrphanLockExpires, HeldLockExpires,
           vars, consVars
  <2> QED
    BY <2>2, <2>3, <2>4, <2>5, <2>6, <2>7, <2>8, <2>9, <2>10 DEF CreateStep
<1>3. TypeOK /\ ListenerInv /\ OwnersAreAtWork /\ [Next]_vars => OwnersAreAtWork'
  BY <1>2
<1> QED
  BY <1>1, <1>3, ListenersCovered, PTL DEF Spec

-----------------------------------------------------------------------------
(* An order ceases to be watched for a reason.                              *)

\* A cancellation that wrote nothing has seen an order that needs none.
SettledInv ==
    \A k \in CancelConsumers :
       cPc[k] = "end" /\ tx[k] = "clean" => orderRow[cMsg[k]] \in {"paid", "cancelled"}

\* Rows come and are settled, and stay.
LEMMA RowsGoOn ==
    ASSUME TypeOK, ListenerInv, [Next]_vars, NEW o \in OrderIds
    PROVE  /\ orderRow[o] # "none" => orderRow'[o] # "none"
           /\ orderRow[o] \in {"paid", "cancelled"} => orderRow'[o] = orderRow[o]
<1>1. [Ledger!LedgerNext]_(Ledger!ledgerVars)
  BY LedgerStep
<1>2. orderRow \in [OrderIds -> RowStates]
  BY DEF TypeOK
<1>3. \/ UNCHANGED orderRow
      \/ \E q \in OrderIds : orderRow[q] = "none" /\ orderRow' = [orderRow EXCEPT ![q] = "unpaid"]
      \/ \E q \in OrderIds, s \in {"paid", "cancelled"} :
            orderRow[q] = "unpaid" /\ orderRow' = [orderRow EXCEPT ![q] = s]
  BY <1>1 DEF Ledger!LedgerNext, Ledger!ledgerVars, Ledger!LedgerCreate, Ledger!LedgerCancel,
              Ledger!LedgerPay
<1> QED
  BY <1>2, <1>3

\* How a cancellation comes to its end with nothing written.
LEMMA EndsClean ==
    ASSUME TypeOK, ListenerInv, [Next]_vars, NEW k \in CancelConsumers,
           cPc'[k] = "end", tx'[k] = "clean"
    PROVE  /\ cMsg'[k] = cMsg[k] /\ cMsg[k] \in OrderIds
           /\ \/ cPc[k] = "end" /\ tx[k] = "clean"
              \/ cPc[k] = "mark" /\ orderRow[cMsg[k]] # "unpaid" /\ UNCHANGED orderRow
<1> USE ConsumersDisjoint
<1>0. /\ cPc \in [Consumers -> ConsSteps] /\ cMsg \in [Consumers -> OrderIds \cup {None}]
      /\ tx \in [Consumers -> TxStates]
      /\ OrderConsumers \subseteq Consumers /\ CancelConsumers \subseteq Consumers
      /\ k \notin OrderConsumers
      /\ cPc[k] # "idle" => cMsg[k] \in OrderIds
      /\ cPc[k] \in {"incr", "restock"} <=> tx[k] = "marked"
  BY DEF TypeOK, Consumers, ListenerInv, CancellerOK
<1>1. ASSUME cPc'[k] = cPc[k], tx'[k] = tx[k], cMsg'[k] = cMsg[k]
      PROVE  cMsg'[k] = cMsg[k] /\ cMsg[k] \in OrderIds /\ cPc[k] = "end" /\ tx[k] = "clean"
  BY <1>0, <1>1
<1>2. ASSUME NEW c \in OrderConsumers, CreateStep(c) \/ CreateThrows(c)
      PROVE  cPc'[k] = cPc[k] /\ tx'[k] = tx[k] /\ cMsg'[k] = cMsg[k]
  BY <1>0, <1>2
     DEF CreateStep, CreateThrows, TryLock, CheckCount, DeductStock, SaveOrder, Unlock,
         CommitCreate, EndWithoutEffect, Finish, Goto
<1>3. ASSUME NEW l \in CancelConsumers, l # k, CancelStep(l) \/ CancelThrows(l)
      PROVE  cPc'[k] = cPc[k] /\ tx'[k] = tx[k] /\ cMsg'[k] = cMsg[k]
  BY <1>0, <1>3
     DEF CancelStep, CancelThrows, ReadOrder, MarkCancelled, IncrRedisStock, RestoreDbStock,
         CommitCancel, EndWithoutEffect, Finish, Goto
<1>4. ASSUME CancelStep(k) \/ CancelThrows(k)
      PROVE  /\ cPc[k] = "mark" /\ orderRow[cMsg[k]] # "unpaid" /\ UNCHANGED orderRow
             /\ cMsg'[k] = cMsg[k] /\ cMsg[k] \in OrderIds
  <2>1. CASE MarkCancelled(k)
    BY <2>1, <1>0 DEF MarkCancelled, Goto, dbVars
  <2>2. ASSUME NEW o \in OrderIds, ReadOrder(k, o) PROVE FALSE
    BY <2>2, <1>0 DEF ReadOrder, Goto
  <2>3. CASE IncrRedisStock(k)
    BY <2>3, <1>0 DEF IncrRedisStock, Goto
  <2>4. CASE RestoreDbStock(k) \/ CancelThrows(k)
    BY <2>4, <1>0 DEF RestoreDbStock, CancelThrows, Goto
  <2>5. CASE CommitCancel(k) \/ EndWithoutEffect(k)
    BY <2>5, <1>0 DEF CommitCancel, EndWithoutEffect, Finish, Goto
  <2> QED
    BY <1>4, <2>1, <2>2, <2>3, <2>4, <2>5 DEF CancelStep
<1>5. ASSUME NEW c \in OrderConsumers, NEW l \in CancelConsumers, BreakDeadlock(c, l)
      PROVE  cPc'[k] = cPc[k] /\ tx'[k] = tx[k] /\ cMsg'[k] = cMsg[k]
  BY <1>0, <1>5 DEF BreakDeadlock, Goto
<1>6. ASSUME NEW c \in Consumers, ConsumerCrash(c)
      PROVE  cPc'[k] = cPc[k] /\ tx'[k] = tx[k] /\ cMsg'[k] = cMsg[k]
  BY <1>0, <1>6 DEF ConsumerCrash, Goto
<1>7. \/ \E c \in OrderConsumers : CreateStep(c) \/ CreateThrows(c)
      \/ \E l \in CancelConsumers : CancelStep(l) \/ CancelThrows(l)
      \/ \E c \in OrderConsumers, l \in CancelConsumers : BreakDeadlock(c, l)
      \/ \E c \in Consumers : ConsumerCrash(c)
      \/ UNCHANGED <<cPc, tx, cMsg>>
  BY DEF Next, LuaSoldOut, LuaRepeat, LuaAccept, RequestStep, SendOrderMessage,
         RegisterDelayTask, RequestFails, BrokerAppend, SendLost, OffsetCommit, Redeliver, Pay,
         PreheatSeckill, RedisSavesSnapshot, RedisRestoresSnapshot, PollerStep,
         PollExpiredTasks, RemoveTask, SendOrderCancelMessage, PollerFails, Rebalance,
         OrphanLockExpires, HeldLockExpires, vars, consVars
<1> QED
  BY <1>1, <1>2, <1>3, <1>4, <1>5, <1>6, <1>7

LEMMA SettledStep ==
    ASSUME TypeOK, ListenerInv, WaitInv, SettledInv, [Next]_vars
    PROVE  SettledInv'
<1> SUFFICES ASSUME NEW k \in CancelConsumers, cPc'[k] = "end", tx'[k] = "clean"
             PROVE  orderRow'[cMsg'[k]] \in {"paid", "cancelled"}
  BY DEF SettledInv
<1>1. PICK o \in OrderIds : o = cMsg[k] /\ cMsg'[k] = o
  BY EndsClean
<1>2. CASE cPc[k] = "end" /\ tx[k] = "clean"
  BY <1>1, <1>2, RowsGoOn DEF SettledInv
<1>3. CASE cPc[k] = "mark" /\ orderRow[o] # "unpaid" /\ UNCHANGED orderRow
  BY <1>1, <1>3 DEF WaitInv, TypeOK, RowStates
<1> QED
  BY <1>1, <1>2, <1>3, EndsClean

LEMMA WatchStep ==
    ASSUME TypeOK, ListenerInv, WaitInv, SettledInv, [Next]_vars
    PROVE  /\ \A o \in OrderIds : Unwatched(o) => UnwatchReason(o)
           /\ \A o, q \in OrderIds : Unwatched(o) /\ Unwatched(q) /\ o # q => RedisForgets
<1> USE ConsumersDisjoint, NobodyAssumption
<1> DEFINE Goal == /\ \A o \in OrderIds : Unwatched(o) => UnwatchReason(o)
                   /\ \A o, q \in OrderIds : Unwatched(o) /\ Unwatched(q) /\ o # q => RedisForgets
<1>0. /\ reqPc \in [OrderIds -> ReqSteps] /\ delayQueue \subseteq OrderIds
      /\ cancelMsg \in [OrderIds -> MsgStates] /\ orderRow \in [OrderIds -> RowStates]
      /\ sending \in [Pollers -> OrderIds \cup {None}] /\ batch \in [Pollers -> SUBSET OrderIds]
      /\ cPc \in [Consumers -> ConsSteps] /\ tx \in [Consumers -> TxStates]
      /\ cMsg \in [Consumers -> OrderIds \cup {None}] /\ faults \in Nat
      /\ OrderConsumers \subseteq Consumers /\ CancelConsumers \subseteq Consumers
      /\ \A k \in Consumers : cPc[k] # "idle" => cMsg[k] \in OrderIds
  BY MaxFaultsType DEF TypeOK, Consumers, ListenerInv, CreatorOK, CancellerOK
<1>1. ASSUME NEW z, \A o \in OrderIds : o # z => ~Unwatched(o),
             z \in OrderIds /\ Unwatched(z) => UnwatchReason(z)
      PROVE  Goal
  BY <1>1
<1>2. ASSUME \A o \in OrderIds : Watched(o) => Watched(o)' PROVE Goal
  BY <1>2 DEF Unwatched
\* What is done to one cancel message leaves the others watched.
<1>3. ASSUME NEW z, UNCHANGED <<reqPc, delayQueue, sending>>,
             \A o \in OrderIds : o # z => cancelMsg'[o] = cancelMsg[o],
             z \in OrderIds /\ Unwatched(z) => UnwatchReason(z)
      PROVE  Goal
  <2>1. \A o \in OrderIds : o # z => ~Unwatched(o)
    BY <1>3 DEF Unwatched, Watched
  <2> HIDE DEF Goal
  <2> QED
    BY <1>1, <1>3, <2>1
<1>4. ASSUME UNCHANGED <<reqPc, delayQueue, sending, cancelMsg>> PROVE Goal
  BY <1>4, <1>2 DEF Watched
<1> HIDE DEF Goal
<1>5. ASSUME NEW o \in OrderIds,
             \/ LuaSoldOut(o) \/ LuaRepeat(o) \/ LuaAccept(o) \/ RequestStep(o)
             \/ BrokerAppend(o) \/ OffsetCommit(o) \/ Redeliver(o)
      PROVE  Goal
  <2>1. CASE LuaSoldOut(o) \/ LuaRepeat(o) \/ LuaAccept(o)
    BY <2>1, <1>0, <1>2 DEF LuaSoldOut, LuaRepeat, LuaAccept, Watched, pollVars
  <2>2. CASE SendOrderMessage(o)
    BY <2>2, <1>0, <1>2 DEF SendOrderMessage, Watched, pollVars
  <2>3. CASE RegisterDelayTask(o)
    BY <2>3, <1>0, <1>2 DEF RegisterDelayTask, Watched
  <2>4. CASE BrokerAppend(o) \/ Redeliver(o)
    BY <2>4, <1>0, <1>2 DEF BrokerAppend, Redeliver, Watched, pollVars
  <2>5. CASE OffsetCommit(o)
    BY <2>5, <1>0, <1>2 DEF OffsetCommit, Watched, pollVars
  <2> QED
    BY <1>5, <2>1, <2>2, <2>3, <2>4, <2>5 DEF RequestStep
<1>6. ASSUME NEW o \in OrderIds, RequestFails(o) \/ SendLost(o) PROVE Goal
  <2>1. faults' # faults
    BY <1>0, <1>6 DEF RequestFails, SendLost, Fault
  <2>2. \A q \in OrderIds : q # o => ~Unwatched(q)
    BY <1>0, <1>6 DEF RequestFails, SendLost, Unwatched, Watched, pollVars
  <2> QED
    BY <1>1, <2>1, <2>2 DEF UnwatchReason
<1>7. ASSUME RedisRestoresSnapshot PROVE Goal
  BY <1>0, <1>7 DEF RedisRestoresSnapshot, Fault, UnwatchReason, Goal
<1>8. ASSUME NEW p \in Pollers, RemoveTask(p) \/ SendOrderCancelMessage(p) PROVE Goal
  <2>1. ASSUME RemoveTask(p) PROVE Goal
    <3>1. PICK z \in batch[p] :
             /\ delayQueue' = delayQueue \ {z} /\ sending[p] = None
             /\ sending' = [sending EXCEPT ![p] = IF z \in delayQueue THEN z ELSE None]
             /\ UNCHANGED <<reqPc, cancelMsg>>
      BY <2>1 DEF RemoveTask
    <3>2. z \in OrderIds
      BY <1>0
    <3>3. ASSUME NEW o \in OrderIds, Watched(o) PROVE Watched(o)'
      <4>1. CASE o = z /\ z \in delayQueue
        BY <1>0, <3>1, <4>1 DEF Watched
      <4>2. CASE ~(o = z /\ z \in delayQueue)
        <5>1. o \in delayQueue => o \in delayQueue'
          BY <3>1, <4>2
        <5>2. \A r \in Pollers : sending[r] = o => sending'[r] = o
          BY <1>0, <3>1, <3>2
        <5> QED
          BY <3>1, <3>3, <5>1, <5>2 DEF Watched
      <4> QED
        BY <4>1, <4>2
    <3> QED
      BY <1>2, <3>3
  <2>2. CASE SendOrderCancelMessage(p)
    <3>1. PICK z \in OrderIds :
             /\ z = sending[p] /\ cancelMsg' = [cancelMsg EXCEPT ![z] = "buffered"]
             /\ sending' = [sending EXCEPT ![p] = None] /\ UNCHANGED <<reqPc, delayQueue>>
      BY <1>0, <2>2 DEF SendOrderCancelMessage
    <3>2. ASSUME NEW o \in OrderIds, Watched(o) PROVE Watched(o)'
      <4>1. CASE o = z
        BY <1>0, <3>1, <4>1 DEF Watched
      <4>2. CASE o # z
        <5>1. cancelMsg'[o] = cancelMsg[o] /\ \A r \in Pollers : sending[r] = o => sending'[r] = o
          BY <1>0, <3>1, <4>2
        <5> QED
          BY <3>1, <3>2, <5>1 DEF Watched
      <4> QED
        BY <4>1, <4>2
    <3> QED
      BY <1>2, <3>2
  <2> QED
    BY <1>8, <2>1, <2>2
<1>9. ASSUME NEW p \in Pollers, PollerFails(p) PROVE Goal
  <2>1. faults' # faults
    BY <1>0, <1>9 DEF PollerFails, Fault
  <2>2. \A o \in OrderIds : o # sending[p] => ~Unwatched(o)
    BY <1>0, <1>9 DEF PollerFails, Unwatched, Watched
  <2> QED
    BY <1>1, <2>1, <2>2 DEF UnwatchReason
<1>10. ASSUME NEW k \in CancelConsumers, CancelStep(k) PROVE Goal
  <2>1. ASSUME NEW o \in OrderIds, ReadOrder(k, o) PROVE Goal
    <3>1. /\ UNCHANGED <<reqPc, delayQueue, sending, orderRow>>
          /\ \A q \in OrderIds : q # o => cancelMsg'[q] = cancelMsg[q]
      BY <1>0, <2>1 DEF ReadOrder, pollVars, dbVars
    <3>2. Unwatched(o) => orderRow[o] = "none"
      BY <1>0, <2>1, <3>1 DEF ReadOrder, Unwatched, Watched, RowStates
    <3> QED
      BY <1>3, <3>1, <3>2 DEF UnwatchReason
  <2>2. CASE MarkCancelled(k) \/ IncrRedisStock(k) \/ RestoreDbStock(k)
    BY <2>2, <1>4 DEF MarkCancelled, IncrRedisStock, RestoreDbStock, pollVars
  <2>3. CASE CommitCancel(k) \/ EndWithoutEffect(k)
    <3>1. PICK z \in OrderIds : z = cMsg[k]
      BY <1>0, <2>3 DEF CommitCancel, EndWithoutEffect
    <3>2. /\ UNCHANGED <<reqPc, delayQueue, sending>>
          /\ cancelMsg' = cancelMsg \/ cancelMsg' = [cancelMsg EXCEPT ![z] = "processed"]
      BY <2>3, <3>1 DEF CommitCancel, EndWithoutEffect, Finish, SetMsg, pollVars
    <3>3. Unwatched(z) => UnwatchReason(z)
      <4>1. CASE CommitCancel(k)
        BY <1>0, <3>1, <4>1 DEF CommitCancel, Unwatched
      <4>2. CASE EndWithoutEffect(k)
        <5>1. cPc[k] = "end" /\ tx[k] \in {"clean", "rollback"} /\ UNCHANGED orderRow
          BY <4>2 DEF EndWithoutEffect, dbVars
        <5> QED
          BY <3>1, <5>1 DEF SettledInv, Unwatched, UnwatchReason
      <4> QED
        BY <2>3, <4>1, <4>2
    <3>4. \A o \in OrderIds : o # z => cancelMsg'[o] = cancelMsg[o]
      BY <1>0, <3>2
    <3> QED
      BY <1>3, <3>2, <3>3, <3>4
  <2> QED
    BY <1>10, <2>1, <2>2, <2>3 DEF CancelStep
<1>11. ASSUME NEW c \in Consumers, Rebalance(c) \/ ConsumerCrash(c) PROVE Goal
  <2>1. /\ UNCHANGED <<reqPc, delayQueue, sending>>
        /\ \/ UNCHANGED cancelMsg
           \/ \E z \in OrderIds : cancelMsg' = [cancelMsg EXCEPT ![z] = "queued"]
    BY <1>0, <1>11 DEF Rebalance, ConsumerCrash, SetMsg, pollVars
  <2>2. ASSUME NEW o \in OrderIds, Watched(o) PROVE Watched(o)'
    BY <1>0, <2>1, <2>2 DEF Watched
  <2> QED
    BY <1>2, <2>2
<1>12. ASSUME NEW c \in OrderConsumers, CreateStep(c) \/ CreateThrows(c) PROVE Goal
  <2>1. UNCHANGED <<reqPc, delayQueue, sending, cancelMsg>>
    BY <1>12
       DEF CreateStep, CreateThrows, TryLock, CheckCount, DeductStock, SaveOrder, Unlock,
           CommitCreate, EndWithoutEffect, Finish, SetMsg, pollVars
  <2> QED
    BY <1>4, <2>1
<1>13. ASSUME UNCHANGED <<reqPc, delayQueue, sending, cancelMsg>> PROVE Goal
  BY <1>4, <1>13
<1>14. \/ \E o \in OrderIds :
             \/ LuaSoldOut(o) \/ LuaRepeat(o) \/ LuaAccept(o) \/ RequestStep(o)
             \/ BrokerAppend(o) \/ OffsetCommit(o) \/ Redeliver(o)
             \/ RequestFails(o) \/ SendLost(o)
       \/ RedisRestoresSnapshot
       \/ \E p \in Pollers : RemoveTask(p) \/ SendOrderCancelMessage(p) \/ PollerFails(p)
       \/ \E k \in CancelConsumers : CancelStep(k)
       \/ \E c \in Consumers : Rebalance(c) \/ ConsumerCrash(c)
       \/ \E c \in OrderConsumers : CreateStep(c) \/ CreateThrows(c)
       \/ UNCHANGED <<reqPc, delayQueue, sending, cancelMsg>>
  BY DEF Next, Pay, PreheatSeckill, RedisSavesSnapshot, PollerStep, PollExpiredTasks,
         CancelThrows, BreakDeadlock, OrphanLockExpires, HeldLockExpires, vars, pollVars
<1>15. Goal
  BY <1>5, <1>6, <1>7, <1>8, <1>9, <1>10, <1>11, <1>12, <1>13, <1>14
<1> QED
  BY <1>15 DEF Goal

\* Whatever fails, an order that is neither paid nor cancelled ceases to be watched only in
\* the fault itself, when its cancellation was rolled back, or when its cancel message came
\* before its row; and no step, a crash of the scan included, does that to two orders,
\* unless Redis forgets.
THEOREM WatchedUnlessFault == Spec => UnwatchedForAReason
<1> DEFINE Inv == TypeOK /\ ListenerInv /\ LockInv /\ WaitInv /\ SettledInv
<1>1. Init => SettledInv
  BY DEF Init, SettledInv, Consumers
<1>2. Inv /\ [Next]_vars => SettledInv'
  BY SettledStep
<1>3. Inv /\ [Next]_vars
         => [/\ \A o \in OrderIds : Unwatched(o) => UnwatchReason(o)
             /\ \A o, q \in OrderIds : Unwatched(o) /\ Unwatched(q) /\ o # q => RedisForgets]_vars
  BY WatchStep
<1> QED
  BY <1>1, <1>2, <1>3, ListenersCovered, WaitInvariant, PTL DEF Spec, UnwatchedForAReason

-----------------------------------------------------------------------------
(* A fault costs one accepted order at most.                                *)

\* A request that is over, or will be stored unless a fault touches it: nobody else can
\* take its user's lock, its one listener has what it needs.
OnItsWay(o) ==
    \/ o \notin stream
    \/ orderRow[o] # "none"
    \/ /\ (reqPc[o] = "send" /\ orderMsg[o] = "none") \/ orderMsg[o] \in {"buffered", "queued"}
       /\ lockOwner[UserOf[o]] = None
       /\ \A c \in OrderConsumers : ~Handles(c, o)
    \/ /\ orderMsg[o] = "taken"
       /\ \E c \in OrderConsumers :
             /\ Handles(c, o) /\ \A d \in OrderConsumers : Handles(d, o) => d = c
             /\ cPc[c] # "end" => lockOwner[UserOf[o]] = c
             /\ cPc[c] \in {"unlock", "end"} => tx[c] = "ordered"

AtRisk == {o \in OrderIds : ~OnItsWay(o)}

\* Only who was accepted is locked.
LockedInv == \A u \in Users : lockOwner[u] # None => \E o \in stream : UserOf[o] = u

\* A message is sent by the request it is about, and handled after it was sent.
SentInv ==
    /\ \A o \in OrderIds : reqPc[o] \in {"start", "send"} => orderMsg[o] = "none"
    /\ \A c \in OrderConsumers, o \in OrderIds : Handles(c, o) => orderMsg[o] # "none"

\* As long as Redis has forgotten nothing.
RiskInv ==
    faults = 0 \/ ~RedisForgets =>
       AcceptInv /\ LockedInv /\ Cardinality(AtRisk) <= faults

\* A user has one accepted order.
LEMMA OneAccepted ==
    ASSUME RoomForAll, AcceptInv, NEW o \in stream, NEW q \in stream, stream \subseteq OrderIds,
           UserOf[o] = UserOf[q]
    PROVE  o = q
  BY DEF RoomForAll, AcceptInv, SamePurchase

\* What leaves an order, its lock and its listeners alone leaves it on its way.
LEMMA StaysOnItsWay ==
    ASSUME NEW o \in OrderIds, OnItsWay(o),
           o \in stream' => o \in stream,
           orderRow[o] # "none" => orderRow'[o] # "none",
           reqPc[o] = "send" /\ orderMsg[o] = "none" =>
              (reqPc'[o] = "send" /\ orderMsg'[o] = "none") \/ orderMsg'[o] = "buffered",
           orderMsg[o] \in {"buffered", "queued"} => orderMsg'[o] \in {"buffered", "queued"},
           orderMsg[o] = "taken" => orderMsg'[o] = "taken",
           o \in stream => \/ lockOwner'[UserOf[o]] = lockOwner[UserOf[o]]
                          \/ lockOwner[UserOf[o]] = Orphan,
           \A c \in OrderConsumers :
              /\ Handles(c, o)' <=> Handles(c, o)
              /\ Handles(c, o) => cPc'[c] = cPc[c] /\ tx'[c] = tx[c]
    PROVE  OnItsWay(o)'
<1> USE NobodyAssumption DEF Consumers
<1>1. CASE o \notin stream \/ orderRow[o] # "none"
  BY <1>1 DEF OnItsWay
<1>2. CASE /\ o \in stream
           /\ (reqPc[o] = "send" /\ orderMsg[o] = "none") \/ orderMsg[o] \in {"buffered", "queued"}
           /\ lockOwner[UserOf[o]] = None
           /\ \A c \in OrderConsumers : ~Handles(c, o)
  BY <1>2 DEF OnItsWay
<1>3. ASSUME o \in stream, orderMsg[o] = "taken",
             NEW c \in OrderConsumers, Handles(c, o),
             \A d \in OrderConsumers : Handles(d, o) => d = c,
             cPc[c] # "end" => lockOwner[UserOf[o]] = c,
             cPc[c] \in {"unlock", "end"} => tx[c] = "ordered"
      PROVE  OnItsWay(o)'
  BY <1>3 DEF OnItsWay
<1> QED
  BY <1>1, <1>2, <1>3 DEF OnItsWay

LEMMA SentStep ==
    ASSUME TypeOK, ListenerInv, SentInv, [Next]_vars
    PROVE  SentInv'
<1> USE ConsumersDisjoint
<1>0. /\ reqPc \in [OrderIds -> ReqSteps] /\ orderMsg \in [OrderIds -> MsgStates]
      /\ cPc \in [Consumers -> ConsSteps] /\ cMsg \in [Consumers -> OrderIds \cup {None}]
      /\ OrderConsumers \subseteq Consumers /\ CancelConsumers \subseteq Consumers
      /\ \A c \in Consumers : cPc[c] # "idle" => cMsg[c] \in OrderIds
      /\ \A c \in OrderConsumers : cPc[c] # "idle" => orderMsg[cMsg[c]] # "none"
  BY DEF TypeOK, Consumers, ListenerInv, CreatorOK, CancellerOK, SentInv, Handles
<1>1. ASSUME \A o \in OrderIds : reqPc'[o] \in {"start", "send"} => reqPc[o] \in {"start", "send"},
             \A o \in OrderIds : orderMsg'[o] = "none" <=> orderMsg[o] = "none",
             \A c \in OrderConsumers, o \in OrderIds :
                Handles(c, o)' => Handles(c, o) \/ orderMsg[o] # "none"
      PROVE  SentInv'
  BY <1>1 DEF SentInv
<1>2. ASSUME UNCHANGED reqPc, \A o \in OrderIds : orderMsg'[o] = "none" <=> orderMsg[o] = "none",
             \A c \in OrderConsumers :
                cPc'[c] # "idle" => cPc[c] # "idle" /\ cMsg'[c] = cMsg[c]
      PROVE  SentInv'
  BY <1>1, <1>2 DEF Handles
<1>3. ASSUME NEW o \in OrderIds,
             LuaSoldOut(o) \/ LuaRepeat(o) \/ LuaAccept(o) \/ RegisterDelayTask(o) \/ RequestFails(o)
      PROVE  SentInv'
  <2>1. UNCHANGED <<orderMsg, cPc, cMsg>>
    BY <1>3 DEF LuaSoldOut, LuaRepeat, LuaAccept, RegisterDelayTask, RequestFails, consVars
  <2>2. \A q \in OrderIds : reqPc'[q] \in {"start", "send"} => reqPc[q] \in {"start", "send"}
    BY <1>0, <1>3 DEF LuaSoldOut, LuaRepeat, LuaAccept, RegisterDelayTask, RequestFails
  <2> QED
    BY <1>1, <2>1, <2>2 DEF Handles
<1>4. ASSUME NEW o \in OrderIds, SendOrderMessage(o) PROVE SentInv'
  BY <1>0, <1>4 DEF SendOrderMessage, SentInv, Handles, consVars
<1>5. ASSUME NEW o \in OrderIds, BrokerAppend(o) \/ SendLost(o) \/ OffsetCommit(o) \/ Redeliver(o)
      PROVE  SentInv'
  <2>1. UNCHANGED <<reqPc, cPc, cMsg>>
    BY <1>5 DEF BrokerAppend, SendLost, OffsetCommit, Redeliver, consVars
  <2>2. \A q \in OrderIds : orderMsg'[q] = "none" <=> orderMsg[q] = "none"
    BY <1>0, <1>5 DEF BrokerAppend, SendLost, OffsetCommit, Redeliver
  <2> QED
    BY <1>2, <2>1, <2>2
<1>6. ASSUME NEW c \in OrderConsumers, NEW o \in OrderIds, TryLock(c, o) PROVE SentInv'
  <2>1. /\ UNCHANGED reqPc /\ orderMsg[o] = "queued"
        /\ \A q \in OrderIds : orderMsg'[q] = "none" <=> orderMsg[q] = "none"
        /\ \A d \in OrderConsumers : d # c => cPc'[d] = cPc[d] /\ cMsg'[d] = cMsg[d]
        /\ cPc'[c] # "idle" => cMsg'[c] = o
    BY <1>0, <1>6 DEF TryLock, Goto
  <2> QED
    BY <1>1, <2>1 DEF Handles
<1>7. ASSUME NEW c \in OrderConsumers,
             CheckCount(c) \/ DeductStock(c) \/ SaveOrder(c) \/ Unlock(c) \/ CreateThrows(c)
      PROVE  SentInv'
  <2>1. UNCHANGED <<reqPc, orderMsg, cMsg>> /\ cPc[c] # "idle"
    BY <1>7 DEF CheckCount, DeductStock, SaveOrder, Unlock, CreateThrows
  <2>2. \A d \in OrderConsumers : d # c => cPc'[d] = cPc[d]
    BY <1>0, <1>7 DEF CheckCount, DeductStock, SaveOrder, Unlock, CreateThrows, Goto
  <2> QED
    BY <1>2, <2>1, <2>2
<1>8. ASSUME NEW c \in Consumers,
             \/ CommitCreate(c) \/ CommitCancel(c) \/ EndWithoutEffect(c)
             \/ Rebalance(c) \/ ConsumerCrash(c)
      PROVE  SentInv'
  <2>1. UNCHANGED reqPc /\ cPc[c] # "idle" /\ cMsg[c] \in OrderIds
    BY <1>0, <1>8 DEF CommitCreate, CommitCancel, EndWithoutEffect, Rebalance, ConsumerCrash
  <2>2. \/ UNCHANGED orderMsg
        \/ /\ c \in OrderConsumers
           /\ \E s \in {"processed", "queued"} : orderMsg' = [orderMsg EXCEPT ![cMsg[c]] = s]
    BY <1>8
       DEF CommitCreate, CommitCancel, EndWithoutEffect, Rebalance, ConsumerCrash, Finish, SetMsg
  <2>3. \A o \in OrderIds : orderMsg'[o] = "none" <=> orderMsg[o] = "none"
    BY <1>0, <2>1, <2>2
  <2>4. \A d \in OrderConsumers : cPc'[d] # "idle" => cPc[d] # "idle" /\ cMsg'[d] = cMsg[d]
    BY <1>0, <1>8
       DEF CommitCreate, CommitCancel, EndWithoutEffect, Rebalance, ConsumerCrash, Finish, Goto,
           consVars
  <2> QED
    BY <1>2, <2>1, <2>3, <2>4
<1>9. ASSUME NEW k \in CancelConsumers,
             \/ \E o \in OrderIds : ReadOrder(k, o)
             \/ MarkCancelled(k) \/ IncrRedisStock(k) \/ RestoreDbStock(k) \/ CancelThrows(k)
      PROVE  SentInv'
  <2>1. UNCHANGED <<reqPc, orderMsg>>
    BY <1>9 DEF ReadOrder, MarkCancelled, IncrRedisStock, RestoreDbStock, CancelThrows
  <2>2. \A d \in OrderConsumers : cPc'[d] = cPc[d] /\ cMsg'[d] = cMsg[d]
    BY <1>0, <1>9 DEF ReadOrder, MarkCancelled, IncrRedisStock, RestoreDbStock, CancelThrows, Goto
  <2> QED
    BY <1>2, <2>1, <2>2
<1>10. ASSUME NEW c \in OrderConsumers, NEW k \in CancelConsumers, BreakDeadlock(c, k) PROVE SentInv'
  <2>1. UNCHANGED <<reqPc, orderMsg, cMsg>> /\ cPc[c] # "idle"
    BY <1>10 DEF BreakDeadlock
  <2>2. \A d \in OrderConsumers : d # c => cPc'[d] = cPc[d]
    BY <1>0, <1>10 DEF BreakDeadlock, Goto
  <2> QED
    BY <1>2, <2>1, <2>2
<1>11. CASE UNCHANGED <<reqPc, orderMsg, cPc, cMsg>>
  BY <1>2, <1>11
<1>12. \/ UNCHANGED <<reqPc, orderMsg, cPc, cMsg>>
       \/ \E o \in OrderIds :
             \/ LuaSoldOut(o) \/ LuaRepeat(o) \/ LuaAccept(o) \/ SendOrderMessage(o)
             \/ RegisterDelayTask(o) \/ RequestFails(o) \/ BrokerAppend(o) \/ SendLost(o)
             \/ OffsetCommit(o) \/ Redeliver(o)
       \/ \E c \in OrderConsumers : CreateStep(c) \/ CreateThrows(c)
       \/ \E k \in CancelConsumers : CancelStep(k) \/ CancelThrows(k)
       \/ \E c \in Consumers : Rebalance(c) \/ ConsumerCrash(c)
       \/ \E c \in OrderConsumers, k \in CancelConsumers : BreakDeadlock(c, k)
  BY DEF Next, RequestStep, Pay, PreheatSeckill, RedisSavesSnapshot, RedisRestoresSnapshot,
         PollerStep, PollExpiredTasks, RemoveTask, SendOrderCancelMessage, PollerFails,
         OrphanLockExpires, HeldLockExpires, vars, consVars
<1> QED
  BY <1>0, <1>3, <1>4, <1>5, <1>6, <1>7, <1>8, <1>9, <1>10, <1>11, <1>12 DEF CreateStep, CancelStep

LEMMA LockedStep ==
    ASSUME TypeOK, AcceptInv, LockedInv, ~RedisRestoresSnapshot, [Next]_vars
    PROVE  LockedInv'
<1> USE NobodyAssumption, UserOfType
<1>0. lockOwner \in [Users -> OrderConsumers \cup {None, Orphan}]
  BY DEF TypeOK
<1>1. ASSUME stream \subseteq stream',
             \A u \in Users : lockOwner'[u] \in {None, lockOwner[u]} \/ lockOwner[u] # None
      PROVE  LockedInv'
  BY <1>1 DEF LockedInv
<1>2. ASSUME NEW c \in OrderConsumers, NEW o \in OrderIds, TryLock(c, o) PROVE LockedInv'
  <2>1. o \in stream /\ UNCHANGED stream
    BY <1>2 DEF TryLock, AcceptInv, redisVars
  <2>2. \A u \in Users : lockOwner'[u] = lockOwner[u] \/ u = UserOf[o]
    BY <1>0, <1>2 DEF TryLock
  <2> QED
    BY <2>1, <2>2 DEF LockedInv
<1>3. ASSUME NEW c \in Consumers, ConsumerCrash(c) PROVE LockedInv'
  BY <1>1, <1>3 DEF ConsumerCrash, redisVars, Consumers
<1>4. ASSUME NEW c \in OrderConsumers, Unlock(c) PROVE LockedInv'
  BY <1>0, <1>1, <1>4 DEF Unlock, redisVars
<1>5. ASSUME NEW u \in Users, OrphanLockExpires(u) \/ HeldLockExpires(u) PROVE LockedInv'
  BY <1>0, <1>1, <1>5 DEF OrphanLockExpires, HeldLockExpires, redisVars
<1>6. CASE UNCHANGED lockOwner /\ stream \subseteq stream'
  BY <1>1, <1>6
<1>7. \/ UNCHANGED lockOwner /\ stream \subseteq stream'
      \/ \E c \in OrderConsumers, o \in OrderIds : TryLock(c, o)
      \/ \E c \in OrderConsumers : Unlock(c)
      \/ \E c \in Consumers : ConsumerCrash(c)
      \/ \E u \in Users : OrphanLockExpires(u) \/ HeldLockExpires(u)
  BY DEF Next, LuaSoldOut, LuaRepeat, LuaAccept, RequestStep, SendOrderMessage,
         RegisterDelayTask, RequestFails, BrokerAppend, SendLost, OffsetCommit, Redeliver, Pay,
         PreheatSeckill, RedisSavesSnapshot, PollerStep, PollExpiredTasks, RemoveTask,
         SendOrderCancelMessage, PollerFails, Rebalance, CreateStep, CheckCount, DeductStock,
         SaveOrder, CommitCreate, EndWithoutEffect, CancelStep, ReadOrder, MarkCancelled,
         IncrRedisStock, RestoreDbStock, CommitCancel, CreateThrows, CancelThrows,
         BreakDeadlock, vars, redisVars
<1> QED
  BY <1>2, <1>3, <1>4, <1>5, <1>6, <1>7

\* What a listener's step on the order z leaves alone.
Touches(c, z) ==
    /\ UNCHANGED <<reqPc, stream>>
    /\ \A o \in OrderIds : o # z => orderMsg'[o] = orderMsg[o]
    /\ \A u \in Users : u # UserOf[z] => lockOwner'[u] = lockOwner[u]
    /\ \A d \in OrderConsumers : d # c => cPc'[d] = cPc[d] /\ cMsg'[d] = cMsg[d] /\ tx'[d] = tx[d]
    /\ cPc[c] # "idle" => cMsg[c] = z
    /\ cPc'[c] # "idle" => cMsg'[c] = z

\* Orders of other users stay on their way, and another order of z's user there is not.
LEMMA OthersStay ==
    ASSUME RoomForAll, TypeOK, ListenerInv, AcceptInv, [Next]_vars,
           NEW z \in stream, NEW c \in OrderConsumers, Touches(c, z),
           NEW o \in OrderIds, o # z, OnItsWay(o)
    PROVE  OnItsWay(o)'
<1>1. orderRow[o] # "none" => orderRow'[o] # "none"
  BY RowsGoOn
<1>2. o \in stream => lockOwner'[UserOf[o]] = lockOwner[UserOf[o]]
  <2> SUFFICES ASSUME o \in stream PROVE lockOwner'[UserOf[o]] = lockOwner[UserOf[o]]
    OBVIOUS
  <2>1. UserOf[o] # UserOf[z]
    BY OneAccepted DEF TypeOK
  <2> QED
    BY <2>1, UserOfType DEF Touches
<1>3. \A d \in OrderConsumers :
         /\ Handles(d, o)' <=> Handles(d, o)
         /\ Handles(d, o) => cPc'[d] = cPc[d] /\ tx'[d] = tx[d]
  BY DEF Touches, Handles
<1> QED
  BY <1>1, <1>2, <1>3, StaysOnItsWay DEF Touches

\* An order on its way with a listener and no row yet.
LEMMA InGoodHands ==
    ASSUME NEW o \in stream, NEW c \in OrderConsumers, OnItsWay(o), Handles(c, o),
           orderRow[o] = "none"
    PROVE  /\ orderMsg[o] = "taken"
           /\ \A d \in OrderConsumers : Handles(d, o) => d = c
           /\ cPc[c] # "end" => lockOwner[UserOf[o]] = c
           /\ cPc[c] \in {"unlock", "end"} => tx[c] = "ordered"
  BY DEF OnItsWay

LEMMA StaysInGoodHands ==
    ASSUME NEW o \in OrderIds, NEW c \in OrderConsumers, orderMsg'[o] = "taken",
           \A d \in OrderConsumers : Handles(d, o)' <=> d = c,
           cPc'[c] # "end" => lockOwner'[UserOf[o]] = c,
           cPc'[c] \in {"unlock", "end"} => tx'[c] = "ordered"
    PROVE  OnItsWay(o)'
  BY DEF OnItsWay

\* A listener that nothing disturbs keeps its order on its way.
LEMMA CreateKeeps ==
    ASSUME RoomForAll, TypeOK, ListenerInv, AcceptInv, StockConserved, [Next]_vars,
           NEW c \in OrderConsumers, CreateStep(c),
           NEW o \in OrderIds, OnItsWay(o)
    PROVE  OnItsWay(o)'
<1> USE ConsumersDisjoint
<1>0. /\ cPc \in [Consumers -> ConsSteps] /\ tx \in [Consumers -> TxStates]
      /\ cMsg \in [Consumers -> OrderIds \cup {None}] /\ orderRow \in [OrderIds -> RowStates]
      /\ orderMsg \in [OrderIds -> MsgStates] /\ stream \subseteq OrderIds
      /\ lockOwner \in [Users -> OrderConsumers \cup {None, Orphan}]
      /\ OrderConsumers \subseteq Consumers /\ CancelConsumers \subseteq Consumers
      /\ UserOf \in [OrderIds -> Users] /\ dbStock \in [Vouchers -> Nat]
  BY UserOfType DEF TypeOK, Consumers
<1>1. ASSUME orderRow[o] # "none" PROVE OnItsWay(o)'
  BY <1>1, RowsGoOn DEF OnItsWay
<1>2. ASSUME NEW z \in OrderIds, TryLock(c, z) PROVE OnItsWay(o)'
  <2>1. z \in stream /\ Touches(c, z)
    BY <1>0, <1>2 DEF TryLock, Touches, Goto, AcceptInv, redisVars
  <2>2. CASE o = z /\ orderRow[o] = "none"
    <3>1. orderMsg[o] = "queued" /\ cPc[c] = "idle"
      BY <1>2, <2>2 DEF TryLock
    <3>2. lockOwner[UserOf[o]] = None /\ \A d \in OrderConsumers : ~Handles(d, o)
      BY <2>1, <2>2, <3>1 DEF OnItsWay
    <3>3. /\ lockOwner' = [lockOwner EXCEPT ![UserOf[o]] = c]
          /\ cMsg' = [cMsg EXCEPT ![c] = o] /\ cPc' = [cPc EXCEPT ![c] = "count"]
          /\ orderMsg' = [orderMsg EXCEPT ![o] = "taken"]
      BY <1>2, <2>2, <3>2 DEF TryLock, Goto
    <3>4. \A d \in OrderConsumers : Handles(d, o)' <=> d = c
      BY <1>0, <3>2, <3>3 DEF Handles
    <3>5. orderMsg'[o] = "taken" /\ lockOwner'[UserOf[o]] = c /\ cPc'[c] = "count"
      BY <1>0, <3>3
    <3> QED
      BY <3>4, <3>5, StaysInGoodHands
  <2> QED
    BY <1>1, <2>1, <2>2, OthersStay
<1>3. ASSUME \A z \in OrderIds : ~TryLock(c, z) PROVE OnItsWay(o)'
  <2>1. cPc[c] # "idle"
    BY <1>3
       DEF CreateStep, CheckCount, DeductStock, SaveOrder, Unlock, CommitCreate, EndWithoutEffect
  <2>2. PICK z \in stream : z = cMsg[c]
    BY <2>1 DEF AcceptInv
  <2>3. Touches(c, z)
    <3>1. CASE CheckCount(c) \/ DeductStock(c) \/ SaveOrder(c)
      BY <1>0, <2>2, <3>1 DEF CheckCount, DeductStock, SaveOrder, Touches, Goto, redisVars
    <3>2. CASE Unlock(c)
      BY <1>0, <2>2, <3>2 DEF Unlock, Touches, Goto, redisVars
    <3>3. CASE CommitCreate(c) \/ EndWithoutEffect(c)
      BY <1>0, <2>2, <3>3 DEF CommitCreate, EndWithoutEffect, Touches, Finish, SetMsg, Goto, redisVars
    <3> QED
      BY <1>3, <3>1, <3>2, <3>3 DEF CreateStep
  <2>4. ASSUME o = z, orderRow[o] = "none" PROVE OnItsWay(o)'
    <3>1. /\ o \in stream /\ Handles(c, o) /\ orderMsg[o] = "taken"
          /\ \A d \in OrderConsumers : Handles(d, o) <=> d = c
          /\ cPc[c] # "end" => lockOwner[UserOf[o]] = c
          /\ cPc[c] \in {"unlock", "end"} => tx[c] = "ordered"
      BY <2>1, <2>2, <2>4, InGoodHands DEF Handles
    <3>2. ASSUME UNCHANGED <<cMsg, orderMsg>>, cPc'[c] # "idle",
                 \A d \in OrderConsumers : d # c => cPc'[d] = cPc[d],
                 cPc'[c] # "end" => lockOwner'[UserOf[o]] = c,
                 cPc'[c] \in {"unlock", "end"} => tx'[c] = "ordered"
          PROVE  OnItsWay(o)'
      BY <3>1, <3>2, StaysInGoodHands DEF Handles
    <3>3. CASE CheckCount(c)
      <4>1. ~AlreadyOrdered(o)
        BY <2>4, <3>1 DEF AlreadyOrdered, AcceptInv
      <4> QED
        BY <1>0, <2>2, <2>4, <3>1, <3>2, <3>3, <4>1 DEF CheckCount, Goto
    <3>4. CASE DeductStock(c)
      <4>1. dbStock[VoucherOf[o]] > 0
        BY <2>4, <3>1, AUnitIsLeft
      <4> QED
        BY <1>0, <2>2, <2>4, <3>1, <3>2, <3>4, <4>1 DEF DeductStock, Goto
    <3>5. CASE SaveOrder(c)
      BY <1>0, <2>2, <2>4, <3>1, <3>2, <3>5 DEF SaveOrder, Goto
    <3>6. CASE Unlock(c)
      BY <1>0, <2>2, <2>4, <3>1, <3>2, <3>6 DEF Unlock, Goto
    <3>7. CASE CommitCreate(c)
      <4>1. orderRow'[o] = "unpaid"
        BY <1>0, <2>2, <2>4, <3>7 DEF CommitCreate
      <4> QED
        BY <4>1 DEF OnItsWay
    <3>8. ~EndWithoutEffect(c)
      BY <3>1 DEF EndWithoutEffect
    <3> QED
      BY <1>3, <3>3, <3>4, <3>5, <3>6, <3>7, <3>8 DEF CreateStep
  <2> QED
    BY <1>1, <2>2, <2>3, <2>4, OthersStay
<1> QED
  BY <1>2, <1>3

\* What a step takes off its way: nothing, or in a fault the order z.
CostsOne(z) == \A o \in OrderIds : OnItsWay(o) /\ ~OnItsWay(o)' => o = z /\ faults' = faults + 1

LEMMA RequestCosts ==
    ASSUME RoomForAll, TypeOK, ListenerInv, AcceptInv, LockedInv, SentInv, [Next]_vars,
           NEW z \in OrderIds,
           \/ LuaSoldOut(z) \/ LuaRepeat(z) \/ LuaAccept(z) \/ RequestStep(z) \/ RequestFails(z)
           \/ BrokerAppend(z) \/ SendLost(z) \/ OffsetCommit(z) \/ Redeliver(z) \/ Pay(z)
    PROVE  CostsOne(z)
<1>0. /\ reqPc \in [OrderIds -> ReqSteps] /\ orderMsg \in [OrderIds -> MsgStates]
      /\ stream \subseteq OrderIds /\ faults \in Nat
      /\ UserOf \in [OrderIds -> Users] /\ lockOwner \in [Users -> OrderConsumers \cup {None, Orphan}]
  BY MaxFaultsType, UserOfType DEF TypeOK
<1>1. /\ UNCHANGED <<lockOwner, cPc, cMsg, tx>>
      /\ \A o \in OrderIds : o # z => reqPc'[o] = reqPc[o] /\ orderMsg'[o] = orderMsg[o]
      /\ stream' \subseteq stream \cup {z}
  BY <1>0 DEF LuaSoldOut, LuaRepeat, LuaAccept, RequestStep, SendOrderMessage, RegisterDelayTask,
         RequestFails, BrokerAppend, SendLost, OffsetCommit, Redeliver, Pay, consVars, redisVars
<1>2. \A c \in OrderConsumers, o \in OrderIds : Handles(c, o)' <=> Handles(c, o)
  BY <1>1 DEF Handles
<1>3. ASSUME NEW o \in OrderIds, o # z, OnItsWay(o) PROVE OnItsWay(o)'
  BY <1>1, <1>2, <1>3, RowsGoOn, StaysOnItsWay
<1>4. CASE RequestFails(z) \/ SendLost(z) \/ Redeliver(z)
  <2>1. faults' = faults + 1
    BY <1>4 DEF RequestFails, SendLost, Redeliver, Fault
  <2> QED
    BY <1>3, <2>1 DEF CostsOne
<1>5. ASSUME OnItsWay(z), LuaAccept(z) PROVE OnItsWay(z)'
  <2>1. /\ reqPc[z] = "start" /\ reqPc'[z] = "send" /\ orderMsg'[z] = orderMsg[z]
        /\ UserOf[z] \notin bought[VoucherOf[z]]
    BY <1>0, <1>5 DEF LuaAccept
  <2>2. orderMsg'[z] = "none" /\ \A c \in OrderConsumers : ~Handles(c, z)'
    BY <1>2, <2>1 DEF SentInv
  <2>3. lockOwner[UserOf[z]] = None
    BY <1>0, <2>1 DEF LockedInv, RoomForAll, AcceptInv
  <2> QED
    BY <1>1, <2>1, <2>2, <2>3 DEF OnItsWay
<1>6. ASSUME OnItsWay(z), SendOrderMessage(z) PROVE OnItsWay(z)'
  <2>1. reqPc[z] = "send" /\ orderMsg'[z] = "buffered" /\ stream' = stream /\ orderMsg[z] = "none"
    BY <1>0, <1>6 DEF SendOrderMessage, redisVars, SentInv
  <2>2. \A c \in OrderConsumers : ~Handles(c, z)
    BY <2>1 DEF SentInv
  <2> QED
    BY <1>1, <1>2, <1>6, <2>1, <2>2, RowsGoOn DEF OnItsWay
<1>7. ASSUME OnItsWay(z),
             \/ LuaSoldOut(z) \/ LuaRepeat(z) \/ RegisterDelayTask(z) \/ BrokerAppend(z)
             \/ OffsetCommit(z) \/ Pay(z)
      PROVE  OnItsWay(z)'
  <2>1. /\ stream' = stream
        /\ reqPc[z] = "send" /\ orderMsg[z] = "none" => reqPc'[z] = "send" /\ orderMsg'[z] = "none"
        /\ orderMsg[z] \in {"buffered", "queued"} => orderMsg'[z] \in {"buffered", "queued"}
        /\ orderMsg[z] = "taken" => orderMsg'[z] = "taken"
    BY <1>0, <1>7
       DEF LuaSoldOut, LuaRepeat, RegisterDelayTask, BrokerAppend, OffsetCommit, Pay, redisVars
  <2> QED
    BY <1>1, <1>2, <1>7, <2>1, RowsGoOn, StaysOnItsWay
<1> QED
  BY <1>3, <1>4, <1>5, <1>6, <1>7 DEF CostsOne, RequestStep

LEMMA ListenerCosts ==
    ASSUME RoomForAll, TypeOK, ListenerInv, LockInv, AcceptInv, OwnersAreAtWork, StockConserved,
           [Next]_vars,
           \/ \E c \in OrderConsumers : CreateStep(c) \/ CreateThrows(c)
           \/ \E c \in OrderConsumers, k \in CancelConsumers : BreakDeadlock(c, k)
           \/ \E c \in OrderConsumers : Rebalance(c) \/ ConsumerCrash(c)
    PROVE  \E z : CostsOne(z)
<1> USE ConsumersDisjoint, NobodyAssumption
<1>0. /\ cPc \in [Consumers -> ConsSteps] /\ tx \in [Consumers -> TxStates]
      /\ cMsg \in [Consumers -> OrderIds \cup {None}] /\ orderMsg \in [OrderIds -> MsgStates]
      /\ lockOwner \in [Users -> OrderConsumers \cup {None, Orphan}]
      /\ OrderConsumers \subseteq Consumers /\ CancelConsumers \subseteq Consumers
      /\ UserOf \in [OrderIds -> Users] /\ stream \subseteq OrderIds
  BY UserOfType DEF TypeOK, Consumers
<1>1. ASSUME NEW c \in OrderConsumers, CreateStep(c) PROVE \E z : CostsOne(z)
  BY <1>1, CreateKeeps DEF CostsOne
<1>2. ASSUME NEW c \in OrderConsumers, CreateThrows(c) \/ Rebalance(c) \/ ConsumerCrash(c)
      PROVE  \E z : CostsOne(z)
  <2>1. cPc[c] # "idle" /\ faults' = faults + 1
    BY <1>2 DEF CreateThrows, Rebalance, ConsumerCrash, Fault
  <2>2. PICK z \in stream : z = cMsg[c]
    BY <2>1 DEF AcceptInv
  <2>3. Touches(c, z)
    <3>1. CASE CreateThrows(c)
      BY <1>0, <2>2, <3>1 DEF CreateThrows, Touches, Goto, redisVars
    <3>2. CASE Rebalance(c)
      BY <1>0, <2>2, <3>2 DEF Rebalance, Touches, SetMsg, redisVars, consVars
    <3>3. CASE ConsumerCrash(c)
      <4>1. \A u \in Users : u # UserOf[z] => lockOwner'[u] = lockOwner[u]
        BY <1>0, <2>2, <3>3 DEF ConsumerCrash, OwnersAreAtWork
      <4> QED
        BY <1>0, <2>2, <3>3, <4>1 DEF ConsumerCrash, Touches, SetMsg, Goto, redisVars
    <3> QED
      BY <1>2, <3>1, <3>2, <3>3
  <2> QED
    BY <2>1, <2>3, OthersStay DEF CostsOne
<1>3. ASSUME NEW c \in OrderConsumers, NEW k \in CancelConsumers, BreakDeadlock(c, k)
      PROVE  \E z : CostsOne(z)
  <2>1. cPc[c] = "save" /\ orderLock[cMsg[c]] = k /\ cPc[k] = "restock"
    BY <1>3 DEF BreakDeadlock
  <2>2. PICK z \in stream : z = cMsg[c]
    BY <2>1 DEF AcceptInv
  <2>3. Touches(c, z)
    BY <1>0, <1>3, <2>1, <2>2 DEF BreakDeadlock, Touches, Goto, redisVars
  <2>4. orderRow[z] = "unpaid"
    BY <1>0, <2>1, <2>2 DEF LockInv, ListenerInv, CancellerOK
  <2>5. OnItsWay(z)'
    BY <1>0, <2>4, RowsGoOn DEF OnItsWay
  <2> QED
    BY <2>3, <2>5, OthersStay DEF CostsOne
<1> QED
  BY <1>1, <1>2, <1>3

LEMMA RiskStep ==
    ASSUME RoomForAll, TypeOK, ListenerInv, LockInv, AcceptInv, OwnersAreAtWork, LockedInv,
           SentInv, StockConserved, ~RedisRestoresSnapshot, [Next]_vars
    PROVE  \E z : CostsOne(z)
<1> USE ConsumersDisjoint, NobodyAssumption
<1>0. /\ cPc \in [Consumers -> ConsSteps] /\ tx \in [Consumers -> TxStates]
      /\ cMsg \in [Consumers -> OrderIds \cup {None}] /\ orderMsg \in [OrderIds -> MsgStates]
      /\ lockOwner \in [Users -> OrderConsumers \cup {None, Orphan}]
      /\ OrderConsumers \subseteq Consumers /\ CancelConsumers \subseteq Consumers
      /\ UserOf \in [OrderIds -> Users] /\ stream \subseteq OrderIds
  BY UserOfType DEF TypeOK, Consumers
<1>1. ASSUME UNCHANGED <<reqPc, stream, orderMsg>>,
             \A u \in Users : lockOwner'[u] = lockOwner[u] \/ lockOwner[u] = Orphan,
             \A c \in OrderConsumers : cPc'[c] = cPc[c] /\ cMsg'[c] = cMsg[c] /\ tx'[c] = tx[c]
      PROVE  \E z : CostsOne(z)
  <2>1. ASSUME NEW o \in OrderIds, OnItsWay(o) PROVE OnItsWay(o)'
    <3>1. \A c \in OrderConsumers : Handles(c, o)' <=> Handles(c, o)
      BY <1>1 DEF Handles
    <3> QED
      BY <1>0, <1>1, <2>1, <3>1, RowsGoOn, StaysOnItsWay
  <2> QED
    BY <2>1 DEF CostsOne
<1>2. ASSUME NEW u \in Users, HeldLockExpires(u) PROVE \E z : CostsOne(z)
  <2>1. /\ faults' = faults + 1 /\ \A w \in Users : w # u => lockOwner'[w] = lockOwner[w]
        /\ UNCHANGED <<reqPc, stream, orderMsg, cPc, cMsg, tx>>
    BY <1>0, <1>2 DEF HeldLockExpires, Fault, consVars, redisVars
  <2>2. ASSUME NEW o \in OrderIds, OnItsWay(o), ~OnItsWay(o)' PROVE o \in stream /\ UserOf[o] = u
    <3>1. o \in stream
      BY <2>1, <2>2 DEF OnItsWay
    <3>2. \A c \in OrderConsumers : Handles(c, o)' <=> Handles(c, o)
      BY <2>1 DEF Handles
    <3> QED
      BY <1>0, <2>1, <2>2, <3>1, <3>2, RowsGoOn, StaysOnItsWay
  <2>3. \A o, q \in OrderIds :
           OnItsWay(o) /\ ~OnItsWay(o)' /\ OnItsWay(q) /\ ~OnItsWay(q)' => o = q
    BY <1>0, <2>2, OneAccepted
  <2> QED
    BY <2>1, <2>3 DEF CostsOne
<1>3. ASSUME NEW u \in Users, OrphanLockExpires(u) PROVE \E z : CostsOne(z)
  BY <1>0, <1>1, <1>3 DEF OrphanLockExpires, consVars, redisVars
<1>4. ASSUME NEW k \in CancelConsumers,
             CancelStep(k) \/ CancelThrows(k) \/ Rebalance(k) \/ ConsumerCrash(k)
      PROVE  \E z : CostsOne(z)
  <2>1. UNCHANGED <<reqPc, stream, orderMsg>>
    BY <1>0, <1>4
       DEF CancelStep, ReadOrder, MarkCancelled, IncrRedisStock, RestoreDbStock, CommitCancel,
           EndWithoutEffect, CancelThrows, Rebalance, ConsumerCrash, Finish, SetMsg, redisVars
  <2>2. \A u \in Users : lockOwner'[u] = lockOwner[u]
    BY <1>0, <1>4
       DEF CancelStep, ReadOrder, MarkCancelled, IncrRedisStock, RestoreDbStock, CommitCancel,
           EndWithoutEffect, CancelThrows, Rebalance, ConsumerCrash
  <2>3. \A c \in OrderConsumers : cPc'[c] = cPc[c] /\ cMsg'[c] = cMsg[c] /\ tx'[c] = tx[c]
    <3>1. CASE CancelStep(k) \/ CancelThrows(k)
      BY <1>0, <3>1
         DEF CancelStep, ReadOrder, MarkCancelled, IncrRedisStock, RestoreDbStock, CommitCancel,
             EndWithoutEffect, CancelThrows, Finish, Goto
    <3>2. CASE Rebalance(k) \/ ConsumerCrash(k)
      BY <1>0, <3>2 DEF Rebalance, ConsumerCrash, Goto, consVars
    <3> QED
      BY <1>4, <3>1, <3>2
  <2> QED
    BY <1>1, <2>1, <2>2, <2>3
<1>5. CASE UNCHANGED <<reqPc, stream, orderMsg, lockOwner, cPc, cMsg, tx>>
  BY <1>1, <1>5
<1>6. \/ \E o \in OrderIds :
            \/ LuaSoldOut(o) \/ LuaRepeat(o) \/ LuaAccept(o) \/ RequestStep(o) \/ RequestFails(o)
            \/ BrokerAppend(o) \/ SendLost(o) \/ OffsetCommit(o) \/ Redeliver(o) \/ Pay(o)
      \/ \E c \in OrderConsumers : CreateStep(c) \/ CreateThrows(c)
      \/ \E c \in OrderConsumers, k \in CancelConsumers : BreakDeadlock(c, k)
      \/ \E c \in OrderConsumers : Rebalance(c) \/ ConsumerCrash(c)
      \/ \E k \in CancelConsumers : CancelStep(k) \/ CancelThrows(k) \/ Rebalance(k) \/ ConsumerCrash(k)
      \/ \E u \in Users : OrphanLockExpires(u) \/ HeldLockExpires(u)
      \/ UNCHANGED <<reqPc, stream, orderMsg, lockOwner, cPc, cMsg, tx>>
  BY DEF Next, PreheatSeckill, RedisSavesSnapshot, PollerStep, PollExpiredTasks, RemoveTask,
         SendOrderCancelMessage, PollerFails, Consumers, vars, redisVars, consVars
<1> QED
  BY <1>2, <1>3, <1>4, <1>5, <1>6, RequestCosts, ListenerCosts

LEMMA FaultsGrow ==
    ASSUME TypeOK, [Next]_vars
    PROVE  faults' = faults \/ faults' = faults + 1
  BY DEF Next, LuaSoldOut, LuaRepeat, LuaAccept, RequestStep, SendOrderMessage,
         RegisterDelayTask, RequestFails, BrokerAppend, SendLost, OffsetCommit, Redeliver, Pay,
         PreheatSeckill, RedisSavesSnapshot, RedisRestoresSnapshot, PollerStep, PollExpiredTasks,
         RemoveTask, SendOrderCancelMessage, PollerFails, Rebalance, ConsumerCrash, CreateStep,
         TryLock, CheckCount, DeductStock, SaveOrder, Unlock, CommitCreate, EndWithoutEffect,
         CancelStep, ReadOrder, MarkCancelled, IncrRedisStock, RestoreDbStock, CommitCancel,
         CreateThrows, CancelThrows, BreakDeadlock, OrphanLockExpires, HeldLockExpires, Fault, vars

LEMMA RiskInvariant == ASSUME RoomForAll PROVE Spec => [](TypeOK /\ SentInv /\ RiskInv)
<1>1. Init => SentInv /\ RiskInv
  <2> SUFFICES ASSUME Init PROVE SentInv /\ RiskInv
    OBVIOUS
  <2>1. SentInv /\ AcceptInv /\ LockedInv
    BY ConsumersDisjoint DEF Init, SentInv, AcceptInv, LockedInv, Handles, Consumers
  <2>2. AtRisk = {} /\ faults = 0
    BY DEF Init, AtRisk, OnItsWay
  <2> QED
    BY <2>1, <2>2, FS_EmptySet DEF RiskInv
<1>2. ASSUME TypeOK, ListenerInv, LockInv, OwnersAreAtWork, StockConserved, SentInv, RiskInv,
             [Next]_vars, faults' = 0 \/ ~RedisForgets
      PROVE  AcceptInv' /\ LockedInv' /\ Cardinality(AtRisk') <= faults'
  <2>1. faults \in Nat /\ (faults' = faults \/ faults' = faults + 1)
    BY <1>2, FaultsGrow, MaxFaultsType DEF TypeOK
  <2>2. ~RedisRestoresSnapshot /\ (faults = 0 \/ ~RedisForgets)
    BY <1>2, <2>1 DEF RedisRestoresSnapshot, Fault
  <2>3. AcceptInv /\ LockedInv /\ Cardinality(AtRisk) <= faults
    BY <1>2, <2>2 DEF RiskInv
  <2>4. AcceptInv' /\ LockedInv'
    BY <1>2, <2>2, <2>3, AcceptStep, LockedStep
  <2>5. PICK z : CostsOne(z)
    BY <1>2, <2>2, <2>3, RiskStep
  <2>6. IsFiniteSet(AtRisk) /\ IsFiniteSet(AtRisk') /\ Cardinality(AtRisk) \in Nat
    <3>1. AtRisk \subseteq OrderIds /\ AtRisk' \subseteq OrderIds
      BY DEF AtRisk
    <3> QED
      BY <3>1, OrderIdsFinite, FS_Subset, FS_CardinalityType
  <2>7. CASE faults' = faults + 1
    <3>1. AtRisk' \subseteq AtRisk \cup {z}
      BY <2>5 DEF CostsOne, AtRisk
    <3>2. /\ IsFiniteSet(AtRisk \cup {z})
          /\ Cardinality(AtRisk \cup {z}) = Cardinality(AtRisk) \/ Cardinality(AtRisk \cup {z}) = Cardinality(AtRisk) + 1
      BY <2>6, FS_AddElement
    <3>3. Cardinality(AtRisk') <= Cardinality(AtRisk \cup {z})
      BY <3>1, <3>2, FS_Subset
    <3>4. Cardinality(AtRisk') \in Nat
      BY <2>6, FS_CardinalityType
    <3> QED
      BY <2>1, <2>3, <2>4, <2>6, <2>7, <3>2, <3>3, <3>4
  <2>8. CASE faults' = faults
    <3>1. AtRisk' \subseteq AtRisk
      BY <2>1, <2>5, <2>8 DEF CostsOne, AtRisk
    <3>2. Cardinality(AtRisk') <= Cardinality(AtRisk) /\ Cardinality(AtRisk') \in Nat
      BY <2>6, <3>1, FS_Subset, FS_CardinalityType
    <3> QED
      BY <2>1, <2>3, <2>4, <2>6, <2>8, <3>2
  <2> QED
    BY <2>1, <2>7, <2>8
<1>3. TypeOK /\ ListenerInv /\ LockInv /\ OwnersAreAtWork /\ StockConserved /\ SentInv /\ RiskInv
         /\ [Next]_vars => SentInv' /\ RiskInv'
  BY <1>2, SentStep DEF RiskInv
<1> QED
  BY <1>1, <1>3, ListenersCovered, WaitInvariant, LocksHaveOwners, StockIsConserved, PTL DEF Spec

\* With a unit for everybody and one voucher per user, whatever fails costs one accepted order
\* at most, as long as Redis keeps its data: for any number of instances, orders and faults.
THEOREM OneOrderLostPerFault ==
    ASSUME RoomForAll, ~RedisForgets PROVE Spec => []OneOrderPerFault
<1>1. ASSUME TypeOK, RiskInv PROVE OneOrderPerFault
  <2>1. Abandoned \subseteq AtRisk
    BY <1>1 DEF Abandoned, AtRisk, OnItsWay, TypeOK
  <2>2. AtRisk \subseteq OrderIds
    BY DEF AtRisk
  <2>3. IsFiniteSet(AtRisk) /\ IsFiniteSet(Abandoned)
    BY <2>1, <2>2, OrderIdsFinite, FS_Subset
  <2>4. Cardinality(Abandoned) <= Cardinality(AtRisk)
    BY <2>1, <2>3, FS_Subset
  <2>5. Cardinality(AtRisk) \in Nat /\ Cardinality(Abandoned) \in Nat /\ faults \in Nat
    BY <1>1, <2>3, FS_CardinalityType, MaxFaultsType DEF TypeOK
  <2> QED
    BY <1>1, <2>4, <2>5 DEF RiskInv, OneOrderPerFault
<1>2. TypeOK /\ SentInv /\ RiskInv => OneOrderPerFault
  BY <1>1
<1> QED
  BY <1>2, RiskInvariant, PTL

\* With a unit for everybody, and one voucher per user, no accepted order is dropped as long
\* as nothing fails: repeated requests, redundant instances and cancellations under way
\* included.
THEOREM NobodyIsDropped == ASSUME RoomForAll PROVE Spec => []AcceptedIsSaved
<1>1. ASSUME TypeOK, RiskInv PROVE AcceptedIsSaved
  <2> SUFFICES ASSUME faults = 0, NEW o \in OrderIds, orderMsg[o] \in {"processed", "committed"}
               PROVE  orderRow[o] # "none"
    BY DEF AcceptedIsSaved
  <2>1. AtRisk = {}
    <3>1. IsFiniteSet(AtRisk)
      BY OrderIdsFinite, FS_Subset DEF AtRisk
    <3> QED
      BY <1>1, <3>1, FS_CardinalityType, FS_EmptySet DEF RiskInv
  <2>2. OnItsWay(o) /\ o \in stream
    BY <1>1, <2>1 DEF AtRisk, RiskInv, AcceptInv
  <2> QED
    BY <2>2 DEF OnItsWay
<1>2. TypeOK /\ SentInv /\ RiskInv => AcceptedIsSaved
  BY <1>1
<1> QED
  BY <1>2, RiskInvariant, PTL
=============================================================================
