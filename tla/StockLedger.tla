----------------------------- MODULE StockLedger -----------------------------
(***************************************************************************)
(* What the flash-sale part of the database promises, with every           *)
(* transaction a single step: the stock column of tb_seckill_voucher and   *)
(* the rows of tb_voucher_order, one per order id.  Seckill implements it. *)
(***************************************************************************)
EXTENDS Integers, FiniteSets

CONSTANTS
    OrderIds,    \* ids handed out by RedisIdWorker, one per request
    Vouchers,    \* flash-sale vouchers
    VoucherOf,   \* [OrderIds -> Vouchers]: what was asked for
    InitStock    \* [Vouchers -> Nat]: the published stock

\* What an instance owes (Seckill assumes the same of its constants).
LedgerConstants ==
    /\ IsFiniteSet(OrderIds)
    /\ VoucherOf \in [OrderIds -> Vouchers]
    /\ InitStock \in [Vouchers -> Nat]

VARIABLES
    stock,   \* tb_seckill_voucher.stock
    row      \* tb_voucher_order.status, "none" while there is no row

ledgerVars == <<stock, row>>

RowStates == {"none", "unpaid", "paid", "cancelled"}

\* The types of the two columns; the stock never goes below zero.
LedgerTypeOK ==
    /\ stock \in [Vouchers -> Nat]
    /\ row \in [OrderIds -> RowStates]

LedgerInit ==
    /\ stock = InitStock
    /\ row = [o \in OrderIds |-> "none"]

\* createVoucherOrder as one transaction: one unit leaves the stock, one row appears.
LedgerCreate(o) ==
    /\ row[o] = "none"
    /\ stock[VoucherOf[o]] > 0
    /\ stock' = [stock EXCEPT ![VoucherOf[o]] = @ - 1]
    /\ row' = [row EXCEPT ![o] = "unpaid"]

\* cancelVoucherOrder as one transaction: an unpaid row is closed, its unit goes back.
LedgerCancel(o) ==
    /\ row[o] = "unpaid"
    /\ stock' = [stock EXCEPT ![VoucherOf[o]] = @ + 1]
    /\ row' = [row EXCEPT ![o] = "cancelled"]

\* The payment the status column foresees (no code in the repository performs it).
LedgerPay(o) ==
    /\ row[o] = "unpaid"
    /\ row' = [row EXCEPT ![o] = "paid"]
    /\ UNCHANGED stock

LedgerNext == \E o \in OrderIds : LedgerCreate(o) \/ LedgerCancel(o) \/ LedgerPay(o)

LedgerSpec == LedgerInit /\ [][LedgerNext]_ledgerVars

-----------------------------------------------------------------------------
\* The orders that hold a unit of v.
Holding(v) == {o \in OrderIds : VoucherOf[o] = v /\ row[o] \in {"unpaid", "paid"}}

\* Every unit of the published stock is either still for sale or held by
\* exactly one live order: nothing is oversold, lost or returned twice.
StockConserved ==
    \A v \in Vouchers : stock[v] + Cardinality(Holding(v)) = InitStock[v]
=============================================================================
