-------------------------- MODULE StockLedgerProofs --------------------------
(* The atomic ledger conserves the published stock. *)
EXTENDS StockLedger, FiniteSetTheorems, TLAPS

\* The variables keep their types.
LEMMA LedgerTypeCorrect ==
    ASSUME LedgerConstants
    PROVE  LedgerSpec => []LedgerTypeOK
<1> USE DEF LedgerConstants
<1>1. LedgerInit => LedgerTypeOK
  BY DEF LedgerInit, LedgerTypeOK, RowStates
<1>2. LedgerTypeOK /\ [LedgerNext]_ledgerVars => LedgerTypeOK'
  <2> SUFFICES ASSUME LedgerTypeOK, [LedgerNext]_ledgerVars PROVE LedgerTypeOK'
    OBVIOUS
  <2> USE DEF LedgerTypeOK, RowStates
  <2>1. ASSUME NEW o \in OrderIds, LedgerCreate(o) PROVE LedgerTypeOK'
    BY <2>1 DEF LedgerCreate
  <2>2. ASSUME NEW o \in OrderIds, LedgerCancel(o) PROVE LedgerTypeOK'
    BY <2>2 DEF LedgerCancel
  <2>3. ASSUME NEW o \in OrderIds, LedgerPay(o) PROVE LedgerTypeOK'
    BY <2>3 DEF LedgerPay
  <2>4. CASE UNCHANGED ledgerVars
    BY <2>4 DEF ledgerVars
  <2> QED BY <2>1, <2>2, <2>3, <2>4 DEF LedgerNext
<1> QED BY <1>1, <1>2, PTL DEF LedgerSpec

\* Counting facts about the orders that hold a unit.
LEMMA HoldingFinite ==
    ASSUME LedgerConstants, NEW v \in Vouchers
    PROVE  IsFiniteSet(Holding(v)) /\ Cardinality(Holding(v)) \in Nat
<1>1. Holding(v) \subseteq OrderIds
  BY DEF Holding
<1> QED BY <1>1, FS_Subset, FS_CardinalityType DEF LedgerConstants

\* One step of the ledger moves units between the stock and the live orders,
\* and neither makes nor loses any: the step every refinement of it relies on.
LEMMA LedgerStepConserves ==
    ASSUME LedgerConstants, LedgerTypeOK, StockConserved, [LedgerNext]_ledgerVars
    PROVE  StockConserved'
<1> SUFFICES ASSUME NEW v \in Vouchers
             PROVE  stock'[v] + Cardinality(Holding(v)') = InitStock[v]
  BY DEF StockConserved
<1>0. stock[v] + Cardinality(Holding(v)) = InitStock[v]
  BY DEF StockConserved
<1>t. /\ stock[v] \in Nat /\ InitStock[v] \in Nat
      /\ IsFiniteSet(Holding(v)) /\ Cardinality(Holding(v)) \in Nat
  BY HoldingFinite DEF LedgerTypeOK, LedgerConstants
<1>1. ASSUME NEW o \in OrderIds, LedgerCreate(o), VoucherOf[o] = v
      PROVE  stock'[v] + Cardinality(Holding(v)') = InitStock[v]
  <2>1. Holding(v)' = Holding(v) \cup {o} /\ o \notin Holding(v)
    BY <1>1 DEF LedgerCreate, Holding, LedgerTypeOK
  <2>2. Cardinality(Holding(v)') = Cardinality(Holding(v)) + 1
    BY <2>1, <1>t, FS_AddElement
  <2>3. stock'[v] = stock[v] - 1
    BY <1>1 DEF LedgerCreate, LedgerTypeOK
  <2> QED BY <2>2, <2>3, <1>0, <1>t
<1>2. ASSUME NEW o \in OrderIds, LedgerCancel(o), VoucherOf[o] = v
      PROVE  stock'[v] + Cardinality(Holding(v)') = InitStock[v]
  <2>1. Holding(v)' = Holding(v) \ {o} /\ o \in Holding(v)
    BY <1>2 DEF LedgerCancel, Holding, LedgerTypeOK
  <2>2. Cardinality(Holding(v)') = Cardinality(Holding(v)) - 1
    BY <2>1, <1>t, FS_RemoveElement
  <2>3. stock'[v] = stock[v] + 1
    BY <1>2 DEF LedgerCancel, LedgerTypeOK
  <2> QED BY <2>2, <2>3, <1>0, <1>t
<1>3. ASSUME NEW o \in OrderIds, LedgerCreate(o) \/ LedgerCancel(o), VoucherOf[o] # v
      PROVE  stock'[v] + Cardinality(Holding(v)') = InitStock[v]
  <2>1. Holding(v)' = Holding(v) /\ stock'[v] = stock[v]
    BY <1>3 DEF LedgerCreate, LedgerCancel, Holding, LedgerTypeOK
  <2> QED BY <2>1, <1>0
<1>4. ASSUME NEW o \in OrderIds, LedgerPay(o)
      PROVE  stock'[v] + Cardinality(Holding(v)') = InitStock[v]
  <2>1. Holding(v)' = Holding(v) /\ stock'[v] = stock[v]
    BY <1>4 DEF LedgerPay, Holding, LedgerTypeOK
  <2> QED BY <2>1, <1>0
<1>5. CASE UNCHANGED ledgerVars
  BY <1>5, <1>0 DEF ledgerVars, Holding
<1> QED BY <1>1, <1>2, <1>3, <1>4, <1>5 DEF LedgerNext

LEMMA LedgerInitConserves ==
    ASSUME LedgerConstants
    PROVE  LedgerInit => StockConserved
<1> SUFFICES ASSUME LedgerInit, NEW v \in Vouchers
             PROVE  stock[v] + Cardinality(Holding(v)) = InitStock[v]
  BY DEF StockConserved
<1>1. Holding(v) = {}
  BY DEF LedgerInit, Holding
<1> QED BY <1>1, FS_EmptySet DEF LedgerInit, LedgerConstants

\* In the atomic ledger stock + live orders = published stock, for any number of
\* orders and vouchers.
THEOREM LedgerConserves ==
    ASSUME LedgerConstants
    PROVE  LedgerSpec => []StockConserved
<1>1. LedgerTypeOK /\ StockConserved /\ [LedgerNext]_ledgerVars => StockConserved'
  BY LedgerStepConserves
<1> QED BY <1>1, LedgerInitConserves, LedgerTypeCorrect, PTL DEF LedgerSpec
=============================================================================
