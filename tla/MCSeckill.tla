------------------------------ MODULE MCSeckill ------------------------------
(* Instances of Seckill for TLC. *)
EXTENDS Seckill, TLC

CONSTANTS o1, o2, o3, u1, u2, v1, v2

\* o1 and o2 are two requests of one user, o3 is a rival's.
RivalUsers == [o \in OrderIds |-> IF o = o3 THEN u2 ELSE u1]
OneUser == [o \in OrderIds |-> u1]

\* Everybody after the same voucher, or o2 after another one.
OneVoucher == [o \in OrderIds |-> v1]
TwoVouchers == [o \in OrderIds |-> IF o = o2 THEN v2 ELSE v1]

OneUnit == [v \in Vouchers |-> 1]
TwoUnits == [v \in Vouchers |-> 2]

\* Instances of the service, and the two requests of one user, are interchangeable (used
\* by safety runs only).
Replicas == Permutations(OrderConsumers) \cup Permutations(Pollers)
Alike == Replicas \cup Permutations({o1, o2})
=============================================================================
