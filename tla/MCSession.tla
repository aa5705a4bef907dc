----------------------------- MODULE MCSession -----------------------------
(* An instance of Session for TLC. *)
EXTENDS Session, TLC

CONSTANTS p1, p2, b1, b2, t1, t2, k1, k2

Alike == Permutations({p1, p2}) \cup Permutations({b1, b2}) \cup Permutations({t1, t2})
             \cup Permutations({k1, k2})
=============================================================================
