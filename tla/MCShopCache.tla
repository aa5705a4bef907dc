----------------------------- MODULE MCShopCache -----------------------------
(* Two instances; every update comes from the first.                         *)
EXTENDS ShopCache, TLC

CONSTANTS i1, i2, r1, r2, w1, k2

InstanceOfThread == (r1 :> i1) @@ (r2 :> i2) @@ (w1 :> i1) @@ (k2 :> i2)
=============================================================================
