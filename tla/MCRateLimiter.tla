---------------------------- MODULE MCRateLimiter ----------------------------
(* One user with three requests, a second one behind the same address.        *)
EXTENDS RateLimiter, TLC

CONSTANTS q1, q2, q3, q4

Users == (q1 :> "u1") @@ (q2 :> "u1") @@ (q3 :> "u1") @@ (q4 :> "u2")
OneIp == [r \in {q1, q2, q3, q4} |-> "ip1"]
Interchangeable == Permutations({q1, q2, q3})
=============================================================================
