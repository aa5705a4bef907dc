--------------------------- MODULE MCRedisIdWorker ---------------------------
(* Four interchangeable calls around midnight and one restart of Redis.     *)
EXTENDS RedisIdWorker, TLC

CONSTANTS q1, q2, q3, q4

Interchangeable == Permutations({q1, q2, q3, q4})
=============================================================================
