--------------------------- MODULE MCTokenBucket ---------------------------
(* A bucket with all it can have: costs from one token to the capacity, a   *)
(* rolling limit of two, a second of two ticks, timers a tick early.        *)
EXTENDS TokenBucket

CONSTANTS r1, r2, r3

MCRequests == {r1, r2, r3}
Batches == [r \in MCRequests |-> CASE r = r1 -> 1 [] r = r2 -> 2 [] r = r3 -> 3]
=============================================================================
