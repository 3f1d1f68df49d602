--------------------------- MODULE MCRateLimiter ---------------------------
(* A tenant with every ceiling, and one with a token ceiling only.         *)
EXTENDS RateLimiter, TLC

CONSTANTS t1, t2

MCTier == (t1 :> [rpm |-> 2, tpm |-> 3, concurrency |-> 1, maxTokens |-> 0])
       @@ (t2 :> [rpm |-> 0, tpm |-> 1, concurrency |-> 0, maxTokens |-> 1])

RequestSymmetry == Permutations(Requests)
============================================================================
