--------------------------- MODULE MCSlowBreaker ---------------------------
(* Instances of SlowBreaker for TLC. *)
EXTENDS SlowBreaker, TLC

CallSymmetry == Permutations(Calls)
=============================================================================
