--------------------------- MODULE MCRatioBreaker ---------------------------
(* Instances of RatioBreaker for TLC. *)
EXTENDS RatioBreaker, TLC

PermissionSymmetry == Permutations(Permissions)
=============================================================================
