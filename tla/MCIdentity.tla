----------------------------- MODULE MCIdentity ----------------------------
(* A document that inherits, and one that names everything and denies a    *)
(* model.                                                                  *)
EXTENDS Identity

CONSTANTS m1, m2

MCBase == [allow |-> {m1}, deny |-> {}]
MCDocuments == {None, [allow |-> {Wild}, deny |-> {m1}]}

Symmetry == Permutations(Keys) \cup Permutations(Workers) \cup Permutations(Admins)
============================================================================
