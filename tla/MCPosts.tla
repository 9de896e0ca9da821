----------------------------------- MODULE MCPosts -----------------------------------
(* Small instances of Posts for TLC. *)
EXTENDS Posts, TLC

Symmetry == Permutations(Users) \cup Permutations(Callers)
=============================================================================
