----------------------------------- MODULE MCChat -----------------------------------
(* Small instances of Chat for TLC. *)
EXTENDS Chat, TLC

CONSTANTS alice, bob, a1

\* Every device but a1 is bob's.
MCOwner == [d \in Devices |-> IF d = a1 THEN alice ELSE bob]
Symmetry == Permutations(Devices \ {a1}) \cup Permutations(Rooms)
              \cup Permutations(Messages) \cup Permutations(Askers)
=============================================================================
