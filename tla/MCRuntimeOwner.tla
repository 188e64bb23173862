--------------------------- MODULE MCRuntimeOwner ---------------------------
(* Instances of RuntimeOwner: one or two owners of one session. *)
EXTENDS RuntimeOwner, TLC

CONSTANTS x, y

OneOwner  == {x}
TwoOwners == {x, y}
Symmetry  == Permutations(TwoOwners)
=============================================================================
