-------------------------- MODULE MCJobDeliveries --------------------------
(* Instances of JobDeliveries: j1 and j2 belong to the session, j3 to *)
(* another owner.                                                     *)
EXTENDS JobDeliveries, TLC

CONSTANTS j1, j2, j3
OwnTwo == {j1, j2}
Symmetry == Permutations(OwnTwo)
============================================================================
