--------------------------- MODULE MCWorkflowGates ---------------------------
(* Instances of WorkflowGates for TLC.  Calls and answers are compared for *)
(* equality only, so either may be permuted.                               *)
EXTENDS WorkflowGates, TLC

Symmetry == Permutations(Calls) \cup Permutations(Answers)
=============================================================================
