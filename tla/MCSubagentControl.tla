------------------------- MODULE MCSubagentControl -------------------------
(* Instances of SubagentControl: s1 and s2 are subagents of o1, s3 of o2. *)
EXTENDS SubagentControl, TLC

CONSTANTS o1, o2, s1, s2, s3
OwnerOfThree == s1 :> o1 @@ s2 :> o1 @@ s3 :> o2
Siblings == Permutations({s1, s2})
============================================================================
