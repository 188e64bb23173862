----------------------------- MODULE MCFileLock -----------------------------
(* Instances of FileLock for TLC: two callers of one process next to a third *)
(* of another, or two callers in two processes.                             *)
EXTENDS FileLock, TLC

CONSTANTS a, b, c, p, q

(* a and b run in process p, c in process q. *)
Shared == (a :> p) @@ (b :> p) @@ (c :> q)

(* One caller in each process. *)
Pair == (a :> p) @@ (b :> q)
=============================================================================
