----------------------------- MODULE MCLeaseOps -----------------------------
(* Instances of LeaseOps for TLC. *)
EXTENDS LeaseOps, TLC

CONSTANTS x, y, x1, x2, y1, g

(* Owner x has its start/stop thread and its heartbeat timer, y one thread. *)
ThreeThreads == (x1 :> x) @@ (x2 :> x) @@ (y1 :> y)
=============================================================================
