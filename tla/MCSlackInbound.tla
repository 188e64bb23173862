--------------------------- MODULE MCSlackInbound ---------------------------
(* Instances of SlackInbound for TLC: a reply r1, a command c1, two tasks. *)
EXTENDS SlackInbound

CONSTANTS r1, c1, a1, a2, t1, t2
=============================================================================
