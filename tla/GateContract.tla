---------------------------- MODULE GateContract ----------------------------
(***************************************************************************)
(* What the workflow gate broker promises to the workflow that waits on a  *)
(* gate and to the clients that answer it.  A gate is opened once; one     *)
(* answer may be chosen for it; the waiting workflow either continues with *)
(* that answer or is told that the gate was withdrawn, and neither is ever *)
(* taken back.  A client is told "accepted" only for the chosen answer.    *)
(***************************************************************************)
CONSTANTS Gates, Answers, NoAnswer

VARIABLES phase,   \* phase[g]: how far gate g has come
          chosen,  \* chosen[g]: the answer on record, or NoAnswer
          told     \* told[g]: the answers clients were told are accepted

cvars == <<phase, chosen, told>>

CInit == /\ phase = [g \in Gates |-> "unopened"]
         /\ chosen = [g \in Gates |-> NoAnswer]
         /\ told = [g \in Gates |-> {}]

Open(g) == /\ phase[g] = "unopened"
           /\ phase' = [phase EXCEPT ![g] = "open"]
           /\ UNCHANGED <<chosen, told>>

Choose(g, a) == /\ phase[g] = "open"
                /\ phase' \in {[phase EXCEPT ![g] = "chosen"],
                               [phase EXCEPT ![g] = "withdrawn"]}
                /\ chosen' = [chosen EXCEPT ![g] = a]
                /\ UNCHANGED told

Continue(g) == /\ phase[g] = "chosen"
               /\ phase' = [phase EXCEPT ![g] = "continued"]
               /\ told' \in {told, [told EXCEPT ![g] = @ \cup {chosen[g]}]}
               /\ UNCHANGED chosen

Tell(g) == /\ chosen[g] # NoAnswer
           /\ told' = [told EXCEPT ![g] = @ \cup {chosen[g]}]
           /\ UNCHANGED <<phase, chosen>>

(* Quarantine, fence or restart: the gates of S lose their workflow.  An   *)
(* answer whose write never became durable may be lost with it.            *)
Withdraw(S) ==
  /\ S # {}
  /\ \A g \in S : phase[g] \in {"open", "chosen", "withdrawn"}
  /\ phase' = [g \in Gates |-> IF g \in S THEN "withdrawn" ELSE phase[g]]
  /\ \A g \in Gates : \/ chosen'[g] = chosen[g]
                      \/ g \in S /\ chosen'[g] = NoAnswer
  /\ DOMAIN chosen' = Gates
  /\ UNCHANGED told

CNext == \/ \E g \in Gates : \/ Open(g) \/ Continue(g) \/ Tell(g)
                             \/ \E a \in Answers : Choose(g, a)
         \/ \E S \in SUBSET Gates : Withdraw(S)

CSpec == CInit /\ [][CNext]_cvars
=============================================================================
