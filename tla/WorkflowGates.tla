---------------------------- MODULE WorkflowGates ----------------------------
(***************************************************************************)
(* The durable workflow gate broker of one session                         *)
(* (modes/shared/agent-wire/workflow-gate-broker.ts) with its file store,  *)
(* the emitter in front of it, and the two ways an answer arrives: the SDK *)
(* control surface and a Telegram reply (sdk/bus/index.ts).                *)
(*                                                                         *)
(* One action is one stretch of code between two awaits.  The store writes *)
(* its whole state with write, fsync, rename, fsync of the directory, so a *)
(* write ends in one of three ways: "ok"; "lost" (it threw before the      *)
(* rename); "unsure" (it threw after the rename: the file has the new      *)
(* state, a power failure may still bring the old one back).  A store      *)
(* reloads the file after an unsure write, so the state in memory is the   *)
(* file's and is not modelled apart.                                       *)
(***************************************************************************)
EXTENDS Integers, Sequences, FiniteSets

CONSTANTS Calls,          \* answers that clients send, each at most once
          Recoverers,     \* concurrent runs of recoverAcceptedGates
          Answers,        \* answers that satisfy the gate's schema
          NoAnswer,       \* no answer on record
          MaxGates,       \* gates opened in a behaviour
          MaxStarts,      \* times a process opens the session
          MaxFaults,      \* failing writes and hooks in a behaviour
          RecoveryLimit   \* timer attempts before recovery gives up (3)

ASSUME GateAssumption == /\ MaxGates \in Nat \ {0} /\ MaxStarts \in Nat
                         /\ MaxFaults \in Nat /\ RecoveryLimit \in Nat
                         /\ NoAnswer \notin Answers /\ "invalid" \notin Answers
                         /\ Answers \cap {"none", "waiting", "rejected", "dead"} = {}
                         /\ Calls \cap Recoverers = {}

Gates == 1..MaxGates
Procs == Calls \cup Recoverers
Invalid == "invalid"             \* an answer the schema rejects
Keys == {"key", "none"}          \* an idempotency key, or none; a second key
                                 \* is told apart from the first as "none" is

VARIABLES
  file,      \* the store's file: [seq, inst, rec]
  synced,    \* the state a power failure brings back
  mode,      \* "down", "on", "suspended" or "fenced"
  host,      \* a bus runtime is attached: controller and ack participant
  conts,     \* gates with a continuation in the broker
  waiter,    \* waiter[g]: what emitGate's promise has come to
  proofs,    \* gates with a terminalization proof prepared by answerGate
  lock,      \* lock[g]: the promise chain of withGateLock, holder first
  recovering,\* gates some recover() is working on
  timer,     \* the recovery timer is set
  attempts,  \* #recoveryAttempts
  run,       \* run[p]: where each asynchronous operation stands
  starts, faults,
  told,      \* told[g]: answers clients were told are accepted
  acks,      \* acks[g]: acknowledgements requested from Telegram
  advances   \* advances[g]: runs of the advance hook, except those that threw
             \* or whose record could not be written

proc == <<mode, host, conts, waiter, proofs, lock, recovering, timer, attempts>>
disk == <<file, synced>>
hist == <<told, acks, advances>>
vars == <<file, synced, mode, host, conts, waiter, proofs, lock, recovering,
          timer, attempts, run, starts, faults, told, acks, advances>>

-----------------------------------------------------------------------------
(* The persisted gate. *)

NoGate == [status |-> "none", owner |-> 0, answer |-> NoAnswer, key |-> "none",
           advanced |-> FALSE, terminalized |-> FALSE, ack |-> "none"]

Idle == [pc |-> "idle", op |-> "resolve", chan |-> "none", gate |-> 1, asked |-> 1,
         answer |-> NoAnswer, key |-> "none", commit |-> FALSE,
         todo |-> {}, recovered |-> FALSE]
Done == [Idle EXCEPT !.pc = "done"]

rec(g) == file.rec[g]

(* waiters.has(g): the promise of emitGate is still open. *)
IsLive(g) == g \in conts /\ waiter[g] = "waiting"

(* What listPendingGates shows to a client. *)
Listed(g) == /\ mode \in {"on", "fenced"}
             /\ rec(g).status = "pending" /\ rec(g).owner = file.inst /\ IsLive(g)

-----------------------------------------------------------------------------
(* Writes.  Outcome w of writing state f; Spend counts the faults used.    *)

Outcomes == {"ok", "lost", "unsure"}
Cost(w) == IF w = "ok" THEN 0 ELSE 1
Spend(n) == faults + n <= MaxFaults /\ faults' = faults + n

Wrote(d, w, f) == CASE w = "ok"     -> <<f, f>>
                    [] w = "lost"   -> d
                    [] w = "unsure" -> <<f, d[2]>>

Put(d, w, g, r) == Wrote(d, w, [d[1] EXCEPT !.rec[g] = r])

(* loseContinuation's write: an open or unadvanced gate of this instance   *)
(* becomes a diagnostic.                                                   *)
(* Mutant: a gate that already advanced is fenced too. *)
FenceableAny(f, g) == f.rec[g].owner = f.inst /\ f.rec[g].status \in {"pending", "accepted"}
Fenceable(f, g) == LET r == f.rec[g] IN
  /\ r.owner = f.inst
  /\ r.status = "pending" \/ (r.status = "accepted" /\ ~r.advanced)
Lose(d, w, g) == IF Fenceable(d[1], g)
                 THEN Put(d, w, g, [d[1].rec[g] EXCEPT !.status = "quarantined"])
                 ELSE d
Store(d) == file' = d[1] /\ synced' = d[2]

Rejected(g) == IF waiter[g] = "waiting" THEN [waiter EXCEPT ![g] = "rejected"] ELSE waiter

-----------------------------------------------------------------------------
Init ==
  /\ file = [seq |-> 0, inst |-> 0, rec |-> [g \in Gates |-> NoGate]]
  /\ synced = file
  /\ mode = "down" /\ host = FALSE
  /\ conts = {} /\ waiter = [g \in Gates |-> "none"] /\ proofs = {}
  /\ lock = [g \in Gates |-> <<>>] /\ recovering = {}
  /\ timer = FALSE /\ attempts = 0
  /\ run = [p \in Procs |-> Idle]
  /\ starts = 0 /\ faults = 0
  /\ told = [g \in Gates |-> {}] /\ acks = [g \in Gates |-> 0]
  /\ advances = [g \in Gates |-> 0]

(* A process opens the session: beginRuntimeInstance quarantines what the  *)
(* previous instance left open before anything is exposed.  A failing      *)
(* write fails the constructor.                                            *)
Quarantined(f, i) ==
  [f EXCEPT !.inst = i,
            !.rec = [g \in Gates |->
               IF Fenceable(f, g) THEN [f.rec[g] EXCEPT !.status = "quarantined"]
                                  ELSE f.rec[g]]]
Start ==
  /\ mode = "down" /\ starts < MaxStarts
  /\ starts' = starts + 1
  /\ \E w \in Outcomes : /\ Spend(Cost(w))
                         /\ Store(Wrote(disk, w, Quarantined(file, starts + 1)))
                         /\ mode' = IF w = "ok" THEN "on" ELSE "down"
  /\ UNCHANGED <<host, conts, waiter, proofs, lock, recovering, timer, attempts, run, hist>>

(* The process dies, by itself or with the machine. *)
Crash ==
  /\ mode # "down"
  /\ file' \in {file, synced} /\ synced' = file'
  /\ mode' = "down" /\ host' = FALSE /\ conts' = {} /\ proofs' = {}
  /\ waiter' = [g \in Gates |-> IF waiter[g] = "waiting" THEN "dead" ELSE waiter[g]]
  /\ lock' = [g \in Gates |-> <<>>] /\ recovering' = {}
  /\ timer' = FALSE /\ attempts' = 0
  /\ run' = [p \in Procs |-> IF p \in Calls /\ run[p].pc # "idle" THEN Done ELSE Idle]
  /\ UNCHANGED <<starts, faults, hist>>

(* Mutant: the drawn id is not persisted. *)
SeqKept(f) == f
nextSeq(f) == [f EXCEPT !.seq = @ + 1]

(* emitGate: the id is drawn and the pending record persisted before the   *)
(* promise and the continuation exist and the gate is shown.               *)
EmitGate ==
  /\ mode = "on" /\ file.seq < MaxGates
  /\ LET g == file.seq + 1
         opened == [NoGate EXCEPT !.status = "pending", !.owner = file.inst]
     IN \E w1, w2 \in Outcomes :
          LET drawn == Wrote(disk, w1, nextSeq(file))
              ok == w1 = "ok" /\ w2 = "ok"
          IN /\ w1 # "ok" => w2 = "ok"
             /\ Spend(Cost(w1) + Cost(w2))
             /\ Store(IF w1 = "ok" THEN Put(drawn, w2, g, opened) ELSE drawn)
             /\ conts' = IF ok THEN conts \cup {g} ELSE conts
             /\ waiter' = IF ok THEN [waiter EXCEPT ![g] = "waiting"] ELSE waiter
  /\ UNCHANGED <<mode, host, proofs, lock, recovering, timer, attempts, run, starts, hist>>

-----------------------------------------------------------------------------
(* The session around the emitter. *)

(* recover() lists the unadvanced gates first.  Recoverers bounds the      *)
(* recoveries that run at the same time.                                   *)
Unfinished(f) == {g \in Gates : /\ f.rec[g].status = "accepted" /\ ~f.rec[g].advanced
                                /\ f.rec[g].owner = f.inst}
Recovery(chan) == [Idle EXCEPT !.op = "recover", !.pc = "next", !.chan = chan,
                               !.todo = Unfinished(file)]
FreeRecoverers == {p \in Recoverers : run[p].pc = "idle"}

(* attachWorkflowGate: the bus registers its controller, listener and ack  *)
(* participant and asks for recovery.                                      *)
AttachWorkflowGate ==
  /\ host' = TRUE
  /\ IF FreeRecoverers = {} THEN UNCHANGED run
     ELSE \E p \in FreeRecoverers : run' = [run EXCEPT ![p] = Recovery("host")]

Attach ==
  /\ mode = "on" /\ ~host /\ AttachWorkflowGate
  /\ UNCHANGED <<disk, mode, conts, waiter, proofs, lock, recovering, timer, attempts,
                 starts, faults, hist>>

(* A session switch that may still roll back detaches the bus; rolling     *)
(* back attaches it again.                                                 *)
Suspend ==
  /\ mode = "on" /\ mode' = "suspended" /\ host' = FALSE
  /\ UNCHANGED <<disk, conts, waiter, proofs, lock, recovering, timer, attempts,
                 run, starts, faults, hist>>
Resume ==
  /\ mode = "suspended" /\ mode' = "on" /\ AttachWorkflowGate
  /\ UNCHANGED <<disk, conts, waiter, proofs, lock, recovering, timer, attempts,
                 starts, faults, hist>>

(* fence(): every promise is rejected first; then the broker quarantines   *)
(* gate after gate, and a write that throws ends that loop.                *)
Fence ==
  /\ mode \in {"on", "suspended"} /\ mode' = "fenced"
  /\ timer' = FALSE
  /\ waiter' = [g \in Gates |-> IF waiter[g] = "waiting" THEN "rejected" ELSE waiter[g]]
  /\ LET mine == {g \in conts : Fenceable(file, g)}
         Cut(S) == [file EXCEPT !.rec = [g \in Gates |->
                      IF g \in S THEN [rec(g) EXCEPT !.status = "quarantined"] ELSE rec(g)]]
     IN \/ /\ Spend(0) /\ conts' = {} /\ proofs' = proofs \ conts
           /\ Store(IF mine = {} THEN disk ELSE Wrote(disk, "ok", Cut(mine)))
        \/ \E g \in mine, w \in {"lost", "unsure"} :
             LET before == {h \in mine : h < g}
                 d == IF before = {} THEN disk ELSE Wrote(disk, "ok", Cut(before))
             IN /\ Spend(1) /\ Store(Lose(d, w, g))
                /\ conts' = {h \in conts : h > g} /\ proofs' = {h \in proofs : h > g}
  /\ UNCHANGED <<host, lock, recovering, attempts, run, starts, hist>>

-----------------------------------------------------------------------------
(* Ends of an operation.  p holds the lock of its gate. *)

(* A response repeats the recorded one: same key, same body. *)
(* Mutant: the body is not compared. *)
RepeatsKey(r, k, a) == k # "none" /\ r.key = k
Repeats(r, k, a) == k # "none" /\ r.key = k /\ r.answer = a

Schedule(wanted) ==
  IF wanted /\ ~timer /\ attempts < RecoveryLimit
  THEN timer' = TRUE /\ attempts' = attempts + 1
  ELSE UNCHANGED <<timer, attempts>>

Unlock(p) == lock' = [lock EXCEPT ![run[p].gate] = Tail(@)]

(* An error leaves the locked operation with the store at d.  If lose, the *)
(* continuation is quarantined first: resolve() does so after an unsure    *)
(* write, #terminalizeAccepted when there is no proof.  answerGate forgets *)
(* its proof when the gate is still listed.                                *)
Throw(p, d, cost, lose) ==
  LET g == run[p].gate
      resolving == run[p].op = "resolve"
      stillListed == /\ ~lose /\ mode # "suspended"
                     /\ d[1].rec[g].status = "pending" /\ IsLive(g)
  IN /\ \E w \in Outcomes :
          /\ ~(lose /\ Fenceable(d[1], g)) => w = "ok"
          /\ Spend(cost + Cost(w))
          /\ Store(IF lose THEN Lose(d, w, g) ELSE d)
     /\ conts' = IF lose THEN conts \ {g} ELSE conts
     /\ waiter' = IF lose THEN Rejected(g) ELSE waiter
     /\ proofs' = IF \/ lose \/ run[p].pc \in {"final", "controller"}
                     \/ resolving /\ run[p].chan = "sdk" /\ stillListed
                  THEN proofs \ {g} ELSE proofs
     /\ Unlock(p)
     /\ recovering' = IF resolving THEN recovering ELSE recovering \ {g}
     /\ run' = [run EXCEPT ![p] = IF p \in Calls THEN Done ELSE Idle]
     /\ Schedule(\/ resolving /\ (run[p].chan = "tg" \/ mode = "on")
                 \/ run[p].chan = "timer")
     /\ UNCHANGED <<mode, host, starts>>

(* Mutant: a failed write takes the answer back so that the client can     *)
(* send it again.                                                          *)
FailsReopen(p, d, w) ==
  Throw(p, Put(d, "ok", run[p].gate, [d[1].rec[run[p].gate] EXCEPT !.status = "pending"]),
        Cost(w), FALSE)
Fails(p, d, w) == Throw(p, d, Cost(w), run[p].op = "resolve" /\ w = "unsure")

(* recover() gives the gate up without an error and goes to the next one. *)
Skip(p) ==
  /\ Unlock(p) /\ recovering' = recovering \ {run[p].gate}
  /\ run' = [run EXCEPT ![p].pc = "next"]
  /\ UNCHANGED <<disk, mode, host, conts, waiter, proofs, timer, attempts, starts, faults>>

(* A locked operation finds that its gate is no longer its own. *)
GivesUp(p) == IF run[p].op = "resolve" THEN Throw(p, disk, 0, FALSE) ELSE Skip(p)

(* One write of the gate's record, then on to pc; or the error path.       *)
(* #terminalize uses the prepared proof up before it writes.               *)
Writes(p, r, pc) ==
  \E w \in Outcomes :
    LET d == Put(disk, w, run[p].gate, r)
    IN IF w = "ok"
       THEN /\ Store(d) /\ Spend(0) /\ run' = [run EXCEPT ![p].pc = pc]
            /\ proofs' = IF pc = "advance" THEN proofs \ {run[p].gate} ELSE proofs
            /\ UNCHANGED <<mode, host, conts, waiter, lock, recovering, timer, attempts, starts>>
       ELSE Fails(p, d, w)

-----------------------------------------------------------------------------
(* Answers arrive. *)

Ask(g, a, k, chan, commit) ==
  [Idle EXCEPT !.gate = g, !.answer = a, !.key = k, !.chan = chan, !.commit = commit]

Enqueue(c, r) == /\ run' = [run EXCEPT ![c] = [r EXCEPT !.pc = "wait"]]
                 /\ lock' = [lock EXCEPT ![r.gate] = Append(@, c)]

(* answerGate of the control surface: replay a completed resolution, run   *)
(* recovery for an incomplete one, or prepare the proof and resolve.       *)
AnswerGate(c) ==
  /\ run[c].pc = "idle" /\ host /\ mode \in {"on", "fenced"}
  /\ \E g \in Gates, a \in Answers \cup {Invalid} :
       LET k == "key"
           q == Ask(g, a, k, "sdk", FALSE)
           r == rec(g)
           known == r.status \in {"accepted", "quarantined"} /\ r.answer # NoAnswer
           same == Repeats(r, k, a)
           ready == r.status = "pending" /\ r.owner = file.inst /\ IsLive(g)
       IN \/ /\ known /\ same /\ r.advanced /\ r.terminalized
             /\ told' = [told EXCEPT ![g] = @ \cup {a}]
             /\ run' = [run EXCEPT ![c] = Done] /\ UNCHANGED <<lock, proofs>>
          \/ /\ known /\ same /\ ~(r.advanced /\ r.terminalized)
             /\ run' = [run EXCEPT ![c] = [q EXCEPT !.op = "recover", !.pc = "next",
                                          !.asked = g, !.todo = Unfinished(file)]]
             /\ UNCHANGED <<lock, proofs, told>>
          \/ /\ (known /\ ~same) \/ (~known /\ ~ready)
             /\ run' = [run EXCEPT ![c] = Done] /\ UNCHANGED <<lock, proofs, told>>
          \/ /\ ~known /\ ready /\ Enqueue(c, q)
             /\ proofs' = proofs \cup {g} /\ UNCHANGED told
  /\ UNCHANGED <<disk, mode, host, conts, waiter, recovering, timer, attempts,
                 starts, faults, acks, advances>>

(* resolveGateFromNotification: a Telegram reply; an answer that commits   *)
(* asks for an acknowledgement of the selection.  An answer the schema     *)
(* rejects is rejected whatever its key and disposition.                   *)
AnswerFromNotification(c) ==
  /\ run[c].pc = "idle" /\ host /\ mode # "down"
  /\ \E g \in Gates, a \in Answers \cup {Invalid}, k \in Keys, commit \in BOOLEAN :
       /\ a = Invalid => k = "none" /\ ~commit
       /\ IF rec(g).status = "none" THEN run' = [run EXCEPT ![c] = Done] /\ UNCHANGED lock
          ELSE Enqueue(c, Ask(g, a, k, "tg", commit))
  /\ UNCHANGED <<disk, mode, host, conts, waiter, proofs, recovering, timer, attempts,
                 starts, faults, hist>>

-----------------------------------------------------------------------------
(* The locked body. *)

(* Mutant: the promise chain does not wait for its predecessor. *)
HoldsUnlocked(p, pc) == run[p].pc = pc
Holds(p, pc) == run[p].pc = pc /\ Head(lock[run[p].gate]) = p

Accepted(p) == [rec(run[p].gate) EXCEPT
                  !.status = "accepted", !.answer = run[p].answer, !.key = run[p].key,
                  !.ack = IF run[p].chan = "tg" /\ run[p].commit THEN "pending" ELSE "none"]

Replies(p, T) == /\ told' = T /\ Unlock(p) /\ run' = [run EXCEPT ![p] = Done]
                 /\ UNCHANGED <<disk, mode, host, conts, waiter, recovering, timer,
                                attempts, starts, faults, acks, advances>>

(* resolveUnlocked up to its first await.  A commit over Telegram persists *)
(* "attempt_started" before the acknowledgement is requested.              *)
Resolve(p) ==
  LET g == run[p].gate
      r == rec(g)
      valid == run[p].answer \in Answers
  IN /\ run[p].op = "resolve" /\ Holds(p, "wait")
     /\ \/ /\ \/ r.status \in {"none", "quarantined"}
              \/ r.status = "accepted" /\ ~(Repeats(r, run[p].key, run[p].answer))
              \/ r.status = "pending" /\ ~(r.owner = file.inst /\ IsLive(g))
           /\ Throw(p, disk, 0, FALSE) /\ UNCHANGED hist
        \/ /\ r.status = "accepted" /\ Repeats(r, run[p].key, run[p].answer)
           /\ Replies(p, [told EXCEPT ![g] = @ \cup {run[p].answer}]) /\ UNCHANGED proofs
        \/ /\ r.status = "pending" /\ r.owner = file.inst /\ IsLive(g) /\ ~valid
           /\ Replies(p, told)
           /\ proofs' = IF run[p].chan = "sdk" THEN proofs \ {g} ELSE proofs
        \/ /\ r.status = "pending" /\ r.owner = file.inst /\ IsLive(g) /\ valid
           /\ Accepted(p).ack = "none"
           /\ Writes(p, Accepted(p), "final") /\ UNCHANGED hist
        \/ /\ r.status = "pending" /\ r.owner = file.inst /\ IsLive(g) /\ valid
           /\ Accepted(p).ack = "pending"
           /\ \E w1, w2 \in Outcomes :
                LET d1 == Put(disk, w1, g, Accepted(p))
                    d2 == Put(d1, w2, g, [Accepted(p) EXCEPT !.ack = "attempt_started"])
                IN \/ w1 # "ok" /\ w2 = "ok" /\ Fails(p, d1, w1) /\ UNCHANGED hist
                   \/ w1 = "ok" /\ w2 # "ok" /\ Fails(p, d2, w2) /\ UNCHANGED hist
                   \/ /\ w1 = "ok" /\ w2 = "ok" /\ Store(d2) /\ Spend(0)
                      /\ acks' = [acks EXCEPT ![g] = @ + 1]
                      /\ run' = [run EXCEPT ![p].pc = "ack"]
                      /\ UNCHANGED <<proc, starts, told, advances>>

(* The acknowledgement is answered, or its host timeout passes. *)
AckReturns(p) ==
  /\ Holds(p, "ack")
  /\ LET r == rec(run[p].gate) IN
       IF r.status # "accepted" THEN Throw(p, disk, 0, FALSE)
       ELSE \E o \in {"delivered", "failed", "unknown"} :
              Writes(p, [r EXCEPT !.ack = o], "final")
  /\ UNCHANGED hist

(* #finalizeAccepted requests an acknowledgement nobody has started. *)
(* Mutant: an attempt without an outcome is requested again. *)
AckAnyOpen(r) == r.ack \in {"pending", "attempt_started"}
AckUnsent(r) == r.ack = "pending"

(* recover(): the locked body's start, with #finalizeAccepted. *)
Finalize(p) ==
  LET g == run[p].gate
      r == rec(g)
  IN /\ run[p].op = "recover" /\ Holds(p, "wait")
     /\ \/ /\ r.status # "accepted" \/ r.advanced
           /\ Skip(p) /\ UNCHANGED hist
        \/ /\ r.status = "accepted" /\ ~r.advanced
           /\ \/ /\ AckUnsent(r) /\ host
                 /\ Writes(p, [r EXCEPT !.ack = "attempt_started"], "ack")
                 /\ acks' = IF run'[p].pc = "ack" THEN [acks EXCEPT ![g] = @ + 1] ELSE acks
                 /\ UNCHANGED <<told, advances>>
              \/ /\ AckUnsent(r) /\ ~host
                 /\ Writes(p, [r EXCEPT !.ack = "failed"], "final") /\ UNCHANGED hist
              \/ /\ r.ack = "attempt_started" /\ ~AckUnsent(r)
                 /\ Writes(p, [r EXCEPT !.ack = "unknown"], "final") /\ UNCHANGED hist
              \/ /\ r.ack \notin {"pending", "attempt_started"}
                 /\ run' = [run EXCEPT ![p].pc = "final"]
                 /\ UNCHANGED <<disk, proc, starts, faults, hist>>

(* #terminalize with a prepared proof, without a controller, or up to the  *)
(* controller's answer.                                                    *)
Terminalize(p) ==
  LET g == run[p].gate
      r == rec(g)
      mine == r.status = "accepted" /\ (run[p].op = "resolve" \/ (~r.advanced /\ IsLive(g)))
      to(pc) == /\ run' = [run EXCEPT ![p].pc = pc]
                /\ UNCHANGED <<disk, proc, starts, faults>>
  IN /\ Holds(p, "final")
     /\ \/ ~mine /\ GivesUp(p)
        \/ mine /\ r.terminalized /\ to("advance")
        \/ mine /\ ~r.terminalized /\ g \in proofs
              /\ Writes(p, [r EXCEPT !.terminalized = TRUE], "advance")
        \/ mine /\ ~r.terminalized /\ g \notin proofs /\ host /\ to("controller")
        \/ mine /\ ~r.terminalized /\ g \notin proofs /\ ~host /\ Throw(p, disk, 0, TRUE)
     /\ UNCHANGED hist

(* completeGateInteractions returned a proof, or failed. *)
ControllerAnswers(p) ==
  LET r == rec(run[p].gate) IN
  /\ Holds(p, "controller")
  /\ \/ /\ r.status = "accepted" /\ ~r.advanced
        /\ Writes(p, [r EXCEPT !.terminalized = TRUE], "advance")
     \/ (r.status # "accepted" \/ r.advanced) /\ Throw(p, disk, 0, FALSE)
     \/ Throw(p, disk, 1, TRUE)
  /\ UNCHANGED hist

Advance(p) ==
  LET g == run[p].gate
      mine == rec(g).status = "accepted" /\ ~rec(g).advanced /\ IsLive(g)
  IN /\ Holds(p, "advance")
     /\ \/ /\ mine /\ run' = [run EXCEPT ![p].pc = "commit"]
           /\ advances' = [advances EXCEPT ![g] = @ + 1]
           /\ UNCHANGED <<disk, proc, starts, faults>>
        \/ ~mine /\ GivesUp(p) /\ UNCHANGED advances
     /\ UNCHANGED <<told, acks>>

(* The hook returned: record advanced, settle emitGate's promise, release  *)
(* the continuation.                                                       *)
Commit(p) ==
  LET g == run[p].gate
      r == rec(g)
      mine == /\ r.status = "accepted" /\ IsLive(g)
              /\ run[p].op = "resolve" \/ ~r.advanced
      undone == [advances EXCEPT ![g] = @ - 1]
  IN /\ Holds(p, "commit")
     /\ \/ Throw(p, disk, 1, FALSE) /\ advances' = undone /\ UNCHANGED told
        \/ ~mine /\ GivesUp(p) /\ UNCHANGED <<advances, told>>
        \/ /\ mine
           /\ \E w \in Outcomes :
                LET d == Put(disk, w, g, [r EXCEPT !.advanced = TRUE]) IN
                \/ w # "ok" /\ Fails(p, d, w) /\ advances' = undone /\ UNCHANGED told
                \/ /\ w = "ok" /\ Store(d) /\ Spend(0)
                   /\ waiter' = [waiter EXCEPT ![g] = r.answer]
                   /\ conts' = conts \ {g} /\ Unlock(p)
                   /\ \/ /\ run[p].op = "resolve"
                         /\ told' = [told EXCEPT ![g] = @ \cup {r.answer}]
                         /\ run' = [run EXCEPT ![p] = Done] /\ UNCHANGED recovering
                      \/ /\ run[p].op = "recover" /\ UNCHANGED told
                         /\ run' = [run EXCEPT ![p] = [@ EXCEPT !.pc = "next", !.recovered = TRUE]]
                         /\ recovering' = recovering \ {g}
                   /\ UNCHANGED <<mode, host, proofs, timer, attempts, starts, advances>>
     /\ UNCHANGED acks

-----------------------------------------------------------------------------
(* Recovery. *)

TimerFires(p) ==
  /\ timer /\ run[p].pc = "idle" /\ timer' = FALSE
  /\ run' = [run EXCEPT ![p] = Recovery("timer")]
  /\ UNCHANGED <<disk, mode, host, conts, waiter, proofs, lock, recovering, attempts,
                 starts, faults, hist>>

(* The bus asks for recovery again when the agent is idle. *)
HostRecovers(p) ==
  /\ host /\ mode # "down" /\ run[p].pc = "idle"
  /\ run' = [run EXCEPT ![p] = Recovery("host")]
  /\ UNCHANGED <<disk, proc, starts, faults, hist>>

(* recover()'s loop: the next listed gate that is live and not taken. *)
RecoverNext(p) ==
  LET left == {g \in run[p].todo : IsLive(g) /\ g \notin recovering}
  IN /\ run[p].pc = "next"
     /\ \E g \in left :
          /\ \A h \in left : g <= h
          /\ recovering' = recovering \cup {g}
          /\ Enqueue(p, [run[p] EXCEPT !.gate = g, !.todo = {h \in left : h > g}])
     /\ UNCHANGED <<disk, mode, host, conts, waiter, proofs, timer, attempts,
                    starts, faults, hist>>

(* recoverAcceptedGates after the loop; answerGate then looks the          *)
(* resolution up again.                                                    *)
RecoverDone(p) ==
  LET g == run[p].asked
      completed == /\ Repeats(rec(g), run[p].key, run[p].answer)
                   /\ rec(g).terminalized /\ rec(g).advanced
  IN /\ run[p].pc = "next" /\ ~\E h \in run[p].todo : IsLive(h) /\ h \notin recovering
     /\ IF run[p].recovered \/ \E h \in Unfinished(file) : IsLive(h)
        THEN Schedule(TRUE) ELSE attempts' = 0 /\ UNCHANGED timer
     /\ told' = IF p \in Calls /\ completed
                THEN [told EXCEPT ![g] = @ \cup {run[p].answer}] ELSE told
     /\ run' = [run EXCEPT ![p] = IF p \in Calls THEN Done ELSE Idle]
     /\ UNCHANGED <<disk, mode, host, conts, waiter, proofs, lock, recovering,
                    starts, faults, acks, advances>>

-----------------------------------------------------------------------------
Step(p) == \/ Resolve(p) \/ AckReturns(p) \/ Finalize(p) \/ Terminalize(p)
           \/ ControllerAnswers(p) \/ Advance(p) \/ Commit(p)
           \/ RecoverNext(p) \/ RecoverDone(p)

Next == \/ Start \/ Crash \/ EmitGate \/ Attach \/ Suspend \/ Resume \/ Fence
        \/ \E c \in Calls : AnswerGate(c) \/ AnswerFromNotification(c)
        \/ \E p \in Recoverers : TimerFires(p) \/ HostRecovers(p)
        \/ \E p \in Procs : Step(p)

Spec == Init /\ [][Next]_vars

(* Promises settle (the acknowledgement has a host timeout), timers fire,  *)
(* and a suspended session switch either rolls back or goes through.       *)
(* Nobody has to answer, attach, suspend or crash.                         *)
FairSpec == /\ Spec
            /\ \A p \in Procs : WF_vars(Step(p))
            /\ WF_vars(\E p \in Recoverers : TimerFires(p))
            /\ WF_vars(mode = "suspended" /\ (Resume \/ Fence))

-----------------------------------------------------------------------------
(* A workflow that continued with an answer did so on a record that says   *)
(* accepted, terminalized and advanced with that answer, in the file and   *)
(* in whatever a power failure would bring back.                           *)
ContinuedIsDurable ==
  \A g \in Gates : waiter[g] \in Answers =>
    \A f \in {file, synced} :
      /\ f.rec[g].status = "accepted" /\ f.rec[g].answer = waiter[g]
      /\ f.rec[g].terminalized /\ f.rec[g].advanced

(* No gate is ever settled with two answers: what clients were told and    *)
(* what the workflow received agree, across retries, recovery and restart. *)
OneAnswer ==
  \A g \in Gates : Cardinality(told[g] \cup ({waiter[g]} \cap Answers)) <= 1

(* The Telegram acknowledgement of a gate is requested at most once, by    *)
(* whichever of resolve and recover gets there, because "attempt_started"  *)
(* is on disk before the request leaves.                                   *)
AckOnce == \A g \in Gates : acks[g] <= 1

(* A gate that was acknowledged, or that a client was told is accepted, is *)
(* never offered to clients again.                                         *)
NotOfferedAgain ==
  \A g \in Gates : acks[g] > 0 \/ told[g] # {} => ~Listed(g)

(* The advance hook runs again only after a run that failed or could not   *)
(* be recorded: resolve and any number of recoveries never both run it.    *)
AdvanceOnce == \A g \in Gates : advances[g] <= 1

(* How far a gate has come, for the workflow that waits on it. *)
Phase(g) == CASE waiter[g] = "none" -> "unopened"
              [] waiter[g] \in Answers -> "continued"
              [] IsLive(g) /\ rec(g).status = "pending" -> "open"
              [] IsLive(g) /\ rec(g).status = "accepted" -> "chosen"
              [] OTHER -> "withdrawn"

(* The broker keeps the contract of GateContract. *)
Contract == INSTANCE GateContract WITH
  phase <- [g \in Gates |-> Phase(g)],
  chosen <- [g \in Gates |-> rec(g).answer],
  told <- told
KeepsContract == Contract!CSpec

=============================================================================
