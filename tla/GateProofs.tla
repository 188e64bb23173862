----------------------------- MODULE GateProofs -----------------------------
(***************************************************************************)
(* The invariant of the workflow gate broker of WorkflowGates, from the    *)
(* steps of GateSteps, and what follows from it.                           *)
(*                                                                         *)
(* A gate is kept, opened, settled, or its process dies: that is all the   *)
(* invariant needs of a step, gate by gate.                                *)
(***************************************************************************)
EXTENDS GateSteps, TLAPS

(* A leaf that names no backend goes to the SMT solver, with time to spare. *)
USE SMTT(30)

-----------------------------------------------------------------------------
(* The same, for one gate. *)

Fresh(g) ==
  /\ rec(g).status = "none" /\ ~Opened(g)
  /\ file'.rec[g].status = "pending" /\ Sound(file'.rec[g])
  /\ g <= file'.seq /\ g <= synced'.seq
  /\ \/ synced'.rec[g] = file'.rec[g] /\ waiter'[g] = "waiting" /\ g \in conts'
     \/ /\ synced'.rec[g] = rec(g)
        /\ waiter'[g] = waiter[g] /\ (g \in conts' => g \in conts)
Settled(g) ==
  /\ rec(g).status = "accepted" /\ IsLive(g) /\ After(file', synced', g, FALSE)
  /\ \A f \in {file', synced'} :
       /\ f.rec[g].status = "accepted" /\ f.rec[g].answer = rec(g).answer
       /\ f.rec[g].terminalized /\ f.rec[g].advanced
  /\ g \notin conts' /\ waiter'[g] = rec(g).answer
Dies(g) ==
  /\ file' \in {file, synced} /\ synced' = file' /\ g \notin conts'
  /\ waiter'[g] = IF waiter[g] = "waiting" THEN "dead" ELSE waiter[g]

(* A commit that settles its gate. *)
LEMMA SettlesIs ==
  ASSUME StoreTypes, RunTypes, NEW p \in Procs, Settles(p)
  PROVE  Settled(run[p].gate)
<1>0. run[p].gate \in Gates BY RunType, Zenon
<1>1. /\ conts' = conts \ {run[p].gate}
      /\ waiter' = [waiter EXCEPT ![run[p].gate] = rec(run[p].gate).answer]
  BY Zenon DEF Settles
<1>2. waiter'[run[p].gate] = rec(run[p].gate).answer /\ run[p].gate \notin conts'
  BY <1>0, <1>1, Zenon DEF StoreTypes
<1> QED BY <1>0, <1>2, Zenon DEF Settles, Settled

(* Every step, gate by gate. *)
LEMMA GateMoves ==
  ASSUME StoreTypes, Images, RunTypes, RunsTrue, starts \in Nat, [Next]_vars
  PROVE  /\ StoreTypes'
         /\ \/ \A g \in Gates : Kept(g) \/ Fresh(g) \/ Settled(g)
            \/ Crash /\ \A g \in Gates : Dies(g)
<1>1. CASE KeepsGates BY <1>1, Zenon DEF KeepsGates
<1>2. ASSUME NEW h \in Gates, Opens(h)
      PROVE  StoreTypes' /\ \A g \in Gates : Kept(g) \/ Fresh(g)
  <2>1. StoreTypes' BY <1>2, Zenon DEF Opens
  <2>2. Fresh(h) BY <1>2, Zenon DEF Opens, Fresh
  <2>3. ASSUME NEW g \in Gates \ {h} PROVE Kept(g)
    <3>1. After(file', synced', g, FALSE) /\ Promise(g)
      BY <1>2, <2>3, Zenon DEF Opens, Promise
    <3>2. After(file', synced', g, g \notin conts') BY <3>1, Zenon DEF After
    <3> QED BY <3>1, <3>2, Zenon DEF Kept
  <2> QED BY <2>1, <2>2, <2>3, Zenon
<1>3. ASSUME NEW p \in Procs, Settles(p)
      PROVE  StoreTypes' /\ \A g \in Gates : Kept(g) \/ Settled(g)
  <2> DEFINE h == run[p].gate
  <2>0. h \in Gates BY RunType, Zenon
  <2>1. StoreTypes' BY <1>3, Zenon DEF Settles
  <2>2. conts' = conts \ {h} /\ waiter' = [waiter EXCEPT ![h] = rec(h).answer]
    BY <1>3, Zenon DEF Settles
  <2>4. Settled(h) BY <1>3, SettlesIs, Zenon
  <2>5. ASSUME NEW g \in Gates \ {h} PROVE Kept(g)
    <3>1. Promise(g) BY <2>2, Zenon DEF Promise, StoreTypes
    <3>2. After(file', synced', g, FALSE) BY <1>3, Zenon DEF Settles
    <3>3. After(file', synced', g, g \notin conts') BY <3>2, Zenon DEF After
    <3> QED BY <3>1, <3>3, Zenon DEF Kept
  <2> QED BY <2>1, <2>4, <2>5, Zenon
<1>4. CASE Crash
  <2>1. /\ file' \in {file, synced} /\ synced' = file' /\ conts' = {}
        /\ waiter' = [g \in Gates |-> IF waiter[g] = "waiting" THEN "dead" ELSE waiter[g]]
    BY <1>4, Zenon DEF Crash
  <2>2. StoreTypes' BY <2>1, Zenon DEF StoreTypes
  <2>3. \A g \in Gates : Dies(g) BY <2>1, Zenon DEF Dies
  <2> QED BY <1>4, <2>2, <2>3, Zenon
<1>5. \/ KeepsGates \/ (\E g \in Gates : Opens(g)) \/ Crash
      \/ \E p \in Procs : Settles(p)
  BY NextIs, Zenon DEF Still, Around, Serves, Body, Ends
<1> QED BY <1>1, <1>2, <1>3, <1>4, <1>5, Zenon

(* The image of a power failure lacks an answer that the file has, but     *)
(* never has another one; and with a continuation it lacks none.           *)
Lag(g) == /\ synced.rec[g].answer \in {rec(g).answer, NoAnswer}
          /\ g \in conts => synced.rec[g].answer = rec(g).answer /\ Opened(g)
Lags == \A g \in Gates : Lag(g)

(* Both images of the store keep saying what Image asks. *)
LEMMA ImagesStep ==
  ASSUME StoreTypes, StoreTypes', Images, NEW g \in Gates,
         Kept(g) \/ Fresh(g) \/ Settled(g) \/ Dies(g)
  PROVE  Image(file, g)' /\ Image(synced, g)'
<1>0. /\ g \in Nat /\ file.seq \in Nat /\ synced.seq \in Nat
      /\ file'.seq \in Nat /\ synced'.seq \in Nat
  BY GateAssumption DEF StoreTypes, State, Gates
<1>1. Image(file, g) /\ Image(synced, g) BY Zenon DEF Images
<1>2. CASE Kept(g)
  <2>1. Opened(g)' <=> Opened(g)
    <3>1. waiter'[g] = waiter[g] \/ (waiter[g] = "waiting" /\ waiter'[g] = "rejected")
      BY <1>2, Zenon DEF Kept, Promise
    <3> QED BY <3>1, Zenon DEF Opened
  <2>2. ~Opened(g) => ~IsLive(g) BY Zenon DEF Opened, IsLive
  <2>3. ASSUME NEW x, Later(rec(g), x)
        PROVE  Sound(x) /\ (rec(g).status = "none" => x.status = "none")
    BY <2>3, Zenon DEF Later
  <2>4. /\ Later(rec(g), file'.rec[g]) /\ file.seq <= file'.seq
        /\ ~IsLive(g) => file'.rec[g].answer = rec(g).answer
        /\ \/ /\ Later(rec(g), synced'.rec[g]) /\ file.seq <= synced'.seq
              /\ synced'.rec[g].answer = file'.rec[g].answer
           \/ synced'.rec[g] = synced.rec[g] /\ synced'.seq = synced.seq
    BY <1>2, Zenon DEF Kept, After
  <2>5. ASSUME NEW n \in Nat, file.seq <= n
        PROVE  (g > n => g > file.seq) /\ (g <= file.seq => g <= n)
    BY <1>0, <2>5
  <2>6. Image(file, g)'
    BY <1>0, <1>1, <2>1, <2>2, <2>3, <2>4, <2>5, Zenon DEF Image, rec
  <2>7. Image(synced, g)'
    BY <1>0, <1>1, <2>1, <2>2, <2>3, <2>4, <2>5, Zenon DEF Image, rec
  <2> QED BY <2>6, <2>7, Zenon
<1>3. CASE Fresh(g)
  <2>1. /\ rec(g).status = "none" /\ ~Opened(g)
        /\ file'.rec[g].status = "pending" /\ Sound(file'.rec[g])
        /\ g <= file'.seq /\ g <= synced'.seq
        /\ synced'.rec[g] = file'.rec[g] \/ synced'.rec[g] = file.rec[g]
    BY <1>3, Zenon DEF Fresh, rec
  <2>2. ~(g > file'.seq) /\ ~(g > synced'.seq) BY <1>0, <2>1
  <2>3. /\ file'.rec[g].answer = NoAnswer /\ Sound(file.rec[g])
        /\ file.rec[g].answer = NoAnswer
    BY <1>1, <2>1, Zenon DEF Sound, Image
  <2> QED BY <2>1, <2>2, <2>3, Zenon DEF Image
<1>4. CASE Settled(g)
  <2>1. /\ Opened(g) /\ rec(g).status = "accepted" /\ waiter'[g] = rec(g).answer
        /\ \A f \in {file', synced'} : f.rec[g].status = "accepted"
    BY <1>4, Zenon DEF Settled, IsLive, Opened
  <2>2. rec(g) \in Record /\ Sound(rec(g)) BY RecSound, Zenon
  <2>3. waiter'[g] # "none" BY <2>1, <2>2, GateAssumption, Zenon DEF Record, Sound
  <2>4. /\ Sound(file'.rec[g]) /\ file.seq <= file'.seq
        /\ \/ Sound(synced'.rec[g]) /\ file.seq <= synced'.seq
           \/ synced'.rec[g] = synced.rec[g] /\ synced'.seq = synced.seq
    BY <1>4, Zenon DEF Settled, After, Later
  <2>5. g <= file.seq /\ g <= synced.seq /\ Sound(synced.rec[g])
    BY <1>1, <2>1, Zenon DEF Image
  <2>6. g <= file'.seq /\ g <= synced'.seq BY <1>0, <2>4, <2>5
  <2> QED BY <1>0, <2>3, <2>4, <2>5, <2>6 DEF Image, Opened
<1>5. CASE Dies(g)
  BY <1>0, <1>1, <1>5, Zenon DEF Dies, Image, Opened
<1> QED BY <1>2, <1>3, <1>4, <1>5, Zenon

(* The image of a power failure keeps lagging behind by at most an answer. *)
LEMMA LagStep ==
  ASSUME Images, NEW g \in Gates, Lag(g),
         Kept(g) \/ Fresh(g) \/ Settled(g) \/ Dies(g)
  PROVE  Lag(g)'
<1>1. Image(file, g) /\ Image(synced, g) BY Zenon DEF Images
<1>2. CASE Kept(g)
  BY <1>1, <1>2, Zenon DEF Kept, After, Promise, Lag, Image, Sound, Opened, rec
<1>3. CASE Fresh(g)
  BY <1>1, <1>3, Zenon DEF Fresh, Lag, Image, Sound, Opened, rec
<1>4. CASE Settled(g) BY <1>4, Zenon DEF Settled, Lag, rec
<1>5. CASE Dies(g) BY <1>5, Zenon DEF Dies, Lag, rec
<1> QED BY <1>2, <1>3, <1>4, <1>5, Zenon

(* A workflow that continued. *)
Durable(g) ==
  waiter[g] \in Answers =>
    \A f \in {file, synced} :
      /\ f.rec[g].status = "accepted" /\ f.rec[g].answer = waiter[g]
      /\ f.rec[g].terminalized /\ f.rec[g].advanced

(* A continuation stays durable. *)
LEMMA DurableStep ==
  ASSUME StoreTypes, Images, NEW g \in Gates, Lag(g), Durable(g),
         Kept(g) \/ Fresh(g) \/ Settled(g) \/ Dies(g)
  PROVE  Durable(g)'
<1>0. \A a \in Answers : a \notin {"none", "waiting", "rejected", "dead"}
  BY GateAssumption, Zenon
<1>1. SUFFICES ASSUME waiter'[g] \in Answers
               PROVE  \A f \in {file', synced'} :
                        /\ f.rec[g].status = "accepted" /\ f.rec[g].answer = waiter'[g]
                        /\ f.rec[g].terminalized /\ f.rec[g].advanced
  BY Zenon DEF Durable
<1>2. CASE Kept(g)
  <2>1. waiter'[g] = waiter[g] BY <1>0, <1>1, <1>2, Zenon DEF Kept, Promise
  <2>2. \A f \in {file, synced} :
          /\ f.rec[g].status = "accepted" /\ f.rec[g].answer = waiter[g]
          /\ f.rec[g].terminalized /\ f.rec[g].advanced
    BY <1>1, <2>1, Zenon DEF Durable
  <2>3. /\ rec(g).status \in Closed /\ rec(g).status = "accepted" /\ rec(g).answer = waiter[g]
        /\ rec(g).terminalized /\ rec(g).advanced
    BY <2>2, Zenon DEF rec, Closed
  <2>4. ASSUME NEW y, Later(rec(g), y)
        PROVE  /\ y.status = "accepted" /\ y.answer = waiter[g]
               /\ y.terminalized /\ y.advanced
    BY <2>3, <2>4, Zenon DEF Later
  <2>5. /\ Later(rec(g), file'.rec[g])
        /\ Later(rec(g), synced'.rec[g]) \/ synced'.rec[g] = synced.rec[g]
    BY <1>2, Zenon DEF Kept, After
  <2> QED BY <2>1, <2>2, <2>4, <2>5, Zenon
<1>3. CASE Fresh(g) BY <1>0, <1>1, <1>3, Zenon DEF Fresh, Opened
<1>4. CASE Settled(g) BY <1>4, Zenon DEF Settled
<1>5. CASE Dies(g)
  <2>1. waiter'[g] = waiter[g] BY <1>0, <1>1, <1>5, Zenon DEF Dies
  <2> QED BY <1>1, <1>5, <2>1, Zenon DEF Dies, Durable
<1> QED BY <1>2, <1>3, <1>4, <1>5, Zenon

-----------------------------------------------------------------------------
(* The promise chain of withGateLock: an operation inside the body is at   *)
(* its head, and one that waits is in it.                                  *)
Queued(p) ==
  LET q == lock[run[p].gate] IN
  /\ run[p].pc \in Inside => q # <<>> /\ q[1] = p
  /\ run[p].pc = "wait" => \E i \in DOMAIN q : q[i] = p
Locked == \A p \in Procs : Queued(p)

(* The holder of a lock is the head of its queue. *)
LEMMA HeldIs ==
  ASSUME RunTypes, Locked, NEW p \in Procs, Held(p)
  PROVE  lock[run[p].gate] # <<>> /\ lock[run[p].gate][1] = p
<1>1. lock[run[p].gate] \in Seq(Procs) BY RunType, Zenon DEF RunTypes
<1>2. lock[run[p].gate] # <<>> BY <1>1 DEF Locked, Queued, Held
<1> QED BY <1>1, <1>2 DEF Held

RunsMove(p) == \/ Enters(p) \/ (Held(p) /\ Works(p)) \/ (Held(p) /\ Leaves(p))

(* What a step makes of the operations and the locks: one enters, works on *)
(* or leaves, all stay, or all die.                                        *)
LEMMA RunMoves ==
  ASSUME StoreTypes, Images, RunTypes, RunsTrue, starts \in Nat, [Next]_vars
  PROVE  UNCHANGED <<run, lock>> \/ Crash \/ \E p \in Procs : RunsMove(p)
BY NextIs, Zenon DEF Still, Around, Serves, Body, Ends, RunsMove

(* An operation that goes on keeps its gate. *)
LEMMA WorksIs ==
  ASSUME RunTypes, NEW p \in Procs, Works(p)
  PROVE  /\ run' \in [Procs -> Run] /\ UNCHANGED lock
         /\ run'[p].pc \in Inside /\ run'[p].gate = run[p].gate
         /\ \A q \in Procs \ {p} : run'[q] = run[q]
         /\ file'.rec[run[p].gate].status \in Closed
         /\ run'[p].pc \in {"advance", "commit"} => file'.rec[run[p].gate].terminalized
         /\ run'[p].pc = "commit" => Advance(p)
<1>1. PICK c \in Inside : /\ GoesOn(p, c) /\ file'.rec[run[p].gate].status \in Closed
                          /\ c \in {"advance", "commit"} => file'.rec[run[p].gate].terminalized
                          /\ c = "commit" => Advance(p)
  BY Zenon DEF Works
<1> DEFINE s == [run[p] EXCEPT !.pc = c]
<1>2. s \in Run BY RunType, RunWith, Zenon
<1>3. s.pc = c /\ s.gate = run[p].gate BY RunType, Zenon DEF Run
<1>4. run' = [run EXCEPT ![p] = s] /\ UNCHANGED lock BY <1>1, Zenon DEF GoesOn
<1> HIDE DEF s
<1>5. run'[p] = s /\ \A q \in Procs \ {p} : run'[q] = run[q] BY <1>4, Zenon DEF RunTypes
<1>6. run' \in [Procs -> Run] BY <1>2, <1>4, Zenon DEF RunTypes
<1> QED BY <1>1, <1>3, <1>4, <1>5, <1>6, Zenon

(* An operation that leaves hands its lock to the next one. *)
LEMMA LeavesIs ==
  ASSUME RunTypes, NEW p \in Procs, Leaves(p)
  PROVE  /\ run' \in [Procs -> Run] /\ lock' = [lock EXCEPT ![run[p].gate] = Tail(@)]
         /\ run'[p].pc \in Outside
         /\ \A q \in Procs \ {p} : run'[q] = run[q]
<1>1. PICK s \in Run : s.pc \in Outside /\ run' = [run EXCEPT ![p] = s] BY Zenon DEF Leaves
<1> QED BY <1>1, Zenon DEF Leaves, Unlock, RunTypes

(* An operation that enters queues behind the others. *)
LEMMA EntersIs ==
  ASSUME RunTypes, NEW p \in Procs, Enters(p)
  PROVE  /\ run' \in [Procs -> Run] /\ run[p].pc \in Outside
         /\ \A q \in Procs \ {p} : run'[q] = run[q]
         /\ \/ run'[p].pc \in Outside /\ UNCHANGED lock
            \/ run'[p].pc = "wait" /\ lock' = [lock EXCEPT ![run'[p].gate] = Append(@, p)]
<1>1. PICK s \in Run : /\ run' = [run EXCEPT ![p] = s]
                       /\ \/ s.pc \in Outside /\ UNCHANGED lock
                          \/ s.pc = "wait" /\ lock' = [lock EXCEPT ![s.gate] = Append(@, p)]
  BY Zenon DEF Enters
<1>2. run' \in [Procs -> Run] /\ run'[p] = s /\ \A q \in Procs \ {p} : run'[q] = run[q]
  BY <1>1, Zenon DEF RunTypes
<1> QED BY <1>1, <1>2, Zenon DEF Enters

(* A crash leaves no operation inside a lock. *)
LEMMA CrashRuns ==
  ASSUME Crash
  PROVE  /\ run' \in [Procs -> Run] /\ \A p \in Procs : run'[p].pc \in Outside
         /\ lock' \in [Gates -> Seq(Procs)]
<1>1. /\ run' = [p \in Procs |-> IF p \in Calls /\ run[p].pc # "idle" THEN Done ELSE Idle]
      /\ lock' = [g \in Gates |-> <<>>]
  BY Zenon DEF Crash
<1>2. <<>> \in Seq(Procs) OBVIOUS
<1> QED BY <1>1, <1>2, IdleRun, Zenon

(* Inside, waiting and outside exclude each other. *)
LEMMA Apart == /\ \A c \in Outside : c \notin Inside /\ c # "wait"
               /\ "wait" \notin Inside
BY Zenon DEF Outside, Inside

(* The queues keep telling who holds which lock. *)
LEMMA LockedStep ==
  ASSUME RunTypes, Locked,
         UNCHANGED <<run, lock>> \/ Crash \/ \E p \in Procs : RunsMove(p)
  PROVE  RunTypes' /\ Locked'
<1>1. CASE UNCHANGED <<run, lock>> BY <1>1, Zenon DEF RunTypes, Locked, Queued
<1>2. CASE Crash BY <1>2, CrashRuns, Apart, Zenon DEF RunTypes, Locked, Queued
<1>3. ASSUME NEW p \in Procs, Enters(p) PROVE RunTypes' /\ Locked'
  <2>1. /\ run' \in [Procs -> Run]
        /\ \A q \in Procs \ {p} : run'[q] = run[q]
        /\ \/ run'[p].pc \in Outside /\ UNCHANGED lock
           \/ run'[p].pc = "wait" /\ lock' = [lock EXCEPT ![run'[p].gate] = Append(@, p)]
    BY <1>3, EntersIs, Zenon
  <2>2. CASE run'[p].pc \in Outside /\ UNCHANGED lock
    <3>1. Queued(p)' BY <2>2, Apart, Zenon DEF Queued
    <3>2. ASSUME NEW q \in Procs \ {p} PROVE Queued(q)'
      <4>1. run'[q] = run[q] /\ Queued(q) BY <2>1, Zenon DEF Locked
      <4> QED BY <2>2, <4>1, Zenon DEF Queued
    <3> QED BY <2>1, <2>2, <3>1, <3>2, Zenon DEF RunTypes, Locked
  <2>3. CASE run'[p].pc = "wait" /\ lock' = [lock EXCEPT ![run'[p].gate] = Append(@, p)]
    <3> DEFINE g == run'[p].gate
    <3>0. g \in Gates /\ lock[g] \in Seq(Procs) BY <2>1, Zenon DEF RunTypes, Run
    <3> HIDE DEF g
    <3>1. /\ lock'[g] = Append(lock[g], p) /\ \A h \in Gates \ {g} : lock'[h] = lock[h]
      BY <2>3, <3>0, Zenon DEF RunTypes, g
    <3>2. lock' \in [Gates -> Seq(Procs)] BY <2>3, <3>0 DEF RunTypes, g
    <3>3. /\ \A i \in DOMAIN lock[g] : i \in DOMAIN lock'[g] /\ lock'[g][i] = lock[g][i]
          /\ Len(lock[g]) + 1 \in DOMAIN lock'[g] /\ lock'[g][Len(lock[g]) + 1] = p
          /\ lock[g] # <<>> => lock'[g] # <<>> /\ lock'[g][1] = lock[g][1]
      BY <3>0, <3>1
    <3>4. Queued(p)' BY <2>3, <3>3, Apart, Zenon DEF Queued, g
    <3>5. ASSUME NEW q \in Procs \ {p} PROVE Queued(q)'
      <4>1. run'[q] = run[q] /\ Queued(q) /\ run[q].gate \in Gates
        BY <2>1, RunType, Zenon DEF Locked
      <4>2. CASE run[q].gate = g BY <3>3, <4>1, <4>2, ZenonT(30) DEF Queued
      <4>3. CASE run[q].gate # g BY <3>1, <4>1, <4>3, Zenon DEF Queued
      <4> QED BY <4>2, <4>3, Zenon
    <3> QED BY <2>1, <3>2, <3>4, <3>5, Zenon DEF RunTypes, Locked
  <2> QED BY <2>1, <2>2, <2>3, Zenon
<1>4. ASSUME NEW p \in Procs, Held(p), Works(p) PROVE RunTypes' /\ Locked'
  <2>1. /\ run' \in [Procs -> Run] /\ UNCHANGED lock
        /\ run'[p].pc \in Inside /\ run'[p].gate = run[p].gate
        /\ \A q \in Procs \ {p} : run'[q] = run[q]
    BY <1>4, WorksIs, Zenon
  <2>2. lock[run[p].gate] # <<>> /\ lock[run[p].gate][1] = p BY <1>4, HeldIs, Zenon
  <2>3. Queued(p)' BY <2>1, <2>2, Apart, Zenon DEF Queued
  <2>4. ASSUME NEW q \in Procs \ {p} PROVE Queued(q)'
    <3>1. run'[q] = run[q] /\ Queued(q) BY <2>1, Zenon DEF Locked
    <3> QED BY <2>1, <3>1, Zenon DEF Queued
  <2> QED BY <2>1, <2>3, <2>4, Zenon DEF RunTypes, Locked
<1>5. ASSUME NEW p \in Procs, Held(p), Leaves(p) PROVE RunTypes' /\ Locked'
  <2> DEFINE g == run[p].gate
  <2>0. g \in Gates /\ lock[g] \in Seq(Procs) BY RunType, Zenon DEF RunTypes
  <2>1. /\ run' \in [Procs -> Run] /\ lock' = [lock EXCEPT ![g] = Tail(@)]
        /\ run'[p].pc \in Outside
        /\ \A q \in Procs \ {p} : run'[q] = run[q]
    BY <1>5, LeavesIs, Zenon
  <2>2. lock[g] # <<>> /\ lock[g][1] = p BY <1>5, HeldIs, Zenon
  <2> HIDE DEF g
  <2>3. lock'[g] = Tail(lock[g]) /\ \A h \in Gates \ {g} : lock'[h] = lock[h]
    BY <2>0, <2>1, Zenon DEF RunTypes
  <2>4. lock' \in [Gates -> Seq(Procs)] BY <2>0, <2>1, <2>2 DEF RunTypes
  <2>5. \A i \in DOMAIN lock[g] :
          i # 1 => i - 1 \in DOMAIN lock'[g] /\ lock'[g][i - 1] = lock[g][i]
    BY <2>0, <2>2, <2>3
  <2>6. Queued(p)' BY <2>1, Apart, Zenon DEF Queued
  <2>7. ASSUME NEW q \in Procs \ {p} PROVE Queued(q)'
    <3>1. run'[q] = run[q] /\ Queued(q) /\ run[q].gate \in Gates
      BY <2>1, RunType, Zenon DEF Locked
    <3>2. CASE run[q].gate = g
      <4>1. run[q].pc \notin Inside BY <2>2, <2>7, <3>1, <3>2, Zenon DEF Queued
      <4>2. run[q].pc = "wait" => \E i \in DOMAIN lock'[g] : lock'[g][i] = q
        <5>1. SUFFICES ASSUME run[q].pc = "wait"
                       PROVE  \E i \in DOMAIN lock'[g] : lock'[g][i] = q
          BY Zenon
        <5>2. PICK i \in DOMAIN lock[g] : lock[g][i] = q BY <3>1, <3>2, <5>1, Zenon DEF Queued
        <5>3. i # 1 BY <2>2, <2>7, <5>2, Zenon
        <5> QED BY <2>5, <5>2, <5>3, Zenon
      <4> QED BY <3>1, <3>2, <4>1, <4>2, Zenon DEF Queued
    <3>3. CASE run[q].gate # g BY <2>3, <3>1, <3>3, Zenon DEF Queued
    <3> QED BY <3>2, <3>3, Zenon
  <2> QED BY <2>1, <2>4, <2>6, <2>7, Zenon DEF RunTypes, Locked
<1> QED BY <1>1, <1>2, <1>3, <1>4, <1>5, Zenon DEF RunsMove

(* A closed gate stays closed and a terminalized one terminalized while    *)
(* the process lives.                                                      *)
LEMMA ClosedStays ==
  ASSUME NEW g \in Gates, Kept(g) \/ Fresh(g) \/ Settled(g), rec(g).status \in Closed
  PROVE  /\ file'.rec[g].status \in Closed
         /\ rec(g).terminalized => file'.rec[g].terminalized
<1>1. CASE Kept(g) BY <1>1, Zenon DEF Kept, After, Later
<1>2. CASE Fresh(g) BY <1>2, Zenon DEF Fresh, Closed
<1>3. CASE Settled(g) BY <1>3, Zenon DEF Settled, Closed
<1> QED BY <1>1, <1>2, <1>3, Zenon

(* What an operation inside a lock relies on stays true: no other          *)
(* operation works on its gate.                                            *)
LEMMA RunsTrueStep ==
  ASSUME StoreTypes, Images, RunTypes, RunsTrue, starts \in Nat, [Next]_vars
  PROVE  RunsTrue'
<1> SUFFICES ASSUME NEW q \in Procs
             PROVE  /\ run'[q].pc \in Inside => file'.rec[run'[q].gate].status \in Closed
                    /\ run'[q].pc \in {"advance", "commit"} =>
                         file'.rec[run'[q].gate].terminalized
  BY Zenon DEF RunsTrue, rec
<1>0. \A c \in {"advance", "commit"} : c \in Inside BY Zenon DEF Inside
<1>1. CASE Crash BY <1>0, <1>1, CrashRuns, Apart, Zenon
<1>2. CASE ~Crash
  <2>1. \A g \in Gates : Kept(g) \/ Fresh(g) \/ Settled(g) BY <1>2, GateMoves, Zenon
  <2>2. CASE run'[q] = run[q]
    <3>1. run[q].gate \in Gates BY RunType, Zenon
    <3> QED BY <1>0, <2>1, <2>2, <3>1, ClosedStays, Zenon DEF RunsTrue
  <2>3. CASE run'[q].pc \in Outside BY <1>0, <2>3, Apart, Zenon
  <2>4. CASE run'[q].pc = "wait" BY <1>0, <2>4, Apart, Zenon
  <2>5. CASE Works(q)
    <3>1. run'[q].gate = run[q].gate BY <2>5, WorksIs, Zenon
    <3>2. /\ file'.rec[run[q].gate].status \in Closed
          /\ run'[q].pc \in {"advance", "commit"} => file'.rec[run[q].gate].terminalized
      BY <2>5, WorksIs, Zenon
    <3> QED BY <3>1, <3>2, Zenon
  <2>6. \/ run'[q] = run[q] \/ run'[q].pc \in Outside \/ run'[q].pc = "wait" \/ Works(q)
    <3>1. CASE UNCHANGED <<run, lock>> BY <3>1, Zenon
    <3>2. ASSUME NEW p \in Procs, RunsMove(p)
          PROVE  \/ run'[q] = run[q] \/ run'[q].pc \in Outside \/ run'[q].pc = "wait"
                 \/ Works(q)
      <4>1. CASE p = q BY <3>2, <4>1, EntersIs, LeavesIs, Zenon DEF RunsMove
      <4>2. CASE p # q BY <3>2, <4>2, EntersIs, LeavesIs, WorksIs, Zenon DEF RunsMove
      <4> QED BY <4>1, <4>2, Zenon
    <3> QED BY <1>2, <3>1, <3>2, RunMoves, Zenon
  <2> QED BY <2>2, <2>3, <2>4, <2>5, <2>6, Zenon
<1> QED BY <1>1, <1>2, Zenon

-----------------------------------------------------------------------------
(* What clients were told, and what was asked of Telegram. *)

HistTypes == /\ told \in [Gates -> SUBSET Answers]
             /\ acks \in [Gates -> Nat] /\ advances \in [Gates -> Nat]

Moves(g) == Kept(g) \/ Fresh(g) \/ Settled(g) \/ Dies(g)

(* A promise that was made is never forgotten. *)
LEMMA OpenedStays ==
  ASSUME StoreTypes, Images, NEW g \in Gates, Opened(g), Moves(g)
  PROVE  Opened(g)'
<1>1. CASE Kept(g) BY <1>1, Zenon DEF Kept, Promise, Opened
<1>2. CASE Fresh(g) BY <1>2, Zenon DEF Fresh
<1>3. CASE Settled(g)
  <2>1. rec(g).status = "accepted" /\ waiter'[g] = rec(g).answer BY <1>3, Zenon DEF Settled
  <2>2. rec(g) \in Record /\ Sound(rec(g)) BY RecSound, Zenon
  <2> QED BY <2>1, <2>2, GateAssumption, Zenon DEF Record, Sound, Opened
<1>4. CASE Dies(g) BY <1>4, Zenon DEF Dies, Opened
<1> QED BY <1>1, <1>2, <1>3, <1>4, Zenon DEF Moves

(* A gate whose acknowledgement was requested has the attempt on record.   *)
Acked(g) ==
  acks[g] > 0 =>
    /\ acks[g] = 1 /\ Opened(g)
    /\ \A f \in {file, synced} :
         f.rec[g].status \in Closed /\ f.rec[g].ack \notin {"none", "pending"}

(* An acknowledgement stays requested at most once, with the attempt on    *)
(* record.                                                                 *)
LEMMA AckedStep ==
  ASSUME StoreTypes, Images, HistTypes, AsksOnce, NEW g \in Gates, Acked(g), Moves(g)
  PROVE  Acked(g)' /\ acks'[g] \in Nat
<1>0. acks[g] \in Nat BY Zenon DEF HistTypes
<1>1. CASE Asks(g)
  <2>1. acks'[g] = acks[g] + 1 BY <1>1, Zenon DEF Asks, HistTypes
  <2>2. acks[g] = 0 BY <1>0, <1>1 DEF Asks, Acked, rec
  <2>3. Opened(g)' BY <1>1, OpenedStays, Zenon DEF Asks
  <2>4. acks'[g] = 1 BY <2>1, <2>2
  <2> QED BY <1>1, <2>3, <2>4 DEF Asks, Acked
<1>2. CASE acks'[g] = acks[g]
  <2>1. SUFFICES ASSUME acks[g] > 0 PROVE Acked(g)' BY <1>0, <1>2, Zenon DEF Acked
  <2>2. /\ acks[g] = 1 /\ Opened(g)
        /\ rec(g).status \in Closed /\ rec(g).ack \notin {"none", "pending"}
        /\ synced.rec[g].status \in Closed /\ synced.rec[g].ack \notin {"none", "pending"}
    BY <2>1, Zenon DEF Acked, rec
  <2>3. Opened(g)' BY <2>2, OpenedStays, Zenon
  <2>4. ASSUME NEW x, Later(rec(g), x)
        PROVE  x.status \in Closed /\ x.ack \notin {"none", "pending"}
    BY <2>2, <2>4, Zenon DEF Later
  <2>5. ASSUME NEW gone, After(file', synced', g, gone)
        PROVE  /\ file'.rec[g].status \in Closed /\ file'.rec[g].ack \notin {"none", "pending"}
               /\ synced'.rec[g].status \in Closed
               /\ synced'.rec[g].ack \notin {"none", "pending"}
    BY <2>2, <2>4, <2>5, Zenon DEF After
  <2>6. CASE Kept(g) BY <1>2, <2>2, <2>3, <2>5, <2>6, Zenon DEF Kept, Acked
  <2>7. CASE Settled(g) BY <1>2, <2>2, <2>3, <2>5, <2>7, Zenon DEF Settled, Acked
  <2>8. CASE Fresh(g) BY <2>2, <2>8, Zenon DEF Fresh
  <2>9. CASE Dies(g) BY <1>2, <2>1, <2>2, <2>3, <2>9, Zenon DEF Dies, Acked, rec
  <2> QED BY <1>0, <1>2, <2>6, <2>7, <2>8, <2>9, Zenon DEF Moves
<1>3. Asks(g) \/ acks'[g] = acks[g] BY Zenon DEF AsksOnce, Asks, HistTypes
<1> QED BY <1>0, <1>1, <1>2, <1>3, Zenon

(* A client was told the only answer that either image can have.           *)
Told(g) ==
  \A a \in told[g] :
    /\ Opened(g) /\ \A b \in told[g] : a = b
    /\ \A f \in {file, synced} : f.rec[g].answer \in {a, NoAnswer}
    /\ g \in conts => rec(g).answer = a

(* What clients were told stays the answer on record. *)
LEMMA ToldStep ==
  ASSUME StoreTypes, Images, HistTypes, TellsTrue, NEW g \in Gates,
         Lag(g)', Told(g), Moves(g)
  PROVE  Told(g)' /\ told'[g] \in SUBSET Answers
<1>0. /\ told[g] \in SUBSET Answers /\ NoAnswer \notin Answers
      /\ rec(g) \in Record /\ Sound(rec(g)) /\ Image(file, g)
  BY RecSound, GateAssumption, Zenon DEF HistTypes, Images
<1>1. CASE Tells(g)
  <2> DEFINE r == rec(g).answer
  <2>1. r \in Answers /\ file'.rec[g].answer = r /\ told'[g] = told[g] \cup {r}
    BY <1>1, Zenon DEF Tells, HistTypes
  <2>2. \A a \in told[g] : a = r BY <1>0, <2>1, Zenon DEF Told, rec
  <2>3. Opened(g) BY <1>0, <2>1, Zenon DEF Image, rec
  <2>4. Opened(g)' BY <2>3, OpenedStays, Zenon
  <2>5. synced'.rec[g].answer \in {r, NoAnswer} BY <2>1, Zenon DEF Lag, rec
  <2>6. \A a \in told'[g] : a = r BY <2>1, <2>2, Zenon
  <2> HIDE DEF r
  <2>7. Told(g)'
    <3>1. \A f \in {file', synced'} : f.rec[g].answer \in {r, NoAnswer} BY <2>1, <2>5, Zenon
    <3> QED BY <2>1, <2>4, <2>6, <3>1, Zenon DEF Told, rec
  <2> QED BY <1>0, <2>1, <2>7, Zenon
<1>2. CASE told'[g] = told[g]
  <2>1. ASSUME NEW a \in told[g]
        PROVE  /\ Opened(g)'
               /\ file'.rec[g].answer \in {a, NoAnswer} /\ synced'.rec[g].answer \in {a, NoAnswer}
               /\ g \in conts' => file'.rec[g].answer = a
    <3>1. /\ Opened(g) /\ rec(g).answer \in {a, NoAnswer}
          /\ synced.rec[g].answer \in {a, NoAnswer} /\ (g \in conts => rec(g).answer = a)
      BY <2>1, Zenon DEF Told, rec
    <3>2. Opened(g)' BY <3>1, OpenedStays, Zenon
    <3>3. ~(rec(g).status = "pending" /\ IsLive(g))
      BY <1>0, <2>1, <3>1, Zenon DEF IsLive, Sound
    <3>4. ASSUME NEW gone, After(file', synced', g, gone)
          PROVE  /\ file'.rec[g].answer = rec(g).answer
                 /\ synced'.rec[g].answer \in {a, NoAnswer}
      BY <3>1, <3>3, <3>4, Zenon DEF After
    <3>5. CASE Kept(g) BY <3>1, <3>2, <3>4, <3>5, Zenon DEF Kept, Promise
    <3>6. CASE Settled(g) BY <3>1, <3>2, <3>4, <3>6, Zenon DEF Settled
    <3>7. CASE Fresh(g) BY <3>1, <3>7, Zenon DEF Fresh
    <3>8. CASE Dies(g) BY <3>1, <3>2, <3>8, Zenon DEF Dies, rec
    <3> QED BY <3>5, <3>6, <3>7, <3>8, Zenon DEF Moves
  <2>2. \A a, b \in told[g] : a = b BY Zenon DEF Told
  <2>3. Told(g)'
    <3>1. SUFFICES ASSUME NEW a \in told[g]
                   PROVE  /\ Opened(g)' /\ \A b \in told[g] : a = b
                          /\ \A f \in {file', synced'} : f.rec[g].answer \in {a, NoAnswer}
                          /\ g \in conts' => rec(g)'.answer = a
      BY <1>2, Zenon DEF Told
    <3> QED BY <2>1, <2>2, Zenon DEF rec
  <2> QED BY <1>0, <1>2, <2>3, Zenon
<1>3. Tells(g) \/ told'[g] = told[g] BY Zenon DEF TellsTrue, Tells, HistTypes
<1> QED BY <1>1, <1>2, <1>3, Zenon

-----------------------------------------------------------------------------
(* The advance hook.  It has run once for a gate while its operation is    *)
(* about to record the fact, and after that the gate is over: nobody can   *)
(* run it again.                                                           *)
Hooked(p) == run[p].pc = "commit" => advances[run[p].gate] = 1
Over(g) == ~IsLive(g) \/ rec(g).status = "quarantined" \/ rec(g).advanced
Committing(g) == \E p \in Procs : run[p].pc = "commit" /\ run[p].gate = g
Advanced(g) ==
  advances[g] > 0 => advances[g] = 1 /\ Opened(g) /\ (Committing(g) \/ Over(g))
Hooks == (\A p \in Procs : Hooked(p)) /\ (\A g \in Gates : Advanced(g))

(* A gate whose hook has no more reason to run keeps having none. *)
LEMMA OverStays ==
  ASSUME NEW g \in Gates, Opened(g), Over(g), Moves(g)
  PROVE  Over(g)'
<1>1. CASE Kept(g)
  <2>1. IsLive(g)' => IsLive(g) BY <1>1, Zenon DEF Kept, Promise, IsLive
  <2>2. /\ rec(g).status = "quarantined" => file'.rec[g].status = "quarantined"
        /\ rec(g).advanced => file'.rec[g].advanced
    BY <1>1, Zenon DEF Kept, After, Later
  <2> QED BY <2>1, <2>2, Zenon DEF Over, rec
<1>2. CASE Fresh(g) BY <1>2, Zenon DEF Fresh
<1>3. CASE Settled(g) BY <1>3, Zenon DEF Settled, Over, IsLive
<1>4. CASE Dies(g) BY <1>4, Zenon DEF Dies, Over, IsLive
<1> QED BY <1>1, <1>2, <1>3, <1>4, Zenon DEF Moves

(* The hook runs only for a gate whose operation is alone in the lock.     *)
LEMMA OneCommits ==
  ASSUME RunTypes, Locked, NEW p \in Procs, Held(p), NEW q \in Procs,
         run[q].pc = "commit", run[q].gate = run[p].gate
  PROVE  q = p
<1>1. lock[run[p].gate][1] = p BY HeldIs, Zenon
<1>2. run[q].pc \in Inside BY Zenon DEF Inside
<1> QED BY <1>1, <1>2, Zenon DEF Locked, Queued

(* No operation enters or leaves the point after the hook.                 *)
LEMMA HooksStay ==
  ASSUME StoreTypes, Images, HistTypes, Hooks, UNCHANGED advances, \A g \in Gates : Moves(g),
         \A q \in Procs : \/ run'[q] = run[q]
                          \/ (run[q].pc # "commit" /\ run'[q].pc # "commit")
  PROVE  Hooks'
<1>1. ASSUME NEW q \in Procs PROVE Hooked(q)' BY Zenon DEF Hooks, Hooked
<1>2. ASSUME NEW g \in Gates PROVE Advanced(g)'
  <2>1. SUFFICES ASSUME advances[g] > 0
                 PROVE  advances[g] = 1 /\ Opened(g)' /\ (Committing(g)' \/ Over(g)')
    BY Zenon DEF Advanced
  <2>2. advances[g] = 1 /\ Opened(g) /\ (Committing(g) \/ Over(g))
    BY <2>1, Zenon DEF Hooks, Advanced
  <2>3. Opened(g)' BY <2>2, OpenedStays, Zenon
  <2>4. CASE Over(g) BY <2>2, <2>3, <2>4, OverStays, Zenon
  <2>5. CASE Committing(g)
    <3>1. PICK q \in Procs : run[q].pc = "commit" /\ run[q].gate = g
      BY <2>5, Zenon DEF Committing
    <3>2. run'[q] = run[q] BY <3>1, Zenon
    <3>3. Committing(g)' BY <3>1, <3>2, Zenon DEF Committing
    <3> QED BY <2>2, <2>3, <3>3, Zenon
  <2> QED BY <2>2, <2>4, <2>5, Zenon
<1> QED BY <1>1, <1>2, Zenon DEF Hooks

(* Advance runs the hook of a gate that is not over and that nobody else   *)
(* is committing: it never ran.                                            *)
LEMMA HooksAdvance ==
  ASSUME StoreTypes, Images, RunTypes, Locked, HistTypes, Hooks,
         \A g \in Gates : Moves(g), NEW p \in Procs, Held(p), Works(p),
         run[p].pc = "advance", run'[p].pc = "commit", IsLive(run[p].gate),
         rec(run[p].gate).status = "accepted", ~rec(run[p].gate).advanced,
         advances' = [advances EXCEPT ![run[p].gate] = @ + 1]
  PROVE  Hooks' /\ advances' \in [Gates -> Nat]
<1>10. PICK g \in Gates : g = run[p].gate BY RunType, Zenon
<1>0. advances[g] \in Nat BY Zenon DEF HistTypes
<1>1. ~Over(g) /\ Opened(g) BY <1>10, Zenon DEF Over, IsLive, Opened
<1>2. ~Committing(g)
  <2>1. ASSUME NEW q \in Procs, run[q].pc = "commit", run[q].gate = g PROVE FALSE
    BY <1>10, <2>1, OneCommits, Zenon
  <2> QED BY <2>1, Zenon DEF Committing
<1>3. advances[g] = 0 BY <1>0, <1>1, <1>2 DEF Hooks, Advanced
<1>4. /\ advances'[g] = 1 /\ \A h \in Gates \ {g} : advances'[h] = advances[h]
      /\ advances' \in [Gates -> Nat]
  BY <1>0, <1>3, <1>10 DEF HistTypes
<1>5. run'[p].gate = g /\ \A q \in Procs \ {p} : run'[q] = run[q] BY <1>10, WorksIs, Zenon
<1>6. Hooked(p)' BY <1>4, <1>5, Zenon DEF Hooked
<1>7. ASSUME NEW q \in Procs \ {p} PROVE Hooked(q)'
  <2>1. SUFFICES ASSUME run[q].pc = "commit" PROVE advances'[run[q].gate] = 1
    BY <1>5, Zenon DEF Hooked
  <2>2. run[q].gate \in Gates /\ run[q].gate # g BY <1>2, <2>1, RunType, Zenon DEF Committing
  <2> QED BY <1>4, <2>1, <2>2, Zenon DEF Hooks, Hooked
<1>8. Advanced(g)'
  <2>1. Opened(g)' BY <1>0, <1>1, OpenedStays, Zenon
  <2>2. Committing(g)' BY <1>5, Zenon DEF Committing
  <2> QED BY <1>4, <2>1, <2>2, Zenon DEF Advanced
<1>9. ASSUME NEW h \in Gates \ {g} PROVE Advanced(h)'
  <2>1. SUFFICES ASSUME advances[h] > 0
                 PROVE  advances[h] = 1 /\ Opened(h)' /\ (Committing(h)' \/ Over(h)')
    BY <1>4, Zenon DEF Advanced
  <2>2. advances[h] = 1 /\ Opened(h) /\ (Committing(h) \/ Over(h))
    BY <2>1, Zenon DEF Hooks, Advanced
  <2>3. Opened(h)' BY <2>2, OpenedStays, Zenon
  <2>4. CASE Over(h) BY <2>2, <2>3, <2>4, OverStays, Zenon
  <2>5. CASE Committing(h)
    <3>1. PICK q \in Procs : run[q].pc = "commit" /\ run[q].gate = h
      BY <2>5, Zenon DEF Committing
    <3>2. run'[q] = run[q] BY <1>5, <1>9, <3>1, Zenon
    <3>3. Committing(h)' BY <3>1, <3>2, Zenon DEF Committing
    <3> QED BY <2>2, <2>3, <3>3, Zenon
  <2> QED BY <2>2, <2>4, <2>5, Zenon
<1> QED BY <1>4, <1>6, <1>7, <1>8, <1>9, Zenon DEF Hooks

(* What Commit leaves of the count: a hook that threw, or whose record     *)
(* could not be written, does not count; otherwise the gate is over.       *)
LEMMA CommitCounts ==
  ASSUME RunTypes, RunsTrue, NEW p \in Procs, Commit(p),
         NEW g \in Gates, g = run[p].gate, Moves(g), Opened(g)
  PROVE  \/ advances' = [advances EXCEPT ![g] = @ - 1]
         \/ UNCHANGED advances /\ Over(g)'
<1> DEFINE mine == /\ rec(g).status = "accepted" /\ IsLive(g)
                   /\ run[p].op = "resolve" \/ ~rec(g).advanced
<1>1. \/ advances' = [advances EXCEPT ![g] = @ - 1]
      \/ ~mine /\ UNCHANGED advances
      \/ conts' = conts \ {g} /\ UNCHANGED advances
  BY ZenonT(30) DEF Commit
<1>2. CASE ~mine /\ UNCHANGED advances
  <2>1. rec(g).status \in Closed BY Zenon DEF Commit, Holds, RunsTrue, Inside
  <2>2. Over(g) BY <1>2, <2>1, Zenon DEF Over, Closed
  <2> QED BY <1>2, <2>2, OverStays, Zenon
<1>3. CASE conts' = conts \ {g} /\ UNCHANGED advances
  BY <1>3, Zenon DEF Over, IsLive
<1> QED BY <1>1, <1>2, <1>3, Zenon

(* The count of runs of the hook stays right when a commit ends. *)
LEMMA HooksCommit ==
  ASSUME StoreTypes, Images, RunTypes, RunsTrue, Locked, HistTypes, Hooks,
         \A g \in Gates : Moves(g), NEW p \in Procs, Held(p), Commit(p), Leaves(p)
  PROVE  Hooks' /\ advances' \in [Gates -> Nat]
<1>10. PICK g \in Gates : g = run[p].gate BY RunType, Zenon
<1>0. run[p].pc = "commit" BY Zenon DEF Commit, Holds
<1>1. advances[g] = 1 /\ Opened(g) BY <1>0, <1>10 DEF Hooks, Hooked, Advanced
<1>2. Opened(g)' BY <1>0, <1>1, OpenedStays, Zenon
<1>3. \/ advances' = [advances EXCEPT ![g] = @ - 1]
      \/ UNCHANGED advances /\ Over(g)'
  BY <1>0, <1>1, <1>10, CommitCounts, Zenon
<1>4. /\ advances'[g] = 0 \/ (advances'[g] = 1 /\ Over(g)')
      /\ \A h \in Gates \ {g} : advances'[h] = advances[h]
      /\ advances' \in [Gates -> Nat]
  BY <1>0, <1>1, <1>3 DEF HistTypes
<1>5. run'[p].pc \in Outside /\ \A q \in Procs \ {p} : run'[q] = run[q]
  BY LeavesIs, Zenon
<1>6. Hooked(p)' BY <1>5, Zenon DEF Hooked, Outside
<1>7. ASSUME NEW q \in Procs \ {p} PROVE Hooked(q)'
  <2>1. SUFFICES ASSUME run[q].pc = "commit" PROVE advances'[run[q].gate] = 1
    BY <1>5, Zenon DEF Hooked
  <2>2. run[q].gate \in Gates /\ run[q].gate # g
    BY <1>7, <1>10, <2>1, RunType, OneCommits, Zenon
  <2> QED BY <1>4, <2>1, <2>2, Zenon DEF Hooks, Hooked
<1>8. Advanced(g)' BY <1>2, <1>4 DEF Advanced
<1>9. ASSUME NEW h \in Gates \ {g} PROVE Advanced(h)'
  <2>1. SUFFICES ASSUME advances[h] > 0
                 PROVE  advances[h] = 1 /\ Opened(h)' /\ (Committing(h)' \/ Over(h)')
    BY <1>4, Zenon DEF Advanced
  <2>2. advances[h] = 1 /\ Opened(h) /\ (Committing(h) \/ Over(h))
    BY <2>1, Zenon DEF Hooks, Advanced
  <2>3. Opened(h)' BY <2>2, OpenedStays, Zenon
  <2>4. CASE Over(h) BY <2>2, <2>3, <2>4, OverStays, Zenon
  <2>5. CASE Committing(h)
    <3>1. PICK q \in Procs : run[q].pc = "commit" /\ run[q].gate = h
      BY <2>5, Zenon DEF Committing
    <3>2. run'[q] = run[q] BY <1>5, <1>9, <1>10, <3>1, Zenon
    <3>3. Committing(h)' BY <3>1, <3>2, Zenon DEF Committing
    <3> QED BY <2>2, <2>3, <3>3, Zenon
  <2> QED BY <2>2, <2>4, <2>5, Zenon
<1> QED BY <1>4, <1>6, <1>7, <1>8, <1>9, Zenon DEF Hooks

(* The count of runs of the hook stays right. *)
LEMMA HooksStep ==
  ASSUME StoreTypes, Images, RunTypes, RunsTrue, starts \in Nat, Locked, HistTypes, Hooks,
         \A g \in Gates : Moves(g), [Next]_vars
  PROVE  Hooks' /\ advances' \in [Gates -> Nat]
<1>0. advances \in [Gates -> Nat] BY Zenon DEF HistTypes
<1>1. CASE Still
  <2>1. UNCHANGED <<run, advances>> BY <1>1, Zenon DEF Still
  <2> QED BY <1>0, <2>1, HooksStay, Zenon
<1>2. CASE Around
  <2>1. UNCHANGED advances BY <1>2, Zenon DEF Around
  <2>2. ASSUME NEW p \in Procs, Enters(p), NEW q \in Procs, run'[q] # run[q]
        PROVE  run[q].pc # "commit" /\ run'[q].pc # "commit"
    <3>1. q = p BY <2>2, EntersIs, Zenon
    <3> QED BY <2>2, <3>1, EntersIs, Zenon DEF Outside
  <2>3. \A q \in Procs : \/ run'[q] = run[q]
                         \/ (run[q].pc # "commit" /\ run'[q].pc # "commit")
    BY <1>2, <2>2, Zenon DEF Around
  <2> QED BY <1>0, <2>1, <2>3, HooksStay, Zenon
<1>3. CASE Crash
  <2>1. UNCHANGED advances /\ conts' = {} BY <1>3, Zenon DEF Crash, hist
  <2>2. ASSUME NEW q \in Procs PROVE Hooked(q)' BY <1>3, CrashRuns, Zenon DEF Hooked, Outside
  <2>3. ASSUME NEW g \in Gates PROVE Advanced(g)'
    <3>1. Over(g)' BY <2>1, Zenon DEF Over, IsLive
    <3>2. Opened(g) => Opened(g)' BY OpenedStays, Zenon
    <3> QED BY <2>1, <3>1, <3>2, Zenon DEF Hooks, Advanced
  <2> QED BY <1>0, <2>1, <2>2, <2>3, Zenon DEF Hooks
<1>4. ASSUME NEW p \in Procs, Serves(p) PROVE Hooks' /\ advances' \in [Gates -> Nat]
  <2>1. Held(p) /\ run[p].pc # "commit" /\ (Leaves(p) \/ Works(p))
    BY <1>4, Zenon DEF Serves, Body
  <2>2. \A q \in Procs \ {p} : run'[q] = run[q] BY <2>1, LeavesIs, WorksIs, Zenon
  <2>3. CASE run'[p].pc # "commit" /\ UNCHANGED advances
    <3>1. \A q \in Procs : \/ run'[q] = run[q]
                           \/ (run[q].pc # "commit" /\ run'[q].pc # "commit")
      BY <2>1, <2>2, <2>3, Zenon
    <3> QED BY <1>0, <2>3, <3>1, HooksStay, Zenon
  <2>4. CASE /\ Advance(p) /\ run' = [run EXCEPT ![p].pc = "commit"]
             /\ advances' = [advances EXCEPT ![run[p].gate] = @ + 1]
             /\ rec(run[p].gate).status = "accepted" /\ ~rec(run[p].gate).advanced
             /\ IsLive(run[p].gate)
    <3>1. run[p].pc = "advance" BY <2>4, Zenon DEF Advance, Holds
    <3>2. run'[p].pc = "commit" BY <2>4, RunType, Zenon DEF RunTypes, Run
    <3>3. Works(p) BY <2>1, <3>2, LeavesIs, Zenon DEF Outside
    <3> QED BY <2>1, <2>4, <3>1, <3>2, <3>3, HooksAdvance, Zenon
  <2>5. ASSUME Advance(p)
        PROVE  \/ /\ run' = [run EXCEPT ![p].pc = "commit"]
                  /\ advances' = [advances EXCEPT ![run[p].gate] = @ + 1]
                  /\ rec(run[p].gate).status = "accepted" /\ ~rec(run[p].gate).advanced
                  /\ IsLive(run[p].gate)
               \/ GivesUp(p) /\ UNCHANGED advances
    BY <2>5, Zenon DEF Advance
  <2>6. CASE run'[p].pc = "commit" /\ ~(GivesUp(p) /\ UNCHANGED advances)
    <3>1. Works(p) BY <2>1, <2>6, LeavesIs, Zenon DEF Outside
    <3>2. Advance(p) BY <2>6, <3>1, WorksIs, Zenon
    <3> QED BY <2>4, <2>5, <2>6, <3>2, Zenon
  <2>7. CASE GivesUp(p) /\ UNCHANGED advances
    <3>1. Leaves(p) BY <2>7, GaveUp, Zenon
    <3>2. run'[p].pc # "commit" BY <3>1, LeavesIs, Zenon DEF Outside
    <3> QED BY <2>3, <2>7, <3>2, Zenon
  <2>8. UNCHANGED advances \/ Advance(p) BY <1>4, Zenon DEF Serves
  <2> QED BY <2>3, <2>4, <2>5, <2>6, <2>7, <2>8, Zenon
<1>5. ASSUME NEW p \in Procs, Ends(p) PROVE Hooks' /\ advances' \in [Gates -> Nat]
  BY <1>5, HooksCommit, Zenon DEF Ends
<1> QED BY <1>1, <1>2, <1>3, <1>4, <1>5, NextIs, Zenon

-----------------------------------------------------------------------------
(* The inductive invariant.                                                *)
GateInv ==
  /\ StoreTypes /\ RunTypes /\ HistTypes /\ starts \in Nat
  /\ Images /\ Lags /\ (\A g \in Gates : Durable(g))
  /\ RunsTrue /\ Locked
  /\ (\A g \in Gates : Acked(g)) /\ (\A g \in Gates : Told(g)) /\ Hooks

(* The invariant holds of a session that was never opened. *)
LEMMA GateInit ==
  ASSUME Init
  PROVE  GateInv
<1>0. \A g \in Gates : file.rec[g] = NoGate /\ waiter[g] = "none" BY Zenon DEF Init
<1>1. NoGate \in Record /\ Sound(NoGate) /\ NoGate.status = "none" /\ NoGate.answer = NoAnswer
  BY Zenon DEF NoGate, Record, Sound, Keys
<1>2. file \in State /\ synced = file BY <1>1, Zenon DEF Init, State
<1>3. StoreTypes /\ starts \in Nat BY <1>2, Zenon DEF Init, StoreTypes
<1>4. RunTypes /\ \A p \in Procs : run[p].pc = "idle"
  BY IdleRun DEF Init, RunTypes, Idle
<1>5. HistTypes BY Zenon DEF Init, HistTypes
<1>6. Images
  <2>1. \A g \in Gates : /\ Sound(file.rec[g]) /\ file.rec[g].status = "none"
                         /\ ~Opened(g) /\ file.rec[g].answer = NoAnswer
    BY <1>0, <1>1, Zenon DEF Opened
  <2> QED BY <1>2, <2>1, Zenon DEF Images, Image
<1>7. Lags
  <2>1. conts = {} BY Zenon DEF Init
  <2> QED BY <1>2, <2>1, Zenon DEF Lags, Lag, rec
<1>8. \A g \in Gates : Durable(g) BY <1>0, GateAssumption, Zenon DEF Durable
<1>9. RunsTrue /\ Locked BY <1>4, Zenon DEF RunsTrue, Locked, Queued, Inside
<1>10. \A g \in Gates : Acked(g) /\ Told(g) /\ Advanced(g)
  BY DEF Init, Acked, Told, Advanced
<1>11. Hooks BY <1>4, <1>10, Zenon DEF Hooks, Hooked
<1> QED BY <1>3, <1>4, <1>5, <1>6, <1>7, <1>8, <1>9, <1>10, <1>11, Zenon DEF GateInv

(* What a step adds to the history. *)
LEMMA HistStep ==
  ASSUME StoreTypes, Images, RunTypes, RunsTrue, starts \in Nat, [Next]_vars
  PROVE  TellsTrue /\ AsksOnce
<1>1. CASE Still BY <1>1, Zenon DEF Still, TellsTrue, AsksOnce
<1>2. CASE Around BY <1>2, Zenon DEF Around, AsksOnce
<1>3. CASE Crash BY <1>3, Zenon DEF Crash, hist, TellsTrue, AsksOnce
<1>4. CASE \E p \in Procs : Serves(p) \/ Ends(p)
  BY <1>4, Zenon DEF Serves, Body, Ends, AsksOnce
<1> QED BY <1>1, <1>2, <1>3, <1>4, NextIs, Zenon

(* Every step keeps the invariant. *)
LEMMA GateNext ==
  ASSUME GateInv, [Next]_vars
  PROVE  GateInv'
<1>0. /\ StoreTypes /\ RunTypes /\ HistTypes /\ starts \in Nat
      /\ Images /\ Lags /\ RunsTrue /\ Locked /\ Hooks
  BY Zenon DEF GateInv
<1>1. StoreTypes' /\ \A g \in Gates : Moves(g) BY <1>0, GateMoves, Zenon DEF Moves
<1>2. starts' \in Nat BY <1>0, StartsStep, Zenon
<1>3. TellsTrue /\ AsksOnce BY <1>0, HistStep, Zenon
<1>4. Images' BY <1>0, <1>1, ImagesStep, Zenon DEF Images, Moves
<1>5. \A g \in Gates : Lag(g)' BY <1>0, <1>1, LagStep, Zenon DEF Lags, Moves
<1>6. \A g \in Gates : Durable(g)' BY <1>0, <1>1, DurableStep, Zenon DEF Lags, Moves, GateInv
<1>7. RunsTrue' BY <1>0, RunsTrueStep, Zenon
<1>8. RunTypes' /\ Locked' BY <1>0, LockedStep, RunMoves, Zenon
<1>9. \A g \in Gates : Acked(g)' /\ acks'[g] \in Nat
  BY <1>0, <1>1, <1>3, AckedStep, Zenon DEF GateInv
<1>10. \A g \in Gates : Told(g)' /\ told'[g] \in SUBSET Answers
  BY <1>0, <1>1, <1>3, <1>5, ToldStep, Zenon DEF GateInv
<1>11. Hooks' /\ advances' \in [Gates -> Nat] BY <1>0, <1>1, HooksStep, Zenon
<1>12. HistTypes'
  <2>1. told' \in [Gates -> SUBSET Answers]
    BY <1>0, <1>3, <1>10, Zenon DEF HistTypes, TellsTrue, Tells
  <2>2. acks' \in [Gates -> Nat]
    BY <1>0, <1>3, <1>9, Zenon DEF HistTypes, AsksOnce, Asks
  <2> QED BY <1>11, <2>1, <2>2, Zenon DEF HistTypes
<1> QED BY <1>1, <1>2, <1>4, <1>5, <1>6, <1>7, <1>8, <1>9, <1>10, <1>11, <1>12, Zenon
        DEF GateInv, Lags

(* The invariant holds in every state of every behaviour. *)
THEOREM GatesHold == Spec => []GateInv
BY GateInit, GateNext, PTL DEF Spec

(* A workflow continues only on a record that already says so, in the file *)
(* and in what a power failure would bring back (#commitAdvanced settles   *)
(* emitGate's promise after its write returned).                           *)
THEOREM ContinuationIsDurable == Spec => []ContinuedIsDurable
<1>1. GateInv => ContinuedIsDurable BY Zenon DEF GateInv, Durable, ContinuedIsDurable
<1> QED BY <1>1, GatesHold, PTL

(* The Telegram acknowledgement is requested at most once: the attempt is  *)
(* on record, in both images, before the request leaves.                   *)
THEOREM AcksAreSingle == Spec => []AckOnce
<1>1. GateInv => AckOnce BY DEF GateInv, HistTypes, Acked, AckOnce
<1> QED BY <1>1, GatesHold, PTL

(* A gate that was acknowledged, or whose acceptance a client was told of, *)
(* is not listed to clients any more.                                      *)
THEOREM ListsAreCurrent == Spec => []NotOfferedAgain
<1>1. ASSUME GateInv, NEW g \in Gates, acks[g] > 0 \/ told[g] # {} PROVE ~Listed(g)
  <2>0. rec(g) \in Record /\ Sound(rec(g)) BY <1>1, RecSound, Zenon DEF GateInv
  <2>1. CASE acks[g] > 0 BY <1>1, <2>1, Zenon DEF GateInv, Acked, Listed, Closed, rec
  <2>2. CASE told[g] # {}
    <3>1. PICK a : a \in told[g] BY <2>2, Zenon
    <3>2. a \in Answers /\ NoAnswer \notin Answers
      BY <1>1, <3>1, GateAssumption, Zenon DEF GateInv, HistTypes
    <3>3. g \in conts => rec(g).answer = a BY <1>1, <3>1, Zenon DEF GateInv, Told
    <3> QED BY <2>0, <3>2, <3>3, Zenon DEF Listed, IsLive, Sound
  <2> QED BY <1>1, <2>1, <2>2, Zenon
<1>2. GateInv => NotOfferedAgain BY <1>1, Zenon DEF NotOfferedAgain
<1> QED BY <1>2, GatesHold, PTL

(* resolve and any number of recoveries, timers and retries never both run *)
(* the advance hook of a gate, unless a run failed or left no record.      *)
THEOREM HookRunsOnce == Spec => []AdvanceOnce
<1>1. GateInv => AdvanceOnce BY DEF GateInv, HistTypes, Hooks, Advanced, AdvanceOnce
<1> QED BY <1>1, GatesHold, PTL

-----------------------------------------------------------------------------
(* The contract of GateContract, phase by phase. *)

(* The phase of a gate, from its promise, its continuation and its record. *)
LEMMA PhaseIs ==
  ASSUME NEW g \in Gates
  PROVE  /\ waiter[g] = "none" => Phase(g) = "unopened"
         /\ waiter[g] \in Answers => Phase(g) = "continued"
         /\ IsLive(g) /\ rec(g).status = "pending" => Phase(g) = "open"
         /\ IsLive(g) /\ rec(g).status = "accepted" => Phase(g) = "chosen"
         /\ /\ waiter[g] # "none" /\ waiter[g] \notin Answers
            /\ ~(IsLive(g) /\ rec(g).status \in {"pending", "accepted"})
            => Phase(g) = "withdrawn"
<1>1. "none" \notin Answers /\ "waiting" \notin Answers BY GateAssumption, Zenon
<1>2. IsLive(g) => waiter[g] = "waiting" BY Zenon DEF IsLive
<1> QED BY <1>1, <1>2, Zenon DEF Phase

(* The same, after the step. *)
LEMMA PhaseBecomes ==
  ASSUME NEW g \in Gates
  PROVE  /\ waiter'[g] = "none" => Phase(g)' = "unopened"
         /\ waiter'[g] \in Answers => Phase(g)' = "continued"
         /\ IsLive(g)' /\ file'.rec[g].status = "pending" => Phase(g)' = "open"
         /\ IsLive(g)' /\ file'.rec[g].status = "accepted" => Phase(g)' = "chosen"
         /\ /\ waiter'[g] # "none" /\ waiter'[g] \notin Answers
            /\ ~(IsLive(g)' /\ file'.rec[g].status \in {"pending", "accepted"})
            => Phase(g)' = "withdrawn"
<1>1. "none" \notin Answers /\ "waiting" \notin Answers BY GateAssumption, Zenon
<1>2. IsLive(g)' => waiter'[g] = "waiting" BY Zenon DEF IsLive
<1> QED BY <1>1, <1>2, Zenon DEF Phase, rec

Rests(g) == Phase(g)' = Phase(g) /\ file'.rec[g].answer = rec(g).answer
Drops(g) == /\ Phase(g) \in {"open", "chosen", "withdrawn"} /\ Phase(g)' = "withdrawn"
            /\ file'.rec[g].answer \in {rec(g).answer, NoAnswer}
Picks(g) == /\ Phase(g) = "open" /\ Phase(g)' \in {"chosen", "withdrawn"}
            /\ file'.rec[g].answer \in Answers

(* A gate other than the step's own rests. *)
LEMMA ElsewhereRests ==
  ASSUME NEW g, Elsewhere(g), NEW h \in Gates \ {g}
  PROVE  Rests(h)
<1>1. /\ file'.rec[h] = rec(h) /\ waiter'[h] = waiter[h]
      /\ (h \in conts' <=> h \in conts)
  BY Zenon DEF Elsewhere
<1> QED BY <1>1, Zenon DEF Phase, IsLive, rec, Rests

(* A kept gate rests, is dropped, or has its answer picked. *)
LEMMA KeptPhase ==
  ASSUME StoreTypes, StoreTypes', Images, NEW g \in Gates, Kept(g)
  PROVE  IF file'.rec[g].answer = rec(g).answer THEN Rests(g) \/ Drops(g) ELSE Picks(g)
<1> DEFINE r == rec(g)
           x == file'.rec[g]
<1>1. /\ r \in Record /\ Sound(r) /\ x \in Record /\ NoAnswer \notin Answers
      /\ \A a \in Answers : a \notin {"none", "waiting", "rejected", "dead"}
  <2>1. r \in Record /\ Sound(r) BY RecSound, Zenon
  <2>2. x \in Record BY RecType, Zenon DEF StoreTypes
  <2> QED BY <2>1, <2>2, GateAssumption, Zenon
<1>2. /\ Later(r, x) /\ (x.answer = r.answer \/ (r.status = "pending" /\ IsLive(g)))
      /\ Promise(g)
  BY Zenon DEF Kept, After
<1>3. /\ waiter'[g] = waiter[g] \/ (waiter[g] = "waiting" /\ waiter'[g] = "rejected")
      /\ IsLive(g)' => IsLive(g)
  BY <1>2, Zenon DEF Promise, IsLive
<1>4. /\ Sound(x) /\ (r.status = "none" => x.status = "none")
      /\ (r.status \in Closed => x.status \in Closed)
      /\ (r.status = "quarantined" => x.status = "quarantined")
  BY <1>2, Zenon DEF Later
<1>5. /\ r.status \in {"none", "pending"} \cup Closed
      /\ x.status \in {"none", "pending"} \cup Closed
      /\ x.answer \in Answers \cup {NoAnswer} /\ r.answer \in Answers \cup {NoAnswer}
  BY <1>1, Zenon DEF Record
<1> HIDE DEF r, x
<1>6. IsLive(g) => waiter[g] = "waiting" BY Zenon DEF IsLive
<1>7. CASE waiter[g] = "none"
  <2>1. waiter'[g] = "none" /\ ~IsLive(g) BY <1>3, <1>6, <1>7, Zenon
  <2>2. x.answer = r.answer BY <1>2, <2>1, Zenon
  <2>3. Phase(g) = "unopened" /\ Phase(g)' = "unopened" BY <1>7, <2>1, PhaseIs, PhaseBecomes, Zenon
  <2> QED BY <2>2, <2>3, Zenon DEF Rests, r, x
<1>8. CASE waiter[g] \in Answers
  <2>1. waiter'[g] = waiter[g] /\ ~IsLive(g) BY <1>1, <1>3, <1>6, <1>8, Zenon
  <2>2. x.answer = r.answer BY <1>2, <2>1, Zenon
  <2>3. Phase(g) = "continued" /\ Phase(g)' = "continued"
    BY <1>8, <2>1, PhaseIs, PhaseBecomes, Zenon
  <2> QED BY <2>2, <2>3, Zenon DEF Rests, r, x
<1>9. CASE waiter[g] # "none" /\ waiter[g] \notin Answers
  <2>0. waiter'[g] # "none" /\ waiter'[g] \notin Answers BY <1>1, <1>3, <1>9, Zenon
  <2>1. /\ IsLive(g) /\ r.status = "pending" => Phase(g) = "open"
        /\ IsLive(g) /\ r.status = "accepted" => Phase(g) = "chosen"
        /\ ~(IsLive(g) /\ r.status \in {"pending", "accepted"}) => Phase(g) = "withdrawn"
    BY <1>9, PhaseIs, Zenon DEF r
  <2>2. /\ IsLive(g)' /\ x.status = "pending" => Phase(g)' = "open"
        /\ IsLive(g)' /\ x.status = "accepted" => Phase(g)' = "chosen"
        /\ ~(IsLive(g)' /\ x.status \in {"pending", "accepted"}) => Phase(g)' = "withdrawn"
    BY <2>0, PhaseBecomes, Zenon DEF x
  <2>3. Phase(g) \in {"open", "chosen", "withdrawn"} BY <2>1, Zenon
  <2>4. CASE x.answer # r.answer
    <3>1. r.status = "pending" /\ IsLive(g) /\ r.answer = NoAnswer
      BY <1>1, <1>2, <2>4, Zenon DEF Sound, r
    <3>2. x.answer \in Answers /\ x.status \notin {"none", "pending"}
      BY <1>4, <1>5, <2>4, <3>1, Zenon DEF Sound
    <3>3. Phase(g) = "open" /\ Phase(g)' \in {"chosen", "withdrawn"}
      BY <1>5, <2>1, <2>2, <3>1, <3>2, Zenon DEF Closed
    <3> QED BY <2>4, <3>2, <3>3, Zenon DEF Picks, r, x
  <2>5. CASE x.answer = r.answer
    <3>1. CASE IsLive(g)' /\ x.status = "pending"
      <4>1. r.status = "pending" BY <1>4, <1>5, <3>1, Zenon DEF Closed
      <4> QED BY <1>3, <2>1, <2>2, <2>5, <3>1, <4>1, Zenon DEF Rests, r, x
    <3>2. CASE IsLive(g)' /\ x.status = "accepted"
      <4>1. r.status # "pending" BY <1>1, <1>4, <2>5, <3>2, Zenon DEF Sound, r
      <4>2. r.status = "accepted" BY <1>4, <1>5, <3>2, <4>1, Zenon DEF Closed
      <4> QED BY <1>3, <2>1, <2>2, <2>5, <3>2, <4>2, Zenon DEF Rests, r, x
    <3>3. CASE ~(IsLive(g)' /\ x.status \in {"pending", "accepted"})
      BY <2>2, <2>3, <2>5, <3>3, Zenon DEF Drops, r, x
    <3> QED BY <3>1, <3>2, <3>3, Zenon
  <2> QED BY <2>4, <2>5, Zenon
<1> QED BY <1>7, <1>8, <1>9, Zenon

(* A gate whose record was just written opens, or rests when its write     *)
(* failed.                                                                 *)
LEMMA FreshPhase ==
  ASSUME StoreTypes, Images, NEW g \in Gates, Fresh(g)
  PROVE  \/ Rests(g)
         \/ /\ Phase(g) = "unopened" /\ Phase(g)' = "open"
            /\ file'.rec[g].answer = rec(g).answer
<1>2. waiter[g] = "none" /\ file'.rec[g].status = "pending" BY Zenon DEF Fresh, Opened
<1>3. Phase(g) = "unopened" BY <1>2, PhaseIs, Zenon
<1>4. file'.rec[g].answer = rec(g).answer
  <2>1. Sound(rec(g)) BY RecSound, Zenon
  <2>2. rec(g).answer = NoAnswer BY <2>1, Zenon DEF Fresh, Sound
  <2>3. file'.rec[g].answer = NoAnswer BY Zenon DEF Fresh, Sound
  <2> QED BY <2>2, <2>3, Zenon
<1>5. CASE waiter'[g] = "waiting" /\ g \in conts'
  <2>1. IsLive(g)' BY <1>5, Zenon DEF IsLive
  <2>2. Phase(g)' = "open" BY <1>2, <2>1, PhaseBecomes, Zenon
  <2> QED BY <1>3, <1>4, <2>2, Zenon
<1>6. CASE waiter'[g] = waiter[g]
  <2>1. Phase(g)' = "unopened" BY <1>2, <1>6, PhaseBecomes, Zenon
  <2> QED BY <1>3, <1>4, <2>1, Zenon DEF Rests
<1> QED BY <1>5, <1>6, Zenon DEF Fresh

(* A settled gate continues with the answer that was chosen. *)
LEMMA SettledPhase ==
  ASSUME StoreTypes, Images, NEW g \in Gates, Settled(g)
  PROVE  /\ Phase(g) = "chosen" /\ Phase(g)' = "continued"
         /\ file'.rec[g].answer = rec(g).answer
<1>1. /\ rec(g).status = "accepted" /\ IsLive(g) /\ waiter'[g] = rec(g).answer
      /\ file'.rec[g].answer = rec(g).answer
  BY Zenon DEF Settled
<1>2. waiter'[g] \in Answers
  <2>1. rec(g) \in Record /\ Sound(rec(g)) BY RecSound, Zenon
  <2> QED BY <1>1, <2>1, Zenon DEF Record, Sound
<1> QED BY <1>1, <1>2, PhaseIs, PhaseBecomes, Zenon

(* The death of the process withdraws the gates that are neither unopened  *)
(* nor continued, and may lose an answer that was not durable.             *)
LEMMA DiesPhase ==
  ASSUME Images, NEW g \in Gates, Lag(g), Durable(g), Dies(g)
  PROVE  Rests(g) \/ Drops(g)
<1>0. /\ \A a \in Answers : a \notin {"none", "waiting", "rejected", "dead"}
      /\ ~IsLive(g)'
  BY GateAssumption, Zenon DEF Dies, IsLive
<1>2. file'.rec[g].answer \in {rec(g).answer, NoAnswer}
  BY Zenon DEF Dies, Lag, rec
<1>3. CASE waiter[g] = "none"
  <2>1. waiter'[g] = "none" BY <1>3, Zenon DEF Dies
  <2>2. file'.rec[g].answer = rec(g).answer
    <3>1. rec(g).answer = NoAnswer BY <1>3, Zenon DEF Images, Image, Opened, rec
    <3> QED BY <1>2, <3>1, Zenon
  <2> QED BY <1>3, <2>1, <2>2, PhaseIs, PhaseBecomes, Zenon DEF Rests
<1>4. CASE waiter[g] \in Answers
  <2>1. waiter'[g] \in Answers BY <1>0, <1>4, Zenon DEF Dies
  <2>2. file'.rec[g].answer = rec(g).answer BY <1>4, Zenon DEF Durable, Dies, rec
  <2>3. Phase(g) = "continued" /\ Phase(g)' = "continued"
    BY <1>4, <2>1, PhaseIs, PhaseBecomes, Zenon
  <2> QED BY <2>2, <2>3, Zenon DEF Rests
<1>5. CASE waiter[g] # "none" /\ waiter[g] \notin Answers
  <2>1. waiter'[g] # "none" /\ waiter'[g] \notin Answers BY <1>0, <1>5, Zenon DEF Dies
  <2>2. Phase(g)' = "withdrawn" BY <1>0, <2>1, PhaseBecomes, Zenon
  <2>3. /\ IsLive(g) /\ rec(g).status = "pending" => Phase(g) = "open"
        /\ IsLive(g) /\ rec(g).status = "accepted" => Phase(g) = "chosen"
        /\ ~(IsLive(g) /\ rec(g).status \in {"pending", "accepted"}) => Phase(g) = "withdrawn"
    BY <1>5, PhaseIs, Zenon
  <2>4. Phase(g) \in {"open", "chosen", "withdrawn"} BY <2>3, Zenon
  <2> QED BY <1>2, <2>2, <2>4, Zenon DEF Drops
<1> QED BY <1>3, <1>4, <1>5, Zenon

(* The actions of the contract, one by one.  Gates that all rest: none. *)
LEMMA StutterIs ==
  ASSUME \A g \in Gates : Rests(g), UNCHANGED told
  PROVE  UNCHANGED Contract!cvars
<1>1. [g \in Gates |-> Phase(g)]' = [g \in Gates |-> Phase(g)] BY Zenon DEF Rests
<1>2. [g \in Gates |-> rec(g).answer]' = [g \in Gates |-> rec(g).answer]
  BY Zenon DEF Rests, rec
<1> QED BY <1>1, <1>2, Zenon DEF Contract!cvars

(* Gates that rest or are dropped: Withdraw. *)
LEMMA WithdrawIs ==
  ASSUME \A g \in Gates : Rests(g) \/ Drops(g), UNCHANGED told
  PROVE  Contract!CNext \/ UNCHANGED Contract!cvars
<1> DEFINE S == {g \in Gates : Drops(g)}
<1>1. CASE S = {} BY <1>1, StutterIs, Zenon
<1>2. CASE S # {}
  <2>1. \A g \in S : [h \in Gates |-> Phase(h)][g] \in {"open", "chosen", "withdrawn"}
    BY Zenon DEF Drops
  <2>2. [g \in Gates |-> Phase(g)]'
          = [g \in Gates |-> IF g \in S THEN "withdrawn" ELSE [h \in Gates |-> Phase(h)][g]]
    <3>1. \A g \in Gates : Phase(g)' = IF g \in S THEN "withdrawn" ELSE Phase(g)
      BY Zenon DEF Drops, Rests
    <3> HIDE DEF S
    <3> QED BY <3>1, Zenon
  <2>3. \A g \in Gates :
          \/ [h \in Gates |-> rec(h).answer]'[g] = [h \in Gates |-> rec(h).answer][g]
          \/ g \in S /\ [h \in Gates |-> rec(h).answer]'[g] = NoAnswer
    BY Zenon DEF Drops, Rests, rec
  <2>4. DOMAIN [h \in Gates |-> rec(h).answer]' = Gates BY Zenon
  <2>5. S \in SUBSET Gates BY Zenon
  <2> HIDE DEF S
  <2>6. Contract!Withdraw(S) BY <1>2, <2>1, <2>2, <2>3, <2>4, Zenon DEF Contract!Withdraw
  <2> QED BY <2>5, <2>6, Zenon DEF Contract!CNext
<1> QED BY <1>1, <1>2, Zenon

(* One gate moves, the others rest. *)
LEMMA OneMoves ==
  ASSUME NEW g \in Gates, \A h \in Gates \ {g} : Rests(h)
  PROVE  /\ [h \in Gates |-> Phase(h)]' = [[h \in Gates |-> Phase(h)] EXCEPT ![g] = Phase(g)']
         /\ [h \in Gates |-> rec(h).answer]'
              = [[h \in Gates |-> rec(h).answer] EXCEPT ![g] = file'.rec[g].answer]
         /\ file'.rec[g].answer = rec(g).answer =>
              [h \in Gates |-> rec(h).answer]' = [h \in Gates |-> rec(h).answer]
         /\ [h \in Gates |-> Phase(h)][g] = Phase(g)
         /\ [h \in Gates |-> rec(h).answer][g] = rec(g).answer
BY Zenon DEF Rests, rec

(* A gate opens: Open. *)
LEMMA OpenIs ==
  ASSUME NEW g \in Gates, \A h \in Gates \ {g} : Rests(h), UNCHANGED told,
         Phase(g) = "unopened", Phase(g)' = "open", file'.rec[g].answer = rec(g).answer
  PROVE  Contract!CNext
<1>1. Contract!Open(g) BY OneMoves, Zenon DEF Contract!Open
<1> QED BY <1>1, Zenon DEF Contract!CNext

(* An answer is picked: Choose. *)
LEMMA ChooseIs ==
  ASSUME NEW g \in Gates, \A h \in Gates \ {g} : Rests(h), UNCHANGED told, Picks(g)
  PROVE  Contract!CNext
<1>1. Contract!Choose(g, file'.rec[g].answer) BY OneMoves, Zenon DEF Contract!Choose, Picks
<1>2. file'.rec[g].answer \in Answers BY Zenon DEF Picks
<1> QED BY <1>1, <1>2, Zenon DEF Contract!CNext

(* A workflow continues: Continue. *)
LEMMA ContinueIs ==
  ASSUME NEW g \in Gates, \A h \in Gates \ {g} : Rests(h),
         Phase(g) = "chosen", Phase(g)' = "continued", file'.rec[g].answer = rec(g).answer,
         \/ UNCHANGED told
         \/ told' = [told EXCEPT ![g] = @ \cup {rec(g).answer}]
  PROVE  Contract!CNext
<1>1. Contract!Continue(g) BY OneMoves, Zenon DEF Contract!Continue
<1> QED BY <1>1, Zenon DEF Contract!CNext

(* A client is told while every gate rests: Tell. *)
LEMMA TellIs ==
  ASSUME \A h \in Gates : Rests(h), TellsTrue
  PROVE  Contract!CNext \/ UNCHANGED Contract!cvars
<1>1. CASE UNCHANGED told BY <1>1, StutterIs, Zenon
<1>2. ASSUME NEW g \in Gates, Tells(g) PROVE Contract!CNext
  <2>1. rec(g).answer # NoAnswer /\ told' = [told EXCEPT ![g] = @ \cup {rec(g).answer}]
    BY <1>2, GateAssumption, Zenon DEF Tells
  <2>2. [h \in Gates |-> Phase(h)]' = [h \in Gates |-> Phase(h)] BY Zenon DEF Rests
  <2>3. Contract!Tell(g) BY <2>1, <2>2, OneMoves, Zenon DEF Contract!Tell, Rests
  <2> QED BY <2>3, Zenon DEF Contract!CNext
<1> QED BY <1>1, <1>2, Zenon DEF TellsTrue

(* Nothing happens to a gate when neither the store nor its promise moves. *)
LEMMA QuietRests ==
  ASSUME UNCHANGED <<disk, conts, waiter>>, NEW g \in Gates
  PROVE  Rests(g)
BY Zenon DEF Phase, IsLive, rec, disk, Rests

(* The commit of a resolve tells its client the answer on record, and the  *)
(* gate is then settled with it: the promise cannot have stayed as it was. *)
LEMMA CommitTells ==
  ASSUME StoreTypes, Images, RunTypes, NEW p \in Procs, Commit(p), KeepsGates
  PROVE  UNCHANGED told
<1>0. PICK g \in Gates : g = run[p].gate BY RunType, Zenon
<1>1. \/ UNCHANGED told
      \/ /\ rec(g).status = "accepted" /\ IsLive(g)
         /\ waiter' = [waiter EXCEPT ![g] = rec(g).answer]
  BY <1>0, Zenon DEF Commit
<1>2. ASSUME rec(g).status = "accepted", IsLive(g),
             waiter' = [waiter EXCEPT ![g] = rec(g).answer]
      PROVE  FALSE
  <2>1. rec(g).answer \in Answers
    <3>1. rec(g) \in Record /\ Sound(rec(g)) BY RecSound, Zenon
    <3> QED BY <1>2, <3>1, Zenon DEF Record, Sound
  <2>2. waiter'[g] = rec(g).answer BY <1>2, Zenon DEF StoreTypes
  <2>3. waiter'[g] \in {"waiting", "rejected"}
    <3>1. Promise(g) BY Zenon DEF KeepsGates, Kept
    <3> QED BY <1>2, <3>1, Zenon DEF Promise, IsLive
  <2> QED BY <2>1, <2>2, <2>3, GateAssumption, Zenon
<1> QED BY <1>1, <1>2, Zenon

(* A step of an operation is one step of the contract, or none. *)
LEMMA StepRefines ==
  ASSUME StoreTypes, StoreTypes', Images, RunTypes, RunsTrue, NEW p \in Procs, Step(p)
  PROVE  Contract!CNext \/ UNCHANGED Contract!cvars
<1>0. PICK g \in Gates : g = run[p].gate BY RunType, Zenon
<1>1. Elsewhere(g) /\ (Hushed \/ Commit(p)) BY <1>0, StepFar, Zenon
<1>2. \A h \in Gates \ {g} : Rests(h) BY <1>1, ElsewhereRests, Zenon
<1>3. (KeepsGates \/ Settles(p)) /\ TellsTrue
  BY StepIs, Zenon DEF Serves, Body, Ends, Around
<1>4. CASE UNCHANGED <<disk, conts, waiter>>
  <2>1. \A h \in Gates : Rests(h) BY <1>4, QuietRests, Zenon
  <2> QED BY <1>3, <2>1, TellIs, Zenon
<1>5. CASE KeepsGates /\ UNCHANGED told
  <2>1. Rests(g) \/ Drops(g) \/ Picks(g)
    <3>1. Kept(g) BY <1>5, Zenon DEF KeepsGates
    <3> QED BY <3>1, KeptPhase, Zenon
  <2>2. CASE Picks(g) BY <1>2, <1>5, <2>2, ChooseIs, Zenon
  <2>3. CASE Rests(g) \/ Drops(g)
    <3>1. \A h \in Gates : Rests(h) \/ Drops(h) BY <1>2, <2>3, Zenon
    <3> QED BY <1>5, <3>1, WithdrawIs, Zenon
  <2> QED BY <2>1, <2>2, <2>3, Zenon
<1>6. CASE Settles(p)
  <2>1. Settled(g) BY <1>0, <1>6, SettlesIs, Zenon
  <2>2. /\ Phase(g) = "chosen" /\ Phase(g)' = "continued"
        /\ file'.rec[g].answer = rec(g).answer
    BY <2>1, SettledPhase, Zenon
  <2>3. UNCHANGED told \/ told' = [told EXCEPT ![g] = @ \cup {rec(g).answer}]
    <3>1. CASE Commit(p) BY <1>0, <3>1, Zenon DEF Commit
    <3>2. CASE UNCHANGED <<disk, conts, waiter>>
      <4>1. g \in conts /\ g \notin conts' BY <2>1, Zenon DEF Settled, IsLive
      <4> QED BY <3>2, <4>1, Zenon
    <3> QED BY <1>1, <3>1, <3>2, Zenon DEF Hushed
  <2> QED BY <1>2, <2>2, <2>3, ContinueIs, Zenon
<1>7. CASE KeepsGates /\ Commit(p)
  <2>1. UNCHANGED told BY <1>7, CommitTells, Zenon
  <2> QED BY <1>5, <1>7, <2>1, Zenon
<1> QED BY <1>1, <1>3, <1>4, <1>5, <1>6, <1>7, Zenon DEF Hushed

(* emitGate is one step of the contract, or none. *)
LEMMA EmitRefines ==
  ASSUME StoreTypes, StoreTypes', Images, EmitGate
  PROVE  Contract!CNext \/ UNCHANGED Contract!cvars
<1>0. UNCHANGED told BY EmitStep, Zenon
<1>1. CASE KeepsGates /\ \A h \in Gates : file'.rec[h] = rec(h)
  <2>1. ASSUME NEW h \in Gates PROVE Rests(h) \/ Drops(h)
    <3>1. Kept(h) /\ file'.rec[h].answer = rec(h).answer BY <1>1, Zenon DEF KeepsGates
    <3> QED BY <3>1, KeptPhase, Zenon
  <2> QED BY <1>0, <2>1, WithdrawIs, Zenon
<1>2. ASSUME NEW g \in Gates, Opens(g) PROVE Contract!CNext \/ UNCHANGED Contract!cvars
  <2>1. Elsewhere(g) BY <1>2, Zenon DEF Opens, Elsewhere
  <2>2. \A h \in Gates \ {g} : Rests(h) BY <2>1, ElsewhereRests, Zenon
  <2>3. Fresh(g) BY <1>2, Zenon DEF Opens, Fresh
  <2>4. CASE Rests(g)
    <3>1. \A h \in Gates : Rests(h) BY <2>2, <2>4, Zenon
    <3> QED BY <1>0, <3>1, StutterIs, Zenon
  <2>5. CASE /\ Phase(g) = "unopened" /\ Phase(g)' = "open"
             /\ file'.rec[g].answer = rec(g).answer
    BY <1>0, <2>2, <2>5, OpenIs, Zenon
  <2> QED BY <2>3, <2>4, <2>5, FreshPhase, Zenon
<1> QED BY <1>1, <1>2, EmitStep, Zenon

(* Every step of the broker is a step of the contract, or none. *)
LEMMA Refines ==
  ASSUME GateInv, [Next]_vars
  PROVE  Contract!CNext \/ UNCHANGED Contract!cvars
<1>0. /\ StoreTypes /\ RunTypes /\ starts \in Nat /\ Images /\ RunsTrue
      /\ \A g \in Gates : Lag(g) /\ Durable(g)
  BY Zenon DEF GateInv, Lags
<1>1. StoreTypes' BY <1>0, GateMoves, Zenon
<1>2. TellsTrue BY <1>0, HistStep, Zenon
<1>3. CASE Start \/ Fence
  <2>1. KeepsGates /\ SameAnswers /\ UNCHANGED told
    BY <1>0, <1>3, StartStep, FenceStep, SweepAnswers, Zenon
  <2>2. ASSUME NEW h \in Gates PROVE Rests(h) \/ Drops(h)
    <3>1. Kept(h) /\ file'.rec[h].answer = rec(h).answer
      BY <2>1, Zenon DEF KeepsGates, SameAnswers
    <3> QED BY <1>0, <1>1, <3>1, KeptPhase, Zenon
  <2> QED BY <2>1, <2>2, WithdrawIs, Zenon
<1>4. CASE Crash
  <2>1. /\ file' \in {file, synced} /\ synced' = file' /\ conts' = {}
        /\ waiter' = [g \in Gates |-> IF waiter[g] = "waiting" THEN "dead" ELSE waiter[g]]
        /\ UNCHANGED told
    BY <1>4, Zenon DEF Crash, hist
  <2>2. \A g \in Gates : Dies(g) BY <2>1, Zenon DEF Dies
  <2>3. \A g \in Gates : Rests(g) \/ Drops(g) BY <1>0, <2>2, DiesPhase, Zenon
  <2> QED BY <2>1, <2>3, WithdrawIs, Zenon
<1>5. CASE EmitGate BY <1>0, <1>1, <1>5, EmitRefines, Zenon
<1>6. CASE UNCHANGED <<disk, conts, waiter>>
  <2>1. \A h \in Gates : Rests(h) BY <1>6, QuietRests, Zenon
  <2> QED BY <1>2, <2>1, TellIs, Zenon
<1>7. CASE \E p \in Procs : Step(p) BY <1>0, <1>1, <1>7, StepRefines, Zenon
<1>8. CASE UNCHANGED vars BY <1>6, <1>8, Zenon DEF vars, disk
<1>9. CASE \/ Attach \/ Suspend \/ Resume
           \/ \E c \in Calls : AnswerGate(c) \/ AnswerFromNotification(c)
           \/ \E p \in Recoverers : TimerFires(p) \/ HostRecovers(p)
  <2>1. UNCHANGED <<disk, conts, waiter>>
    BY <1>9, Zenon DEF Attach, Suspend, Resume, AnswerGate, AnswerFromNotification,
                       TimerFires, HostRecovers, proc
  <2> QED BY <1>6, <2>1, Zenon
<1> QED BY <1>3, <1>4, <1>5, <1>7, <1>8, <1>9, Zenon DEF Next

(* The broker, with its store, its locks, its recoveries and its crashes,  *)
(* keeps the contract of GateContract: one answer, chosen once, continued  *)
(* or withdrawn and never taken back, and told to clients only as chosen.  *)
THEOREM BrokerKeepsContract == Spec => KeepsContract
<1>1. ASSUME Init PROVE Contract!CInit
  <2>1. ASSUME NEW g \in Gates PROVE Phase(g) = "unopened" /\ rec(g).answer = NoAnswer
    <3>1. waiter[g] = "none" /\ rec(g) = NoGate BY <1>1, Zenon DEF Init, rec
    <3>2. NoGate.answer = NoAnswer BY Zenon DEF NoGate
    <3> QED BY <3>1, <3>2, PhaseIs, Zenon
  <2>2. [g \in Gates |-> Phase(g)] = [g \in Gates |-> "unopened"] BY <2>1, Zenon
  <2>3. [g \in Gates |-> rec(g).answer] = [g \in Gates |-> NoAnswer] BY <2>1, Zenon
  <2>4. told = [g \in Gates |-> {}] BY <1>1, Zenon DEF Init
  <2> QED BY <2>2, <2>3, <2>4, Zenon DEF Contract!CInit
<1>2. GateInv /\ [Next]_vars => [Contract!CNext]_(Contract!cvars) BY Refines, Zenon
<1> QED BY <1>1, <1>2, GatesHold, PTL DEF Spec, KeepsContract, Contract!CSpec

INSTANCE FiniteSetTheorems

(* No gate is ever settled with two answers, whatever is retried,          *)
(* recovered or restarted.                                                 *)
THEOREM AnswersAgree == Spec => []OneAnswer
<1>1. ASSUME GateInv, NEW g \in Gates
      PROVE  Cardinality(told[g] \cup ({waiter[g]} \cap Answers)) <= 1
  <2> DEFINE S == told[g] \cup ({waiter[g]} \cap Answers)
  <2>0. Told(g) /\ Durable(g) /\ told[g] \in SUBSET Answers /\ NoAnswer \notin Answers
    BY <1>1, GateAssumption, Zenon DEF GateInv, HistTypes
  <2>1. \A a, b \in told[g] : a = b BY <2>0, Zenon DEF Told
  <2>2. ASSUME waiter[g] \in Answers, NEW a \in told[g] PROVE a = waiter[g]
    <3>1. file.rec[g].answer = waiter[g] BY <2>0, <2>2, Zenon DEF Durable
    <3>2. file.rec[g].answer \in {a, NoAnswer} BY <2>0, <2>2, Zenon DEF Told
    <3> QED BY <2>0, <2>2, <3>1, <3>2, Zenon
  <2>3. \A a, b \in S : a = b BY <2>1, <2>2, Zenon
  <2> HIDE DEF S
  <2>4. CASE S = {} BY <2>4, FS_EmptySet DEF S
  <2>5. CASE S # {}
    <3>1. PICK a : a \in S BY <2>5, Zenon
    <3>2. S = {a} BY <2>3, <3>1, Zenon
    <3>3. Cardinality(S) = 1 BY <3>2, FS_Singleton, Zenon
    <3> QED BY <3>3 DEF S
  <2> QED BY <2>4, <2>5, Zenon
<1>2. GateInv => OneAnswer BY <1>1, Zenon DEF OneAnswer
<1> QED BY <1>2, GatesHold, PTL
=============================================================================
