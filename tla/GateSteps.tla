------------------------------ MODULE GateSteps -----------------------------
(***************************************************************************)
(* Proofs about the workflow gate broker of WorkflowGates: whatever the    *)
(* number of gates, calls, recoveries, restarts and failing writes.        *)
(*                                                                         *)
(* A step changes the record of a gate in few ways, and the file before    *)
(* the state a power failure brings back.  Later says what a write may     *)
(* make of a record; After compares both images with those before; Kept    *)
(* adds the promise of emitGate.  Every step keeps every gate, except that *)
(* it opens one, settles one, or that the process dies.                    *)
(***************************************************************************)
EXTENDS WorkflowGates, TLAPS

(* A leaf that names no backend goes to the SMT solver, with time to spare. *)
USE SMTT(30)

-----------------------------------------------------------------------------
(* Types. *)

Closed == {"accepted", "quarantined"}
Record == [status : {"none", "pending"} \cup Closed, owner : Nat,
           answer : Answers \cup {NoAnswer}, key : Keys,
           advanced : BOOLEAN, terminalized : BOOLEAN,
           ack : {"none", "pending", "attempt_started", "delivered", "failed", "unknown"}]
State == [seq : Nat, inst : Nat, rec : [Gates -> Record]]

Outside == {"idle", "next", "done"}
Inside == {"ack", "final", "controller", "advance", "commit"}
Run == [pc : Outside \cup {"wait"} \cup Inside, op : {"resolve", "recover"},
        chan : {"none", "sdk", "tg", "host", "timer"}, gate : Gates, asked : Gates,
        answer : Answers \cup {Invalid, NoAnswer}, key : Keys, commit : BOOLEAN,
        todo : SUBSET Gates, recovered : BOOLEAN]

StoreTypes == /\ file \in State /\ synced \in State /\ conts \subseteq Gates
              /\ waiter \in [Gates -> {"none", "waiting", "rejected", "dead"} \cup Answers]
RunTypes == run \in [Procs -> Run] /\ lock \in [Gates -> Seq(Procs)]

-----------------------------------------------------------------------------
(* What every record says, on disk or in what a power failure brings back. *)
Sound(r) ==
  /\ r.status \in {"none", "pending"} =>
       r.answer = NoAnswer /\ r.key = "none" /\ ~r.advanced /\ r.ack = "none"
  /\ r.status = "accepted" => r.answer # NoAnswer
  /\ r.key # "none" => r.answer # NoAnswer

Opened(g) == waiter[g] # "none"

(* A gate whose promise exists was drawn before, in both images; one whose *)
(* promise does not exist has no answer.                                   *)
Image(f, g) == /\ Sound(f.rec[g])
               /\ g > f.seq => f.rec[g].status = "none"
               /\ Opened(g) => g <= f.seq
               /\ ~Opened(g) => f.rec[g].answer = NoAnswer
Images == \A g \in Gates : Image(file, g) /\ Image(synced, g)

(* What the writes of one step may make of record r. *)
Shut(r) == [r EXCEPT !.status = "quarantined"]
Later(r, x) ==
  /\ x \in Record /\ Sound(x)
  /\ r.status = "none" => x.status = "none"
  /\ r.status \in Closed => x.status \in Closed /\ x.answer = r.answer
  /\ r.status = "quarantined" => x.status = "quarantined"
  /\ r.terminalized => x.terminalized
  /\ r.advanced => x.advanced /\ x.status = r.status
  /\ r.ack \notin {"none", "pending"} => x.ack \notin {"none", "pending"}

(* The record of gate g in new images e of the file and t of what a power  *)
(* failure brings back.  An answer is put on record only while the gate is *)
(* pending and live; the images differ in it only if the gate is gone.     *)
After(e, t, g, gone) ==
  /\ Later(rec(g), e.rec[g]) /\ file.seq <= e.seq
  /\ e.rec[g].answer = rec(g).answer \/ (rec(g).status = "pending" /\ IsLive(g))
  /\ \/ /\ Later(rec(g), t.rec[g]) /\ file.seq <= t.seq
        /\ t.rec[g].answer = e.rec[g].answer
     \/ /\ t.rec[g] = synced.rec[g] /\ t.seq = synced.seq
        /\ e.rec[g].answer = rec(g).answer \/ gone

(* d is what writes to gate g may make of the store. *)
Disk(d, g, gone) ==
  /\ d = <<d[1], d[2]>> /\ d[1] \in State /\ d[2] \in State
  /\ \A h \in Gates : After(d[1], d[2], h, gone /\ h = g)

(* A record stays as it is, or is quarantined before it has advanced. *)
LEMMA LaterSame ==
  ASSUME NEW r \in Record, Sound(r)
  PROVE  Later(r, r)
BY Zenon DEF Later

(* Quarantining a record that has not advanced is something a step may do, *)
(* and keeps its answer.                                                   *)
LEMMA LaterShut ==
  ASSUME NEW r \in Record, NEW x, Later(r, x),
         x.status = "pending" \/ (x.status = "accepted" /\ ~x.advanced)
  PROVE  Later(r, Shut(x)) /\ Shut(x).answer = x.answer
BY DEF Later, Shut, Sound, Record, Closed

(* A write of gate g's record leaves the other records as they are. *)
With(f, g, r) == [f EXCEPT !.rec[g] = r]

(* What one such write changes. *)
LEMMA WithIs ==
  ASSUME NEW f \in State, NEW g \in Gates, NEW r \in Record
  PROVE  /\ With(f, g, r) \in State /\ With(f, g, r).seq = f.seq
         /\ With(f, g, r).rec[g] = r
         /\ \A h \in Gates \ {g} : With(f, g, r).rec[h] = f.rec[h]
BY Zenon DEF State, With

(* A record and the sequence number of a stored state. *)
LEMMA RecType ==
  ASSUME NEW f \in State, NEW g \in Gates
  PROVE  f.rec[g] \in Record /\ f.seq \in Nat
BY Zenon DEF State

(* A store nobody writes is one a step may leave behind. *)
LEMMA DiskSame ==
  ASSUME StoreTypes, Images, NEW g \in Gates, NEW gone
  PROVE  Disk(disk, g, gone)
<1>1. disk = <<disk[1], disk[2]>> /\ disk[1] \in State /\ disk[2] \in State
  BY Zenon DEF disk, StoreTypes
<1>2. ASSUME NEW h \in Gates
      PROVE  After(file, synced, h, gone /\ h = g)
  <2>1. rec(h) \in Record /\ Sound(rec(h)) /\ file.seq <= file.seq
    BY RecType DEF rec, StoreTypes, Images, Image
  <2> QED BY <2>1, LaterSame, Zenon DEF After, rec
<1> QED BY <1>1, <1>2, Zenon DEF Disk, disk

(* A write of a later record keeps the store one a step may leave behind,  *)
(* however it ends. An answer that may be lost again is written only by an *)
(* operation that then gives the gate up.                                  *)
LEMMA DiskPut ==
  ASSUME NEW d, NEW g \in Gates, NEW gone, Disk(d, g, gone),
         NEW w \in Outcomes, NEW r, Later(rec(g), r),
         r.answer = rec(g).answer \/ (rec(g).status = "pending" /\ IsLive(g)),
         \/ w # "unsure" \/ r.answer = d[1].rec[g].answer
         \/ d = disk /\ gone
  PROVE  Disk(Put(d, w, g, r), g, gone)
<1> DEFINE e == With(d[1], g, r)
           q == Put(d, w, g, r)
<1> HIDE DEF e
<1>1. d[1] \in State /\ d[2] \in State /\ r \in Record
  BY Zenon DEF Disk, Later
<1>2. e \in State /\ e.seq = d[1].seq /\ e.rec[g] = r
      /\ \A h \in Gates \ {g} : e.rec[h] = d[1].rec[h]
  BY <1>1, WithIs DEF e
<1>3. ASSUME NEW h \in Gates PROVE After(d[1], d[2], h, gone /\ h = g)
  BY Zenon DEF Disk
<1>4. ASSUME NEW h \in Gates PROVE After(e, e, h, gone /\ h = g)
  <2>1. CASE h = g BY <1>2, <1>3, <2>1, Zenon DEF After
  <2>2. CASE h # g BY <1>2, <1>3, <2>2, Zenon DEF After
  <2> QED BY <2>1, <2>2, Zenon
<1>5. CASE w = "ok"
  <2>1. q = <<e, e>> BY <1>5, Zenon DEF Put, Wrote, e, With
  <2> QED BY <2>1, <1>2, <1>4 DEF Disk
<1>6. CASE w = "lost"
  <2>1. q = d BY <1>6, Zenon DEF Put, Wrote
  <2> QED BY <2>1, Zenon
<1>7. CASE w = "unsure"
  <2>1. q = <<e, d[2]>> BY <1>7, Zenon DEF Put, Wrote, e, With
  <2>2. ASSUME NEW h \in Gates PROVE After(e, d[2], h, gone /\ h = g)
    <3>1. CASE h # g BY <1>2, <1>3, <3>1, Zenon DEF After
    <3>2. CASE h = g /\ r.answer = d[1].rec[g].answer BY <1>2, <1>3, <3>2, Zenon DEF After
    <3>3. CASE h = g /\ d = disk /\ gone BY <1>2, <1>3, <3>3, Zenon DEF After, disk
    <3> QED BY <1>7, <3>1, <3>2, <3>3, Zenon
  <2> QED BY <2>1, <2>2, <1>1, <1>2 DEF Disk
<1> QED BY <1>5, <1>6, <1>7, Zenon DEF Outcomes

(* loseContinuation's write keeps every answer. *)
LEMMA DiskLose ==
  ASSUME NEW d, NEW g \in Gates, NEW gone, Disk(d, g, gone), NEW w \in Outcomes,
         StoreTypes
  PROVE  Disk(Lose(d, w, g), g, gone)
<1>1. CASE ~Fenceable(d[1], g)
  <2>1. Lose(d, w, g) = d BY <1>1, Zenon DEF Lose
  <2> QED BY <2>1, Zenon
<1>2. CASE Fenceable(d[1], g)
  <2>1. rec(g) \in Record BY RecType, Zenon DEF rec, StoreTypes
  <2>2. After(d[1], d[2], g, gone /\ g = g) BY Zenon DEF Disk
  <2>3. Later(rec(g), d[1].rec[g]) BY <2>2, Zenon DEF After
  <2>4. /\ Later(rec(g), Shut(d[1].rec[g]))
        /\ Shut(d[1].rec[g]).answer = d[1].rec[g].answer
    BY <2>1, <2>3, <1>2, LaterShut, Zenon DEF Fenceable
  <2>5. \/ Shut(d[1].rec[g]).answer = rec(g).answer
        \/ (rec(g).status = "pending" /\ IsLive(g))
    BY <2>2, <2>4, Zenon DEF After
  <2>6. Lose(d, w, g) = Put(d, w, g, Shut(d[1].rec[g])) BY <1>2, Zenon DEF Lose, Shut
  <2> QED BY <2>4, <2>5, <2>6, DiskPut, Zenon
<1> QED BY <1>1, <1>2, Zenon

-----------------------------------------------------------------------------
(* What an operation does to the gates, and how it goes on or ends. *)

Promise(g) ==
  /\ waiter'[g] = waiter[g] \/ (waiter[g] = "waiting" /\ waiter'[g] = "rejected")
  /\ g \in conts' => g \in conts
Kept(g) == After(file', synced', g, g \notin conts') /\ Promise(g)
KeepsGates == StoreTypes' /\ \A g \in Gates : Kept(g)

GoesOn(p, c) == run' = [run EXCEPT ![p].pc = c] /\ UNCHANGED lock
Leaves(p) == /\ Unlock(p)
             /\ \E s \in Run : s.pc \in Outside /\ run' = [run EXCEPT ![p] = s]

(* An operation that has not begun, or has ended, holds no lock. *)
LEMMA IdleRun ==
  /\ Idle \in Run /\ Idle.pc \in Outside
  /\ Done \in Run /\ Done.pc \in Outside
<1>1. 1 \in Gates BY GateAssumption DEF Gates
<1>2. Idle \in Run /\ Idle.pc \in Outside BY <1>1, Zenon DEF Idle, Run, Outside, Keys
<1>3. Done \in Run /\ Done.pc \in Outside BY <1>2, Zenon DEF Done, Run, Outside
<1> QED BY <1>2, <1>3, Zenon

(* The state of one operation and the gate it works on. *)
LEMMA RunType ==
  ASSUME RunTypes, NEW p \in Procs
  PROVE  run[p] \in Run /\ run[p].gate \in Gates
BY Zenon DEF RunTypes, Run

(* Writes that After allows, with the promise left alone or rejected. *)
LEMMA DiskKeeps ==
  ASSUME StoreTypes, NEW g \in Gates, NEW lose,
         Disk(<<file', synced'>>, g, lose),
         conts' = IF lose THEN conts \ {g} ELSE conts,
         waiter' = IF lose THEN Rejected(g) ELSE waiter
  PROVE  KeepsGates
<1>1. file' \in State /\ synced' \in State
      /\ \A h \in Gates : After(file', synced', h, lose /\ h = g)
  BY Zenon DEF Disk
<1>2. conts' \subseteq conts /\ (lose => g \notin conts')
  BY Zenon
<1>3. \A h \in Gates : Promise(h)
  BY <1>2, Zenon DEF Promise, Rejected, StoreTypes
<1>4. waiter' \in [Gates -> {"none", "waiting", "rejected", "dead"} \cup Answers]
  BY Zenon DEF Rejected, StoreTypes
<1>5. StoreTypes' BY <1>1, <1>2, <1>4, Zenon DEF StoreTypes
<1>6. \A h \in Gates : After(file', synced', h, h \notin conts')
  BY <1>1, <1>2, Zenon DEF After
<1> QED BY <1>3, <1>5, <1>6, Zenon DEF KeepsGates, Kept

(* An error keeps every gate and leaves the lock, whether or not it gives  *)
(* the continuation up.                                                    *)
LEMMA Thrown ==
  ASSUME StoreTypes, RunTypes, NEW p \in Procs, NEW d, NEW cost, NEW lose,
         Disk(d, run[p].gate, lose), Throw(p, d, cost, lose)
  PROVE  KeepsGates /\ Leaves(p)
<1> DEFINE g == run[p].gate
<1>0. g \in Gates BY RunType, Zenon
<1>1. PICK w \in Outcomes : Store(IF lose THEN Lose(d, w, g) ELSE d)
  BY Zenon DEF Throw
<1>2. Disk(IF lose THEN Lose(d, w, g) ELSE d, g, lose)
  BY <1>0, DiskLose, Zenon
<1>3. Disk(<<file', synced'>>, g, lose)
  BY <1>1, <1>2, Zenon DEF Store, Disk
<1>4. /\ conts' = IF lose THEN conts \ {g} ELSE conts
      /\ waiter' = IF lose THEN Rejected(g) ELSE waiter
      /\ Unlock(p) /\ run' = [run EXCEPT ![p] = IF p \in Calls THEN Done ELSE Idle]
  BY Zenon DEF Throw
<1>5. KeepsGates BY <1>0, <1>3, <1>4, DiskKeeps, Zenon
<1>6. (IF p \in Calls THEN Done ELSE Idle) \in Run
      /\ (IF p \in Calls THEN Done ELSE Idle).pc \in Outside
  BY IdleRun, Zenon
<1>7. Leaves(p) BY <1>4, <1>6, Zenon DEF Leaves
<1> QED BY <1>5, <1>7, Zenon

(* So does a write that failed. *)
LEMMA Failed ==
  ASSUME StoreTypes, RunTypes, NEW p \in Procs, NEW d, NEW w \in Outcomes,
         Disk(d, run[p].gate, run[p].op = "resolve" /\ w = "unsure"), Fails(p, d, w)
  PROVE  KeepsGates /\ Leaves(p)
BY Thrown, Zenon DEF Fails

(* A step that writes nothing and settles nothing keeps every gate. *)
LEMMA Quiet ==
  ASSUME StoreTypes, Images, UNCHANGED <<disk, conts, waiter>>
  PROVE  KeepsGates
<1>1. 1 \in Gates BY GateAssumption DEF Gates
<1>2. Disk(disk, 1, FALSE) BY <1>1, DiskSame, Zenon
<1>3. Disk(<<file', synced'>>, 1, FALSE) BY <1>2, Zenon DEF disk
<1> QED BY <1>1, <1>3, DiskKeeps, Zenon

(* An operation that finds its gate taken keeps every gate and leaves the  *)
(* lock.                                                                   *)
LEMMA GaveUp ==
  ASSUME StoreTypes, Images, RunTypes, NEW p \in Procs, GivesUp(p)
  PROVE  KeepsGates /\ Leaves(p)
<1>0. run[p].gate \in Gates /\ run[p] \in Run BY RunType, Zenon
<1>1. CASE run[p].op = "resolve"
  BY <1>0, <1>1, Thrown, DiskSame, Zenon DEF GivesUp
<1>2. CASE run[p].op # "resolve"
  <2>1. Skip(p) BY <1>2, Zenon DEF GivesUp
  <2>2. KeepsGates BY <2>1, Quiet, Zenon DEF Skip
  <2>3. Unlock(p) /\ run' = [run EXCEPT ![p].pc = "next"]
    BY <2>1, Zenon DEF Skip
  <2>4. run' = [run EXCEPT ![p] = [run[p] EXCEPT !.pc = "next"]]
    BY <2>3, Zenon
  <2>5. [run[p] EXCEPT !.pc = "next"] \in Run /\ [run[p] EXCEPT !.pc = "next"].pc \in Outside
    BY <1>0, Zenon DEF Run, Outside
  <2>6. Leaves(p) BY <2>3, <2>4, <2>5, Zenon DEF Leaves
  <2> QED BY <2>2, <2>6, Zenon
<1> QED BY <1>1, <1>2, Zenon

(* One write of the record: it succeeds and the operation goes on, or the  *)
(* operation leaves with an error.                                         *)
LEMMA WritesIs ==
  ASSUME StoreTypes, Images, RunTypes, NEW p \in Procs, NEW r, NEW c, Writes(p, r, c),
         Later(rec(run[p].gate), r),
         \/ r.answer = rec(run[p].gate).answer
         \/ /\ run[p].op = "resolve"
            /\ rec(run[p].gate).status = "pending" /\ IsLive(run[p].gate)
  PROVE  /\ KeepsGates
         /\ \/ Leaves(p)
            \/ /\ GoesOn(p, c) /\ UNCHANGED <<conts, waiter>>
               /\ file'.rec[run[p].gate] = r /\ synced'.rec[run[p].gate] = r
<1> DEFINE g == run[p].gate
<1>0. g \in Gates BY RunType, Zenon
<1>1. PICK w \in Outcomes :
        IF w = "ok"
        THEN /\ Store(Put(disk, w, g, r)) /\ run' = [run EXCEPT ![p].pc = c]
             /\ UNCHANGED <<conts, waiter, lock>>
        ELSE Fails(p, Put(disk, w, g, r), w)
  BY Zenon DEF Writes
<1>2. Disk(disk, g, run[p].op = "resolve" /\ w = "unsure")
  BY <1>0, DiskSame, Zenon
<1>3. \/ w # "unsure" \/ r.answer = disk[1].rec[g].answer
      \/ disk = disk /\ (run[p].op = "resolve" /\ w = "unsure")
  BY Zenon DEF disk, rec
<1>4. Disk(Put(disk, w, g, r), g, run[p].op = "resolve" /\ w = "unsure")
  BY <1>0, <1>2, <1>3, DiskPut, Zenon
<1>5. CASE w # "ok"
  BY <1>1, <1>4, <1>5, Failed, Zenon
<1>6. CASE w = "ok"
  <2>1. Store(Put(disk, w, g, r)) /\ run' = [run EXCEPT ![p].pc = c]
        /\ UNCHANGED <<conts, waiter, lock>>
    BY <1>1, <1>6, Zenon
  <2>2. file' = With(file, g, r) /\ synced' = file'
    BY <2>1, <1>6, Zenon DEF Store, Put, Wrote, With, disk
  <2>3. file'.rec[g] = r /\ synced'.rec[g] = r
    BY <2>2, <1>0, WithIs DEF StoreTypes, Later
  <2>4. Disk(disk, g, FALSE) BY <1>0, DiskSame, Zenon
  <2>5. Disk(Put(disk, w, g, r), g, FALSE)
    BY <1>0, <1>6, <2>4, DiskPut, Zenon
  <2>6. Disk(<<file', synced'>>, g, FALSE)
    BY <2>1, <2>5, Zenon DEF Store, Disk
  <2>7. KeepsGates BY <1>0, <2>1, <2>6, DiskKeeps, Zenon
  <2>8. GoesOn(p, c) BY <2>1, Zenon DEF GoesOn
  <2> QED BY <2>1, <2>3, <2>7, <2>8, Zenon
<1> QED BY <1>5, <1>6, Zenon

-----------------------------------------------------------------------------
(* The locked body, step by step. *)

Held(p) == run[p].pc \in Inside \cup {"wait"} /\ Head(lock[run[p].gate]) = p

(* The operation stays inside: its gate is closed, and terminalized before *)
(* the hook.                                                               *)
Works(p) ==
  \E c \in Inside : /\ GoesOn(p, c) /\ file'.rec[run[p].gate].status \in Closed
                    /\ c \in {"advance", "commit"} => file'.rec[run[p].gate].terminalized
                    /\ c = "commit" => Advance(p)

(* A client is told the answer on record. *)
Tells(g) == /\ rec(g).answer \in Answers /\ file'.rec[g].answer = rec(g).answer
            /\ told' = [told EXCEPT ![g] = @ \cup {rec(g).answer}]
TellsTrue == UNCHANGED told \/ \E g \in Gates : Tells(g)

(* An acknowledgement is requested, with the attempt on record before. *)
Asks(g) == /\ Opened(g) /\ rec(g).ack \in {"none", "pending"}
           /\ \A f \in {file', synced'} :
                f.rec[g].status \in Closed /\ f.rec[g].ack \notin {"none", "pending"}
           /\ acks' = [acks EXCEPT ![g] = @ + 1]
AsksOnce == UNCHANGED acks \/ \E g \in Gates : Asks(g)

Body(p) == KeepsGates /\ (Leaves(p) \/ Works(p)) /\ TellsTrue /\ AsksOnce

(* What an operation inside the lock relies on. *)
RunsTrue ==
  \A p \in Procs :
    /\ run[p].pc \in Inside => rec(run[p].gate).status \in Closed
    /\ run[p].pc \in {"advance", "commit"} => rec(run[p].gate).terminalized

(* The record of a gate in the file is of its type, and sound. *)
LEMMA RecSound ==
  ASSUME StoreTypes, Images, NEW g \in Gates
  PROVE  rec(g) \in Record /\ Sound(rec(g))
BY RecType, Zenon DEF rec, StoreTypes, Images, Image

(* The record a valid answer writes. *)
Accept(r, a, k, o) == [r EXCEPT !.status = "accepted", !.answer = a, !.key = k, !.ack = o]

(* Its fields. *)
LEMMA AcceptIs ==
  ASSUME NEW r \in Record, NEW a \in Answers, NEW k \in Keys, NEW o \in {"none", "pending"}
  PROVE  /\ Accept(r, a, k, o) \in Record /\ Accept(r, a, k, o).status = "accepted"
         /\ Accept(r, a, k, o).answer = a
         /\ Accept(r, a, k, o).terminalized = r.terminalized
<1> DEFINE x == [r EXCEPT !.status = "accepted"]
           y == [x EXCEPT !.answer = a]
           z == [y EXCEPT !.key = k]
<1>1. x \in Record BY Zenon DEF Record, Closed
<1>2. ASSUME NEW q \in Record
      PROVE  /\ [q EXCEPT !.answer = a] \in Record /\ [q EXCEPT !.key = k] \in Record
             /\ [q EXCEPT !.ack = o] \in Record
  BY Zenon DEF Record
<1>3. y \in Record BY <1>1, <1>2, Zenon
<1>4. [z EXCEPT !.ack = o] \in Record BY <1>2, <1>3, Zenon
<1>5. Accept(r, a, k, o) = [z EXCEPT !.ack = o] BY Zenon DEF Accept, Record
<1>6. /\ Accept(r, a, k, o).status = "accepted" /\ Accept(r, a, k, o).answer = a
      /\ Accept(r, a, k, o).terminalized = r.terminalized
  BY Zenon DEF Accept, Record
<1> QED BY <1>4, <1>5, <1>6, Zenon

(* The record that resolveUnlocked writes for a valid answer to an open    *)
(* gate is a later one, with that answer.                                  *)
LEMMA AcceptedIs ==
  ASSUME StoreTypes, Images, RunTypes, NEW p \in Procs, run[p].answer \in Answers,
         rec(run[p].gate).status = "pending"
  PROVE  /\ Later(rec(run[p].gate), Accepted(p))
         /\ Accepted(p) \in Record /\ Accepted(p).status = "accepted"
         /\ Accepted(p).answer = run[p].answer
<1> DEFINE g == run[p].gate
           k == run[p].key
           a == IF run[p].chan = "tg" /\ run[p].commit THEN "pending" ELSE "none"
<1>1. g \in Gates /\ k \in Keys /\ a \in {"none", "pending"} BY Zenon DEF RunTypes, Run
<1>2. rec(g) \in Record /\ Sound(rec(g)) BY <1>1, RecSound, Zenon
<1>3. Accepted(p) = Accept(rec(g), run[p].answer, k, a) BY Zenon DEF Accepted, Accept
<1>4. NoAnswer \notin Answers BY GateAssumption, Zenon
<1> HIDE DEF a, k
<1>5. /\ Accepted(p) \in Record /\ Accepted(p).status = "accepted"
      /\ Accepted(p).answer = run[p].answer
      /\ Accepted(p).terminalized = rec(g).terminalized
  BY <1>1, <1>2, <1>3, AcceptIs
<1>6. Sound(Accepted(p)) BY <1>4, <1>5, Zenon DEF Sound
<1>7. ~rec(g).advanced /\ rec(g).ack = "none" BY <1>2, Zenon DEF Sound
<1>8. Later(rec(g), Accepted(p)) BY <1>5, <1>6, <1>7, Zenon DEF Later, Closed
<1> QED BY <1>5, <1>8, Zenon

(* A reply without a write keeps every gate and leaves the lock. *)
LEMMA ResolveReplies ==
  ASSUME StoreTypes, Images, RunTypes, NEW p \in Procs, NEW T, Replies(p, T)
  PROVE  KeepsGates /\ Leaves(p) /\ told' = T /\ UNCHANGED <<file, acks, advances>>
<1>1. /\ told' = T /\ Unlock(p) /\ run' = [run EXCEPT ![p] = Done]
      /\ UNCHANGED <<disk, conts, waiter>> /\ UNCHANGED <<acks, advances>>
  BY Zenon DEF Replies
<1>2. KeepsGates BY <1>1, Quiet, Zenon
<1>3. Leaves(p) BY <1>1, IdleRun, Zenon DEF Leaves
<1> QED BY <1>1, <1>2, <1>3, Zenon DEF disk

(* A commit over Telegram: the answer is written, then the attempt. *)
LEMMA ResolveCommits ==
  ASSUME StoreTypes, Images, RunTypes, NEW p \in Procs, run[p].answer \in Answers,
         NEW g, g = run[p].gate, rec(g).status = "pending", IsLive(g), run[p].op = "resolve",
         NEW w1 \in Outcomes, NEW w2 \in Outcomes, NEW d1, NEW d2,
         d1 = Put(disk, w1, g, Accepted(p)),
         d2 = Put(d1, w2, g, [Accepted(p) EXCEPT !.ack = "attempt_started"]),
         \/ w1 # "ok" /\ w2 = "ok" /\ Fails(p, d1, w1) /\ UNCHANGED hist
         \/ w1 = "ok" /\ w2 # "ok" /\ Fails(p, d2, w2) /\ UNCHANGED hist
         \/ /\ w1 = "ok" /\ w2 = "ok" /\ Store(d2)
            /\ acks' = [acks EXCEPT ![g] = @ + 1]
            /\ run' = [run EXCEPT ![p].pc = "ack"]
            /\ UNCHANGED <<proc, told, advances>>
  PROVE  Body(p) /\ UNCHANGED advances
<1> DEFINE a == Accepted(p)
           b == [Accepted(p) EXCEPT !.ack = "attempt_started"]
<1>0. g \in Gates /\ rec(g) \in Record /\ Sound(rec(g)) BY RunType, RecSound, Zenon
<1>1. /\ Later(rec(g), a) /\ a \in Record /\ a.status = "accepted"
      /\ a.answer = run[p].answer
  BY AcceptedIs, Zenon
<1> HIDE DEF a
<1>2. /\ b \in Record /\ b.answer = a.answer /\ b.status = "accepted"
      /\ b.terminalized = a.terminalized /\ b.advanced = a.advanced /\ b.key = a.key
      /\ b.ack = "attempt_started"
  BY <1>1, Zenon DEF Record, a
<1> HIDE DEF b
<1>3. Sound(b) BY <1>1, <1>2, Zenon DEF Sound, Later
<1>4. Later(rec(g), b) BY <1>1, <1>2, <1>3, Zenon DEF Later, Closed
<1>5. d1 = Put(disk, w1, g, a) /\ d2 = Put(d1, w2, g, b)
  BY Zenon DEF a, b
<1>6. ASSUME NEW gone, w1 # "unsure" \/ gone
      PROVE  Disk(d1, g, gone)
  <2>1. Disk(disk, g, gone) BY <1>0, DiskSame, Zenon
  <2>2. w1 # "unsure" \/ (disk = disk /\ gone) BY <1>6, Zenon
  <2>3. Disk(Put(disk, w1, g, a), g, gone) BY <2>1, <2>2, <1>0, <1>1, DiskPut, Zenon
  <2> QED BY <2>3, <1>5, Zenon
<1>7. ASSUME w1 = "ok"
      PROVE  /\ d1 = <<With(file, g, a), With(file, g, a)>>
             /\ d1[1] = With(file, g, a) /\ d1[1].rec[g].answer = b.answer
  <2>1. d1 = <<With(file, g, a), With(file, g, a)>>
    BY <1>5, <1>7, Zenon DEF Put, Wrote, With, disk
  <2>2. With(file, g, a).rec[g] = a
    BY <1>0, <1>1, WithIs DEF StoreTypes
  <2> QED BY <2>1, <2>2, <1>2
<1>8. ASSUME w1 = "ok", NEW gone PROVE Disk(d2, g, gone)
  <2>1. Disk(d1, g, gone) BY <1>6, <1>8, Zenon
  <2>2. b.answer = d1[1].rec[g].answer BY <1>7, <1>8, Zenon
  <2>3. Disk(Put(d1, w2, g, b), g, gone) BY <2>1, <2>2, <1>0, <1>4, DiskPut, Zenon
  <2> QED BY <2>3, <1>5, Zenon
<1>9. CASE w1 # "ok" /\ Fails(p, d1, w1) /\ UNCHANGED hist
  <2>1. Disk(d1, g, run[p].op = "resolve" /\ w1 = "unsure") BY <1>6, Zenon
  <2>2. KeepsGates /\ Leaves(p) BY <2>1, <1>9, Failed, Zenon
  <2> QED BY <2>2, <1>9, Zenon DEF Body, TellsTrue, AsksOnce, hist
<1>10. CASE w1 = "ok" /\ Fails(p, d2, w2) /\ UNCHANGED hist
  <2>1. KeepsGates /\ Leaves(p) BY <1>8, <1>10, Failed, Zenon
  <2> QED BY <2>1, <1>10, Zenon DEF Body, TellsTrue, AsksOnce, hist
<1>11. CASE /\ w1 = "ok" /\ w2 = "ok" /\ Store(d2)
            /\ acks' = [acks EXCEPT ![g] = @ + 1]
            /\ run' = [run EXCEPT ![p].pc = "ack"]
            /\ UNCHANGED <<proc, told, advances>>
  <2>1. Disk(d2, g, FALSE) BY <1>8, <1>11, Zenon
  <2>2. Disk(<<file', synced'>>, g, FALSE) BY <2>1, <1>11, Zenon DEF Store, Disk
  <2>3. KeepsGates BY <2>2, <1>0, <1>11, DiskKeeps, Zenon DEF proc
  <2>4. /\ file' = With(With(file, g, a), g, b) /\ synced' = file'
    <3>1. d2 = <<With(d1[1], g, b), With(d1[1], g, b)>>
      BY <1>5, <1>11, Zenon DEF Put, Wrote, With
    <3>2. d2 = <<With(With(file, g, a), g, b), With(With(file, g, a), g, b)>>
      BY <3>1, <1>7, <1>11, Zenon
    <3> QED BY <3>2, <1>11 DEF Store
  <2>5. file'.rec[g] = b
    BY <2>4, <1>0, <1>1, <1>2, WithIs DEF StoreTypes
  <2>6. Asks(g)
    BY <1>0, <1>2, <2>4, <2>5, <1>11, ZenonT(30) DEF Asks, Opened, IsLive, Sound, Closed
  <2>7. GoesOn(p, "ack") BY <1>11, Zenon DEF GoesOn, proc
  <2>8. "ack" \in Inside /\ "ack" \notin {"advance", "commit"} /\ b.status \in Closed
    BY <1>2, Zenon DEF Inside, Closed
  <2>9. Works(p) BY <2>5, <2>7, <2>8, Zenon DEF Works
  <2> QED BY <2>3, <2>6, <2>9, <1>0, <1>11, Zenon DEF Body, TellsTrue, AsksOnce
<1> QED BY <1>9, <1>10, <1>11, Zenon

(* The other records written for an accepted gate. *)
LEMMA LaterSet ==
  ASSUME NEW r \in Record, Sound(r), r.status = "accepted",
         NEW o \in {"attempt_started", "delivered", "failed", "unknown"}, NEW x,
         x \in {[r EXCEPT !.ack = o], [r EXCEPT !.terminalized = TRUE],
                [r EXCEPT !.advanced = TRUE]}
  PROVE  Later(r, x) /\ x.status = "accepted" /\ x.answer = r.answer
<1> DEFINE Fields ==
      /\ x \in Record /\ x.status = "accepted" /\ x.answer = r.answer /\ x.key = r.key
      /\ r.terminalized => x.terminalized
      /\ r.advanced => x.advanced
      /\ r.ack \notin {"none", "pending"} => x.ack \notin {"none", "pending"}
<1>1. CASE x = [r EXCEPT !.ack = o]
  <2>1. Fields BY <1>1, Zenon DEF Record
  <2>2. Sound(x) BY <2>1, Zenon DEF Sound
  <2> QED BY <2>1, <2>2, Zenon DEF Later, Closed
<1>2. CASE x = [r EXCEPT !.terminalized = TRUE]
  <2>0. x \in Record BY <1>2, Zenon DEF Record
  <2>1. Fields BY <1>2, <2>0, Zenon DEF Record
  <2>2. Sound(x) BY <2>1, Zenon DEF Sound
  <2> QED BY <2>1, <2>2, Zenon DEF Later, Closed
<1>3. CASE x = [r EXCEPT !.advanced = TRUE]
  <2>0. x \in Record BY <1>3, Zenon DEF Record
  <2>1. Fields BY <1>3, <2>0, Zenon DEF Record
  <2>2. Sound(x) BY <2>1, Zenon DEF Sound
  <2> QED BY <2>1, <2>2, Zenon DEF Later, Closed
<1> QED BY <1>1, <1>2, <1>3, Zenon

(* One write of an accepted record, and its error path, as a step inside   *)
(* the lock.                                                               *)
LEMMA WritesBody ==
  ASSUME StoreTypes, Images, RunTypes, NEW p \in Procs, NEW r, NEW c, Writes(p, r, c),
         Later(rec(run[p].gate), r),
         \/ r.answer = rec(run[p].gate).answer
         \/ /\ run[p].op = "resolve"
            /\ rec(run[p].gate).status = "pending" /\ IsLive(run[p].gate),
         c \in Inside \ {"commit"}, r.status = "accepted", c = "advance" => r.terminalized
  PROVE  KeepsGates /\ (Leaves(p) \/ Works(p))
<1>1. /\ KeepsGates
      /\ Leaves(p) \/ (GoesOn(p, c) /\ file'.rec[run[p].gate] = r)
  BY WritesIs, Zenon
<1>2. r.status \in Closed BY Zenon DEF Closed
<1>3. ASSUME GoesOn(p, c) /\ file'.rec[run[p].gate] = r PROVE Works(p)
  BY <1>2, <1>3, Zenon DEF Works
<1> QED BY <1>1, <1>3, Zenon

(* resolveUnlocked up to its first await. *)
LEMMA ResolveStep ==
  ASSUME StoreTypes, Images, RunTypes, NEW p \in Procs, Resolve(p)
  PROVE  Body(p) /\ UNCHANGED advances
<1> DEFINE g == run[p].gate
           r == rec(g)
<1>0. /\ g \in Gates /\ r \in Record /\ Sound(r) /\ run[p].op = "resolve"
      /\ NoAnswer \notin Answers
  BY RunType, RecSound, GateAssumption, Zenon DEF Resolve
<1>1. CASE Throw(p, disk, 0, FALSE) /\ UNCHANGED hist
  <2>1. KeepsGates /\ Leaves(p) BY <1>0, <1>1, DiskSame, Thrown, Zenon
  <2> QED BY <2>1, <1>1, Zenon DEF Body, TellsTrue, AsksOnce, hist
<1>2. CASE /\ r.status = "accepted" /\ Repeats(r, run[p].key, run[p].answer)
           /\ Replies(p, [told EXCEPT ![g] = @ \cup {run[p].answer}])
  <2>1. /\ KeepsGates /\ Leaves(p) /\ UNCHANGED <<file, acks, advances>>
        /\ told' = [told EXCEPT ![g] = @ \cup {run[p].answer}]
    BY <1>2, ResolveReplies, Zenon
  <2>2. r.answer = run[p].answer /\ r.answer \in Answers
    BY <1>0, <1>2, Zenon DEF Repeats, Sound, Record
  <2>3. Tells(g) BY <2>1, <2>2, Zenon DEF Tells, rec
  <2> QED BY <1>0, <2>1, <2>3, Zenon DEF Body, TellsTrue, AsksOnce
<1>3. CASE Replies(p, told)
  <2>1. KeepsGates /\ Leaves(p) /\ UNCHANGED <<acks, advances>> /\ told' = told
    BY <1>3, ResolveReplies, Zenon
  <2> QED BY <2>1, Zenon DEF Body, TellsTrue, AsksOnce
<1>4. CASE /\ r.status = "pending" /\ IsLive(g) /\ run[p].answer \in Answers
           /\ Writes(p, Accepted(p), "final") /\ UNCHANGED hist
  <2>1. Later(r, Accepted(p)) /\ Accepted(p).status = "accepted" BY <1>4, AcceptedIs, Zenon
  <2>2. "final" \in Inside \ {"commit"} /\ "final" # "advance" BY Zenon DEF Inside
  <2>3. KeepsGates /\ (Leaves(p) \/ Works(p))
    BY <1>0, <1>4, <2>1, <2>2, WritesBody, Zenon
  <2> QED BY <2>3, <1>4, Zenon DEF Body, TellsTrue, AsksOnce, hist
<1>5. CASE /\ r.status = "pending" /\ IsLive(g) /\ run[p].answer \in Answers
           /\ \E w1, w2 \in Outcomes :
                LET d1 == Put(disk, w1, g, Accepted(p))
                    d2 == Put(d1, w2, g, [Accepted(p) EXCEPT !.ack = "attempt_started"])
                IN \/ w1 # "ok" /\ w2 = "ok" /\ Fails(p, d1, w1) /\ UNCHANGED hist
                   \/ w1 = "ok" /\ w2 # "ok" /\ Fails(p, d2, w2) /\ UNCHANGED hist
                   \/ /\ w1 = "ok" /\ w2 = "ok" /\ Store(d2) /\ Spend(0)
                      /\ acks' = [acks EXCEPT ![g] = @ + 1]
                      /\ run' = [run EXCEPT ![p].pc = "ack"]
                      /\ UNCHANGED <<proc, starts, told, advances>>
  <2>1. PICK w1 \in Outcomes, w2 \in Outcomes :
          LET d1 == Put(disk, w1, g, Accepted(p))
              d2 == Put(d1, w2, g, [Accepted(p) EXCEPT !.ack = "attempt_started"])
          IN \/ w1 # "ok" /\ w2 = "ok" /\ Fails(p, d1, w1) /\ UNCHANGED hist
             \/ w1 = "ok" /\ w2 # "ok" /\ Fails(p, d2, w2) /\ UNCHANGED hist
             \/ /\ w1 = "ok" /\ w2 = "ok" /\ Store(d2)
                /\ acks' = [acks EXCEPT ![g] = @ + 1]
                /\ run' = [run EXCEPT ![p].pc = "ack"]
                /\ UNCHANGED <<proc, told, advances>>
    BY <1>5, Zenon
  <2> QED BY <2>1, <1>0, <1>5, ResolveCommits, Zenon
<1> QED BY <1>1, <1>2, <1>3, <1>4, <1>5, ZenonT(30) DEF Resolve

(* A step that only moves on inside the lock. *)
LEMMA StaysWorks ==
  ASSUME StoreTypes, Images, NEW p \in Procs, NEW c \in Inside,
         run' = [run EXCEPT ![p].pc = c], UNCHANGED disk, UNCHANGED proc,
         rec(run[p].gate).status = "accepted",
         c \in {"advance", "commit"} => rec(run[p].gate).terminalized,
         c = "commit" => Advance(p)
  PROVE  KeepsGates /\ Works(p)
<1>1. UNCHANGED <<conts, waiter>> /\ UNCHANGED lock /\ file' = file BY Zenon DEF proc, disk
<1>2. KeepsGates BY <1>1, Quiet, Zenon
<1>3. GoesOn(p, c) BY <1>1, Zenon DEF GoesOn
<1>4. file'.rec[run[p].gate] = rec(run[p].gate) /\ rec(run[p].gate).status \in Closed
  BY <1>1, Zenon DEF rec, Closed
<1>5. Works(p) BY <1>3, <1>4, Zenon DEF Works
<1> QED BY <1>2, <1>5, Zenon

(* The acknowledgement returns. *)
LEMMA AckStep ==
  ASSUME StoreTypes, Images, RunTypes, NEW p \in Procs, AckReturns(p)
  PROVE  Body(p) /\ UNCHANGED advances
<1> DEFINE g == run[p].gate
           r == rec(g)
<1>0. g \in Gates /\ r \in Record /\ Sound(r) BY RunType, RecSound, Zenon
<1>1. KeepsGates /\ (Leaves(p) \/ Works(p))
  <2>1. CASE r.status # "accepted"
    <3>1. Throw(p, disk, 0, FALSE) BY <2>1, Zenon DEF AckReturns
    <3> QED BY <3>1, <1>0, DiskSame, Thrown, Zenon
  <2>2. CASE r.status = "accepted"
    <3>1. PICK o \in {"delivered", "failed", "unknown"} :
            Writes(p, [r EXCEPT !.ack = o], "final")
      BY <2>2, Zenon DEF AckReturns
    <3>2. /\ Later(r, [r EXCEPT !.ack = o]) /\ [r EXCEPT !.ack = o].status = "accepted"
          /\ [r EXCEPT !.ack = o].answer = r.answer
      BY <1>0, <2>2, LaterSet
    <3>3. "final" \in Inside \ {"commit"} /\ "final" # "advance" BY Zenon DEF Inside
    <3> QED BY <3>1, <3>2, <3>3, WritesBody, Zenon
  <2> QED BY <2>1, <2>2, Zenon
<1>2. UNCHANGED hist BY Zenon DEF AckReturns
<1> QED BY <1>1, <1>2, Zenon DEF Body, TellsTrue, AsksOnce, hist

(* The start of the locked body of recover(). *)
LEMMA FinalizeStep ==
  ASSUME StoreTypes, Images, RunTypes, NEW p \in Procs, Finalize(p)
  PROVE  Body(p) /\ UNCHANGED advances
<1> DEFINE g == run[p].gate
           r == rec(g)
           Sets(o) == [r EXCEPT !.ack = o]
<1>0. g \in Gates /\ r \in Record /\ Sound(r) /\ run[p].op # "resolve"
  BY RunType, RecSound, Zenon DEF Finalize
<1>1. CASE Skip(p) /\ UNCHANGED hist
  <2>1. KeepsGates /\ Leaves(p) BY <1>0, <1>1, GaveUp, Zenon DEF GivesUp
  <2> QED BY <2>1, <1>1, Zenon DEF Body, TellsTrue, AsksOnce, hist
<1>2. ASSUME r.status = "accepted",
             NEW o \in {"attempt_started", "delivered", "failed", "unknown"},
             NEW c \in {"ack", "final"}, Writes(p, Sets(o), c)
      PROVE  /\ KeepsGates /\ (Leaves(p) \/ Works(p))
             /\ \/ Leaves(p)
                \/ /\ file'.rec[g] = Sets(o) /\ synced'.rec[g] = Sets(o)
  <2>1. Later(r, Sets(o)) /\ Sets(o).status = "accepted" /\ Sets(o).answer = r.answer
    BY <1>0, <1>2, LaterSet, Zenon
  <2>2. c \in Inside \ {"commit"} /\ c # "advance" BY Zenon DEF Inside
  <2>3. KeepsGates /\ (Leaves(p) \/ Works(p))
    BY <2>1, <2>2, <1>2, WritesBody, Zenon
  <2>4. Leaves(p) \/ (file'.rec[g] = Sets(o) /\ synced'.rec[g] = Sets(o))
    BY <2>1, <1>2, WritesIs, Zenon
  <2> QED BY <2>3, <2>4, Zenon
<1>3. CASE /\ r.status = "accepted" /\ AckUnsent(r)
           /\ Writes(p, Sets("attempt_started"), "ack")
           /\ acks' = IF run'[p].pc = "ack" THEN [acks EXCEPT ![g] = @ + 1] ELSE acks
           /\ UNCHANGED <<told, advances>>
  <2>1. /\ KeepsGates /\ (Leaves(p) \/ Works(p))
        /\ \/ Leaves(p)
           \/ /\ file'.rec[g] = Sets("attempt_started")
              /\ synced'.rec[g] = Sets("attempt_started")
    BY <1>2, <1>3, Zenon
  <2>2. ASSUME Leaves(p) PROVE UNCHANGED acks
    <3>1. run'[p].pc \in Outside BY <2>2, Zenon DEF Leaves, RunTypes
    <3> QED BY <3>1, <1>3, Zenon DEF Outside
  <2>3. ASSUME file'.rec[g] = Sets("attempt_started"),
               synced'.rec[g] = Sets("attempt_started")
        PROVE  AsksOnce
    <3>1. /\ Sets("attempt_started").ack \notin {"none", "pending"}
          /\ Sets("attempt_started").status \in Closed
      BY <1>0, <1>3, Zenon DEF Record, Closed
    <3>2. Opened(g) /\ r.ack = "pending"
      BY <1>0, <1>3, Zenon DEF Images, Image, Sound, AckUnsent, rec
    <3>3. CASE run'[p].pc = "ack"
      <4>1. acks' = [acks EXCEPT ![g] = @ + 1] BY <3>3, <1>3, Zenon
      <4>2. \A f \in {file', synced'} :
              f.rec[g].status \in Closed /\ f.rec[g].ack \notin {"none", "pending"}
        BY <2>3, <3>1, Zenon
      <4>3. Asks(g) BY <3>2, <4>1, <4>2, Zenon DEF Asks
      <4> QED BY <4>3, <1>0, Zenon DEF AsksOnce
    <3>4. CASE run'[p].pc # "ack" BY <3>4, <1>3, Zenon DEF AsksOnce
    <3> QED BY <3>3, <3>4, Zenon
  <2> QED BY <2>1, <2>2, <2>3, <1>3, Zenon DEF Body, TellsTrue, AsksOnce
<1>4. CASE /\ r.status = "accepted" /\ UNCHANGED hist
           /\ Writes(p, Sets("failed"), "final") \/ Writes(p, Sets("unknown"), "final")
  <2>1. KeepsGates /\ (Leaves(p) \/ Works(p)) BY <1>2, <1>4, Zenon
  <2> QED BY <2>1, <1>4, Zenon DEF Body, TellsTrue, AsksOnce, hist
<1>5. CASE /\ r.status = "accepted" /\ run' = [run EXCEPT ![p].pc = "final"]
           /\ UNCHANGED <<disk, proc, hist>>
  <2>1. "final" \in Inside /\ "final" \notin {"advance", "commit"} BY Zenon DEF Inside
  <2>2. KeepsGates /\ Works(p) BY <1>5, <2>1, StaysWorks, Zenon
  <2> QED BY <2>2, <1>5, Zenon DEF Body, TellsTrue, AsksOnce, hist
<1> QED BY <1>1, <1>3, <1>4, <1>5, ZenonT(30) DEF Finalize

(* #terminalize. *)
LEMMA TerminalizeStep ==
  ASSUME StoreTypes, Images, RunTypes, NEW p \in Procs, Terminalize(p)
  PROVE  Body(p) /\ UNCHANGED advances
<1> DEFINE g == run[p].gate
           r == rec(g)
<1>0. g \in Gates /\ r \in Record /\ Sound(r) BY RunType, RecSound, Zenon
<1>1. KeepsGates /\ (Leaves(p) \/ Works(p))
  <2>1. CASE GivesUp(p) BY <2>1, GaveUp, Zenon
  <2>2. CASE /\ r.status = "accepted" /\ r.terminalized
             /\ run' = [run EXCEPT ![p].pc = "advance"] /\ UNCHANGED <<disk, proc>>
    <3>1. "advance" \in Inside /\ "advance" # "commit" BY Zenon DEF Inside
    <3> QED BY <2>2, <3>1, StaysWorks, Zenon
  <2>3. CASE /\ r.status = "accepted"
             /\ Writes(p, [r EXCEPT !.terminalized = TRUE], "advance")
    <3>1. /\ Later(r, [r EXCEPT !.terminalized = TRUE])
          /\ [r EXCEPT !.terminalized = TRUE].status = "accepted"
          /\ [r EXCEPT !.terminalized = TRUE].answer = r.answer
      BY <1>0, <2>3, LaterSet, Zenon
    <3>2. [r EXCEPT !.terminalized = TRUE].terminalized BY <1>0, Zenon DEF Record
    <3>3. "advance" \in Inside \ {"commit"} BY Zenon DEF Inside
    <3> QED BY <2>3, <3>1, <3>2, <3>3, WritesBody, Zenon
  <2>4. CASE /\ r.status = "accepted"
             /\ run' = [run EXCEPT ![p].pc = "controller"] /\ UNCHANGED <<disk, proc>>
    <3>1. "controller" \in Inside /\ "controller" \notin {"advance", "commit"} BY Zenon DEF Inside
    <3> QED BY <2>4, <3>1, StaysWorks, Zenon
  <2>5. CASE Throw(p, disk, 0, TRUE) BY <2>5, <1>0, DiskSame, Thrown, Zenon
  <2> QED BY <2>1, <2>2, <2>3, <2>4, <2>5, ZenonT(30) DEF Terminalize
<1>2. UNCHANGED hist BY Zenon DEF Terminalize
<1> QED BY <1>1, <1>2, Zenon DEF Body, TellsTrue, AsksOnce, hist

(* completeGateInteractions returns. *)
LEMMA ControllerStep ==
  ASSUME StoreTypes, Images, RunTypes, NEW p \in Procs, ControllerAnswers(p)
  PROVE  Body(p) /\ UNCHANGED advances
<1> DEFINE g == run[p].gate
           r == rec(g)
<1>0. g \in Gates /\ r \in Record /\ Sound(r) BY RunType, RecSound, Zenon
<1>1. KeepsGates /\ (Leaves(p) \/ Works(p))
  <2>1. CASE /\ r.status = "accepted"
             /\ Writes(p, [r EXCEPT !.terminalized = TRUE], "advance")
    <3>1. /\ Later(r, [r EXCEPT !.terminalized = TRUE])
          /\ [r EXCEPT !.terminalized = TRUE].status = "accepted"
          /\ [r EXCEPT !.terminalized = TRUE].answer = r.answer
      BY <1>0, <2>1, LaterSet, Zenon
    <3>2. [r EXCEPT !.terminalized = TRUE].terminalized BY <1>0, Zenon DEF Record
    <3>3. "advance" \in Inside \ {"commit"} BY Zenon DEF Inside
    <3> QED BY <2>1, <3>1, <3>2, <3>3, WritesBody, Zenon
  <2>2. CASE Throw(p, disk, 0, FALSE) BY <2>2, <1>0, DiskSame, Thrown, Zenon
  <2>3. CASE Throw(p, disk, 1, TRUE) BY <2>3, <1>0, DiskSame, Thrown, Zenon
  <2> QED BY <2>1, <2>2, <2>3, Zenon DEF ControllerAnswers
<1>2. UNCHANGED hist BY Zenon DEF ControllerAnswers
<1> QED BY <1>1, <1>2, Zenon DEF Body, TellsTrue, AsksOnce, hist

(* The advance hook is called. *)
LEMMA AdvanceStep ==
  ASSUME StoreTypes, Images, RunTypes, RunsTrue, NEW p \in Procs, Advance(p)
  PROVE  Body(p)
<1> DEFINE g == run[p].gate
<1>1. CASE /\ rec(g).status = "accepted" /\ run' = [run EXCEPT ![p].pc = "commit"]
           /\ UNCHANGED <<disk, proc>>
  <2>1. "commit" \in Inside BY Zenon DEF Inside
  <2>2. rec(g).terminalized BY Zenon DEF Advance, Holds, RunsTrue
  <2>3. KeepsGates /\ Works(p) BY <1>1, <2>1, <2>2, StaysWorks, Zenon
  <2> QED BY <2>3, Zenon DEF Body, TellsTrue, AsksOnce, Advance
<1>2. CASE GivesUp(p)
  <2>1. KeepsGates /\ Leaves(p) BY <1>2, GaveUp, Zenon
  <2> QED BY <2>1, Zenon DEF Body, TellsTrue, AsksOnce, Advance
<1> QED BY <1>1, <1>2, Zenon DEF Advance

(* The hook's result is on record in both images before emitGate's promise *)
(* is settled with the answer.                                             *)
Settles(p) ==
  LET g == run[p].gate IN
  /\ rec(g).status = "accepted" /\ IsLive(g)
  /\ StoreTypes' /\ \A h \in Gates : After(file', synced', h, FALSE)
  /\ \A f \in {file', synced'} :
       /\ f.rec[g].status = "accepted" /\ f.rec[g].answer = rec(g).answer
       /\ f.rec[g].terminalized /\ f.rec[g].advanced
  /\ conts' = conts \ {g} /\ waiter' = [waiter EXCEPT ![g] = rec(g).answer]
  /\ Leaves(p)

(* #commitAdvanced settles the gate, or keeps every gate and leaves the    *)
(* lock; a client it tells is told the answer on record.                   *)
LEMMA CommitStep ==
  ASSUME StoreTypes, Images, RunTypes, RunsTrue, NEW p \in Procs, Commit(p)
  PROVE  ((KeepsGates /\ Leaves(p)) \/ Settles(p)) /\ TellsTrue
<1> DEFINE g == run[p].gate
           r == rec(g)
           x == [r EXCEPT !.advanced = TRUE]
<1>0. /\ g \in Gates /\ r \in Record /\ Sound(r) /\ run[p] \in Run /\ r.terminalized
      /\ NoAnswer \notin Answers
  <2>1. r.terminalized BY Zenon DEF Commit, Holds, RunsTrue
  <2> QED BY <2>1, RunType, RecSound, GateAssumption, Zenon
<1>1. CASE Throw(p, disk, 1, FALSE) /\ UNCHANGED told
  <2>1. KeepsGates /\ Leaves(p) BY <1>1, <1>0, DiskSame, Thrown, Zenon
  <2> QED BY <2>1, <1>1, Zenon DEF TellsTrue
<1>2. CASE GivesUp(p) /\ UNCHANGED <<advances, told>>
  <2>1. KeepsGates /\ Leaves(p) BY <1>2, GaveUp, Zenon
  <2> QED BY <2>1, <1>2, Zenon DEF TellsTrue
<1>3. ASSUME r.status = "accepted"
      PROVE  /\ Later(r, x) /\ x.status = "accepted" /\ x.answer = r.answer
             /\ x.advanced /\ x.terminalized /\ r.answer \in Answers
  <2>1. Later(r, x) /\ x.status = "accepted" /\ x.answer = r.answer
    BY <1>0, <1>3, LaterSet, Zenon
  <2>2. x.advanced /\ (r.terminalized => x.terminalized) BY <1>0, Zenon DEF Record
  <2>3. r.answer \in Answers BY <1>0, <1>3, Zenon DEF Record, Sound
  <2> QED BY <1>0, <2>1, <2>2, <2>3, Zenon
<1> HIDE DEF x
<1>4. ASSUME r.status = "accepted", NEW w \in Outcomes, w # "ok",
             Fails(p, Put(disk, w, g, x), w), UNCHANGED told
      PROVE  KeepsGates /\ Leaves(p) /\ TellsTrue
  <2>1. Disk(disk, g, run[p].op = "resolve" /\ w = "unsure") BY <1>0, DiskSame, Zenon
  <2>2. x.answer = disk[1].rec[g].answer /\ x.answer = rec(g).answer
    BY <1>3, <1>4, Zenon DEF disk, rec
  <2>3. Disk(Put(disk, w, g, x), g, run[p].op = "resolve" /\ w = "unsure")
    BY <1>0, <1>3, <1>4, <2>1, <2>2, DiskPut, Zenon
  <2> QED BY <1>4, <2>3, Failed, Zenon DEF TellsTrue
<1>5. ASSUME r.status = "accepted", IsLive(g), Store(Put(disk, "ok", g, x)),
             waiter' = [waiter EXCEPT ![g] = r.answer], conts' = conts \ {g}, Unlock(p),
             \/ /\ told' = [told EXCEPT ![g] = @ \cup {r.answer}]
                /\ run' = [run EXCEPT ![p] = Done]
             \/ /\ UNCHANGED told
                /\ run' = [run EXCEPT ![p] = [@ EXCEPT !.pc = "next", !.recovered = TRUE]]
      PROVE  Settles(p) /\ TellsTrue
  <2>1. file' = With(file, g, x) /\ synced' = file'
    BY <1>5, Zenon DEF Store, Put, Wrote, With, disk
  <2>2. file'.rec[g] = x BY <1>0, <1>3, <1>5, <2>1, WithIs DEF StoreTypes, Later
  <2>3. Disk(Put(disk, "ok", g, x), g, FALSE)
    <3>1. Disk(disk, g, FALSE) BY <1>0, DiskSame, Zenon
    <3>2. "ok" \in Outcomes /\ "ok" # "unsure" BY Zenon DEF Outcomes
    <3> QED BY <1>0, <1>3, <1>5, <3>1, <3>2, DiskPut, Zenon
  <2>4. Disk(<<file', synced'>>, g, FALSE) BY <1>5, <2>3, Zenon DEF Store, Disk
  <2>5. \A h \in Gates : After(file', synced', h, FALSE) BY <2>4, Zenon DEF Disk, After
  <2>6. StoreTypes' BY <1>0, <1>3, <1>5, <2>4, Zenon DEF Disk, StoreTypes
  <2>7. TellsTrue BY <1>0, <1>3, <1>5, <2>2, Zenon DEF TellsTrue, Tells
  <2>8. Leaves(p)
    <3>1. CASE run' = [run EXCEPT ![p] = Done]
      BY <1>5, <3>1, IdleRun, Zenon DEF Leaves
    <3>2. CASE run' = [run EXCEPT ![p] = [@ EXCEPT !.pc = "next", !.recovered = TRUE]]
      <4> DEFINE s == [run[p] EXCEPT !.pc = "next", !.recovered = TRUE]
      <4>1. run' = [run EXCEPT ![p] = s] BY <3>2, Zenon
      <4>2. s \in Run /\ s.pc \in Outside BY <1>0, Zenon DEF Run, Outside
      <4> QED BY <4>1, <4>2, <1>5, Zenon DEF Leaves
    <3> QED BY <1>5, <3>1, <3>2, Zenon
  <2>9. \A f \in {file', synced'} :
          /\ f.rec[g].status = "accepted" /\ f.rec[g].answer = rec(g).answer
          /\ f.rec[g].terminalized /\ f.rec[g].advanced
    BY <1>3, <1>5, <2>1, <2>2, Zenon
  <2> QED BY <1>5, <2>5, <2>6, <2>7, <2>8, <2>9, Zenon DEF Settles
<1> QED BY <1>1, <1>2, <1>4, <1>5, ZenonT(30) DEF Commit, x

-----------------------------------------------------------------------------
(* Steps outside the lock. *)

Enters(p) ==
  /\ run[p].pc \in Outside
  /\ \E s \in Run : /\ run' = [run EXCEPT ![p] = s]
                    /\ \/ s.pc \in Outside /\ UNCHANGED lock
                       \/ s.pc = "wait" /\ lock' = [lock EXCEPT ![s.gate] = Append(@, p)]

Around == /\ KeepsGates /\ TellsTrue /\ UNCHANGED <<acks, advances>>
          /\ UNCHANGED <<run, lock>> \/ \E p \in Procs : Enters(p)

(* Updates of one field keep a run's type. *)
LEMMA RunWith ==
  ASSUME NEW s \in Run
  PROVE  /\ \A c \in Outside \cup {"wait"} \cup Inside : [s EXCEPT !.pc = c] \in Run
         /\ \A o \in {"resolve", "recover"} : [s EXCEPT !.op = o] \in Run
         /\ \A h \in {"none", "sdk", "tg", "host", "timer"} : [s EXCEPT !.chan = h] \in Run
         /\ \A g \in Gates : [s EXCEPT !.gate = g] \in Run /\ [s EXCEPT !.asked = g] \in Run
         /\ \A a \in Answers \cup {Invalid, NoAnswer} : [s EXCEPT !.answer = a] \in Run
         /\ \A k \in Keys : [s EXCEPT !.key = k] \in Run
         /\ \A b \in BOOLEAN : [s EXCEPT !.commit = b] \in Run
         /\ \A T \in SUBSET Gates : [s EXCEPT !.todo = T] \in Run
<1>1. \A c \in Outside \cup {"wait"} \cup Inside : [s EXCEPT !.pc = c] \in Run
  BY Zenon DEF Run
<1>2. /\ \A o \in {"resolve", "recover"} : [s EXCEPT !.op = o] \in Run
      /\ \A h \in {"none", "sdk", "tg", "host", "timer"} : [s EXCEPT !.chan = h] \in Run
  BY Zenon DEF Run
<1>3. \A g \in Gates : [s EXCEPT !.gate = g] \in Run /\ [s EXCEPT !.asked = g] \in Run
  BY Zenon DEF Run
<1>4. /\ \A a \in Answers \cup {Invalid, NoAnswer} : [s EXCEPT !.answer = a] \in Run
      /\ \A k \in Keys : [s EXCEPT !.key = k] \in Run
  BY Zenon DEF Run
<1>5. /\ \A b \in BOOLEAN : [s EXCEPT !.commit = b] \in Run
      /\ \A T \in SUBSET Gates : [s EXCEPT !.todo = T] \in Run
  BY Zenon DEF Run
<1> QED BY <1>1, <1>2, <1>3, <1>4, <1>5, Zenon

(* A recovery that was just asked for. *)
LEMMA RecoveryRun ==
  ASSUME NEW c \in {"host", "timer"}
  PROVE  Recovery(c) \in Run /\ Recovery(c).pc \in Outside
<1> DEFINE x == [Idle EXCEPT !.op = "recover"]
           y == [x EXCEPT !.pc = "next"]
           z == [y EXCEPT !.chan = c]
<1>1. Unfinished(file) \in SUBSET Gates BY Zenon DEF Unfinished
<1>2. x \in Run BY IdleRun, RunWith, Zenon
<1>3. y \in Run BY <1>2, RunWith, Zenon DEF Outside
<1>4. z \in Run BY <1>3, RunWith, Zenon
<1>5. [z EXCEPT !.todo = Unfinished(file)] \in Run BY <1>1, <1>4, RunWith, Zenon
<1>6. Recovery(c) = [z EXCEPT !.todo = Unfinished(file)] BY Zenon DEF Recovery
<1>7. Recovery(c).pc = "next" BY IdleRun, Zenon DEF Recovery, Run
<1> QED BY <1>5, <1>6, <1>7, Zenon DEF Outside

(* An answer that just arrived. *)
LEMMA AskRun ==
  ASSUME NEW g \in Gates, NEW a \in Answers \cup {Invalid}, NEW k \in Keys,
         NEW c \in {"sdk", "tg"}, NEW b \in BOOLEAN
  PROVE  Ask(g, a, k, c, b) \in Run /\ Ask(g, a, k, c, b).gate = g
<1> DEFINE x == [Idle EXCEPT !.gate = g]
           y == [x EXCEPT !.answer = a]
           z == [y EXCEPT !.key = k]
           u == [z EXCEPT !.chan = c]
<1>1. x \in Run BY IdleRun, RunWith, Zenon
<1>2. y \in Run BY <1>1, RunWith, Zenon
<1>3. z \in Run BY <1>2, RunWith, Zenon
<1>4. u \in Run BY <1>3, RunWith, Zenon
<1>5. [u EXCEPT !.commit = b] \in Run BY <1>4, RunWith, Zenon
<1>6. Ask(g, a, k, c, b) = [u EXCEPT !.commit = b] BY Zenon DEF Ask
<1>7. Ask(g, a, k, c, b).gate = g BY IdleRun, Zenon DEF Ask, Run
<1> QED BY <1>5, <1>6, <1>7, Zenon

(* An operation that queues for a lock enters. *)
LEMMA EnqueueEnters ==
  ASSUME NEW p \in Procs, run[p].pc \in Outside, NEW r \in Run, Enqueue(p, r)
  PROVE  Enters(p)
<1> DEFINE s == [r EXCEPT !.pc = "wait"]
<1>1. s \in Run BY RunWith, Zenon
<1>2. s.pc = "wait" /\ s.gate = r.gate BY Zenon DEF Run
<1>3. run' = [run EXCEPT ![p] = s] /\ lock' = [lock EXCEPT ![r.gate] = Append(@, p)]
  BY Zenon DEF Enqueue
<1>4. lock' = [lock EXCEPT ![s.gate] = Append(@, p)] BY <1>2, <1>3, Zenon
<1> HIDE DEF s
<1> QED BY <1>1, <1>2, <1>3, <1>4, Zenon DEF Enters

(* So does one that stays outside all locks. *)
LEMMA RestsEnters ==
  ASSUME NEW p \in Procs, run[p].pc \in Outside, NEW s \in Run, s.pc \in Outside,
         run' = [run EXCEPT ![p] = s], UNCHANGED lock
  PROVE  Enters(p)
BY Zenon DEF Enters

(* Neither an idle operation nor a recovery between two gates holds a lock. *)
LEMMA IdleIsOutside == "idle" \in Outside /\ "next" \in Outside
BY Zenon DEF Outside

(* The session around the emitter attaches, suspends and resumes. *)
LEMMA SessionStep ==
  ASSUME StoreTypes, Images, RunTypes, Attach \/ Suspend \/ Resume
  PROVE  Around
<1>1. KeepsGates /\ UNCHANGED hist /\ UNCHANGED lock
  BY Quiet, Zenon DEF Attach, Suspend, Resume
<1>2. ASSUME AttachWorkflowGate
      PROVE  UNCHANGED run \/ \E p \in Procs : Enters(p)
  <2>1. CASE UNCHANGED run BY <2>1, Zenon
  <2>2. CASE \E p \in FreeRecoverers : run' = [run EXCEPT ![p] = Recovery("host")]
    <3>1. PICK p \in FreeRecoverers : run' = [run EXCEPT ![p] = Recovery("host")]
      BY <2>2, Zenon
    <3>2. p \in Procs /\ run[p].pc \in Outside
      BY IdleIsOutside, Zenon DEF FreeRecoverers, Procs
    <3> QED BY <1>1, <3>1, <3>2, RecoveryRun, RestsEnters, Zenon
  <2> QED BY <1>2, <2>1, <2>2, Zenon DEF AttachWorkflowGate
<1>3. UNCHANGED run \/ \E p \in Procs : Enters(p)
  BY <1>2, Zenon DEF Attach, Suspend, Resume
<1> QED BY <1>1, <1>3, Zenon DEF Around, TellsTrue, hist

(* An answer arrives. *)
LEMMA CallStep ==
  ASSUME StoreTypes, Images, RunTypes, NEW p \in Calls,
         AnswerGate(p) \/ AnswerFromNotification(p)
  PROVE  Around
<1>0. p \in Procs /\ run[p].pc \in Outside
  BY IdleIsOutside, Zenon DEF AnswerGate, AnswerFromNotification, Procs
<1>1. KeepsGates /\ UNCHANGED <<acks, advances>> /\ UNCHANGED file
  BY Quiet, Zenon DEF AnswerGate, AnswerFromNotification, hist, disk
<1>2. CASE AnswerFromNotification(p)
  <2>1. UNCHANGED told BY <1>2, Zenon DEF AnswerFromNotification, hist
  <2>2. PICK g \in Gates, a \in Answers \cup {Invalid}, k \in Keys, b \in BOOLEAN :
          IF rec(g).status = "none" THEN run' = [run EXCEPT ![p] = Done] /\ UNCHANGED lock
          ELSE Enqueue(p, Ask(g, a, k, "tg", b))
    BY <1>2, Zenon DEF AnswerFromNotification
  <2>3. Enters(p)
    BY <1>0, <2>2, IdleRun, AskRun, RestsEnters, EnqueueEnters, Zenon
  <2> QED BY <1>0, <1>1, <2>1, <2>3, Zenon DEF Around, TellsTrue
<1>3. CASE AnswerGate(p)
  <2> DEFINE q(g, a) == Ask(g, a, "key", "sdk", FALSE)
  <2>1. PICK g \in Gates, a \in Answers \cup {Invalid} :
          \/ /\ rec(g).answer # NoAnswer /\ Repeats(rec(g), "key", a)
             /\ told' = [told EXCEPT ![g] = @ \cup {a}]
             /\ run' = [run EXCEPT ![p] = Done] /\ UNCHANGED lock
          \/ /\ run' = [run EXCEPT ![p] = [q(g, a) EXCEPT !.op = "recover", !.pc = "next",
                                            !.asked = g, !.todo = Unfinished(file)]]
             /\ UNCHANGED <<lock, told>>
          \/ run' = [run EXCEPT ![p] = Done] /\ UNCHANGED <<lock, told>>
          \/ Enqueue(p, q(g, a)) /\ UNCHANGED told
    BY <1>3, ZenonT(30) DEF AnswerGate
  <2>2. "key" \in Keys /\ FALSE \in BOOLEAN BY Zenon DEF Keys
  <2>3. q(g, a) \in Run BY <2>2, AskRun, Zenon
  <2>4. [q(g, a) EXCEPT !.op = "recover", !.pc = "next", !.asked = g,
                        !.todo = Unfinished(file)] \in Run
    <3> DEFINE x == [q(g, a) EXCEPT !.op = "recover"]
               y == [x EXCEPT !.pc = "next"]
               z == [y EXCEPT !.asked = g]
    <3>1. x \in Run BY <2>3, RunWith, Zenon
    <3>2. y \in Run BY <3>1, RunWith, IdleIsOutside, Zenon
    <3>3. z \in Run BY <3>2, RunWith, Zenon
    <3>4. Unfinished(file) \in SUBSET Gates BY Zenon DEF Unfinished
    <3> QED BY <3>3, <3>4, RunWith, Zenon
  <2>5. [q(g, a) EXCEPT !.op = "recover", !.pc = "next", !.asked = g,
                        !.todo = Unfinished(file)].pc \in Outside
    BY <2>3, IdleIsOutside, Zenon DEF Run
  <2>6. Enters(p)
    BY <1>0, <2>1, <2>3, <2>4, <2>5, IdleRun, RestsEnters, EnqueueEnters, Zenon
  <2>7. TellsTrue
    <3>1. CASE UNCHANGED told BY <3>1, Zenon DEF TellsTrue
    <3>2. CASE /\ rec(g).answer # NoAnswer /\ Repeats(rec(g), "key", a)
               /\ told' = [told EXCEPT ![g] = @ \cup {a}]
      <4>1. rec(g).answer = a /\ rec(g).answer \in Answers
        BY <3>2, RecSound, Zenon DEF Repeats, Record
      <4>2. Tells(g) BY <1>1, <3>2, <4>1, Zenon DEF Tells, rec
      <4> QED BY <4>2, Zenon DEF TellsTrue
    <3> QED BY <2>1, <3>1, <3>2, Zenon
  <2> QED BY <1>0, <1>1, <2>6, <2>7, Zenon DEF Around
<1> QED BY <1>2, <1>3, Zenon

(* A recovery is asked for, by the timer or by the bus. *)
LEMMA RecovererStep ==
  ASSUME StoreTypes, Images, RunTypes, NEW p \in Recoverers, TimerFires(p) \/ HostRecovers(p)
  PROVE  Around
<1>1. p \in Procs /\ run[p].pc \in Outside
  BY IdleIsOutside, Zenon DEF TimerFires, HostRecovers, Procs
<1>2. KeepsGates /\ UNCHANGED lock /\ UNCHANGED hist
  BY Quiet, Zenon DEF TimerFires, HostRecovers, proc
<1>3. PICK c \in {"host", "timer"} : run' = [run EXCEPT ![p] = Recovery(c)]
  BY Zenon DEF TimerFires, HostRecovers
<1>4. Enters(p) BY <1>1, <1>2, <1>3, RecoveryRun, RestsEnters, Zenon
<1> QED BY <1>1, <1>2, <1>4, Zenon DEF Around, TellsTrue, hist

(* recover()'s loop goes to its next gate, or ends. *)
LEMMA RecoverStep ==
  ASSUME StoreTypes, Images, RunTypes, NEW p \in Procs, RecoverNext(p) \/ RecoverDone(p)
  PROVE  Around
<1>0. run[p].pc \in Outside /\ run[p] \in Run
  BY IdleIsOutside, RunType, Zenon DEF RecoverNext, RecoverDone
<1>1. KeepsGates /\ UNCHANGED <<acks, advances>> /\ UNCHANGED file
  BY Quiet, Zenon DEF RecoverNext, RecoverDone, hist, disk
<1>2. CASE RecoverNext(p)
  <2> DEFINE left == {g \in run[p].todo : IsLive(g) /\ g \notin recovering}
  <2>1. PICK g \in left : Enqueue(p, [run[p] EXCEPT !.gate = g, !.todo = {h \in left : h > g}])
    BY <1>2, Zenon DEF RecoverNext
  <2>2. run[p].todo \in SUBSET Gates BY <1>0, Zenon DEF Run
  <2>3. g \in Gates /\ {h \in left : h > g} \in SUBSET Gates BY <2>2, Zenon
  <2>4. [run[p] EXCEPT !.gate = g] \in Run BY <1>0, <2>3, RunWith, Zenon
  <2>5. [run[p] EXCEPT !.gate = g, !.todo = {h \in left : h > g}] \in Run
    BY <2>3, <2>4, RunWith, Zenon
  <2>6. Enters(p) BY <1>0, <2>1, <2>5, EnqueueEnters, Zenon
  <2>7. UNCHANGED told BY <1>2, Zenon DEF RecoverNext, hist
  <2> QED BY <1>1, <2>6, <2>7, Zenon DEF Around, TellsTrue
<1>3. CASE RecoverDone(p)
  <2> DEFINE g == run[p].asked
  <2>1. run' = [run EXCEPT ![p] = IF p \in Calls THEN Done ELSE Idle] /\ UNCHANGED lock
    BY <1>3, Zenon DEF RecoverDone
  <2>2. \/ UNCHANGED told
        \/ /\ Repeats(rec(g), run[p].key, run[p].answer)
           /\ told' = [told EXCEPT ![g] = @ \cup {run[p].answer}]
    BY <1>3, Zenon DEF RecoverDone
  <2>3. (IF p \in Calls THEN Done ELSE Idle) \in Run
        /\ (IF p \in Calls THEN Done ELSE Idle).pc \in Outside
    BY IdleRun, Zenon
  <2>4. Enters(p) BY <1>0, <2>1, <2>3, RestsEnters, Zenon
  <2>5. TellsTrue
    <3>1. CASE UNCHANGED told BY <3>1, Zenon DEF TellsTrue
    <3>2. CASE /\ Repeats(rec(g), run[p].key, run[p].answer)
               /\ told' = [told EXCEPT ![g] = @ \cup {run[p].answer}]
      <4>1. g \in Gates BY <1>0, Zenon DEF Run
      <4>2. rec(g).answer = run[p].answer /\ rec(g).answer \in Answers
        BY <3>2, <4>1, RecSound, Zenon DEF Repeats, Record, Sound
      <4>3. Tells(g) BY <1>1, <3>2, <4>2, Zenon DEF Tells, rec
      <4> QED BY <4>1, <4>3, Zenon DEF TellsTrue
    <3> QED BY <2>2, <3>1, <3>2, Zenon
  <2> QED BY <1>1, <2>4, <2>5, Zenon DEF Around
<1> QED BY <1>2, <1>3, Zenon

(* Sweeps over the gates: the fence of a session and the start of another. *)
LEMMA SweepIs ==
  ASSUME StoreTypes, Images, NEW S, \A g \in S : Fenceable(file, g),
         NEW e \in State, e.seq = file.seq,
         \A g \in Gates : e.rec[g] = IF g \in S THEN Shut(rec(g)) ELSE rec(g)
  PROVE  /\ \A g \in Gates : After(e, e, g, FALSE)
         /\ \A g \in Gates : After(e, synced, g, FALSE)
<1> SUFFICES ASSUME NEW g \in Gates
             PROVE  After(e, e, g, FALSE) /\ After(e, synced, g, FALSE)
  BY Zenon
<1>1. rec(g) \in Record /\ Later(rec(g), rec(g)) /\ file.seq <= e.seq
  BY RecSound, LaterSame, RecType DEF StoreTypes
<1>2. Later(rec(g), e.rec[g]) /\ e.rec[g].answer = rec(g).answer
  <2>1. CASE g \in S
    <3>1. rec(g).status = "pending" \/ (rec(g).status = "accepted" /\ ~rec(g).advanced)
      BY <2>1, Zenon DEF Fenceable, rec
    <3>2. Later(rec(g), Shut(rec(g))) /\ Shut(rec(g)).answer = rec(g).answer
      BY <1>1, <3>1, LaterShut, Zenon
    <3> QED BY <2>1, <3>2, Zenon
  <2>2. CASE g \notin S BY <1>1, <2>2, Zenon
  <2> QED BY <2>1, <2>2, Zenon
<1> QED BY <1>1, <1>2, Zenon DEF After

(* A sweep with the promises left alone or rejected keeps every gate. *)
LEMMA SweepKeeps ==
  ASSUME StoreTypes, file' \in State, synced' \in State,
         \A g \in Gates : After(file', synced', g, FALSE), conts' \subseteq conts,
         \/ UNCHANGED waiter
         \/ waiter' = [g \in Gates |-> IF waiter[g] = "waiting" THEN "rejected" ELSE waiter[g]]
  PROVE  KeepsGates
<1>1. \A g \in Gates : After(file', synced', g, g \notin conts') BY Zenon DEF After
<1>2. \A g \in Gates : Promise(g) BY Zenon DEF Promise
<1>3. waiter' \in [Gates -> {"none", "waiting", "rejected", "dead"} \cup Answers]
  BY Zenon DEF StoreTypes
<1>4. StoreTypes' BY <1>3, Zenon DEF StoreTypes
<1> QED BY <1>1, <1>2, <1>4, Zenon DEF KeepsGates, Kept

(* beginRuntimeInstance keeps every gate. *)
LEMMA StartStep ==
  ASSUME StoreTypes, Images, starts \in Nat, Start
  PROVE  KeepsGates /\ UNCHANGED <<run, lock, told, acks, advances>>
<1>1. PICK w \in Outcomes : Store(Wrote(disk, w, Quarantined(file, starts + 1)))
  BY Zenon DEF Start
<1>2. UNCHANGED <<conts, waiter>> /\ UNCHANGED <<run, lock, told, acks, advances>>
  BY Zenon DEF Start, hist
<1> DEFINE e == Quarantined(file, starts + 1)
           S == {g \in Gates : Fenceable(file, g)}
           Recs == [g \in Gates |-> IF Fenceable(file, g) THEN Shut(rec(g)) ELSE rec(g)]
<1>3. ASSUME NEW g \in Gates
      PROVE  (IF Fenceable(file, g) THEN Shut(rec(g)) ELSE rec(g)) \in Record
  BY RecType DEF Shut, Record, Closed, rec, StoreTypes
<1>4. Recs \in [Gates -> Record] BY <1>3, Zenon
<1>5. e = [[file EXCEPT !.inst = starts + 1] EXCEPT !.rec = Recs]
  BY Zenon DEF Quarantined, Shut, rec
<1>6. ASSUME NEW R \in [Gates -> Record], NEW i \in Nat
      PROVE  LET q == [[file EXCEPT !.inst = i] EXCEPT !.rec = R]
             IN q \in State /\ q.seq = file.seq /\ q.rec = R
  BY Zenon DEF StoreTypes, State
<1>7. starts + 1 \in Nat OBVIOUS
<1> HIDE DEF Recs, e
<1>8. e \in State /\ e.seq = file.seq /\ e.rec = Recs
  BY <1>4, <1>5, <1>6, <1>7, Zenon
<1>9. \A g \in Gates : e.rec[g] = IF g \in S THEN Shut(rec(g)) ELSE rec(g)
  BY <1>8, Zenon DEF Recs
<1>10. /\ \A g \in Gates : After(e, e, g, FALSE)
       /\ \A g \in Gates : After(e, synced, g, FALSE)
  BY <1>8, <1>9, SweepIs, Zenon
<1>11. CASE w = "lost"
  <2>1. UNCHANGED disk BY <1>1, <1>11, Zenon DEF Store, Wrote, disk
  <2> QED BY <1>2, <2>1, Quiet, Zenon
<1>12. CASE w # "lost"
  <2>1. file' = e /\ synced' \in {e, synced}
    BY <1>1, <1>12, Zenon DEF Store, Wrote, disk, Outcomes, e
  <2>2. file' \in State /\ synced' \in State BY <1>8, <2>1, Zenon DEF StoreTypes
  <2>3. \A g \in Gates : After(file', synced', g, FALSE) BY <1>10, <2>1, Zenon
  <2> QED BY <1>2, <2>2, <2>3, SweepKeeps, Zenon
<1> QED BY <1>11, <1>12, Zenon

(* fence() keeps every gate, wherever its loop ends. *)
LEMMA FenceStep ==
  ASSUME StoreTypes, Images, Fence
  PROVE  KeepsGates /\ UNCHANGED <<run, lock, told, acks, advances>>
<1> DEFINE mine == {g \in conts : Fenceable(file, g)}
           Cut(S) == [file EXCEPT !.rec = [g \in Gates |->
                        IF g \in S THEN [rec(g) EXCEPT !.status = "quarantined"] ELSE rec(g)]]
<1>1. /\ waiter' = [g \in Gates |-> IF waiter[g] = "waiting" THEN "rejected" ELSE waiter[g]]
      /\ UNCHANGED <<run, lock, told, acks, advances>>
  BY Zenon DEF Fence, hist
<1>2. ASSUME NEW S \in SUBSET mine
      PROVE  /\ Cut(S) \in State
             /\ \A g \in Gates : After(Cut(S), Cut(S), g, FALSE)
  <2>1. ASSUME NEW g \in Gates
        PROVE  (IF g \in S THEN Shut(rec(g)) ELSE rec(g)) \in Record
    BY RecType DEF Shut, Record, Closed, rec, StoreTypes
  <2>2. [g \in Gates |-> IF g \in S THEN Shut(rec(g)) ELSE rec(g)] \in [Gates -> Record]
    BY <2>1, Zenon
  <2>3. Cut(S) = [file EXCEPT !.rec =
                    [g \in Gates |-> IF g \in S THEN Shut(rec(g)) ELSE rec(g)]]
    BY Zenon DEF Shut
  <2>4. ASSUME NEW R \in [Gates -> Record]
        PROVE  LET q == [file EXCEPT !.rec = R]
               IN q \in State /\ q.seq = file.seq /\ q.rec = R
    BY Zenon DEF StoreTypes, State
  <2>5. /\ Cut(S) \in State /\ Cut(S).seq = file.seq
        /\ Cut(S).rec = [g \in Gates |-> IF g \in S THEN Shut(rec(g)) ELSE rec(g)]
    BY <2>2, <2>3, <2>4, Zenon
  <2>6. \A g \in Gates : Cut(S).rec[g] = IF g \in S THEN Shut(rec(g)) ELSE rec(g)
    BY <2>5, Zenon
  <2>7. \A g \in S : Fenceable(file, g) BY Zenon
  <2> HIDE DEF Cut, mine
  <2> QED BY <2>5, <2>6, <2>7, SweepIs, Zenon
<1>3. ASSUME NEW S \in SUBSET mine, NEW g \in Gates
      PROVE  Disk(IF S = {} THEN disk ELSE Wrote(disk, "ok", Cut(S)), g, FALSE)
  <2>1. CASE S = {} BY <2>1, DiskSame, Zenon
  <2>2. CASE S # {}
    <3>1. Wrote(disk, "ok", Cut(S)) = <<Cut(S), Cut(S)>> BY Zenon DEF Wrote
    <3> HIDE DEF Cut, mine
    <3>2. Disk(<<Cut(S), Cut(S)>>, g, FALSE) BY <1>2, Zenon DEF Disk, After
    <3> QED BY <2>2, <3>1, <3>2, Zenon
  <2> QED BY <2>1, <2>2, Zenon
<1>4. PICK g \in Gates : Disk(<<file', synced'>>, g, FALSE) /\ conts' \subseteq conts
  <2>1. CASE /\ conts' = {}
             /\ Store(IF mine = {} THEN disk ELSE Wrote(disk, "ok", Cut(mine)))
    <3>1. 1 \in Gates BY GateAssumption DEF Gates
    <3>2. Disk(IF mine = {} THEN disk ELSE Wrote(disk, "ok", Cut(mine)), 1, FALSE)
      BY <1>3, <3>1, Zenon
    <3> HIDE DEF Cut, mine
    <3>3. Disk(<<file', synced'>>, 1, FALSE) BY <2>1, <3>2, Zenon DEF Store, Disk
    <3> QED BY <2>1, <3>1, <3>3, Zenon
  <2>2. ASSUME NEW g \in mine, NEW w \in {"lost", "unsure"},
               LET before == {h \in mine : h < g}
                   d == IF before = {} THEN disk ELSE Wrote(disk, "ok", Cut(before))
               IN Store(Lose(d, w, g)) /\ conts' = {h \in conts : h > g}
        PROVE  g \in Gates /\ Disk(<<file', synced'>>, g, FALSE) /\ conts' \subseteq conts
    <3> DEFINE before == {h \in mine : h < g}
               d == IF before = {} THEN disk ELSE Wrote(disk, "ok", Cut(before))
    <3>1. g \in Gates /\ w \in Outcomes BY Zenon DEF StoreTypes, Outcomes
    <3>2. before \in SUBSET mine BY Zenon
    <3>3. Store(Lose(d, w, g)) /\ conts' \subseteq conts BY <2>2, Zenon
    <3> HIDE DEF before
    <3>4. Disk(d, g, FALSE) BY <1>3, <3>1, <3>2, Zenon
    <3> HIDE DEF d
    <3>5. Disk(Lose(d, w, g), g, FALSE) BY <3>1, <3>4, DiskLose, Zenon
    <3>6. Disk(<<file', synced'>>, g, FALSE) BY <3>3, <3>5, Zenon DEF Store, Disk
    <3> QED BY <3>1, <3>3, <3>6, Zenon
  <2> QED BY <2>1, <2>2, ZenonT(30) DEF Fence
<1>5. /\ file' \in State /\ synced' \in State
      /\ \A h \in Gates : After(file', synced', h, FALSE)
  BY <1>4, Zenon DEF Disk, After
<1> QED BY <1>1, <1>4, <1>5, SweepKeeps, Zenon

(* emitGate opens gate g, whose promise exists only with both writes done. *)
Opens(g) ==
  /\ rec(g).status = "none" /\ ~Opened(g) /\ StoreTypes'
  /\ \A h \in Gates \ {g} : /\ After(file', synced', h, FALSE) /\ file'.rec[h] = rec(h)
                            /\ waiter'[h] = waiter[h] /\ (h \in conts' <=> h \in conts)
  /\ file'.rec[g].status = "pending" /\ Sound(file'.rec[g])
  /\ g <= file'.seq /\ g <= synced'.seq
  /\ \/ synced'.rec[g] = file'.rec[g] /\ waiter'[g] = "waiting" /\ g \in conts'
     \/ synced'.rec[g] = rec(g) /\ UNCHANGED <<conts, waiter>>

(* The record of a gate that was never opened, and the one emitGate writes. *)
LEMMA NoGateIs ==
  ASSUME NEW i \in Nat, NEW x, x = [NoGate EXCEPT !.status = "pending", !.owner = i]
  PROVE  /\ NoGate \in Record /\ Sound(NoGate)
         /\ x \in Record /\ x.status = "pending" /\ Sound(x)
<1>1. NoGate \in Record BY Zenon DEF NoGate, Record, Keys
<1>2. Sound(NoGate) BY Zenon DEF NoGate, Sound
<1>3. [NoGate EXCEPT !.status = "pending"] \in Record BY <1>1, Zenon DEF Record
<1>4. [[NoGate EXCEPT !.status = "pending"] EXCEPT !.owner = i] \in Record
  <2>1. ASSUME NEW q \in Record PROVE [q EXCEPT !.owner = i] \in Record BY Zenon DEF Record
  <2> QED BY <1>3, <2>1, Zenon
<1>5. x = [[NoGate EXCEPT !.status = "pending"] EXCEPT !.owner = i] BY Zenon
<1>6. /\ x.status = "pending" /\ x.answer = NoAnswer /\ x.key = "none"
      /\ x.advanced = FALSE /\ x.ack = "none"
  BY Zenon DEF NoGate
<1>7. Sound(x) BY <1>6, Zenon DEF Sound
<1> QED BY <1>1, <1>2, <1>4, <1>5, <1>6, <1>7, Zenon

(* emitGate opens one gate, or writes no record at all. *)
LEMMA EmitStep ==
  ASSUME StoreTypes, Images, EmitGate
  PROVE  /\ \/ KeepsGates /\ \A h \in Gates : file'.rec[h] = rec(h)
            \/ \E g \in Gates : Opens(g)
         /\ UNCHANGED <<run, lock, told, acks, advances>>
<1> DEFINE g == file.seq + 1
           x == [NoGate EXCEPT !.status = "pending", !.owner = file.inst]
           n == nextSeq(file)
           o == With(n, g, x)
<1>1. g \in Gates /\ file.seq \in Nat /\ file.inst \in Nat
  BY GateAssumption DEF Gates, StoreTypes, State, EmitGate
<1>2. UNCHANGED <<run, lock, told, acks, advances>> BY Zenon DEF EmitGate, hist
<1>3. x \in Record /\ x.status = "pending" /\ Sound(x) BY <1>1, NoGateIs, Zenon
<1> HIDE DEF x
<1>4. n \in State /\ n.seq = g /\ n.rec = file.rec
  BY <1>1 DEF nextSeq, StoreTypes, State
<1> HIDE DEF n
<1>5. o \in State /\ o.seq = g /\ o.rec[g] = x /\ \A h \in Gates \ {g} : o.rec[h] = rec(h)
  BY <1>1, <1>3, <1>4, WithIs DEF rec
<1> HIDE DEF o
<1>6. rec(g).status = "none" /\ ~Opened(g)
  BY <1>1 DEF Images, Image, rec
<1>7. ASSUME NEW h \in Gates
      PROVE  After(n, n, h, FALSE) /\ After(n, synced, h, FALSE)
  <2>1. rec(h) \in Record /\ Later(rec(h), rec(h)) /\ file.seq <= n.seq
    BY <1>1, <1>4, RecSound, LaterSame
  <2> QED BY <1>4, <2>1, Zenon DEF After, rec
<1>8. ASSUME NEW h \in Gates \ {g}
      PROVE  After(o, o, h, FALSE) /\ After(o, n, h, FALSE)
  <2>1. Later(rec(h), rec(h)) /\ file.seq <= o.seq /\ file.seq <= n.seq
    BY <1>1, <1>4, <1>5, RecSound, LaterSame
  <2> QED BY <1>4, <1>5, <2>1, Zenon DEF After, rec
<1>9. CASE UNCHANGED <<disk, conts, waiter>> BY <1>2, <1>9, Quiet, Zenon DEF disk, rec
<1>10. CASE file' = n /\ synced' \in {n, synced} /\ UNCHANGED <<conts, waiter>>
  <2>1. \A h \in Gates : After(file', synced', h, FALSE) BY <1>7, <1>10, Zenon
  <2>2. file' \in State /\ synced' \in State BY <1>4, <1>10, Zenon DEF StoreTypes
  <2>3. \A h \in Gates : file'.rec[h] = rec(h) BY <1>4, <1>10, Zenon DEF rec
  <2> QED BY <1>2, <1>10, <2>1, <2>2, <2>3, SweepKeeps, Zenon
<1>11. CASE file' = o /\ synced' = n /\ UNCHANGED <<conts, waiter>>
  <2>1. StoreTypes' BY <1>4, <1>5, <1>11, Zenon DEF StoreTypes
  <2>2. /\ file'.rec[g] = x /\ synced'.rec[g] = rec(g)
        /\ g <= file'.seq /\ g <= synced'.seq
    BY <1>1, <1>4, <1>5, <1>11 DEF rec
  <2>3. Opens(g) BY <1>3, <1>5, <1>6, <1>8, <1>11, <2>1, <2>2, Zenon DEF Opens
  <2> QED BY <1>1, <1>2, <2>3, Zenon
<1>12. CASE /\ file' = o /\ synced' = o /\ conts' = conts \cup {g}
            /\ waiter' = [waiter EXCEPT ![g] = "waiting"]
  <2>1. StoreTypes' BY <1>1, <1>5, <1>12, Zenon DEF StoreTypes
  <2>2. /\ file'.rec[g] = x /\ synced'.rec[g] = x
        /\ g <= file'.seq /\ g <= synced'.seq
    BY <1>1, <1>5, <1>12
  <2>3. /\ waiter'[g] = "waiting" /\ g \in conts'
        /\ \A h \in Gates \ {g} : waiter'[h] = waiter[h]
    BY <1>1, <1>12, Zenon DEF StoreTypes
  <2>4. \A h \in Gates \ {g} : h \in conts' <=> h \in conts BY <1>12, Zenon
  <2>5. Opens(g)
    BY <1>3, <1>5, <1>6, <1>8, <1>12, <2>1, <2>2, <2>3, <2>4, Zenon DEF Opens
  <2> QED BY <1>1, <1>2, <2>5, Zenon
<1>13. PICK w1 \in Outcomes, w2 \in Outcomes :
         /\ w1 # "ok" => w2 = "ok"
         /\ Store(IF w1 = "ok" THEN Put(Wrote(disk, w1, n), w2, g, x) ELSE Wrote(disk, w1, n))
         /\ conts' = IF w1 = "ok" /\ w2 = "ok" THEN conts \cup {g} ELSE conts
         /\ waiter' = IF w1 = "ok" /\ w2 = "ok" THEN [waiter EXCEPT ![g] = "waiting"]
                      ELSE waiter
  BY Zenon DEF EmitGate, n, x
<1>14. CASE w1 # "ok"
  <2>1. Store(Wrote(disk, w1, n)) /\ UNCHANGED <<conts, waiter>> BY <1>13, <1>14, Zenon
  <2> QED BY <1>9, <1>10, <1>14, <2>1, Zenon DEF Store, Wrote, Outcomes, disk
<1>15. CASE w1 = "ok"
  <2>1. Wrote(disk, w1, n) = <<n, n>> BY <1>15, Zenon DEF Wrote
  <2>2. Store(Put(<<n, n>>, w2, g, x)) BY <1>13, <1>15, <2>1, Zenon
  <2>3. w2 = "ok" => file' = o /\ synced' = o BY <2>2, Zenon DEF Store, Put, Wrote, o, With
  <2>4. w2 = "lost" => file' = n /\ synced' = n BY <2>2, Zenon DEF Store, Put, Wrote
  <2>5. w2 = "unsure" => file' = o /\ synced' = n BY <2>2, Zenon DEF Store, Put, Wrote, o, With
  <2> QED BY <1>10, <1>11, <1>12, <1>13, <1>15, <2>3, <2>4, <2>5, Zenon DEF Outcomes
<1> QED BY <1>14, <1>15, Zenon

-----------------------------------------------------------------------------
(* Every step is one of these. *)

Still == /\ KeepsGates \/ \E g \in Gates : Opens(g)
         /\ UNCHANGED <<run, lock, told, acks, advances>>
Serves(p) == /\ Held(p) /\ run[p].pc # "commit" /\ Body(p)
             /\ UNCHANGED advances \/ Advance(p)
Ends(p) == /\ Held(p) /\ Commit(p) /\ (KeepsGates \/ Settles(p)) /\ Leaves(p)
           /\ TellsTrue /\ UNCHANGED acks

(* A step of an operation runs inside its lock, ends with the commit, or   *)
(* stays outside.                                                          *)
LEMMA StepIs ==
  ASSUME StoreTypes, Images, RunTypes, RunsTrue, NEW p \in Procs, Step(p)
  PROVE  Serves(p) \/ Ends(p) \/ Around
<1>1. ASSUME NEW c \in Inside \cup {"wait"}, Holds(p, c) PROVE Held(p)
  BY <1>1, Zenon DEF Held, Holds
<1>2. "wait" \in Inside \cup {"wait"} /\ \A c \in Inside : c \in Inside \cup {"wait"}
  BY Zenon
<1>3. /\ "ack" \in Inside /\ "final" \in Inside /\ "controller" \in Inside
      /\ "advance" \in Inside /\ "commit" \in Inside
  BY Zenon DEF Inside
<1>4. CASE Resolve(p)
  <2>1. Held(p) /\ run[p].pc # "commit" BY <1>1, <1>2, <1>4, Zenon DEF Holds, Resolve
  <2> QED BY <1>4, <2>1, ResolveStep, Zenon DEF Serves
<1>5. CASE AckReturns(p)
  <2>1. Held(p) /\ run[p].pc # "commit" BY <1>1, <1>2, <1>3, <1>5, Zenon DEF Holds, AckReturns
  <2> QED BY <1>5, <2>1, AckStep, Zenon DEF Serves
<1>6. CASE Finalize(p)
  <2>1. Held(p) /\ run[p].pc # "commit" BY <1>1, <1>2, <1>6, Zenon DEF Holds, Finalize
  <2> QED BY <1>6, <2>1, FinalizeStep, Zenon DEF Serves
<1>7. CASE Terminalize(p)
  <2>1. Held(p) /\ run[p].pc # "commit" BY <1>1, <1>2, <1>3, <1>7, Zenon DEF Holds, Terminalize
  <2> QED BY <1>7, <2>1, TerminalizeStep, Zenon DEF Serves
<1>8. CASE ControllerAnswers(p)
  <2>1. Held(p) /\ run[p].pc # "commit"
    BY <1>1, <1>2, <1>3, <1>8, Zenon DEF Holds, ControllerAnswers
  <2> QED BY <1>8, <2>1, ControllerStep, Zenon DEF Serves
<1>9. CASE Advance(p)
  <2>1. Held(p) /\ run[p].pc # "commit" BY <1>1, <1>2, <1>3, <1>9, Zenon DEF Holds, Advance
  <2> QED BY <1>9, <2>1, AdvanceStep, Zenon DEF Serves
<1>10. CASE Commit(p)
  <2>1. Held(p) BY <1>1, <1>2, <1>3, <1>10, Zenon DEF Commit
  <2>2. UNCHANGED acks BY <1>10, Zenon DEF Commit
  <2>3. ((KeepsGates /\ Leaves(p)) \/ Settles(p)) /\ TellsTrue BY <1>10, CommitStep, Zenon
  <2>4. Settles(p) => Leaves(p) BY Zenon DEF Settles
  <2> QED BY <1>10, <2>1, <2>2, <2>3, <2>4, Zenon DEF Ends
<1>11. CASE RecoverNext(p) \/ RecoverDone(p) BY <1>11, RecoverStep, Zenon
<1> QED BY <1>4, <1>5, <1>6, <1>7, <1>8, <1>9, <1>10, <1>11, Zenon DEF Step

(* Every step of the broker is of one of five kinds. *)
LEMMA NextIs ==
  ASSUME StoreTypes, Images, RunTypes, RunsTrue, starts \in Nat, [Next]_vars
  PROVE  \/ Still \/ Around \/ Crash
         \/ \E p \in Procs : Serves(p) \/ Ends(p)
<1>1. CASE Start BY <1>1, StartStep, Zenon DEF Still
<1>2. CASE Crash BY <1>2, Zenon
<1>3. CASE EmitGate BY <1>3, EmitStep, Zenon DEF Still
<1>4. CASE Attach \/ Suspend \/ Resume BY <1>4, SessionStep, Zenon
<1>5. CASE Fence BY <1>5, FenceStep, Zenon DEF Still
<1>6. CASE \E c \in Calls : AnswerGate(c) \/ AnswerFromNotification(c)
  BY <1>6, CallStep, Zenon
<1>7. CASE \E p \in Recoverers : TimerFires(p) \/ HostRecovers(p)
  BY <1>7, RecovererStep, Zenon
<1>8. CASE \E p \in Procs : Step(p) BY <1>8, StepIs, Zenon
<1>9. CASE UNCHANGED vars
  <2>1. UNCHANGED <<disk, conts, waiter>> /\ UNCHANGED <<run, lock, told, acks, advances>>
    BY <1>9, Zenon DEF vars, disk
  <2> QED BY <2>1, Quiet, Zenon DEF Still
<1> QED BY <1>1, <1>2, <1>3, <1>4, <1>5, <1>6, <1>7, <1>8, <1>9, Zenon DEF Next

(* The count of starts is a number. *)
LEMMA StartsStep ==
  ASSUME starts \in Nat, [Next]_vars
  PROVE  starts' \in Nat
<1>1. ASSUME NEW p, NEW d, NEW c, NEW l, Throw(p, d, c, l) PROVE UNCHANGED starts
  BY <1>1, Zenon DEF Throw
<1>2. ASSUME NEW p, NEW d, NEW w, Fails(p, d, w) PROVE UNCHANGED starts
  BY <1>1, <1>2, Zenon DEF Fails
<1>3. ASSUME NEW p, NEW r, NEW c, Writes(p, r, c) PROVE UNCHANGED starts
  BY <1>2, <1>3, Zenon DEF Writes
<1>4. ASSUME NEW p, Skip(p) PROVE UNCHANGED starts BY <1>4, Zenon DEF Skip
<1>5. ASSUME NEW p, GivesUp(p) PROVE UNCHANGED starts BY <1>1, <1>4, <1>5, Zenon DEF GivesUp
<1>6. ASSUME NEW p, Step(p) PROVE UNCHANGED starts
  <2>1. CASE Resolve(p)
    <3>1. ASSUME NEW T, Replies(p, T) PROVE UNCHANGED starts BY <3>1, Zenon DEF Replies
    <3> QED BY <1>1, <1>2, <1>3, <2>1, <3>1, ZenonT(30) DEF Resolve
  <2>2. CASE AckReturns(p) BY <1>1, <1>3, <2>2, Zenon DEF AckReturns
  <2>3. CASE Finalize(p) BY <1>3, <1>4, <2>3, Zenon DEF Finalize
  <2>4. CASE Terminalize(p) BY <1>1, <1>3, <1>5, <2>4, Zenon DEF Terminalize
  <2>5. CASE ControllerAnswers(p) BY <1>1, <1>3, <2>5, Zenon DEF ControllerAnswers
  <2>6. CASE Advance(p) BY <1>5, <2>6, Zenon DEF Advance
  <2>7. CASE Commit(p) BY <1>1, <1>2, <1>5, <2>7, Zenon DEF Commit
  <2>8. CASE RecoverNext(p) \/ RecoverDone(p) BY <2>8, Zenon DEF RecoverNext, RecoverDone
  <2> QED BY <1>6, <2>1, <2>2, <2>3, <2>4, <2>5, <2>6, <2>7, <2>8, Zenon DEF Step
<1>7. CASE Start
  <2>1. starts' = starts + 1 BY <1>7, Zenon DEF Start
  <2> QED BY <2>1
<1>8. ASSUME NEW c, AnswerGate(c) \/ AnswerFromNotification(c) PROVE UNCHANGED starts
  BY <1>8, Zenon DEF AnswerGate, AnswerFromNotification
<1>9. ASSUME NEW p, TimerFires(p) \/ HostRecovers(p) PROVE UNCHANGED starts
  BY <1>9, Zenon DEF TimerFires, HostRecovers
<1>10. CASE Crash \/ EmitGate \/ Attach \/ Suspend \/ Resume \/ Fence
  BY <1>10, Zenon DEF Crash, EmitGate, Attach, Suspend, Resume, Fence
<1>11. CASE UNCHANGED vars BY <1>11, Zenon DEF vars
<1> QED BY <1>6, <1>7, <1>8, <1>9, <1>10, <1>11, Zenon DEF Next

-----------------------------------------------------------------------------
(* What a step leaves alone. *)

(* An operation on gate g touches no other gate. *)
Elsewhere(g) ==
  \A h \in Gates \ {g} : /\ file'.rec[h] = rec(h) /\ waiter'[h] = waiter[h]
                         /\ (h \in conts' <=> h \in conts)
Far(d, g) == /\ "rec" \in DOMAIN d[1]
             /\ \A h \in Gates \ {g} : h \in DOMAIN d[1].rec /\ d[1].rec[h] = rec(h)

(* The store as it is. *)
LEMMA FarDisk ==
  ASSUME StoreTypes, NEW g
  PROVE  Far(disk, g)
BY Zenon DEF StoreTypes, State, Far, disk, rec

(* A write of gate g's record changes no other record. *)
LEMMA FarPut ==
  ASSUME NEW d, NEW g, Far(d, g), NEW w \in Outcomes, NEW r
  PROVE  Far(Put(d, w, g, r), g)
<1> DEFINE f == [d[1] EXCEPT !.rec[g] = r]
<1>1. "rec" \in DOMAIN f /\ f.rec = [d[1].rec EXCEPT ![g] = r] BY Zenon DEF Far
<1>2. ASSUME NEW h \in Gates \ {g} PROVE h \in DOMAIN f.rec /\ f.rec[h] = rec(h)
  BY <1>1, Zenon DEF Far
<1>3. Put(d, w, g, r)[1] = f \/ Put(d, w, g, r)[1] = d[1]
  BY Zenon DEF Put, Wrote, Outcomes
<1> HIDE DEF f
<1> QED BY <1>1, <1>2, <1>3, Zenon DEF Far

(* A step that changes no gate. *)
LEMMA FarSame ==
  ASSUME UNCHANGED <<disk, conts, waiter>>, NEW g
  PROVE  Elsewhere(g)
BY Zenon DEF disk, Elsewhere, rec

(* An error changes no other gate. *)
LEMMA FarThrow ==
  ASSUME StoreTypes, RunTypes, NEW p \in Procs, NEW d, NEW c, NEW l, Throw(p, d, c, l),
         Far(d, run[p].gate)
  PROVE  Elsewhere(run[p].gate)
<1> DEFINE g == run[p].gate
<1>1. PICK w \in Outcomes : Store(IF l THEN Lose(d, w, g) ELSE d) BY Zenon DEF Throw
<1>2. /\ conts' = IF l THEN conts \ {g} ELSE conts
      /\ waiter' = IF l THEN Rejected(g) ELSE waiter
  BY Zenon DEF Throw
<1>3. Far(IF l THEN Lose(d, w, g) ELSE d, g)
  <2>1. CASE l /\ Fenceable(d[1], g)
    <3>1. (IF l THEN Lose(d, w, g) ELSE d)
            = Put(d, w, g, [d[1].rec[g] EXCEPT !.status = "quarantined"])
      BY <2>1, Zenon DEF Lose
    <3> QED BY <3>1, FarPut, Zenon
  <2>2. CASE ~(l /\ Fenceable(d[1], g)) BY <2>2, Zenon DEF Lose
  <2> QED BY <2>1, <2>2, Zenon
<1>4. \A h \in Gates \ {g} : file'.rec[h] = rec(h) BY <1>1, <1>3, Zenon DEF Store, Far
<1>5. \A h \in Gates \ {g} : waiter'[h] = waiter[h] BY <1>2, Zenon DEF Rejected, StoreTypes
<1>6. \A h \in Gates \ {g} : h \in conts' <=> h \in conts BY <1>2, Zenon
<1> QED BY <1>4, <1>5, <1>6, Zenon DEF Elsewhere

(* A write and its error path change no other gate. *)
LEMMA FarWrites ==
  ASSUME StoreTypes, RunTypes, NEW p \in Procs, NEW r, NEW c, Writes(p, r, c)
  PROVE  Elsewhere(run[p].gate)
<1> DEFINE g == run[p].gate
<1>1. PICK w \in Outcomes :
        IF w = "ok"
        THEN Store(Put(disk, w, g, r)) /\ UNCHANGED <<conts, waiter>>
        ELSE Fails(p, Put(disk, w, g, r), w)
  BY Zenon DEF Writes
<1>2. Far(Put(disk, w, g, r), g) BY FarDisk, FarPut, Zenon
<1>3. CASE w = "ok" BY <1>1, <1>2, <1>3, Zenon DEF Store, Far, Elsewhere
<1>4. CASE w # "ok" BY <1>1, <1>2, <1>4, FarThrow, Zenon DEF Fails
<1> QED BY <1>3, <1>4, Zenon

(* Giving a gate up changes no other gate. *)
LEMMA FarGivesUp ==
  ASSUME StoreTypes, RunTypes, NEW p \in Procs, GivesUp(p)
  PROVE  Elsewhere(run[p].gate)
<1>1. CASE Throw(p, disk, 0, FALSE) BY <1>1, FarDisk, FarThrow, Zenon
<1>2. CASE Skip(p) BY <1>2, FarSame, Zenon DEF Skip
<1> QED BY <1>1, <1>2, Zenon DEF GivesUp

(* A client is told of an answer by Commit, or without any other change.   *)
Hushed == UNCHANGED told \/ UNCHANGED <<disk, conts, waiter>>

(* A step of an operation changes no gate but its own, and only a commit   *)
(* both moves a gate and tells a client.                                   *)
LEMMA StepFar ==
  ASSUME StoreTypes, RunTypes, NEW p \in Procs, Step(p)
  PROVE  Elsewhere(run[p].gate) /\ (Hushed \/ Commit(p))
<1> DEFINE g == run[p].gate
<1>1. ASSUME NEW c, NEW l, Throw(p, disk, c, l) PROVE Elsewhere(g)
  BY <1>1, FarDisk, FarThrow, Zenon
<1>2. ASSUME NEW r, NEW c, Writes(p, r, c) PROVE Elsewhere(g) BY <1>2, FarWrites, Zenon
<1>3. CASE Resolve(p)
  <2>1. ASSUME NEW T, Replies(p, T) PROVE Elsewhere(g) /\ Hushed
    BY <2>1, FarSame, Zenon DEF Replies, Hushed
  <2>2. ASSUME NEW d, NEW w, Far(d, g), Fails(p, d, w) PROVE Elsewhere(g)
    BY <2>2, FarThrow, Zenon DEF Fails
  <2>3. ASSUME NEW w1 \in Outcomes, NEW w2 \in Outcomes, NEW r, NEW x
        PROVE  /\ Far(Put(disk, w1, g, r), g)
               /\ Far(Put(Put(disk, w1, g, r), w2, g, x), g)
    BY FarDisk, FarPut, Zenon
  <2>4. ASSUME NEW w1 \in Outcomes, NEW w2 \in Outcomes, NEW r, NEW x,
               Store(Put(Put(disk, w1, g, r), w2, g, x)), UNCHANGED proc
        PROVE  Elsewhere(g)
    <3>1. UNCHANGED <<conts, waiter>> BY <2>4, Zenon DEF proc
    <3>2. Far(Put(Put(disk, w1, g, r), w2, g, x), g) BY <2>3, Zenon
    <3> QED BY <2>4, <3>1, <3>2, Zenon DEF Store, Far, Elsewhere
  <2> QED BY <1>1, <1>2, <1>3, <2>1, <2>2, <2>3, <2>4, ZenonT(30) DEF Resolve, hist, Hushed
<1>4. CASE AckReturns(p) BY <1>1, <1>2, <1>4, Zenon DEF AckReturns, hist, Hushed
<1>5. CASE Finalize(p)
  <2>1. Skip(p) => Elsewhere(g) BY FarSame, Zenon DEF Skip
  <2>2. UNCHANGED <<disk, proc>> => Elsewhere(g) BY FarSame, Zenon DEF proc
  <2> QED BY <1>2, <1>5, <2>1, <2>2, Zenon DEF Finalize, hist, Hushed
<1>6. CASE Terminalize(p)
  <2>1. UNCHANGED <<disk, proc>> => Elsewhere(g) BY FarSame, Zenon DEF proc
  <2> QED BY <1>1, <1>2, <1>6, <2>1, FarGivesUp, Zenon DEF Terminalize, hist, Hushed
<1>7. CASE ControllerAnswers(p)
  BY <1>1, <1>2, <1>7, Zenon DEF ControllerAnswers, hist, Hushed
<1>8. CASE Advance(p)
  <2>1. UNCHANGED <<disk, proc>> => Elsewhere(g) BY FarSame, Zenon DEF proc
  <2> QED BY <1>8, <2>1, FarGivesUp, Zenon DEF Advance, Hushed
<1>9. CASE Commit(p)
  <2>1. ASSUME NEW w \in Outcomes, NEW r, Fails(p, Put(disk, w, g, r), w) PROVE Elsewhere(g)
    BY <2>1, FarDisk, FarPut, FarThrow, Zenon DEF Fails
  <2>2. ASSUME NEW w \in Outcomes, NEW r, Store(Put(disk, w, g, r)),
               NEW a, waiter' = [waiter EXCEPT ![g] = a], conts' = conts \ {g}
        PROVE  Elsewhere(g)
    <3>1. Far(Put(disk, w, g, r), g) BY FarDisk, FarPut, Zenon
    <3>2. \A h \in Gates \ {g} : waiter'[h] = waiter[h] BY <2>2, Zenon DEF StoreTypes
    <3> QED BY <2>2, <3>1, <3>2, Zenon DEF Store, Far, Elsewhere
  <2> QED BY <1>1, <1>9, <2>1, <2>2, FarGivesUp, ZenonT(30) DEF Commit
<1>10. CASE RecoverNext(p) \/ RecoverDone(p)
  BY <1>10, FarSame, Zenon DEF RecoverNext, RecoverDone, Hushed
<1> QED BY <1>3, <1>4, <1>5, <1>6, <1>7, <1>8, <1>9, <1>10, Zenon DEF Step

(* The sweeps of Start and Fence change no answer.                         *)
Answered(d) == /\ "rec" \in DOMAIN d[1]
               /\ \A h \in Gates : /\ h \in DOMAIN d[1].rec
                                   /\ "answer" \in DOMAIN d[1].rec[h]
                                   /\ d[1].rec[h].answer = rec(h).answer
SameAnswers == \A h \in Gates : file'.rec[h].answer = rec(h).answer

(* A quarantined record keeps its answer. *)
LEMMA AnsweredShut ==
  ASSUME NEW r, "answer" \in DOMAIN r
  PROVE  /\ "answer" \in DOMAIN [r EXCEPT !.status = "quarantined"]
         /\ [r EXCEPT !.status = "quarantined"].answer = r.answer
BY Zenon

(* The store as it is. *)
LEMMA AnsweredDisk ==
  ASSUME StoreTypes
  PROVE  Answered(disk)
BY DEF StoreTypes, State, Record, Answered, disk, rec

(* The sweep of a start or a fence keeps every answer. *)
LEMMA AnsweredSweep ==
  ASSUME StoreTypes, NEW S, NEW w \in Outcomes, NEW e, "rec" \in DOMAIN e,
         e.rec = [g \in Gates |-> IF g \in S THEN [rec(g) EXCEPT !.status = "quarantined"]
                                  ELSE rec(g)]
  PROVE  Answered(Wrote(disk, w, e))
<1>1. ASSUME NEW h \in Gates PROVE "answer" \in DOMAIN rec(h)
  BY DEF StoreTypes, State, Record, rec
<1>2. ASSUME NEW h \in Gates
      PROVE  h \in DOMAIN e.rec /\ "answer" \in DOMAIN e.rec[h] /\ e.rec[h].answer = rec(h).answer
  BY <1>1, AnsweredShut, Zenon
<1>3. Wrote(disk, w, e)[1] = e \/ Wrote(disk, w, e)[1] = disk[1] BY Zenon DEF Wrote, Outcomes
<1> QED BY <1>2, <1>3, AnsweredDisk, Zenon DEF Answered

(* So does giving a continuation up. *)
LEMMA AnsweredLose ==
  ASSUME NEW d, Answered(d), NEW g \in Gates, NEW w \in Outcomes
  PROVE  Answered(Lose(d, w, g))
<1> DEFINE r == [d[1].rec[g] EXCEPT !.status = "quarantined"]
           f == [d[1] EXCEPT !.rec[g] = r]
<1>1. "rec" \in DOMAIN f /\ f.rec = [d[1].rec EXCEPT ![g] = r] BY Zenon DEF Answered
<1>2. "answer" \in DOMAIN r /\ r.answer = rec(g).answer BY AnsweredShut, Zenon DEF Answered
<1> HIDE DEF r
<1>3. ASSUME NEW h \in Gates
      PROVE  h \in DOMAIN f.rec /\ "answer" \in DOMAIN f.rec[h] /\ f.rec[h].answer = rec(h).answer
  <2>1. CASE h = g BY <1>1, <1>2, <2>1, Zenon DEF Answered
  <2>2. CASE h # g BY <1>1, <2>2, Zenon DEF Answered
  <2> QED BY <2>1, <2>2, Zenon
<1>4. Lose(d, w, g)[1] = f \/ Lose(d, w, g)[1] = d[1]
  BY Zenon DEF Lose, Put, Wrote, Outcomes, r
<1> HIDE DEF f
<1> QED BY <1>1, <1>3, <1>4, Zenon DEF Answered

(* Starting and fencing change no answer and tell nobody. *)
LEMMA SweepAnswers ==
  ASSUME StoreTypes, Start \/ Fence
  PROVE  SameAnswers /\ UNCHANGED told
<1>0. UNCHANGED told BY Zenon DEF Start, Fence, hist
<1>1. ASSUME NEW d, Answered(d), Store(d) PROVE SameAnswers
  BY <1>1, Zenon DEF Answered, Store, SameAnswers
<1>2. CASE Start
  <2> DEFINE e == Quarantined(file, starts + 1)
             S == {g \in Gates : Fenceable(file, g)}
  <2>1. PICK w \in Outcomes : Store(Wrote(disk, w, e)) BY <1>2, Zenon DEF Start
  <2>2. "rec" \in DOMAIN file BY Zenon DEF StoreTypes, State
  <2>3. /\ "rec" \in DOMAIN e
        /\ e.rec = [g \in Gates |-> IF g \in S THEN [rec(g) EXCEPT !.status = "quarantined"]
                                     ELSE rec(g)]
    BY <2>2, Zenon DEF Quarantined, rec
  <2> HIDE DEF e, S
  <2>4. Answered(Wrote(disk, w, e)) BY <2>3, AnsweredSweep, Zenon
  <2> QED BY <1>0, <1>1, <2>1, <2>4, Zenon
<1>3. CASE Fence
  <2> DEFINE mine == {g \in conts : Fenceable(file, g)}
             Cut(S) == [file EXCEPT !.rec = [g \in Gates |->
                          IF g \in S THEN [rec(g) EXCEPT !.status = "quarantined"] ELSE rec(g)]]
             Upon(S) == IF S = {} THEN disk ELSE Wrote(disk, "ok", Cut(S))
  <2>1. "rec" \in DOMAIN file /\ "ok" \in Outcomes /\ {"lost", "unsure"} \subseteq Outcomes
    BY Zenon DEF StoreTypes, State, Outcomes
  <2>2. ASSUME NEW S PROVE Answered(Upon(S))
    <3>1. "rec" \in DOMAIN Cut(S)
          /\ Cut(S).rec = [g \in Gates |-> IF g \in S THEN [rec(g) EXCEPT !.status = "quarantined"]
                                            ELSE rec(g)]
      BY <2>1, Zenon
    <3> HIDE DEF Cut
    <3>2. Answered(Wrote(disk, "ok", Cut(S))) BY <2>1, <3>1, AnsweredSweep, Zenon
    <3> QED BY <3>2, AnsweredDisk, Zenon
  <2>3. \/ Store(Upon(mine))
        \/ \E g \in mine, w \in {"lost", "unsure"} : Store(Lose(Upon({h \in mine : h < g}), w, g))
    BY <1>3, ZenonT(30) DEF Fence
  <2>4. mine \subseteq Gates BY Zenon DEF StoreTypes
  <2> HIDE DEF Upon, mine
  <2>5. ASSUME NEW g \in mine, NEW w \in {"lost", "unsure"}, NEW S, Store(Lose(Upon(S), w, g))
        PROVE  SameAnswers
    <3>1. g \in Gates /\ w \in Outcomes BY <2>1, <2>4, Zenon
    <3> QED BY <1>1, <2>2, <2>5, <3>1, AnsweredLose, Zenon
  <2> QED BY <1>0, <1>1, <2>2, <2>3, <2>5, Zenon
<1> QED BY <1>2, <1>3, Zenon
=============================================================================
