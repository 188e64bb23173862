------------------------- MODULE SlackInboundProofs -------------------------
(***************************************************************************)
(* Proofs about SlackInbound, for any number of tasks, messages and        *)
(* questions and any bounds.                                               *)
(*                                                                         *)
(* The first sections say what each action does to task, journal and       *)
(* mapping, field by field, and show that their types are kept (Base).     *)
(* ResentOnlyAfterSlip is not inductive: a claim, a check and a send are   *)
(* three steps, and a drain, a redelivery, a prune or a crash may come     *)
(* between them.  So rights to send are counted.  A task has one from its  *)
(* claim to its send (Armed), and the journal has one while a claim of the *)
(* message may still succeed (Claimable).  Budget says that sends and      *)
(* rights together are at most one more than the slips.                    *)
(***************************************************************************)
EXTENDS SlackInbound, FiniteSets, TLAPS

(* A leaf that names no backend goes to the SMT solver, with time to spare.  *)
USE SMTT(30)

-----------------------------------------------------------------------------
(* Types. *)

(* What an effect is for: the question a reply answers, or a command.        *)
Asked == Actions \cup {"command"}

Resting == {"idle", "walk", "list"}
Places == Resting \cup
    {"enqueue", "accept", "ack", "claim", "check", "send", "record", "refused",
     "unsure", "finish", "finishUncertain", "release", "stale", "final"}

States == {"none", "pending", "accepted", "leased", "uncertain", "terminal"}

EffectType ==
    [state : States, holder : Tasks \cup {NoTask}, lapsed : BOOLEAN,
     question : Asked \cup {NoReceipt}]

MapType ==
    [bound : BOOLEAN, pending : Actions \cup {NoAction},
     receipts : [Msgs -> Asked \cup {NoReceipt}], seen : SUBSET Msgs]

TaskType ==
    [pc : Places, back : Resting, drain : {"no", "start", "recover"},
     msg : Msgs \cup {NoTask}, receipt : Asked \cup {NoAction, NoReceipt},
     mine : BOOLEAN, walk : SUBSET (Msgs \X Asked \X BOOLEAN),
     list : SUBSET (Msgs \X BOOLEAN), got : SUBSET Msgs]

(* A task that does not rest has a message in hand; the question it is to    *)
(* enqueue or has checked is one.                                            *)
TaskOK(k) ==
    /\ k.pc \notin Resting => k.msg \in Msgs
    /\ k.pc = "enqueue" => k.receipt \in Asked \cup {NoAction}
    /\ k.pc = "check" => k.receipt \in Asked

TasksOK == task \in [Tasks -> TaskType] /\ \A t \in Tasks : TaskOK(task[t])

EffectsOK ==
    /\ effect \in [Msgs -> EffectType]
    /\ \A m \in Msgs : effect[m].state # "none" => effect[m].question \in Asked

CountsOK == sends \in [Msgs -> Nat] /\ slips \in [Msgs -> Nat]

TypeOK ==
    /\ effect \in [Msgs -> EffectType]
    /\ map \in MapType
    /\ task \in [Tasks -> TaskType]

Base == TypeOK /\ TasksOK /\ EffectsOK /\ CountsOK

-----------------------------------------------------------------------------
(* What the actions do, field by field. *)

(* Only the task t, the effect of m changes. *)
Only(t) == task' \in [Tasks -> TaskType] /\ \A u \in Tasks \ {t} : task'[u] = task[u]
Touch(m) == effect' \in [Msgs -> EffectType] /\ \A n \in Msgs \ {m} : effect'[n] = effect[n]

(* The task is at pc, with message m and receipt r in hand.                  *)
Sets(t, pc, m, r) ==
    /\ Only(t)
    /\ task'[t].pc = pc /\ task'[t].msg = m /\ task'[t].receipt = r
    /\ task'[t].back = task[t].back /\ task'[t].drain = task[t].drain

(* What a drain has left and got stays. *)
Keeps(t) ==
    /\ task'[t].walk = task[t].walk /\ task'[t].list = task[t].list
    /\ task'[t].got = task[t].got

Moves(t, pc) == Sets(t, pc, task[t].msg, task[t].receipt) /\ Keeps(t)
Rests(t) == Only(t) /\ task'[t] = Rest

(* A task ends: a handler rests, a drain goes on.                            *)
Ends(t) ==
    \/ task[t].back = "idle" /\ Rests(t)
    \/ task[t].back # "idle" /\ Sets(t, task[t].back, NoTask, NoReceipt) /\ Keeps(t)

(* The effect of m is in state s, without a lease; it has a lease.           *)
Becomes(m, s) ==
    /\ Touch(m)
    /\ effect'[m].state = s /\ effect'[m].holder = NoTask /\ ~effect'[m].lapsed
LeasedTo(m, t) ==
    /\ Touch(m)
    /\ effect'[m].state = "leased" /\ effect'[m].holder = t /\ ~effect'[m].lapsed
    /\ effect'[m].question = effect[m].question

(* The mapping has receipt r for m. *)
Receipt(m, r) ==
    /\ map' \in MapType
    /\ map'.bound = map.bound /\ map'.seen = map.seen /\ map'.pending = map.pending
    /\ map'.receipts[m] = r
    /\ \A n \in Msgs \ {m} : map'.receipts[n] = map.receipts[n]

(* The rest of a task is a task.                                           *)
LEMMA RestType == Rest \in TaskType
BY DEF Rest, TaskType, Places, Resting, NoReceipt

(* A task at rest has nothing in hand.                                     *)
LEMMA RestIs ==
    /\ Rest.pc = "idle" /\ Rest.back = "idle" /\ Rest.drain = "no" /\ Rest.msg = NoTask
    /\ Rest.receipt = NoReceipt /\ Rest.walk = {} /\ Rest.list = {} /\ Rest.got = {}
BY DEF Rest

(* A field at a time. *)
LEMMA FieldType ==
    ASSUME NEW k \in TaskType
    PROVE  /\ \A p \in Places : [k EXCEPT !.pc = p] \in TaskType
           /\ \A p \in Resting : [k EXCEPT !.back = p] \in TaskType
           /\ \A d \in {"no", "start", "recover"} : [k EXCEPT !.drain = d] \in TaskType
           /\ \A m \in Msgs \cup {NoTask} : [k EXCEPT !.msg = m] \in TaskType
           /\ \A r \in Asked \cup {NoAction, NoReceipt} : [k EXCEPT !.receipt = r] \in TaskType
           /\ \A b \in BOOLEAN : [k EXCEPT !.mine = b] \in TaskType
           /\ \A w \in SUBSET (Msgs \X Asked \X BOOLEAN) : [k EXCEPT !.walk = w] \in TaskType
           /\ \A l \in SUBSET (Msgs \X BOOLEAN) : [k EXCEPT !.list = l] \in TaskType
           /\ \A g \in SUBSET Msgs : [k EXCEPT !.got = g] \in TaskType
<1>1. \A p \in Places : [k EXCEPT !.pc = p] \in TaskType
  BY DEF TaskType
<1>2. \A p \in Resting : [k EXCEPT !.back = p] \in TaskType
  BY DEF TaskType
<1>3. \A d \in {"no", "start", "recover"} : [k EXCEPT !.drain = d] \in TaskType
  BY DEF TaskType
<1>4. \A m \in Msgs \cup {NoTask} : [k EXCEPT !.msg = m] \in TaskType
  BY DEF TaskType
<1>5. \A r \in Asked \cup {NoAction, NoReceipt} : [k EXCEPT !.receipt = r] \in TaskType
  BY DEF TaskType
<1>6. \A b \in BOOLEAN : [k EXCEPT !.mine = b] \in TaskType
  BY DEF TaskType
<1>7. \A w \in SUBSET (Msgs \X Asked \X BOOLEAN) : [k EXCEPT !.walk = w] \in TaskType
  BY DEF TaskType
<1>8. \A l \in SUBSET (Msgs \X BOOLEAN) : [k EXCEPT !.list = l] \in TaskType
  BY DEF TaskType
<1>9. \A g \in SUBSET Msgs : [k EXCEPT !.got = g] \in TaskType
  BY DEF TaskType
<1> QED BY <1>1, <1>2, <1>3, <1>4, <1>5, <1>6, <1>7, <1>8, <1>9, Zenon

(* The task t becomes k. *)
LEMMA OnlyIs ==
    ASSUME TypeOK, NEW t \in Tasks, NEW k \in TaskType, task' = [task EXCEPT ![t] = k]
    PROVE  Only(t) /\ task'[t] = k
BY DEF TypeOK, Only

(* Putting a task to rest changes no other task.                           *)
LEMMA RestsIs ==
    ASSUME TypeOK, NEW t \in Tasks, task' = [task EXCEPT ![t] = Rest]
    PROVE  Rests(t)
BY RestType, OnlyIs, Zenon DEF Rests

(* A task that goes on to its next place keeps all it has in hand.         *)
LEMMA GotoIs ==
    ASSUME TypeOK, NEW t \in Tasks, NEW pc \in Places, Goto(t, pc)
    PROVE  Moves(t, pc)
<1>1. task[t] \in TaskType
  BY DEF TypeOK
<1>2. task' = [task EXCEPT ![t] = [task[t] EXCEPT !.pc = pc]]
  BY Zenon DEF Goto
<1>3. [task[t] EXCEPT !.pc = pc] \in TaskType
  BY <1>1, FieldType, Zenon
<1>4. Only(t) /\ task'[t] = [task[t] EXCEPT !.pc = pc]
  BY <1>2, <1>3, OnlyIs, Zenon
<1> QED BY <1>1, <1>4 DEF Moves, Sets, Keeps, TaskType

(* The task has pc, message, receipt and mine set. *)
LEMMA HandIs ==
    ASSUME TypeOK, NEW t \in Tasks, NEW pc \in Places, NEW m \in Msgs \cup {NoTask},
           NEW r \in Asked \cup {NoAction, NoReceipt}, NEW b \in BOOLEAN,
           task' = [task EXCEPT ![t].pc = pc, ![t].msg = m, ![t].receipt = r, ![t].mine = b]
    PROVE  Sets(t, pc, m, r) /\ Keeps(t)
<1> DEFINE k1 == [task[t] EXCEPT !.pc = pc]
           k2 == [k1 EXCEPT !.msg = m]
           k3 == [k2 EXCEPT !.receipt = r]
           k4 == [k3 EXCEPT !.mine = b]
<1>1. task[t] \in TaskType
  BY DEF TypeOK
<1>2. task' = [task EXCEPT ![t] = k4]
  BY Zenon
<1>3. k1 \in TaskType
  BY <1>1, FieldType, Zenon
<1>4. k2 \in TaskType
  BY <1>3, FieldType, Zenon
<1>5. k3 \in TaskType
  BY <1>4, FieldType, Zenon
<1>6. k4 \in TaskType
  BY <1>5, FieldType, Zenon
<1>7. /\ k4.pc = pc /\ k4.msg = m /\ k4.receipt = r /\ k4.back = task[t].back
      /\ k4.drain = task[t].drain /\ k4.walk = task[t].walk /\ k4.list = task[t].list
      /\ k4.got = task[t].got
  BY <1>1 DEF TaskType
<1> HIDE DEF k4
<1>8. Only(t) /\ task'[t] = k4
  BY <1>2, <1>6, OnlyIs, Zenon
<1> QED BY <1>7, <1>8, Zenon DEF Sets, Keeps

(* Where a handler returns, and where a drain goes on with what it has     *)
(* left.                                                                   *)
LEMMA BackIs ==
    ASSUME TypeOK, NEW t \in Tasks, Back(t)
    PROVE  Ends(t)
<1>1. CASE task[t].back = "idle"
  BY <1>1, RestsIs, Zenon DEF Back, Ends
<1>2. CASE task[t].back # "idle"
  <2>1. task' = [task EXCEPT ![t].pc = task[t].back, ![t].msg = NoTask,
                             ![t].receipt = NoReceipt, ![t].mine = FALSE]
    BY <1>2, Zenon DEF Back
  <2>2. task[t].back \in Places
    BY DEF TypeOK, TaskType, Places
  <2> QED BY <1>2, <2>1, <2>2, HandIs, Zenon DEF Ends
<1> QED BY <1>1, <1>2, Zenon

(* The places, one by one.                                                 *)
LEMMA InPlaces ==
    /\ Resting \subseteq Places
    /\ {"enqueue", "accept", "ack", "claim", "check", "send", "record", "refused", "unsure",
        "finish", "finishUncertain", "release", "stale", "final"} \subseteq Places
    /\ "walk" \in Places /\ "list" \in Places /\ "enqueue" \in Places /\ "accept" \in Places
    /\ "ack" \in Places /\ "claim" \in Places /\ "check" \in Places /\ "send" \in Places
    /\ "record" \in Places /\ "refused" \in Places /\ "unsure" \in Places
    /\ "finish" \in Places /\ "finishUncertain" \in Places /\ "release" \in Places
    /\ "stale" \in Places /\ "final" \in Places
BY DEF Places, Resting

(* An effect of which one field is set is an effect.                       *)
LEMMA EffectField ==
    ASSUME NEW e \in EffectType
    PROVE  /\ \A s \in States : [e EXCEPT !.state = s] \in EffectType
           /\ \A h \in Tasks \cup {NoTask} : [e EXCEPT !.holder = h] \in EffectType
           /\ \A l \in BOOLEAN : [e EXCEPT !.lapsed = l] \in EffectType
           /\ \A q \in Asked \cup {NoReceipt} : [e EXCEPT !.question = q] \in EffectType
<1>1. \A s \in States : [e EXCEPT !.state = s] \in EffectType
  BY DEF EffectType
<1>2. \A h \in Tasks \cup {NoTask} : [e EXCEPT !.holder = h] \in EffectType
  BY DEF EffectType
<1>3. \A l \in BOOLEAN : [e EXCEPT !.lapsed = l] \in EffectType
  BY DEF EffectType
<1>4. \A q \in Asked \cup {NoReceipt} : [e EXCEPT !.question = q] \in EffectType
  BY DEF EffectType
<1> QED BY <1>1, <1>2, <1>3, <1>4, Zenon

(* The effect of m becomes e. *)
LEMMA TouchIs ==
    ASSUME TypeOK, NEW m \in Msgs, NEW e \in EffectType, effect' = [effect EXCEPT ![m] = e]
    PROVE  Touch(m) /\ effect'[m] = e
BY DEF TypeOK, Touch

(* f is e with state, holder and lapsed set. *)
LeaseOf(f, e, s, h, l) ==
    /\ f \in EffectType
    /\ f.state = s /\ f.holder = h /\ f.lapsed = l /\ f.question = e.question

(* Setting state, holder and lapse of an effect keeps its question.        *)
LEMMA LeaseIs ==
    ASSUME NEW e \in EffectType, NEW s \in States, NEW h \in Tasks \cup {NoTask},
           NEW l \in BOOLEAN, NEW f, f = [e EXCEPT !.state = s, !.holder = h, !.lapsed = l]
    PROVE  LeaseOf(f, e, s, h, l)
<1> DEFINE e1 == [e EXCEPT !.state = s]
           e2 == [e1 EXCEPT !.holder = h]
           e3 == [e2 EXCEPT !.lapsed = l]
<1>1. e1 \in EffectType
  BY EffectField, Zenon
<1>2. e2 \in EffectType
  BY <1>1, EffectField, Zenon
<1>3. e3 \in EffectType
  BY <1>2, EffectField, Zenon
<1>4. e3.state = s /\ e3.holder = h /\ e3.lapsed = l /\ e3.question = e.question
  BY DEF EffectType
<1>5. f = e3
  BY Zenon
<1> QED BY <1>3, <1>4, <1>5, Zenon DEF LeaseOf

(* An effect freed of its lease is an effect, for the same question.       *)
LEMMA FreedType ==
    ASSUME NEW e \in EffectType, NEW s \in States
    PROVE  LeaseOf(Freed(e, s), e, s, NoTask, FALSE)
<1>1. Freed(e, s) = [e EXCEPT !.state = s, !.holder = NoTask, !.lapsed = FALSE]
  BY Zenon DEF Freed
<1>2. NoTask \in Tasks \cup {NoTask} /\ FALSE \in BOOLEAN
  OBVIOUS
<1> QED BY <1>1, <1>2, LeaseIs, Zenon

(* Freeing the effect of m changes no other effect.                        *)
LEMMA FreedIs ==
    ASSUME TypeOK, NEW m \in Msgs, NEW s \in States,
           effect' = [effect EXCEPT ![m] = Freed(@, s)]
    PROVE  Becomes(m, s) /\ effect'[m].question = effect[m].question
<1>1. effect[m] \in EffectType
  BY DEF TypeOK
<1>2. Touch(m) /\ effect'[m] = Freed(effect[m], s)
  BY <1>1, FreedType, TouchIs, Zenon DEF LeaseOf
<1>3. LeaseOf(effect'[m], effect[m], s, NoTask, FALSE)
  BY <1>1, <1>2, FreedType, Zenon
<1> QED BY <1>2, <1>3, Zenon DEF Becomes, LeaseOf

(* Leasing the effect of m changes no other effect.                        *)
LEMMA LeasedIs ==
    ASSUME TypeOK, NEW m \in Msgs, NEW t \in Tasks,
           effect' = [effect EXCEPT ![m] = Leased(@, t)]
    PROVE  LeasedTo(m, t)
<1>1. effect[m] \in EffectType
  BY DEF TypeOK
<1>2. "leased" \in States /\ t \in Tasks \cup {NoTask} /\ FALSE \in BOOLEAN
  BY DEF States
<1>3. LeaseOf(Leased(effect[m], t), effect[m], "leased", t, FALSE)
  BY <1>1, <1>2, LeaseIs, Zenon DEF Leased
<1>4. Touch(m) /\ effect'[m] = Leased(effect[m], t)
  BY <1>3, TouchIs, Zenon DEF LeaseOf
<1> QED BY <1>3, <1>4, Zenon DEF LeasedTo, LeaseOf

(* The effect of m is left alone or terminalized. *)
Drops(m) ==
    \/ effect' = effect /\ effect[m].state \notin {"pending", "accepted", "uncertain"}
    \/ /\ effect[m].state \in {"pending", "accepted", "uncertain"}
       /\ Becomes(m, "terminal") /\ effect'[m].question = effect[m].question

(* terminalize ends an effect that is not leased, and leaves a leased one  *)
(* alone.                                                                  *)
LEMMA TerminalizeIs ==
    ASSUME TypeOK, NEW m \in Msgs, Terminalize(m)
    PROVE  Drops(m)
<1>1. CASE effect[m].state \in {"pending", "accepted", "uncertain"}
  <2>1. effect' = [effect EXCEPT ![m] = Freed(@, "terminal")]
    BY <1>1, Zenon DEF Terminalize
  <2>2. "terminal" \in States
    BY DEF States
  <2>3. Becomes(m, "terminal") /\ effect'[m].question = effect[m].question
    BY <2>1, <2>2, FreedIs, Zenon
  <2> QED BY <1>1, <2>3, Zenon DEF Drops
<1>2. CASE effect[m].state \notin {"pending", "accepted", "uncertain"}
  BY <1>2, Zenon DEF Terminalize, Drops
<1> QED BY <1>1, <1>2

(* Setting the receipt of one message keeps those of the others.           *)
LEMMA ReceiptIs ==
    ASSUME TypeOK, NEW m \in Msgs, NEW q \in Asked \cup {NoReceipt},
           map' = [map EXCEPT !.receipts[m] = q]
    PROVE  Receipt(m, q)
BY DEF TypeOK, Receipt, MapType

(* Receive: an idle handler has the message, and the receipt the mapping   *)
(* gives it.                                                               *)
LEMMA ReceiveIs ==
    ASSUME Base, NEW t \in Tasks, NEW m \in Msgs, Receive(t, m)
    PROVE  \/ task' = task
           \/ /\ Only(t) /\ task'[t].pc = "enqueue" /\ task'[t].msg = m
              /\ task'[t].receipt = Question(m, map.pending)
              /\ task'[t].back = "idle" /\ task'[t].drain = "no" /\ task'[t].walk = {}
              /\ task'[t].list = {} /\ task'[t].got = {}
<1> DEFINE q == Question(m, map.pending)
           k1 == [Rest EXCEPT !.pc = "enqueue"]
           k2 == [k1 EXCEPT !.msg = m]
           k3 == [k2 EXCEPT !.receipt = q]
<1>0. TypeOK
  BY DEF Base
<1>1. CASE map.bound
  <2>1. q \in Asked \cup {NoAction}
    BY <1>0 DEF TypeOK, MapType, Question, Asked
  <2>2. task' = [task EXCEPT ![t] = k3]
    BY <1>1, Zenon DEF Receive
  <2>3. k1 \in TaskType
    BY RestType, FieldType, InPlaces, Zenon
  <2>4. k2 \in TaskType
    BY <2>3, FieldType, Zenon
  <2>5. k3 \in TaskType
    BY <2>1, <2>4, FieldType, Zenon
  <2>6. /\ k3.pc = "enqueue" /\ k3.msg = m /\ k3.receipt = q /\ k3.back = "idle"
        /\ k3.drain = "no" /\ k3.walk = {} /\ k3.list = {} /\ k3.got = {}
    BY DEF Rest
  <2> HIDE DEF k3
  <2>7. Only(t) /\ task'[t] = k3
    BY <1>0, <2>2, <2>5, OnlyIs, Zenon
  <2> QED BY <2>6, <2>7, Zenon
<1>2. CASE ~map.bound
  BY <1>2, Zenon DEF Receive
<1> QED BY <1>1, <1>2, Zenon

(* Enqueue: the journal has an entry for the message, or had one already.  *)
LEMMA EnqueueIs ==
    ASSUME Base, NEW t \in Tasks, Enqueue(t)
    PROVE  LET m == task[t].msg IN
           /\ task[t].pc = "enqueue" /\ m \in Msgs
           /\ \/ Rests(t) /\ effect' = effect
              \/ /\ Sets(t, "accept", m, NoReceipt) /\ Keeps(t)
                 /\ \/ effect' = effect /\ effect[m].state # "none"
                    \/ /\ effect[m].state = "none" /\ Becomes(m, "pending")
                       /\ effect'[m].question = task[t].receipt
                       /\ task[t].receipt \in Asked
<1> DEFINE m == task[t].msg
<1>0. TypeOK /\ TaskOK(task[t])
  BY Zenon DEF Base, TasksOK
<1>1. task[t].pc = "enqueue"
  BY Zenon DEF Enqueue, At
<1>2. m \in Msgs /\ task[t].receipt \in Asked \cup {NoAction}
  BY <1>0, <1>1 DEF TaskOK, Resting
<1>3. CASE task' = [task EXCEPT ![t] = Rest] /\ UNCHANGED <<effect, timer>>
  BY <1>0, <1>1, <1>2, <1>3, RestsIs, Zenon
<1>4. CASE /\ endpoint /\ (effect[m].state # "none" \/ task[t].receipt # NoAction)
           /\ effect' = IF effect[m].state # "none" THEN effect
                        ELSE [effect EXCEPT ![m] = [Freed(@, "pending") EXCEPT
                                                       !.question = task[t].receipt]]
           /\ task' = [task EXCEPT ![t].pc = "accept", ![t].receipt = NoReceipt]
  <2> DEFINE k1 == [task[t] EXCEPT !.pc = "accept"]
             k2 == [k1 EXCEPT !.receipt = NoReceipt]
  <2>1. task[t] \in TaskType
    BY <1>0 DEF TypeOK
  <2>2. task' = [task EXCEPT ![t] = k2]
    BY <1>4, Zenon
  <2>3. k1 \in TaskType
    BY <2>1, FieldType, InPlaces, Zenon
  <2>4. k2 \in TaskType
    BY <2>3, FieldType, Zenon
  <2>5. /\ k2.pc = "accept" /\ k2.msg = task[t].msg /\ k2.receipt = NoReceipt
        /\ k2.back = task[t].back /\ k2.drain = task[t].drain /\ k2.walk = task[t].walk
        /\ k2.list = task[t].list /\ k2.got = task[t].got
    BY <2>1 DEF TaskType
  <2> HIDE DEF k2
  <2>6. Only(t) /\ task'[t] = k2
    BY <1>0, <2>2, <2>4, OnlyIs, Zenon
  <2>7. Sets(t, "accept", m, NoReceipt) /\ Keeps(t)
    BY <2>5, <2>6, Zenon DEF Sets, Keeps
  <2>8. CASE effect[m].state # "none"
    BY <1>1, <1>2, <1>4, <2>7, <2>8, Zenon
  <2>9. CASE effect[m].state = "none"
    <3>1. task[t].receipt \in Asked
      BY <1>2, <1>4, <2>9
    <3>2. effect' = [effect EXCEPT ![m] = [Freed(@, "pending") EXCEPT
                                              !.question = task[t].receipt]]
      BY <1>4, <2>9, Zenon
    <3>3. Becomes(m, "pending") /\ effect'[m].question = task[t].receipt
      <4> DEFINE e == Freed(effect[m], "pending")
                 f == [e EXCEPT !.question = task[t].receipt]
      <4>1. effect[m] \in EffectType /\ "pending" \in States
        BY <1>0, <1>2 DEF TypeOK, States
      <4>2. e \in EffectType /\ e.state = "pending" /\ e.holder = NoTask /\ ~e.lapsed
        BY <4>1, FreedType, Zenon DEF LeaseOf
      <4> HIDE DEF e
      <4>3. f \in EffectType
        BY <3>1, <4>2, EffectField, Zenon
      <4>4. /\ f.state = "pending" /\ f.holder = NoTask /\ ~f.lapsed
            /\ f.question = task[t].receipt
        BY <4>2 DEF EffectType
      <4>5. effect' = [effect EXCEPT ![m] = f]
        BY <3>2, Zenon DEF e
      <4> HIDE DEF f
      <4>6. Touch(m) /\ effect'[m] = f
        BY <1>0, <1>2, <4>3, <4>5, TouchIs, Zenon
      <4> QED BY <4>4, <4>6, Zenon DEF Becomes
    <3> QED BY <1>1, <1>2, <2>7, <2>9, <3>1, <3>3, Zenon
  <2> QED BY <2>8, <2>9, Zenon
<1> QED BY <1>3, <1>4, Zenon DEF Enqueue

(* Accept: the entry is accepted and the mapping has the receipt, or the   *)
(* handler ends.                                                           *)
LEMMA AcceptIs ==
    ASSUME Base, NEW t \in Tasks, Accept(t)
    PROVE  LET m == task[t].msg
               q == Question(m, map.pending)
           IN  /\ task[t].pc = "accept" /\ m \in Msgs /\ effect' = effect
               /\ \/ Rests(t) /\ map' = map
                  \/ /\ map.bound
                     /\ \/ map.receipts[m] # NoReceipt /\ map' = map
                        \/ /\ map.receipts[m] = NoReceipt /\ m \notin map.seen
                           /\ q \in Asked /\ Receipt(m, q)
                     /\ Sets(t, "ack", m, map'.receipts[m]) /\ Keeps(t)
<1> DEFINE m == task[t].msg
           q == Question(m, map.pending)
           r == map'.receipts[m]
<1>0. TypeOK /\ TaskOK(task[t])
  BY Zenon DEF Base, TasksOK
<1>1. task[t].pc = "accept" /\ effect' = effect
  BY Zenon DEF Accept, At
<1>2. m \in Msgs
  BY <1>0, <1>1 DEF TaskOK, Resting
<1>3. CASE task' = [task EXCEPT ![t] = Rest] /\ UNCHANGED map
  BY <1>0, <1>1, <1>2, <1>3, RestsIs, Zenon
<1>4. CASE /\ map.bound
           /\ map.receipts[m] # NoReceipt \/ (m \notin map.seen /\ q # NoAction)
           /\ map' = IF map.receipts[m] # NoReceipt THEN map
                     ELSE [map EXCEPT !.receipts[m] = q]
           /\ task' = [task EXCEPT ![t].pc = "ack", ![t].receipt = r]
  <2>1. \/ map.receipts[m] # NoReceipt /\ map' = map
        \/ /\ map.receipts[m] = NoReceipt /\ m \notin map.seen
           /\ q \in Asked /\ Receipt(m, q)
    <3>1. CASE map.receipts[m] # NoReceipt
      BY <1>4, <3>1, Zenon
    <3>2. CASE map.receipts[m] = NoReceipt
      <4>1. m \notin map.seen /\ q # NoAction /\ map' = [map EXCEPT !.receipts[m] = q]
        BY <1>4, <3>2, Zenon
      <4>2. q \in Asked
        BY <1>0, <4>1 DEF TypeOK, MapType, Question, Asked
      <4>3. Receipt(m, q)
        BY <1>0, <1>2, <4>1, <4>2, ReceiptIs
      <4> QED BY <3>2, <4>1, <4>2, <4>3, Zenon
    <3> QED BY <3>1, <3>2, Zenon
  <2>2. map' \in MapType
    BY <1>0, <2>1, Zenon DEF TypeOK, Receipt
  <2>3. r \in Asked \cup {NoAction, NoReceipt}
    BY <1>2, <2>2 DEF MapType
  <2> DEFINE k1 == [task[t] EXCEPT !.pc = "ack"]
             k2 == [k1 EXCEPT !.receipt = r]
  <2>4. task[t] \in TaskType
    BY <1>0 DEF TypeOK
  <2>a. task' = [task EXCEPT ![t].pc = "ack", ![t].receipt = r]
    BY <1>4, Zenon
  <2> HIDE DEF r
  <2>5. task' = [task EXCEPT ![t] = k2]
    BY <2>a, Zenon
  <2>6. k1 \in TaskType
    BY <2>4, FieldType, InPlaces, Zenon
  <2>7. k2 \in TaskType
    BY <2>3, <2>6, FieldType, Zenon
  <2>8. /\ k2.pc = "ack" /\ k2.msg = m /\ k2.receipt = r /\ k2.back = task[t].back
        /\ k2.drain = task[t].drain /\ k2.walk = task[t].walk
        /\ k2.list = task[t].list /\ k2.got = task[t].got
    BY <2>4 DEF TaskType
  <2> HIDE DEF k2
  <2>9. Only(t) /\ task'[t] = k2
    BY <1>0, <2>5, <2>7, OnlyIs, Zenon
  <2>10. Sets(t, "ack", m, r) /\ Keeps(t)
    BY <2>8, <2>9, Zenon DEF Sets, Keeps
  <2> QED BY <1>1, <1>2, <1>4, <2>1, <2>10, Zenon DEF r
<1> QED BY <1>3, <1>4, Zenon DEF Accept

(* Where a dispatch goes from the state and the question of the effect.    *)
LEMMA EntryIs ==
    ASSUME NEW m, NEW r
    PROVE  /\ Entry(m, r) \in {"final", "claim", "stale"}
           /\ Entry(m, r) = "final" <=> effect[m].state = "terminal"
           /\ Entry(m, r) = "claim" => Dispatchable(m, r)
           /\ Entry(m, r) = "stale" => ~Dispatchable(m, r)
BY DEF Entry

(* Ack: the envelope is acknowledged, and the handler goes on to claim or  *)
(* ends.                                                                   *)
LEMMA AckIs ==
    ASSUME Base, NEW t \in Tasks, Ack(t)
    PROVE  LET m == task[t].msg IN
           /\ task[t].pc = "ack" /\ m \in Msgs
           /\ effect' = effect /\ map' = map
           /\ \/ Rests(t) /\ acked' = acked
              \/ Rests(t) /\ acked' = acked \cup {m}
              \/ Moves(t, Entry(m, task[t].receipt)) /\ acked' = acked \cup {m}
<1> DEFINE m == task[t].msg
           p == Entry(m, task[t].receipt)
<1>0. TypeOK /\ TaskOK(task[t])
  BY Zenon DEF Base, TasksOK
<1>1. task[t].pc = "ack" /\ effect' = effect /\ map' = map
  BY Zenon DEF Ack, At
<1>2. m \in Msgs
  BY <1>0, <1>1 DEF TaskOK, Resting
<1>3. CASE task' = [task EXCEPT ![t] = Rest] /\ acked' \in {acked, acked \cup {m}}
  BY <1>0, <1>1, <1>2, <1>3, RestsIs, Zenon
<1>4. CASE task' = [task EXCEPT ![t].pc = p, ![t].mine = TRUE] /\ acked' = acked \cup {m}
  <2> DEFINE k1 == [task[t] EXCEPT !.pc = p]
             k2 == [k1 EXCEPT !.mine = TRUE]
  <2>1. task[t] \in TaskType
    BY <1>0 DEF TypeOK
  <2>2. task' = [task EXCEPT ![t] = k2]
    BY <1>4, Zenon
  <2>3. p \in Places
    BY EntryIs, InPlaces
  <2>4. k1 \in TaskType
    BY <2>1, <2>3, FieldType, Zenon
  <2>5. k2 \in TaskType
    BY <2>4, FieldType, Zenon
  <2> HIDE DEF p
  <2>6. /\ k2.pc = p /\ k2.msg = m /\ k2.receipt = task[t].receipt /\ k2.back = task[t].back
        /\ k2.drain = task[t].drain /\ k2.walk = task[t].walk
        /\ k2.list = task[t].list /\ k2.got = task[t].got
    BY <2>1 DEF TaskType
  <2> HIDE DEF k2
  <2>7. Only(t) /\ task'[t] = k2
    BY <1>0, <2>2, <2>5, OnlyIs, Zenon
  <2>8. Moves(t, p)
    BY <2>6, <2>7, Zenon DEF Moves, Sets, Keeps
  <2> QED BY <1>1, <1>2, <1>4, <2>8, Zenon DEF p
<1> QED BY <1>3, <1>4, Zenon DEF Ack

(* Claim: the task leases the effect, or finds that it may not.            *)
LEMMA ClaimIs ==
    ASSUME Base, NEW t \in Tasks, Claim(t)
    PROVE  LET m == task[t].msg IN
           /\ task[t].pc = "claim" /\ m \in Msgs /\ map' = map
           /\ \/ Ends(t) /\ effect' = effect
              \/ /\ CanClaim(effect[m]) /\ LeasedTo(m, t)
                 /\ \/ effect[m].question = task[t].receipt /\ Moves(t, "check")
                    \/ effect[m].question # task[t].receipt /\ Moves(t, "stale")
<1> DEFINE m == task[t].msg
<1>0. TypeOK /\ TaskOK(task[t])
  BY Zenon DEF Base, TasksOK
<1>1. task[t].pc = "claim" /\ map' = map
  BY Zenon DEF Claim, At
<1>2. m \in Msgs
  BY <1>0, <1>1 DEF TaskOK, Resting
<1>3. CASE CanClaim(effect[m])
  <2>1. LeasedTo(m, t)
    BY <1>0, <1>2, <1>3, LeasedIs, Zenon DEF Claim
  <2>2. CASE effect[m].question = task[t].receipt
    <3>1. Goto(t, "check")
      BY <1>3, <2>2, Zenon DEF Claim
    <3> QED BY <1>0, <1>1, <1>2, <1>3, <2>1, <2>2, <3>1, GotoIs, InPlaces, Zenon
  <2>3. CASE effect[m].question # task[t].receipt
    <3>1. Goto(t, "stale")
      BY <1>3, <2>3, Zenon DEF Claim
    <3> QED BY <1>0, <1>1, <1>2, <1>3, <2>1, <2>3, <3>1, GotoIs, InPlaces, Zenon
  <2> QED BY <2>2, <2>3, Zenon
<1>4. CASE ~CanClaim(effect[m])
  BY <1>0, <1>1, <1>2, <1>4, BackIs, Zenon DEF Claim
<1> QED BY <1>3, <1>4, Zenon

(* Check: the task sends if the message is still current, and is stale     *)
(* otherwise.                                                              *)
LEMMA CheckIs ==
    ASSUME Base, NEW t \in Tasks, Check(t)
    PROVE  LET m == task[t].msg IN
           /\ task[t].pc = "check" /\ m \in Msgs /\ effect' = effect /\ map' = map
           /\ \/ EffectCurrent(m, task[t].receipt) /\ Moves(t, "send")
              \/ ~EffectCurrent(m, task[t].receipt) /\ Moves(t, "stale")
<1>0. TypeOK /\ TaskOK(task[t])
  BY Zenon DEF Base, TasksOK
<1>1. task[t].pc = "check" /\ map' = map /\ effect' = effect
  BY Zenon DEF Check, At
<1>2. task[t].msg \in Msgs
  BY <1>0, <1>1 DEF TaskOK, Resting
<1>3. CASE EffectCurrent(task[t].msg, task[t].receipt)
  <2>1. Goto(t, "send")
    BY <1>3, Zenon DEF Check
  <2> QED BY <1>0, <1>1, <1>2, <1>3, <2>1, GotoIs, InPlaces, Zenon
<1>4. CASE ~EffectCurrent(task[t].msg, task[t].receipt)
  <2>1. Goto(t, "stale")
    BY <1>4, Zenon DEF Check
  <2> QED BY <1>0, <1>1, <1>2, <1>4, <2>1, GotoIs, InPlaces, Zenon
<1> QED BY <1>3, <1>4, Zenon

(* A message reaches the session once more. *)
Reaches(m) == sends' = [sends EXCEPT ![m] = @ + 1]

(* Send: the message reaches the session or not, and the task learns of it *)
(* or not.                                                                 *)
LEMMA SendIs ==
    ASSUME Base, NEW t \in Tasks, Send(t)
    PROVE  LET m == task[t].msg IN
           /\ task[t].pc = "send" /\ m \in Msgs /\ effect' = effect /\ map' = map
           /\ \/ Reaches(m) /\ Moves(t, "record")
              \/ (Reaches(m) \/ sends' = sends) /\ Moves(t, "unsure")
              \/ sends' = sends /\ Moves(t, "refused")
<1>0. TypeOK /\ TaskOK(task[t])
  BY Zenon DEF Base, TasksOK
<1>1. task[t].pc = "send" /\ map' = map /\ effect' = effect
  BY Zenon DEF Send, At
<1>2. task[t].msg \in Msgs
  BY <1>0, <1>1 DEF TaskOK, Resting
<1>3. \/ Reaches(task[t].msg) /\ Goto(t, "record")
      \/ (Reaches(task[t].msg) \/ sends' = sends) /\ Goto(t, "unsure")
      \/ sends' = sends /\ Goto(t, "refused")
  BY ZenonT(30) DEF Send, Reaches
<1> QED BY <1>0, <1>1, <1>2, <1>3, GotoIs, InPlaces, Zenon

(* Record and its failures: seen and receipt are written, or the receipt   *)
(* is released.                                                            *)
LEMMA RecordIs ==
    ASSUME Base, NEW t \in Tasks, Record(t)
    PROVE  LET m == task[t].msg IN
           /\ m \in Msgs /\ map' = map
           /\ \/ /\ task[t].pc \in {"record", "refused", "unsure"}
                 /\ ~Holds(t, m) /\ Ends(t) /\ effect' = effect
              \/ /\ task[t].pc = "record" /\ ~EffectCurrent(m, task[t].receipt)
                 /\ Moves(t, "stale") /\ effect' = effect
              \/ /\ Holds(t, m) /\ effect'[m].question = effect[m].question
                 /\ \/ /\ task[t].pc = "record" /\ EffectCurrent(m, task[t].receipt)
                       /\ Becomes(m, "terminal") /\ Moves(t, "finish")
                    \/ /\ task[t].pc = "refused" /\ Becomes(m, "accepted")
                       /\ Moves(t, "release")
                    \/ /\ task[t].pc = "unsure" /\ Becomes(m, "uncertain")
                       /\ Moves(t, "finishUncertain")
<1> DEFINE m == task[t].msg
           to(s, pc) == IF Holds(t, m)
                        THEN effect' = [effect EXCEPT ![m] = Freed(@, s)]
                             /\ Goto(t, pc) /\ UNCHANGED inflight
                        ELSE Back(t) /\ UNCHANGED effect
<1>0. TypeOK /\ TaskOK(task[t])
  BY Zenon DEF Base, TasksOK
<1>1. /\ task[t].pc \in {"record", "refused", "unsure"}
      /\ map' = map
  BY Zenon DEF Record, At
<1>2. m \in Msgs
  BY <1>0, <1>1 DEF TaskOK, Resting
<1>3. \/ /\ task[t].pc = "record" /\ EffectCurrent(m, task[t].receipt)
         /\ to("terminal", "finish")
      \/ /\ task[t].pc = "record" /\ ~EffectCurrent(m, task[t].receipt)
         /\ Goto(t, "stale") /\ effect' = effect
      \/ task[t].pc = "refused" /\ to("accepted", "release")
      \/ task[t].pc = "unsure" /\ to("uncertain", "finishUncertain")
  BY ZenonT(30) DEF Record, At
<1>4. ASSUME NEW s \in States, NEW pc \in Places, to(s, pc)
      PROVE  \/ ~Holds(t, m) /\ Ends(t) /\ effect' = effect
             \/ /\ Holds(t, m) /\ Becomes(m, s) /\ effect'[m].question = effect[m].question
                /\ Moves(t, pc)
  <2>1. CASE Holds(t, m)
    BY <1>0, <1>2, <1>4, <2>1, FreedIs, GotoIs, Zenon
  <2>2. CASE ~Holds(t, m)
    BY <1>0, <1>2, <1>4, <2>2, BackIs, Zenon
  <2> QED BY <2>1, <2>2, Zenon
<1> HIDE DEF to
<1>5. "terminal" \in States /\ "accepted" \in States /\ "uncertain" \in States
  BY DEF States
<1>6. CASE /\ task[t].pc = "record" /\ EffectCurrent(m, task[t].receipt)
           /\ to("terminal", "finish")
  BY <1>1, <1>2, <1>4, <1>5, <1>6, InPlaces, Zenon
<1>7. CASE /\ task[t].pc = "record" /\ ~EffectCurrent(m, task[t].receipt)
           /\ Goto(t, "stale") /\ effect' = effect
  BY <1>0, <1>1, <1>2, <1>7, GotoIs, InPlaces, Zenon
<1>8. CASE task[t].pc = "refused" /\ to("accepted", "release")
  BY <1>1, <1>2, <1>4, <1>5, <1>8, InPlaces, Zenon
<1>9. CASE task[t].pc = "unsure" /\ to("uncertain", "finishUncertain")
  BY <1>1, <1>2, <1>4, <1>5, <1>9, InPlaces, Zenon
<1> QED BY <1>3, <1>6, <1>7, <1>8, <1>9, Zenon

(* The mapping is done with the receipt r of m, x is what it keeps.          *)
Closes(m, r, x) ==
    /\ map.receipts[m] = r
    /\ map' \in MapType
    /\ map'.bound = map.bound /\ map'.seen = map.seen \cup {m}
    /\ map'.receipts[m] = x
    /\ \A n \in Msgs \ {m} : map'.receipts[n] = map.receipts[n]

(* Complete: the effect ends if the task still holds its lease.            *)
LEMMA CompleteIs ==
    ASSUME TypeOK, NEW m \in Msgs, NEW r, NEW b \in BOOLEAN, map' = Complete(m, r, b)
    PROVE  \/ map' = map
           \/ Closes(m, r, IF b THEN NoReceipt ELSE r)
<1>1. CASE map.receipts[m] # r
  BY <1>1, Zenon DEF Complete
<1>2. CASE map.receipts[m] = r
  <2> DEFINE p == IF map.pending = r THEN NoAction ELSE map.pending
             x == IF b THEN NoReceipt ELSE map.receipts[m]
             n1 == [map EXCEPT !.pending = p]
             n2 == [n1 EXCEPT !.seen = map.seen \cup {m}]
             n3 == [n2 EXCEPT !.receipts[m] = x]
  <2>1. map' = [map EXCEPT !.pending = IF @ = r THEN NoAction ELSE @,
                           !.seen = @ \cup {m},
                           !.receipts[m] = IF b THEN NoReceipt ELSE @]
    BY <1>2, Zenon DEF Complete
  <2>2. map' = n3
    BY <2>1 DEF TypeOK, MapType
  <2>3. map \in MapType /\ p \in Actions \cup {NoAction} /\ x \in Asked \cup {NoReceipt}
    BY DEF TypeOK, MapType
  <2> HIDE DEF p, x
  <2>4. n1 \in MapType /\ n1.bound = map.bound /\ n1.seen = map.seen
        /\ n1.receipts = map.receipts
    BY <2>3 DEF MapType
  <2> HIDE DEF n1
  <2>5. n2 \in MapType /\ n2.bound = map.bound /\ n2.seen = map.seen \cup {m}
        /\ n2.receipts = map.receipts
    BY <2>3, <2>4 DEF MapType
  <2> HIDE DEF n2
  <2>6. n3 \in MapType /\ n3.bound = map.bound /\ n3.seen = map.seen \cup {m}
        /\ n3.receipts[m] = x /\ \A n \in Msgs \ {m} : n3.receipts[n] = map.receipts[n]
    BY <2>3, <2>5 DEF MapType
  <2>7. x = IF b THEN NoReceipt ELSE r
    BY <1>2, Zenon DEF x
  <2> QED BY <1>2, <2>2, <2>6, <2>7, Zenon DEF Closes
<1> QED BY <1>1, <1>2, Zenon

(* One more slip for m. *)
Slips(m) == slips' = [slips EXCEPT ![m] = @ + 1]

(* Finish, the uncertain finish and the release of the effect.             *)
LEMMA FinishIs ==
    ASSUME Base, NEW t \in Tasks, Finish(t)
    PROVE  LET m == task[t].msg
               r == task[t].receipt
           IN  /\ m \in Msgs /\ effect' = effect /\ Ends(t)
               /\ \/ /\ task[t].pc \in {"finish", "finishUncertain", "release", "final"}
                     /\ map' = map /\ slips' = slips
                  \/ /\ task[t].pc \in {"finish", "final"}
                     /\ Closes(m, r, NoReceipt) /\ slips' = slips
                  \/ /\ task[t].pc = "finishUncertain" /\ Closes(m, r, r) /\ slips' = slips
                  \/ /\ task[t].pc = "release" /\ map.receipts[m] = r /\ map.bound
                     /\ Receipt(m, NoReceipt)
                     /\ \/ effect[m].state = "accepted" /\ slips' = slips
                        \/ Slips(m)
<1> DEFINE m == task[t].msg
           r == task[t].receipt
<1>0. TypeOK /\ TaskOK(task[t])
  BY Zenon DEF Base, TasksOK
<1>1. /\ task[t].pc \in {"finish", "finishUncertain", "release", "final"}
      /\ effect' = effect /\ Back(t)
  BY Zenon DEF Finish, At
<1>2. m \in Msgs
  BY <1>0, <1>1 DEF TaskOK, Resting
<1>3. Ends(t)
  BY <1>0, <1>1, BackIs, Zenon
<1>4. task[t].pc # "release" => slips' = slips
  BY Zenon DEF Finish, At
<1>5. map' = map => slips' = slips
  BY Zenon DEF Finish, At
<1>7. CASE task[t].pc = "release"
  <2>1. map' = IF map.bound /\ map.receipts[m] = r
               THEN [map EXCEPT !.receipts[m] = NoReceipt] ELSE map
    BY <1>7 DEF Finish, At
  <2>2. slips' = IF map' # map /\ effect[m].state # "accepted"
                 THEN [slips EXCEPT ![m] = @ + 1] ELSE slips
    BY <1>7, Zenon DEF Finish, At
  <2>3. CASE map' = map
    BY <1>1, <1>2, <1>3, <1>5, <2>3, Zenon
  <2>4. CASE map' # map
    <3>1. map.bound /\ map.receipts[m] = r /\ map' = [map EXCEPT !.receipts[m] = NoReceipt]
      BY <2>1, <2>4, Zenon
    <3>2. Receipt(m, NoReceipt)
      BY <1>0, <1>2, <3>1, ReceiptIs, Zenon
    <3>3. (effect[m].state = "accepted" /\ slips' = slips) \/ Slips(m)
      BY <2>2, <2>4, Zenon DEF Slips
    <3> QED BY <1>1, <1>2, <1>3, <1>7, <3>1, <3>2, <3>3, Zenon
  <2> QED BY <2>3, <2>4, Zenon
<1>8. CASE task[t].pc = "finishUncertain"
  <2>1. map' = map \/ map' = Complete(m, r, FALSE)
    BY <1>8, ZenonT(30) DEF Finish, At
  <2>2. map' = map \/ Closes(m, r, r)
    BY <1>0, <1>2, <2>1, CompleteIs, Zenon
  <2> QED BY <1>1, <1>2, <1>3, <1>4, <1>8, <2>2, Zenon
<1>9. CASE task[t].pc \in {"finish", "final"}
  <2>1. map' = map \/ map' = Complete(m, r, TRUE)
    BY <1>9, ZenonT(30) DEF Finish, At
  <2>2. map' = map \/ Closes(m, r, NoReceipt)
    BY <1>0, <1>2, <2>1, CompleteIs, Zenon
  <2>3. slips' = slips
    BY <1>4, <1>9
  <2> QED BY <1>1, <1>2, <1>3, <1>9, <2>2, <2>3, Zenon
<1> QED BY <1>1, <1>7, <1>8, <1>9

(* Stale: the effect is terminalized, and the receipt is dropped in a      *)
(* later step.                                                             *)
LEMMA StaleIs ==
    ASSUME Base, NEW t \in Tasks, Stale(t)
    PROVE  LET m == task[t].msg IN
           /\ task[t].pc = "stale" /\ m \in Msgs /\ map' = map
           /\ Drops(m) /\ Moves(t, "final")
<1>0. TypeOK /\ TaskOK(task[t])
  BY Zenon DEF Base, TasksOK
<1>1. task[t].pc = "stale" /\ map' = map /\ Goto(t, "final") /\ Terminalize(task[t].msg)
  BY Zenon DEF Stale, At
<1>2. task[t].msg \in Msgs
  BY <1>0, <1>1 DEF TaskOK, Resting
<1> QED BY <1>0, <1>1, <1>2, GotoIs, TerminalizeIs, InPlaces, Zenon

(* The receipts of the mapping, as a drain takes them. *)
Receipts == {<<m, map.receipts[m], map.bound>> : m \in {n \in Msgs : map.receipts[n] # NoReceipt}}

Begins(t, d) ==
    /\ Only(t)
    /\ task'[t].pc = "walk" /\ task'[t].back = "walk" /\ task'[t].drain = d
    /\ task'[t].msg = NoTask /\ task'[t].receipt = NoReceipt
    /\ task'[t].walk = Receipts /\ task'[t].list = {} /\ task'[t].got = {}

(* A drain begins with the receipts the mapping has, and whether the       *)
(* thread is bound.                                                        *)
LEMMA BeginIs ==
    ASSUME TypeOK, NEW t \in Tasks, NEW d \in {"start", "recover"}, Begin(t, d)
    PROVE  Begins(t, d)
<1> DEFINE k1 == [Rest EXCEPT !.pc = "walk"]
           k2 == [k1 EXCEPT !.back = "walk"]
           k3 == [k2 EXCEPT !.drain = d]
           k4 == [k3 EXCEPT !.walk = Receipts]
<1>1. task' = [task EXCEPT ![t] = k4]
  BY Zenon DEF Begin, Receipts
<1>2. k1 \in TaskType
  BY RestType, FieldType, InPlaces, Zenon
<1>3. k2 \in TaskType
  <2>1. "walk" \in Resting
    BY DEF Resting
  <2> QED BY <1>2, <2>1, FieldType, Zenon
<1>4. k3 \in TaskType
  <2>1. d \in {"no", "start", "recover"}
    OBVIOUS
  <2> QED BY <1>3, <2>1, FieldType, Zenon
<1>5. Receipts \in SUBSET (Msgs \X Asked \X BOOLEAN)
  BY DEF TypeOK, MapType, Receipts
<1>6. k4 \in TaskType
  BY <1>4, <1>5, FieldType, Zenon
<1>7. /\ k4.pc = "walk" /\ k4.back = "walk" /\ k4.drain = d /\ k4.msg = NoTask
      /\ k4.receipt = NoReceipt /\ k4.walk = Receipts /\ k4.list = {} /\ k4.got = {}
  BY DEF Rest
<1> HIDE DEF k4
<1>8. Only(t) /\ task'[t] = k4
  BY <1>1, <1>6, OnlyIs, Zenon
<1> QED BY <1>7, <1>8, Zenon DEF Begins

(* f is k at p, with message m and receipt r in hand, and w, l and g.        *)
TaskOf(f, k, p, m, r, w, l, g) ==
    /\ f \in TaskType
    /\ f.pc = p /\ f.msg = m /\ f.receipt = r /\ f.walk = w /\ f.list = l /\ f.got = g
    /\ f.back = k.back /\ f.drain = k.drain

(* Setting what is left to walk keeps the rest of a drain.                 *)
LEMMA WalkOf ==
    ASSUME NEW k \in TaskType, NEW w \in SUBSET (Msgs \X Asked \X BOOLEAN),
           NEW f, f = [k EXCEPT !.walk = w]
    PROVE  TaskOf(f, k, k.pc, k.msg, k.receipt, w, k.list, k.got)
<1>1. f \in TaskType
  BY FieldType, Zenon
<1> QED BY <1>1 DEF TaskOf, TaskType

(* Setting what is left to list keeps the rest of a drain.                 *)
LEMMA ListOf ==
    ASSUME NEW k \in TaskType, NEW l \in SUBSET (Msgs \X BOOLEAN), NEW f,
           f = [k EXCEPT !.list = l]
    PROVE  TaskOf(f, k, k.pc, k.msg, k.receipt, k.walk, l, k.got)
<1>1. f \in TaskType
  BY FieldType, Zenon
<1> QED BY <1>1 DEF TaskOf, TaskType

(* Setting what a drain has got keeps the rest of it.                      *)
LEMMA GotOf ==
    ASSUME NEW k \in TaskType, NEW g \in SUBSET Msgs, NEW f, f = [k EXCEPT !.got = g]
    PROVE  TaskOf(f, k, k.pc, k.msg, k.receipt, k.walk, k.list, g)
<1>1. f \in TaskType
  BY FieldType, Zenon
<1> QED BY <1>1 DEF TaskOf, TaskType

(* Setting mine keeps the rest of a task.                                  *)
LEMMA MineOf ==
    ASSUME NEW k \in TaskType, NEW b \in BOOLEAN, NEW f, f = [k EXCEPT !.mine = b]
    PROVE  TaskOf(f, k, k.pc, k.msg, k.receipt, k.walk, k.list, k.got)
<1>1. f \in TaskType
  BY FieldType, Zenon
<1> QED BY <1>1 DEF TaskOf, TaskType

(* Taking a message in hand keeps the rest of a drain.                     *)
LEMMA HandOf ==
    ASSUME NEW k \in TaskType, NEW p \in Places, NEW m \in Msgs,
           NEW r \in Asked \cup {NoAction, NoReceipt},
           NEW f, f = [k EXCEPT !.pc = p, !.msg = m, !.receipt = r]
    PROVE  TaskOf(f, k, p, m, r, k.walk, k.list, k.got)
<1> DEFINE k1 == [k EXCEPT !.pc = p]
           k2 == [k1 EXCEPT !.msg = m]
           k3 == [k2 EXCEPT !.receipt = r]
<1>1. f = k3
  BY Zenon
<1>2. k1 \in TaskType
  BY FieldType, Zenon
<1>3. k2 \in TaskType
  BY <1>2, FieldType, Zenon
<1>4. k3 \in TaskType
  BY <1>3, FieldType, Zenon
<1>5. /\ k3.pc = p /\ k3.msg = m /\ k3.receipt = r /\ k3.walk = k.walk /\ k3.list = k.list
      /\ k3.got = k.got /\ k3.back = k.back /\ k3.drain = k.drain
  BY DEF TaskType
<1> QED BY <1>1, <1>4, <1>5, Zenon DEF TaskOf

(* The task goes on as such a task. *)
Goes(t, p, m, r, w, l, g) ==
    /\ Sets(t, p, m, r)
    /\ task'[t].walk = w /\ task'[t].list = l /\ task'[t].got = g

(* A task with its place, message, receipt and what is left set is a task. *)
LEMMA TaskOfIs ==
    ASSUME TypeOK, NEW t \in Tasks, NEW p, NEW m, NEW r, NEW w, NEW l, NEW g, NEW f,
           TaskOf(f, task[t], p, m, r, w, l, g), task' = [task EXCEPT ![t] = f]
    PROVE  Goes(t, p, m, r, w, l, g)
<1>1. f \in TaskType
  BY Zenon DEF TaskOf
<1>2. Only(t) /\ task'[t] = f
  BY <1>1, OnlyIs, Zenon
<1> QED BY <1>2, Zenon DEF TaskOf, Sets, Goes

(* The receipt r of the mapping as it was is that of an effect to dispatch.  *)
Live(r) ==
    r[3] /\ effect[r[1]].state # "none" /\ effect[r[1]].question = r[2] /\ endpoint

(* The drain t takes the receipt r from its walk. *)
Walked(t, r) ==
    LET m == r[1] IN
    /\ task'[t].walk = task[t].walk \ {r} /\ task'[t].list = task[t].list
    /\ \/ effect[m].state = "terminal" /\ Sets(t, "final", m, r[2])
          /\ task'[t].got = task[t].got
       \/ effect[m].state # "terminal" /\ ~Live(r) /\ Sets(t, "stale", m, r[2])
          /\ task'[t].got = task[t].got
       \/ effect[m].state # "terminal" /\ Live(r) /\ Busy(effect[m])
          /\ Sets(t, "walk", task[t].msg, task[t].receipt) /\ task'[t].got = task[t].got
       \/ effect[m].state # "terminal" /\ Live(r)
          /\ \/ Sets(t, "walk", task[t].msg, task[t].receipt)
             \/ Sets(t, Entry(m, r[2]), m, r[2])
          /\ task'[t].got = task[t].got \cup {m}

(* Walk: the drain takes the next receipt in hand, or passes it by.        *)
LEMMA WalkIs ==
    ASSUME Base, NEW t \in Tasks, Walk(t)
    PROVE  /\ task[t].pc = "walk" /\ effect' = effect /\ map' = map
           /\ \E r \in task[t].walk : r \in Msgs \X Asked \X BOOLEAN /\ Walked(t, r)
<1> DEFINE k == task[t]
<1>0. TypeOK /\ k \in TaskType
  BY DEF Base, TypeOK
<1>1. k.pc = "walk" /\ effect' = effect /\ map' = map
  BY Zenon DEF Walk, At
<1>2. PICK r \in k.walk :
        LET m == r[1]
            go(pc) == [k EXCEPT !.pc = pc, !.msg = m, !.receipt = r[2], !.walk = @ \ {r}]
        IN  \/ effect[m].state = "terminal" /\ task' = [task EXCEPT ![t] = go("final")]
            \/ effect[m].state # "terminal" /\ ~Live(r) /\ task' = [task EXCEPT ![t] = go("stale")]
            \/ effect[m].state # "terminal" /\ Live(r) /\ Busy(effect[m])
               /\ task' = [task EXCEPT ![t].walk = @ \ {r}]
            \/ effect[m].state # "terminal" /\ Live(r)
               /\ task' = [task EXCEPT ![t].walk = @ \ {r}, ![t].got = @ \cup {m}]
            \/ effect[m].state # "terminal" /\ Live(r)
               /\ task' = [task EXCEPT ![t] = [go(Entry(m, r[2])) EXCEPT
                                                !.mine = TRUE, !.got = @ \cup {m}]]
  BY ZenonT(60) DEF Walk, Live
<1> DEFINE m == r[1]
           q == r[2]
           w == k.walk \ {r}
           g == k.got \cup {m}
           hand(p) == [k EXCEPT !.pc = p, !.msg = m, !.receipt = q]
           go(p) == [hand(p) EXCEPT !.walk = w]
<1>3. k.walk \in SUBSET (Msgs \X Asked \X BOOLEAN) /\ k.got \in SUBSET Msgs
  BY <1>0 DEF TaskType
<1>4. r \in Msgs \X Asked \X BOOLEAN /\ m \in Msgs /\ q \in Asked
  BY <1>3
<1>5. q \in Asked \cup {NoAction, NoReceipt} /\ w \in SUBSET (Msgs \X Asked \X BOOLEAN)
      /\ g \in SUBSET Msgs
  BY <1>3, <1>4
<1>6. ASSUME NEW p \in Places
      PROVE  TaskOf(go(p), k, p, m, q, w, k.list, k.got)
  <2> HIDE DEF k, m, q, w
  <2>1. TaskOf(hand(p), k, p, m, q, k.walk, k.list, k.got)
    BY <1>0, <1>4, <1>5, HandOf, Zenon
  <2> HIDE DEF hand
  <2>2. hand(p) \in TaskType
    BY <2>1, Zenon DEF TaskOf
  <2>3. TaskOf(go(p), hand(p), hand(p).pc, hand(p).msg, hand(p).receipt, w,
               hand(p).list, hand(p).got)
    BY <1>5, <2>2, WalkOf, Zenon
  <2> QED BY <2>1, <2>3, Zenon DEF TaskOf
<1>7. ASSUME NEW p
      PROVE  go(p) = [k EXCEPT !.pc = p, !.msg = m, !.receipt = q, !.walk = @ \ {r}]
  BY Zenon
<1>8. CASE effect[m].state = "terminal" /\ task' = [task EXCEPT ![t] = go("final")]
  <2>1. TaskOf(go("final"), k, "final", m, q, w, k.list, k.got)
    BY <1>6, InPlaces, Zenon
  <2> HIDE DEF go, hand
  <2>2. Goes(t, "final", m, q, w, k.list, k.got)
    BY <1>0, <1>8, <2>1, TaskOfIs, Zenon
  <2> QED BY <1>1, <1>4, <1>8, <2>2, Zenon DEF Walked, Goes
<1>9. CASE /\ effect[m].state # "terminal" /\ ~Live(r)
           /\ task' = [task EXCEPT ![t] = go("stale")]
  <2>1. TaskOf(go("stale"), k, "stale", m, q, w, k.list, k.got)
    BY <1>6, InPlaces, Zenon
  <2> HIDE DEF go, hand
  <2>2. Goes(t, "stale", m, q, w, k.list, k.got)
    BY <1>0, <1>9, <2>1, TaskOfIs, Zenon
  <2> QED BY <1>1, <1>4, <1>9, <2>2, Zenon DEF Walked, Goes
<1>10. CASE /\ effect[m].state # "terminal" /\ Live(r) /\ Busy(effect[m])
            /\ task' = [task EXCEPT ![t].walk = @ \ {r}]
  <2>1. task' = [task EXCEPT ![t] = [k EXCEPT !.walk = w]]
    BY <1>10, Zenon
  <2>2. TaskOf([k EXCEPT !.walk = w], k, k.pc, k.msg, k.receipt, w, k.list, k.got)
    BY <1>0, <1>5, WalkOf, Zenon
  <2>3. Goes(t, k.pc, k.msg, k.receipt, w, k.list, k.got)
    BY <1>0, <2>1, <2>2, TaskOfIs, Zenon
  <2> QED BY <1>1, <1>4, <1>10, <2>3, Zenon DEF Walked, Goes
<1>11. CASE /\ effect[m].state # "terminal" /\ Live(r)
            /\ task' = [task EXCEPT ![t].walk = @ \ {r}, ![t].got = @ \cup {m}]
  <2> DEFINE k1 == [k EXCEPT !.walk = w]
             k2 == [k1 EXCEPT !.got = g]
  <2>1. task' = [task EXCEPT ![t] = k2]
    BY <1>11, Zenon
  <2>2. TaskOf(k1, k, k.pc, k.msg, k.receipt, w, k.list, k.got)
    BY <1>0, <1>5, WalkOf, Zenon
  <2> HIDE DEF k1
  <2>3. k1 \in TaskType
    BY <2>2, Zenon DEF TaskOf
  <2>4. TaskOf(k2, k1, k1.pc, k1.msg, k1.receipt, k1.walk, k1.list, g)
    BY <1>5, <2>3, GotOf, Zenon
  <2>5. TaskOf(k2, k, k.pc, k.msg, k.receipt, w, k.list, g)
    BY <2>2, <2>4, Zenon DEF TaskOf
  <2> HIDE DEF k2
  <2>6. Goes(t, k.pc, k.msg, k.receipt, w, k.list, g)
    BY <1>0, <2>1, <2>5, TaskOfIs, Zenon
  <2> QED BY <1>1, <1>4, <1>11, <2>6, Zenon DEF Walked, Goes
<1>12. CASE /\ effect[m].state # "terminal" /\ Live(r)
            /\ task' = [task EXCEPT ![t] = [go(Entry(m, q)) EXCEPT
                                              !.mine = TRUE, !.got = @ \cup {m}]]
  <2> DEFINE p == Entry(m, q)
             k0 == go(p)
             k1 == [k0 EXCEPT !.mine = TRUE]
             k2 == [k1 EXCEPT !.got = g]
  <2>1. p \in Places
    BY EntryIs, InPlaces
  <2>2. TaskOf(k0, k, p, m, q, w, k.list, k.got)
    BY <1>6, <2>1, Zenon
  <2> HIDE DEF p, hand, go
  <2>3. k0 \in TaskType /\ k0.got = k.got
    BY <2>2, Zenon DEF TaskOf
  <2>4. task' = [task EXCEPT ![t] = k2]
    BY <1>12, <2>3 DEF p, TaskType
  <2> HIDE DEF k0
  <2>5. TaskOf(k1, k0, k0.pc, k0.msg, k0.receipt, k0.walk, k0.list, k0.got)
    BY <2>3, MineOf, Zenon
  <2> HIDE DEF k1
  <2>6. k1 \in TaskType
    BY <2>5, Zenon DEF TaskOf
  <2>7. TaskOf(k2, k1, k1.pc, k1.msg, k1.receipt, k1.walk, k1.list, g)
    BY <1>5, <2>6, GotOf, Zenon
  <2>8. TaskOf(k2, k, p, m, q, w, k.list, g)
    BY <2>2, <2>5, <2>7, Zenon DEF TaskOf
  <2> HIDE DEF k2
  <2>9. Goes(t, p, m, q, w, k.list, g)
    BY <1>0, <2>4, <2>8, TaskOfIs, Zenon
  <2> QED BY <1>1, <1>4, <1>12, <2>9, Zenon DEF Walked, Goes, p
<1> QED BY <1>2, <1>7, <1>8, <1>9, <1>10, <1>11, <1>12, Zenon

(* The open effects that a drain that got g lists. *)
Listed(g) ==
    {<<m, Busy(effect[m])>> : m \in {n \in Msgs \ g :
                                       effect[n].state = "uncertain" \/ Open(effect[n])}}

(* List: the drain reads the journal for the entries without a receipt.    *)
LEMMA ListIs ==
    ASSUME Base, NEW t \in Tasks, List(t)
    PROVE  /\ task[t].pc = "walk" /\ task[t].walk = {} /\ effect' = effect /\ map' = map
           /\ Only(t)
           /\ task'[t].pc = "list" /\ task'[t].back = "list" /\ task'[t].got = {}
           /\ task'[t].list = Listed(task[t].got) /\ task'[t].walk = task[t].walk
           /\ task'[t].drain = task[t].drain /\ task'[t].msg = task[t].msg
           /\ task'[t].receipt = task[t].receipt
<1> DEFINE k == task[t]
           l == Listed(k.got)
           k1 == [k EXCEPT !.pc = "list"]
           k2 == [k1 EXCEPT !.back = "list"]
           k3 == [k2 EXCEPT !.got = {}]
           k4 == [k3 EXCEPT !.list = l]
<1>0. TypeOK /\ k \in TaskType
  BY DEF Base, TypeOK
<1>1. k.pc = "walk" /\ k.walk = {} /\ effect' = effect /\ map' = map
  BY Zenon DEF List, At
<1>2. l \in SUBSET (Msgs \X BOOLEAN)
  <2>1. \A m \in Msgs : Busy(effect[m]) \in BOOLEAN
    BY DEF Busy
  <2> QED BY <2>1 DEF Listed
<1>3. task' = [task EXCEPT ![t] = k4]
  BY Zenon DEF List, Listed
<1>4. k1 \in TaskType
  BY <1>0, FieldType, InPlaces, Zenon
<1>5. k2 \in TaskType
  <2>1. "list" \in Resting
    BY DEF Resting
  <2> QED BY <1>4, <2>1, FieldType, Zenon
<1>6. k3 \in TaskType
  BY <1>5, FieldType, Zenon
<1>7. k4 \in TaskType
  BY <1>2, <1>6, FieldType, Zenon
<1> HIDE DEF l
<1>8. /\ k4.pc = "list" /\ k4.back = "list" /\ k4.got = {} /\ k4.list = l /\ k4.walk = k.walk
      /\ k4.drain = k.drain /\ k4.msg = k.msg /\ k4.receipt = k.receipt
  BY <1>0 DEF TaskType
<1> HIDE DEF k4
<1>9. Only(t) /\ task'[t] = k4
  BY <1>0, <1>3, <1>7, OnlyIs, Zenon
<1> QED BY <1>1, <1>8, <1>9, Zenon DEF l

(* The drain t takes o from its list. *)
Adopted(t, o) ==
    LET m == o[1]
        q == effect[m].question
        l == task[t].list \ {o}
        rests == Goes(t, "list", task[t].msg, task[t].receipt, task[t].walk, l, task[t].got)
        goes(p) == Goes(t, p, m, q, task[t].walk, l, task[t].got)
    IN  \/ /\ Adoptable(m) /\ Receipt(m, q) /\ effect' = effect
           /\ \/ (~endpoint \/ effect[m].state = "none") /\ goes("stale")
              \/ rests
              \/ endpoint /\ effect[m].state # "none" /\ goes(Entry(m, q))
        \/ ~Adoptable(m) /\ Drops(m) /\ map' = map /\ rests

(* Adopt: the drain takes an entry without a receipt, or drops it.         *)
LEMMA AdoptIs ==
    ASSUME Base, NEW t \in Tasks, Adopt(t)
    PROVE  /\ task[t].pc = "list"
           /\ \E o \in task[t].list : o \in Msgs \X BOOLEAN /\ Adopted(t, o)
<1> DEFINE k == task[t]
<1>0. TypeOK /\ k \in TaskType
  BY DEF Base, TypeOK
<1>1. k.pc = "list"
  BY Zenon DEF Adopt, At
<1>2. PICK o \in k.list :
        LET m == o[1]
            q == effect[m].question
            rest == [k EXCEPT !.list = @ \ {o}]
            go(pc) == [rest EXCEPT !.pc = pc, !.msg = m, !.receipt = q]
        IN  \/ /\ Adoptable(m) /\ map' = [map EXCEPT !.receipts[m] = q] /\ effect' = effect
               /\ task' = [task EXCEPT ![t] =
                             IF ~endpoint \/ effect[m].state = "none" THEN go("stale")
                             ELSE IF o[2] THEN rest ELSE go(Entry(m, q))]
            \/ /\ ~Adoptable(m) /\ Terminalize(m) /\ map' = map
               /\ task' = [task EXCEPT ![t] = rest]
  BY ZenonT(60) DEF Adopt
<1> DEFINE m == o[1]
           q == effect[m].question
           l == k.list \ {o}
           rest == [k EXCEPT !.list = l]
           go(p) == [rest EXCEPT !.pc = p, !.msg = m, !.receipt = q]
<1>3. k.list \in SUBSET (Msgs \X BOOLEAN)
  BY <1>0 DEF TaskType
<1>4. o \in Msgs \X BOOLEAN /\ m \in Msgs /\ l \in SUBSET (Msgs \X BOOLEAN)
  BY <1>3
<1>5. q \in Asked \cup {NoReceipt}
  BY <1>0, <1>4 DEF TypeOK, EffectType
<1>6. TaskOf(rest, k, k.pc, k.msg, k.receipt, k.walk, l, k.got)
  BY <1>0, <1>4, ListOf, Zenon
<1>7. ASSUME NEW p \in Places
      PROVE  TaskOf(go(p), k, p, m, q, k.walk, l, k.got)
  <2> HIDE DEF k, m, q, l, rest
  <2>1. rest \in TaskType
    BY <1>6, Zenon DEF TaskOf
  <2>2. q \in Asked \cup {NoAction, NoReceipt}
    BY <1>5
  <2>3. TaskOf(go(p), rest, p, m, q, rest.walk, rest.list, rest.got)
    BY <1>4, <2>1, <2>2, HandOf, Zenon
  <2> QED BY <1>6, <2>3, Zenon DEF TaskOf
<1>8. ASSUME task' = [task EXCEPT ![t] = rest]
      PROVE  Goes(t, "list", k.msg, k.receipt, k.walk, l, k.got)
  <2> HIDE DEF rest
  <2> QED BY <1>0, <1>1, <1>6, <1>8, TaskOfIs, Zenon
<1>9. ASSUME NEW p \in Places, task' = [task EXCEPT ![t] = go(p)]
      PROVE  Goes(t, p, m, q, k.walk, l, k.got)
  <2>1. TaskOf(go(p), k, p, m, q, k.walk, l, k.got)
    BY <1>7, Zenon
  <2> HIDE DEF go
  <2> QED BY <1>0, <1>9, <2>1, TaskOfIs, Zenon
<1>10. CASE /\ Adoptable(m) /\ map' = [map EXCEPT !.receipts[m] = q] /\ effect' = effect
            /\ task' = [task EXCEPT ![t] =
                          IF ~endpoint \/ effect[m].state = "none" THEN go("stale")
                          ELSE IF o[2] THEN rest ELSE go(Entry(m, q))]
  <2>1. Receipt(m, q)
    BY <1>0, <1>4, <1>5, <1>10, ReceiptIs, Zenon
  <2>2. CASE ~endpoint \/ effect[m].state = "none"
    <3>1. task' = [task EXCEPT ![t] = go("stale")]
      BY <1>10, <2>2, Zenon
    <3>2. Goes(t, "stale", m, q, k.walk, l, k.got)
      BY <1>9, <3>1, InPlaces, Zenon
    <3> QED BY <1>1, <1>4, <1>10, <2>1, <2>2, <3>2, Zenon DEF Adopted
  <2>3. CASE ~(~endpoint \/ effect[m].state = "none") /\ o[2]
    <3>1. task' = [task EXCEPT ![t] = rest]
      BY <1>10, <2>3, Zenon
    <3> QED BY <1>1, <1>4, <1>8, <1>10, <2>1, <3>1, Zenon DEF Adopted
  <2>4. CASE ~(~endpoint \/ effect[m].state = "none") /\ ~o[2]
    <3>1. task' = [task EXCEPT ![t] = go(Entry(m, q))]
      BY <1>10, <2>4, Zenon
    <3>2. Entry(m, q) \in Places
      BY EntryIs, InPlaces
    <3>3. Goes(t, Entry(m, q), m, q, k.walk, l, k.got)
      BY <1>9, <3>1, <3>2, Zenon
    <3> QED BY <1>1, <1>4, <1>10, <2>1, <2>4, <3>3, Zenon DEF Adopted
  <2> QED BY <2>2, <2>3, <2>4, Zenon
<1>11. CASE /\ ~Adoptable(m) /\ Terminalize(m) /\ map' = map
            /\ task' = [task EXCEPT ![t] = rest]
  <2>1. Drops(m)
    BY <1>0, <1>4, <1>11, TerminalizeIs, Zenon
  <2>2. Goes(t, "list", k.msg, k.receipt, k.walk, l, k.got)
    BY <1>8, <1>11, Zenon
  <2> QED BY <1>1, <1>4, <1>11, <2>1, <2>2, Zenon DEF Adopted
<1> QED BY <1>2, <1>10, <1>11, Zenon

(* The end of a drain.                                                     *)
LEMMA DrainEndsIs ==
    ASSUME Base, NEW t \in Tasks, DrainEnds(t)
    PROVE  task[t].pc = "list" /\ task[t].list = {} /\ Rests(t) /\ effect' = effect /\ map' = map
<1>1. task[t].pc = "list" /\ task[t].list = {} /\ effect' = effect /\ map' = map
  BY Zenon DEF DrainEnds, At
<1> QED BY <1>1, RestsIs, Zenon DEF DrainEnds, Base

(* The recovery timer begins a drain, or finds one in flight.              *)
LEMMA TimerFiresIs ==
    ASSUME Base, NEW t \in Tasks, TimerFires(t)
    PROVE  /\ effect' = effect /\ map' = map
           /\ \/ task' = task
              \/ /\ task[t].pc = "idle" /\ Begins(t, "recover")
                 /\ \A u \in Tasks : task[u].drain # "recover"
<1>1. effect' = effect /\ map' = map
  BY Zenon DEF TimerFires
<1>2. \/ task' = task
      \/ /\ task[t].pc = "idle" /\ Begin(t, "recover")
         /\ \A u \in Tasks : task[u].drain # "recover"
  BY Zenon DEF TimerFires, At
<1> QED BY <1>1, <1>2, BeginIs, Zenon DEF Base

(* The start of the daemon begins its first drain.                         *)
LEMMA StartIs ==
    ASSUME Base, NEW t \in Tasks, Start(t)
    PROVE  effect' = effect /\ map' = map /\ Begins(t, "start")
<1>1. effect' = effect /\ map' = map /\ Begin(t, "start")
  BY Zenon DEF Start
<1> QED BY <1>1, BeginIs, Zenon DEF Base

(* A crash loses every task, and keeps journal and mapping.                *)
LEMMA CrashIs ==
    ASSUME Base, Crash
    PROVE  /\ map' = map
           /\ task' \in [Tasks -> TaskType] /\ \A t \in Tasks : task'[t] = Rest
           /\ effect' \in [Msgs -> EffectType]
           /\ \A m \in Msgs : /\ effect'[m].state = effect[m].state
                              /\ effect'[m].lapsed = effect[m].lapsed
                              /\ effect'[m].question = effect[m].question
                              /\ effect'[m].holder = NoTask
<1>1. map' = map /\ task' = [t \in Tasks |-> Rest]
  BY Zenon DEF Crash
<1>2. effect' = [m \in Msgs |-> [effect[m] EXCEPT !.holder = NoTask]]
  BY Zenon DEF Crash
<1>3. task' \in [Tasks -> TaskType] /\ \A t \in Tasks : task'[t] = Rest
  BY <1>1, RestType, Zenon
<1>4. ASSUME NEW m \in Msgs
      PROVE  LeaseOf(effect'[m], effect[m], effect[m].state, NoTask, effect[m].lapsed)
  <2>1. effect[m] \in EffectType
    BY DEF Base, TypeOK
  <2>2. effect'[m] = [effect[m] EXCEPT !.holder = NoTask]
    BY <1>2, Zenon
  <2>3. effect'[m] \in EffectType
    <3>1. [effect[m] EXCEPT !.holder = NoTask] \in EffectType
      BY <2>1 DEF EffectType
    <3> QED BY <2>2, <3>1, Zenon
  <2> QED BY <2>1, <2>2, <2>3 DEF LeaseOf, EffectType
<1>5. effect' \in [Msgs -> EffectType]
  <2>1. \A m \in Msgs : [effect[m] EXCEPT !.holder = NoTask] \in EffectType
    BY <1>2, <1>4, Zenon DEF LeaseOf
  <2> QED BY <1>2, <2>1, Zenon
<1> QED BY <1>1, <1>3, <1>4, <1>5, Zenon DEF LeaseOf

(* The lease on the effect of m has lapsed, or not. *)
Lapsed(m, l) ==
    /\ Touch(m)
    /\ effect'[m].lapsed = l /\ effect'[m].state = effect[m].state
    /\ effect'[m].holder = effect[m].holder /\ effect'[m].question = effect[m].question

(* Setting the lapse of one effect keeps everything else of it.            *)
LEMMA LapsedIs ==
    ASSUME TypeOK, NEW m \in Msgs, NEW l \in BOOLEAN, effect' = [effect EXCEPT ![m].lapsed = l]
    PROVE  Lapsed(m, l)
<1>1. effect[m] \in EffectType
  BY DEF TypeOK
<1>2. effect' = [effect EXCEPT ![m] = [effect[m] EXCEPT !.lapsed = l]]
  BY Zenon
<1>3. [effect[m] EXCEPT !.lapsed = l] \in EffectType
  BY <1>1, EffectField, Zenon
<1>4. Touch(m) /\ effect'[m] = [effect[m] EXCEPT !.lapsed = l]
  BY <1>2, <1>3, TouchIs, Zenon
<1> QED BY <1>1, <1>4 DEF Lapsed, EffectType

(* A lease that lapses is a slip.                                          *)
LEMMA LapsesIs ==
    ASSUME Base, NEW m \in Msgs, Lapses(m)
    PROVE  /\ effect[m].state = "leased" /\ ~effect[m].lapsed /\ Lapsed(m, TRUE) /\ Slips(m)
           /\ task' = task /\ map' = map
<1>1. /\ effect[m].state = "leased" /\ ~effect[m].lapsed /\ Slips(m)
      /\ task' = task /\ map' = map /\ effect' = [effect EXCEPT ![m].lapsed = TRUE]
  BY Zenon DEF Lapses, Slips
<1> QED BY <1>1, LapsedIs, Zenon DEF Base

(* A task renews the lease it holds, lapsed or not.                        *)
LEMMA RenewIs ==
    ASSUME Base, NEW t \in Tasks, Renew(t)
    PROVE  LET m == task[t].msg IN
           /\ m \in Msgs /\ Lapsed(m, FALSE) /\ Holds(t, m) /\ task[t].pc = "send"
           /\ effect[m].lapsed /\ task' = task /\ map' = map
<1>0. TypeOK /\ TaskOK(task[t])
  BY Zenon DEF Base, TasksOK
<1>1. /\ Holds(t, task[t].msg) /\ task[t].pc = "send" /\ effect[task[t].msg].lapsed
      /\ task' = task /\ map' = map /\ effect' = [effect EXCEPT ![task[t].msg].lapsed = FALSE]
  BY Zenon DEF Renew, At
<1>2. task[t].msg \in Msgs
  BY <1>0, <1>1 DEF TaskOK, Resting
<1> QED BY <1>0, <1>1, <1>2, LapsedIs, Zenon

(* An effect that is done with and has no receipt is forgotten.            *)
LEMMA PruneIs ==
    ASSUME Base, NEW m \in Msgs, Prune(m)
    PROVE  /\ effect[m].state = "terminal" /\ map.receipts[m] = NoReceipt
           /\ \A t \in Tasks : task[t].msg # m
           /\ Touch(m) /\ effect'[m].state = "none"
           /\ effect'[m].question = effect[m].question
           /\ task' = task /\ map' = map
<1>1. /\ effect[m].state = "terminal" /\ map.receipts[m] = NoReceipt
      /\ \A t \in Tasks : task[t].msg # m
      /\ task' = task /\ map' = map
  BY Zenon DEF Prune, Prunable
<1>2. effect' = [effect EXCEPT ![m] = [effect[m] EXCEPT !.state = "none"]]
  BY Zenon DEF Prune
<1>3. effect[m] \in EffectType /\ "none" \in States /\ TypeOK
  BY DEF Base, TypeOK, States
<1>4. [effect[m] EXCEPT !.state = "none"] \in EffectType
  BY <1>3, EffectField, Zenon
<1>5. Touch(m) /\ effect'[m] = [effect[m] EXCEPT !.state = "none"]
  BY <1>2, <1>3, <1>4, TouchIs, Zenon
<1>6. effect'[m].state = "none" /\ effect'[m].question = effect[m].question
  BY <1>3, <1>5 DEF EffectType
<1> QED BY <1>1, <1>5, <1>6, Zenon

(* Only the pending question of the mapping changes, or its binding.         *)
Turns ==
    /\ map' \in MapType /\ map'.receipts = map.receipts /\ map'.seen = map.seen
    /\ map'.bound => map.bound

(* A question, its answer, or the close of the thread changes neither      *)
(* receipts nor seen.                                                      *)
LEMMA TurnsIs ==
    ASSUME TypeOK, (\E a \in Actions : Notify(a)) \/ ResolveAction \/ Close
    PROVE  Turns
<1>1. PICK p \in Actions \cup {NoAction} :
         map' = [map EXCEPT !.pending = p] \/ map' = [map EXCEPT !.bound = FALSE, !.pending = p]
  BY Zenon DEF Notify, ResolveAction, Close
<1>2. CASE map' = [map EXCEPT !.pending = p]
  BY <1>2 DEF TypeOK, MapType, Turns
<1>3. CASE map' = [map EXCEPT !.bound = FALSE, !.pending = p]
  <2> DEFINE n == [map EXCEPT !.bound = FALSE]
  <2>0. map \in MapType
    BY DEF TypeOK
  <2>a. n \in MapType
    <3>1. \A b \in BOOLEAN : [map EXCEPT !.bound = b] \in MapType
      BY <2>0 DEF MapType
    <3> QED BY <3>1, Zenon
  <2>1. n \in MapType /\ n.receipts = map.receipts /\ n.seen = map.seen /\ n.bound = FALSE
    BY <2>0, <2>a DEF MapType
  <2>2. map' = [n EXCEPT !.pending = p]
    BY <1>3, Zenon
  <2> HIDE DEF n
  <2> QED BY <2>1, <2>2 DEF MapType, Turns
<1> QED BY <1>1, <1>2, <1>3, Zenon

-----------------------------------------------------------------------------
(* The types are kept. *)

(* The tasks are sound when the one that moved is.                         *)
LEMMA OnlyOK ==
    ASSUME TasksOK, NEW t \in Tasks, Only(t), TaskOK(task'[t])
    PROVE  TasksOK'
<1>1. ASSUME NEW u \in Tasks PROVE TaskOK(task'[u])
  BY Zenon DEF TasksOK, Only
<1> QED BY <1>1, Zenon DEF TasksOK, Only, TaskOK

(* A task put to rest is sound.                                            *)
LEMMA RestsOK ==
    ASSUME TasksOK, NEW t \in Tasks, Rests(t)
    PROVE  TasksOK'
<1>1. TaskOK(task'[t])
  BY RestIs DEF Rests, TaskOK, Resting
<1> QED BY <1>1, OnlyOK, Zenon DEF Rests

(* A task at a place with a message and a receipt fit for it is sound.     *)
LEMMA SetsOK ==
    ASSUME TasksOK, NEW t \in Tasks, NEW p, NEW m, NEW r, Sets(t, p, m, r),
           p \in Resting \/ m \in Msgs, p # "enqueue", p # "check"
    PROVE  TasksOK'
<1>1. TaskOK(task'[t])
  BY Zenon DEF Sets, TaskOK
<1> QED BY <1>1, OnlyOK, Zenon DEF Sets

(* A task that ends is sound.                                              *)
LEMMA EndsOK ==
    ASSUME TypeOK, TasksOK, NEW t \in Tasks, Ends(t)
    PROVE  TasksOK'
<1>1. task[t].back \in Resting /\ task[t].back # "enqueue" /\ task[t].back # "check"
  BY DEF TypeOK, TaskType, Resting
<1> QED BY <1>1, RestsOK, SetsOK, Zenon DEF Ends

(* A drain that begins is sound.                                           *)
LEMMA BeginsOK ==
    ASSUME TasksOK, NEW t \in Tasks, NEW d, Begins(t, d)
    PROVE  TasksOK'
<1>1. TaskOK(task'[t])
  BY DEF Begins, TaskOK, Resting
<1> QED BY <1>1, OnlyOK, Zenon DEF Begins

(* The effects are sound when the one touched has a question.              *)
LEMMA TouchOK ==
    ASSUME EffectsOK, NEW m \in Msgs, Touch(m),
           effect'[m].state # "none" => effect'[m].question \in Asked
    PROVE  EffectsOK'
<1>1. ASSUME NEW n \in Msgs PROVE effect'[n].state # "none" => effect'[n].question \in Asked
  BY Zenon DEF EffectsOK, Touch
<1> QED BY <1>1, Zenon DEF EffectsOK, Touch, Asked

(* terminalize keeps the effects sound.                                    *)
LEMMA DropsOK ==
    ASSUME EffectsOK, NEW m \in Msgs, Drops(m)
    PROVE  EffectsOK'
<1>1. CASE effect' = effect
  BY <1>1, Zenon DEF EffectsOK, Asked
<1>2. CASE effect' # effect
  <2>1. Touch(m) /\ effect[m].question \in Asked /\ effect'[m].question = effect[m].question
    BY <1>2 DEF Drops, Becomes, EffectsOK
  <2> QED BY <2>1, TouchOK, Zenon
<1> QED BY <1>1, <1>2, Zenon

(* One send or slip more is still a count.                                 *)
LEMMA CountOK ==
    ASSUME CountsOK, NEW m \in Msgs, sends' = sends \/ Reaches(m), slips' = slips \/ Slips(m)
    PROVE  CountsOK'
BY DEF CountsOK, Reaches, Slips

(* What a step leaves alone stays of its type. *)
LEMMA SameOK ==
    ASSUME Base
    PROVE  /\ effect' = effect => EffectsOK'
           /\ map' = map => map' \in MapType
           /\ task' = task => TasksOK'
           /\ sends' = sends /\ slips' = slips => CountsOK'
<1>1. effect' = effect => EffectsOK'
  BY Zenon DEF Base, EffectsOK, Asked
<1>2. map' = map => map' \in MapType
  BY Zenon DEF Base, TypeOK
<1>3. task' = task => TasksOK'
  BY Zenon DEF Base, TasksOK, TaskOK
<1>4. sends' = sends /\ slips' = slips => CountsOK'
  BY Zenon DEF Base, CountsOK
<1> QED BY <1>1, <1>2, <1>3, <1>4, Zenon

(* The four parts make up Base.                                            *)
LEMMA BaseOf ==
    ASSUME EffectsOK', map' \in MapType, TasksOK', CountsOK'
    PROVE  Base'
BY Zenon DEF Base, TypeOK, EffectsOK, TasksOK, CountsOK

(* The daemon starts with sound state.                                     *)
LEMMA BaseInit == ASSUME Init PROVE Base
<1>1. EffectsOK
  BY DEF Init, EffectsOK, EffectType, States, NoReceipt
<1>2. map \in MapType
  <2> DEFINE x == [m \in Msgs |-> NoReceipt]
  <2>1. map = [bound |-> TRUE, pending |-> NoAction, receipts |-> x, seen |-> {}]
    BY Zenon DEF Init
  <2>2. x \in [Msgs -> Asked \cup {NoReceipt}]
    OBVIOUS
  <2> HIDE DEF x
  <2> QED BY <2>1, <2>2 DEF MapType
<1>3. TasksOK
  <2>1. task = [t \in Tasks |-> Rest]
    BY Zenon DEF Init
  <2>2. TaskOK(Rest)
    BY RestIs DEF TaskOK, Resting
  <2> QED BY <2>1, <2>2, RestType, Zenon DEF TasksOK
<1>4. CountsOK
  BY DEF Init, CountsOK
<1> QED BY <1>1, <1>2, <1>3, <1>4, Zenon DEF Base, TypeOK, EffectsOK, TasksOK

(* The steps of handleEnvelope keep tasks, journal and mapping sound.      *)
LEMMA HandlerOK ==
    ASSUME Base, NEW t \in Tasks, (\E m \in Msgs : Receive(t, m)) \/ Enqueue(t) \/ Accept(t) \/ Ack(t)
    PROVE  Base'
<1>0. TypeOK /\ TasksOK /\ EffectsOK /\ CountsOK
  BY Zenon DEF Base
<1>1. ASSUME NEW m \in Msgs, Receive(t, m) PROVE Base'
  <2>1. effect' = effect /\ map' = map /\ sends' = sends /\ slips' = slips
    BY <1>1, Zenon DEF Receive, history
  <2>2. TasksOK'
    <3>1. CASE task' = task
      BY <3>1, SameOK, Zenon
    <3>2. CASE /\ Only(t) /\ task'[t].pc = "enqueue" /\ task'[t].msg = m
               /\ task'[t].receipt = Question(m, map.pending)
      <4>1. Question(m, map.pending) \in Asked \cup {NoAction}
        BY <1>0 DEF TypeOK, MapType, Question, Asked
      <4>2. TaskOK(task'[t])
        BY <3>2, <4>1 DEF TaskOK
      <4> QED BY <1>0, <3>2, <4>2, OnlyOK, Zenon
    <3> QED BY <1>1, <3>1, <3>2, ReceiveIs, Zenon
  <2> QED BY <2>1, <2>2, SameOK, BaseOf, Zenon
<1>2. ASSUME Enqueue(t) PROVE Base'
  <2>1. map' = map /\ sends' = sends /\ slips' = slips
    BY <1>2, Zenon DEF Enqueue, world, history
  <2>2. task[t].msg \in Msgs
    BY <1>2, EnqueueIs, Zenon
  <2>3. CASE Rests(t) /\ effect' = effect
    BY <1>0, <2>1, <2>3, RestsOK, SameOK, BaseOf, Zenon
  <2>4. CASE /\ Sets(t, "accept", task[t].msg, NoReceipt)
             /\ \/ effect' = effect
                \/ Becomes(task[t].msg, "pending") /\ effect'[task[t].msg].question \in Asked
    <3>1. TasksOK'
      BY <1>0, <2>2, <2>4, SetsOK
    <3>2. EffectsOK'
      BY <1>0, <2>2, <2>4, TouchOK, SameOK, Zenon DEF Becomes
    <3> QED BY <2>1, <3>1, <3>2, SameOK, BaseOf, Zenon
  <2> QED BY <1>2, <2>3, <2>4, EnqueueIs
<1>3. ASSUME Accept(t) PROVE Base'
  <2>1. effect' = effect /\ sends' = sends /\ slips' = slips
    BY <1>3, Zenon DEF Accept, world, history
  <2>2. task[t].msg \in Msgs
    BY <1>3, AcceptIs, Zenon
  <2>3. map' \in MapType
    BY <1>3, AcceptIs, SameOK DEF Receipt
  <2>4. TasksOK'
    <3>1. Rests(t) \/ Sets(t, "ack", task[t].msg, map'.receipts[task[t].msg])
      BY <1>3, AcceptIs, Zenon
    <3> QED BY <1>0, <2>2, <3>1, RestsOK, SetsOK
  <2> QED BY <2>1, <2>3, <2>4, SameOK, BaseOf, Zenon
<1>4. ASSUME Ack(t) PROVE Base'
  <2>1. effect' = effect /\ map' = map /\ sends' = sends /\ slips' = slips
    BY <1>4, Zenon DEF Ack
  <2>2. TasksOK'
    <3>1. /\ task[t].msg \in Msgs
          /\ Rests(t) \/ Sets(t, Entry(task[t].msg, task[t].receipt), task[t].msg, task[t].receipt)
      BY <1>4, AckIs, Zenon DEF Moves
    <3>2. /\ Entry(task[t].msg, task[t].receipt) # "enqueue"
          /\ Entry(task[t].msg, task[t].receipt) # "check"
      BY EntryIs
    <3> QED BY <1>0, <3>1, <3>2, RestsOK, SetsOK, Zenon
  <2> QED BY <2>1, <2>2, SameOK, BaseOf, Zenon
<1> QED BY <1>1, <1>2, <1>3, <1>4, Zenon

(* The steps of the dispatch keep tasks, journal and mapping sound.        *)
LEMMA DispatchOK ==
    ASSUME Base, NEW t \in Tasks, Claim(t) \/ Check(t) \/ Send(t) \/ Record(t) \/ Finish(t) \/ Stale(t)
    PROVE  Base'
<1> DEFINE m == task[t].msg
           r == task[t].receipt
<1>0. TypeOK /\ TasksOK /\ EffectsOK /\ CountsOK
  BY Zenon DEF Base
<1>a. ASSUME NEW p, Moves(t, p), m \in Msgs, p # "enqueue", p # "check" PROVE TasksOK'
  BY <1>0, <1>a, SetsOK, Zenon DEF Moves
<1>1. ASSUME Claim(t) PROVE Base'
  <2>1. map' = map /\ sends' = sends /\ slips' = slips
    BY <1>1, Zenon DEF Claim, world, history
  <2>2. CASE Ends(t) /\ effect' = effect
    BY <1>0, <2>1, <2>2, EndsOK, SameOK, BaseOf, Zenon
  <2>3. CASE /\ m \in Msgs /\ CanClaim(effect[m]) /\ LeasedTo(m, t)
             /\ \/ effect[m].question = r /\ Moves(t, "check")
                \/ Moves(t, "stale")
    <3>1. effect[m].question \in Asked
      BY <1>0, <2>3 DEF EffectsOK, CanClaim
    <3>2. EffectsOK'
      BY <1>0, <2>3, <3>1, TouchOK, Zenon DEF LeasedTo
    <3>3. TasksOK'
      <4>1. CASE effect[m].question = r /\ Moves(t, "check")
        <5>1. TaskOK(task'[t])
          BY <2>3, <3>1, <4>1 DEF Moves, Sets, TaskOK
        <5> QED BY <1>0, <4>1, <5>1, OnlyOK, Zenon DEF Moves, Sets
      <4>2. CASE Moves(t, "stale")
        BY <1>a, <2>3, <4>2
      <4> QED BY <2>3, <4>1, <4>2, Zenon
    <3> QED BY <2>1, <3>2, <3>3, SameOK, BaseOf, Zenon
  <2> QED BY <1>1, <2>2, <2>3, ClaimIs, Zenon
<1>2. ASSUME Check(t) PROVE Base'
  <2>1. effect' = effect /\ map' = map /\ sends' = sends /\ slips' = slips
    BY <1>2, Zenon DEF Check, world, history
  <2>2. m \in Msgs /\ (Moves(t, "send") \/ Moves(t, "stale"))
    BY <1>2, CheckIs, Zenon
  <2>3. TasksOK'
    BY <1>a, <2>2
  <2> QED BY <2>1, <2>3, SameOK, BaseOf, Zenon
<1>3. ASSUME Send(t) PROVE Base'
  <2>1. effect' = effect /\ map' = map /\ slips' = slips
    BY <1>3, Zenon DEF Send
  <2>2. /\ m \in Msgs /\ (Reaches(m) \/ sends' = sends)
        /\ Moves(t, "record") \/ Moves(t, "unsure") \/ Moves(t, "refused")
    BY <1>3, SendIs, Zenon
  <2>3. TasksOK'
    BY <1>a, <2>2
  <2>4. CountsOK'
    BY <1>0, <2>1, <2>2, CountOK, Zenon
  <2> QED BY <2>1, <2>3, <2>4, SameOK, BaseOf, Zenon
<1>4. ASSUME Record(t) PROVE Base'
  <2>1. map' = map /\ sends' = sends /\ slips' = slips
    BY <1>4, Zenon DEF Record, world, history
  <2>2. CASE Ends(t) /\ effect' = effect
    BY <1>0, <2>1, <2>2, EndsOK, SameOK, BaseOf, Zenon
  <2>3. CASE m \in Msgs /\ Moves(t, "stale") /\ effect' = effect
    <3>1. TasksOK'
      BY <1>a, <2>3
    <3> QED BY <2>1, <2>3, <3>1, SameOK, BaseOf, Zenon
  <2>4. CASE /\ m \in Msgs /\ Holds(t, m) /\ effect'[m].question = effect[m].question /\ Touch(m)
             /\ Moves(t, "finish") \/ Moves(t, "release") \/ Moves(t, "finishUncertain")
    <3>1. TasksOK'
      BY <1>a, <2>4
    <3>2. effect[m].question \in Asked
      BY <1>0, <2>4 DEF EffectsOK, Holds
    <3>3. EffectsOK'
      BY <1>0, <2>4, <3>2, TouchOK, Zenon
    <3> QED BY <2>1, <3>1, <3>3, SameOK, BaseOf, Zenon
  <2> QED BY <1>4, <2>2, <2>3, <2>4, RecordIs, Zenon DEF Becomes
<1>5. ASSUME Finish(t) PROVE Base'
  <2>1. effect' = effect /\ sends' = sends
    BY <1>5, Zenon DEF Finish
  <2>2. m \in Msgs /\ Ends(t) /\ map' \in MapType /\ (slips' = slips \/ Slips(m))
    BY <1>5, FinishIs, SameOK DEF Closes, Receipt
  <2>3. TasksOK' /\ CountsOK'
    BY <1>0, <2>1, <2>2, EndsOK, CountOK, Zenon
  <2> QED BY <2>1, <2>2, <2>3, SameOK, BaseOf, Zenon
<1>6. ASSUME Stale(t) PROVE Base'
  <2>1. map' = map /\ sends' = sends /\ slips' = slips
    BY <1>6, Zenon DEF Stale, Terminalize
  <2>2. m \in Msgs /\ Drops(m) /\ Moves(t, "final")
    BY <1>6, StaleIs, Zenon
  <2>3. TasksOK'
    BY <1>a, <2>2
  <2>4. EffectsOK'
    BY <1>0, <2>2, DropsOK, Zenon
  <2> QED BY <2>1, <2>3, <2>4, SameOK, BaseOf, Zenon
<1> QED BY <1>1, <1>2, <1>3, <1>4, <1>5, <1>6, Zenon

(* The steps of a drain keep tasks, journal and mapping sound.             *)
LEMMA DrainOK ==
    ASSUME Base, NEW t \in Tasks, Walk(t) \/ List(t) \/ Adopt(t) \/ DrainEnds(t)
    PROVE  Base'
<1>0. TypeOK /\ TasksOK /\ EffectsOK /\ CountsOK
  BY Zenon DEF Base
<1>1. ASSUME Walk(t) PROVE Base'
  <2>1. effect' = effect /\ map' = map /\ sends' = sends /\ slips' = slips
    BY <1>1, Zenon DEF Walk, world, history
  <2>2. PICK r \in task[t].walk : r \in Msgs \X Asked \X BOOLEAN /\ Walked(t, r)
    BY <1>1, WalkIs, Zenon
  <2>3. r[1] \in Msgs
    BY <2>2
  <2>4. \/ Sets(t, "final", r[1], r[2]) \/ Sets(t, "stale", r[1], r[2])
        \/ Sets(t, "walk", task[t].msg, task[t].receipt)
        \/ Sets(t, Entry(r[1], r[2]), r[1], r[2])
    BY <2>2, Zenon DEF Walked
  <2>5. Entry(r[1], r[2]) # "enqueue" /\ Entry(r[1], r[2]) # "check" /\ "walk" \in Resting
    BY EntryIs DEF Resting
  <2>6. TasksOK'
    BY <1>0, <2>3, <2>4, <2>5, SetsOK, ZenonT(30)
  <2> QED BY <2>1, <2>6, SameOK, BaseOf, Zenon
<1>2. ASSUME List(t) PROVE Base'
  <2>1. effect' = effect /\ map' = map /\ sends' = sends /\ slips' = slips
    BY <1>2, Zenon DEF List, world, history
  <2>2. Only(t) /\ task'[t].pc = "list"
    BY <1>2, ListIs, Zenon
  <2>3. TaskOK(task'[t])
    BY <2>2 DEF TaskOK, Resting
  <2>4. TasksOK'
    BY <1>0, <2>2, <2>3, OnlyOK, Zenon
  <2> QED BY <2>1, <2>4, SameOK, BaseOf, Zenon
<1>3. ASSUME Adopt(t) PROVE Base'
  <2>1. sends' = sends /\ slips' = slips
    BY <1>3, Zenon DEF Adopt, Terminalize, history
  <2>2. PICK o \in task[t].list : o \in Msgs \X BOOLEAN /\ Adopted(t, o)
    BY <1>3, AdoptIs, Zenon
  <2>3. o[1] \in Msgs
    BY <2>2
  <2>4. \/ Sets(t, "stale", o[1], effect[o[1]].question)
        \/ Sets(t, "list", task[t].msg, task[t].receipt)
        \/ Sets(t, Entry(o[1], effect[o[1]].question), o[1], effect[o[1]].question)
    BY <2>2, Zenon DEF Adopted, Goes
  <2>5. /\ Entry(o[1], effect[o[1]].question) # "enqueue"
        /\ Entry(o[1], effect[o[1]].question) # "check" /\ "list" \in Resting
    BY EntryIs DEF Resting
  <2>6. TasksOK'
    BY <1>0, <2>3, <2>4, <2>5, SetsOK, ZenonT(30)
  <2>7. EffectsOK'
    BY <1>0, <2>2, <2>3, DropsOK, SameOK, Zenon DEF Adopted
  <2>8. map' \in MapType
    BY <2>2, SameOK, Zenon DEF Adopted, Receipt
  <2>9. CountsOK'
    BY <2>1, SameOK, Zenon
  <2> QED BY <2>6, <2>7, <2>8, <2>9, BaseOf, Zenon
<1>4. ASSUME DrainEnds(t) PROVE Base'
  <2>1. effect' = effect /\ map' = map /\ sends' = sends /\ slips' = slips
    BY <1>4, Zenon DEF DrainEnds, history
  <2>2. TasksOK'
    BY <1>0, <1>4, DrainEndsIs, RestsOK, Zenon
  <2> QED BY <2>1, <2>2, SameOK, BaseOf, Zenon
<1> QED BY <1>1, <1>2, <1>3, <1>4, Zenon

(* Steps that are not of a task under way. *)
Outside ==
    \/ \E a \in Actions : Notify(a)
    \/ ResolveAction \/ Detach \/ Reattach \/ Close \/ Stop \/ Stopped

(* What happens outside the daemon's tasks leaves journal, tasks and       *)
(* counts alone.                                                           *)
LEMMA OutsideIs ==
    ASSUME Outside
    PROVE  /\ effect' = effect /\ task' = task /\ sends' = sends /\ slips' = slips
           /\ acked' = acked
<1>1. CASE (\E a \in Actions : Notify(a)) \/ ResolveAction
  BY <1>1, Zenon DEF Notify, ResolveAction
<1>2. CASE Detach \/ Reattach \/ Close
  BY <1>2, Zenon DEF Detach, Reattach, Close, history
<1>3. CASE Stop \/ Stopped
  BY <1>3, Zenon DEF Stop, Stopped, history
<1> QED BY <1>1, <1>2, <1>3, Zenon DEF Outside

(* What happens outside the daemon's tasks drops no receipt, and never     *)
(* binds again.                                                            *)
LEMMA OutsideMap ==
    ASSUME TypeOK, Outside
    PROVE  map' = map \/ Turns
<1>1. CASE (\E a \in Actions : Notify(a)) \/ ResolveAction \/ Close
  BY <1>1, TurnsIs, Zenon
<1>2. CASE Detach \/ Reattach \/ Stop \/ Stopped
  BY <1>2, Zenon DEF Detach, Reattach, Stop, Stopped
<1> QED BY <1>1, <1>2, Zenon DEF Outside

(* Renewals, lapses, pruning, timers, crashes and the session keep the     *)
(* state sound.                                                            *)
LEMMA LifeOK ==
    ASSUME Base,
           \/ \E t \in Tasks : Renew(t) \/ TimerFires(t) \/ Start(t)
           \/ \E m \in Msgs : LeaseExpires(m) \/ LeaseExpiresHeld(m) \/ Prune(m)
           \/ Outside \/ Crash
    PROVE  Base'
<1>0. TypeOK /\ TasksOK /\ EffectsOK /\ CountsOK
  BY Zenon DEF Base
<1>1. ASSUME NEW t \in Tasks, Renew(t) PROVE Base'
  <2>1. map' = map /\ task' = task /\ sends' = sends /\ slips' = slips
    BY <1>1, Zenon DEF Renew, world, history
  <2> DEFINE m == task[t].msg
  <2>2. m \in Msgs /\ Lapsed(m, FALSE) /\ Holds(t, m)
    BY <1>1, RenewIs, Zenon
  <2>3. effect'[m].question \in Asked
    BY <1>0, <2>2 DEF Lapsed, Holds, EffectsOK
  <2>4. EffectsOK'
    BY <1>0, <2>2, <2>3, TouchOK, Zenon DEF Lapsed
  <2> QED BY <2>1, <2>4, SameOK, BaseOf, Zenon
<1>2. ASSUME NEW t \in Tasks, TimerFires(t) \/ Start(t) PROVE Base'
  <2>1. effect' = effect /\ map' = map /\ sends' = sends /\ slips' = slips
    BY <1>2, Zenon DEF TimerFires, Start, world, history
  <2>2. TasksOK'
    BY <1>0, <1>2, TimerFiresIs, StartIs, BeginsOK, SameOK, Zenon
  <2> QED BY <2>1, <2>2, SameOK, BaseOf, Zenon
<1>3. ASSUME NEW m \in Msgs, LeaseExpires(m) \/ LeaseExpiresHeld(m) PROVE Base'
  <2>1. Lapses(m)
    BY <1>3, Zenon DEF LeaseExpires, LeaseExpiresHeld
  <2>2. /\ effect[m].state = "leased" /\ Lapsed(m, TRUE) /\ Slips(m) /\ task' = task
        /\ map' = map
    BY <2>1, LapsesIs, Zenon
  <2>3. sends' = sends
    BY <2>1, Zenon DEF Lapses
  <2>4. effect'[m].question \in Asked
    BY <1>0, <2>2 DEF Lapsed, EffectsOK
  <2>5. EffectsOK'
    BY <1>0, <2>2, <2>4, TouchOK, Zenon DEF Lapsed
  <2>6. CountsOK'
    BY <1>0, <2>2, <2>3, CountOK, Zenon
  <2> QED BY <2>2, <2>5, <2>6, SameOK, BaseOf, Zenon
<1>4. ASSUME NEW m \in Msgs, Prune(m) PROVE Base'
  <2>1. map' = map /\ task' = task /\ sends' = sends /\ slips' = slips
    BY <1>4, Zenon DEF Prune
  <2>2. EffectsOK'
    BY <1>0, <1>4, PruneIs, TouchOK, Zenon
  <2> QED BY <2>1, <2>2, SameOK, BaseOf, Zenon
<1>5. ASSUME Outside PROVE Base'
  <2>1. effect' = effect /\ task' = task /\ sends' = sends /\ slips' = slips
    BY <1>5, OutsideIs, Zenon
  <2>2. map' \in MapType
    BY <1>0, <1>5, OutsideMap, SameOK, Zenon DEF Turns
  <2> QED BY <2>1, <2>2, SameOK, BaseOf, Zenon
<1>6. ASSUME Crash PROVE Base'
  <2>1. map' = map /\ sends' = sends /\ slips' = slips
    BY <1>6, Zenon DEF Crash, history
  <2>2. TasksOK'
    <3>1. TaskOK(Rest)
      BY RestIs DEF TaskOK, Resting
    <3>2. \A t \in Tasks : TaskOK(task'[t])
      BY <1>6, <3>1, CrashIs, Zenon
    <3> QED BY <1>6, <3>2, CrashIs, Zenon DEF TasksOK, TaskOK
  <2>3. EffectsOK'
    <3>1. \A m \in Msgs : effect'[m].state # "none" => effect'[m].question \in Asked
      BY <1>0, <1>6, CrashIs, Zenon DEF EffectsOK
    <3> QED BY <1>6, <3>1, CrashIs, Zenon DEF EffectsOK, Asked
  <2> QED BY <2>1, <2>2, <2>3, SameOK, BaseOf, Zenon
<1> QED BY <1>1, <1>2, <1>3, <1>4, <1>5, <1>6, Zenon

(* Every step keeps tasks, journal and mapping sound.                      *)
LEMMA BaseStep ==
    ASSUME Base, [Next]_vars
    PROVE  Base'
<1>1. CASE UNCHANGED vars
  <2>1. effect' = effect /\ map' = map /\ task' = task /\ sends' = sends /\ slips' = slips
    BY <1>1, Zenon DEF vars
  <2> QED BY <2>1, SameOK, BaseOf, Zenon
<1>2. CASE Next
  <2>1. \/ \E t \in Tasks : \/ (\E m \in Msgs : Receive(t, m)) \/ Enqueue(t) \/ Accept(t) \/ Ack(t)
                            \/ Claim(t) \/ Check(t) \/ Send(t) \/ Record(t) \/ Finish(t) \/ Stale(t)
                            \/ Walk(t) \/ List(t) \/ Adopt(t) \/ DrainEnds(t)
        \/ \E t \in Tasks : Renew(t) \/ TimerFires(t) \/ Start(t)
        \/ \E m \in Msgs : LeaseExpires(m) \/ LeaseExpiresHeld(m) \/ Prune(m)
        \/ Outside \/ Crash
    BY <1>2, ZenonT(30) DEF Next, Step, Outside
  <2> QED BY <2>1, HandlerOK, DispatchOK, DrainOK, LifeOK, Zenon
<1> QED BY <1>1, <1>2, Zenon

(* Tasks, journal and mapping are sound in every reachable state.          *)
LEMMA BaseAlways == Spec => []Base
<1>1. Init => Base
  BY BaseInit
<1>2. Base /\ [Next]_vars => Base'
  BY BaseStep
<1> QED BY <1>1, <1>2, PTL DEF Spec

-----------------------------------------------------------------------------
(***************************************************************************)
(* How often a message may still be sent.  A message has as many rights to *)
(* be sent as it had slips, and one more; a right is with the journal, as  *)
(* long as the effect may be claimed and the mapping does not refuse it,   *)
(* or with a task that claimed the effect and has not sent yet.            *)
(***************************************************************************)

(* The mapping refuses the message for ever. *)
Dead(m) == ~map.bound \/ (m \in map.seen /\ map.receipts[m] = NoReceipt)

Ready(e) == e.state \in {"none", "pending", "accepted"} \/ (e.state = "leased" /\ e.lapsed)

(* The effect is under the lease of a task that is yet to look at it.        *)
Checks(m) ==
    /\ effect[m].state = "leased" /\ ~effect[m].lapsed
    /\ \E t \in Tasks : effect[m].holder = t /\ task[t].msg = m /\ task[t].pc = "check"

(* The right of the journal: without a receipt even an effect that is done   *)
(* with is forgotten one day, and the message taken anew.                    *)
Claimable(m) ==
    ~Dead(m) /\ (Ready(effect[m]) \/ (map.receipts[m] = NoReceipt /\ ~Checks(m)))

(* The rights of the tasks. *)
Arms(k, m) ==
    k.msg = m /\ (k.pc \in {"send", "refused"} \/ (k.pc = "check" /\ ~Dead(m)))
Armed(m) == {t \in Tasks : Arms(task[t], m)}

BudgetOf(m) ==
    /\ IsFiniteSet(Armed(m))
    /\ sends[m] + Cardinality(Armed(m)) + (IF Claimable(m) THEN 1 ELSE 0) <= 1 + slips[m]

Budget == \A m \in Msgs : BudgetOf(m)

(* What may happen to the rights of a message in a step.                     *)
Quiet(m) ==
    /\ Armed(m)' \subseteq Armed(m) /\ (Claimable(m)' => Claimable(m))
    /\ sends'[m] = sends[m] /\ slips'[m] = slips[m]
Spends(m, t) ==
    /\ t \in Armed(m) /\ Armed(m)' \subseteq Armed(m) \ {t}
    /\ slips'[m] = slips[m]
    /\ \/ sends'[m] = sends[m]
       \/ sends'[m] = sends[m] + 1 /\ (Claimable(m)' => Claimable(m))
Takes(m, t) ==
    /\ Claimable(m) /\ ~Claimable(m)' /\ Armed(m)' \subseteq Armed(m) \cup {t}
    /\ sends'[m] = sends[m] /\ slips'[m] = slips[m]
Slipped(m) ==
    /\ slips'[m] = slips[m] + 1
    /\ Armed(m)' \subseteq Armed(m) /\ sends'[m] = sends[m]

Fine(m) ==
    \/ Quiet(m) \/ Slipped(m)
    \/ \E t \in Tasks : Spends(m, t) \/ Takes(m, t)

ArmedAt == {"check", "send", "refused"}

(* What lets the journal have no right that it had not before.               *)
NoGain(m) ==
    \/ Ready(effect[m])
    \/ /\ map'.receipts[m] = NoReceipt => map.receipts[m] = NoReceipt
       /\ effect'[m] = effect[m] \/ (~Ready(effect'[m]) /\ ~Checks(m))

Same(m) == sends'[m] = sends[m] /\ slips'[m] = slips[m]

(* The journal has no right it had not before when nothing gives it one.   *)
LEMMA NoGainIs ==
    ASSUME NEW m, NoGain(m), Dead(m) => Dead(m)', Checks(m) /\ effect'[m] = effect[m] => Checks(m)'
    PROVE  Claimable(m)' => Claimable(m)
<1>1. CASE Ready(effect[m])
  BY <1>1, Zenon DEF Claimable, Ready
<1>2. CASE /\ ~Ready(effect[m])
           /\ map'.receipts[m] = NoReceipt => map.receipts[m] = NoReceipt
           /\ effect'[m] = effect[m]
  BY <1>2, Zenon DEF Claimable, Ready
<1>3. CASE /\ map'.receipts[m] = NoReceipt => map.receipts[m] = NoReceipt
           /\ ~Ready(effect'[m]) /\ ~Checks(m)
  BY <1>3, Zenon DEF Claimable, Ready, NoReceipt
<1> QED BY <1>1, <1>2, <1>3, Zenon DEF NoGain

(* A task that has no right after the step gives up what it had.             *)
LEMMA FineTask ==
    ASSUME NEW t \in Tasks, NEW m \in Msgs, Only(t), task'[t].pc \notin ArmedAt,
           Dead(m) => Dead(m)', Same(m), t \in Armed(m) \/ NoGain(m)
    PROVE  Fine(m)
<1>1. ASSUME NEW u \in Tasks, u \in Armed(m)'
      PROVE  u \in Armed(m) \ {t}
  <2>1. Arms(task[u], m)'
    BY <1>1, Zenon DEF Armed
  <2>2. u # t
    BY <2>1, Zenon DEF Arms, ArmedAt
  <2>3. task'[u] = task[u]
    BY <2>2, Zenon DEF Only
  <2> QED BY <2>1, <2>2, <2>3, Zenon DEF Armed, Arms
<1>2. Armed(m)' \subseteq Armed(m) \ {t}
  BY <1>1, Zenon DEF Armed
<1>3. CASE t \in Armed(m)
  BY <1>2, <1>3, Zenon DEF Fine, Spends, Same
<1>4. CASE t \notin Armed(m)
  <2>1. CASE Dead(m)
    <3>1. ~Claimable(m)'
      BY <2>1, Zenon DEF Claimable
    <3> QED BY <1>2, <3>1, Zenon DEF Fine, Quiet, Same
  <2>2. CASE ~Dead(m)
    <3>1. ASSUME Checks(m), effect'[m] = effect[m] PROVE Checks(m)'
      <4>1. PICK u \in Tasks : effect[m].holder = u /\ task[u].msg = m /\ task[u].pc = "check"
        BY <3>1, Zenon DEF Checks
      <4>2. u # t
        BY <1>4, <2>2, <4>1, Zenon DEF Armed, Arms
      <4>3. task'[u] = task[u]
        BY <4>2, Zenon DEF Only
      <4> QED BY <3>1, <4>1, <4>3, Zenon DEF Checks
    <3>2. Claimable(m)' => Claimable(m)
      BY <1>4, <3>1, NoGainIs, Zenon
    <3> QED BY <1>2, <3>2, Zenon DEF Fine, Quiet, Same
  <2> QED BY <2>1, <2>2, Zenon
<1> QED BY <1>3, <1>4, Zenon

(* No task moves. *)
LEMMA FineStill ==
    ASSUME NEW m \in Msgs, task' = task, Dead(m) => Dead(m)', Same(m), NoGain(m)
    PROVE  Fine(m)
<1>1. Armed(m)' \subseteq Armed(m)
  BY Zenon DEF Armed, Arms
<1>2. Checks(m) /\ effect'[m] = effect[m] => Checks(m)'
  BY Zenon DEF Checks
<1>3. Claimable(m)' => Claimable(m)
  BY <1>2, NoGainIs, Zenon
<1> QED BY <1>1, <1>3, Zenon DEF Fine, Quiet, Same

(* A task at rest, and a drain that begins, has no right to send.          *)
LEMMA RestIsUnarmed ==
    ASSUME TypeOK, NEW t \in Tasks
    PROVE  /\ Rests(t) => Only(t) /\ task'[t].pc \notin ArmedAt
           /\ Ends(t) => Only(t) /\ task'[t].pc \notin ArmedAt
           /\ \A d : Begins(t, d) => Only(t) /\ task'[t].pc \notin ArmedAt
           /\ \A p, m, r : Sets(t, p, m, r) /\ p \notin ArmedAt =>
                             Only(t) /\ task'[t].pc \notin ArmedAt
<1>1. Rests(t) => Only(t) /\ task'[t].pc \notin ArmedAt
  BY RestIs DEF Rests, ArmedAt
<1>2. task[t].back \notin ArmedAt
  BY DEF TypeOK, TaskType, Resting, ArmedAt
<1>3. \A p, m, r : Sets(t, p, m, r) /\ p \notin ArmedAt => Only(t) /\ task'[t].pc \notin ArmedAt
  BY Zenon DEF Sets
<1>4. Ends(t) => Only(t) /\ task'[t].pc \notin ArmedAt
  BY <1>1, <1>2, <1>3, Zenon DEF Ends
<1>5. \A d : Begins(t, d) => Only(t) /\ task'[t].pc \notin ArmedAt
  BY DEF Begins, ArmedAt
<1> QED BY <1>1, <1>3, <1>4, <1>5, Zenon

(* The mapping and the effect of a message are left alone.                   *)
LEMMA StillNoGain ==
    ASSUME NEW m \in Msgs, map' = map, effect'[m] = effect[m]
    PROVE  NoGain(m) /\ (Dead(m) => Dead(m)')
BY Zenon DEF NoGain, Dead, NoReceipt

(* terminalize gives the journal no right.                                 *)
LEMMA DropsNoGain ==
    ASSUME NEW m \in Msgs, NEW n \in Msgs, Drops(n), map' = map
    PROVE  NoGain(m) /\ (Dead(m) => Dead(m)')
<1>1. CASE effect'[m] = effect[m]
  BY <1>1, StillNoGain, Zenon
<1>2. CASE effect'[m] # effect[m]
  <2>1. m = n /\ effect[m].state \in {"pending", "accepted", "uncertain"}
        /\ effect'[m].state = "terminal"
    BY <1>2, Zenon DEF Drops, Becomes, Touch
  <2>2. ~Ready(effect'[m]) /\ ~Checks(m)
    BY <2>1 DEF Ready, Checks
  <2> QED BY <2>2, Zenon DEF NoGain, Dead
<1> QED BY <1>1, <1>2, Zenon

(* No step of handleEnvelope adds a right to send: a redelivery finds the  *)
(* entry.                                                                  *)
LEMMA HandlerFine ==
    ASSUME Base, NEW t \in Tasks, NEW m \in Msgs,
           (\E n \in Msgs : Receive(t, n)) \/ Enqueue(t) \/ Accept(t) \/ Ack(t)
    PROVE  Fine(m)
<1>0. TypeOK
  BY Zenon DEF Base
<1>1. ASSUME NEW n \in Msgs, Receive(t, n) PROVE Fine(m)
  <2>1. effect'[m] = effect[m] /\ map' = map /\ Same(m)
    BY <1>1, Zenon DEF Receive, history, Same
  <2>2. NoGain(m) /\ (Dead(m) => Dead(m)')
    BY <2>1, StillNoGain, Zenon
  <2>3. CASE task' = task
    BY <2>1, <2>2, <2>3, FineStill, Zenon
  <2>4. CASE Only(t) /\ task'[t].pc = "enqueue"
    <3>1. task'[t].pc \notin ArmedAt
      BY <2>4 DEF ArmedAt
    <3> QED BY <2>1, <2>2, <2>4, <3>1, FineTask, Zenon
  <2> QED BY <1>1, <2>3, <2>4, ReceiveIs, Zenon
<1>2. ASSUME Enqueue(t) PROVE Fine(m)
  <2>1. map' = map /\ Same(m)
    BY <1>2, Zenon DEF Enqueue, world, history, Same
  <2>2. Dead(m) => Dead(m)'
    BY <2>1, Zenon DEF Dead
  <2>3. Only(t) /\ task'[t].pc \notin ArmedAt
    <3>1. "accept" \notin ArmedAt
      BY DEF ArmedAt
    <3>2. Rests(t) \/ Sets(t, "accept", task[t].msg, NoReceipt)
      BY <1>2, EnqueueIs, Zenon
    <3> QED BY <1>0, <3>1, <3>2, RestIsUnarmed, Zenon
  <2>4. NoGain(m)
    <3>1. CASE effect'[m] = effect[m]
      BY <2>1, <3>1, StillNoGain, Zenon
    <3>2. CASE effect'[m] # effect[m]
      <4>1. m = task[t].msg /\ effect[m].state = "none"
        BY <1>2, <3>2, EnqueueIs, Zenon DEF Becomes, Touch
      <4> QED BY <4>1 DEF NoGain, Ready
    <3> QED BY <3>1, <3>2, Zenon
  <2> QED BY <2>1, <2>2, <2>3, <2>4, FineTask, Zenon
<1>3. ASSUME Accept(t) PROVE Fine(m)
  <2> DEFINE n == task[t].msg
             q == Question(n, map.pending)
  <2>1. effect' = effect /\ Same(m)
    BY <1>3, Zenon DEF Accept, world, history, Same
  <2>2. Only(t) /\ task'[t].pc \notin ArmedAt
    <3>1. "ack" \notin ArmedAt
      BY DEF ArmedAt
    <3>2. Rests(t) \/ Sets(t, "ack", n, map'.receipts[n])
      BY <1>3, AcceptIs, Zenon
    <3> QED BY <1>0, <3>1, <3>2, RestIsUnarmed, Zenon
  <2>3. /\ n \in Msgs
        /\ \/ map' = map
           \/ map.receipts[n] = NoReceipt /\ n \notin map.seen /\ q \in Asked /\ Receipt(n, q)
    BY <1>3, AcceptIs, Zenon
  <2>4. NoGain(m) /\ (Dead(m) => Dead(m)')
    <3>1. CASE map' = map
      BY <2>1, <3>1, StillNoGain, Zenon
    <3>2. CASE /\ map.receipts[n] = NoReceipt /\ n \notin map.seen /\ Receipt(n, q)
      <4>1. map'.receipts[m] = NoReceipt => map.receipts[m] = NoReceipt
        BY <3>2, Zenon DEF Receipt
      <4>2. Dead(m) => Dead(m)'
        BY <3>2, Zenon DEF Receipt, Dead
      <4> QED BY <2>1, <4>1, <4>2, Zenon DEF NoGain
    <3> QED BY <2>3, <3>1, <3>2, Zenon
  <2> QED BY <2>1, <2>2, <2>4, FineTask, Zenon
<1>4. ASSUME Ack(t) PROVE Fine(m)
  <2>1. effect'[m] = effect[m] /\ map' = map /\ Same(m)
    BY <1>4, Zenon DEF Ack, Same
  <2>2. NoGain(m) /\ (Dead(m) => Dead(m)')
    BY <2>1, StillNoGain, Zenon
  <2>3. Only(t) /\ task'[t].pc \notin ArmedAt
    <3>1. Entry(task[t].msg, task[t].receipt) \notin ArmedAt
      BY EntryIs DEF ArmedAt
    <3>2. \/ Rests(t)
          \/ Sets(t, Entry(task[t].msg, task[t].receipt), task[t].msg, task[t].receipt)
      BY <1>4, AckIs, Zenon DEF Moves
    <3> QED BY <1>0, <3>1, <3>2, RestIsUnarmed, Zenon
  <2> QED BY <2>1, <2>2, <2>3, FineTask, Zenon
<1> QED BY <1>1, <1>2, <1>3, <1>4, Zenon

(* A claim moves the right from the journal to the task.                   *)
LEMMA ClaimFine ==
    ASSUME Base, NEW t \in Tasks, NEW m \in Msgs, Claim(t)
    PROVE  Fine(m)
<1> DEFINE n == task[t].msg
<1>0. TypeOK
  BY Zenon DEF Base
<1>1. map' = map /\ Same(m) /\ n \in Msgs /\ task[t].pc = "claim"
  BY ClaimIs, Zenon DEF Claim, world, history, Same
<1>2. Dead(m) <=> Dead(m)'
  BY <1>1, Zenon DEF Dead
<1>3. CASE Ends(t) /\ effect' = effect
  <2>1. NoGain(m)
    BY <1>1, <1>3, StillNoGain, Zenon
  <2>2. Only(t) /\ task'[t].pc \notin ArmedAt
    BY <1>0, <1>3, RestIsUnarmed, Zenon
  <2> QED BY <1>1, <1>2, <2>1, <2>2, FineTask, Zenon
<1>4. CASE CanClaim(effect[n]) /\ LeasedTo(n, t) /\ Moves(t, "stale")
  <2>1. NoGain(m)
    <3>1. CASE m = n
      BY <1>4, <3>1 DEF NoGain, CanClaim, Ready
    <3>2. CASE m # n
      <4>1. effect'[m] = effect[m]
        BY <1>4, <3>2, Zenon DEF LeasedTo, Touch
      <4> QED BY <1>1, <4>1, StillNoGain, Zenon
    <3> QED BY <3>1, <3>2, Zenon
  <2>2. Only(t) /\ task'[t].pc \notin ArmedAt
    <3>1. "stale" \notin ArmedAt
      BY DEF ArmedAt
    <3> QED BY <1>0, <1>4, <3>1, RestIsUnarmed, Zenon DEF Moves
  <2> QED BY <1>1, <1>2, <2>1, <2>2, FineTask, Zenon
<1>5. CASE CanClaim(effect[n]) /\ LeasedTo(n, t) /\ Moves(t, "check")
  <2>0. Only(t) /\ task'[t].pc = "check" /\ task'[t].msg = n
    BY <1>5, Zenon DEF Moves, Sets
  <2>1. CASE m = n
    <3>1. Armed(m)' \subseteq Armed(m) \cup {t}
      <4>1. ASSUME NEW u \in Tasks, u # t, Arms(task[u], m)' PROVE Arms(task[u], m)
        BY <1>2, <2>0, <4>1, Zenon DEF Only, Arms
      <4> QED BY <4>1, Zenon DEF Armed
    <3>2. CASE Dead(m)
      <4>1. t \notin Armed(m)'
        BY <1>2, <2>0, <3>2 DEF Armed, Arms
      <4>2. ~Claimable(m)'
        BY <1>2, <3>2, Zenon DEF Claimable
      <4> QED BY <1>1, <3>1, <4>1, <4>2, Zenon DEF Fine, Quiet, Same
    <3>3. CASE ~Dead(m)
      <4>1. Claimable(m)
        BY <1>5, <2>1, <3>3 DEF Claimable, Ready, CanClaim
      <4>2. Checks(m)'
        BY <1>5, <2>0, <2>1, Zenon DEF Checks, LeasedTo
      <4>3. ~Ready(effect'[m])
        BY <1>5, <2>1 DEF LeasedTo, Ready
      <4>4. ~Claimable(m)'
        BY <4>2, <4>3, Zenon DEF Claimable, Ready
      <4> QED BY <1>1, <3>1, <4>1, <4>4, Zenon DEF Fine, Takes, Same
    <3> QED BY <3>2, <3>3, Zenon
  <2>2. CASE m # n
    <3>1. effect'[m] = effect[m]
      BY <1>5, <2>2, Zenon DEF LeasedTo, Touch
    <3>2. NoGain(m)
      BY <1>1, <3>1, StillNoGain, Zenon
    <3>3. Armed(m)' \subseteq Armed(m)
      <4>1. ASSUME NEW u \in Tasks, Arms(task[u], m)' PROVE Arms(task[u], m)
        BY <1>2, <2>0, <2>2, <4>1, Zenon DEF Only, Arms
      <4> QED BY <4>1, Zenon DEF Armed
    <3>4. ASSUME Checks(m) PROVE Checks(m)'
      <4>1. PICK u \in Tasks : effect[m].holder = u /\ task[u].msg = m /\ task[u].pc = "check"
        BY <3>4, Zenon DEF Checks
      <4>2. task'[u] = task[u]
        BY <2>0, <2>2, <4>1, Zenon DEF Only
      <4> QED BY <3>1, <3>4, <4>1, <4>2, Zenon DEF Checks
    <3>5. Claimable(m)' => Claimable(m)
      BY <1>2, <3>2, <3>4, NoGainIs, Zenon
    <3> QED BY <1>1, <3>3, <3>5, Zenon DEF Fine, Quiet, Same
  <2> QED BY <2>1, <2>2, Zenon
<1> QED BY <1>3, <1>4, <1>5, ClaimIs, Zenon

(* A task that checked has a receipt the mapping does not refuse.            *)
LEMMA CurrentAlive ==
    ASSUME NEW m \in Msgs, NEW r \in Asked, EffectCurrent(m, r)
    PROVE  ~Dead(m) /\ map.receipts[m] # NoReceipt
BY SlackAssumption DEF EffectCurrent, Dispatchable, Dead, Asked, NoReceipt

(* A task that finds its message no longer current gives its right up.     *)
LEMMA CheckFine ==
    ASSUME Base, NEW t \in Tasks, NEW m \in Msgs, Check(t)
    PROVE  Fine(m)
<1> DEFINE n == task[t].msg
<1>0. TypeOK /\ TaskOK(task[t])
  BY Zenon DEF Base, TasksOK
<1>1. map' = map /\ Same(m) /\ n \in Msgs /\ effect' = effect /\ task[t].pc = "check"
  BY CheckIs, Zenon DEF Check, world, history, Same
<1>2. Dead(m) <=> Dead(m)'
  BY <1>1, Zenon DEF Dead
<1>3. NoGain(m)
  BY <1>1, StillNoGain, Zenon
<1>4. CASE Moves(t, "stale")
  <2>1. "stale" \notin ArmedAt
    BY DEF ArmedAt
  <2>2. Only(t) /\ task'[t].pc \notin ArmedAt
    BY <1>0, <1>4, <2>1, RestIsUnarmed, Zenon DEF Moves
  <2> QED BY <1>1, <1>2, <1>3, <2>2, FineTask, Zenon
<1>5. CASE EffectCurrent(n, task[t].receipt) /\ Moves(t, "send")
  <2>0. Only(t) /\ task'[t].pc = "send" /\ task'[t].msg = n
    BY <1>5, Zenon DEF Moves, Sets
  <2>1. task[t].receipt \in Asked
    BY <1>0, <1>1, Zenon DEF TaskOK
  <2>2. ~Dead(n) /\ map.receipts[n] # NoReceipt
    BY <1>1, <1>5, <2>1, CurrentAlive, Zenon
  <2>3. Armed(m)' \subseteq Armed(m)
    <3>1. ASSUME NEW u \in Tasks, Arms(task[u], m)' PROVE Arms(task[u], m)
      <4>1. CASE u = t
        BY <1>1, <2>0, <2>2, <3>1, <4>1, Zenon DEF Arms
      <4>2. CASE u # t
        BY <1>2, <2>0, <3>1, <4>2, Zenon DEF Only, Arms
      <4> QED BY <4>1, <4>2, Zenon
    <3> QED BY <3>1, Zenon DEF Armed
  <2>4. Claimable(m)' => Claimable(m)
    <3>1. CASE m = n
      BY <1>1, <1>2, <2>2, <3>1, Zenon DEF Claimable, Ready
    <3>2. CASE m # n
      <4>1. ASSUME Checks(m) PROVE Checks(m)'
        <5>1. PICK u \in Tasks : effect[m].holder = u /\ task[u].msg = m /\ task[u].pc = "check"
          BY <4>1, Zenon DEF Checks
        <5>2. task'[u] = task[u]
          BY <2>0, <3>2, <5>1, Zenon DEF Only
        <5> QED BY <1>1, <4>1, <5>1, <5>2, Zenon DEF Checks
      <4> QED BY <1>2, <1>3, <4>1, NoGainIs, Zenon
    <3> QED BY <3>1, <3>2, Zenon
  <2> QED BY <1>1, <2>3, <2>4, Zenon DEF Fine, Quiet, Same
<1> QED BY <1>4, <1>5, CheckIs, Zenon

(* A send uses up the task's right.                                        *)
LEMMA SendFine ==
    ASSUME Base, NEW t \in Tasks, NEW m \in Msgs, Send(t)
    PROVE  Fine(m)
<1> DEFINE n == task[t].msg
<1>0. TypeOK /\ CountsOK
  BY Zenon DEF Base
<1>1. map' = map /\ n \in Msgs /\ effect' = effect /\ task[t].pc = "send" /\ slips' = slips
  BY SendIs, Zenon DEF Send
<1>2. Dead(m) <=> Dead(m)'
  BY <1>1, Zenon DEF Dead
<1>3. NoGain(m)
  BY <1>1, StillNoGain, Zenon
<1>4. ASSUME NEW u \in Tasks, u # t, Arms(task[u], m)', Only(t) PROVE Arms(task[u], m)
  BY <1>2, <1>4, Zenon DEF Only, Arms
<1>5. ASSUME Only(t) PROVE Claimable(m)' => Claimable(m)
  <2>1. ASSUME Checks(m) PROVE Checks(m)'
    <3>1. PICK u \in Tasks : effect[m].holder = u /\ task[u].msg = m /\ task[u].pc = "check"
      BY <2>1, Zenon DEF Checks
    <3>2. task'[u] = task[u]
      BY <1>1, <1>5, <3>1 DEF Only
    <3> QED BY <1>1, <2>1, <3>1, <3>2, Zenon DEF Checks
  <2> QED BY <1>2, <1>3, <2>1, NoGainIs, Zenon
<1>6. CASE sends' = sends /\ Moves(t, "refused")
  <2>1. Only(t) /\ task'[t].msg = n
    BY <1>6, Zenon DEF Moves, Sets
  <2>2. ASSUME Arms(task[t], m)' PROVE Arms(task[t], m)
    BY <1>1, <2>1, <2>2, Zenon DEF Arms
  <2>3. Armed(m)' \subseteq Armed(m)
    BY <1>4, <2>1, <2>2, Zenon DEF Armed
  <2> QED BY <1>1, <1>5, <1>6, <2>1, <2>3, Zenon DEF Fine, Quiet
<1>7. CASE (Reaches(n) \/ sends' = sends) /\ (Moves(t, "record") \/ Moves(t, "unsure"))
  <2>1. Only(t) /\ task'[t].pc \notin ArmedAt
    <3>1. "record" \notin ArmedAt /\ "unsure" \notin ArmedAt
      BY DEF ArmedAt
    <3> QED BY <1>0, <1>7, <3>1, RestIsUnarmed, Zenon DEF Moves
  <2>2. CASE m = n
    <3>1. t \in Armed(m)
      BY <1>1, <2>2, Zenon DEF Armed, Arms
    <3>2. Armed(m)' \subseteq Armed(m) \ {t}
      <4>1. ~Arms(task[t], m)'
        BY <2>1, Zenon DEF Arms, ArmedAt
      <4> QED BY <1>4, <2>1, <4>1, Zenon DEF Armed
    <3>3. sends'[m] = sends[m] \/ sends'[m] = sends[m] + 1
      BY <1>0, <1>7, <2>2 DEF Reaches, CountsOK
    <3> QED BY <1>1, <1>5, <2>1, <3>1, <3>2, <3>3, Zenon DEF Fine, Spends
  <2>3. CASE m # n
    <3>1. Same(m)
      BY <1>0, <1>1, <1>7, <2>3 DEF Reaches, CountsOK, Same
    <3> QED BY <1>2, <1>3, <2>1, <3>1, FineTask, Zenon
  <2> QED BY <2>2, <2>3, Zenon
<1> QED BY <1>6, <1>7, SendIs, Zenon

(* After a send the receipt is seen; a refused send returns the right, or  *)
(* slips.                                                                  *)
LEMMA RecordFine ==
    ASSUME Base, NEW t \in Tasks, NEW m \in Msgs, Record(t)
    PROVE  Fine(m)
<1> DEFINE n == task[t].msg
<1>0. TypeOK
  BY Zenon DEF Base
<1>1. map' = map /\ Same(m) /\ n \in Msgs
  BY RecordIs, Zenon DEF Record, world, history, Same
<1>2. Dead(m) => Dead(m)'
  BY <1>1, Zenon DEF Dead
<1>3. CASE effect' = effect /\ (Ends(t) \/ Moves(t, "stale"))
  <2>1. "stale" \notin ArmedAt
    BY DEF ArmedAt
  <2>2. Only(t) /\ task'[t].pc \notin ArmedAt
    BY <1>0, <1>3, <2>1, RestIsUnarmed, Zenon DEF Moves
  <2>3. NoGain(m)
    BY <1>1, <1>3, StillNoGain, Zenon
  <2> QED BY <1>1, <1>2, <2>2, <2>3, FineTask, Zenon
<1>4. ASSUME Holds(t, n), NEW s, Becomes(n, s), NEW p, Moves(t, p), p \notin ArmedAt,
             task[t].pc # "check", task[t].pc = "refused" \/ s \in {"terminal", "uncertain"}
      PROVE  Fine(m)
  <2>1. Only(t) /\ task'[t].pc \notin ArmedAt
    BY <1>0, <1>4, RestIsUnarmed, Zenon DEF Moves
  <2>2. t \in Armed(m) \/ NoGain(m)
    <3>1. CASE m # n
      <4>1. effect'[m] = effect[m]
        BY <1>4, <3>1, Zenon DEF Becomes, Touch
      <4> QED BY <1>1, <4>1, StillNoGain, Zenon
    <3>2. CASE m = n /\ task[t].pc = "refused"
      BY <3>2, Zenon DEF Armed, Arms
    <3>3. CASE m = n /\ s \in {"terminal", "uncertain"}
      <4>1. ~Ready(effect'[m])
        BY <1>4, <3>3 DEF Becomes, Ready
      <4>2. ~Checks(m)
        BY <1>4, <3>3, Zenon DEF Checks, Holds
      <4> QED BY <1>1, <4>1, <4>2, Zenon DEF NoGain
    <3> QED BY <1>4, <3>1, <3>2, <3>3, Zenon
  <2> QED BY <1>1, <1>2, <2>1, <2>2, FineTask, Zenon
<1>5. "finish" \notin ArmedAt /\ "release" \notin ArmedAt /\ "finishUncertain" \notin ArmedAt
  BY DEF ArmedAt
<1>6. CASE Holds(t, n) /\ task[t].pc = "record" /\ Becomes(n, "terminal") /\ Moves(t, "finish")
  <2>1. task[t].pc # "check"
    BY <1>6
  <2> QED BY <1>4, <1>5, <1>6, <2>1, Zenon
<1>7. CASE Holds(t, n) /\ task[t].pc = "refused" /\ Becomes(n, "accepted") /\ Moves(t, "release")
  <2>1. task[t].pc # "check"
    BY <1>7
  <2> QED BY <1>4, <1>5, <1>7, <2>1, Zenon
<1>8. CASE /\ Holds(t, n) /\ task[t].pc = "unsure" /\ Becomes(n, "uncertain")
           /\ Moves(t, "finishUncertain")
  <2>1. task[t].pc # "check"
    BY <1>8
  <2> QED BY <1>4, <1>5, <1>8, <2>1, Zenon
<1> QED BY <1>3, <1>6, <1>7, <1>8, RecordIs, Zenon

(* Finishing, releasing and dropping an effect add no right.               *)
LEMMA FinishFine ==
    ASSUME Base, NEW t \in Tasks, NEW m \in Msgs, Finish(t)
    PROVE  Fine(m)
<1> DEFINE n == task[t].msg
           r == task[t].receipt
<1>0. TypeOK /\ CountsOK
  BY Zenon DEF Base
<1>1. effect' = effect /\ sends' = sends /\ n \in Msgs /\ Ends(t)
  BY FinishIs, Zenon DEF Finish
<1>2. Only(t) /\ task'[t].pc \notin ArmedAt
  BY <1>0, <1>1, RestIsUnarmed, Zenon
<1>3. CASE map' = map /\ slips' = slips
  <2>1. NoGain(m) /\ (Dead(m) => Dead(m)') /\ Same(m)
    BY <1>1, <1>3, StillNoGain, Zenon DEF Same
  <2> QED BY <1>2, <2>1, FineTask, Zenon
<1>4. CASE (Closes(n, r, NoReceipt) \/ Closes(n, r, r)) /\ slips' = slips
  <2>0. Same(m)
    BY <1>1, <1>4, Zenon DEF Same
  <2>1. CASE m # n \/ Closes(n, r, r)
    <3>1. map'.receipts[m] = map.receipts[m] /\ map.seen \subseteq map'.seen
          /\ map'.bound = map.bound
      BY <1>4, <2>1, Zenon DEF Closes
    <3>2. NoGain(m) /\ (Dead(m) => Dead(m)')
      BY <1>1, <3>1, Zenon DEF NoGain, Dead
    <3> QED BY <1>2, <2>0, <3>2, FineTask, Zenon
  <2>2. CASE m = n /\ Closes(n, r, NoReceipt)
    <3>1. Dead(m)'
      BY <2>2, Zenon DEF Closes, Dead
    <3>2. ~Claimable(m)'
      BY <3>1, Zenon DEF Claimable
    <3>3. ASSUME NEW u \in Tasks, Arms(task[u], m)' PROVE Arms(task[u], m)
      <4>1. u # t
        BY <1>2, <3>3, Zenon DEF Arms, ArmedAt
      <4> QED BY <1>2, <3>1, <3>3, <4>1, Zenon DEF Only, Arms
    <3>4. Armed(m)' \subseteq Armed(m)
      BY <3>3, Zenon DEF Armed
    <3> QED BY <2>0, <3>2, <3>4, Zenon DEF Fine, Quiet, Same
  <2> QED BY <1>4, <2>1, <2>2, Zenon
<1>5. CASE /\ Receipt(n, NoReceipt)
           /\ (effect[n].state = "accepted" /\ slips' = slips) \/ Slips(n)
  <2>1. Dead(m) => Dead(m)'
    BY <1>5, Zenon DEF Receipt, Dead
  <2>2. CASE m # n
    <3>1. map'.receipts[m] = map.receipts[m]
      BY <1>5, <2>2, Zenon DEF Receipt
    <3>2. NoGain(m)
      BY <1>1, <3>1, Zenon DEF NoGain
    <3>3. Same(m)
      BY <1>0, <1>1, <1>5, <2>2 DEF Same, Slips, CountsOK
    <3> QED BY <1>2, <2>1, <3>2, <3>3, FineTask, Zenon
  <2>3. CASE m = n /\ effect[n].state = "accepted" /\ slips' = slips
    <3>1. NoGain(m) /\ Same(m)
      BY <1>1, <2>3, Zenon DEF NoGain, Ready, Same
    <3> QED BY <1>2, <2>1, <3>1, FineTask, Zenon
  <2>4. CASE m = n /\ Slips(n)
    <3>1. slips'[m] = slips[m] + 1
      BY <1>0, <2>4 DEF Slips, CountsOK
    <3>2. ASSUME NEW u \in Tasks, Arms(task[u], m)' PROVE Arms(task[u], m)
      <4>1. u # t
        BY <1>2, <3>2, Zenon DEF Arms, ArmedAt
      <4> QED BY <1>2, <2>1, <3>2, <4>1, Zenon DEF Only, Arms
    <3>3. Armed(m)' \subseteq Armed(m)
      BY <3>2, Zenon DEF Armed
    <3> QED BY <1>1, <3>1, <3>3, Zenon DEF Fine, Slipped
  <2> QED BY <1>5, <2>2, <2>3, <2>4, Zenon
<1> QED BY <1>3, <1>4, <1>5, FinishIs, Zenon

(* No step of a drain adds a right: it adopts only what a claim must still *)
(* win.                                                                    *)
LEMMA DrainFine ==
    ASSUME Base, NEW t \in Tasks, NEW m \in Msgs,
           Stale(t) \/ Walk(t) \/ List(t) \/ Adopt(t) \/ DrainEnds(t)
    PROVE  Fine(m)
<1>0. TypeOK
  BY Zenon DEF Base
<1>a. {"stale", "final", "claim", "walk", "list"} \cap ArmedAt = {}
  BY DEF ArmedAt
<1>1. ASSUME Stale(t) PROVE Fine(m)
  <2>1. Same(m) /\ map' = map /\ task[t].msg \in Msgs /\ Drops(task[t].msg)
    BY <1>1, StaleIs, Zenon DEF Stale, Terminalize, Same
  <2>2. Only(t) /\ task'[t].pc \notin ArmedAt
    BY <1>0, <1>1, <1>a, StaleIs, RestIsUnarmed DEF Moves
  <2>3. NoGain(m) /\ (Dead(m) => Dead(m)')
    BY <2>1, DropsNoGain, Zenon
  <2> QED BY <2>1, <2>2, <2>3, FineTask, Zenon
<1>2. ASSUME Walk(t) \/ List(t) \/ DrainEnds(t) PROVE Fine(m)
  <2>1. effect'[m] = effect[m] /\ map' = map /\ Same(m)
    BY <1>2, Zenon DEF Walk, List, DrainEnds, world, history, Same
  <2>2. NoGain(m) /\ (Dead(m) => Dead(m)')
    BY <2>1, StillNoGain, Zenon
  <2>3. Only(t) /\ task'[t].pc \notin ArmedAt
    <3>1. CASE Walk(t)
      <4>1. PICK r \in task[t].walk : Walked(t, r)
        BY <3>1, WalkIs, Zenon
      <4>2. Entry(r[1], r[2]) \notin ArmedAt
        BY <1>a, EntryIs
      <4>3. \E p, n, q : Sets(t, p, n, q) /\ p \notin ArmedAt
        BY <1>a, <4>1, <4>2, Zenon DEF Walked
      <4> QED BY <1>0, <4>3, RestIsUnarmed, Zenon
    <3>2. CASE List(t)
      BY <1>a, <3>2, ListIs
    <3>3. CASE DrainEnds(t)
      BY <1>0, <3>3, DrainEndsIs, RestIsUnarmed, Zenon
    <3> QED BY <1>2, <3>1, <3>2, <3>3, Zenon
  <2> QED BY <2>1, <2>2, <2>3, FineTask, Zenon
<1>3. ASSUME Adopt(t) PROVE Fine(m)
  <2>1. Same(m)
    BY <1>3, Zenon DEF Adopt, Terminalize, history, Same
  <2>2. PICK o \in task[t].list : o \in Msgs \X BOOLEAN /\ Adopted(t, o)
    BY <1>3, AdoptIs, Zenon
  <2> DEFINE n == o[1]
  <2>3. n \in Msgs
    BY <2>2
  <2>4. Only(t) /\ task'[t].pc \notin ArmedAt
    <3>1. Entry(n, effect[n].question) \notin ArmedAt
      BY <1>a, EntryIs
    <3>2. \E p, k, q : Sets(t, p, k, q) /\ p \notin ArmedAt
      BY <1>a, <2>2, <3>1, Zenon DEF Adopted, Goes
    <3> QED BY <1>0, <3>2, RestIsUnarmed, Zenon
  <2>5. NoGain(m) /\ (Dead(m) => Dead(m)')
    <3>1. CASE Drops(n) /\ map' = map
      BY <2>3, <3>1, DropsNoGain, Zenon
    <3>2. CASE Adoptable(n) /\ Receipt(n, effect[n].question) /\ effect' = effect
      <4>1. map'.receipts[m] = NoReceipt => map.receipts[m] = NoReceipt
        BY <3>2, Zenon DEF Adoptable, Receipt
      <4>2. Dead(m) => Dead(m)'
        BY <3>2, Zenon DEF Adoptable, Receipt, Dead
      <4> QED BY <3>2, <4>1, <4>2, Zenon DEF NoGain
    <3> QED BY <2>2, <3>1, <3>2, Zenon DEF Adopted
  <2> QED BY <2>1, <2>4, <2>5, FineTask, Zenon
<1> QED BY <1>1, <1>2, <1>3, Zenon

(* Renewals, pruning and crashes add no right; a lapse adds one and is     *)
(* counted.                                                                *)
LEMMA LifeFine ==
    ASSUME Base, NEW m \in Msgs,
           \/ \E t \in Tasks : Renew(t) \/ TimerFires(t) \/ Start(t)
           \/ \E n \in Msgs : LeaseExpires(n) \/ LeaseExpiresHeld(n) \/ Prune(n)
           \/ Outside \/ Crash
    PROVE  Fine(m)
<1>0. TypeOK /\ CountsOK
  BY Zenon DEF Base
<1>1. ASSUME NEW t \in Tasks, Renew(t) PROVE Fine(m)
  <2> DEFINE n == task[t].msg
  <2>1. Same(m) /\ map' = map /\ task' = task
    BY <1>1, Zenon DEF Renew, world, history, Same
  <2>2. n \in Msgs /\ Lapsed(n, FALSE) /\ Holds(t, n) /\ effect[n].lapsed
    BY <1>1, RenewIs, Zenon
  <2>3. NoGain(m)
    <3>1. CASE m = n
      BY <2>2, <3>1, Zenon DEF NoGain, Ready, Holds
    <3>2. CASE m # n
      <4>1. effect'[m] = effect[m]
        BY <2>2, <3>2, Zenon DEF Lapsed, Touch
      <4> QED BY <2>1, <4>1, StillNoGain, Zenon
    <3> QED BY <3>1, <3>2, Zenon
  <2>4. Dead(m) => Dead(m)'
    BY <2>1, Zenon DEF Dead
  <2> QED BY <2>1, <2>3, <2>4, FineStill, Zenon
<1>2. ASSUME NEW t \in Tasks, TimerFires(t) \/ Start(t) PROVE Fine(m)
  <2>1. effect'[m] = effect[m] /\ map' = map /\ Same(m)
    BY <1>2, Zenon DEF TimerFires, Start, world, history, Same
  <2>2. NoGain(m) /\ (Dead(m) => Dead(m)')
    BY <2>1, StillNoGain, Zenon
  <2>3. CASE task' = task
    BY <2>1, <2>2, <2>3, FineStill, Zenon
  <2>4. CASE Begins(t, "start") \/ Begins(t, "recover")
    <3>1. Only(t) /\ task'[t].pc \notin ArmedAt
      BY <1>0, <2>4, RestIsUnarmed, Zenon
    <3> QED BY <2>1, <2>2, <3>1, FineTask, Zenon
  <2> QED BY <1>2, <2>3, <2>4, TimerFiresIs, StartIs, Zenon
<1>3. ASSUME NEW n \in Msgs, LeaseExpires(n) \/ LeaseExpiresHeld(n) PROVE Fine(m)
  <2>1. Lapses(n)
    BY <1>3, Zenon DEF LeaseExpires, LeaseExpiresHeld
  <2>2. Lapsed(n, TRUE) /\ Slips(n) /\ task' = task /\ map' = map
    BY <2>1, LapsesIs, Zenon
  <2>3. sends' = sends
    BY <2>1, Zenon DEF Lapses
  <2>4. Dead(m) <=> Dead(m)'
    BY <2>2, Zenon DEF Dead
  <2>5. CASE m = n
    <3>1. slips'[m] = slips[m] + 1
      BY <1>0, <2>2, <2>5 DEF Slips, CountsOK
    <3>2. Armed(m)' \subseteq Armed(m)
      BY <2>2, <2>4, Zenon DEF Armed, Arms
    <3> QED BY <2>3, <3>1, <3>2, Zenon DEF Fine, Slipped
  <2>6. CASE m # n
    <3>1. effect'[m] = effect[m]
      BY <2>2, <2>6, Zenon DEF Lapsed, Touch
    <3>2. NoGain(m)
      BY <2>2, <3>1, StillNoGain, Zenon
    <3>3. Same(m)
      BY <1>0, <2>2, <2>3, <2>6 DEF Same, Slips, CountsOK
    <3> QED BY <2>2, <2>4, <3>2, <3>3, FineStill, Zenon
  <2> QED BY <2>5, <2>6, Zenon
<1>4. ASSUME NEW n \in Msgs, Prune(n) PROVE Fine(m)
  <2>1. Same(m) /\ map' = map /\ task' = task
    BY <1>4, Zenon DEF Prune, Same
  <2>2. /\ effect[n].state = "terminal" /\ map.receipts[n] = NoReceipt
        /\ Touch(n) /\ effect'[n].state = "none"
    BY <1>4, PruneIs, Zenon
  <2>3. Dead(m) <=> Dead(m)'
    BY <2>1, Zenon DEF Dead
  <2>4. CASE m # n
    <3>1. effect'[m] = effect[m]
      BY <2>2, <2>4, Zenon DEF Touch
    <3>2. NoGain(m)
      BY <2>1, <3>1, StillNoGain, Zenon
    <3> QED BY <2>1, <2>3, <3>2, FineStill, Zenon
  <2>5. CASE m = n
    <3>1. ~Checks(m)
      BY <2>2, <2>5 DEF Checks
    <3>2. Claimable(m)' => Claimable(m)
      BY <2>2, <2>3, <2>5, <3>1, Zenon DEF Claimable
    <3>3. Armed(m)' \subseteq Armed(m)
      BY <2>1, <2>3, Zenon DEF Armed, Arms
    <3> QED BY <2>1, <3>2, <3>3, Zenon DEF Fine, Quiet, Same
  <2> QED BY <2>4, <2>5, Zenon
<1>5. ASSUME Outside PROVE Fine(m)
  <2>1. effect' = effect /\ task' = task /\ Same(m)
    BY <1>5, OutsideIs, Zenon DEF Same
  <2>2. map'.receipts = map.receipts /\ map'.seen = map.seen /\ (map'.bound => map.bound)
    BY <1>0, <1>5, OutsideMap, Zenon DEF Turns
  <2>3. NoGain(m) /\ (Dead(m) => Dead(m)')
    BY <2>1, <2>2, Zenon DEF NoGain, Dead
  <2> QED BY <2>1, <2>3, FineStill, Zenon
<1>6. ASSUME Crash PROVE Fine(m)
  <2>1. map' = map /\ Same(m)
    BY <1>6, Zenon DEF Crash, history, Same
  <2>2. Dead(m) <=> Dead(m)'
    BY <2>1, Zenon DEF Dead
  <2>3. Armed(m)' = {}
    <3>1. \A t \in Tasks : task'[t].pc = "idle"
      BY <1>6, CrashIs, RestIs, Zenon
    <3> QED BY <3>1 DEF Armed, Arms
  <2>4. CASE Armed(m) # {}
    <3>1. PICK t \in Tasks : t \in Armed(m)
      BY <2>4, Zenon DEF Armed
    <3> QED BY <2>1, <2>3, <3>1, Zenon DEF Fine, Spends, Same
  <2>5. CASE Armed(m) = {}
    <3>1. Checks(m) => Dead(m)
      BY <2>5, Zenon DEF Checks, Armed, Arms
    <3>2. Ready(effect'[m]) = Ready(effect[m])
      BY <1>6, CrashIs DEF Ready
    <3>3. Claimable(m)' => Claimable(m)
      BY <2>1, <2>2, <3>1, <3>2 DEF Claimable, Ready
    <3> QED BY <2>1, <2>3, <3>3, Zenon DEF Fine, Quiet, Same
  <2> QED BY <2>4, <2>5, Zenon
<1> QED BY <1>1, <1>2, <1>3, <1>4, <1>5, <1>6, Zenon

(* Every step of the daemon treats the rights of every message fairly.     *)
LEMMA AllFine ==
    ASSUME Base, [Next]_vars, NEW m \in Msgs
    PROVE  Fine(m)
<1>1. CASE UNCHANGED vars
  <2>1. effect' = effect /\ map' = map /\ task' = task /\ Same(m)
    BY <1>1, Zenon DEF vars, Same
  <2>2. NoGain(m) /\ (Dead(m) => Dead(m)')
    BY <2>1, StillNoGain, Zenon
  <2> QED BY <2>1, <2>2, FineStill, Zenon
<1>2. CASE Next
  <2>1. \/ \E t \in Tasks :
             \/ (\E n \in Msgs : Receive(t, n)) \/ Enqueue(t) \/ Accept(t) \/ Ack(t)
             \/ Claim(t) \/ Check(t) \/ Send(t) \/ Record(t) \/ Finish(t) \/ Stale(t)
             \/ Walk(t) \/ List(t) \/ Adopt(t) \/ DrainEnds(t)
        \/ \E t \in Tasks : Renew(t) \/ TimerFires(t) \/ Start(t)
        \/ \E n \in Msgs : LeaseExpires(n) \/ LeaseExpiresHeld(n) \/ Prune(n)
        \/ Outside \/ Crash
    BY <1>2, ZenonT(30) DEF Next, Step, Outside
  <2> QED BY <2>1, HandlerFine, ClaimFine, CheckFine, SendFine, RecordFine, FinishFine,
             DrainFine, LifeFine, Zenon
<1> QED BY <1>1, <1>2, Zenon

-----------------------------------------------------------------------------

INSTANCE FiniteSetTheorems

(* A step that treats the rights fairly keeps the budget.                  *)
LEMMA FineBudget ==
    ASSUME NEW m \in Msgs, CountsOK, BudgetOf(m), Fine(m)
    PROVE  BudgetOf(m)'
<1> DEFINE A == Armed(m)
<1> DEFINE B == Armed(m)'
<1> DEFINE c == IF Claimable(m) THEN 1 ELSE 0
<1> DEFINE d == IF Claimable(m)' THEN 1 ELSE 0
<1>1. IsFiniteSet(A) /\ Cardinality(A) \in Nat
  BY FS_CardinalityType, Zenon DEF BudgetOf
<1>2. sends[m] + Cardinality(A) + c <= 1 + slips[m]
  BY Zenon DEF BudgetOf
<1>3. sends[m] \in Nat /\ slips[m] \in Nat
  BY DEF CountsOK
<1>4. c \in {0, 1} /\ d \in {0, 1}
  OBVIOUS
<1>5. SUFFICES /\ IsFiniteSet(B)
               /\ sends'[m] + Cardinality(B) + d <= 1 + slips'[m]
  BY Zenon DEF BudgetOf
<1>6. ASSUME B \subseteq A
      PROVE  IsFiniteSet(B) /\ Cardinality(B) \in Nat /\ Cardinality(B) <= Cardinality(A)
  BY <1>1, <1>6, FS_Subset, FS_CardinalityType, Zenon
<1>7. CASE Quiet(m)
  <2>1. B \subseteq A /\ sends'[m] = sends[m] /\ slips'[m] = slips[m]
    BY <1>7, Zenon DEF Quiet
  <2>2. d <= c
    BY <1>7 DEF Quiet
  <2> HIDE DEF A, B, c, d
  <2> QED BY <1>1, <1>2, <1>3, <1>4, <1>6, <2>1, <2>2
<1>8. CASE Slipped(m)
  <2>1. B \subseteq A /\ sends'[m] = sends[m] /\ slips'[m] = slips[m] + 1
    BY <1>8, Zenon DEF Slipped
  <2> HIDE DEF A, B, c, d
  <2> QED BY <1>1, <1>2, <1>3, <1>4, <1>6, <2>1
<1>9. ASSUME NEW t \in Tasks, Spends(m, t)
      PROVE  IsFiniteSet(B) /\ sends'[m] + Cardinality(B) + d <= 1 + slips'[m]
  <2>1. /\ t \in A /\ B \subseteq A \ {t} /\ slips'[m] = slips[m]
        /\ \/ sends'[m] = sends[m]
           \/ sends'[m] = sends[m] + 1 /\ (Claimable(m)' => Claimable(m))
    BY <1>9, Zenon DEF Spends
  <2>2. sends'[m] = sends[m] \/ (sends'[m] = sends[m] + 1 /\ d <= c)
    BY <2>1
  <2> HIDE DEF A, B, c, d
  <2>3. IsFiniteSet(A \ {t}) /\ Cardinality(A \ {t}) = Cardinality(A) - 1
    BY <1>1, <2>1, FS_RemoveElement
  <2>4. IsFiniteSet(B) /\ Cardinality(B) \in Nat /\ Cardinality(B) <= Cardinality(A \ {t})
    BY <2>1, <2>3, FS_Subset, FS_CardinalityType, Zenon
  <2> QED BY <1>1, <1>2, <1>3, <1>4, <2>1, <2>2, <2>3, <2>4
<1>10. ASSUME NEW t \in Tasks, Takes(m, t)
       PROVE  IsFiniteSet(B) /\ sends'[m] + Cardinality(B) + d <= 1 + slips'[m]
  <2>1. B \subseteq A \cup {t} /\ sends'[m] = sends[m] /\ slips'[m] = slips[m]
    BY <1>10, Zenon DEF Takes
  <2>2. c = 1 /\ d = 0
    BY <1>10 DEF Takes
  <2> HIDE DEF A, B, c, d
  <2>3. /\ IsFiniteSet(A \cup {t}) /\ Cardinality(A \cup {t}) \in Nat
        /\ Cardinality(A \cup {t}) = Cardinality(A) \/ Cardinality(A \cup {t}) = Cardinality(A) + 1
    BY <1>1, FS_AddElement, FS_CardinalityType
  <2>4. IsFiniteSet(B) /\ Cardinality(B) \in Nat /\ Cardinality(B) <= Cardinality(A \cup {t})
    BY <2>1, <2>3, FS_Subset, FS_CardinalityType, Zenon
  <2> QED BY <1>1, <1>2, <1>3, <2>1, <2>2, <2>3, <2>4
<1> QED BY <1>7, <1>8, <1>9, <1>10, Zenon DEF Fine

(* At the start the journal has the one right, and nothing is sent.        *)
LEMMA BudgetInit == Init => Budget
<1> SUFFICES ASSUME Init, NEW m \in Msgs PROVE BudgetOf(m)
  BY Zenon DEF Budget
<1>1. Armed(m) = {}
  <2>1. \A t \in Tasks : task[t].pc = "idle"
    BY RestIs, Zenon DEF Init
  <2> QED BY <2>1 DEF Armed, Arms
<1>2. IsFiniteSet(Armed(m)) /\ Cardinality(Armed(m)) = 0
  BY <1>1, FS_EmptySet
<1>3. sends[m] = 0 /\ slips[m] = 0
  BY DEF Init
<1> QED BY <1>2, <1>3 DEF BudgetOf

(* Every step keeps the budget.                                            *)
LEMMA BudgetStep == Base /\ Budget /\ [Next]_vars => Budget'
<1> SUFFICES ASSUME Base, Budget, [Next]_vars, NEW m \in Msgs PROVE BudgetOf(m)'
  BY Zenon DEF Budget
<1> QED BY AllFine, FineBudget, Zenon DEF Base, Budget

(* Within the budget no message is sent again without a slip.              *)
LEMMA BudgetEnough == Base /\ Budget => ResentOnlyAfterSlip
<1> SUFFICES ASSUME CountsOK, Budget, NEW m \in Msgs PROVE sends[m] <= 1 + slips[m]
  BY Zenon DEF ResentOnlyAfterSlip, Base
<1>1. sends[m] \in Nat /\ slips[m] \in Nat
  BY DEF CountsOK
<1>2. Cardinality(Armed(m)) \in Nat
  BY FS_CardinalityType, Zenon DEF Budget, BudgetOf
<1> DEFINE k == Cardinality(Armed(m))
<1>3. sends[m] + k + (IF Claimable(m) THEN 1 ELSE 0) <= 1 + slips[m]
  BY Zenon DEF Budget, BudgetOf
<1> HIDE DEF k
<1> QED BY <1>1, <1>2, <1>3 DEF k

(* For any number of tasks, messages, questions, deliveries and faults: a  *)
(* message reaches the session once, and once more only for every lease on *)
(* its effect that lapsed or receipt released under another task's hands.  *)
(* Redelivered envelopes, drains next to handlers, crashes and sends of    *)
(* unknown outcome never make the daemon send it again.                    *)
THEOREM ResentOnlyAfterSlipAlways == Spec => []ResentOnlyAfterSlip
<1>1. Spec => []Base
  BY BaseAlways
<1>2. Base /\ Budget /\ [Next]_vars => Budget'
  BY BudgetStep, Zenon
<1>3. Base /\ Budget => ResentOnlyAfterSlip
  BY BudgetEnough, Zenon
<1> QED BY <1>1, <1>2, <1>3, BudgetInit, PTL DEF Spec
=============================================================================
