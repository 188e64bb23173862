---------------------------- MODULE SlackInbound ----------------------------
(***************************************************************************)
(* How the Slack daemon carries a message a person writes in a session's   *)
(* Slack thread to that session: sdk/bus/slack-daemon.ts (handleEnvelope,  *)
(* the dispatch of an inbound effect, the recovery drain, start and stop)  *)
(* over sdk/bus/chat-effect-journal.ts.                                    *)
(*                                                                         *)
(* Two files hold the durable state: the journal, with one effect per      *)
(* message (`effect'), and the conversation mapping, with the receipts of  *)
(* the messages under way and the keys of those done with (`map').  Every  *)
(* transaction on one of them is one step; anything may happen in between. *)
(* All messages belong to one thread, the one whose root the mapping had   *)
(* at the start; `map.bound' says that the mapping is still active with    *)
(* that root and endpoint generation, and `endpoint' that the session      *)
(* endpoint of that generation is attached.                                *)
(***************************************************************************)
EXTENDS Naturals

CONSTANTS
    Msgs,           \* messages of the thread
    Commands,       \* those that start with "/sdk "; the others are replies
    Actions,        \* questions of the session that a reply may answer
    NoAction,       \* no pendingActionId
    Tasks,          \* asynchronous activities of the daemon
    NoTask,
    MaxDeliveries,  \* bound: envelopes Slack sends for one message
    MaxFaults       \* bound: failed sends and acknowledgements, leases that lapse
                    \* while their holder lives, stops and crashes of the daemon,
                    \* endpoints detached, roots closed, all together

ASSUME SlackAssumption ==
    /\ Commands \subseteq Msgs
    /\ {NoAction, "command", "none"} \cap Actions = {}
    /\ NoTask \notin Tasks
    /\ {MaxDeliveries, MaxFaults} \subseteq Nat

VARIABLES
    effect,     \* effects.json: state, holder and expiry of the lease, question
    map,        \* the conversation record: bound, pending, receipts, seen
    endpoint,   \* resolveEndpoint finds the endpoint of the thread's generation
    daemon,     \* "down", "starting", "up" or "stopping"
    timer,      \* #leaseRecoveryTimer is set
    inflight,   \* #inflightInbound
    task,       \* where each asynchronous activity is
    left,       \* bounds: what may still happen
    acked,      \* history: claimed messages whose envelope was acknowledged,
                \* until their effect is pruned
    sends,      \* history: how often a message reached the session
    slips,      \* history: leases on its effect that lapsed, receipts released late
    moved,      \* history: questions that stopped being the pending one
    lost,       \* history: the endpoint or the binding went away at some time
    spared      \* history: messages whose leased effect was not terminalized

vars == <<effect, map, endpoint, daemon, timer, inflight, task, left,
          acked, sends, slips, moved, lost, spared>>
history == <<acked, sends, slips, moved, lost, spared>>
world == <<endpoint, daemon, left, history>>

-----------------------------------------------------------------------------
(* The journal. *)

Open(e) == e.state \in {"pending", "accepted", "leased"}

(* Mutant: an uncertain inbound effect may be claimed as well, as those of   *)
(* the provider are.                                                         *)
CanClaimUncertain(e) ==
    \/ e.state \in {"pending", "accepted", "uncertain"}
    \/ e.state = "leased" /\ e.lapsed

(* canClaim, for effects whose kind is sdk.inbound.*                         *)
CanClaim(e) ==
    \/ e.state \in {"pending", "accepted"}
    \/ e.state = "leased" /\ e.lapsed

Leased(e, t) == [e EXCEPT !.state = "leased", !.holder = t, !.lapsed = FALSE]
Freed(e, s) == [e EXCEPT !.state = s, !.holder = NoTask, !.lapsed = FALSE]

(* The lease a task was given is still the one in the journal (same owner    *)
(* and epoch), lapsed or not.                                                *)
Holds(t, m) == effect[m].state = "leased" /\ effect[m].holder = t

(* terminalize without a lease: never touches an effect that is leased.      *)
Terminalize(m) ==
    /\ effect' = IF effect[m].state \in {"pending", "accepted", "uncertain"}
                 THEN [effect EXCEPT ![m] = Freed(@, "terminal")] ELSE effect
    /\ spared' = IF effect[m].state = "leased" THEN spared \cup {m} ELSE spared
    /\ UNCHANGED <<acked, sends, slips, moved, lost>>

(* Mutant: the recovery is scheduled for leases only. *)
ScheduledLeased(e) ==
    /\ daemon \in {"starting", "up"}
    /\ \E m \in Msgs : e[m].state = "leased"

(* #scheduleLeaseRecoveryNow: whether a recovery timer is left set when the  *)
(* journal is e.                                                             *)
Scheduled(e) ==
    /\ daemon \in {"starting", "up"}
    /\ \E m \in Msgs : Open(e[m])

-----------------------------------------------------------------------------
(* The mapping. *)

NoReceipt == "none"

(* What a message asks or answers while `pending' is the pending action.     *)
Question(m, pending) == IF m \in Commands THEN "command" ELSE pending

(* #completeInboundDispatch under the lookup of its callers: the receipt     *)
(* must still be there, the same.                                            *)
Complete(m, receipt, terminal) ==
    IF map.receipts[m] # receipt THEN map
    ELSE [map EXCEPT !.pending = IF @ = receipt THEN NoAction ELSE @,
                     !.seen = @ \cup {m},
                     !.receipts[m] = IF terminal THEN NoReceipt ELSE @]

(* Questions that a change of the mapping takes the pending place from.      *)
Moved(new) == moved \cup ({map.pending} \ {new.pending, NoAction})

(* #mappedInboundDispatchable *)
Dispatchable(m, receipt) ==
    map.bound /\ effect[m].state # "none" /\ effect[m].question = receipt

(* #inboundEffectCurrent *)
EffectCurrent(m, receipt) ==
    endpoint /\ Dispatchable(m, receipt) /\ map.receipts[m] = receipt

-----------------------------------------------------------------------------
(* Tasks.  A task handles one envelope, or walks the receipts (`walk') and   *)
(* then the journal (`list') in a drain: the one of start() or one that the  *)
(* recovery timer began.                                                     *)

Rest == [pc |-> "idle", back |-> "idle", drain |-> "no", msg |-> NoTask,
         receipt |-> NoReceipt, mine |-> FALSE, walk |-> {}, list |-> {}, got |-> {}]

At(t, pc) == task[t].pc = pc
Goto(t, pc) == task' = [task EXCEPT ![t].pc = pc]

Init ==
    /\ effect = [m \in Msgs |-> [state |-> "none", holder |-> NoTask,
                                 lapsed |-> FALSE, question |-> NoReceipt]]
    /\ map = [bound |-> TRUE, pending |-> NoAction,
              receipts |-> [m \in Msgs |-> NoReceipt], seen |-> {}]
    /\ endpoint = TRUE
    /\ daemon = "up"
    /\ timer = FALSE
    /\ inflight = {}
    /\ task = [t \in Tasks |-> Rest]
    /\ left = [deliveries |-> [m \in Msgs |-> MaxDeliveries],
               faults |-> MaxFaults, asked |-> {}]
    /\ acked = {}
    /\ sends = [m \in Msgs |-> 0]
    /\ slips = [m \in Msgs |-> 0]
    /\ moved = {}
    /\ lost = FALSE
    /\ spared = {}

-----------------------------------------------------------------------------
(* handleEnvelope *)

(* An envelope arrives, new or sent again; claimInbound reads the mapping.   *)
(* A message the mapping does not accept is acknowledged and ignored.        *)
Receive(t, m) ==
    /\ daemon = "up" /\ At(t, "idle")
    /\ left.deliveries[m] > 0
    /\ left' = [left EXCEPT !.deliveries[m] = @ - 1]
    /\ task' = IF map.bound
               THEN [task EXCEPT ![t] = [Rest EXCEPT !.pc = "enqueue",
                         !.msg = m, !.receipt = Question(m, map.pending)]]
               ELSE task
    /\ UNCHANGED <<effect, map, endpoint, daemon, timer, inflight, history>>

(* The effect is put in the journal unless it is there already; a reply is   *)
(* ignored when no question was pending.                                     *)
Enqueue(t) ==
    LET m == task[t].msg
        asked == task[t].receipt
    IN  /\ At(t, "enqueue")
        /\ \/ /\ ~endpoint \/ (effect[m].state = "none" /\ asked = NoAction)
              /\ task' = [task EXCEPT ![t] = Rest]
              /\ UNCHANGED <<effect, timer>>
           \/ /\ endpoint /\ (effect[m].state # "none" \/ asked # NoAction)
              /\ effect' = IF effect[m].state # "none" THEN effect
                           ELSE [effect EXCEPT ![m] = [Freed(@, "pending") EXCEPT
                                                          !.question = asked]]
              /\ timer' = Scheduled(effect')
              /\ task' = [task EXCEPT ![t].pc = "accept", ![t].receipt = NoReceipt]
        /\ UNCHANGED <<map, inflight, world>>

(* The mapping takes the receipt: one that is there is used again, a message *)
(* seen before is not claimed.  The question is the one pending now.         *)
Accept(t) ==
    LET m == task[t].msg
        q == Question(m, map.pending)
        known == map.receipts[m] # NoReceipt
        new == m \notin map.seen /\ q # NoAction
    IN  /\ At(t, "accept")
        /\ \/ /\ map.bound /\ (known \/ new)
              /\ map' = IF known THEN map ELSE [map EXCEPT !.receipts[m] = q]
              /\ task' = [task EXCEPT ![t].pc = "ack", ![t].receipt = map'.receipts[m]]
           \/ /\ ~map.bound \/ ~(known \/ new)
              /\ task' = [task EXCEPT ![t] = Rest]
              /\ UNCHANGED map
        /\ UNCHANGED <<effect, timer, inflight, world>>

(* Where #dispatchInbound goes from the mapping and the effect it reads.     *)
Entry(m, receipt) ==
    CASE effect[m].state = "terminal" -> "final"
      [] effect[m].state # "terminal" /\ Dispatchable(m, receipt) -> "claim"
      [] OTHER -> "stale"

(* The envelope is acknowledged, and the message dispatched unless another   *)
(* task has it in hand.  An acknowledgement that fails ends the handler.     *)
(* The read with which the dispatch begins is part of the step: the          *)
(* acknowledgement touches nothing that it reads.                            *)
Ack(t) ==
    LET m == task[t].msg
    IN  /\ At(t, "ack")
        /\ \/ /\ acked' = acked \cup {m}
              /\ IF m \in inflight
                 THEN task' = [task EXCEPT ![t] = Rest] /\ UNCHANGED inflight
                 ELSE /\ task' = [task EXCEPT ![t].pc = Entry(m, task[t].receipt),
                                              ![t].mine = TRUE]
                      /\ inflight' = inflight \cup {m}
              /\ UNCHANGED <<timer, left>>
           \/ /\ left.faults > 0 /\ m \notin inflight
              /\ left' = [left EXCEPT !.faults = @ - 1]
              /\ timer' = Scheduled(effect)
              /\ task' = [task EXCEPT ![t] = Rest]
              /\ UNCHANGED <<inflight, acked>>
        /\ UNCHANGED <<effect, map, endpoint, daemon, sends, slips, moved, lost, spared>>

-----------------------------------------------------------------------------
(* #dispatchInbound and #dispatchEffect.  When a dispatch is over a handler  *)
(* ends and a drain goes on with what it has left.                           *)

Back(t) ==
    /\ task' = IF task[t].back = "idle" THEN [task EXCEPT ![t] = Rest]
               ELSE [task EXCEPT ![t].pc = task[t].back, ![t].msg = NoTask,
                                 ![t].receipt = NoReceipt, ![t].mine = FALSE]
    /\ inflight' = IF task[t].mine THEN inflight \ {task[t].msg} ELSE inflight

(* A handler schedules the recovery as it ends. *)
Ended(t, e) == timer' = IF task[t].back = "idle" THEN Scheduled(e) ELSE timer

(* journal.claim *)
Claim(t) ==
    LET m == task[t].msg
    IN  /\ At(t, "claim")
        /\ IF CanClaim(effect[m])
           THEN /\ effect' = [effect EXCEPT ![m] = Leased(@, t)]
                /\ Goto(t, IF effect[m].question = task[t].receipt THEN "check" ELSE "stale")
                /\ UNCHANGED inflight
           ELSE Back(t) /\ UNCHANGED effect
        /\ timer' = Scheduled(effect')
        /\ UNCHANGED <<map, world>>

Check(t) ==
    /\ At(t, "check")
    /\ Goto(t, IF EffectCurrent(task[t].msg, task[t].receipt) THEN "send" ELSE "stale")
    /\ UNCHANGED <<effect, map, timer, inflight, world>>

(* onCommand or the client's send: the message reaches the session; or it    *)
(* fails before it was sent, as it must when the endpoint is gone; or it     *)
(* fails and nobody knows.  A renewal that found the lease taken makes a     *)
(* send that succeeded one of the last kind.                                 *)
Send(t) ==
    LET m == task[t].msg
        reach == sends' = [sends EXCEPT ![m] = @ + 1]
        fail == left.faults > 0 /\ left' = [left EXCEPT !.faults = @ - 1]
    IN  /\ At(t, "send")
        /\ \/ endpoint /\ reach /\ Goto(t, "record") /\ UNCHANGED left
           \/ endpoint /\ ~Holds(t, m) /\ reach /\ Goto(t, "unsure") /\ UNCHANGED left
           \/ ~endpoint /\ Goto(t, "refused") /\ UNCHANGED <<sends, left>>
           \/ endpoint /\ fail /\ Goto(t, "refused") /\ UNCHANGED sends
           \/ endpoint /\ fail /\ Goto(t, "unsure") /\ (reach \/ UNCHANGED sends)
        /\ UNCHANGED <<effect, map, endpoint, daemon, timer, inflight,
                       acked, slips, moved, lost, spared>>

(* The renewal timer of #withEffectLease, while the send is under way.       *)
Renew(t) ==
    LET m == task[t].msg
    IN  /\ At(t, "send") /\ Holds(t, m) /\ effect[m].lapsed
        /\ effect' = [effect EXCEPT ![m].lapsed = FALSE]
        /\ timer' = Scheduled(effect')
        /\ UNCHANGED <<map, inflight, task, world>>

(* journal.record: nothing is recorded under a lease that was taken over.    *)
(* After a send the binding is looked at once more.                          *)
Record(t) ==
    LET m == task[t].msg
        to(s, pc) == IF Holds(t, m)
                     THEN effect' = [effect EXCEPT ![m] = Freed(@, s)]
                          /\ Goto(t, pc) /\ UNCHANGED inflight
                     ELSE Back(t) /\ UNCHANGED effect
    IN  /\ \/ At(t, "record") /\ EffectCurrent(m, task[t].receipt)
              /\ to("terminal", "finish")
              /\ IF Holds(t, m) THEN UNCHANGED timer ELSE Ended(t, effect)
           \/ At(t, "record") /\ ~EffectCurrent(m, task[t].receipt)
              /\ Goto(t, "stale") /\ UNCHANGED <<effect, timer, inflight>>
           \/ At(t, "refused") /\ to("accepted", "release") /\ timer' = Scheduled(effect')
           \/ At(t, "unsure") /\ to("uncertain", "finishUncertain")
              /\ timer' = Scheduled(effect')
        /\ UNCHANGED <<map, world>>

(* #finishDispatch, #releaseDispatch and #finalizeTerminalInboundDispatch:   *)
(* the transaction on the mapping that ends a dispatch.                      *)
Finish(t) ==
    LET m == task[t].msg
        r == task[t].receipt
    IN  /\ \/ At(t, "finish") /\ map' = IF map.bound THEN Complete(m, r, TRUE) ELSE map
           \/ At(t, "finishUncertain")
              /\ map' = IF map.bound THEN Complete(m, r, FALSE) ELSE map
           \/ At(t, "release")
              /\ map' = IF map.bound /\ map.receipts[m] = r
                        THEN [map EXCEPT !.receipts[m] = NoReceipt] ELSE map
           \/ At(t, "final") /\ map' = Complete(m, r, TRUE)
        /\ slips' = IF At(t, "release") /\ map' # map /\ effect[m].state # "accepted"
                    THEN [slips EXCEPT ![m] = @ + 1] ELSE slips
        /\ moved' = Moved(map')
        /\ Back(t) /\ Ended(t, effect)
        /\ UNCHANGED <<effect, endpoint, daemon, left, acked, sends, lost, spared>>

(* #terminalizeStaleInboundDispatch: the journal first, then the mapping.    *)
Stale(t) ==
    /\ At(t, "stale")
    /\ Terminalize(task[t].msg)
    /\ Goto(t, "final")
    /\ UNCHANGED <<map, endpoint, daemon, timer, inflight, left>>

-----------------------------------------------------------------------------
(* #drainPendingDispatches *)

(* Not for recovery: its outcome is unknown, or its lease runs.              *)
Busy(e) ==
    \/ e.state = "uncertain"
    \/ e.state = "leased" /\ ~e.lapsed

Begin(t, drain) ==
    task' = [task EXCEPT ![t] = [Rest EXCEPT !.pc = "walk", !.back = "walk", !.drain = drain,
                !.walk = {<<m, map.receipts[m], map.bound>> : m \in {n \in Msgs :
                                                    map.receipts[n] # NoReceipt}}]]

(* A receipt of the mapping as it was when the drain began; the dispatch     *)
(* reads the mapping again.                                                  *)
Walk(t) ==
    \E r \in task[t].walk :
        LET m == r[1]
            go(pc) == [task[t] EXCEPT !.pc = pc, !.msg = m, !.receipt = r[2],
                                      !.walk = @ \ {r}]
            busy == Busy(effect[m])
            live == r[3] /\ effect[m].state # "none" /\ effect[m].question = r[2] /\ endpoint
        IN  /\ At(t, "walk")
            /\ \/ /\ effect[m].state = "terminal"
                  /\ task' = [task EXCEPT ![t] = go("final")] /\ UNCHANGED inflight
               \/ /\ effect[m].state # "terminal" /\ ~live
                  /\ task' = [task EXCEPT ![t] = go("stale")] /\ UNCHANGED inflight
               \/ /\ effect[m].state # "terminal" /\ live /\ busy
                  /\ task' = [task EXCEPT ![t].walk = @ \ {r}] /\ UNCHANGED inflight
               \/ /\ effect[m].state # "terminal" /\ live /\ ~busy /\ m \in inflight
                  /\ task' = [task EXCEPT ![t].walk = @ \ {r}, ![t].got = @ \cup {m}]
                  /\ UNCHANGED inflight
               \/ /\ effect[m].state # "terminal" /\ live /\ ~busy /\ m \notin inflight
                  /\ task' = [task EXCEPT ![t] = [go(Entry(m, r[2])) EXCEPT
                                                    !.mine = TRUE, !.got = @ \cup {m}]]
                  /\ inflight' = inflight \cup {m}
            /\ UNCHANGED <<effect, map, timer, world>>

(* journal.list: what is left are effects that no receipt led to.            *)
List(t) ==
    /\ At(t, "walk") /\ task[t].walk = {}
    /\ task' = [task EXCEPT ![t].pc = "list", ![t].back = "list", ![t].got = {},
          ![t].list = {<<m, Busy(effect[m])>> : m \in {n \in Msgs \ task[t].got :
                            effect[n].state = "uncertain" \/ Open(effect[n])}}]
    /\ UNCHANGED <<effect, map, timer, inflight, world>>

(* Mutant: only an effect whose receipt is there is adopted. *)
AdoptableKnown(m) == map.bound /\ map.receipts[m] = effect[m].question

(* The mapping takes an effect of the journal: its receipt is there, or the  *)
(* message is new and answers the question pending now.                      *)
Adoptable(m) ==
    /\ map.bound
    /\ IF map.receipts[m] # NoReceipt THEN map.receipts[m] = effect[m].question
       ELSE m \notin map.seen /\ (m \in Commands \/ map.pending = effect[m].question)

(* #adoptOrphanInbound.  An effect that is not adopted is terminalized; one  *)
(* that is adopted but was busy when it was listed is left alone.            *)
Adopt(t) ==
    \E o \in task[t].list :
        LET m == o[1]
            q == effect[m].question
            rest == [task[t] EXCEPT !.list = @ \ {o}]
            go(pc) == [rest EXCEPT !.pc = pc, !.msg = m, !.receipt = q]
        IN  /\ At(t, "list")
            /\ IF Adoptable(m)
               THEN /\ map' = [map EXCEPT !.receipts[m] = q]
                    /\ task' = [task EXCEPT ![t] =
                          IF ~endpoint \/ effect[m].state = "none" THEN go("stale")
                          ELSE IF o[2] THEN rest ELSE go(Entry(m, q))]
                    /\ UNCHANGED <<effect, history>>
               ELSE /\ Terminalize(m)
                    /\ task' = [task EXCEPT ![t] = rest]
                    /\ UNCHANGED map
            /\ UNCHANGED <<endpoint, daemon, timer, inflight, left>>

(* The drain is over; after that of start() the socket opens, unless stop()  *)
(* came in between.                                                          *)
DrainEnds(t) ==
    /\ At(t, "list") /\ task[t].list = {}
    /\ task' = [task EXCEPT ![t] = Rest]
    /\ timer' = Scheduled(effect)
    /\ daemon' = IF task[t].drain = "start" /\ daemon = "starting" THEN "up" ELSE daemon
    /\ UNCHANGED <<effect, map, endpoint, inflight, left, history>>

-----------------------------------------------------------------------------
(* Life of the daemon. *)

(* #recoverLeasedEffects, unless one is at work.                             *)
TimerFires(t) ==
    /\ timer /\ timer' = FALSE
    /\ IF \E u \in Tasks : task[u].drain = "recover"
       THEN UNCHANGED task
       ELSE At(t, "idle") /\ Begin(t, "recover")
    /\ UNCHANGED <<effect, map, inflight, world>>

Start(t) ==
    /\ daemon = "down"
    /\ daemon' = "starting"
    /\ Begin(t, "start")
    /\ UNCHANGED <<effect, map, endpoint, timer, inflight, left, history>>

(* stop(): no new work; what is under way is waited for.                     *)
Stop ==
    /\ daemon \in {"starting", "up"} /\ left.faults > 0
    /\ daemon' = "stopping" /\ timer' = FALSE
    /\ left' = [left EXCEPT !.faults = @ - 1]
    /\ UNCHANGED <<effect, map, endpoint, inflight, task, history>>

Stopped ==
    /\ daemon = "stopping" /\ \A t \in Tasks : At(t, "idle")
    /\ daemon' = "down"
    /\ UNCHANGED <<effect, map, endpoint, timer, inflight, task, left, history>>

Crash ==
    /\ daemon # "down" /\ left.faults > 0
    /\ daemon' = "down" /\ timer' = FALSE /\ inflight' = {}
    /\ task' = [t \in Tasks |-> Rest]
    /\ effect' = [m \in Msgs |-> [effect[m] EXCEPT !.holder = NoTask]]
    /\ left' = [left EXCEPT !.faults = @ - 1]
    /\ UNCHANGED <<map, endpoint, history>>

(* The lease of a task that is gone runs out; that of a live one only when   *)
(* its renewal is late, or the task is past the send.                        *)
Lapses(m) ==
    /\ effect[m].state = "leased" /\ ~effect[m].lapsed
    /\ effect' = [effect EXCEPT ![m].lapsed = TRUE]
    /\ slips' = [slips EXCEPT ![m] = @ + 1]
    /\ UNCHANGED <<map, endpoint, daemon, timer, inflight, task, acked, sends, moved, lost, spared>>

Held(m) == \E t \in Tasks : Holds(t, m) /\ task[t].msg = m

LeaseExpires(m) == ~Held(m) /\ Lapses(m) /\ UNCHANGED left

LeaseExpiresHeld(m) ==
    /\ Held(m) /\ left.faults > 0 /\ Lapses(m)
    /\ left' = [left EXCEPT !.faults = @ - 1]

(* #pruneTerminal drops the oldest terminal effects beyond its limit, except *)
(* those the mapping names; which are the oldest depends on other messages.  *)
Prunable(m) == effect[m].state = "terminal" /\ map.receipts[m] = NoReceipt

(* The limit is large: an effect that a task has in hand is not the oldest.  *)
Prune(m) ==
    /\ Prunable(m)
    /\ \A t \in Tasks : task[t].msg # m
    /\ effect' = [effect EXCEPT ![m].state = "none"]
    /\ acked' = acked \ {m}
    /\ UNCHANGED <<map, endpoint, daemon, timer, inflight, task, left,
                   sends, slips, moved, lost, spared>>

-----------------------------------------------------------------------------
(* The session. *)

(* notify: a question was posted in the thread and is the pending one now.   *)
Notify(a) ==
    /\ map.bound /\ endpoint /\ a \notin left.asked
    /\ map' = [map EXCEPT !.pending = a]
    /\ left' = [left EXCEPT !.asked = @ \cup {a}]
    /\ moved' = Moved(map')
    /\ UNCHANGED <<effect, endpoint, daemon, timer, inflight, task, acked, sends, slips, lost, spared>>

(* resolveAction: the question was answered elsewhere.                       *)
ResolveAction ==
    /\ map.pending # NoAction
    /\ map' = [map EXCEPT !.pending = NoAction]
    /\ moved' = Moved(map')
    /\ UNCHANGED <<effect, endpoint, daemon, timer, inflight, task, left, acked, sends, slips, lost, spared>>

(* The session's endpoint is detached, and may come back.                    *)
Detach ==
    /\ endpoint /\ left.faults > 0
    /\ endpoint' = FALSE /\ lost' = TRUE
    /\ left' = [left EXCEPT !.faults = @ - 1]
    /\ UNCHANGED <<effect, map, daemon, timer, inflight, task, acked, sends, slips, moved, spared>>

Reattach ==
    /\ ~endpoint /\ map.bound
    /\ endpoint' = TRUE
    /\ UNCHANGED <<effect, map, daemon, timer, inflight, task, left, history>>

(* close, or the roll-over to the root of a new endpoint generation; the     *)
(* receipts and the keys seen are carried over.                              *)
Close ==
    /\ map.bound /\ left.faults > 0
    /\ map' = [map EXCEPT !.bound = FALSE, !.pending = NoAction]
    /\ left' = [left EXCEPT !.faults = @ - 1]
    /\ moved' = Moved(map') /\ lost' = TRUE
    /\ UNCHANGED <<effect, endpoint, daemon, timer, inflight, task, acked, sends, slips, spared>>

-----------------------------------------------------------------------------

Step(t) ==
    \/ Enqueue(t) \/ Accept(t) \/ Ack(t)
    \/ Claim(t) \/ Check(t) \/ Send(t) \/ Record(t) \/ Finish(t) \/ Stale(t)
    \/ Walk(t) \/ List(t) \/ Adopt(t) \/ DrainEnds(t)

Next ==
    \/ \E t \in Tasks : Step(t) \/ Renew(t) \/ TimerFires(t) \/ Start(t)
    \/ \E t \in Tasks, m \in Msgs : Receive(t, m)
    \/ \E m \in Msgs : LeaseExpires(m) \/ LeaseExpiresHeld(m) \/ Prune(m)
    \/ \E a \in Actions : Notify(a)
    \/ ResolveAction \/ Detach \/ Reattach \/ Close
    \/ Stop \/ Stopped \/ Crash

Spec == Init /\ [][Next]_vars

(* Each task goes on, time passes, and a daemon that is down is started.     *)
FairSpec ==
    /\ Spec
    /\ \A t \in Tasks : WF_vars(Step(t))
    /\ WF_vars(\E t \in Tasks : TimerFires(t) \/ Start(t))
    /\ WF_vars(Stopped \/ \E m \in Msgs : LeaseExpires(m))

-----------------------------------------------------------------------------

(* A message reaches the session once, and once more only for every slip: a  *)
(* lease on its effect lapsed, or a dispatch that failed before the send     *)
(* released the receipt when another task had taken the effect already.  A   *)
(* redelivered envelope, a drain next to a handler, a restart or a send      *)
(* whose outcome is unknown never makes the daemon send it again.            *)
ResentOnlyAfterSlip == \A m \in Msgs : sends[m] <= 1 + slips[m]

(* A message the daemon claimed and acknowledged, and that never reached the *)
(* session, is still in the journal to be sent, or its outcome is unknown,   *)
(* or there is a cause for dropping it: the endpoint or the thread's binding *)
(* went away, the question it answered is no longer the pending one, or two  *)
(* tasks had it in hand after a slip.  The journal is asked until it prunes  *)
(* the effect: a redelivery after that may enqueue another question.         *)
UnsentForCause ==
    \A m \in acked :
        \/ sends[m] > 0
        \/ Open(effect[m]) \/ effect[m].state = "uncertain"
        \/ lost \/ effect[m].question \in moved \/ slips[m] > 0

(* An effect in the journal does not stay open for ever, however the daemon  *)
(* crashed: recovery sends it, or gives it up.  The exception is an effect   *)
(* found stale under a lease, even a lapsed one or the task's own: terminal- *)
(* ize leaves it alone, and nothing ends it later.                           *)
EffectSettles ==
    \A m \in Msgs : Open(effect[m]) ~> (~Open(effect[m]) \/ m \in spared)
=============================================================================
