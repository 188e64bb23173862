---------------------------- MODULE JobDeliveries ----------------------------
(***************************************************************************)
(* How the result of a background job reaches the conversation.            *)
(*                                                                         *)
(* A job that completes or fails leaves one delivery with AsyncJobManager  *)
(* (async/job-manager.ts).  One delivery loop, and any number of drains    *)
(* with an owner filter, hand deliveries to onJobComplete                  *)
(* (sdk/session.ts), which puts the result in the session's YieldQueue     *)
(* (session/yield-queue.ts).  The queue is flushed when the turn is about  *)
(* to yield, or by a task of its own when the session is idle.  The tools  *)
(* job, subagent and bash report results themselves: they watch a job      *)
(* while they wait for it and acknowledge it once they have shown it.      *)
(* newSession holds back the deliveries of its owner with a shutdown       *)
(* lease; clearContext and newSession discard them.                        *)
(*                                                                         *)
(* The manager runs on one thread: an action is what runs between two      *)
(* awaits.  nextAttemptAt is abstracted to the attempt count: a first      *)
(* attempt is due at once, a later one is due at a time of its own.        *)
(* A job id is registered once.                                            *)
(***************************************************************************)
EXTENDS Integers, Sequences, FiniteSets, SequencesExt

CONSTANTS
  Jobs,          \* ids of background jobs
  Own,           \* the jobs of the session's own agent; the others are foreign
  Calls,         \* tool calls of the session's turns that may wait for jobs
  MaxAttempts,   \* DELIVERY_MAX_ATTEMPTS
  MaxQueue,      \* DEFAULT_MAX_DELIVERY_QUEUE
  MaxPrompts,    \* bound: prompts of the user
  MaxLeases      \* bound: calls of newSession

ASSUME DeliveryAssumption ==
  /\ Own \subseteq Jobs
  /\ MaxAttempts \in Nat \ {0}
  /\ MaxQueue \in Nat \ {0}
  /\ MaxPrompts \in Nat
  /\ MaxLeases \in Nat

VARIABLES
  status,      \* AsyncJob.status; "done": completed or failed, "cancelling": cancelled, not settled
  queue,       \* #deliveries
  attempt,     \* delivery.attempt
  flight,      \* #inFlightDeliveries
  loop,        \* #deliveryLoop: absent, asleep before a retry, or in a callback
  suppressed,  \* #suppressedDeliveries
  watched,     \* #watchedJobs
  dead,        \* #deadLetteredDeliveries
  lease,       \* #ownerSubagentShutdownLeases for the session's agent, by step of newSession
  leases,      \* calls of newSession so far
  calls,       \* tool calls waiting for jobs
  entries,     \* YieldQueue.#entries of kind "async-result"
  idlePending, \* YieldQueue.#idleFlushPending
  flushTask,   \* a post-prompt task that will run the idle flush
  turn,        \* isStreaming: "running", or "tail" once the loop has yielded for the last time
  prompts,     \* prompts of the user so far
  injected,    \* how often a result was put into the conversation by a flush
  shown,       \* jobs whose result a tool call returned to the model
  discarded,   \* jobs whose result went with the context it belonged to
  dispose      \* dispose(): "no", "waiting" for the jobs, "draining", "cleared"

manager == <<queue, attempt, flight, loop, suppressed, watched, dead>>
session == <<entries, idlePending, flushTask, turn, prompts, injected, discarded>>
vars == <<status, manager, lease, leases, calls, session, shown, dispose>>

NoLoop == [at |-> "none"]
Asleep(j) == [at |-> "sleep", job |-> j]
Calling(j) == [at |-> "call", job |-> j]
NoCall == [tool |-> "none", jobs |-> {}]

Init ==
  /\ status = [j \in Jobs |-> "none"]
  /\ queue = <<>> /\ attempt = [j \in Jobs |-> 0] /\ flight = {} /\ loop = NoLoop
  /\ suppressed = {} /\ watched = {} /\ dead = {}
  /\ lease = "none" /\ leases = 0
  /\ calls = [c \in Calls |-> NoCall]
  /\ entries = <<>> /\ idlePending = FALSE /\ flushTask = FALSE
  /\ turn = "idle" /\ prompts = 0
  /\ injected = [j \in Jobs |-> 0] /\ shown = {} /\ discarded = {}
  /\ dispose = "no"

-----------------------------------------------------------------------------
(* The manager's predicates on deliveries.                                 *)

Pending == ToSet(queue) \cup flight
Settled(j) == status[j] \in {"done", "cancelled", "evicted"}
Present(j) == status[j] \notin {"none", "evicted"}
isStreaming == turn # "idle"

Hidden(j) == j \in suppressed \cup watched      \* isDeliverySuppressed
Fenced(j) == j \in Own /\ lease # "none"        \* #isDeliveryFenced
disposed == dispose # "no"

Without(q, S) == SelectSeq(q, LAMBDA j : j \notin S)

(* #deliverDelivery, up to the await in the callback; the loop waits for   *)
(* it.                                                                     *)
Deliver(q, fl, j) ==
  [queue |-> Without(q, {j}), flight |-> fl \cup {j}, loop |-> Calling(j)]

(* #runDeliveryLoop takes up the queue q: it starts the first delivery not *)
(* in held, sleeps when that one is a retry that is not due, and ends when *)
(* there is none.                                                          *)
RunLoop(q, fl, att, held) ==
  LET ready == Without(q, held)
  IN  IF ready = <<>>
      THEN {[queue |-> q, flight |-> fl, loop |-> NoLoop]}
      ELSE {Deliver(q, fl, Head(ready))} \cup
           IF att[Head(ready)] = 0 THEN {}
           ELSE {[queue |-> q, flight |-> fl, loop |-> Asleep(Head(ready))]}

(* #ensureDeliveryLoop leaves a loop that exists alone, and starts none    *)
(* once the manager is disposed.                                           *)
EnsureLoop(q, fl, att, held) ==
  IF loop = NoLoop /\ ~disposed THEN RunLoop(q, fl, att, held)
  ELSE {[queue |-> q, flight |-> fl, loop |-> loop]}

Held(sup, wat, fenced) == sup \cup wat \cup {j \in Own : fenced}
HeldNow == Held(suppressed, watched, lease # "none")

Take(o) == queue' = o.queue /\ flight' = o.flight /\ loop' = o.loop

-----------------------------------------------------------------------------
(* Jobs.                                                                   *)

Register(j) ==
  /\ status[j] = "none" /\ ~disposed /\ ~Fenced(j)
  /\ status' = [status EXCEPT ![j] = "running"]
  /\ suppressed' = suppressed \ {j}
  /\ UNCHANGED <<queue, attempt, flight, loop, watched, dead, lease, leases, calls, session, shown, dispose>>


(* #recordDeadLetter keeps nothing for a job that was evicted. *)
DeadLetter(j) == IF Present(j) THEN dead \cup {j} ELSE dead

(* The job completes or fails: #enqueueDelivery. *)
Settle(j) ==
  /\ status[j] = "running"
  /\ status' = [status EXCEPT ![j] = "done"]
  /\ IF j \in suppressed
     THEN UNCHANGED <<queue, flight, loop, dead>>
     ELSE LET q == Append(queue, j)
          IN  IF Len(q) > MaxQueue
              THEN /\ dead' = DeadLetter(Head(q))
                   /\ \E o \in EnsureLoop(Tail(q), flight, attempt, HeldNow) : Take(o)
              ELSE /\ \E o \in EnsureLoop(q, flight, attempt, HeldNow) : Take(o)
                   /\ UNCHANGED dead
  /\ UNCHANGED <<attempt, suppressed, watched, lease, leases, calls, session, shown, dispose>>

(* A cancelled job settles: no delivery. *)
SettleCancelled(j) ==
  /\ status[j] = "cancelling"
  /\ status' = [status EXCEPT ![j] = "cancelled"]
  /\ UNCHANGED <<manager, lease, leases, calls, session, shown, dispose>>

(* What ends the wait of a tool call: the first job, or all of them. *)
Complete(call) ==
  IF call.tool = "job" THEN \E j \in call.jobs : Settled(j)
  ELSE call.tool # "none" /\ \A j \in call.jobs : Settled(j)

(* #evictJob, when the retention time has passed.  The retention time is   *)
(* minutes: a call whose wait has ended has returned by then.              *)
Evict(j) ==
  /\ status[j] \in {"done", "cancelled"} /\ ~disposed
  /\ \A c \in Calls : ~Complete(calls[c])
  /\ status' = [status EXCEPT ![j] = "evicted"]
  /\ suppressed' = suppressed \ {j}
  /\ watched' = watched \ {j}
  /\ dead' = dead \ {j}
  /\ UNCHANGED <<queue, attempt, flight, loop, lease, leases, calls, session, shown, dispose>>

-----------------------------------------------------------------------------
(* The delivery loop, the callback and the filtered drain.                 *)

(* Mutant: the loop delivers what it chose before it slept, gone or not. *)
WakeGone ==
  /\ loop.at = "sleep"
  /\ LET j == loop.job
     IN  IF j \notin HeldNow THEN Take(Deliver(queue, flight, j))
         ELSE \E o \in RunLoop(queue, flight, attempt, HeldNow) : Take(o)
  /\ UNCHANGED <<status, attempt, suppressed, watched, dead, lease, leases, calls, session, shown, dispose>>

(* Mutant: the loop does not look at the fence and the flags again. *)
WakeHeld ==
  /\ loop.at = "sleep"
  /\ LET j == loop.job
     IN  IF j \in ToSet(queue) THEN Take(Deliver(queue, flight, j))
         ELSE \E o \in RunLoop(queue, flight, attempt, HeldNow) : Take(o)
  /\ UNCHANGED <<status, attempt, suppressed, watched, dead, lease, leases, calls, session, shown, dispose>>

(* The loop's sleep ends; what it selected before is looked at again. *)
Wake ==
  /\ loop.at = "sleep"
  /\ LET j == loop.job
     IN  IF j \in ToSet(queue) \ HeldNow THEN Take(Deliver(queue, flight, j))
         ELSE \E o \in RunLoop(queue, flight, attempt, HeldNow) : Take(o)
  /\ UNCHANGED <<status, attempt, suppressed, watched, dead, lease, leases, calls, session, shown, dispose>>

(* drainDeliveries with an owner filter starts a delivery of its own. *)
DrainDelivers(j) ==
  LET mine == Without(queue, HeldNow \cup (Jobs \ Own))
      first == SelectSeq(mine, LAMBDA k : attempt[k] = 0)
  IN  /\ j \in ToSet(mine) /\ (attempt[j] = 0 => j = Head(first))
      /\ queue' = Without(queue, {j})
      /\ flight' = flight \cup {j}
      /\ UNCHANGED <<status, attempt, loop, suppressed, watched, dead, lease, leases, calls, session, shown, dispose>>

(* What follows a callback for j, with q and att as it leaves them: the    *)
(* loop goes on if it was the loop's, else the loop is ensured.            *)
Finally(j, q, att) ==
  \E o \in IF loop = Calling(j) THEN RunLoop(q, flight \ {j}, att, HeldNow)
           ELSE EnsureLoop(q, flight \ {j}, att, HeldNow) : Take(o)

(* YieldQueue.enqueue: a flush is scheduled when the session is idle. *)
Enqueue(j) ==
  /\ entries' = Append(entries, j)
  /\ idlePending' = (idlePending \/ ~isStreaming)
  /\ flushTask' = (flushTask \/ (~isStreaming /\ ~idlePending))

(* onJobComplete has formatted the result and checks again. *)
CallbackReturns(j) ==
  /\ j \in flight
  /\ IF Hidden(j) THEN UNCHANGED <<entries, idlePending, flushTask>> ELSE Enqueue(j)
  /\ Finally(j, queue, attempt)
  /\ UNCHANGED <<status, attempt, suppressed, watched, dead, lease, leases, calls, turn, prompts,
                 injected, discarded, shown, dispose>>

(* onJobComplete throws: retry, unless acknowledged or out of attempts. *)
CallbackFails(j) ==
  /\ j \in flight
  /\ attempt' = [attempt EXCEPT ![j] = @ + 1]
  /\ dead' = IF attempt'[j] >= MaxAttempts THEN DeadLetter(j) ELSE dead
  /\ Finally(j, IF attempt'[j] >= MaxAttempts \/ j \in suppressed THEN queue ELSE Append(queue, j), attempt')
  /\ UNCHANGED <<status, suppressed, watched, lease, leases, calls, session, shown, dispose>>

-----------------------------------------------------------------------------
(* Tool calls of a running turn that report results themselves.            *)

Running(S) == {j \in S : status[j] = "running"}

(* "job" with poll and "subagent" with await watch the running jobs they   *)
(* wait for; "bash" waits for the job it has just started without watching.*)
Wait(c, tool, S) ==
  /\ turn = "running" /\ calls[c] = NoCall
  /\ S # {} /\ S \subseteq Running(Own)
  /\ tool = "bash" => Cardinality(S) = 1
  /\ calls' = [calls EXCEPT ![c] = [tool |-> tool, jobs |-> S]]
  /\ watched' = IF tool = "bash" THEN watched ELSE watched \cup S
  /\ UNCHANGED <<status, queue, attempt, flight, loop, suppressed, dead, lease, leases, session, shown, dispose>>

(* Mutant: unwatching does not start the loop. *)
UnwatchOnly(A, S) ==
  /\ suppressed' = suppressed \cup A
  /\ watched' = watched \ S
  /\ queue' = Without(queue, suppressed')
  /\ UNCHANGED <<flight, loop>>

(* acknowledgeDeliveries(A), then unwatchJobs(S). *)
AckThenUnwatch(A, S) ==
  /\ suppressed' = suppressed \cup A
  /\ watched' = watched \ S
  /\ LET q == Without(queue, suppressed')
     IN  \E o \in IF S \cap watched = {} THEN {[queue |-> q, flight |-> flight, loop |-> loop]}
                  ELSE EnsureLoop(q, flight, attempt, Held(suppressed', watched', lease # "none")) : Take(o)

(* unwatchJobs(S), then acknowledgeDeliveries(A): the loop may start a     *)
(* delivery in between.                                                    *)
UnwatchThenAck(A, S) ==
  /\ suppressed' = suppressed \cup A
  /\ watched' = watched \ S
  /\ \E o \in IF S \cap watched = {} THEN {[queue |-> queue, flight |-> flight, loop |-> loop]}
              ELSE EnsureLoop(queue, flight, attempt, Held(suppressed, watched', lease # "none")) :
       Take([o EXCEPT !.queue = Without(@, suppressed')])

(* JobTool.execute returns: the race is won by a job, the time or an abort.*)
(* The result of a call that a steering message interrupts is replaced.    *)
JobReturns(c, how) ==
  LET S == calls[c].jobs
      A == S \ Running(S)
  IN  /\ calls[c].tool = "job"
      /\ how = "completed" => Complete(calls[c])
      /\ UnwatchThenAck(A, S)
      /\ shown' = IF how = "interrupted" THEN shown ELSE shown \cup A
      /\ UNCHANGED status

(* SubagentTool's await returns: all jobs settled, the time or an abort. *)
AwaitReturns(c, how) ==
  LET S == calls[c].jobs
      A == IF how = "interrupted" THEN {} ELSE {j \in S \ Running(S) : Present(j)}
  IN  /\ calls[c].tool = "subagent"
      /\ how = "completed" => Complete(calls[c])
      /\ AckThenUnwatch(A, S)
      /\ shown' = shown \cup A
      /\ UNCHANGED status

(* The wait of a bash call ends: the result is returned, which may be just *)
(* before the manager sees it, the job stays in the background, or it is   *)
(* cancelled.                                                              *)
BashReturns(c, how) ==
  LET S == calls[c].jobs
      A == IF how = "timeout" THEN {} ELSE S
  IN  /\ calls[c].tool = "bash"
      /\ AckThenUnwatch(A, {})
      /\ shown' = shown \cup A
      /\ status' = [j \in Jobs |-> IF how = "interrupted" /\ j \in Running(S) THEN "cancelling" ELSE status[j]]

CallReturns(c) ==
  /\ \E how \in {"completed", "timeout", "interrupted"} :
       JobReturns(c, how) \/ AwaitReturns(c, how) \/ BashReturns(c, how)
  /\ calls' = [calls EXCEPT ![c] = NoCall]
  /\ UNCHANGED <<attempt, dead, lease, leases, session, dispose>>

(* "job" with list shows every job the agent has that is not running. *)
List ==
  LET A == {j \in Own \ Running(Own) : Present(j)}
  IN  /\ turn = "running" /\ A # {}
      /\ AckThenUnwatch(A, {})
      /\ shown' = shown \cup A
      /\ UNCHANGED <<status, attempt, dead, lease, leases, calls, session, dispose>>

(* "job" with cancel cancels a running job and acknowledges it. *)
JobCancels(j) ==
  /\ turn = "running" /\ j \in Running(Own)
  /\ status' = [status EXCEPT ![j] = "cancelling"]
  /\ AckThenUnwatch({j}, {})
  /\ UNCHANGED <<attempt, dead, lease, leases, calls, session, shown, dispose>>

-----------------------------------------------------------------------------
(* The turn and the yield queue.                                           *)

(* Mutant: stale entries are not dropped. *)
survivorsAll == entries

survivors == SelectSeq(entries, LAMBDA j : ~Hidden(j))

(* YieldQueue.flush: what is stale is dropped, the rest injected. *)
Flush ==
  /\ entries' = <<>>
  /\ injected' = [j \in Jobs |-> injected[j] + Len(SelectSeq(survivors, LAMBDA k : k = j))]

NoWaiting == \A c \in Calls : calls[c] = NoCall

(* A prompt of the user starts a turn. *)
Prompt ==
  /\ turn = "idle" /\ prompts < MaxPrompts /\ ~disposed
  /\ turn' = "running" /\ prompts' = prompts + 1
  /\ UNCHANGED <<status, manager, lease, leases, calls, entries, idlePending, flushTask, injected, discarded, shown, dispose>>

(* onBeforeYield: the turn goes on with what the flush injects. *)
BeforeYield ==
  /\ turn = "running" /\ NoWaiting
  /\ Flush
  /\ turn' = IF survivors = <<>> THEN "tail" ELSE "running"
  /\ UNCHANGED <<status, manager, lease, leases, calls, idlePending, flushTask, prompts, discarded, shown, dispose>>

(* A turn that is aborted or fails ends without onBeforeYield. *)
TurnBreaks ==
  /\ turn = "running" /\ NoWaiting
  /\ turn' = "tail"
  /\ UNCHANGED <<status, manager, lease, leases, calls, entries, idlePending, flushTask, prompts, injected, discarded, shown, dispose>>

TurnEnds ==
  /\ turn = "tail"
  /\ turn' = "idle"
  /\ UNCHANGED <<status, manager, lease, leases, calls, entries, idlePending, flushTask, prompts, injected, discarded, shown, dispose>>

(* The scheduled flush runs; it does nothing during a turn. *)
IdleFlush ==
  /\ flushTask
  /\ flushTask' = FALSE /\ idlePending' = FALSE
  /\ IF isStreaming THEN UNCHANGED <<entries, injected, turn>>
     ELSE Flush /\ turn' = IF survivors = <<>> THEN "idle" ELSE "running"
  /\ UNCHANGED <<status, manager, lease, leases, calls, prompts, discarded, shown, dispose>>

(* AgentSession.abort cancels the post-prompt tasks, the flush with them. *)
Abort ==
  /\ flushTask
  /\ flushTask' = FALSE
  /\ UNCHANGED <<status, manager, lease, leases, calls, entries, idlePending, turn, prompts, injected, discarded, shown, dispose>>

-----------------------------------------------------------------------------
(* clearContext, newSession and dispose of the session.                    *)

CancelRunning(S) == [j \in Jobs |-> IF j \in Running(S) THEN "cancelling" ELSE status[j]]

(* What getDeliveryState lists for the session's agent. *)
pendingJobIds == {j \in Pending \cap Own : ~Hidden(j)}

(* The steps of clearContext after its abort. *)
ClearContext ==
  /\ turn = "idle" /\ ~disposed
  /\ status' = CancelRunning(Own)
  /\ AckThenUnwatch(pendingJobIds, {})
  /\ entries' = <<>> /\ idlePending' = FALSE /\ flushTask' = FALSE
  /\ discarded' = discarded \cup pendingJobIds \cup ToSet(entries)
  /\ UNCHANGED <<attempt, dead, lease, leases, calls, turn, prompts, injected, shown, dispose>>

(* beginOwnerSubagentShutdown. *)
BeginLease ==
  /\ lease = "none" /\ leases < MaxLeases /\ ~disposed
  /\ lease' = "begun" /\ leases' = leases + 1
  /\ UNCHANGED <<status, manager, calls, session, shown, dispose>>

(* abort() has settled: the turn and its tool calls are over. *)
LeaseAborts ==
  /\ lease = "begun" /\ turn = "idle"
  /\ lease' = "aborted"
  /\ flushTask' = FALSE
  /\ UNCHANGED <<status, manager, leases, calls, entries, idlePending, turn, prompts, injected, discarded, shown, dispose>>

(* cancelAndProveOwnerSubagents and cancelAndSettleOwnerJobs. *)
LeaseCancels ==
  /\ lease = "aborted"
  /\ lease' = "cancelled"
  /\ status' = CancelRunning(Own)
  /\ UNCHANGED <<manager, leases, calls, session, shown, dispose>>

(* finishOwnerSubagentShutdown("commit"), once the jobs and the deliveries *)
(* of the owner have settled.                                              *)
Commit ==
  /\ lease = "cancelled"
  /\ \A j \in Own : status[j] \notin {"running", "cancelling"} /\ j \notin flight
  /\ lease' = "none"
  /\ AckThenUnwatch(pendingJobIds, {})
  /\ discarded' = discarded \cup pendingJobIds
  /\ UNCHANGED <<status, attempt, dead, leases, calls, entries, idlePending, flushTask, turn, prompts, injected, shown, dispose>>

(* Mutant: a released lease does not start the loop again. *)
ReleaseOnly ==
  /\ lease # "none"
  /\ lease' = "none"
  /\ UNCHANGED <<status, manager, leases, calls, session, shown, dispose>>

(* finishOwnerSubagentShutdown("release"), after a step that failed. *)
Release ==
  /\ lease # "none"
  /\ lease' = "none"
  /\ \E o \in EnsureLoop(queue, flight, attempt, Held(suppressed, watched, FALSE)) : Take(o)
  /\ UNCHANGED <<status, attempt, suppressed, watched, dead, leases, calls, session, shown, dispose>>

(* The session is disposed: the turn is over, the yield queue cleared, and *)
(* AsyncJobManager.dispose cancels every job.                              *)
Dispose ==
  /\ turn = "idle" /\ ~disposed
  /\ dispose' = "waiting"
  /\ status' = CancelRunning(Jobs)
  /\ entries' = <<>> /\ idlePending' = FALSE /\ flushTask' = FALSE
  /\ discarded' = discarded \cup ToSet(entries)
  /\ UNCHANGED <<manager, lease, leases, calls, turn, prompts, injected, shown>>

(* The jobs have settled: drainDeliveries without a filter. *)
DisposeDrains ==
  /\ dispose = "waiting"
  /\ \A j \in Jobs : status[j] # "cancelling"
  /\ dispose' = "draining"
  /\ UNCHANGED <<status, manager, lease, leases, calls, session, shown>>

undrained == {j \in Pending : ~Hidden(j)}

(* drainDeliveries goes round without an await: deliveries are pending and *)
(* there is no loop to wait for.                                           *)
Spinning == dispose = "draining" /\ loop = NoLoop /\ \E j \in ToSet(queue) : ~Hidden(j)

(* The jobs or the deliveries have settled, or the time is up. *)
DisposeClears ==
  /\ dispose \in {"waiting", "draining"}
  /\ dispose' = "cleared"
  /\ status' = [j \in Jobs |-> IF status[j] = "none" THEN "none" ELSE "evicted"]
  /\ queue' = <<>> /\ flight' = {} /\ dead' = {}
  /\ suppressed' = {} /\ watched' = {}
  /\ lease' = "none"
  /\ discarded' = discarded \cup undrained
  /\ UNCHANGED <<attempt, loop, leases, calls, entries, idlePending, flushTask, turn, prompts, injected, shown>>

-----------------------------------------------------------------------------
Step ==
  \/ \E j \in Jobs : Register(j) \/ Settle(j) \/ SettleCancelled(j) \/ Evict(j)
  \/ Wake
  \/ \E j \in Jobs : DrainDelivers(j) \/ CallbackReturns(j) \/ CallbackFails(j)
  \/ \E c \in Calls, S \in SUBSET Own, tool \in {"job", "subagent", "bash"} : Wait(c, tool, S)
  \/ \E c \in Calls : CallReturns(c)
  \/ List
  \/ \E j \in Own : JobCancels(j)
  \/ Prompt \/ BeforeYield \/ TurnBreaks \/ TurnEnds \/ IdleFlush \/ Abort
  \/ ClearContext
  \/ BeginLease \/ LeaseAborts \/ LeaseCancels \/ Commit \/ Release
  \/ Dispose \/ DisposeDrains \/ DisposeClears

(* A manager that goes round blocks the thread; one that is cleared is left.*)
Alive == ~Spinning /\ dispose # "cleared"

Next == Alive /\ Step

Spec == Init /\ [][Next]_vars

(* The event loop runs what is due: timers, callbacks, tool calls, turns   *)
(* and newSession itself go on; users and jobs need not.                   *)
FairSpec ==
  /\ Spec
  /\ WF_vars(Alive /\ (\/ Wake
                       \/ \E j \in Jobs : CallbackReturns(j) \/ CallbackFails(j)
                       \/ BeforeYield \/ TurnBreaks \/ TurnEnds \/ IdleFlush \/ Abort
                       \/ Commit \/ Release))
  /\ WF_vars(Alive /\ \E c \in Calls : CallReturns(c))

-----------------------------------------------------------------------------
(* A result is in one place at a time, and is injected at most once,       *)
(* although the loop and the drains take deliveries from the same queue    *)
(* and failed ones return to it.                                           *)
InjectedOnce ==
  \A j \in Jobs :
    Len(SelectSeq(queue, LAMBDA k : k = j)) + Len(SelectSeq(entries, LAMBDA k : k = j))
      + injected[j] + (IF j \in flight THEN 1 ELSE 0) <= 1


(* The delivery of a retained job that can go out has a loop at work,      *)
(* whatever was watched, fenced, evicted or drained in between.            *)
LoopWorks ==
  ~disposed /\ loop = NoLoop =>
    \A j \in ToSet(queue) : Hidden(j) \/ Fenced(j) \/ status[j] = "evicted"

(* No delivery starts for a job that is watched, acknowledged or fenced at *)
(* that moment, also when the loop chose it before it slept.               *)
HeldBack ==
  [][\A j \in flight' \ flight :
        j \notin suppressed \cup watched' /\ ~(Fenced(j) /\ lease' = lease)]_vars

(* What a tool has shown is not injected as well, while the job is         *)
(* retained.                                                               *)
ShownNotInjected ==
  [][\A j \in shown : injected'[j] > injected[j] => status[j] = "evicted"]_vars

(* A delivery does not stay in the queue for ever, unless its job is       *)
(* evicted first.                                                          *)
QueueServed ==
  \A j \in Jobs : (j \in ToSet(queue)) ~> (j \notin ToSet(queue) \/ status[j] = "evicted" \/ disposed)

(* "Result will be delivered automatically when complete." (bash.ts:381):  *)
(* the result of a finished job is some time injected into the             *)
(* conversation, shown by a tool, dead-lettered or discarded with its      *)
(* context, unless the session is disposed of.  The code does not keep     *)
(* this: a callback that enqueues between a turn's last flush and its end  *)
(* schedules no flush (yield-queue.ts:63).                                 *)
ResultArrives ==
  \A j \in Jobs : (status[j] = "done") ~>
    (injected[j] > 0 \/ j \in shown \cup dead \cup discarded \/ dispose # "no")
=============================================================================
