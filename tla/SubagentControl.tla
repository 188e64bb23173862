--------------------------- MODULE SubagentControl ---------------------------
(***************************************************************************)
(* Pausing, resuming, cancelling and shutting down detached subagents: the *)
(* control plane of AsyncJobManager (async/job-manager.ts).                *)
(*                                                                         *)
(* A subagent has one record and, over its life, several runs.  Every run  *)
(* is a job of the manager's table.  A run ends when its promise settles,  *)
(* which for a cancelled run is some time after the cancellation.  Resumes *)
(* over the limit of running jobs wait in a queue that is drained when a   *)
(* job settles.  newSession (session/agent-session.ts) fences its owner    *)
(* with a shutdown lease, cancels what the lease captured, and replaces    *)
(* the session only on proof that all of it has stopped.                   *)
(*                                                                         *)
(* The manager runs on one thread: an action is what runs between two      *)
(* awaits.  "completed" stands for completed and failed, which this part   *)
(* of the manager treats alike.  Every subagent has a session file, and    *)
(* its resume descriptor lives as long as its record.                      *)
(***************************************************************************)
EXTENDS Integers, FiniteSets

CONSTANTS
  Owners,        \* agents that own subagents
  Closing,       \* the owners whose session is cleared or replaced
  Subagents,     \* ids of subagents, each used for one task
  OwnerOf,       \* [Subagents -> Owners]
  Messages,      \* texts a resume may carry
  NoMessage,     \* a resume without text
  MaxRunning,    \* #maxRunningJobs
  MaxRuns,       \* bound: runs of one subagent
  MaxLaunches,   \* bound: runs of all subagents
  MaxLeases,     \* bound: calls of newSession
  MaxResumes     \* bound: resumes that are put in the queue

ASSUME SubagentAssumption ==
  /\ Closing \subseteq Owners
  /\ OwnerOf \in [Subagents -> Owners]
  /\ NoMessage \notin Messages
  /\ MaxRunning \in Nat \ {0}
  /\ MaxRuns \in Nat \ {0}
  /\ MaxLaunches \in Nat
  /\ MaxLeases \in Nat
  /\ MaxResumes \in Nat

VARIABLES
  m,        \* the manager's tables (see Manager)
  pausing,  \* runs whose live handle was asked to pause
  seq,      \* #resumeSeq
  wanted,   \* message of the last resume accepted for a queued or running subagent
  lease,    \* #ownerSubagentShutdownLeases, by phase
  leases    \* calls of newSession so far

vars == <<m, pausing, seq, wanted, lease, leases>>

Job == Subagents \X (1 .. MaxRuns)
Text == Messages \cup {NoMessage}
Active == {"running", "paused", "queued"}
Lifecycle == Active \cup {"completed", "cancelled"}
Entry == [sub : Subagents, seq : 1 .. MaxResumes, msg : Text]

Manager ==
  [jobs   : SUBSET Job,                                   \* #jobs
   status : [Job -> Lifecycle \ {"queued"}],              \* AsyncJob.status
   live   : SUBSET Job,                                   \* promise not settled
   timers : SUBSET Job,                                   \* #evictionTimers
   rec    : [Subagents -> Lifecycle \cup {"none"}],       \* #subagentRecords
   cur    : [Subagents -> 0 .. MaxRuns],                  \* currentJobId
   queue  : SUBSET Entry,                                 \* #resumeQueue
   given  : [Subagents -> Text]]                          \* message of the run under way

NoLease == [phase |-> "none", records |-> {}, backing |-> {}, awaited |-> {}]

Owned(o) == {s \in Subagents : OwnerOf[s] = o}
JobsOf(o) == {j \in Job : OwnerOf[j[1]] = o}
Current(st, s) == <<s, st.cur[s]>>
Fenced(s) == lease[OwnerOf[s]].phase \in {"active", "proving", "proved"}
RunningJobs(st) == {j \in st.jobs : st.status[j] = "running"}

(* Mutant: off by one. *)
FullPast(st) == Cardinality(RunningJobs(st)) > MaxRunning
Full(st) == Cardinality(RunningJobs(st)) >= MaxRunning
MayLaunch(s) ==
  /\ m.cur[s] < MaxRuns
  /\ Cardinality({j \in Job : j[2] <= m.cur[j[1]]}) + Cardinality(m.queue) < MaxLaunches

(* wanted, once the subagents that are neither queued nor running any more are left out. *)
StillWanted(w) ==
  wanted' = [s \in Subagents |-> IF m'.rec[s] \in {"queued", "running"} THEN w[s] ELSE NoMessage]

(* The records whose current job is among J. *)
RecordsOf(st, J) == {s \in Subagents : st.rec[s] # "none" /\ Current(st, s) \in J}

-----------------------------------------------------------------------------
(* Changes of the manager's tables.                                        *)

(* register() for one run of each subagent of S, with messages M. *)
Launch(st, S, M) ==
  LET new == {<<s, st.cur[s] + 1>> : s \in S}
  IN [st EXCEPT
        !.jobs = @ \cup new,
        !.live = @ \cup new,
        !.status = [j \in Job |-> IF j \in new THEN "running" ELSE @[j]],
        !.cur = [s \in Subagents |-> IF s \in S THEN @[s] + 1 ELSE @[s]],
        !.rec = [s \in Subagents |-> IF s \in S THEN "running" ELSE @[s]],
        !.given = [s \in Subagents |-> IF s \in S THEN M[s] ELSE @[s]]]

(* Mutant: the drain does not ask for the fence. *)
StartableAny(st) ==
  {e \in st.queue : /\ st.rec[e.sub] = "queued"
                    /\ \A f \in st.queue : f.sub = e.sub => e.seq <= f.seq}

(* Queue entries a drain may start: the first one of a queued record whose owner is not fenced. *)
Startable(st) ==
  {e \in st.queue : /\ st.rec[e.sub] = "queued"
                    /\ ~Fenced(e.sub)
                    /\ \A f \in st.queue : f.sub = e.sub => e.seq <= f.seq}

(* Entries the drain comes to before the limit stops it. *)
Reached(st, E) ==
  {e \in E : Cardinality({f \in Startable(st) : f.seq < e.seq}) + Cardinality(RunningJobs(st))
               < MaxRunning}

(* Entries the drain throws away: those whose record is no longer queued. *)
Stale(st) ==
  {e \in st.queue : st.rec[e.sub] # "queued" \/ \E f \in Startable(st) : f.sub = e.sub /\ f.seq < e.seq}

(* Mutant: a settled run does not drain the queue. *)
DrainNever(st) == st

(* #drainResumeQueue, with #startResume for each entry it starts. *)
Drain(st) ==
  LET E == Reached(st, Startable(st))
      msg(s) == (CHOOSE e \in E : e.sub = s).msg
      S == {e.sub : e \in E}
  IN [Launch(st, S, [s \in S |-> msg(s)])
        EXCEPT !.queue = @ \ (E \cup Reached(st, Stale(st)))]

(* Mutant: a cancelled run's record is terminal at once. *)
AbortRecord(st, R) ==
  [st EXCEPT !.status = [j \in Job |-> IF j \in R \cap RunningJobs(st) THEN "cancelled" ELSE @[j]],
             !.rec = [s \in Subagents |-> IF s \in RecordsOf(st, R) THEN "cancelled" ELSE @[s]]]

(* The running jobs of R get status cancelled and their signal; they settle later. *)
Abort(st, R) ==
  [st EXCEPT !.status = [j \in Job |-> IF j \in R \cap RunningJobs(st) THEN "cancelled" ELSE @[j]]]

(* The paused jobs of P, and their records, become cancelled: there is nothing to wait for. *)
CancelPaused(st, P) ==
  LET gone == {j \in P \cap st.jobs : st.status[j] = "paused"}
  IN [st EXCEPT !.status = [j \in Job |-> IF j \in gone THEN "cancelled" ELSE @[j]],
                !.timers = @ \cup gone,
                !.rec = [s \in Subagents |-> IF s \in RecordsOf(st, gone) THEN "cancelled" ELSE @[s]]]

(* Mutant: the entry stays in the queue. *)
CancelQueuedRecord(st, S) ==
  [st EXCEPT !.rec = [s \in Subagents |-> IF s \in S THEN "cancelled" ELSE @[s]]]

(* The queued resumes of S are given up. *)
CancelQueued(st, S) ==
  [st EXCEPT !.queue = {e \in @ : e.sub \notin S},
             !.rec = [s \in Subagents |-> IF s \in S THEN "cancelled" ELSE @[s]]]

(* #purgeOwnerSubagentState: records, descriptors and queued resumes of an owner go. *)
Purge(st, o) ==
  [st EXCEPT !.queue = {e \in @ : OwnerOf[e.sub] # o},
             !.rec = [s \in Subagents |-> IF OwnerOf[s] = o THEN "none" ELSE @[s]],
             !.given = [s \in Subagents |-> IF OwnerOf[s] = o THEN NoMessage ELSE @[s]]]

(* The end of a run that was cancelled: job and record are settled. *)
Ended(st, j, result) ==
  [st EXCEPT !.live = @ \ {j},
             !.status[j] = result,
             !.timers = IF result = "paused" THEN @ ELSE @ \cup {j},
             !.rec = [s \in Subagents |-> IF s \in RecordsOf(st, {j}) THEN result ELSE @[s]],
             !.given[j[1]] = NoMessage]

-----------------------------------------------------------------------------
Init ==
  /\ m = [jobs |-> {}, status |-> [j \in Job |-> "completed"], live |-> {}, timers |-> {},
          rec |-> [s \in Subagents |-> "none"], cur |-> [s \in Subagents |-> 0],
          queue |-> {}, given |-> [s \in Subagents |-> NoMessage]]
  /\ pausing = {}
  /\ seq = 0
  /\ wanted = [s \in Subagents |-> NoMessage]
  /\ lease = [o \in Owners |-> NoLease]
  /\ leases = 0

(* The task tool starts a detached subagent: register, then descriptor and record. *)
StartTask(s) ==
  /\ m.cur[s] = 0
  /\ MayLaunch(s)
  /\ ~Fenced(s)
  /\ ~Full(m)
  /\ m' = Launch(m, {s}, [t \in {s} |-> NoMessage])
  /\ UNCHANGED <<pausing, seq, wanted, lease, leases>>

(* pauseSubagent: the run is asked to stop at its next safe boundary. *)
PauseSubagent(s) ==
  /\ m.rec[s] = "running"
  /\ Current(m, s) \in m.live
  /\ pausing' = pausing \cup {Current(m, s)}
  /\ UNCHANGED <<m, seq, wanted, lease, leases>>

(* The promise of a run settles; a pause is one of the ends a run may come to when it was asked. *)
RunSettles(j) ==
  /\ j \in m.live
  /\ \/ /\ m.status[j] = "cancelled"
        /\ m' = Drain(Ended(m, j, "cancelled"))
     \/ /\ m.status[j] = "running"
        /\ j \in pausing
        /\ m' = Drain(Ended(m, j, "paused"))
     \/ /\ m.status[j] = "running"
        /\ m' = Drain(Ended(m, j, "completed"))
  /\ pausing' = pausing \ {j}
  /\ StillWanted(wanted)
  /\ UNCHANGED <<seq, lease, leases>>

(* #evictJob, when the retention time of a job is over.  A completed job that no lease holds is *)
(* not read again by this part of the manager: its eviction is left out.                        *)
Evict(j) ==
  /\ j \in m.timers \cap m.jobs
  /\ m.status[j] = "cancelled" \/ \E o \in Owners : j \in lease[o].backing
  /\ m' = [m EXCEPT !.jobs = @ \ {j}, !.timers = @ \ {j},
                    !.status[j] = IF j \in m.live THEN @ ELSE "completed"]
  /\ UNCHANGED <<pausing, seq, wanted, lease, leases>>

(* Mutant: the new text is kept in the record but not in the queue. *)
RetextRecord(Q, s, t) == Q

(* A later resume with a message replaces the text of the first entry found. *)
Retext(Q, s, t) ==
  {IF e.sub = s /\ \A f \in Q : f.sub = s => e.seq <= f.seq THEN [e EXCEPT !.msg = t] ELSE e : e \in Q}

(* resumeSubagent, called by the resume and steer actions of the subagent tool: a terminal *)
(* subagent needs a message.                                                               *)
ResumeSubagent(s, t) ==
  /\ m.rec[s] \notin {"none", "running"}
  /\ m.rec[s] \in {"completed", "cancelled"} => t # NoMessage
  /\ ~Fenced(s)
  /\ \/ /\ m.rec[s] = "queued"
        /\ t # NoMessage
        /\ m' = [m EXCEPT !.queue = Retext(@, s, t)]
        /\ seq' = seq
     \/ /\ m.rec[s] # "queued"
        /\ MayLaunch(s)
        /\ \/ /\ Full(m)
              /\ seq < MaxResumes
              /\ seq' = seq + 1
              /\ m' = [m EXCEPT !.rec[s] = "queued",
                                !.queue = @ \cup {[sub |-> s, seq |-> seq + 1, msg |-> t]}]
           \/ /\ ~Full(m)
              /\ m' = Launch(m, {s}, [u \in {s} |-> t])
              /\ seq' = seq
  /\ StillWanted([wanted EXCEPT ![s] = t])
  /\ UNCHANGED <<pausing, lease, leases>>

(* cancelSubagent, and cancel of a running job by the job tool. *)
CancelSubagent(s) ==
  /\ \/ /\ m.rec[s] = "running"
        /\ m' = Abort(m, {Current(m, s)})
     \/ /\ m.rec[s] = "paused"
        /\ m' = Drain(CancelPaused(m, {Current(m, s)}))
     \/ /\ m.rec[s] = "queued"
        /\ m' = CancelQueued(m, {s})
  /\ StillWanted(wanted)
  /\ UNCHANGED <<pausing, seq, lease, leases>>

(* #cancelOwnAsyncJobs of clearContext, switchSession, handoff and branch: the owner's records *)
(* are purged, then its running jobs are cancelled and given to the eviction timer.            *)
CancelOwnAsyncJobs(o) ==
  /\ \E s \in Owned(o) : m.rec[s] # "none"
  /\ LET running == JobsOf(o) \cap RunningJobs(m)
     IN m' = [Abort(Purge(m, o), running) EXCEPT !.timers = @ \cup running]
  /\ StillWanted(wanted)
  /\ UNCHANGED <<pausing, seq, lease, leases>>

-----------------------------------------------------------------------------
(* newSession with a shutdown lease.                                       *)

(* What a lease captures: active records, and jobs of the table that may still do something. *)
Records(o) == {s \in Owned(o) : m.rec[s] \in Active}

(* Mutant: only the records are captured, not the jobs of the table. *)
BackingRecords(o) == {Current(m, s) : s \in Records(o)}

Backing(o) ==
  {Current(m, s) : s \in {r \in Records(o) : m.rec[r] # "queued"}}
    \cup {j \in JobsOf(o) \cap m.jobs : m.status[j] \in {"running", "paused", "cancelled"}}

BeginShutdown(o) ==
  /\ lease[o].phase \in {"none", "abandoned"}
  /\ lease' = [lease EXCEPT ![o] = [phase |-> "active", records |-> Records(o),
                                    backing |-> Backing(o), awaited |-> {}]]
  /\ leases < MaxLeases
  /\ leases' = leases + 1
  /\ UNCHANGED <<m, pausing, seq, wanted>>

(* finishOwnerSubagentShutdown(lease, "release"). *)
Release(o) == lease' = [lease EXCEPT ![o] = NoLease]

(* abort() throws before the proof is begun: nothing was cancelled.  The phase "abandoned" is a *)
(* lease that is gone, like "none"; it only remembers how.                                      *)
AbortFails(o) ==
  /\ lease[o].phase = "active"
  /\ lease' = [lease EXCEPT ![o] = [NoLease EXCEPT !.phase = "abandoned"]]
  /\ UNCHANGED <<m, pausing, seq, wanted, leases>>

(* cancelAndProveOwnerSubagents up to its await.  Every target is cancelled in turn; cancelling *)
(* a paused job drains the queue for other owners, when the runs of C were already cancelled.   *)
CancelTargets(o) ==
  LET l == lease[o]
      known == {s \in l.records : m.rec[s] # "none"}
      queued == {s \in known : m.rec[s] = "queued"}
      hit == l.backing \cup {Current(m, s) : s \in known \ queued}
      paused == {j \in hit \cap m.jobs : m.status[j] = "paused"}
      st == CancelQueued(m, queued)
  IN /\ l.phase = "active"
     /\ \/ /\ paused = {}
           /\ m' = Abort(st, hit)
        \/ /\ paused # {}
           /\ \E C \in SUBSET (hit \cap RunningJobs(m)) :
                m' = Abort(Drain(CancelPaused(Abort(st, C), paused)), hit)
     /\ lease' = [lease EXCEPT ![o].phase = "proving", ![o].awaited = l.backing \cap m.jobs]
     /\ StillWanted(wanted)
     /\ UNCHANGED <<pausing, seq, leases>>

Targets(l) == l.records \cup {j[1] : j \in l.backing}

(* Mutant: a cancelled record is no evidence. *)
EvidenceCompleted(l) ==
  /\ \A s \in Targets(l) : m.rec[s] = "completed"
  /\ l.backing \subseteq l.awaited \ m.live

(* #hasTerminalShutdownEvidence for every target: its record is terminal, its runs have settled. *)
Evidence(l) ==
  /\ \A s \in Targets(l) : m.rec[s] \in {"completed", "cancelled"}
  /\ l.backing \subseteq l.awaited \ m.live

(* The await is over, all awaited runs having settled or the deadline having passed. *)
Confirmed(o) ==
  /\ lease[o].phase = "proving"
  /\ Evidence(lease[o])
  /\ lease' = [lease EXCEPT ![o].phase = "proved"]
  /\ UNCHANGED <<m, pausing, seq, wanted, leases>>

Refused(o) ==
  /\ lease[o].phase = "proving"
  /\ ~Evidence(lease[o])
  /\ Release(o)
  /\ UNCHANGED <<m, pausing, seq, wanted, leases>>

(* After the proof the session is replaced, or one of the awaits in between throws.  Nothing of *)
(* the owner is running by then, so that cancelAndSettleOwnerJobs finds only paused jobs.       *)
Commit(o) ==
  /\ lease[o].phase = "proved"
  /\ LET paused == {j \in JobsOf(o) \cap m.jobs : m.status[j] = "paused"}
         st == IF paused = {} THEN m ELSE Drain(CancelPaused(m, paused))
     IN m' = Purge(Abort(st, JobsOf(o)), o)
  /\ Release(o)
  /\ StillWanted(wanted)
  /\ UNCHANGED <<pausing, seq, leases>>

ReplaceFails(o) ==
  /\ lease[o].phase = "proved"
  /\ Release(o)
  /\ UNCHANGED <<m, pausing, seq, wanted, leases>>

Next ==
  \/ \E s \in Subagents :
       \/ StartTask(s)
       \/ PauseSubagent(s)
       \/ CancelSubagent(s)
       \/ \E t \in Text : ResumeSubagent(s, t)
  \/ \E j \in Job : RunSettles(j) \/ Evict(j)
  \/ \E o \in Closing :
       \/ CancelOwnAsyncJobs(o)
       \/ BeginShutdown(o)
       \/ AbortFails(o)
       \/ CancelTargets(o)
       \/ Confirmed(o)
       \/ Refused(o)
       \/ Commit(o)
       \/ ReplaceFails(o)

Spec == Init /\ [][Next]_vars

-----------------------------------------------------------------------------
(* Two runs of a subagent would write one session file: a subagent is resumed only when its last *)
(* run has settled, however the run was paused, cancelled or ended (resumeSubagent, #startResume). *)
OneRun == \A j, k \in m.live : j[1] = k[1] => j = k

(* Starting tasks, resumes and drains never put more jobs in status running than #maxRunningJobs. *)
WithinLimit == Cardinality(RunningJobs(m)) <= MaxRunning

(* A record says queued exactly when one entry of #resumeQueue will resume it. *)
QueuedHasEntry ==
  \A s \in Subagents :
    IF m.rec[s] = "queued" THEN Cardinality({e \in m.queue : e.sub = s}) = 1
                           ELSE \A e \in m.queue : e.sub # s

(* The tool's description says of a queued subagent that it waits for execution capacity: some  *)
(* run is under way whose end will drain the queue (#drainResumeQueue), or a shutdown of its    *)
(* owner will give it up.  The exception is a newSession that let go of its lease before it had *)
(* cancelled the owner's queued resumes.                                                        *)
QueuedWaits ==
  \A s \in Subagents :
    m.rec[s] = "queued" => Fenced(s) \/ m.live # {} \/ lease[OwnerOf[s]].phase = "abandoned"

(* A run is started with the message of the last resume that was accepted for it, also when the *)
(* resume waited in the queue and was given another text there.                                 *)
GivenIsWanted == \A s \in Subagents : m.rec[s] = "running" => m.given[s] = wanted[s]

(* A session is replaced only when no run of its owner is left that the manager knows, by its *)
(* job table or by a record (cancelAndProveOwnerSubagents, finishOwnerSubagentShutdown).      *)
ReplacedWhenStopped ==
  [][\A o \in Owners :
       Commit(o) => \A j \in JobsOf(o) \cap m.live :
                      j \notin m.jobs /\ m.rec[j[1]] = "none"]_vars

(* From the lease on, no run of the fenced owner begins: not by a task, a resume or a drain that *)
(* another owner's job sets off.                                                                 *)
FencedStartsNone ==
  [][\A s \in Subagents : Fenced(s) /\ Fenced(s)' => m'.cur[s] = m.cur[s]]_vars

(* newSession says of a refusal: wait for or inspect the remaining subagents, then retry.  So a *)
(* refusal means that a run of the owner has not settled yet.  The exceptions are targets whose *)
(* evidence is gone: clearContext purged the record, or a captured job was evicted from the     *)
(* table before cancelAndProveOwnerSubagents looked for it.                                     *)
RefusedForCause ==
  [][\A o \in Owners :
       Refused(o) => \/ JobsOf(o) \cap m.live # {}
                     \/ \E s \in Targets(lease[o]) : m.rec[s] = "none"
                     \/ ~(lease[o].backing \subseteq lease[o].awaited)]_vars
=============================================================================
