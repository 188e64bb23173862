---------------------------- MODULE SubagentSteps ----------------------------
(***************************************************************************)
(* What the changes of the manager's tables keep, and the handlers built   *)
(* from them, for every number of owners, subagents and runs and every     *)
(* limit.                                                                  *)
(*                                                                         *)
(* Good says what a record says about its runs.  Sound adds how records,   *)
(* jobs, timers, queue entries and wanted texts fit together.  A change is *)
(* Calm for an owner when it starts none of its runs.  Every change of the *)
(* tables keeps Good and Sound, so a handler that strings changes together *)
(* does.  Fence is what a shutdown lease says of its owner in each phase;  *)
(* a calm change keeps it.                                                 *)
(***************************************************************************)
EXTENDS SubagentControl, TLAPS

(* A leaf that names no backend goes to the SMT solver, with time to spare. *)
USE SMTT(30)

(* A run under way is the current one of its subagent, is running or cancelled, and its record   *)
(* says running (or was purged).  A queued resume has a run left.                                *)
Good(st) ==
  /\ st \in Manager
  /\ \A j \in st.live : /\ j[2] = st.cur[j[1]]
                        /\ st.status[j] \in {"running", "cancelled"}
                        /\ st.rec[j[1]] \in {"running", "none"}
  /\ \A s \in Subagents : st.rec[s] = "queued" => st.cur[s] < MaxRuns

Idle(st, s) == st.cur[s] < MaxRuns /\ \A j \in st.live : j[1] # s

(* A job is a pair of a subagent and the number of a run. *)
LEMMA JobPair ==
  ASSUME NEW j \in Job
  PROVE  j[1] \in Subagents /\ j[2] \in 1 .. MaxRuns /\ j = <<j[1], j[2]>>
BY DEF Job

(* The manager's tables, field by field. *)
LEMMA Fields ==
  ASSUME NEW st \in Manager
  PROVE  /\ st.jobs \subseteq Job
         /\ st.status \in [Job -> Lifecycle \ {"queued"}]
         /\ st.live \subseteq Job
         /\ st.timers \subseteq Job
         /\ st.rec \in [Subagents -> Lifecycle \cup {"none"}]
         /\ st.cur \in [Subagents -> 0 .. MaxRuns]
         /\ st.queue \subseteq Entry
         /\ st.given \in [Subagents -> Text]
BY Zenon DEF Manager

(* Starting a run of idle subagents keeps Good (register). *)
LEMMA LaunchGood ==
  ASSUME NEW st, Good(st), NEW S \in SUBSET Subagents, NEW M \in [S -> Text],
         \A s \in S : Idle(st, s)
  PROVE  Good(Launch(st, S, M))
<1> DEFINE new == {<<s, st.cur[s] + 1>> : s \in S}
           L == Launch(st, S, M)
<1>1. st \in Manager
  BY Zenon DEF Good
<1>2. new \subseteq Job
  BY <1>1, Fields, SubagentAssumption DEF Idle, Job
<1>3. /\ L.jobs = st.jobs \cup new
      /\ L.live = st.live \cup new
      /\ L.status = [j \in Job |-> IF j \in new THEN "running" ELSE st.status[j]]
      /\ L.timers = st.timers
      /\ L.cur = [s \in Subagents |-> IF s \in S THEN st.cur[s] + 1 ELSE st.cur[s]]
      /\ L.rec = [s \in Subagents |-> IF s \in S THEN "running" ELSE st.rec[s]]
      /\ L.queue = st.queue
      /\ L.given = [s \in Subagents |-> IF s \in S THEN M[s] ELSE st.given[s]]
  BY <1>1, Zenon DEF Launch, Manager
<1>4. L \in Manager
  <2>1. L.status \in [Job -> Lifecycle \ {"queued"}]
    BY <1>1, <1>3, Fields DEF Lifecycle, Active
  <2>2. L.cur \in [Subagents -> 0 .. MaxRuns]
    BY <1>1, <1>3, Fields, SubagentAssumption DEF Idle
  <2>3. L.rec \in [Subagents -> Lifecycle \cup {"none"}]
    BY <1>1, <1>3, Fields DEF Lifecycle, Active
  <2>4. L.given \in [Subagents -> Text]
    BY <1>1, <1>3, Fields
  <2>5. /\ L.jobs \subseteq Job /\ L.live \subseteq Job
        /\ L.timers \subseteq Job /\ L.queue \subseteq Entry
    BY <1>1, <1>2, <1>3, Fields, Zenon
  <2> QED
    BY <1>1, <1>2, <1>3, <2>1, <2>2, <2>3, <2>4, <2>5, Zenon DEF Launch, Manager
<1>5. ASSUME NEW j \in L.live
      PROVE  /\ j[2] = L.cur[j[1]]
             /\ L.status[j] \in {"running", "cancelled"}
             /\ L.rec[j[1]] \in {"running", "none"}
  <2>1. CASE j \in new
    BY <2>1, <1>1, <1>2, <1>3, Fields
  <2>2. CASE j \in st.live /\ j \notin new
    <3>1. j \in Job /\ j[1] \in Subagents /\ j[1] \notin S
      BY <2>2, <1>1, Fields, JobPair, Zenon DEF Idle
    <3> QED
      BY <2>2, <3>1, <1>3 DEF Good
  <2> QED
    BY <1>3, <2>1, <2>2, Zenon
<1>6. \A s \in Subagents : L.rec[s] = "queued" => L.cur[s] < MaxRuns
  BY <1>3 DEF Good
<1> QED
  BY <1>4, <1>5, <1>6, Zenon DEF Good

(* A drain starts only queued resumes, which are idle (#drainResumeQueue, #startResume). *)
LEMMA DrainGood ==
  ASSUME NEW st, Good(st)
  PROVE  /\ Good(Drain(st))
         /\ \A s \in Subagents : Fenced(s) => Drain(st).cur[s] = st.cur[s]
<1> DEFINE E == Reached(st, Startable(st))
           S == {e.sub : e \in E}
           msg(s) == (CHOOSE e \in E : e.sub = s).msg
           M == [s \in S |-> msg(s)]
           L == Launch(st, S, M)
           Q == L.queue \ (E \cup Reached(st, Stale(st)))
<1>1. st \in Manager
  BY Zenon DEF Good
<1>2. E \subseteq Startable(st) /\ E \subseteq st.queue /\ E \subseteq Entry
  BY <1>1, Fields, Zenon DEF Reached, Startable
<1>3. S \subseteq Subagents /\ \A s \in S : st.rec[s] = "queued" /\ ~Fenced(s)
  BY <1>2, Zenon DEF Startable, Entry
<1>4. M \in [S -> Text]
  <2>1. ASSUME NEW s \in S
        PROVE  msg(s) \in Text
    <3>1. \E e \in E : e.sub = s
      BY Zenon
    <3>2. (CHOOSE e \in E : e.sub = s) \in E
      BY <3>1, Zenon
    <3> QED
      BY <1>2, <3>2, Zenon DEF Entry
  <2> QED
    BY <2>1, Zenon
<1>5. \A s \in S : Idle(st, s)
  <2>1. ASSUME NEW s \in S, NEW j \in st.live, j[1] = s
        PROVE  FALSE
    BY <2>1, <1>3, Zenon DEF Good
  <2> QED
    BY <2>1, <1>3, Zenon DEF Idle, Good
<1>6. Good(L)
  BY <1>3, <1>4, <1>5, LaunchGood, Zenon
<1>7. Drain(st) = [L EXCEPT !.queue = Q]
  BY Zenon DEF Drain
<1>8. \A s \in Subagents : Fenced(s) => L.cur[s] = st.cur[s]
  <2>1. L.cur = [s \in Subagents |-> IF s \in S THEN st.cur[s] + 1 ELSE st.cur[s]]
    BY <1>1, Zenon DEF Launch, Manager
  <2> QED
    BY <2>1, <1>3, Zenon
<1>9. Q \subseteq L.queue
  BY Zenon
<1> HIDE DEF L, Q
<1>10. Good([L EXCEPT !.queue = Q]) /\ [L EXCEPT !.queue = Q].cur = L.cur
  BY <1>6, <1>9, Zenon DEF Good, Manager
<1> QED
  BY <1>7, <1>8, <1>10, Zenon

(* Cancelling running jobs keeps Good: their runs go on until they settle (cancel). *)
LEMMA AbortGood ==
  ASSUME NEW st, Good(st), NEW R
  PROVE  Good(Abort(st, R)) /\ Abort(st, R).cur = st.cur
<1> DEFINE T == [j \in Job |-> IF j \in R \cap RunningJobs(st) THEN "cancelled" ELSE st.status[j]]
<1>1. st \in Manager
  BY Zenon DEF Good
<1>2. T \in [Job -> Lifecycle \ {"queued"}]
  BY <1>1, Fields, Zenon DEF Lifecycle, Active
<1>3. \A j \in st.live : T[j] \in {"running", "cancelled"}
  BY <1>1, Fields, Zenon DEF Good
<1>4. Abort(st, R) = [st EXCEPT !.status = T]
  BY Zenon DEF Abort
<1> HIDE DEF T
<1> QED
  BY <1>1, <1>2, <1>3, <1>4 DEF Good, Manager

(* A paused job has no run under way, and neither has its record (cancel, cancelSubagent). *)
LEMMA CancelPausedGood ==
  ASSUME NEW st, Good(st), NEW P
  PROVE  Good(CancelPaused(st, P)) /\ CancelPaused(st, P).cur = st.cur
<1> DEFINE gone == {j \in P \cap st.jobs : st.status[j] = "paused"}
           T == [j \in Job |-> IF j \in gone THEN "cancelled" ELSE st.status[j]]
           W == st.timers \cup gone
           V == [s \in Subagents |-> IF s \in RecordsOf(st, gone) THEN "cancelled" ELSE st.rec[s]]
<1>1. st \in Manager
  BY Zenon DEF Good
<1>2. /\ T \in [Job -> Lifecycle \ {"queued"}]
      /\ W \subseteq Job
  BY <1>1, Fields, Zenon DEF Lifecycle, Active
<1>3. V \in [Subagents -> Lifecycle \cup {"none"}]
  BY <1>1, Fields, Zenon DEF Lifecycle, Active
<1>4. \A j \in st.live : T[j] \in {"running", "cancelled"}
  BY <1>1, Fields, Zenon DEF Good
<1>5. ASSUME NEW j \in st.live
      PROVE  V[j[1]] \in {"running", "none"}
  <2>1. j \in Job /\ j[1] \in Subagents /\ j = <<j[1], j[2]>>
    BY <1>1, Fields, JobPair, Zenon
  <2>2. j = Current(st, j[1])
    BY <2>1, Zenon DEF Good, Current
  <2>3. j[1] \notin RecordsOf(st, gone)
    BY <2>2, Zenon DEF RecordsOf, Good
  <2> QED
    BY <2>1, <2>3, Zenon DEF Good
<1>6. \A s \in Subagents : V[s] = "queued" => st.cur[s] < MaxRuns
  BY Zenon DEF Good
<1>7. CancelPaused(st, P) = [st EXCEPT !.status = T, !.timers = W, !.rec = V]
  BY Zenon DEF CancelPaused
<1> HIDE DEF T, W, V
<1>8. [st EXCEPT !.status = T, !.timers = W, !.rec = V] \in Manager
  BY <1>1, <1>2, <1>3, Zenon DEF Manager
<1> QED
  BY <1>1, <1>4, <1>5, <1>6, <1>7, <1>8 DEF Good, Manager

(* Giving up queued resumes keeps Good (cancelSubagent). *)
LEMMA CancelQueuedGood ==
  ASSUME NEW st, Good(st), NEW S, \A s \in S \cap Subagents : st.rec[s] = "queued"
  PROVE  Good(CancelQueued(st, S)) /\ CancelQueued(st, S).cur = st.cur
<1> DEFINE Q == {e \in st.queue : e.sub \notin S}
           V == [s \in Subagents |-> IF s \in S THEN "cancelled" ELSE st.rec[s]]
<1>1. st \in Manager
  BY Zenon DEF Good
<1>2. Q \subseteq Entry
  BY <1>1, Fields, Zenon
<1>3. V \in [Subagents -> Lifecycle \cup {"none"}]
  BY <1>1, Fields, Zenon DEF Lifecycle, Active
<1>4. ASSUME NEW j \in st.live
      PROVE  V[j[1]] \in {"running", "none"}
  <2>1. j[1] \in Subagents
    BY <1>1, Fields, JobPair, Zenon
  <2> QED
    BY <2>1, Zenon DEF Good
<1>5. \A s \in Subagents : V[s] = "queued" => st.cur[s] < MaxRuns
  BY Zenon DEF Good
<1>6. CancelQueued(st, S) = [st EXCEPT !.queue = Q, !.rec = V]
  BY Zenon DEF CancelQueued
<1> HIDE DEF Q, V
<1>7. [st EXCEPT !.queue = Q, !.rec = V] \in Manager
  BY <1>1, <1>2, <1>3, Zenon DEF Manager
<1> QED
  BY <1>1, <1>4, <1>5, <1>6, <1>7 DEF Good, Manager

(* A purge forgets records, never runs (#purgeOwnerSubagentState). *)
LEMMA PurgeGood ==
  ASSUME NEW st, Good(st), NEW o
  PROVE  Good(Purge(st, o)) /\ Purge(st, o).cur = st.cur
<1> DEFINE Q == {e \in st.queue : OwnerOf[e.sub] # o}
           V == [s \in Subagents |-> IF OwnerOf[s] = o THEN "none" ELSE st.rec[s]]
           G == [s \in Subagents |-> IF OwnerOf[s] = o THEN NoMessage ELSE st.given[s]]
<1>1. st \in Manager
  BY Zenon DEF Good
<1>2. Q \subseteq Entry /\ G \in [Subagents -> Text]
  BY <1>1, Fields, Zenon DEF Text
<1>3. V \in [Subagents -> Lifecycle \cup {"none"}]
  BY <1>1, Fields, Zenon
<1>4. \A j \in st.live : V[j[1]] \in {"running", "none"}
  BY <1>1, Fields, JobPair, Zenon DEF Good
<1>5. \A s \in Subagents : V[s] = "queued" => st.cur[s] < MaxRuns
  BY Zenon DEF Good
<1>6. Purge(st, o) = [st EXCEPT !.queue = Q, !.rec = V, !.given = G]
  BY Zenon DEF Purge
<1> HIDE DEF Q, V, G
<1>7. [st EXCEPT !.queue = Q, !.rec = V, !.given = G] \in Manager
  BY <1>1, <1>2, <1>3, Zenon DEF Manager
<1> QED
  BY <1>1, <1>4, <1>5, <1>6, <1>7 DEF Good, Manager

(* When a run settles, its record may say so: no other run of the subagent is under way. *)
LEMMA EndedGood ==
  ASSUME NEW st, Good(st), NEW j \in st.live, NEW r \in {"paused", "completed", "cancelled"}
  PROVE  Good(Ended(st, j, r)) /\ Ended(st, j, r).cur = st.cur
<1> DEFINE N == st.live \ {j}
           T == [st.status EXCEPT ![j] = r]
           W == IF r = "paused" THEN st.timers ELSE st.timers \cup {j}
           V == [s \in Subagents |-> IF s \in RecordsOf(st, {j}) THEN r ELSE st.rec[s]]
           G == [st.given EXCEPT ![j[1]] = NoMessage]
<1>1. st \in Manager /\ j \in Job
  BY Fields, Zenon DEF Good
<1>2. T \in [Job -> Lifecycle \ {"queued"}]
  BY <1>1, Fields, Zenon DEF Lifecycle, Active
<1>3. N \subseteq Job /\ W \subseteq Job /\ G \in [Subagents -> Text]
  BY <1>1, Fields, Zenon DEF Text
<1>4. V \in [Subagents -> Lifecycle \cup {"none"}]
  BY <1>1, Fields, Zenon DEF Lifecycle, Active
<1>5. ASSUME NEW k \in N
      PROVE  /\ k[2] = st.cur[k[1]]
             /\ T[k] \in {"running", "cancelled"}
             /\ V[k[1]] \in {"running", "none"}
  <2>1. k \in Job /\ k \in st.live /\ k # j /\ k[1] \in Subagents /\ k = <<k[1], k[2]>>
    BY <1>1, Fields, JobPair, Zenon
  <2>2. k = Current(st, k[1])
    BY <2>1, Zenon DEF Good, Current
  <2>3. k[1] \notin RecordsOf(st, {j})
    BY <2>1, <2>2, Zenon DEF RecordsOf
  <2> QED
    BY <1>1, <2>1, <2>3, Fields DEF Good
<1>6. \A s \in Subagents : V[s] = "queued" => st.cur[s] < MaxRuns
  BY Zenon DEF Good
<1>7. Ended(st, j, r) = [st EXCEPT !.live = N, !.status = T, !.timers = W, !.rec = V, !.given = G]
  BY <1>1, Zenon DEF Ended, Manager
<1> HIDE DEF N, T, W, V, G
<1>8. [st EXCEPT !.live = N, !.status = T, !.timers = W, !.rec = V, !.given = G] \in Manager
  BY <1>1, <1>2, <1>3, <1>4, Zenon DEF Manager
<1> QED
  BY <1>1, <1>5, <1>6, <1>7, <1>8 DEF Good, Manager

-----------------------------------------------------------------------------
IInv == Good(m) /\ seq \in 0 .. MaxResumes

(* What FencedStartsNone says of one step. *)
FencedStep == \A s \in Subagents : Fenced(s) /\ Fenced(s)' => m'.cur[s] = m.cur[s]

(* At the start nothing runs, nothing is recorded and no lease is taken. *)
LEMMA InitGood == Init => IInv
<1> SUFFICES ASSUME Init PROVE IInv
  BY Zenon
<1>1. m \in Manager
  BY SubagentAssumption DEF Init, Manager, Lifecycle, Active, Text
<1>2. m.live = {} /\ \A s \in Subagents : m.rec[s] # "queued"
  BY Zenon DEF Init
<1> QED
  BY <1>1, <1>2, SubagentAssumption DEF IInv, Good, Init

(* Every step keeps Good, and starts no run of an owner that is fenced. *)
LEMMA StepGood ==
  ASSUME IInv, [Next]_vars
  PROVE  Good(m') /\ seq' \in 0 .. MaxResumes /\ FencedStep
<1>0. Good(m) /\ m \in Manager /\ seq \in 0 .. MaxResumes
  BY Zenon DEF IInv, Good
<1>1. ASSUME NEW s \in Subagents, StartTask(s)
      PROVE  Good(m') /\ seq' \in 0 .. MaxResumes /\ FencedStep
  <2>1. Idle(m, s)
    BY <1>0, <1>1, Fields, JobPair, SubagentAssumption DEF StartTask, Idle, Good
  <2>2. [t \in {s} |-> NoMessage] \in [{s} -> Text]
    BY Zenon DEF Text
  <2>3. Good(Launch(m, {s}, [t \in {s} |-> NoMessage]))
    BY <1>0, <2>1, <2>2, LaunchGood, Zenon
  <2>4. \A u \in Subagents : u # s => m'.cur[u] = m.cur[u]
    BY <1>0, <1>1, Zenon DEF StartTask, Launch, Manager
  <2> QED
    BY <1>0, <1>1, <2>3, <2>4, Zenon DEF StartTask, FencedStep
<1>2. ASSUME NEW s \in Subagents, PauseSubagent(s)
      PROVE  Good(m') /\ seq' \in 0 .. MaxResumes /\ FencedStep
  BY <1>0, <1>2, Zenon DEF PauseSubagent, FencedStep
<1>3. ASSUME NEW s \in Subagents, CancelSubagent(s)
      PROVE  Good(m') /\ seq' \in 0 .. MaxResumes /\ FencedStep
  <2>1. CASE m' = Abort(m, {Current(m, s)})
    BY <1>0, <1>3, <2>1, AbortGood, Zenon DEF CancelSubagent, FencedStep
  <2>2. CASE m' = Drain(CancelPaused(m, {Current(m, s)}))
    <3> DEFINE st == CancelPaused(m, {Current(m, s)})
    <3>1. Good(st) /\ st.cur = m.cur
      BY <1>0, CancelPausedGood, Zenon
    <3> HIDE DEF st
    <3>2. Good(Drain(st)) /\ \A u \in Subagents : Fenced(u) => Drain(st).cur[u] = st.cur[u]
      BY <3>1, DrainGood, Zenon
    <3>3. m' = Drain(st)
      BY <2>2, Zenon DEF st
    <3> QED
      BY <1>0, <1>3, <3>1, <3>2, <3>3, Zenon DEF CancelSubagent, FencedStep
  <2>3. CASE m.rec[s] = "queued" /\ m' = CancelQueued(m, {s})
    BY <1>0, <1>3, <2>3, CancelQueuedGood, Zenon DEF CancelSubagent, FencedStep
  <2> QED
    BY <1>3, <2>1, <2>2, <2>3, Zenon DEF CancelSubagent
<1>4. ASSUME NEW s \in Subagents, NEW t \in Text, ResumeSubagent(s, t)
      PROVE  Good(m') /\ seq' \in 0 .. MaxResumes /\ FencedStep
  <2>0. Idle(m, s) \/ m.rec[s] = "queued" \/ ~MayLaunch(s)
    BY <1>0, <1>4, Zenon DEF ResumeSubagent, Idle, Good, MayLaunch
  <2>1. CASE m' = [m EXCEPT !.queue = Retext(@, s, t)] /\ seq' = seq
    <3>1. Retext(m.queue, s, t) \subseteq Entry
      BY <1>0, Fields DEF Retext, Entry
    <3>2. Good(m') /\ m'.cur = m.cur
      BY <1>0, <2>1, <3>1, Zenon DEF Good, Manager
    <3> QED
      BY <1>0, <2>1, <3>2, Zenon DEF FencedStep
  <2>2. CASE /\ m.rec[s] # "queued" /\ MayLaunch(s)
             /\ seq < MaxResumes /\ seq' = seq + 1
             /\ m' = [m EXCEPT !.rec[s] = "queued",
                               !.queue = @ \cup {[sub |-> s, seq |-> seq + 1, msg |-> t]}]
    <3>1. Idle(m, s)
      BY <2>0, <2>2, Zenon
    <3>2. [sub |-> s, seq |-> seq + 1, msg |-> t] \in Entry
      BY <1>0, <2>2, SubagentAssumption DEF Entry
    <3>3. m' \in Manager /\ m'.cur = m.cur /\ m'.live = m.live /\ m'.status = m.status
      BY <1>0, <2>2, <3>2, Zenon DEF Manager, Lifecycle, Active
    <3>4. m'.rec = [m.rec EXCEPT ![s] = "queued"]
      BY <1>0, <2>2, Zenon DEF Manager
    <3>5. \A j \in m'.live : m'.rec[j[1]] \in {"running", "none"}
      BY <1>0, <3>1, <3>3, <3>4, Fields, JobPair DEF Idle, Good
    <3>6. \A u \in Subagents : m'.rec[u] = "queued" => m'.cur[u] < MaxRuns
      BY <1>0, <3>1, <3>3, <3>4, Fields DEF Idle, Good
    <3>7. Good(m')
      BY <1>0, <3>3, <3>5, <3>6 DEF Good
    <3>8. seq' \in 0 .. MaxResumes
      BY <1>0, <2>2, SubagentAssumption
    <3> QED
      BY <3>3, <3>7, <3>8, Zenon DEF FencedStep
  <2>3. CASE /\ m.rec[s] # "queued" /\ MayLaunch(s)
             /\ m' = Launch(m, {s}, [u \in {s} |-> t]) /\ seq' = seq
    <3>1. Idle(m, s)
      BY <2>0, <2>3, Zenon
    <3>2. Good(Launch(m, {s}, [u \in {s} |-> t]))
      BY <1>0, <3>1, LaunchGood, Zenon
    <3>3. \A u \in Subagents : u # s => m'.cur[u] = m.cur[u]
      BY <1>0, <2>3, Zenon DEF Launch, Manager
    <3> QED
      BY <1>0, <1>4, <2>3, <3>2, <3>3, Zenon DEF ResumeSubagent, FencedStep
  <2> QED
    BY <1>4, <2>1, <2>2, <2>3, Zenon DEF ResumeSubagent
<1>5. ASSUME NEW j \in Job, RunSettles(j)
      PROVE  Good(m') /\ seq' \in 0 .. MaxResumes /\ FencedStep
  <2>1. PICK r \in {"paused", "completed", "cancelled"} : m' = Drain(Ended(m, j, r))
    BY <1>5, Zenon DEF RunSettles
  <2>2. Good(Ended(m, j, r)) /\ Ended(m, j, r).cur = m.cur
    BY <1>0, <1>5, EndedGood, Zenon DEF RunSettles
  <2>3. Good(m') /\ \A u \in Subagents : Fenced(u) => m'.cur[u] = m.cur[u]
    BY <2>1, <2>2, DrainGood, Zenon
  <2> QED
    BY <1>0, <1>5, <2>3, Zenon DEF RunSettles, FencedStep
<1>6. ASSUME NEW j \in Job, Evict(j)
      PROVE  Good(m') /\ seq' \in 0 .. MaxResumes /\ FencedStep
  <2> DEFINE T == [m.status EXCEPT ![j] = IF j \in m.live THEN @ ELSE "completed"]
  <2>1. T \in [Job -> Lifecycle \ {"queued"}] /\ \A k \in m.live : T[k] = m.status[k]
    BY <1>0, Fields, Zenon DEF Lifecycle, Active
  <2>2. m' = [m EXCEPT !.jobs = m.jobs \ {j}, !.timers = m.timers \ {j}, !.status = T]
    BY <1>0, <1>6, Zenon DEF Evict, Manager
  <2> HIDE DEF T
  <2>3. Good(m') /\ m'.cur = m.cur
    BY <1>0, <2>1, <2>2, ZenonT(30) DEF Good, Manager
  <2> QED
    BY <1>0, <1>6, <2>3, Zenon DEF Evict, FencedStep
<1>7. ASSUME NEW o \in Closing, CancelOwnAsyncJobs(o)
      PROVE  Good(m') /\ seq' \in 0 .. MaxResumes /\ FencedStep
  <2> DEFINE R == JobsOf(o) \cap RunningJobs(m)
             st == Abort(Purge(m, o), R)
  <2>1. Good(st) /\ st.cur = m.cur
    BY <1>0, PurgeGood, AbortGood
  <2>2. R \subseteq Job
    BY Zenon DEF JobsOf
  <2>3. m' = [st EXCEPT !.timers = @ \cup R]
    BY <1>7, Zenon DEF CancelOwnAsyncJobs
  <2> HIDE DEF R, st
  <2>4. Good(m') /\ m'.cur = st.cur
    BY <2>1, <2>2, <2>3, Zenon DEF Good, Manager
  <2> QED
    BY <1>0, <1>7, <2>1, <2>4, Zenon DEF CancelOwnAsyncJobs, FencedStep
<1>8. ASSUME NEW o \in Closing,
             \/ BeginShutdown(o) \/ AbortFails(o) \/ Confirmed(o) \/ Refused(o) \/ ReplaceFails(o)
      PROVE  Good(m') /\ seq' \in 0 .. MaxResumes /\ FencedStep
  <2>1. m' = m /\ seq' = seq
    BY <1>8, Zenon DEF BeginShutdown, AbortFails, Confirmed, Refused, ReplaceFails
  <2> QED
    BY <1>0, <2>1, Zenon DEF FencedStep
<1>9. ASSUME NEW o \in Closing, CancelTargets(o)
      PROVE  Good(m') /\ seq' \in 0 .. MaxResumes /\ FencedStep
  <2> DEFINE known == {s \in lease[o].records : m.rec[s] # "none"}
             queued == {s \in known : m.rec[s] = "queued"}
             hit == lease[o].backing \cup {Current(m, s) : s \in known \ queued}
             paused == {j \in hit \cap m.jobs : m.status[j] = "paused"}
             st == CancelQueued(m, queued)
  <2>1. Good(st) /\ st.cur = m.cur
    BY <1>0, CancelQueuedGood, Zenon
  <2>2. \/ m' = Abort(st, hit)
        \/ \E C \in SUBSET (hit \cap RunningJobs(m)) :
             m' = Abort(Drain(CancelPaused(Abort(st, C), paused)), hit)
    BY <1>9, Zenon DEF CancelTargets
  <2> HIDE DEF known, queued, hit, paused, st
  <2>3. CASE m' = Abort(st, hit)
    BY <1>0, <1>9, <2>1, <2>3, AbortGood, Zenon DEF CancelTargets, FencedStep
  <2>4. ASSUME NEW C, m' = Abort(Drain(CancelPaused(Abort(st, C), paused)), hit)
        PROVE  Good(m') /\ seq' \in 0 .. MaxResumes /\ FencedStep
    <3> DEFINE a == Abort(st, C)
               c == CancelPaused(a, paused)
               d == Drain(c)
    <3>1. Good(a) /\ a.cur = m.cur
      BY <2>1, AbortGood, Zenon
    <3>2. m' = Abort(d, hit)
      BY <2>4, Zenon
    <3> HIDE DEF a
    <3>3. Good(c) /\ c.cur = m.cur
      BY <3>1, CancelPausedGood, Zenon
    <3> HIDE DEF c
    <3>4. Good(d) /\ \A u \in Subagents : Fenced(u) => d.cur[u] = m.cur[u]
      BY <3>3, DrainGood, Zenon
    <3> HIDE DEF d
    <3>5. Good(m') /\ m'.cur = d.cur
      BY <3>2, <3>4, AbortGood, Zenon
    <3> QED
      BY <1>0, <1>9, <3>4, <3>5, Zenon DEF CancelTargets, FencedStep
  <2> QED
    BY <2>2, <2>3, <2>4, Zenon
<1>10. ASSUME NEW o \in Closing, Commit(o)
       PROVE  Good(m') /\ seq' \in 0 .. MaxResumes /\ FencedStep
  <2> DEFINE paused == {j \in JobsOf(o) \cap m.jobs : m.status[j] = "paused"}
             c == CancelPaused(m, paused)
             st == IF paused = {} THEN m ELSE Drain(c)
             a == Abort(st, JobsOf(o))
  <2>1. m' = Purge(a, o)
    BY <1>10, Zenon DEF Commit
  <2>2. Good(c) /\ c.cur = m.cur
    BY <1>0, CancelPausedGood, Zenon
  <2> HIDE DEF paused, c
  <2>3. Good(st) /\ \A u \in Subagents : Fenced(u) => st.cur[u] = m.cur[u]
    BY <1>0, <2>2, DrainGood, Zenon
  <2> HIDE DEF st
  <2>4. Good(a) /\ a.cur = st.cur
    BY <2>3, AbortGood, Zenon
  <2> HIDE DEF a
  <2>5. Good(m') /\ m'.cur = a.cur
    BY <2>1, <2>4, PurgeGood, Zenon
  <2> QED
    BY <1>0, <1>10, <2>3, <2>4, <2>5, Zenon DEF Commit, FencedStep
<1>11. CASE UNCHANGED vars
  BY <1>0, <1>11, Zenon DEF vars, FencedStep
<1> QED
  BY <1>1, <1>2, <1>3, <1>4, <1>5, <1>6, <1>7, <1>8, <1>9, <1>10, <1>11, Zenon DEF Next

-----------------------------------------------------------------------------
(* What the tables say of each other.                                      *)

(* A queued record has one entry, with the text w that is wanted of it; no other record has one. *)
(* n is the number of resumes that were queued so far.                                           *)
Queue(st, w, n) ==
  /\ \A s \in Subagents : st.rec[s] = "queued" => \E e \in st.queue : e.sub = s /\ e.msg = w[s]
  /\ \A e \in st.queue : st.rec[e.sub] = "queued" /\ e.seq <= n
  /\ \A e, f \in st.queue : e.sub = f.sub \/ e.seq = f.seq => e = f

(* A running record has its run under way and in the table, with the text that is wanted; a      *)
(* paused one has a paused job in the table.  A job that waits for its eviction has ended, or    *)
(* was cancelled when its record was purged.                                                     *)
Table(st, w) ==
  /\ \A s \in Subagents :
       /\ st.cur[s] = 0 => st.rec[s] = "none"
       /\ st.rec[s] = "running" => Current(st, s) \in st.live \cap st.jobs /\ st.given[s] = w[s]
       /\ st.rec[s] = "paused" => Current(st, s) \in st.jobs /\ st.status[Current(st, s)] = "paused"
  /\ \A j \in st.jobs : j[2] <= st.cur[j[1]]
  /\ \A j \in st.timers : /\ j[2] <= st.cur[j[1]]
                          /\ st.status[j] \in {"completed", "cancelled"}
                          /\ j \in st.live => st.rec[j[1]] = "none"
  /\ RunningJobs(st) \subseteq st.live

Sound(st, w, n) == Good(st) /\ Queue(st, w, n) /\ Table(st, w)

(* What may happen to the subagents of an owner o that starts no run: their records end, are     *)
(* purged, or go from running to paused when they were not cancelled; no job of theirs is new.   *)
Calm(st, new, o) ==
  /\ \A s \in Owned(o) :
       /\ new.cur[s] = st.cur[s]
       /\ \/ new.rec[s] \in {st.rec[s], "none"}
          \/ st.rec[s] # "none" /\ new.rec[s] \in {"completed", "cancelled"}
          \/ /\ st.rec[s] = "running" /\ new.rec[s] = "paused"
             /\ st.status[Current(st, s)] = "running"
       /\ new.rec[s] = "running" =>
            new.status[Current(st, s)] \in {st.status[Current(st, s)], "cancelled"}
  /\ JobsOf(o) \cap new.live \subseteq st.live
  /\ JobsOf(o) \cap new.jobs \subseteq st.jobs

(* Nothing is started: the queue and the running jobs become fewer, if anything. *)
Fewer(st, new) == new.queue \subseteq st.queue /\ RunningJobs(new) \subseteq RunningJobs(st)

(* Two changes one after the other, each calm, are calm. *)
LEMMA CalmTwice ==
  ASSUME NEW a, NEW b, NEW c, NEW o, Calm(a, b, o), Calm(b, c, o)
  PROVE  Calm(a, c, o)
<1>1. ASSUME NEW s \in Owned(o)
      PROVE  /\ c.cur[s] = a.cur[s]
             /\ \/ c.rec[s] \in {a.rec[s], "none"}
                \/ a.rec[s] # "none" /\ c.rec[s] \in {"completed", "cancelled"}
                \/ /\ a.rec[s] = "running" /\ c.rec[s] = "paused"
                   /\ a.status[Current(a, s)] = "running"
             /\ c.rec[s] = "running" =>
                  c.status[Current(a, s)] \in {a.status[Current(a, s)], "cancelled"}
  <2>1. Current(b, s) = Current(a, s)
    BY ZenonT(30) DEF Calm, Current
  <2> QED
    BY <2>1 DEF Calm
<1>2. JobsOf(o) \cap c.live \subseteq a.live /\ JobsOf(o) \cap c.jobs \subseteq a.jobs
  BY Zenon DEF Calm
<1> QED
  BY <1>1, <1>2, Zenon DEF Calm

(* Tables that agree on the subagents of o differ by a calm change. *)
LEMMA CalmSame ==
  ASSUME NEW st, NEW new, NEW o,
         \A s \in Owned(o) : new.cur[s] = st.cur[s] /\ new.rec[s] = st.rec[s],
         \A j \in JobsOf(o) : /\ new.status[j] = st.status[j]
                              /\ j \in new.live => j \in st.live
                              /\ j \in new.jobs => j \in st.jobs,
         \A s \in Owned(o) : st.rec[s] = "running" => Current(st, s) \in JobsOf(o)
  PROVE  Calm(st, new, o)
BY Zenon DEF Calm

(* The job of a running or paused record is one of its owner's. *)
LEMMA CurrentIsJob ==
  ASSUME NEW st, NEW w, Good(st), Table(st, w), NEW s \in Subagents, st.rec[s] # "none"
  PROVE  Current(st, s) \in Job /\ Current(st, s) \in JobsOf(OwnerOf[s]) /\ Current(st, s)[1] = s
<1>1. st.cur[s] \in 1 .. MaxRuns
  BY Fields, SubagentAssumption DEF Good, Table
<1> QED
  BY <1>1, Zenon DEF Current, Job, JobsOf

-----------------------------------------------------------------------------
(* The fields of the tables after each change.                             *)

(* The tables after runs were started (register). *)
LEMMA LaunchIs ==
  ASSUME NEW st \in Manager, NEW S, NEW M
  PROVE  /\ Launch(st, S, M).jobs = st.jobs \cup {<<s, st.cur[s] + 1>> : s \in S}
         /\ Launch(st, S, M).live = st.live \cup {<<s, st.cur[s] + 1>> : s \in S}
         /\ Launch(st, S, M).status =
              [j \in Job |-> IF j \in {<<s, st.cur[s] + 1>> : s \in S} THEN "running" ELSE st.status[j]]
         /\ Launch(st, S, M).timers = st.timers
         /\ Launch(st, S, M).cur = [s \in Subagents |-> IF s \in S THEN st.cur[s] + 1 ELSE st.cur[s]]
         /\ Launch(st, S, M).rec = [s \in Subagents |-> IF s \in S THEN "running" ELSE st.rec[s]]
         /\ Launch(st, S, M).queue = st.queue
         /\ Launch(st, S, M).given = [s \in Subagents |-> IF s \in S THEN M[s] ELSE st.given[s]]
BY Zenon DEF Launch, Manager

(* The tables after running jobs were cancelled (cancel). *)
LEMMA AbortIs ==
  ASSUME NEW st \in Manager, NEW R
  PROVE  /\ Abort(st, R) \in Manager
         /\ Abort(st, R).status =
              [j \in Job |-> IF j \in R \cap RunningJobs(st) THEN "cancelled" ELSE st.status[j]]
         /\ Abort(st, R).jobs = st.jobs /\ Abort(st, R).live = st.live
         /\ Abort(st, R).timers = st.timers /\ Abort(st, R).cur = st.cur
         /\ Abort(st, R).rec = st.rec /\ Abort(st, R).queue = st.queue
         /\ Abort(st, R).given = st.given
<1>1. [j \in Job |-> IF j \in R \cap RunningJobs(st) THEN "cancelled" ELSE st.status[j]]
        \in [Job -> Lifecycle \ {"queued"}]
  BY Fields, Zenon DEF Lifecycle, Active
<1> QED
  BY <1>1, Zenon DEF Abort, Manager

(* The tables after paused jobs were cancelled. *)
LEMMA CancelPausedIs ==
  ASSUME NEW st \in Manager, NEW P, NEW gone, gone = {j \in P \cap st.jobs : st.status[j] = "paused"}
  PROVE  /\ CancelPaused(st, P).status =
              [j \in Job |-> IF j \in gone THEN "cancelled" ELSE st.status[j]]
         /\ CancelPaused(st, P).timers = st.timers \cup gone
         /\ CancelPaused(st, P).rec =
              [s \in Subagents |-> IF s \in RecordsOf(st, gone) THEN "cancelled" ELSE st.rec[s]]
         /\ CancelPaused(st, P).jobs = st.jobs /\ CancelPaused(st, P).live = st.live
         /\ CancelPaused(st, P).cur = st.cur /\ CancelPaused(st, P).queue = st.queue
         /\ CancelPaused(st, P).given = st.given
BY Zenon DEF CancelPaused, Manager

(* The tables after queued resumes were given up. *)
LEMMA CancelQueuedIs ==
  ASSUME NEW st \in Manager, NEW S
  PROVE  /\ CancelQueued(st, S).queue = {e \in st.queue : e.sub \notin S}
         /\ CancelQueued(st, S).rec =
              [s \in Subagents |-> IF s \in S THEN "cancelled" ELSE st.rec[s]]
         /\ CancelQueued(st, S).jobs = st.jobs /\ CancelQueued(st, S).live = st.live
         /\ CancelQueued(st, S).status = st.status /\ CancelQueued(st, S).timers = st.timers
         /\ CancelQueued(st, S).cur = st.cur /\ CancelQueued(st, S).given = st.given
BY Zenon DEF CancelQueued, Manager

(* The tables after an owner was purged (#purgeOwnerSubagentState). *)
LEMMA PurgeIs ==
  ASSUME NEW st \in Manager, NEW o
  PROVE  /\ Purge(st, o).queue = {e \in st.queue : OwnerOf[e.sub] # o}
         /\ Purge(st, o).rec = [s \in Subagents |-> IF OwnerOf[s] = o THEN "none" ELSE st.rec[s]]
         /\ Purge(st, o).given =
              [s \in Subagents |-> IF OwnerOf[s] = o THEN NoMessage ELSE st.given[s]]
         /\ Purge(st, o).jobs = st.jobs /\ Purge(st, o).live = st.live
         /\ Purge(st, o).status = st.status /\ Purge(st, o).timers = st.timers
         /\ Purge(st, o).cur = st.cur
BY Zenon DEF Purge, Manager

(* The tables after a run ended. *)
LEMMA EndedIs ==
  ASSUME NEW st \in Manager, NEW j \in Job, NEW r
  PROVE  /\ Ended(st, j, r).live = st.live \ {j}
         /\ Ended(st, j, r).status = [st.status EXCEPT ![j] = r]
         /\ Ended(st, j, r).timers = IF r = "paused" THEN st.timers ELSE st.timers \cup {j}
         /\ Ended(st, j, r).rec =
              [s \in Subagents |-> IF s \in RecordsOf(st, {j}) THEN r ELSE st.rec[s]]
         /\ Ended(st, j, r).given = [st.given EXCEPT ![j[1]] = NoMessage]
         /\ Ended(st, j, r).jobs = st.jobs /\ Ended(st, j, r).cur = st.cur
         /\ Ended(st, j, r).queue = st.queue
BY Zenon DEF Ended, Manager

-----------------------------------------------------------------------------
(* Every change keeps what the tables say of each other.                   *)

(* Starting runs of idle subagents with the texts that are wanted (register). *)
LEMMA LaunchTable ==
  ASSUME NEW st, NEW w, Good(st), Table(st, w), NEW S \in SUBSET Subagents, NEW M,
         \A s \in S : Idle(st, s) /\ M[s] = w[s]
  PROVE  Table(Launch(st, S, M), w)
<1> DEFINE new == {<<s, st.cur[s] + 1>> : s \in S}
           L == Launch(st, S, M)
<1>1. st \in Manager
  BY Zenon DEF Good
<1>2. /\ L.jobs = st.jobs \cup new
      /\ L.live = st.live \cup new
      /\ L.status = [j \in Job |-> IF j \in new THEN "running" ELSE st.status[j]]
      /\ L.timers = st.timers
      /\ L.cur = [s \in Subagents |-> IF s \in S THEN st.cur[s] + 1 ELSE st.cur[s]]
      /\ L.rec = [s \in Subagents |-> IF s \in S THEN "running" ELSE st.rec[s]]
      /\ L.given = [s \in Subagents |-> IF s \in S THEN M[s] ELSE st.given[s]]
  BY <1>1, LaunchIs
<1> HIDE DEF L
<1>3. \A j \in new : j \in Job /\ j[1] \in S /\ j[2] = st.cur[j[1]] + 1
  BY <1>1, Fields, SubagentAssumption DEF Idle, Job
<1>4. \A s \in S : st.cur[s] \in Nat /\ Current(L, s) \in new
  BY <1>1, <1>2, Fields DEF Current
<1>5. \A s \in Subagents \ S : Current(L, s) = Current(st, s) /\ Current(st, s) \notin new
  BY <1>2, <1>3, ZenonT(30) DEF Current
<1>6. ASSUME NEW s \in Subagents
      PROVE  /\ L.cur[s] = 0 => L.rec[s] = "none"
             /\ L.rec[s] = "running" => Current(L, s) \in L.live \cap L.jobs /\ L.given[s] = w[s]
             /\ L.rec[s] = "paused" => Current(L, s) \in L.jobs /\ L.status[Current(L, s)] = "paused"
  <2>1. CASE s \in S
    BY <1>2, <1>4, <2>1
  <2>2. CASE s \notin S
    <3>1. L.cur[s] = st.cur[s] /\ L.rec[s] = st.rec[s] /\ L.given[s] = st.given[s]
      BY <1>2, <2>2, ZenonT(30)
    <3>2. st.jobs \subseteq Job
      BY <1>1, Fields, Zenon
    <3>3. Current(L, s) \in st.jobs => L.status[Current(L, s)] = st.status[Current(L, s)]
      BY <1>2, <1>5, <2>2, <3>2, Zenon
    <3> QED
      BY <1>2, <1>5, <2>2, <3>1, <3>3 DEF Table
  <2> QED
    BY <2>1, <2>2, Zenon
<1>7. ASSUME NEW j \in Job, j[2] <= st.cur[j[1]]
      PROVE  j[2] <= L.cur[j[1]] /\ j \notin new
  BY <1>1, <1>2, <1>3, <1>7, JobPair, Fields
<1>8. ASSUME NEW j \in new
      PROVE  j[2] <= L.cur[j[1]]
  BY <1>1, <1>2, <1>3, <1>4
<1>9. \A j \in L.jobs : j[2] <= L.cur[j[1]]
  BY <1>1, <1>2, <1>7, <1>8, Fields, Zenon DEF Table
<1>10. ASSUME NEW j \in L.timers
       PROVE  /\ j[2] <= L.cur[j[1]]
              /\ L.status[j] \in {"completed", "cancelled"}
              /\ j \in L.live => L.rec[j[1]] = "none"
  <2>1. j \in Job /\ j \in st.timers /\ j[2] <= st.cur[j[1]] /\ j[1] \in Subagents
    BY <1>1, <1>2, Fields, JobPair, Zenon DEF Table
  <2>2. j \notin new /\ j[2] <= L.cur[j[1]]
    BY <2>1, <1>7, Zenon
  <2>3. j \in L.live => j \in st.live /\ j[1] \notin S
    BY <1>2, <2>2, Zenon DEF Idle
  <2> QED
    BY <1>2, <2>1, <2>2, <2>3 DEF Table
<1>11. RunningJobs(L) \subseteq L.live
  BY <1>1, <1>2, Fields DEF Table, RunningJobs
<1> QED
  BY <1>6, <1>9, <1>10, <1>11, Zenon DEF Table, L

(* Cancelling running jobs (cancel): nothing else changes. *)
LEMMA AbortSound ==
  ASSUME NEW st, NEW w, NEW n, Sound(st, w, n), NEW R, NEW o
  PROVE  /\ Sound(Abort(st, R), w, n)
         /\ Calm(st, Abort(st, R), o)
         /\ Fewer(st, Abort(st, R))
<1> DEFINE A == Abort(st, R)
<1>0. Good(A)
  BY AbortGood, Zenon DEF Sound
<1>1. st \in Manager
  BY Zenon DEF Sound, Good
<1>2. /\ A.status = [j \in Job |-> IF j \in R \cap RunningJobs(st) THEN "cancelled" ELSE st.status[j]]
      /\ A.jobs = st.jobs /\ A.live = st.live /\ A.timers = st.timers /\ A.cur = st.cur
      /\ A.rec = st.rec /\ A.queue = st.queue /\ A.given = st.given
  BY <1>1, AbortIs, ZenonT(30)
<1> HIDE DEF A
<1>3. /\ \A s \in Subagents : Current(A, s) = Current(st, s)
      /\ \A j \in Job : st.status[j] # "running" => A.status[j] = st.status[j]
      /\ \A j \in Job : A.status[j] \in {st.status[j], "cancelled"}
  BY <1>2, Zenon DEF Current, RunningJobs
<1>4. st.jobs \subseteq Job /\ st.timers \subseteq Job
  BY <1>1, Fields, Zenon
<1>5. RunningJobs(A) \subseteq RunningJobs(st)
  BY <1>2, <1>3, <1>4, Zenon DEF RunningJobs
<1>6. Queue(A, w, n)
  BY <1>2, ZenonT(30) DEF Queue, Sound
<1>7. Table(A, w)
  <2>1. \A s \in Subagents :
          /\ A.cur[s] = 0 => A.rec[s] = "none"
          /\ A.rec[s] = "running" => Current(A, s) \in A.live \cap A.jobs /\ A.given[s] = w[s]
          /\ A.rec[s] = "paused" => Current(A, s) \in A.jobs /\ A.status[Current(A, s)] = "paused"
    BY <1>2, <1>3, <1>4 DEF Sound, Table
  <2>2. \A j \in A.timers : A.status[j] \in {"completed", "cancelled"}
    BY <1>2, <1>3, <1>4, Zenon DEF Sound, Table
  <2> QED
    BY <1>2, <1>5, <2>1, <2>2 DEF Sound, Table
<1>8. Calm(st, A, o)
  <2>1. ASSUME NEW s \in Owned(o), st.rec[s] = "running"
        PROVE  A.status[Current(st, s)] \in {st.status[Current(st, s)], "cancelled"}
    BY <2>1, <1>3, CurrentIsJob, Zenon DEF Sound, Owned
  <2> QED
    BY <1>2, <2>1, Zenon DEF Calm
<1> QED
  BY <1>0, <1>2, <1>5, <1>6, <1>7, <1>8, Zenon DEF Sound, Fewer, A

(* Cancelling paused jobs that wait for no queued resume (cancel, cancelSubagent). *)
LEMMA CancelPausedSound ==
  ASSUME NEW st, NEW w, NEW n, Sound(st, w, n), NEW P, NEW o,
         \A j \in P \cap st.jobs : st.status[j] = "paused" => st.rec[j[1]] # "queued"
  PROVE  /\ Sound(CancelPaused(st, P), w, n)
         /\ Calm(st, CancelPaused(st, P), o)
         /\ Fewer(st, CancelPaused(st, P))
<1> DEFINE A == CancelPaused(st, P)
<1>g. PICK gone : gone = {j \in P \cap st.jobs : st.status[j] = "paused"}
  BY Zenon
<1>0. Good(A)
  BY CancelPausedGood, Zenon DEF Sound
<1>1. st \in Manager
  BY Zenon DEF Sound, Good
<1>2. /\ A.status = [j \in Job |-> IF j \in gone THEN "cancelled" ELSE st.status[j]]
      /\ A.timers = st.timers \cup gone
      /\ A.rec = [s \in Subagents |-> IF s \in RecordsOf(st, gone) THEN "cancelled" ELSE st.rec[s]]
      /\ A.jobs = st.jobs /\ A.live = st.live /\ A.cur = st.cur
      /\ A.queue = st.queue /\ A.given = st.given
  BY <1>g, <1>1, CancelPausedIs
<1> HIDE DEF A
<1>3. /\ \A s \in Subagents : Current(A, s) = Current(st, s)
      /\ \A j \in Job : A.status[j] \in {st.status[j], "cancelled"}
      /\ \A j \in Job : j \notin gone => A.status[j] = st.status[j]
  BY <1>2, Zenon DEF Current
<1>4. st.jobs \subseteq Job /\ st.timers \subseteq Job /\ gone \subseteq st.jobs
  BY <1>g, <1>1, Fields, Zenon
<1>5. RunningJobs(A) \subseteq RunningJobs(st)
  BY <1>2, <1>3, <1>4, Zenon DEF RunningJobs
<1>6. \A s \in RecordsOf(st, gone) : st.rec[s] \notin {"queued", "none"} /\ Current(st, s) \in gone
  BY <1>g, Zenon DEF RecordsOf, Current
<1>7. \A s \in Subagents : \/ A.rec[s] = st.rec[s] /\ s \notin RecordsOf(st, gone)
                           \/ A.rec[s] = "cancelled" /\ st.rec[s] \notin {"queued", "none"}
  BY <1>2, <1>6, Zenon
<1>8. Queue(A, w, n)
  <2>1. \A s \in Subagents : A.rec[s] = "queued" <=> st.rec[s] = "queued"
    BY <1>7, Zenon
  <2>2. \A e \in st.queue : e.sub \in Subagents
    BY <1>1, Fields, Zenon DEF Entry
  <2> QED
    BY <1>2, <2>1, <2>2 DEF Queue, Sound
<1>9. Table(A, w)
  <2>1. \A s \in Subagents :
          /\ A.cur[s] = 0 => A.rec[s] = "none"
          /\ A.rec[s] = "running" => Current(A, s) \in A.live \cap A.jobs /\ A.given[s] = w[s]
    BY <1>2, <1>3, <1>7 DEF Sound, Table
  <2>2. ASSUME NEW s \in Subagents, A.rec[s] = "paused"
        PROVE  Current(A, s) \in A.jobs /\ A.status[Current(A, s)] = "paused"
    <3>1. st.rec[s] = "paused" /\ s \notin RecordsOf(st, gone)
      BY <1>7, <2>2, Zenon
    <3>2. Current(st, s) \notin gone
      BY <3>1, Zenon DEF RecordsOf
    <3> QED
      BY <1>2, <1>3, <1>4, <3>1, <3>2 DEF Sound, Table
  <2>3. ASSUME NEW j \in A.timers
        PROVE  /\ j[2] <= A.cur[j[1]]
               /\ A.status[j] \in {"completed", "cancelled"}
               /\ j \in A.live => A.rec[j[1]] = "none"
    <3>1. CASE j \in gone
      <4>1. j \in Job /\ j \in st.jobs /\ st.status[j] = "paused" /\ A.status[j] = "cancelled"
        BY <1>g, <1>2, <1>4, <3>1, Zenon
      <4>2. j \notin st.live
        BY <4>1, Zenon DEF Sound, Good
      <4> QED
        BY <1>2, <4>1, <4>2, Zenon DEF Sound, Table
    <3>2. CASE j \in st.timers /\ j \notin gone
      BY <1>2, <1>3, <1>4, <1>7, <3>2, JobPair DEF Sound, Table
    <3> QED
      BY <1>2, <3>1, <3>2, Zenon
  <2> QED
    BY <1>2, <1>5, <2>1, <2>2, <2>3, ZenonT(30) DEF Sound, Table
<1>10. Calm(st, A, o)
  <2>1. ASSUME NEW s \in Owned(o), A.rec[s] = "running"
        PROVE  A.status[Current(st, s)] \in {st.status[Current(st, s)], "cancelled"}
    <3>1. s \in Subagents /\ st.rec[s] = "running"
      BY <1>7, <2>1, Zenon DEF Owned
    <3> QED
      BY <1>3, <3>1, CurrentIsJob, Zenon DEF Sound
  <2>2. Owned(o) \subseteq Subagents
    BY Zenon DEF Owned
  <2>3. \A s \in Owned(o) : \/ A.rec[s] = st.rec[s]
                            \/ st.rec[s] # "none" /\ A.rec[s] = "cancelled"
    BY <1>7, <2>2, Zenon
  <2> QED
    BY <1>2, <2>1, <2>3, Zenon DEF Calm
<1> QED
  BY <1>0, <1>2, <1>5, <1>8, <1>9, <1>10, Zenon DEF Sound, Fewer, A

(* Giving up queued resumes (cancelSubagent). *)
LEMMA CancelQueuedSound ==
  ASSUME NEW st, NEW w, NEW n, Sound(st, w, n), NEW S, NEW o,
         \A s \in S \cap Subagents : st.rec[s] = "queued"
  PROVE  /\ Sound(CancelQueued(st, S), w, n)
         /\ Calm(st, CancelQueued(st, S), o)
         /\ Fewer(st, CancelQueued(st, S))
<1> DEFINE A == CancelQueued(st, S)
<1>0. Good(A)
  BY CancelQueuedGood, Zenon DEF Sound
<1>1. st \in Manager
  BY Zenon DEF Sound, Good
<1>2. /\ A.queue = {e \in st.queue : e.sub \notin S}
      /\ A.rec = [s \in Subagents |-> IF s \in S THEN "cancelled" ELSE st.rec[s]]
      /\ A.jobs = st.jobs /\ A.live = st.live /\ A.status = st.status /\ A.timers = st.timers
      /\ A.cur = st.cur /\ A.given = st.given
  BY <1>1, CancelQueuedIs
<1> HIDE DEF A
<1>3. \A s \in Subagents : Current(A, s) = Current(st, s)
  BY <1>2, Zenon DEF Current
<1>4. \A s \in Subagents : \/ s \notin S /\ A.rec[s] = st.rec[s]
                           \/ s \in S /\ A.rec[s] = "cancelled" /\ st.rec[s] = "queued"
  BY <1>2, Zenon
<1>5. RunningJobs(A) = RunningJobs(st)
  BY <1>2, Zenon DEF RunningJobs
<1>6. Queue(A, w, n)
  <2>1. \A e \in st.queue : e.sub \in Subagents
    BY <1>1, Fields, Zenon DEF Entry
  <2> QED
    BY <1>2, <1>4, <2>1 DEF Queue, Sound
<1>7. Table(A, w)
  <2>1. \A s \in Subagents :
          /\ A.cur[s] = 0 => A.rec[s] = "none"
          /\ A.rec[s] = "running" => Current(A, s) \in A.live \cap A.jobs /\ A.given[s] = w[s]
          /\ A.rec[s] = "paused" => Current(A, s) \in A.jobs /\ A.status[Current(A, s)] = "paused"
    BY <1>2, <1>3, <1>4 DEF Sound, Table
  <2>2. \A j \in st.timers : j[1] \in Subagents
    BY <1>1, Fields, JobPair, Zenon
  <2>3. \A j \in A.timers : j \in A.live => A.rec[j[1]] = "none"
    BY <1>2, <1>4, <2>2 DEF Sound, Table
  <2> QED
    BY <1>2, <1>5, <2>1, <2>3, Zenon DEF Sound, Table
<1>8. Calm(st, A, o)
  <2>1. Owned(o) \subseteq Subagents
    BY Zenon DEF Owned
  <2>2. \A s \in Owned(o) : \/ A.rec[s] = st.rec[s]
                            \/ st.rec[s] # "none" /\ A.rec[s] = "cancelled"
    BY <1>4, <2>1, Zenon
  <2> QED
    BY <1>2, <2>2, Zenon DEF Calm
<1> QED
  BY <1>0, <1>2, <1>5, <1>6, <1>7, <1>8, Zenon DEF Sound, Fewer, A

(* Forgetting the records of an owner (#purgeOwnerSubagentState). *)
LEMMA PurgeSound ==
  ASSUME NEW st, NEW w, NEW n, Sound(st, w, n), NEW p, NEW o
  PROVE  /\ Sound(Purge(st, p), w, n)
         /\ Calm(st, Purge(st, p), o)
         /\ Fewer(st, Purge(st, p))
<1> DEFINE A == Purge(st, p)
<1>0. Good(A)
  BY PurgeGood, Zenon DEF Sound
<1>1. st \in Manager
  BY Zenon DEF Sound, Good
<1>2. /\ A.queue = {e \in st.queue : OwnerOf[e.sub] # p}
      /\ A.rec = [s \in Subagents |-> IF OwnerOf[s] = p THEN "none" ELSE st.rec[s]]
      /\ A.given = [s \in Subagents |-> IF OwnerOf[s] = p THEN NoMessage ELSE st.given[s]]
      /\ A.jobs = st.jobs /\ A.live = st.live /\ A.status = st.status /\ A.timers = st.timers
      /\ A.cur = st.cur
  BY <1>1, PurgeIs
<1> HIDE DEF A
<1>3. \A s \in Subagents : Current(A, s) = Current(st, s)
  BY <1>2, Zenon DEF Current
<1>4. \A s \in Subagents : \/ OwnerOf[s] # p /\ A.rec[s] = st.rec[s] /\ A.given[s] = st.given[s]
                           \/ OwnerOf[s] = p /\ A.rec[s] = "none"
  BY <1>2, ZenonT(30)
<1>5. RunningJobs(A) = RunningJobs(st)
  BY <1>2, Zenon DEF RunningJobs
<1>6. Queue(A, w, n)
  <2>1. \A e \in st.queue : e.sub \in Subagents
    BY <1>1, Fields, Zenon DEF Entry
  <2> QED
    BY <1>2, <1>4, <2>1 DEF Queue, Sound
<1>7. Table(A, w)
  <2>1. \A s \in Subagents :
          /\ A.cur[s] = 0 => A.rec[s] = "none"
          /\ A.rec[s] = "running" => Current(A, s) \in A.live \cap A.jobs /\ A.given[s] = w[s]
          /\ A.rec[s] = "paused" => Current(A, s) \in A.jobs /\ A.status[Current(A, s)] = "paused"
    BY <1>2, <1>3, <1>4 DEF Sound, Table
  <2>2. \A j \in st.timers : j[1] \in Subagents
    BY <1>1, Fields, JobPair, Zenon
  <2>3. \A j \in A.timers : j \in A.live => A.rec[j[1]] = "none"
    BY <1>2, <1>4, <2>2 DEF Sound, Table
  <2> QED
    BY <1>2, <1>5, <2>1, <2>3, Zenon DEF Sound, Table
<1>8. Calm(st, A, o)
  <2>1. Owned(o) \subseteq Subagents
    BY Zenon DEF Owned
  <2>2. \A s \in Owned(o) : A.rec[s] \in {st.rec[s], "none"}
    BY <1>4, <2>1, Zenon
  <2> QED
    BY <1>2, <2>2, Zenon DEF Calm
<1> QED
  BY <1>0, <1>2, <1>5, <1>6, <1>7, <1>8, Zenon DEF Sound, Fewer, A

(* The end of a run: a cancelled one ends as cancelled. *)
LEMMA EndedSound ==
  ASSUME NEW st, NEW w, NEW n, Sound(st, w, n), NEW j \in st.live, NEW o,
         NEW r \in {"paused", "completed", "cancelled"},
         st.status[j] = "cancelled" => r = "cancelled"
  PROVE  /\ Sound(Ended(st, j, r), w, n)
         /\ Calm(st, Ended(st, j, r), o)
         /\ Fewer(st, Ended(st, j, r))
<1> DEFINE A == Ended(st, j, r)
<1>0. Good(A)
  BY EndedGood, Zenon DEF Sound
<1>1. st \in Manager
  BY Zenon DEF Sound, Good
<1>j. j \in Job /\ j[1] \in Subagents /\ j = Current(st, j[1])
  <2>1. j \in Job
    BY <1>1, Fields, Zenon
  <2>2. j[2] = st.cur[j[1]]
    BY Zenon DEF Sound, Good
  <2> QED
    BY <2>1, <2>2, JobPair, Zenon DEF Current
<1>2. /\ A.live = st.live \ {j}
      /\ A.status = [st.status EXCEPT ![j] = r]
      /\ A.timers = IF r = "paused" THEN st.timers ELSE st.timers \cup {j}
      /\ A.rec = [s \in Subagents |-> IF s \in RecordsOf(st, {j}) THEN r ELSE st.rec[s]]
      /\ A.given = [st.given EXCEPT ![j[1]] = NoMessage]
      /\ A.jobs = st.jobs /\ A.cur = st.cur /\ A.queue = st.queue
  BY <1>1, <1>j, EndedIs
<1> HIDE DEF A
<1>3. \A s \in Subagents : Current(A, s) = Current(st, s)
  BY <1>2, Zenon DEF Current
<1>4. /\ st.jobs \subseteq Job /\ st.timers \subseteq Job /\ st.status \in [Job -> Lifecycle \ {"queued"}]
      /\ st.given \in [Subagents -> Text]
  BY <1>1, Fields, Zenon
<1>5. \A k \in Job : k # j => A.status[k] = st.status[k]
  BY <1>2, <1>4, Zenon
<1>6. A.status[j] = r
  BY <1>2, <1>4, <1>j, Zenon
<1>7. \A s \in Subagents :
        \/ /\ s # j[1] \/ st.rec[s] = "none"
           /\ A.rec[s] = st.rec[s] /\ (s # j[1] => A.given[s] = st.given[s])
        \/ s = j[1] /\ st.rec[s] = "running" /\ A.rec[s] = r
  <2>1. ASSUME NEW s \in Subagents, s # j[1]
        PROVE  A.rec[s] = st.rec[s] /\ A.given[s] = st.given[s]
    <3>1. Current(st, s) # j
      BY <1>j, <2>1 DEF Current
    <3> QED
      BY <1>2, <1>4, <2>1, <3>1, Zenon DEF RecordsOf
  <2>2. st.rec[j[1]] \in {"running", "none"}
    BY Zenon DEF Sound, Good
  <2>3. st.rec[j[1]] = "running" => A.rec[j[1]] = r
    BY <1>2, <1>j, Zenon DEF RecordsOf
  <2>4. st.rec[j[1]] = "none" => A.rec[j[1]] = st.rec[j[1]]
    BY <1>2, <1>j, Zenon DEF RecordsOf
  <2> QED
    BY <2>1, <2>2, <2>3, <2>4, Zenon
<1>8. \A s \in Subagents : s # j[1] => Current(st, s) # j
  BY DEF Current
<1>9. RunningJobs(A) \subseteq RunningJobs(st)
  BY <1>2, <1>4, <1>5, <1>6, Zenon DEF RunningJobs
<1>10. j \notin RunningJobs(A)
  BY <1>6, Zenon DEF RunningJobs
<1>11. Queue(A, w, n)
  <2>1. \A s \in Subagents : A.rec[s] = "queued" <=> st.rec[s] = "queued"
    BY <1>7, Zenon
  <2>2. \A e \in st.queue : e.sub \in Subagents
    BY <1>1, Fields, Zenon DEF Entry
  <2> QED
    BY <1>2, <2>1, <2>2, ZenonT(30) DEF Queue, Sound
<1>12. Table(A, w)
  <2>1. ASSUME NEW s \in Subagents
        PROVE  /\ A.cur[s] = 0 => A.rec[s] = "none"
               /\ A.rec[s] = "running" => Current(A, s) \in A.live \cap A.jobs /\ A.given[s] = w[s]
               /\ A.rec[s] = "paused" => Current(A, s) \in A.jobs /\ A.status[Current(A, s)] = "paused"
    <3>1. CASE s = j[1] /\ st.rec[s] = "running" /\ A.rec[s] = r
      BY <1>2, <1>3, <1>6, <1>j, <3>1 DEF Sound, Table
    <3>2. CASE s # j[1] /\ A.rec[s] = st.rec[s] /\ A.given[s] = st.given[s]
      <4>1. Current(st, s) # j
        BY <1>8, <3>2, Zenon
      <4>2. Current(st, s) \in st.jobs => A.status[Current(st, s)] = st.status[Current(st, s)]
        BY <1>4, <1>5, <4>1, Zenon
      <4> QED
        BY <1>2, <1>3, <3>2, <4>1, <4>2 DEF Sound, Table
    <3>3. CASE A.rec[s] = "none"
      BY <3>3, Zenon
    <3> QED
      BY <1>7, <3>1, <3>2, <3>3, Zenon
  <2>2. ASSUME NEW k \in A.timers
        PROVE  /\ k[2] <= A.cur[k[1]]
               /\ A.status[k] \in {"completed", "cancelled"}
               /\ k \in A.live => A.rec[k[1]] = "none"
    <3>1. CASE k = j
      <4>1. r # "paused" \/ j \in st.timers
        BY <1>2, <3>1, Zenon
      <4>2. r # "paused"
        BY <4>1, Zenon DEF Sound, Table, Good
      <4>3. j \in st.jobs \cup st.timers \/ j[2] = st.cur[j[1]]
        BY Zenon DEF Sound, Good
      <4>4. st.cur[j[1]] \in Int
        BY <1>1, <1>j, Fields
      <4> QED
        BY <1>2, <1>6, <1>j, <3>1, <4>2, <4>4 DEF Sound, Good
    <3>2. CASE k # j
      <4>1. k \in st.timers /\ k \in Job /\ k[1] \in Subagents
        BY <1>2, <1>4, <3>2, JobPair, Zenon
      <4>2. A.status[k] = st.status[k] /\ (k \in A.live => k \in st.live)
        BY <1>2, <1>5, <3>2, <4>1, Zenon
      <4>3. st.rec[k[1]] = "none" => A.rec[k[1]] = "none"
        BY <1>7, <4>1, Zenon
      <4> QED
        BY <1>2, <4>1, <4>2, <4>3, Zenon DEF Sound, Table
    <3> QED
      BY <3>1, <3>2, Zenon
  <2>3. RunningJobs(A) \subseteq A.live
    <3>1. RunningJobs(st) \subseteq st.live
      BY Zenon DEF Sound, Table
    <3> QED
      BY <1>2, <1>9, <1>10, <3>1, Zenon
  <2>4. \A k \in A.jobs : k[2] <= A.cur[k[1]]
    BY <1>2, Zenon DEF Sound, Table
  <2> QED
    BY <2>1, <2>2, <2>3, <2>4, Zenon DEF Table
<1>13. Calm(st, A, o)
  <2>1. ASSUME NEW s \in Owned(o)
        PROVE  /\ \/ A.rec[s] \in {st.rec[s], "none"}
                  \/ st.rec[s] # "none" /\ A.rec[s] \in {"completed", "cancelled"}
                  \/ /\ st.rec[s] = "running" /\ A.rec[s] = "paused"
                     /\ st.status[Current(st, s)] = "running"
               /\ A.rec[s] = "running" =>
                    A.status[Current(st, s)] \in {st.status[Current(st, s)], "cancelled"}
    <3>1. s \in Subagents
      BY Zenon DEF Owned
    <3>2. CASE s = j[1] /\ st.rec[s] = "running" /\ A.rec[s] = r
      <4>1. st.status[j] \in {"running", "cancelled"}
        BY Zenon DEF Sound, Good
      <4> QED
        BY <1>j, <3>2, <4>1, Zenon
    <3>3. CASE s # j[1] /\ A.rec[s] = st.rec[s]
      <4>1. st.rec[s] = "running" => Current(st, s) \in Job /\ Current(st, s) # j
        BY <1>8, <3>1, <3>3, CurrentIsJob, Zenon DEF Sound
      <4> QED
        BY <1>5, <3>3, <4>1, Zenon
    <3>4. CASE A.rec[s] = "none"
      BY <3>4, Zenon
    <3> QED
      BY <1>7, <3>1, <3>2, <3>3, <3>4, Zenon
  <2> QED
    BY <1>2, <2>1, Zenon DEF Calm
<1> QED
  BY <1>0, <1>2, <1>9, <1>11, <1>12, <1>13, Zenon DEF Sound, Fewer, A

(* The entries a drain starts, and their subagents. *)
Started(st) == Reached(st, Startable(st))
StartedSubs(st) == {e.sub : e \in Started(st)}

(* A drain starts the entries it reaches, each with its own text.  None of them is stale, for    *)
(* every entry is the only one of a queued record (#drainResumeQueue, #startResume).             *)
LEMMA DrainIs ==
  ASSUME NEW st, NEW w, NEW n, Sound(st, w, n)
  PROVE  \E M : /\ Good(Launch(st, StartedSubs(st), M))
                /\ Drain(st) = [Launch(st, StartedSubs(st), M) EXCEPT !.queue = st.queue \ Started(st)]
                /\ StartedSubs(st) \in SUBSET Subagents
                /\ Started(st) \subseteq st.queue
                /\ \A s \in StartedSubs(st) :
                     Idle(st, s) /\ st.rec[s] = "queued" /\ ~Fenced(s) /\ M[s] = w[s]
<1> DEFINE E == Started(st)
           S == StartedSubs(st)
           msg(s) == (CHOOSE e \in E : e.sub = s).msg
           M == [s \in S |-> msg(s)]
<1>1. st \in Manager
  BY Zenon DEF Sound, Good
<1>2. E \subseteq Startable(st) /\ E \subseteq st.queue /\ E \subseteq Entry
  BY <1>1, Fields, Zenon DEF Started, Reached, Startable
<1>3. S \subseteq Subagents /\ \A s \in S : st.rec[s] = "queued" /\ ~Fenced(s)
  BY <1>2, Zenon DEF Startable, Entry, StartedSubs
<1>4. ASSUME NEW s \in S
      PROVE  msg(s) = w[s] /\ msg(s) \in Text
  <2>1. PICK e \in E : e.sub = s
    BY Zenon DEF StartedSubs
  <2>2. (CHOOSE f \in E : f.sub = s) \in E /\ (CHOOSE f \in E : f.sub = s).sub = s
    BY <2>1, Zenon
  <2>3. PICK f \in st.queue : f.sub = s /\ f.msg = w[s]
    BY <1>3, Zenon DEF Sound, Queue
  <2>4. (CHOOSE g \in E : g.sub = s) = f
    BY <1>2, <2>2, <2>3, Zenon DEF Sound, Queue
  <2> QED
    BY <1>2, <2>2, <2>3, <2>4, Zenon DEF Entry
<1>5. ASSUME NEW s \in S
      PROVE  Idle(st, s)
  <2>1. ASSUME NEW j \in st.live, j[1] = s
        PROVE  FALSE
    BY <2>1, <1>3, Zenon DEF Sound, Good
  <2> QED
    BY <2>1, <1>3, Zenon DEF Idle, Sound, Good
<1>6. M \in [S -> Text]
  BY <1>4, Zenon
<1>7. Good(Launch(st, S, M))
  BY <1>3, <1>5, <1>6, LaunchGood, Zenon DEF Sound
<1>8. Stale(st) = {}
  <2>1. ASSUME NEW e \in st.queue, NEW f \in Startable(st), f.sub = e.sub, f.seq < e.seq
        PROVE  FALSE
    <3>1. f = e
      BY <2>1, Zenon DEF Startable, Sound, Queue
    <3>2. e.seq \in Int
      BY <1>1, Fields DEF Entry
    <3> QED
      BY <2>1, <3>1, <3>2
  <2> QED
    BY <2>1, ZenonT(30) DEF Stale, Sound, Queue
<1>9. Reached(st, Stale(st)) = {}
  BY <1>8, Zenon DEF Reached
<1>10. Launch(st, S, M).queue = st.queue
  BY <1>1, Zenon DEF Launch, Manager
<1>11. Drain(st) = [Launch(st, S, M) EXCEPT
                      !.queue = Launch(st, S, M).queue \ (E \cup Reached(st, Stale(st)))]
  BY Zenon DEF Drain, Started, StartedSubs
<1>12. Drain(st) = [Launch(st, S, M) EXCEPT !.queue = st.queue \ E]
  BY <1>9, <1>10, <1>11, Zenon
<1>13. \A s \in S : M[s] = w[s]
  BY <1>4, Zenon
<1> HIDE DEF M
<1> QED
  BY <1>2, <1>3, <1>5, <1>7, <1>12, <1>13, Zenon DEF S, E

(* A drain keeps what the tables say of each other, and a fenced owner does not notice it. *)
LEMMA DrainSound ==
  ASSUME NEW st, NEW w, NEW n, Sound(st, w, n), NEW o
  PROVE  /\ Sound(Drain(st), w, n)
         /\ (\A s \in Owned(o) : Fenced(s)) => Calm(st, Drain(st), o)
         /\ Drain(st).queue \subseteq st.queue
<1> DEFINE S == StartedSubs(st)
           D == Drain(st)
           E == Started(st)
<1>1. PICK M : /\ Good(Launch(st, S, M))
               /\ D = [Launch(st, S, M) EXCEPT !.queue = st.queue \ E]
               /\ S \in SUBSET Subagents
               /\ E \subseteq st.queue
               /\ \A s \in S : Idle(st, s) /\ st.rec[s] = "queued" /\ ~Fenced(s) /\ M[s] = w[s]
  BY DrainIs, Zenon
<1> HIDE DEF S, D, E
<1> DEFINE L == Launch(st, S, M)
           new == {<<s, st.cur[s] + 1>> : s \in S}
<1>2. st \in Manager /\ Good(st)
  BY Zenon DEF Sound, Good
<1>3. Table(L, w)
  BY <1>1, LaunchTable, Zenon DEF Sound
<1>4. /\ L.jobs = st.jobs \cup new
      /\ L.live = st.live \cup new
      /\ L.status = [j \in Job |-> IF j \in new THEN "running" ELSE st.status[j]]
      /\ L.cur = [s \in Subagents |-> IF s \in S THEN st.cur[s] + 1 ELSE st.cur[s]]
      /\ L.rec = [s \in Subagents |-> IF s \in S THEN "running" ELSE st.rec[s]]
      /\ L.queue = st.queue
  BY <1>2, Zenon DEF Launch, Manager
<1>5. Good(L)
  BY <1>1, Zenon
<1> HIDE DEF L
<1>6. L \in Manager /\ st.queue \ E \subseteq Entry
  BY <1>2, <1>5, Fields, Zenon DEF Good
<1>7. /\ D.queue = st.queue \ E
      /\ D.jobs = L.jobs /\ D.live = L.live /\ D.status = L.status /\ D.timers = L.timers
      /\ D.cur = L.cur /\ D.rec = L.rec /\ D.given = L.given /\ D \in Manager
  BY <1>1, <1>6, Zenon DEF Manager, L
<1>8. Good(D)
  BY <1>5, <1>7, ZenonT(30) DEF Good
<1>9. RunningJobs(D) = RunningJobs(L) /\ \A s \in Subagents : Current(D, s) = Current(L, s)
  BY <1>7, Zenon DEF RunningJobs, Current
<1>10. Table(D, w)
  BY <1>3, <1>7, <1>9 DEF Table
<1>11. Queue(D, w, n)
  <2>1. \A e \in st.queue : e.sub \in Subagents
    BY <1>2, Fields, Zenon DEF Entry
  <2>2. ASSUME NEW s \in Subagents, D.rec[s] = "queued"
        PROVE  \E e \in D.queue : e.sub = s /\ e.msg = w[s]
    <3>1. s \notin S /\ st.rec[s] = "queued"
      BY <1>4, <1>7, <2>2
    <3>2. PICK e \in st.queue : e.sub = s /\ e.msg = w[s]
      BY <3>1, Zenon DEF Sound, Queue
    <3>3. e \notin E
      BY <3>1, <3>2, Zenon DEF S, E, StartedSubs
    <3> QED
      BY <1>7, <3>2, <3>3, Zenon
  <2>3. ASSUME NEW e \in D.queue
        PROVE  D.rec[e.sub] = "queued"
    <3>1. e \in st.queue /\ e \notin E
      BY <1>7, Zenon
    <3>2. ASSUME e.sub \in S
          PROVE  FALSE
      <4>1. PICK f \in E : f.sub = e.sub
        BY <3>2, Zenon DEF S, E, StartedSubs
      <4> QED
        BY <1>1, <3>1, <4>1, Zenon DEF Sound, Queue
    <3>3. e.sub \in Subagents /\ st.rec[e.sub] = "queued"
      BY <2>1, <3>1, Zenon DEF Sound, Queue
    <3> QED
      BY <1>4, <1>7, <3>2, <3>3
  <2> QED
    BY <1>7, <2>2, <2>3, Zenon DEF Sound, Queue
<1>12. ASSUME \A s \in Owned(o) : Fenced(s)
       PROVE  Calm(st, D, o)
  <2>1. Owned(o) \subseteq Subagents /\ Owned(o) \cap S = {}
    BY <1>1, <1>12, Zenon DEF Owned
  <2>2. \A s \in Owned(o) : D.cur[s] = st.cur[s] /\ D.rec[s] = st.rec[s]
    BY <1>4, <1>7, <2>1
  <2>3. \A j \in JobsOf(o) : j \notin new /\ j \in Job
    BY <1>1, <1>12 DEF JobsOf, Owned
  <2>4. \A j \in JobsOf(o) : /\ D.status[j] = st.status[j]
                             /\ j \in D.live => j \in st.live
                             /\ j \in D.jobs => j \in st.jobs
    BY <1>4, <1>7, <2>3
  <2>5. \A s \in Owned(o) : st.rec[s] = "running" => Current(st, s) \in JobsOf(o)
    BY CurrentIsJob, Zenon DEF Sound, Owned
  <2> QED
    BY <2>2, <2>4, <2>5, CalmSame, Zenon
<1> QED
  BY <1>7, <1>8, <1>10, <1>11, <1>12, Zenon DEF Sound, D

(* The text that is wanted matters for queued and running subagents only. *)
LEMMA SoundWanted ==
  ASSUME NEW st, NEW w, NEW n, Sound(st, w, n), NEW v,
         \A s \in Subagents : st.rec[s] \in {"queued", "running"} => v[s] = w[s]
  PROVE  Sound(st, v, n)
<1>1. Queue(st, v, n)
  BY DEF Sound, Queue
<1>2. Table(st, v)
  BY DEF Sound, Table
<1> QED
  BY <1>1, <1>2, Zenon DEF Sound

-----------------------------------------------------------------------------
(* The leases.                                                             *)

Fencing == {"active", "proving", "proved"}

Lease == [phase : Fencing \cup {"none", "abandoned"}, records : SUBSET Subagents,
          backing : SUBSET Job, awaited : SUBSET Job]

(* What a lease l says of its owner's subagents: it has captured every active record and every   *)
(* run that the manager knows.  Once the targets are cancelled none is queued or paused, and     *)
(* those that run on were cancelled.  On proof, what was captured has settled.                   *)
Fence(st, l, o) ==
  /\ l.phase \in Fencing =>
       /\ l.records \subseteq Owned(o) /\ l.backing \subseteq JobsOf(o)
       /\ \A s \in Owned(o) : st.rec[s] \in Active => s \in l.records
       /\ \A j \in JobsOf(o) \cap st.live :
            j \in l.backing \/ (j \notin st.jobs /\ st.rec[j[1]] = "none")
  /\ l.phase \in {"proving", "proved"} =>
       \A s \in Owned(o) : /\ st.rec[s] \notin {"queued", "paused"}
                           /\ st.rec[s] = "running" => st.status[Current(st, s)] = "cancelled"
  /\ l.phase = "proved" => l.backing \cap st.live = {}

SInv ==
  /\ Sound(m, wanted, seq)
  /\ \A s \in Subagents : m.rec[s] \notin {"queued", "running"} => wanted[s] = NoMessage
  /\ wanted \in [Subagents -> Text]
  /\ seq \in 0 .. MaxResumes
  /\ lease \in [Owners -> Lease]
  /\ \A o \in Owners : Fence(m, lease[o], o)

(* A calm change keeps what the lease says. *)
LEMMA CalmFence ==
  ASSUME NEW st, NEW new, NEW l, NEW o, Calm(st, new, o), Fence(st, l, o)
  PROVE  Fence(new, l, o)
<1>1. \A s \in Owned(o) : Current(new, s) = Current(st, s)
  BY Zenon DEF Calm, Current
<1>2. ASSUME l.phase \in Fencing
      PROVE  /\ l.backing \subseteq JobsOf(o)
             /\ \A s \in Owned(o) : new.rec[s] \in Active => s \in l.records
             /\ \A j \in JobsOf(o) \cap new.live :
                  j \in l.backing \/ (j \notin new.jobs /\ new.rec[j[1]] = "none")
  <2>1. l.backing \subseteq JobsOf(o)
    BY <1>2, Zenon DEF Fence
  <2>2. ASSUME NEW s \in Owned(o), new.rec[s] \in Active
        PROVE  s \in l.records
    <3>1. st.rec[s] \in Active
      BY <2>2, Zenon DEF Calm, Active
    <3> QED
      BY <1>2, <3>1, Zenon DEF Fence
  <2>3. ASSUME NEW j \in JobsOf(o) \cap new.live, j \notin l.backing
        PROVE  j \notin new.jobs /\ new.rec[j[1]] = "none"
    <3>1. j \in JobsOf(o) \cap st.live
      BY Zenon DEF Calm
    <3>2. j \notin st.jobs /\ st.rec[j[1]] = "none"
      BY <1>2, <2>3, <3>1, Zenon DEF Fence
    <3>3. j[1] \in Owned(o)
      BY <3>1, JobPair, Zenon DEF JobsOf, Owned
    <3>4. new.rec[j[1]] = "none"
      BY <3>2, <3>3, Zenon DEF Calm
    <3>5. j \notin new.jobs
      BY <3>1, <3>2, Zenon DEF Calm
    <3> QED
      BY <3>4, <3>5, Zenon
  <2> QED
    BY <2>1, <2>2, <2>3, Zenon
<1>3. ASSUME l.phase \in {"proving", "proved"}, NEW s \in Owned(o)
      PROVE  /\ new.rec[s] \notin {"queued", "paused"}
             /\ new.rec[s] = "running" => new.status[Current(new, s)] = "cancelled"
  <2>1. /\ st.rec[s] \notin {"queued", "paused"}
        /\ st.rec[s] = "running" => st.status[Current(st, s)] = "cancelled"
    BY <1>3, Zenon DEF Fence
  <2> QED
    BY <1>1, <2>1 DEF Calm
<1>4. ASSUME l.phase = "proved"
      PROVE  l.backing \cap new.live = {}
  <2>1. l.backing \subseteq JobsOf(o) /\ l.backing \cap st.live = {}
    BY <1>4, Zenon DEF Fence, Fencing
  <2> QED
    BY <2>1, Zenon DEF Calm
<1> QED
  BY <1>2, <1>3, <1>4, Zenon DEF Fence

(* Every subagent of an owner with a lease is fenced, and no other is. *)
LEMMA OwnerFenced ==
  ASSUME NEW o \in Owners
  PROVE  /\ lease[o].phase \in Fencing => \A s \in Owned(o) : Fenced(s)
         /\ \A s \in Owned(o) : Fenced(s) => lease[o].phase \in Fencing
BY Zenon DEF Owned, Fenced, Fencing

(* A step that leaves the leases alone and is calm for the fenced owners keeps every fence. *)
LEMMA FencesKept ==
  ASSUME SInv, lease' = lease,
         \A o \in Owners : lease[o].phase \in Fencing => Calm(m, m', o)
  PROVE  lease' \in [Owners -> Lease] /\ \A o \in Owners : Fence(m', lease'[o], o)
<1>1. ASSUME NEW o \in Owners
      PROVE  Fence(m', lease[o], o)
  <2>1. CASE lease[o].phase \in Fencing
    BY <2>1, CalmFence, Zenon DEF SInv
  <2>2. CASE lease[o].phase \notin Fencing
    BY <2>2, Zenon DEF Fence, Fencing
  <2> QED
    BY <2>1, <2>2, Zenon
<1> QED
  BY <1>1, Zenon DEF SInv

(* A step in which owner o's lease becomes l, and that is calm for the other fenced owners. *)
LEMMA FenceChanged ==
  ASSUME SInv, NEW o \in Owners, NEW l \in Lease, lease' = [lease EXCEPT ![o] = l],
         Fence(m', l, o),
         \A p \in Owners : lease[p].phase \in Fencing => Calm(m, m', p)
  PROVE  lease' \in [Owners -> Lease] /\ \A p \in Owners : Fence(m', lease'[p], p)
<1>1. ASSUME NEW p \in Owners, p # o
      PROVE  Fence(m', lease[p], p)
  <2>1. CASE lease[p].phase \in Fencing
    BY <2>1, CalmFence, Zenon DEF SInv
  <2>2. CASE lease[p].phase \notin Fencing
    BY <2>2, Zenon DEF Fence, Fencing
  <2> QED
    BY <2>1, <2>2, Zenon
<1>2. lease \in [Owners -> Lease]
  BY Zenon DEF SInv
<1>3. lease' \in [Owners -> Lease] /\ lease'[o] = l /\ \A p \in Owners : p # o => lease'[p] = lease[p]
  BY <1>2, Zenon
<1>4. ASSUME NEW p \in Owners
      PROVE  Fence(m', lease'[p], p)
  BY <1>1, <1>3, Zenon
<1> QED
  BY <1>3, <1>4, Zenon

(* A lease that is gone says nothing. *)
LEMMA NoFence ==
  ASSUME NEW st, NEW o
  PROVE  /\ NoLease \in Lease /\ Fence(st, NoLease, o)
         /\ [NoLease EXCEPT !.phase = "abandoned"] \in Lease
         /\ Fence(st, [NoLease EXCEPT !.phase = "abandoned"], o)
BY Zenon DEF NoLease, Lease, Fence, Fencing

-----------------------------------------------------------------------------
(* The steps.                                                              *)

Kept ==
  /\ Sound(m', wanted', seq')
  /\ \A s \in Subagents : m'.rec[s] \notin {"queued", "running"} => wanted'[s] = NoMessage
  /\ wanted' \in [Subagents -> Text]
  /\ seq' \in 0 .. MaxResumes

Calmed == \A o \in Owners : lease[o].phase \in Fencing => Calm(m, m', o)

(* The texts that are wanted after a step that keeps the tables sound. *)
LEMMA WantedKept ==
  ASSUME NEW w \in [Subagents -> Text], Sound(m', w, seq'), StillWanted(w), seq' \in 0 .. MaxResumes
  PROVE  Kept
<1>1. /\ \A s \in Subagents : m'.rec[s] \in {"queued", "running"} => wanted'[s] = w[s]
      /\ \A s \in Subagents : m'.rec[s] \notin {"queued", "running"} => wanted'[s] = NoMessage
      /\ wanted' \in [Subagents -> Text]
  BY Zenon DEF StillWanted, Text
<1>2. Sound(m', wanted', seq')
  BY <1>1, SoundWanted, Zenon
<1> QED
  BY <1>1, <1>2, Zenon DEF Kept

(* One run is started, of a subagent that is idle and not queued. *)
LEMMA LaunchOne ==
  ASSUME NEW st, NEW w, NEW n, Sound(st, w, n), NEW s \in Subagents, NEW t \in Text,
         Idle(st, s), st.rec[s] # "queued", w[s] = t
  PROVE  /\ Sound(Launch(st, {s}, [u \in {s} |-> t]), w, n)
         /\ \A o : s \notin Owned(o) => Calm(st, Launch(st, {s}, [u \in {s} |-> t]), o)
<1> DEFINE M == [u \in {s} |-> t]
           new == {<<u, st.cur[u] + 1>> : u \in {s}}
           L == Launch(st, {s}, M)
<1>1. Good(st) /\ Table(st, w) /\ st \in Manager
  BY Zenon DEF Sound, Good
<1>2. M \in [{s} -> Text] /\ M[s] = t
  BY Zenon
<1> HIDE DEF M
<1>s. {s} \in SUBSET Subagents /\ \A u \in {s} : Idle(st, u) /\ M[u] = w[u]
  BY <1>2, Zenon
<1>3. Good(L)
  BY <1>1, <1>2, <1>s, LaunchGood, Zenon
<1>4. Table(L, w)
  BY <1>1, <1>s, LaunchTable, Zenon
<1>5. /\ L.jobs = st.jobs \cup new
      /\ L.live = st.live \cup new
      /\ L.status = [j \in Job |-> IF j \in new THEN "running" ELSE st.status[j]]
      /\ L.cur = [u \in Subagents |-> IF u \in {s} THEN st.cur[u] + 1 ELSE st.cur[u]]
      /\ L.rec = [u \in Subagents |-> IF u \in {s} THEN "running" ELSE st.rec[u]]
      /\ L.queue = st.queue
  BY <1>1, Zenon DEF Launch, Manager
<1> HIDE DEF L
<1>6. Queue(L, w, n)
  <2>1. \A u \in Subagents : L.rec[u] = "queued" <=> st.rec[u] = "queued"
    BY <1>5, Zenon
  <2>2. \A e \in st.queue : e.sub \in Subagents
    BY <1>1, Fields, Zenon DEF Entry
  <2> QED
    BY <1>5, <2>1, <2>2 DEF Queue, Sound
<1>7. ASSUME NEW o, s \notin Owned(o)
      PROVE  Calm(st, L, o)
  <2>1. \A u \in Owned(o) : L.cur[u] = st.cur[u] /\ L.rec[u] = st.rec[u]
    BY <1>5, <1>7, Zenon DEF Owned
  <2>2. \A j \in JobsOf(o) : j \notin new /\ j \in Job
    BY <1>7 DEF JobsOf, Owned
  <2>3. \A j \in JobsOf(o) : /\ L.status[j] = st.status[j]
                             /\ j \in L.live => j \in st.live
                             /\ j \in L.jobs => j \in st.jobs
    BY <1>5, <2>2, Zenon
  <2>4. \A u \in Owned(o) : st.rec[u] = "running" => Current(st, u) \in JobsOf(o)
    BY <1>1, CurrentIsJob, Zenon DEF Owned
  <2> QED
    BY <2>1, <2>3, <2>4, CalmSame, Zenon
<1> QED
  BY <1>3, <1>4, <1>6, <1>7, Zenon DEF Sound, L, M

(* The task tool starts a run of a subagent that never had one. *)
LEMMA StartTaskKept ==
  ASSUME SInv, NEW s \in Subagents, StartTask(s)
  PROVE  Kept /\ Calmed
<1>1. Sound(m, wanted, seq) /\ Good(m) /\ Table(m, wanted) /\ m \in Manager
  BY Zenon DEF SInv, Sound, Good
<1>2. /\ m.cur[s] = 0 /\ m.rec[s] = "none" /\ ~Fenced(s)
      /\ m' = Launch(m, {s}, [t \in {s} |-> NoMessage])
  BY <1>1, Zenon DEF StartTask, Table
<1>3. Idle(m, s)
  BY <1>1, <1>2, Fields, JobPair, SubagentAssumption DEF Idle, Good
<1>4. wanted[s] = NoMessage /\ NoMessage \in Text
  BY <1>2, Zenon DEF SInv, Text
<1>5. /\ Sound(m', wanted, seq)
      /\ \A o : s \notin Owned(o) => Calm(m, m', o)
  <2>1. m.rec[s] # "queued"
    BY <1>2, Zenon
  <2>2. /\ Sound(Launch(m, {s}, [t \in {s} |-> NoMessage]), wanted, seq)
        /\ \A o : s \notin Owned(o) => Calm(m, Launch(m, {s}, [t \in {s} |-> NoMessage]), o)
    BY <1>1, <1>3, <1>4, <2>1, LaunchOne, ZenonT(30)
  <2> QED
    BY <1>2, <2>2, Zenon
<1>6. wanted' = wanted /\ seq' = seq
  BY Zenon DEF StartTask
<1>7. \A u \in Subagents : m'.rec[u] \notin {"queued", "running"} => wanted[u] = NoMessage
  <2>1. m'.rec = [u \in Subagents |-> IF u \in {s} THEN "running" ELSE m.rec[u]]
    BY <1>1, <1>2, Zenon DEF Launch, Manager
  <2> QED
    BY <2>1, Zenon DEF SInv
<1>8. Kept
  BY <1>5, <1>6, <1>7, Zenon DEF Kept, SInv
<1>9. Calmed
  BY <1>2, <1>5, OwnerFenced, Zenon DEF Calmed
<1> QED
  BY <1>8, <1>9, Zenon

(* A resume with a message gives a queued one its text; the entry keeps its place. *)
LEMMA RetextQueue ==
  ASSUME NEW st, NEW w, NEW n, Sound(st, w, n), NEW s \in Subagents, NEW t \in Text,
         st.rec[s] = "queued", NEW v, v[s] = t, \A u \in Subagents : u # s => v[u] = w[u],
         NEW new, new.rec = st.rec, new.queue = Retext(st.queue, s, t)
  PROVE  Queue(new, v, n) /\ new.queue \subseteq Entry
<1>0. st \in Manager
  BY Zenon DEF Sound, Good
<1>1. st.queue \subseteq Entry
  BY <1>0, Fields, Zenon
<1> DEFINE text(e) == IF e.sub = s /\ \A f \in st.queue : f.sub = s => e.seq <= f.seq
                      THEN [e EXCEPT !.msg = t] ELSE e
<1>2. new.queue = {text(e) : e \in st.queue}
  BY Zenon DEF Retext
<1>3. ASSUME NEW e \in st.queue
      PROVE  /\ text(e) \in Entry /\ text(e).sub = e.sub /\ text(e).seq = e.seq
             /\ e.sub = s => text(e).msg = t
             /\ e.sub # s => text(e).msg = e.msg
  <2>1. e \in Entry /\ e.seq \in Int
    BY <1>1 DEF Entry
  <2>2. CASE e.sub = s
    <3>1. \A f \in st.queue : f.sub = s => e.seq <= f.seq
      BY <2>1, <2>2 DEF Sound, Queue
    <3> QED
      BY <2>1, <2>2, <3>1, Zenon DEF Entry
  <2>3. CASE e.sub # s
    BY <2>1, <2>3, Zenon
  <2> QED
    BY <2>2, <2>3, Zenon
<1> HIDE DEF text
<1>4. \A u \in Subagents : new.rec[u] = "queued" => \E e \in new.queue : e.sub = u /\ e.msg = v[u]
  <2> SUFFICES ASSUME NEW u \in Subagents, new.rec[u] = "queued"
               PROVE  \E e \in new.queue : e.sub = u /\ e.msg = v[u]
    BY Zenon
  <2>1. PICK e \in st.queue : e.sub = u /\ e.msg = w[u]
    BY Zenon DEF Sound, Queue
  <2>2. text(e).sub = u /\ text(e).msg = v[u] /\ text(e) \in new.queue
    BY <1>2, <1>3, <2>1, Zenon
  <2> QED
    BY <2>2, Zenon
<1>5. ASSUME NEW g \in new.queue
      PROVE  new.rec[g.sub] = "queued" /\ g.seq <= n
  <2>1. PICK e \in st.queue : g = text(e)
    BY <1>2, Zenon
  <2>2. g.sub = e.sub /\ g.seq = e.seq
    BY <1>3, <2>1, Zenon
  <2>3. st.rec[e.sub] = "queued" /\ e.seq <= n
    BY Zenon DEF Sound, Queue
  <2> QED
    BY <2>2, <2>3, Zenon
<1>6. ASSUME NEW g \in new.queue, NEW h \in new.queue, g.sub = h.sub \/ g.seq = h.seq
      PROVE  g = h
  <2>1. PICK e \in st.queue : g = text(e)
    BY <1>2, Zenon
  <2>2. PICK f \in st.queue : h = text(f)
    BY <1>2, Zenon
  <2>3. g.sub = e.sub /\ g.seq = e.seq /\ h.sub = f.sub /\ h.seq = f.seq
    BY <1>3, <2>1, <2>2, Zenon
  <2>4. e = f
    BY <1>6, <2>3, ZenonT(30) DEF Sound, Queue
  <2> QED
    BY <2>1, <2>2, <2>4, Zenon
<1>7. new.queue \subseteq Entry
  BY <1>2, <1>3, Zenon
<1> QED
  BY <1>4, <1>5, <1>6, <1>7, Zenon DEF Queue

(* A resume changes the text of a queued one, is queued itself, or starts a run. *)
LEMMA ResumeKept ==
  ASSUME SInv, NEW s \in Subagents, NEW t \in Text, ResumeSubagent(s, t)
  PROVE  Kept /\ Calmed
<1>0. PICK w : w = [wanted EXCEPT ![s] = t]
  BY Zenon
<1>1. Sound(m, wanted, seq) /\ Good(m) /\ Queue(m, wanted, seq) /\ Table(m, wanted) /\ m \in Manager
  BY Zenon DEF SInv, Sound, Good
<1>2. wanted \in [Subagents -> Text] /\ seq \in 0 .. MaxResumes
  BY Zenon DEF SInv
<1>3. w \in [Subagents -> Text] /\ w[s] = t /\ \A u \in Subagents : u # s => w[u] = wanted[u]
  BY <1>0, <1>2, Zenon
<1>4. m.rec[s] \notin {"none", "running"} /\ ~Fenced(s) /\ StillWanted(w)
  BY <1>0, Zenon DEF ResumeSubagent
<1>5. \A o \in Owners : lease[o].phase \in Fencing => s \notin Owned(o)
  BY <1>4, OwnerFenced, Zenon
<1>6. Table(m, w)
  <2>1. \A u \in Subagents : m.rec[u] = "running" => w[u] = wanted[u]
    BY <1>3, <1>4, Zenon
  <2> QED
    BY <1>1, <2>1 DEF Table
<1>7. ASSUME m.rec[s] # "queued"
      PROVE  Sound(m, w, seq)
  <2>1. \A u \in Subagents : m.rec[u] \in {"queued", "running"} => w[u] = wanted[u]
    BY <1>3, <1>4, <1>7, Zenon
  <2> QED
    BY <1>1, <2>1, SoundWanted, Zenon
<1>8. CASE m.rec[s] = "queued" /\ m' = [m EXCEPT !.queue = Retext(@, s, t)] /\ seq' = seq
  <2>1. /\ m'.queue = Retext(m.queue, s, t)
        /\ m'.rec = m.rec /\ m'.jobs = m.jobs /\ m'.live = m.live /\ m'.status = m.status
        /\ m'.timers = m.timers /\ m'.cur = m.cur /\ m'.given = m.given
    BY <1>1, <1>8, Zenon DEF Manager
  <2>2. Queue(m', w, seq) /\ m'.queue \subseteq Entry
    <3>1. w[s] = t /\ (\A u \in Subagents : u # s => w[u] = wanted[u]) /\ m.rec[s] = "queued"
      BY <1>3, <1>8, Zenon
    <3>2. m'.rec = m.rec /\ m'.queue = Retext(m.queue, s, t) /\ Sound(m, wanted, seq)
      BY <1>1, <2>1, Zenon
    <3> QED
      BY <3>1, <3>2, RetextQueue, ZenonT(30)
  <2>3. Good(m')
    <3>1. m' \in Manager
      BY <1>1, <1>8, <2>1, <2>2, Zenon DEF Manager
    <3> QED
      BY <1>1, <2>1, <3>1, ZenonT(30) DEF Good
  <2>4. RunningJobs(m') = RunningJobs(m) /\ \A u \in Subagents : Current(m', u) = Current(m, u)
    BY <2>1, Zenon DEF RunningJobs, Current
  <2>5. Table(m', w)
    BY <1>6, <2>1, <2>4 DEF Table
  <2>6. Kept
    BY <1>2, <1>3, <1>4, <1>8, <2>2, <2>3, <2>5, WantedKept, Zenon DEF Sound
  <2>7. \A o : Calm(m, m', o)
    BY <2>1, Zenon DEF Calm
  <2> QED
    BY <2>6, <2>7, Zenon DEF Calmed
<1>9. CASE /\ m.rec[s] # "queued" /\ Full(m) /\ MayLaunch(s)
           /\ seq < MaxResumes /\ seq' = seq + 1
           /\ m' = [m EXCEPT !.rec[s] = "queued",
                             !.queue = @ \cup {[sub |-> s, seq |-> seq + 1, msg |-> t]}]
  <2>0. PICK e : e = [sub |-> s, seq |-> seq + 1, msg |-> t]
    BY Zenon
  <2>1. /\ m'.queue = m.queue \cup {e}
        /\ m'.rec = [m.rec EXCEPT ![s] = "queued"] /\ m'.jobs = m.jobs /\ m'.live = m.live
        /\ m'.status = m.status
        /\ m'.timers = m.timers /\ m'.cur = m.cur /\ m'.given = m.given
    BY <1>1, <1>9, <2>0, Zenon DEF Manager
  <2>2. e \in Entry /\ e.sub = s /\ e.seq = seq + 1 /\ e.msg = t
    BY <1>2, <1>9, <2>0, SubagentAssumption DEF Entry
  <2>3. m'.rec[s] = "queued" /\ \A u \in Subagents : u # s => m'.rec[u] = m.rec[u]
    BY <1>1, <2>1, Fields, Zenon
  <2>4. \A u \in Subagents : Current(m', u) = Current(m, u)
    BY <2>1, Zenon DEF Current
  <2>5. RunningJobs(m') = RunningJobs(m)
    BY <2>1, Zenon DEF RunningJobs
  <2>6. \A f \in m.queue : f.sub \in Subagents /\ f.sub # s /\ f.seq \in Int /\ f.seq <= seq
    <3>1. \A f \in m.queue : f.sub \in Subagents /\ f.seq \in Int
      BY <1>1, Fields DEF Entry
    <3> QED
      BY <1>1, <1>9, <3>1, Zenon DEF Queue
  <2>7. seq' \in 0 .. MaxResumes /\ seq \in Int
    BY <1>2, <1>9, SubagentAssumption
  <2>8. Queue(m', w, seq')
    <3>1. ASSUME NEW u \in Subagents, m'.rec[u] = "queued"
          PROVE  \E f \in m'.queue : f.sub = u /\ f.msg = w[u]
      BY <1>1, <1>3, <2>1, <2>2, <2>3, <3>1 DEF Queue
    <3>2. \A f \in m'.queue : m'.rec[f.sub] = "queued" /\ f.seq <= seq'
      BY <1>1, <1>9, <2>1, <2>2, <2>3, <2>6, <2>7 DEF Queue
    <3>3. \A f \in m.queue : f.sub # e.sub /\ f.seq # e.seq
      BY <2>2, <2>6, <2>7
    <3>4. \A f, g \in m'.queue : f.sub = g.sub \/ f.seq = g.seq => f = g
      BY <1>1, <2>1, <3>3, ZenonT(30) DEF Queue
    <3> QED
      BY <3>1, <3>2, <3>4, Zenon DEF Queue
  <2>9. \A j \in m.live : j[1] # s
    BY <1>1, <1>4, Zenon DEF Good
  <2>10. Good(m')
    <3>1. m' \in Manager
      BY <1>1, <1>9, <2>0, <2>2, Zenon DEF Manager, Lifecycle, Active
    <3>2. \A j \in m'.live : m'.rec[j[1]] \in {"running", "none"}
      BY <1>1, <2>1, <2>3, <2>9, Fields, JobPair DEF Good
    <3>3. \A u \in Subagents : m'.rec[u] = "queued" => m'.cur[u] < MaxRuns
      BY <1>1, <1>9, <2>1, <2>3, ZenonT(30) DEF Good, MayLaunch
    <3> QED
      BY <1>1, <2>1, <3>1, <3>2, <3>3 DEF Good
  <2>11. Table(m', w)
    <3>1. m.cur[s] # 0
      BY <1>1, <1>4, Zenon DEF Table
    <3>2. ASSUME NEW u \in Subagents
          PROVE  /\ m'.cur[u] = 0 => m'.rec[u] = "none"
                 /\ m'.rec[u] = "running" =>
                      Current(m', u) \in m'.live \cap m'.jobs /\ m'.given[u] = w[u]
                 /\ m'.rec[u] = "paused" =>
                      Current(m', u) \in m'.jobs /\ m'.status[Current(m', u)] = "paused"
      <4>1. CASE u = s
        BY <2>1, <2>3, <3>1, <4>1, Zenon
      <4>2. CASE u # s
        BY <1>6, <2>1, <2>3, <2>4, <4>2 DEF Table
      <4> QED
        BY <4>1, <4>2, Zenon
    <3>3. \A j \in m.timers : j[1] \in Subagents
      BY <1>1, Fields, JobPair, Zenon
    <3>4. \A j \in m.timers : j \in m.live => m'.rec[j[1]] = "none"
      BY <1>6, <2>3, <2>9, <3>3 DEF Table
    <3> QED
      BY <1>6, <2>1, <2>5, <3>2, <3>4, Zenon DEF Table
  <2>12. Kept
    BY <1>3, <1>4, <2>7, <2>8, <2>10, <2>11, WantedKept, Zenon DEF Sound
  <2>13. ASSUME NEW o, s \notin Owned(o)
         PROVE  Calm(m, m', o)
    <3>1. \A u \in Owned(o) : u \in Subagents /\ u # s
      BY <2>13, Zenon DEF Owned
    <3> QED
      BY <2>1, <2>3, <3>1, Zenon DEF Calm
  <2> QED
    BY <1>5, <2>12, <2>13, Zenon DEF Calmed
<1>10. CASE /\ m.rec[s] # "queued" /\ MayLaunch(s)
            /\ m' = Launch(m, {s}, [u \in {s} |-> t]) /\ seq' = seq
  <2>1. Idle(m, s)
    BY <1>1, <1>4, <1>10, Zenon DEF Idle, Good, MayLaunch
  <2>2. /\ Sound(Launch(m, {s}, [u \in {s} |-> t]), w, seq)
        /\ \A o : s \notin Owned(o) => Calm(m, Launch(m, {s}, [u \in {s} |-> t]), o)
    <3>1. Sound(m, w, seq) /\ m.rec[s] # "queued"
      BY <1>7, <1>10, Zenon
    <3>2. w[s] = t
      BY <1>3, Zenon
    <3> QED
      BY <2>1, <3>1, <3>2, LaunchOne, ZenonT(30)
  <2>3. Sound(m', w, seq') /\ seq' \in 0 .. MaxResumes
    BY <1>2, <1>10, <2>2, Zenon
  <2>4. Kept
    BY <1>3, <1>4, <2>3, WantedKept, Zenon
  <2> QED
    BY <1>5, <1>10, <2>2, <2>4, Zenon DEF Calmed
<1> QED
  BY <1>8, <1>9, <1>10, Zenon DEF ResumeSubagent

(* A step that leaves the texts alone, but for those no longer wanted, and queues nothing. *)
LEMMA TablesKept ==
  ASSUME SInv, Sound(m', wanted, seq), StillWanted(wanted), seq' = seq
  PROVE  Kept
<1>1. wanted \in [Subagents -> Text] /\ seq' \in 0 .. MaxResumes /\ Sound(m', wanted, seq')
  BY Zenon DEF SInv
<1> QED
  BY <1>1, WantedKept, Zenon

(* A calm change and the drain after it are calm for a fenced owner. *)
LEMMA DrainCalm ==
  ASSUME NEW st, Sound(st, wanted, seq), NEW new, new = Drain(st),
         \A o \in Owners : Calm(m, st, o)
  PROVE  /\ Sound(new, wanted, seq)
         /\ \A o \in Owners : lease[o].phase \in Fencing => Calm(m, new, o)
<1>1. Sound(new, wanted, seq)
  BY DrainSound, Zenon
<1>2. ASSUME NEW o \in Owners, lease[o].phase \in Fencing
      PROVE  Calm(m, new, o)
  <2>1. Calm(st, new, o)
    BY <1>2, OwnerFenced, DrainSound, Zenon
  <2> QED
    BY <2>1, CalmTwice, Zenon
<1> QED
  BY <1>1, <1>2, Zenon

(* cancelSubagent, whatever the state of the subagent. *)
LEMMA CancelSubagentKept ==
  ASSUME SInv, NEW s \in Subagents, CancelSubagent(s)
  PROVE  Kept /\ Calmed
<1>1. Sound(m, wanted, seq) /\ StillWanted(wanted) /\ seq' = seq
  BY Zenon DEF SInv, CancelSubagent
<1>2. CASE m' = Abort(m, {Current(m, s)})
  <2>1. Sound(m', wanted, seq) /\ \A o \in Owners : Calm(m, m', o)
    BY <1>1, <1>2, AbortSound, Zenon
  <2> QED
    BY <1>1, <2>1, TablesKept, Zenon DEF Calmed
<1>3. CASE m.rec[s] = "paused" /\ m' = Drain(CancelPaused(m, {Current(m, s)}))
  <2>1. PICK st : st = CancelPaused(m, {Current(m, s)})
    BY Zenon
  <2>2. \A j \in {Current(m, s)} \cap m.jobs : m.status[j] = "paused" => m.rec[j[1]] # "queued"
    BY <1>3 DEF Current
  <2>3. Sound(st, wanted, seq) /\ \A o \in Owners : Calm(m, st, o)
    BY <1>1, <2>1, <2>2, CancelPausedSound, Zenon
  <2>4. Sound(m', wanted, seq) /\ Calmed
    BY <1>3, <2>1, <2>3, DrainCalm, Zenon DEF Calmed
  <2> QED
    BY <1>1, <2>4, TablesKept, Zenon
<1>4. CASE m.rec[s] = "queued" /\ m' = CancelQueued(m, {s})
  <2>1. \A u \in {s} \cap Subagents : m.rec[u] = "queued"
    BY <1>4, Zenon
  <2>2. Sound(m', wanted, seq) /\ \A o \in Owners : Calm(m, m', o)
    BY <1>1, <1>4, <2>1, CancelQueuedSound, Zenon
  <2> QED
    BY <1>1, <2>2, TablesKept, Zenon DEF Calmed
<1> QED
  BY <1>2, <1>3, <1>4, Zenon DEF CancelSubagent

(* The end of a run, and the drain it sets off. *)
LEMMA RunSettlesKept ==
  ASSUME SInv, NEW j \in Job, RunSettles(j)
  PROVE  Kept /\ Calmed
<1>1. Sound(m, wanted, seq) /\ StillWanted(wanted) /\ seq' = seq /\ j \in m.live
  BY Zenon DEF SInv, RunSettles
<1>2. PICK r \in {"paused", "completed", "cancelled"} :
        m' = Drain(Ended(m, j, r)) /\ (m.status[j] = "cancelled" => r = "cancelled")
  BY Zenon DEF RunSettles
<1>3. PICK st : st = Ended(m, j, r)
  BY Zenon
<1>4. Sound(st, wanted, seq) /\ \A o \in Owners : Calm(m, st, o)
  BY <1>1, <1>2, <1>3, EndedSound, Zenon
<1>5. Sound(m', wanted, seq) /\ Calmed
  BY <1>2, <1>3, <1>4, DrainCalm, Zenon DEF Calmed
<1> QED
  BY <1>1, <1>5, TablesKept, Zenon

(* An eviction takes a job that has ended, or whose record was purged, out of the table. *)
LEMMA EvictKept ==
  ASSUME SInv, NEW j \in Job, Evict(j)
  PROVE  Kept /\ Calmed
<1> DEFINE T == [m.status EXCEPT ![j] = IF j \in m.live THEN @ ELSE "completed"]
<1>1. Sound(m, wanted, seq) /\ Good(m) /\ Queue(m, wanted, seq) /\ Table(m, wanted) /\ m \in Manager
  BY Zenon DEF SInv, Sound, Good
<1>2. j \in m.timers /\ seq' = seq /\ wanted' = wanted
  BY Zenon DEF Evict
<1>3. /\ T \in [Job -> Lifecycle \ {"queued"}]
      /\ \A k \in Job : k # j \/ k \in m.live => T[k] = m.status[k]
      /\ T[j] \in {"completed", m.status[j]}
  BY <1>1, Fields, ZenonT(30) DEF Lifecycle, Active
<1>4. m' = [m EXCEPT !.jobs = m.jobs \ {j}, !.timers = m.timers \ {j}, !.status = T]
  BY <1>1, Zenon DEF Evict, Manager
<1> HIDE DEF T
<1>5. /\ m'.jobs = m.jobs \ {j} /\ m'.timers = m.timers \ {j} /\ m'.status = T
      /\ m'.live = m.live /\ m'.rec = m.rec /\ m'.cur = m.cur
      /\ m'.queue = m.queue /\ m'.given = m.given
  BY <1>1, <1>4, Zenon DEF Manager
<1>6. Good(m')
  BY <1>1, <1>3, <1>4, ZenonT(30) DEF Good, Manager
<1>7. /\ m.status[j] \in {"completed", "cancelled"}
      /\ j \in m.live => m.rec[j[1]] = "none"
  BY <1>1, <1>2, Zenon DEF Table
<1>8. m.jobs \subseteq Job /\ m.timers \subseteq Job /\ m.live \subseteq Job
  BY <1>1, Fields, Zenon
<1>9. \A s \in Subagents : Current(m', s) = Current(m, s)
  BY <1>5, Zenon DEF Current
<1>10. \A s \in Subagents : m.rec[s] \in {"running", "paused"} => Current(m, s) # j
  <2> SUFFICES ASSUME NEW s \in Subagents, m.rec[s] \in {"running", "paused"}, Current(m, s) = j
               PROVE  FALSE
    BY Zenon
  <2>1. j[1] = s
    BY Zenon DEF Current
  <2>2. CASE m.rec[s] = "running"
    BY <1>1, <1>7, <2>1, <2>2, Zenon DEF Table
  <2>3. CASE m.rec[s] = "paused"
    BY <1>1, <1>7, <2>3, Zenon DEF Table
  <2> QED
    BY <2>2, <2>3, Zenon
<1>11. RunningJobs(m') \subseteq RunningJobs(m)
  BY <1>3, <1>5, <1>8, Zenon DEF RunningJobs
<1>12. Queue(m', wanted, seq)
  BY <1>1, <1>5, ZenonT(30) DEF Queue
<1>13. Table(m', wanted)
  <2>1. ASSUME NEW s \in Subagents
        PROVE  /\ m'.cur[s] = 0 => m'.rec[s] = "none"
               /\ m'.rec[s] = "running" =>
                    Current(m', s) \in m'.live \cap m'.jobs /\ m'.given[s] = wanted[s]
               /\ m'.rec[s] = "paused" =>
                    Current(m', s) \in m'.jobs /\ m'.status[Current(m', s)] = "paused"
    <3>1. m.rec[s] \in {"running", "paused"} =>
            Current(m, s) # j /\ (Current(m, s) \in m.jobs => T[Current(m, s)] = m.status[Current(m, s)])
      BY <1>3, <1>8, <1>10, Zenon
    <3> QED
      BY <1>1, <1>5, <1>9, <3>1 DEF Table
  <2>2. ASSUME NEW k \in m'.timers
        PROVE  /\ k[2] <= m'.cur[k[1]]
               /\ m'.status[k] \in {"completed", "cancelled"}
               /\ k \in m'.live => m'.rec[k[1]] = "none"
    <3>1. k \in m.timers /\ k # j /\ T[k] = m.status[k]
      BY <1>3, <1>5, <1>8, Zenon
    <3> QED
      BY <1>1, <1>5, <3>1 DEF Table
  <2>3. RunningJobs(m') \subseteq m'.live
    <3>1. RunningJobs(m) \subseteq m.live
      BY <1>1, Zenon DEF Table
    <3> QED
      BY <1>5, <1>11, <3>1, Zenon
  <2>4. \A k \in m'.jobs : k[2] <= m'.cur[k[1]]
    BY <1>1, <1>5, Zenon DEF Table
  <2> QED
    BY <2>1, <2>2, <2>3, <2>4, Zenon DEF Table
<1>14. Kept
  BY <1>2, <1>5, <1>6, <1>12, <1>13, Zenon DEF Kept, Sound, SInv
<1>15. ASSUME NEW o
       PROVE  Calm(m, m', o)
  <2>1. ASSUME NEW s \in Owned(o), m.rec[s] = "running"
        PROVE  T[Current(m, s)] = m.status[Current(m, s)]
    <3>1. s \in Subagents
      BY Zenon DEF Owned
    <3>2. Current(m, s) \in Job /\ Current(m, s) # j
      BY <1>1, <1>10, <2>1, <3>1, CurrentIsJob, Zenon
    <3> QED
      BY <1>3, <3>2, Zenon
  <2> QED
    BY <1>5, <2>1, Zenon DEF Calm
<1> QED
  BY <1>14, <1>15, Zenon DEF Calmed

(* clearContext and its like: the records go, then the running jobs are cancelled and given to   *)
(* the eviction timer.                                                                           *)
LEMMA CancelOwnKept ==
  ASSUME SInv, NEW p \in Closing, CancelOwnAsyncJobs(p)
  PROVE  Kept /\ Calmed
<1>1. Sound(m, wanted, seq) /\ StillWanted(wanted) /\ seq' = seq
  BY Zenon DEF SInv, CancelOwnAsyncJobs
<1>2. PICK R : R = JobsOf(p) \cap RunningJobs(m)
  BY Zenon
<1>3. PICK q : q = Purge(m, p)
  BY Zenon
<1>4. PICK a : a = Abort(q, R)
  BY Zenon
<1>5. m' = [a EXCEPT !.timers = @ \cup R]
  BY <1>2, <1>3, <1>4, Zenon DEF CancelOwnAsyncJobs
<1>6. Sound(q, wanted, seq) /\ \A o \in Owners : Calm(m, q, o)
  BY <1>1, <1>3, PurgeSound, Zenon
<1>7. Sound(a, wanted, seq) /\ \A o \in Owners : Calm(q, a, o)
  BY <1>4, <1>6, AbortSound, Zenon
<1>8. m \in Manager /\ q \in Manager /\ a \in Manager
  BY <1>1, <1>6, <1>7, Zenon DEF Sound, Good
<1>9. /\ q.rec = [s \in Subagents |-> IF OwnerOf[s] = p THEN "none" ELSE m.rec[s]]
      /\ q.jobs = m.jobs /\ q.status = m.status /\ q.cur = m.cur
  BY <1>3, <1>8, Zenon DEF Purge, Manager
<1>10. /\ a.status = [j \in Job |-> IF j \in R \cap RunningJobs(q) THEN "cancelled" ELSE q.status[j]]
       /\ a.rec = q.rec /\ a.cur = q.cur /\ a.jobs = q.jobs
  BY <1>4, <1>8, AbortIs
<1>11. R \subseteq Job /\ R \subseteq m.jobs /\ R \subseteq RunningJobs(q)
  BY <1>2, <1>9, Zenon DEF JobsOf, RunningJobs
<1>12. /\ m'.timers = a.timers \cup R
       /\ m'.jobs = a.jobs /\ m'.live = a.live /\ m'.status = a.status /\ m'.rec = a.rec
       /\ m'.cur = a.cur /\ m'.queue = a.queue /\ m'.given = a.given
       /\ m' \in Manager
  BY <1>5, <1>8, <1>11, Zenon DEF Manager
<1>13. ASSUME NEW j \in R
       PROVE  /\ j[2] <= m'.cur[j[1]] /\ m'.status[j] = "cancelled" /\ m'.rec[j[1]] = "none"
  <2>1. j \in Job /\ j[1] \in Subagents /\ OwnerOf[j[1]] = p
    BY <1>2, <1>11, JobPair, Zenon DEF JobsOf
  <2>2. m'.status[j] = "cancelled" /\ m'.rec[j[1]] = "none"
    BY <1>9, <1>10, <1>11, <1>12, <2>1
  <2>3. j[2] <= m'.cur[j[1]]
    <3>1. \A i \in m.jobs : i[2] <= m.cur[i[1]]
      BY <1>1, Zenon DEF Sound, Table
    <3>2. m'.cur = m.cur /\ j \in m.jobs
      BY <1>9, <1>10, <1>11, <1>12, Zenon
    <3> QED
      BY <3>1, <3>2, Zenon
  <2> QED
    BY <2>2, <2>3, Zenon
<1>14. \A s \in Subagents : Current(m', s) = Current(a, s)
  BY <1>12, Zenon DEF Current
<1>15. RunningJobs(m') = RunningJobs(a)
  BY <1>12, Zenon DEF RunningJobs
<1>16. Sound(m', wanted, seq)
  <2>1. Good(m')
    BY <1>7, <1>12, ZenonT(30) DEF Sound, Good
  <2>2. Queue(m', wanted, seq)
    BY <1>7, <1>12, Zenon DEF Sound, Queue
  <2>3. ASSUME NEW j \in m'.timers
        PROVE  /\ j[2] <= m'.cur[j[1]]
               /\ m'.status[j] \in {"completed", "cancelled"}
               /\ j \in m'.live => m'.rec[j[1]] = "none"
    <3>1. CASE j \in R
      BY <1>13, <3>1, Zenon
    <3>2. CASE j \in a.timers
      <4>1. \A i \in a.timers : /\ i[2] <= a.cur[i[1]]
                                /\ a.status[i] \in {"completed", "cancelled"}
                                /\ i \in a.live => a.rec[i[1]] = "none"
        BY <1>7, Zenon DEF Sound, Table
      <4> QED
        BY <1>12, <3>2, <4>1, ZenonT(30)
    <3> QED
      BY <1>12, <3>1, <3>2, Zenon
  <2>4. Table(m', wanted)
    BY <1>7, <1>12, <1>14, <1>15, <2>3 DEF Sound, Table
  <2> QED
    BY <2>1, <2>2, <2>4, Zenon DEF Sound
<1>17. ASSUME NEW o \in Owners
       PROVE  Calm(m, m', o)
  <2>1. Calm(m, a, o)
    BY <1>6, <1>7, CalmTwice, Zenon
  <2> QED
    BY <1>12, <2>1, ZenonT(30) DEF Calm
<1> QED
  BY <1>1, <1>16, <1>17, TablesKept, Zenon DEF Calmed
=============================================================================
