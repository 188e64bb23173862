---------------------------- MODULE SubagentProofs ---------------------------
(***************************************************************************)
(* Subagents under control, for every number of owners, subagents and      *)
(* runs and every limit.                                                   *)
(*                                                                         *)
(* OneRun is not inductive: that a resume finds no run under way rests on  *)
(* what a record says about its runs, which is Good.  The texts, the queue *)
(* and the leases need SInv: Sound and, for each owner, Fence.  Every step *)
(* is calm for every fenced owner.  Fit is the limit, and that a queued    *)
(* subagent waits for something.                                           *)
(***************************************************************************)
EXTENDS SubagentSteps

(* A leaf that names no backend goes to the SMT solver, with time to spare. *)
USE SMTT(30)

(* Whatever is paused, resumed, cancelled, cleared or shut down, in any order and with any limit, *)
(* no subagent has two runs under way: its session file has one writer.                           *)
THEOREM OneRunAlways == Spec => []OneRun
<1>1. IInv => OneRun
  <2> SUFFICES ASSUME IInv, NEW j \in m.live, NEW k \in m.live, j[1] = k[1]
               PROVE  j = k
    BY Zenon DEF OneRun
  <2>1. j \in Job /\ k \in Job
    BY Fields, Zenon DEF IInv, Good
  <2>2. j = <<j[1], j[2]>> /\ k = <<k[1], k[2]>>
    BY <2>1, JobPair, Zenon
  <2> QED
    BY <2>2 DEF IInv, Good
<1>2. IInv /\ [Next]_vars => IInv'
  BY StepGood, Zenon DEF IInv
<1> QED
  BY InitGood, <1>1, <1>2, PTL DEF Spec

(* From the lease until it is let go, no run of the fenced owner begins, not even by a drain that *)
(* the end of another owner's run sets off.                                                       *)
THEOREM FencedStartsNoneAlways == Spec => FencedStartsNone
<1>1. IInv /\ [Next]_vars => IInv'
  BY StepGood, Zenon DEF IInv
<1>2. IInv /\ [Next]_vars =>
        [\A s \in Subagents : Fenced(s) /\ Fenced(s)' => m'.cur[s] = m.cur[s]]_vars
  BY StepGood, Zenon DEF FencedStep
<1> QED
  BY InitGood, <1>1, <1>2, PTL DEF Spec, FencedStartsNone

-----------------------------------------------------------------------------
(* Taking, proving and letting go of leases.                              *)

(* The steps that only change the leases. *)
LEMMA LeaseOnlyKept ==
  ASSUME SInv, m' = m, wanted' = wanted, seq' = seq
  PROVE  Kept /\ Calmed
<1>1. Kept
  BY Zenon DEF SInv, Kept
<1>2. \A o : Calm(m, m', o)
  BY Zenon DEF Calm
<1> QED
  BY <1>1, <1>2, Zenon DEF Calmed

(* A new lease captures every active record and every run of the owner that the manager knows. *)
LEMMA BeginFence ==
  ASSUME SInv, NEW o \in Owners, BeginShutdown(o)
  PROVE  lease' \in [Owners -> Lease] /\ \A p \in Owners : Fence(m', lease'[p], p)
<1>1. Good(m) /\ Table(m, wanted) /\ m \in Manager
  BY Zenon DEF SInv, Sound, Good
<1>2. PICK l : l = [phase |-> "active", records |-> Records(o), backing |-> Backing(o), awaited |-> {}]
  BY Zenon
<1>3. m' = m /\ wanted' = wanted /\ seq' = seq /\ lease' = [lease EXCEPT ![o] = l]
  BY <1>2, Zenon DEF BeginShutdown
<1>4. \A s \in Owned(o) : s \in Subagents /\ (m.rec[s] # "none" => Current(m, s) \in JobsOf(o))
  BY <1>1, CurrentIsJob, Zenon DEF Owned
<1>5. Records(o) \subseteq Owned(o)
  BY Zenon DEF Records
<1>6. Backing(o) \subseteq JobsOf(o)
  <2>1. \A s \in Records(o) : s \in Owned(o) /\ m.rec[s] # "none"
    BY Zenon DEF Records, Active
  <2> QED
    BY <1>4, <2>1, Zenon DEF Backing
<1>7. l \in Lease
  <2>1. Records(o) \subseteq Subagents /\ Backing(o) \subseteq Job
    BY <1>5, <1>6, Zenon DEF Owned, JobsOf
  <2> QED
    BY <1>2, <2>1, Zenon DEF Lease, Fencing
<1>8. ASSUME NEW j \in JobsOf(o) \cap m.live, j \notin Backing(o)
      PROVE  j \notin m.jobs /\ m.rec[j[1]] = "none"
  <2>1. j \in Job /\ j[1] \in Owned(o) /\ j = <<j[1], j[2]>>
    BY JobPair, Zenon DEF JobsOf, Owned
  <2>2. /\ j[2] = m.cur[j[1]] /\ m.status[j] \in {"running", "cancelled"}
        /\ m.rec[j[1]] \in {"running", "none"}
    BY <1>1, Zenon DEF Good
  <2>3. j \notin m.jobs
    BY <1>8, <2>2, Zenon DEF Backing
  <2>4. m.rec[j[1]] # "running"
    <3> SUFFICES ASSUME m.rec[j[1]] = "running"
                 PROVE  FALSE
      BY Zenon
    <3>1. j[1] \in {r \in Records(o) : m.rec[r] # "queued"}
      BY <2>1, Zenon DEF Records, Active
    <3>2. j = Current(m, j[1])
      BY <2>1, <2>2, Zenon DEF Current
    <3> QED
      BY <1>8, <3>1, <3>2, Zenon DEF Backing
  <2> QED
    BY <2>2, <2>3, <2>4, Zenon
<1>9. Fence(m, l, o)
  <2>1. l.phase = "active" /\ l.records = Records(o) /\ l.backing = Backing(o)
    BY <1>2, Zenon
  <2>2. \A s \in Owned(o) : m.rec[s] \in Active => s \in Records(o)
    BY Zenon DEF Records
  <2> QED
    BY <1>5, <1>6, <1>8, <2>1, <2>2, Zenon DEF Fence
<1> QED
  BY <1>3, <1>7, <1>9, LeaseOnlyKept, FenceChanged, Zenon DEF Calmed

(* The proof: what the lease captured has settled. *)
LEMMA ConfirmedFence ==
  ASSUME SInv, NEW o \in Owners, Confirmed(o)
  PROVE  lease' \in [Owners -> Lease] /\ \A p \in Owners : Fence(m', lease'[p], p)
<1>1. PICK l : l = [lease[o] EXCEPT !.phase = "proved"]
  BY Zenon
<1>2. m' = m /\ wanted' = wanted /\ seq' = seq /\ lease' = [lease EXCEPT ![o] = l]
  BY <1>1, Zenon DEF Confirmed
<1>3. lease[o] \in Lease /\ lease[o].phase = "proving" /\ Fence(m, lease[o], o)
  BY Zenon DEF SInv, Confirmed
<1>4. /\ l.phase = "proved" /\ l.records = lease[o].records /\ l.backing = lease[o].backing
      /\ l \in Lease
  BY <1>1, <1>3, Zenon DEF Lease, Fencing
<1>5. l.backing \cap m.live = {}
  BY <1>4, Zenon DEF Confirmed, Evidence
<1>6. Fence(m, l, o)
  BY <1>3, <1>4, <1>5, Zenon DEF Fence, Fencing
<1> QED
  BY <1>2, <1>4, <1>6, LeaseOnlyKept, FenceChanged, Zenon DEF Calmed

(* A drain leaves the record of a fenced subagent alone. *)
LEMMA DrainFenced ==
  ASSUME NEW st, NEW w, NEW n, Sound(st, w, n), NEW s \in Subagents, Fenced(s)
  PROVE  Drain(st).rec[s] = st.rec[s]
<1>1. PICK M : /\ Drain(st) = [Launch(st, StartedSubs(st), M) EXCEPT !.queue = st.queue \ Started(st)]
               /\ \A u \in StartedSubs(st) : ~Fenced(u)
  BY DrainIs, Zenon
<1>2. st \in Manager
  BY Zenon DEF Sound, Good
<1>3. Launch(st, StartedSubs(st), M).rec =
        [u \in Subagents |-> IF u \in StartedSubs(st) THEN "running" ELSE st.rec[u]]
  BY <1>2, Zenon DEF Launch, Manager
<1>4. PICK L : L = Launch(st, StartedSubs(st), M)
  BY Zenon
<1>5. Drain(st).rec = L.rec
  BY <1>1, <1>2, <1>4, Zenon DEF Launch, Manager
<1>6. s \notin StartedSubs(st)
  BY <1>1, Zenon
<1> QED
  BY <1>3, <1>4, <1>5, <1>6, Zenon

(* Once its current job is cancelled a subagent either runs on, cancelled, or does not run. *)
LEMMA HitOver ==
  ASSUME NEW st, NEW w, NEW n, Sound(st, w, n), NEW H, NEW s \in Subagents,
         st.rec[s] = "running" => Current(st, s) \in H
  PROVE  LET a == Abort(st, H)
         IN a.rec[s] = st.rec[s] /\ (a.rec[s] = "running" => a.status[Current(a, s)] = "cancelled")
<1>1. st \in Manager /\ Good(st) /\ Table(st, w)
  BY Zenon DEF Sound, Good
<1>2. PICK a : a = Abort(st, H)
  BY Zenon
<1>3. /\ a.status = [j \in Job |-> IF j \in H \cap RunningJobs(st) THEN "cancelled" ELSE st.status[j]]
      /\ a.rec = st.rec /\ a.cur = st.cur
  BY <1>1, <1>2, AbortIs
<1>4. ASSUME st.rec[s] = "running"
      PROVE  a.status[Current(a, s)] = "cancelled"
  <2>1. Current(st, s) \in st.live /\ Current(st, s) \in st.jobs /\ Current(st, s) \in Job
    <3>1. Current(st, s) \in st.live \cap st.jobs
      BY <1>1, <1>4, Zenon DEF Table
    <3>2. st.jobs \subseteq Job
      BY <1>1, Zenon DEF Manager
    <3> QED
      BY <3>1, <3>2, Zenon
  <2>2. st.status[Current(st, s)] \in {"running", "cancelled"}
    BY <1>1, <2>1, Zenon DEF Good
  <2>3. Current(a, s) = Current(st, s)
    BY <1>3, Zenon DEF Current
  <2> QED
    BY <1>3, <1>4, <2>1, <2>2, <2>3, Zenon DEF RunningJobs
<1> QED
  BY <1>2, <1>3, <1>4, Zenon

(* The state cancelAndProveOwnerSubagents reaches before it aborts what runs on: the tables are   *)
(* in order, and of the owner nothing is queued or paused any more.                              *)
Cleared(d, o) ==
  /\ Sound(d, wanted, seq)
  /\ \A p \in Owners : lease[p].phase \in Fencing => Calm(m, d, p)
  /\ \A s \in Owned(o) : /\ d.rec[s] \notin {"queued", "paused"}
                         /\ d.rec[s] = "running" => m.rec[s] = "running"

NoneQueued(a, P) == \A j \in P \cap a.jobs : a.status[j] = "paused" => a.rec[j[1]] # "queued"

(* A lease's paused jobs belong to records that are not queued, once the queued ones are given up. *)
LEMMA PausedNotQueued ==
  ASSUME SInv, NEW o \in Owners, lease[o].phase = "active",
         NEW known, known = {s \in lease[o].records : m.rec[s] # "none"},
         NEW queued, queued = {s \in known : m.rec[s] = "queued"},
         NEW hit, hit = lease[o].backing \cup {Current(m, s) : s \in known \ queued},
         NEW paused, paused = {j \in hit \cap m.jobs : m.status[j] = "paused"},
         NEW st, st = CancelQueued(m, queued), NEW C, NEW a, a = Abort(st, C)
  PROVE  NoneQueued(a, paused)
<1>1. m \in Manager /\ Good(m) /\ Table(m, wanted) /\ Sound(m, wanted, seq)
  BY Zenon DEF SInv, Sound, Good
<1>2. /\ lease[o].records \subseteq Owned(o) /\ lease[o].backing \subseteq JobsOf(o)
      /\ \A s \in Owned(o) : m.rec[s] \in Active => s \in lease[o].records
  BY Zenon DEF SInv, Fence, Fencing
<1>3. hit \subseteq JobsOf(o)
  <2>1. \A s \in Owned(o) : s \in Subagents /\ (m.rec[s] # "none" => Current(m, s) \in JobsOf(o))
    BY <1>1, CurrentIsJob, Zenon DEF Owned
  <2>2. known \subseteq Owned(o)
    BY <1>2, Zenon
  <2> QED
    BY <1>2, <2>1, <2>2, Zenon
<1>4. st.rec = [s \in Subagents |-> IF s \in queued THEN "cancelled" ELSE m.rec[s]]
  BY <1>1, Zenon DEF CancelQueued, Manager
<1>5. \A s \in Owned(o) : st.rec[s] # "queued"
  BY <1>2, <1>4 DEF Active, Owned
<1>6. \A s \in queued \cap Subagents : m.rec[s] = "queued"
  BY Zenon
<1>7. Sound(st, wanted, seq)
  BY <1>1, <1>6, CancelQueuedSound, Zenon
<1>8. a.rec = st.rec
  BY <1>7, Zenon DEF Sound, Good, Abort, Manager
<1>9. \A j \in paused : j[1] \in Owned(o)
  BY <1>3, JobPair, Zenon DEF JobsOf, Owned
<1>10. \A s \in Owned(o) : a.rec[s] # "queued"
  BY <1>5, <1>8, Zenon
<1> QED
  BY <1>9, <1>10 DEF NoneQueued

(* The targets are cancelled: first the queued ones, then the paused ones. *)
LEMMA TargetsCleared ==
  ASSUME SInv, NEW o \in Owners, lease[o].phase = "active",
         NEW known, known = {s \in lease[o].records : m.rec[s] # "none"},
         NEW queued, queued = {s \in known : m.rec[s] = "queued"},
         NEW hit, hit = lease[o].backing \cup {Current(m, s) : s \in known \ queued},
         NEW paused, paused = {j \in hit \cap m.jobs : m.status[j] = "paused"},
         NEW st, st = CancelQueued(m, queued)
  PROVE  /\ paused = {} => Cleared(st, o)
         /\ \A C : Cleared(Drain(CancelPaused(Abort(st, C), paused)), o)
<1>1. Sound(m, wanted, seq) /\ m \in Manager /\ Good(m) /\ Table(m, wanted)
  BY Zenon DEF SInv, Sound, Good
<1>2. /\ lease[o].records \subseteq Owned(o) /\ lease[o].backing \subseteq JobsOf(o)
      /\ \A s \in Owned(o) : m.rec[s] \in Active => s \in lease[o].records
  BY Zenon DEF SInv, Fence, Fencing
<1>3. queued \subseteq Owned(o) /\ known \subseteq Owned(o)
  BY <1>2, Zenon
<1>4. hit \subseteq JobsOf(o)
  <2>1. \A s \in Owned(o) : s \in Subagents /\ (m.rec[s] # "none" => Current(m, s) \in JobsOf(o))
    BY <1>1, CurrentIsJob, Zenon DEF Owned
  <2> QED
    BY <1>2, <1>3, <2>1, Zenon
<1>5. \A s \in queued \cap Subagents : m.rec[s] = "queued"
  BY Zenon
<1>6. Sound(st, wanted, seq) /\ \A p \in Owners : Calm(m, st, p)
  BY <1>1, <1>5, CancelQueuedSound, Zenon
<1>7. /\ st.rec = [s \in Subagents |-> IF s \in queued THEN "cancelled" ELSE m.rec[s]]
      /\ st.jobs = m.jobs /\ st.status = m.status /\ st.cur = m.cur
  BY <1>1, CancelQueuedIs
<1>8. \A s \in Owned(o) : /\ s \in Subagents
                          /\ st.rec[s] # "queued" /\ st.rec[s] \in {m.rec[s], "cancelled"}
                          /\ st.rec[s] = "paused" => m.rec[s] = "paused" /\ s \in known /\ s \notin queued
  BY <1>2, <1>7 DEF Active, Owned
<1>9. ASSUME NEW s \in Owned(o), m.rec[s] = "paused", s \in known, s \notin queued
      PROVE  Current(m, s) \in paused
  <2>1. Current(m, s) \in m.jobs /\ m.status[Current(m, s)] = "paused"
    BY <1>1, <1>9, Zenon DEF Table, Owned
  <2> QED
    BY <1>9, <2>1, Zenon
<1>10. ASSUME paused = {}
       PROVE  Cleared(st, o)
  <2>1. \A s \in Owned(o) : st.rec[s] # "paused"
    BY <1>8, <1>9, <1>10, Zenon
  <2> QED
    BY <1>6, <1>8, <2>1, Zenon DEF Cleared
<1>11. ASSUME NEW C
       PROVE  Cleared(Drain(CancelPaused(Abort(st, C), paused)), o)
  <2>1. PICK a : a = Abort(st, C)
    BY Zenon
  <2>2. PICK c : c = CancelPaused(a, paused)
    BY Zenon
  <2>3. PICK d : d = Drain(c)
    BY Zenon
  <2>4. Sound(a, wanted, seq) /\ \A p \in Owners : Calm(st, a, p)
    BY <1>6, <2>1, AbortSound, Zenon
  <2>5. st \in Manager /\ a \in Manager
    BY <1>6, <2>4, Zenon DEF Sound, Good
  <2>6. /\ a.status = [j \in Job |-> IF j \in C \cap RunningJobs(st) THEN "cancelled" ELSE st.status[j]]
        /\ a.rec = st.rec /\ a.cur = st.cur /\ a.jobs = st.jobs
    BY <2>1, <2>5, AbortIs
  <2>7. NoneQueued(a, paused)
    BY <2>1, PausedNotQueued, Zenon
  <2>8. Sound(c, wanted, seq) /\ \A p \in Owners : Calm(a, c, p)
    BY <2>2, <2>4, <2>7, CancelPausedSound, Zenon DEF NoneQueued
  <2>9. \A p \in Owners : Calm(m, c, p)
    BY <1>6, <2>4, <2>8, CalmTwice, Zenon
  <2>10. Sound(d, wanted, seq) /\ \A p \in Owners : lease[p].phase \in Fencing => Calm(m, d, p)
    BY <2>3, <2>8, <2>9, DrainCalm, Zenon
  <2>11. PICK gone : gone = {j \in paused \cap a.jobs : a.status[j] = "paused"}
    BY Zenon
  <2>12. c.rec = [s \in Subagents |-> IF s \in RecordsOf(a, gone) THEN "cancelled" ELSE a.rec[s]]
    BY <2>2, <2>5, <2>11, Zenon DEF CancelPaused, Manager
  <2>13. paused \subseteq gone
    <3>1. ASSUME NEW j \in paused
          PROVE  j \in gone
      <4>1. j \in m.jobs /\ m.status[j] = "paused" /\ j \in Job
        BY <1>4, Zenon DEF JobsOf
      <4>2. st.status[j] = "paused" /\ j \notin RunningJobs(st)
        BY <1>7, <4>1, Zenon DEF RunningJobs
      <4>3. a.status[j] = "paused" /\ j \in a.jobs
        BY <1>7, <2>6, <4>1, <4>2, Zenon
      <4> QED
        BY <2>11, <4>3, Zenon
    <3> QED
      BY <3>1, Zenon
  <2>14. ASSUME NEW s \in Owned(o)
         PROVE  c.rec[s] \notin {"queued", "paused"} /\ (c.rec[s] = "running" => m.rec[s] = "running")
    <3>1. CASE st.rec[s] = "paused"
      <4>1. Current(m, s) \in gone /\ Current(a, s) = Current(m, s)
        BY <1>7, <1>8, <1>9, <2>6, <2>13, <3>1, Zenon DEF Current
      <4>2. s \in RecordsOf(a, gone)
        BY <1>8, <2>6, <3>1, <4>1, Zenon DEF RecordsOf
      <4> QED
        BY <1>8, <2>12, <4>2, Zenon
    <3>2. CASE st.rec[s] # "paused"
      <4>1. s \in Subagents /\ st.rec[s] \in {m.rec[s], "cancelled"} /\ st.rec[s] # "queued"
        BY <1>8, Zenon
      <4>2. c.rec[s] \in {"cancelled", st.rec[s]}
        <5>1. c.rec[s] = IF s \in RecordsOf(a, gone) THEN "cancelled" ELSE a.rec[s]
          BY <2>12, <4>1, Zenon
        <5> QED
          BY <2>6, <5>1, Zenon
      <4> QED
        BY <3>2, <4>1, <4>2, Zenon
    <3> QED
      BY <3>1, <3>2, Zenon
  <2>15. \A s \in Owned(o) : d.rec[s] = c.rec[s]
    <3>1. \A s \in Owned(o) : s \in Subagents /\ Fenced(s)
      BY <1>8, Zenon DEF Fenced, Owned
    <3> QED
      BY <2>3, <2>8, <3>1, DrainFenced, Zenon
  <2>16. \A s \in Owned(o) : /\ d.rec[s] \notin {"queued", "paused"}
                             /\ d.rec[s] = "running" => m.rec[s] = "running"
    BY <2>14, <2>15, Zenon
  <2>17. Cleared(d, o)
    BY <2>10, <2>16, Zenon DEF Cleared
  <2> QED
    BY <2>1, <2>2, <2>3, <2>17, Zenon
<1> QED
  BY <1>10, <1>11, Zenon


(* cancelAndProveOwnerSubagents up to its await. *)
LEMMA CancelTargetsKept ==
  ASSUME SInv, NEW o \in Owners, CancelTargets(o)
  PROVE  /\ Kept /\ Calmed
         /\ lease' \in [Owners -> Lease] /\ \A p \in Owners : Fence(m', lease'[p], p)
<1>1. lease[o].phase = "active" /\ lease[o] \in Lease /\ StillWanted(wanted) /\ seq' = seq
  BY Zenon DEF CancelTargets, SInv
<1>2. Fence(m, lease[o], o) /\ m \in Manager
  BY Zenon DEF SInv, Sound, Good
<1>3. PICK known : known = {s \in lease[o].records : m.rec[s] # "none"}
  BY Zenon
<1>4. PICK queued : queued = {s \in known : m.rec[s] = "queued"}
  BY Zenon
<1>5. PICK hit : hit = lease[o].backing \cup {Current(m, s) : s \in known \ queued}
  BY Zenon
<1>6. PICK paused : paused = {j \in hit \cap m.jobs : m.status[j] = "paused"}
  BY Zenon
<1>7. PICK st : st = CancelQueued(m, queued)
  BY Zenon
<1>8. /\ paused = {} => Cleared(st, o)
      /\ \A C : Cleared(Drain(CancelPaused(Abort(st, C), paused)), o)
  BY <1>1, <1>3, <1>4, <1>5, <1>6, <1>7, TargetsCleared, ZenonT(30)
<1>9. \/ paused = {} /\ m' = Abort(st, hit)
      \/ \E C : m' = Abort(Drain(CancelPaused(Abort(st, C), paused)), hit)
  BY <1>3, <1>4, <1>5, <1>6, <1>7, Zenon DEF CancelTargets
<1>10. PICK d : Cleared(d, o) /\ m' = Abort(d, hit)
  BY <1>8, <1>9, Zenon
<1>11. Sound(d, wanted, seq)
  BY <1>10, Zenon DEF Cleared
<1>12. Sound(m', wanted, seq) /\ \A p \in Owners : Calm(d, m', p)
  BY <1>10, <1>11, AbortSound, Zenon
<1>13. \A p \in Owners : lease[p].phase \in Fencing => Calm(m, m', p)
  <2>1. \A p \in Owners : lease[p].phase \in Fencing => Calm(m, d, p)
    BY <1>10, Zenon DEF Cleared
  <2> QED
    BY <1>12, <2>1, CalmTwice, Zenon
<1>14. ASSUME NEW s \in Owned(o)
       PROVE  /\ m'.rec[s] \notin {"queued", "paused"}
              /\ m'.rec[s] = "running" => m'.status[Current(m', s)] = "cancelled"
  <2>1. s \in Subagents /\ d.rec[s] \notin {"queued", "paused"} /\ d.cur[s] = m.cur[s]
    BY <1>1, <1>10 DEF Cleared, Calm, Fencing, Owned
  <2>2. ASSUME d.rec[s] = "running"
        PROVE  Current(d, s) \in hit
    <3>1. m.rec[s] = "running"
      BY <1>10, <2>2, Zenon DEF Cleared
    <3>2. s \in known \ queued
      BY <1>1, <1>2, <1>3, <1>4, <3>1, Zenon DEF Fence, Fencing, Active
    <3>3. Current(d, s) = Current(m, s)
      BY <2>1, Zenon DEF Current
    <3> QED
      BY <1>5, <3>2, <3>3, Zenon
  <2>3. m'.rec[s] = d.rec[s] /\ (m'.rec[s] = "running" => m'.status[Current(m', s)] = "cancelled")
    BY <1>10, <1>11, <2>1, <2>2, HitOver, Zenon
  <2> QED
    BY <2>1, <2>3, Zenon
<1>15. PICK l : l = [lease[o] EXCEPT !.phase = "proving", !.awaited = lease[o].backing \cap m.jobs]
  BY Zenon
<1>16. lease' = [lease EXCEPT ![o] = l]
  BY <1>15, Zenon DEF CancelTargets
<1>17. /\ l.phase = "proving" /\ l.records = lease[o].records /\ l.backing = lease[o].backing
       /\ l \in Lease
  <2>1. lease[o].backing \cap m.jobs \subseteq Job
    BY <1>1, Zenon DEF Lease
  <2>2. PICK B \in SUBSET Job : B = lease[o].backing \cap m.jobs
    BY <2>1, Zenon
  <2>3. PICK k : k = [lease[o] EXCEPT !.phase = "proving"]
    BY Zenon
  <2>4. /\ k \in Lease /\ k.phase = "proving"
        /\ k.records = lease[o].records /\ k.backing = lease[o].backing
    BY <1>1, <2>3, Zenon DEF Lease, Fencing
  <2>5. l = [k EXCEPT !.awaited = B]
    BY <1>15, <2>2, <2>3, Zenon
  <2> QED
    BY <2>2, <2>4, <2>5, Zenon DEF Lease
<1>18. Fence(m', lease[o], o)
  <2>1. Calm(m, m', o)
    BY <1>1, <1>13, Zenon DEF Fencing
  <2> QED
    BY <1>2, <2>1, CalmFence, Zenon
<1>19. Fence(m', l, o)
  BY <1>1, <1>14, <1>17, <1>18, Zenon DEF Fence, Fencing
<1>20. Kept
  BY <1>1, <1>12, TablesKept, Zenon
<1>21. lease' \in [Owners -> Lease] /\ \A p \in Owners : Fence(m', lease'[p], p)
  BY <1>13, <1>16, <1>17, <1>19, FenceChanged, Zenon
<1> QED
  BY <1>13, <1>20, <1>21, Zenon DEF Calmed

(* The session is replaced: what is paused is cancelled, all records of the owner go, and the    *)
(* lease with them.                                                                              *)
LEMMA CommitKept ==
  ASSUME SInv, NEW o \in Owners, Commit(o)
  PROVE  /\ Kept /\ Calmed
         /\ lease' \in [Owners -> Lease] /\ \A p \in Owners : Fence(m', lease'[p], p)
<1>1. lease[o].phase = "proved" /\ StillWanted(wanted) /\ seq' = seq
  BY Zenon DEF Commit
<1>2. Sound(m, wanted, seq) /\ Fence(m, lease[o], o)
  BY Zenon DEF SInv
<1>3. PICK P : P = {j \in JobsOf(o) \cap m.jobs : m.status[j] = "paused"}
  BY Zenon
<1>4. PICK st : st = IF P = {} THEN m ELSE Drain(CancelPaused(m, P))
  BY Zenon
<1>5. m' = Purge(Abort(st, JobsOf(o)), o)
  BY <1>3, <1>4, Zenon DEF Commit
<1>6. Sound(st, wanted, seq) /\ \A p \in Owners : lease[p].phase \in Fencing => Calm(m, st, p)
  <2>1. CASE P = {}
    <3>1. st = m
      BY <1>4, <2>1, Zenon
    <3> QED
      BY <1>2, <3>1, Zenon DEF Calm
  <2>2. CASE P # {}
    <3>1. PICK c : c = CancelPaused(m, P)
      BY Zenon
    <3>2. \A s \in Owned(o) : m.rec[s] # "queued"
      BY <1>1, <1>2, Zenon DEF Fence
    <3>3. \A j \in P \cap m.jobs : m.status[j] = "paused" => m.rec[j[1]] # "queued"
      BY <1>3, <3>2, JobPair, Zenon DEF JobsOf, Owned
    <3>4. Sound(c, wanted, seq) /\ \A p \in Owners : Calm(m, c, p)
      BY <1>2, <3>1, <3>3, CancelPausedSound, Zenon
    <3>5. st = Drain(c)
      BY <1>4, <2>2, <3>1, Zenon
    <3> QED
      BY <3>4, <3>5, DrainCalm, Zenon
  <2> QED
    BY <2>1, <2>2, Zenon
<1>7. PICK a : a = Abort(st, JobsOf(o))
  BY Zenon
<1>8. Sound(a, wanted, seq) /\ \A p \in Owners : Calm(st, a, p)
  BY <1>6, <1>7, AbortSound, Zenon
<1>9. Sound(m', wanted, seq) /\ \A p \in Owners : Calm(a, m', p)
  BY <1>5, <1>7, <1>8, PurgeSound, Zenon
<1>10. \A p \in Owners : lease[p].phase \in Fencing => Calm(m, a, p)
  BY <1>6, <1>8, CalmTwice, Zenon
<1>11. \A p \in Owners : lease[p].phase \in Fencing => Calm(m, m', p)
  BY <1>9, <1>10, CalmTwice, Zenon
<1>12. lease' = [lease EXCEPT ![o] = NoLease]
  BY Zenon DEF Commit, Release
<1>13. NoLease \in Lease /\ Fence(m', NoLease, o)
  BY NoFence, Zenon
<1>14. lease' \in [Owners -> Lease] /\ \A p \in Owners : Fence(m', lease'[p], p)
  BY <1>11, <1>12, <1>13, FenceChanged, Zenon
<1>15. Kept
  BY <1>1, <1>9, TablesKept, Zenon
<1> QED
  BY <1>11, <1>14, <1>15, Zenon DEF Calmed


-----------------------------------------------------------------------------
(* The invariant.                                                          *)

(* A step that leaves the leases alone and is calm for the fenced owners keeps the invariant. *)
LEMMA SInvKept ==
  ASSUME SInv, Kept, Calmed, lease' = lease
  PROVE  SInv'
<1>1. lease' \in [Owners -> Lease] /\ \A o \in Owners : Fence(m', lease'[o], o)
  BY FencesKept, Zenon DEF Calmed
<1> QED
  BY <1>1, Zenon DEF Kept, SInv

(* A lease that is released, or given up, without a change of the tables. *)
LEMMA ReleaseKept ==
  ASSUME SInv, NEW o \in Owners, AbortFails(o) \/ Refused(o) \/ ReplaceFails(o)
  PROVE  SInv'
<1>1. m' = m /\ wanted' = wanted /\ seq' = seq
  BY Zenon DEF AbortFails, Refused, ReplaceFails
<1>2. PICK l \in {NoLease, [NoLease EXCEPT !.phase = "abandoned"]} : lease' = [lease EXCEPT ![o] = l]
  BY Zenon DEF AbortFails, Refused, ReplaceFails, Release
<1>3. l \in Lease /\ Fence(m', l, o)
  BY <1>2, NoFence, Zenon
<1>4. Kept /\ Calmed
  BY <1>1, LeaseOnlyKept, Zenon
<1>5. lease' \in [Owners -> Lease] /\ \A p \in Owners : Fence(m', lease'[p], p)
  BY <1>2, <1>3, <1>4, FenceChanged, Zenon DEF Calmed
<1> QED
  BY <1>4, <1>5, Zenon DEF Kept, SInv

(* Nothing has been started. *)
LEMMA InitSound ==
  ASSUME Init
  PROVE  SInv
<1>1. /\ m.jobs = {} /\ m.live = {} /\ m.timers = {} /\ m.queue = {}
      /\ m.rec = [s \in Subagents |-> "none"] /\ m.cur = [s \in Subagents |-> 0]
      /\ m.given = [s \in Subagents |-> NoMessage]
      /\ wanted = [s \in Subagents |-> NoMessage] /\ seq = 0
      /\ lease = [o \in Owners |-> NoLease]
  BY Zenon DEF Init
<1>2. Good(m)
  BY InitGood, Zenon DEF IInv
<1>3. Queue(m, wanted, seq)
  BY <1>1, Zenon DEF Queue
<1>4. Table(m, wanted)
  BY <1>1, Zenon DEF Table, RunningJobs
<1>5. wanted \in [Subagents -> Text] /\ \A s \in Subagents : wanted[s] = NoMessage
  BY <1>1, Zenon DEF Text
<1>6. seq \in 0 .. MaxResumes
  BY <1>1, SubagentAssumption
<1>7. lease \in [Owners -> Lease] /\ \A o \in Owners : Fence(m, lease[o], o)
  BY <1>1, NoFence, Zenon
<1> QED
  BY <1>2, <1>3, <1>4, <1>5, <1>6, <1>7, Zenon DEF SInv, Sound

(* Every step keeps the invariant. *)
LEMMA StepSound ==
  ASSUME SInv, [Next]_vars
  PROVE  SInv'
<1>1. ASSUME NEW s \in Subagents, StartTask(s)
      PROVE  SInv'
  BY <1>1, StartTaskKept, SInvKept, Zenon DEF StartTask
<1>2. ASSUME NEW s \in Subagents, PauseSubagent(s)
      PROVE  SInv'
  BY <1>2, LeaseOnlyKept, SInvKept, Zenon DEF PauseSubagent
<1>3. ASSUME NEW s \in Subagents, CancelSubagent(s)
      PROVE  SInv'
  BY <1>3, CancelSubagentKept, SInvKept, Zenon DEF CancelSubagent
<1>4. ASSUME NEW s \in Subagents, NEW t \in Text, ResumeSubagent(s, t)
      PROVE  SInv'
  BY <1>4, ResumeKept, SInvKept, Zenon DEF ResumeSubagent
<1>5. ASSUME NEW j \in Job, RunSettles(j)
      PROVE  SInv'
  BY <1>5, RunSettlesKept, SInvKept, Zenon DEF RunSettles
<1>6. ASSUME NEW j \in Job, Evict(j)
      PROVE  SInv'
  BY <1>6, EvictKept, SInvKept, Zenon DEF Evict
<1>7. Closing \subseteq Owners
  BY SubagentAssumption, Zenon
<1>8. ASSUME NEW o \in Closing, CancelOwnAsyncJobs(o)
      PROVE  SInv'
  BY <1>8, CancelOwnKept, SInvKept, Zenon DEF CancelOwnAsyncJobs
<1>9. ASSUME NEW o \in Closing, BeginShutdown(o)
      PROVE  SInv'
  <2>1. lease' \in [Owners -> Lease] /\ \A p \in Owners : Fence(m', lease'[p], p)
    BY <1>7, <1>9, BeginFence, Zenon
  <2>2. Kept
    BY <1>9, LeaseOnlyKept, Zenon DEF BeginShutdown
  <2> QED
    BY <2>1, <2>2, Zenon DEF Kept, SInv
<1>10. ASSUME NEW o \in Closing, AbortFails(o) \/ Refused(o) \/ ReplaceFails(o)
       PROVE  SInv'
  BY <1>7, <1>10, ReleaseKept, Zenon
<1>11. ASSUME NEW o \in Closing, CancelTargets(o)
       PROVE  SInv'
  BY <1>7, <1>11, CancelTargetsKept, Zenon DEF Kept, SInv
<1>12. ASSUME NEW o \in Closing, Confirmed(o)
       PROVE  SInv'
  <2>1. lease' \in [Owners -> Lease] /\ \A p \in Owners : Fence(m', lease'[p], p)
    BY <1>7, <1>12, ConfirmedFence, Zenon
  <2>2. Kept
    BY <1>12, LeaseOnlyKept, Zenon DEF Confirmed
  <2> QED
    BY <2>1, <2>2, Zenon DEF Kept, SInv
<1>13. ASSUME NEW o \in Closing, Commit(o)
       PROVE  SInv'
  BY <1>7, <1>13, CommitKept, Zenon DEF Kept, SInv
<1>14. ASSUME UNCHANGED vars
       PROVE  SInv'
  <2>1. m' = m /\ wanted' = wanted /\ seq' = seq /\ lease' = lease
    BY <1>14, Zenon DEF vars
  <2> QED
    BY <2>1, LeaseOnlyKept, SInvKept, Zenon
<1> QED
  BY <1>1, <1>2, <1>3, <1>4, <1>5, <1>6, <1>8, <1>9, <1>10, <1>11, <1>12, <1>13, <1>14, Zenon
  DEF Next

(* The invariant holds in every state. *)
LEMMA SoundAlways == Spec => []SInv
<1>1. Init => SInv
  BY InitSound, Zenon
<1>2. SInv /\ [Next]_vars => SInv'
  BY StepSound, Zenon
<1> QED
  BY <1>1, <1>2, PTL DEF Spec

(* What a resume asked for, by the message given with it or given later, is what the run is told *)
(* (resumeSubagent, #startResume).                                                               *)
THEOREM GivenIsWantedAlways == Spec => []GivenIsWanted
<1>1. SInv => GivenIsWanted
  BY Zenon DEF SInv, Sound, Table, GivenIsWanted
<1> QED
  BY <1>1, SoundAlways, PTL

(* The proof a lease waited for is good for the replacement: no run of the owner is left that    *)
(* the manager knows.                                                                            *)
LEMMA CommitStopped ==
  ASSUME SInv, NEW o \in Owners, Commit(o)
  PROVE  \A j \in JobsOf(o) \cap m.live : j \notin m.jobs /\ m.rec[j[1]] = "none"
<1>1. lease[o].phase = "proved" /\ Fence(m, lease[o], o)
  BY Zenon DEF SInv, Commit
<1>2. /\ \A j \in JobsOf(o) \cap m.live :
           j \in lease[o].backing \/ (j \notin m.jobs /\ m.rec[j[1]] = "none")
      /\ lease[o].backing \cap m.live = {}
  BY <1>1, Zenon DEF Fence, Fencing
<1> QED
  BY <1>2, Zenon

(* newSession replaces a session only when no run of its owner is left that the manager knows,   *)
(* in its job table or by a record.                                                              *)
THEOREM ReplacedWhenStoppedAlways == Spec => ReplacedWhenStopped
<1>1. SInv /\ [Next]_vars =>
        [\A o \in Owners :
           Commit(o) => \A j \in JobsOf(o) \cap m.live :
                          j \notin m.jobs /\ m.rec[j[1]] = "none"]_vars
  BY CommitStopped, Zenon
<1> QED
  BY <1>1, SoundAlways, PTL DEF Spec, ReplacedWhenStopped

(* When nothing of the owner runs, its records are there and nothing captured was evicted, the   *)
(* evidence is complete.                                                                         *)
LEMMA RefusedCause ==
  ASSUME SInv, NEW o \in Owners, Refused(o)
  PROVE  \/ JobsOf(o) \cap m.live # {}
         \/ \E s \in Targets(lease[o]) : m.rec[s] = "none"
         \/ ~(lease[o].backing \subseteq lease[o].awaited)
<1> SUFFICES ASSUME JobsOf(o) \cap m.live = {},
                    \A s \in Targets(lease[o]) : m.rec[s] # "none",
                    lease[o].backing \subseteq lease[o].awaited
             PROVE  Evidence(lease[o])
  BY Zenon DEF Refused
<1>1. lease[o].phase = "proving" /\ Fence(m, lease[o], o) /\ m \in Manager /\ Table(m, wanted) /\ Good(m)
  BY Zenon DEF SInv, Sound, Good, Refused
<1>2. /\ lease[o].records \subseteq Owned(o) /\ lease[o].backing \subseteq JobsOf(o)
      /\ \A s \in Owned(o) : m.rec[s] \notin {"queued", "paused"}
  BY <1>1, Zenon DEF Fence, Fencing
<1>3. lease[o].backing \subseteq lease[o].awaited \ m.live
  BY <1>2, Zenon
<1>4. ASSUME NEW s \in Targets(lease[o])
      PROVE  m.rec[s] \in {"completed", "cancelled"}
  <2>1. s \in Owned(o) /\ s \in Subagents
    BY <1>2, JobPair, Zenon DEF Targets, JobsOf, Owned
  <2>2. m.rec[s] # "running"
    <3> SUFFICES ASSUME m.rec[s] = "running"
                 PROVE  FALSE
      BY Zenon
    <3>1. Current(m, s) \in m.live
      BY <1>1, <2>1, Zenon DEF Table
    <3>2. Current(m, s) \in JobsOf(OwnerOf[s]) /\ OwnerOf[s] = o
      BY <1>1, <2>1, CurrentIsJob, Zenon DEF Owned
    <3> QED
      BY <3>1, <3>2, Zenon
  <2>3. m.rec[s] \in Lifecycle \cup {"none"} /\ m.rec[s] # "none"
    BY <1>1, <2>1, Zenon DEF Manager
  <2> QED
    BY <1>2, <2>1, <2>2, <2>3, Zenon DEF Lifecycle, Active
<1> QED
  BY <1>3, <1>4, Zenon DEF Evidence

(* newSession refuses only when a run of the owner has not settled, or the evidence about a      *)
(* target is gone.                                                                               *)
THEOREM RefusedForCauseAlways == Spec => RefusedForCause
<1>1. SInv /\ [Next]_vars =>
        [\A o \in Owners :
           Refused(o) => \/ JobsOf(o) \cap m.live # {}
                         \/ \E s \in Targets(lease[o]) : m.rec[s] = "none"
                         \/ ~(lease[o].backing \subseteq lease[o].awaited)]_vars
  BY RefusedCause, Zenon
<1> QED
  BY <1>1, SoundAlways, PTL DEF Spec, RefusedForCause


-----------------------------------------------------------------------------
(* The limit and the queue.                                                *)

INSTANCE FiniteSetTheorems

(* A record says queued exactly when one entry of the queue will resume it (resumeSubagent,      *)
(* #drainResumeQueue, cancelSubagent).                                                           *)
THEOREM QueuedHasEntryAlways == Spec => []QueuedHasEntry
<1>1. ASSUME SInv
      PROVE  QueuedHasEntry
  <2>1. /\ \A s \in Subagents : m.rec[s] = "queued" => \E e \in m.queue : e.sub = s
        /\ \A e \in m.queue : m.rec[e.sub] = "queued"
        /\ \A e, f \in m.queue : e.sub = f.sub => e = f
    BY <1>1, Zenon DEF SInv, Sound, Queue
  <2>2. ASSUME NEW s \in Subagents, m.rec[s] = "queued"
        PROVE  Cardinality({e \in m.queue : e.sub = s}) = 1
    <3>1. PICK e \in m.queue : e.sub = s
      BY <2>1, <2>2, Zenon
    <3>2. {f \in m.queue : f.sub = s} = {e}
      BY <2>1, <3>1
    <3> QED
      BY <3>2, FS_Singleton, Zenon
  <2>3. ASSUME NEW s \in Subagents, m.rec[s] # "queued"
        PROVE  \A e \in m.queue : e.sub # s
    BY <2>1, <2>3, Zenon
  <2> QED
    BY <2>2, <2>3, Zenon DEF QueuedHasEntry
<1>2. SInv => QueuedHasEntry
  BY <1>1, Zenon
<1> QED
  BY <1>2, SoundAlways, PTL

(* A function to the integers takes its least value on a finite set. *)
LEMMA HasLeast ==
  ASSUME NEW E, IsFiniteSet(E), E # {}, NEW f \in [E -> Int]
  PROVE  \E e \in E : \A g \in E : f[e] <= f[g]
<1> DEFINE Below(e) == {g \in E : f[g] < f[e]}
           Family == {Below(e) : e \in E}
<1>1. \A e \in E : Below(e) \in FiniteSubsetsOf(E)
  <2>1. \A e \in E : Below(e) \in SUBSET E /\ IsFiniteSet(Below(e))
    BY FS_Subset, Zenon
  <2> QED
    BY <2>1, Zenon DEF FiniteSubsetsOf
<1>2. Family \subseteq FiniteSubsetsOf(E) /\ Family # {}
  <2> HIDE DEF Below
  <2> QED
    BY <1>1, Zenon
<1> HIDE DEF Family
<1>3. PICK B \in Family : \A C \in Family : <<C, B>> \notin StrictSubsetOrdering(E)
  BY <1>2, FS_StrictSubsetOrderingWellFounded, WFMin, Zenon
<1>4. PICK e \in E : B = Below(e)
  BY <1>3, Zenon DEF Family
<1>5. ASSUME NEW g \in E, f[g] < f[e]
      PROVE  FALSE
  <2>1. Below(g) \subseteq Below(e) /\ g \in Below(e) /\ g \notin Below(g) /\ Below(e) \subseteq E
    BY <1>5
  <2>2. <<Below(g), Below(e)>> \in StrictSubsetOrdering(E)
    <3> HIDE DEF Below
    <3>1. Below(g) \in SUBSET E /\ Below(e) \in SUBSET E /\ Below(g) # Below(e)
      BY <2>1, Zenon
    <3> QED
      BY <2>1, <3>1, Zenon DEF StrictSubsetOrdering
  <2>3. Below(g) \in Family
    BY Zenon DEF Family
  <2> QED
    BY <1>3, <1>4, <2>2, <2>3, Zenon
<1> QED
  BY <1>5

(* The limit of running jobs, of which there are finitely many, like entries of the queue. *)
Bounded(st) ==
  /\ IsFiniteSet(st.queue)
  /\ IsFiniteSet(RunningJobs(st))
  /\ Cardinality(RunningJobs(st)) <= MaxRunning

(* QueuedWaits, of the tables st. *)
Waits(st) ==
  \A s \in Subagents :
    st.rec[s] = "queued" => Fenced(s) \/ st.live # {} \/ lease[OwnerOf[s]].phase = "abandoned"

(* Where nothing is started the limit holds on. *)
LEMMA FewerBounded ==
  ASSUME NEW st, Bounded(st), NEW new, Fewer(st, new)
  PROVE  Bounded(new)
<1>1. new.queue \in SUBSET st.queue /\ RunningJobs(new) \in SUBSET RunningJobs(st)
  BY Zenon DEF Fewer
<1>2. IsFiniteSet(new.queue) /\ IsFiniteSet(RunningJobs(new))
  BY <1>1, FS_Subset, Zenon DEF Bounded
<1>3. /\ Cardinality(RunningJobs(new)) <= Cardinality(RunningJobs(st))
      /\ Cardinality(RunningJobs(st)) \in Nat /\ Cardinality(RunningJobs(new)) \in Nat
  BY <1>1, <1>2, FS_Subset, FS_CardinalityType, Zenon DEF Bounded
<1>4. Cardinality(RunningJobs(st)) <= MaxRunning
  BY Zenon DEF Bounded
<1>5. Cardinality(RunningJobs(new)) <= MaxRunning
  BY <1>3, <1>4, SubagentAssumption
<1> QED
  BY <1>2, <1>5, Zenon DEF Bounded

(* One run more, when the limit is not reached. *)
LEMMA LaunchBounded ==
  ASSUME NEW st \in Manager, Bounded(st), ~Full(st), NEW s \in Subagents, NEW M
  PROVE  Bounded(Launch(st, {s}, M)) /\ Launch(st, {s}, M).live # {}
<1> DEFINE new == {<<u, st.cur[u] + 1>> : u \in {s}}
           L == Launch(st, {s}, M)
           j == <<s, st.cur[s] + 1>>
<1>1. /\ L.jobs = st.jobs \cup new /\ L.live = st.live \cup new
      /\ L.status = [i \in Job |-> IF i \in new THEN "running" ELSE st.status[i]]
      /\ L.queue = st.queue
  BY Zenon DEF Launch, Manager
<1>2. new = {j}
  BY Zenon
<1>3. st.jobs \subseteq Job
  BY Zenon DEF Manager
<1> HIDE DEF new, L, j
<1>4. RunningJobs(L) \in SUBSET (RunningJobs(st) \cup {j})
  BY <1>1, <1>2, <1>3, Zenon DEF RunningJobs
<1>5. /\ IsFiniteSet(RunningJobs(st) \cup {j})
      /\ Cardinality(RunningJobs(st) \cup {j}) =
           IF j \in RunningJobs(st) THEN Cardinality(RunningJobs(st))
                                    ELSE Cardinality(RunningJobs(st)) + 1
  BY FS_AddElement, Zenon DEF Bounded
<1>6. /\ IsFiniteSet(RunningJobs(L))
      /\ Cardinality(RunningJobs(L)) <= Cardinality(RunningJobs(st) \cup {j})
      /\ Cardinality(RunningJobs(L)) \in Nat /\ Cardinality(RunningJobs(st)) \in Nat
  BY <1>4, <1>5, FS_Subset, FS_CardinalityType, Zenon DEF Bounded
<1>7. Cardinality(RunningJobs(L)) <= MaxRunning
  BY <1>5, <1>6, SubagentAssumption DEF Full
<1>8. L.live # {}
  BY <1>1, <1>2, Zenon
<1> QED
  BY <1>1, <1>6, <1>7, <1>8, Zenon DEF Bounded, L


(* What a drain starts fits under the limit. *)
LEMMA StartedFits ==
  ASSUME NEW st, NEW w, NEW n, Sound(st, w, n), Bounded(st)
  PROVE  /\ IsFiniteSet(Started(st))
         /\ Cardinality(Started(st)) + Cardinality(RunningJobs(st)) <= MaxRunning
<1> DEFINE E == Started(st)
           Before(e) == {f \in Startable(st) : f.seq < e.seq}
<1>1. E \subseteq Startable(st) /\ Startable(st) \subseteq st.queue
  BY Zenon DEF Started, Reached, Startable
<1>2. IsFiniteSet(E) /\ IsFiniteSet(Startable(st))
  <2>1. E \in SUBSET st.queue /\ Startable(st) \in SUBSET st.queue
    BY <1>1, Zenon
  <2> QED
    BY <2>1, FS_Subset, Zenon DEF Bounded
<1>3. \A e \in E : Cardinality(Before(e)) + Cardinality(RunningJobs(st)) < MaxRunning
  BY Zenon DEF Started, Reached
<1>4. Cardinality(RunningJobs(st)) \in Nat /\ Cardinality(RunningJobs(st)) <= MaxRunning
  BY FS_CardinalityType, Zenon DEF Bounded
<1>5. \A e \in st.queue : e.seq \in Int
  <2>1. st.queue \subseteq Entry
    BY Fields, Zenon DEF Sound, Good
  <2> QED
    BY <2>1 DEF Entry
<1> HIDE DEF E
<1>6. CASE E = {}
  <2>1. Cardinality(E) = 0
    BY <1>6, FS_EmptySet, Zenon
  <2> QED
    BY <1>2, <1>4, <2>1 DEF E
<1>7. CASE E # {}
  <2>1. PICK e \in E : \A g \in E : g.seq <= e.seq
    <3>1. PICK h : h = [g \in E |-> -g.seq]
      BY Zenon
    <3>2. \A g \in E : g.seq \in Int
      BY <1>1, <1>5, Zenon
    <3>3. h \in [E -> Int] /\ \A g \in E : h[g] = -g.seq
      BY <3>1, <3>2
    <3>4. PICK e \in E : \A g \in E : h[e] <= h[g]
      BY <1>2, <1>7, <3>3, HasLeast, Zenon
    <3>5. \A g \in E : g.seq <= e.seq
      BY <3>2, <3>3, <3>4
    <3> QED
      BY <3>5, Zenon
  <2>2. E \ {e} \in SUBSET Before(e)
    <3>1. ASSUME NEW g \in E, g # e
          PROVE  g.seq < e.seq
      <4>1. g \in st.queue /\ e \in st.queue /\ g.seq \in Int /\ e.seq \in Int
        BY <1>1, <1>5, Zenon
      <4>2. g.seq # e.seq
        BY <3>1, <4>1, Zenon DEF Sound, Queue
      <4> QED
        BY <2>1, <4>1, <4>2
    <3> QED
      BY <1>1, <3>1, Zenon
  <2>3. IsFiniteSet(Before(e))
    <3>1. Before(e) \in SUBSET Startable(st)
      BY Zenon
    <3> QED
      BY <1>2, <3>1, FS_Subset, Zenon
  <2>4. Cardinality(Before(e)) + Cardinality(RunningJobs(st)) < MaxRunning
    BY <1>3, Zenon
  <2> HIDE DEF Before
  <2>5. Cardinality(E \ {e}) <= Cardinality(Before(e)) /\ Cardinality(Before(e)) \in Nat
    BY <2>2, <2>3, FS_Subset, FS_CardinalityType, Zenon
  <2>6. Cardinality(E \ {e}) = Cardinality(E) - 1 /\ Cardinality(E) \in Nat
    BY <1>2, FS_RemoveElement, FS_CardinalityType, Zenon
  <2>7. Cardinality(E) + Cardinality(RunningJobs(st)) <= MaxRunning
    BY <1>4, <2>4, <2>5, <2>6, SubagentAssumption
  <2> QED
    BY <1>2, <2>7, Zenon DEF E
<1> QED
  BY <1>6, <1>7, Zenon

(* The running jobs and the runs after a drain (#startResume, register). *)
LEMMA DrainRuns ==
  ASSUME NEW st, NEW w, NEW n, Sound(st, w, n), NEW d, d = Drain(st),
         NEW new, new = {<<e.sub, st.cur[e.sub] + 1>> : e \in Started(st)}
  PROVE  /\ d.live = st.live \cup new
         /\ RunningJobs(d) \subseteq RunningJobs(st) \cup new
         /\ \A s \in Subagents : d.rec[s] = "queued" => st.rec[s] = "queued"
<1>1. PICK M : /\ Good(Launch(st, StartedSubs(st), M))
               /\ Drain(st) = [Launch(st, StartedSubs(st), M) EXCEPT !.queue = st.queue \ Started(st)]
  BY DrainIs, Zenon
<1>2. st \in Manager /\ st.jobs \subseteq Job
  BY Fields, Zenon DEF Sound, Good
<1>3. PICK S : S = StartedSubs(st)
  BY Zenon
<1>4. new = {<<s, st.cur[s] + 1>> : s \in S}
  BY <1>3, Zenon DEF StartedSubs
<1>5. PICK L : L = Launch(st, S, M)
  BY Zenon
<1>6. /\ L.jobs = st.jobs \cup new /\ L.live = st.live \cup new
      /\ L.status = [j \in Job |-> IF j \in new THEN "running" ELSE st.status[j]]
      /\ L.rec = [s \in Subagents |-> IF s \in S THEN "running" ELSE st.rec[s]]
  BY <1>2, <1>4, <1>5, Zenon DEF Launch, Manager
<1>7. d.jobs = L.jobs /\ d.live = L.live /\ d.status = L.status /\ d.rec = L.rec
  <2>1. d = [L EXCEPT !.queue = st.queue \ Started(st)] /\ L \in Manager
    BY <1>1, <1>3, <1>5, Zenon DEF Good
  <2> QED
    BY <2>1, Zenon DEF Manager
<1>8. RunningJobs(d) \subseteq RunningJobs(st) \cup new
  BY <1>2, <1>6, <1>7 DEF RunningJobs
<1>9. \A s \in Subagents : d.rec[s] = "queued" => st.rec[s] = "queued"
  BY <1>6, <1>7
<1> QED
  BY <1>6, <1>7, <1>8, <1>9, Zenon

(* A drain keeps the limit. *)
LEMMA DrainBounded ==
  ASSUME NEW st, NEW w, NEW n, Sound(st, w, n), Bounded(st)
  PROVE  Bounded(Drain(st))
<1> DEFINE E == Started(st)
           run(e) == <<e.sub, st.cur[e.sub] + 1>>
           new == {run(e) : e \in E}
           R == RunningJobs(st)
<1>1. PICK d : d = Drain(st)
  BY Zenon
<1>2. RunningJobs(d) \in SUBSET (R \cup new)
  BY <1>1, DrainRuns, Zenon
<1>3. IsFiniteSet(E) /\ Cardinality(E) + Cardinality(R) <= MaxRunning /\ IsFiniteSet(R)
  BY StartedFits, Zenon DEF Bounded
<1> HIDE DEF E, R, run
<1>4. IsFiniteSet(new) /\ Cardinality(new) <= Cardinality(E)
  <2>1. PICK h : h = [e \in E |-> run(e)]
    BY Zenon
  <2>2. h \in Surjection(E, new)
    BY <2>1, Zenon DEF Surjection
  <2> QED
    BY <1>3, <2>2, FS_Surjection, Zenon
<1> HIDE DEF new
<1>5. /\ IsFiniteSet(R \cup new)
      /\ Cardinality(R \cup new) = Cardinality(R) + Cardinality(new) - Cardinality(R \cap new)
  BY <1>3, <1>4, FS_Union, Zenon
<1>6. IsFiniteSet(R \cap new)
  <2>1. R \cap new \in SUBSET R
    BY Zenon
  <2> QED
    BY <1>3, <2>1, FS_Subset, Zenon
<1>7. IsFiniteSet(RunningJobs(d)) /\ Cardinality(RunningJobs(d)) <= Cardinality(R \cup new)
  BY <1>2, <1>5, FS_Subset, Zenon
<1>8. /\ Cardinality(R) \in Nat /\ Cardinality(new) \in Nat /\ Cardinality(R \cap new) \in Nat
      /\ Cardinality(E) \in Nat /\ Cardinality(RunningJobs(d)) \in Nat
  BY <1>3, <1>4, <1>6, <1>7, FS_CardinalityType, Zenon
<1>9. Cardinality(RunningJobs(d)) <= MaxRunning
  BY <1>3, <1>4, <1>5, <1>7, <1>8, SubagentAssumption
<1>10. d.queue \in SUBSET st.queue
  BY <1>1, DrainSound, Zenon
<1>11. IsFiniteSet(d.queue)
  BY <1>10, FS_Subset, Zenon DEF Bounded
<1> QED
  BY <1>1, <1>7, <1>9, <1>11, Zenon DEF Bounded

(* After a drain every queued subagent waits for a run that is under way, or is fenced: when     *)
(* nothing runs, the first entry of the queue is started.                                        *)
LEMMA DrainWaits ==
  ASSUME NEW st, NEW w, NEW n, Sound(st, w, n), Bounded(st), NEW s \in Subagents,
         Drain(st).rec[s] = "queued"
  PROVE  Fenced(s) \/ Drain(st).live # {}
<1> SUFFICES ASSUME ~Fenced(s), Drain(st).live = {}
             PROVE  FALSE
  BY Zenon
<1>1. PICK d : d = Drain(st)
  BY Zenon
<1>2. PICK new : new = {<<e.sub, st.cur[e.sub] + 1>> : e \in Started(st)}
  BY Zenon
<1>3. d.live = st.live \cup new /\ (d.rec[s] = "queued" => st.rec[s] = "queued")
  <2>1. d.live = st.live \cup new
    BY <1>1, <1>2, DrainRuns, ZenonT(30)
  <2>2. \A u \in Subagents : d.rec[u] = "queued" => st.rec[u] = "queued"
    BY <1>1, <1>2, DrainRuns
  <2> QED
    BY <2>1, <2>2, Zenon
<1>4. st.rec[s] = "queued" /\ st.live = {} /\ Started(st) = {}
  BY <1>1, <1>2, <1>3, Zenon
<1>5. Cardinality(RunningJobs(st)) = 0
  <2>1. RunningJobs(st) \subseteq st.live
    BY Zenon DEF Sound, Table
  <2>2. RunningJobs(st) = {}
    BY <1>4, <2>1, Zenon
  <2> QED
    BY <2>2, FS_EmptySet, Zenon
<1>6. \A e \in st.queue : e.seq \in Int
  <2>1. st.queue \subseteq Entry
    BY Fields, Zenon DEF Sound, Good
  <2> QED
    BY <2>1 DEF Entry
<1>7. PICK e \in st.queue : e.sub = s
  BY <1>4, Zenon DEF Sound, Queue
<1>8. \A f \in st.queue : f.sub = e.sub => f = e
  BY Zenon DEF Sound, Queue
<1>9. e \in Startable(st)
  BY <1>4, <1>6, <1>7, <1>8 DEF Startable
<1>10. Startable(st) \in SUBSET st.queue
  BY Zenon DEF Startable
<1>11. PICK F : F = Startable(st)
  BY Zenon
<1>12. IsFiniteSet(F) /\ F # {} /\ \A f \in F : f.seq \in Int
  BY <1>6, <1>9, <1>10, <1>11, FS_Subset, Zenon DEF Bounded
<1>13. PICK b \in F : \A f \in F : b.seq <= f.seq
  <2>1. PICK h : h = [f \in F |-> f.seq]
    BY Zenon
  <2>2. h \in [F -> Int] /\ \A f \in F : h[f] = f.seq
    BY <1>12, <2>1, Zenon
  <2>3. PICK b \in F : \A f \in F : h[b] <= h[f]
    BY <1>12, <2>2, HasLeast, Zenon
  <2> QED
    BY <2>2, <2>3, Zenon
<1>14. {f \in Startable(st) : f.seq < b.seq} = {}
  BY <1>11, <1>12, <1>13
<1>15. Cardinality({f \in Startable(st) : f.seq < b.seq}) = 0
  BY <1>14, FS_EmptySet, Zenon
<1>16. Cardinality({f \in Startable(st) : f.seq < b.seq}) + Cardinality(RunningJobs(st)) < MaxRunning
  BY <1>5, <1>15, SubagentAssumption
<1>17. b \in Started(st)
  BY <1>11, <1>13, <1>16, Zenon DEF Started, Reached
<1> QED
  BY <1>4, <1>17, Zenon


Fit(st) == Bounded(st) /\ Waits(st)

(* Where nothing is started and no run settles, the queued subagents wait on. *)
LEMMA FewerFit ==
  ASSUME NEW st, NEW new, NEW w, NEW n, Sound(st, w, n), Sound(new, w, n), Fewer(st, new),
         new.live = st.live, Fit(st)
  PROVE  Fit(new)
<1>1. Bounded(new)
  BY FewerBounded, Zenon DEF Fit
<1>2. ASSUME NEW s \in Subagents, new.rec[s] = "queued"
      PROVE  st.rec[s] = "queued"
  <2>1. PICK e \in new.queue : e.sub = s
    BY <1>2, ZenonT(30) DEF Sound, Queue
  <2>2. e \in st.queue
    BY <2>1, Zenon DEF Fewer
  <2> QED
    BY <2>1, <2>2, Zenon DEF Sound, Queue
<1>3. Waits(new)
  BY <1>2, Zenon DEF Waits, Fit
<1> QED
  BY <1>1, <1>3, Zenon DEF Fit

(* A drain starts what can be started. *)
LEMMA DrainFit ==
  ASSUME NEW st, NEW w, NEW n, Sound(st, w, n), Bounded(st)
  PROVE  Fit(Drain(st))
<1>1. Bounded(Drain(st))
  BY DrainBounded, Zenon
<1>2. \A s \in Subagents : Drain(st).rec[s] = "queued" => Fenced(s) \/ Drain(st).live # {}
  BY DrainWaits, Zenon
<1>3. Waits(Drain(st))
  BY <1>2, Zenon DEF Waits
<1> QED
  BY <1>1, <1>3, Zenon DEF Fit

(* The runs are the same after every cancellation. *)
LEMMA SameRuns ==
  ASSUME NEW st \in Manager, NEW X
  PROVE  /\ Abort(st, X).live = st.live /\ CancelPaused(st, X).live = st.live
         /\ CancelQueued(st, X).live = st.live /\ Purge(st, X).live = st.live
<1>1. Abort(st, X).live = st.live
  BY Zenon DEF Abort, Manager
<1>2. CancelPaused(st, X).live = st.live
  BY Zenon DEF CancelPaused, Manager
<1>3. CancelQueued(st, X).live = st.live
  BY Zenon DEF CancelQueued, Manager
<1>4. Purge(st, X).live = st.live
  BY Zenon DEF Purge, Manager
<1> QED
  BY <1>1, <1>2, <1>3, <1>4, Zenon

(* Each cancellation, of tables that are sound, leaves them fit. *)
LEMMA CancelFit ==
  ASSUME NEW st, NEW w, NEW n, Sound(st, w, n), Fit(st), NEW X
  PROVE  /\ Fit(Abort(st, X)) /\ Fit(Purge(st, X))
         /\ (\A s \in X \cap Subagents : st.rec[s] = "queued") => Fit(CancelQueued(st, X))
         /\ (\A j \in X \cap st.jobs : st.status[j] = "paused" => st.rec[j[1]] # "queued") =>
               Fit(CancelPaused(st, X))
<1>1. /\ Abort(st, X).live = st.live /\ CancelPaused(st, X).live = st.live
      /\ CancelQueued(st, X).live = st.live /\ Purge(st, X).live = st.live
  BY SameRuns, Zenon DEF Sound, Good
<1>2. Fit(Abort(st, X))
  <2>1. Sound(Abort(st, X), w, n) /\ Fewer(st, Abort(st, X))
    BY AbortSound, Zenon
  <2> QED
    BY <1>1, <2>1, FewerFit, Zenon
<1>3. Fit(Purge(st, X))
  <2>1. Sound(Purge(st, X), w, n) /\ Fewer(st, Purge(st, X))
    BY PurgeSound, Zenon
  <2> QED
    BY <1>1, <2>1, FewerFit, Zenon
<1>4. ASSUME \A s \in X \cap Subagents : st.rec[s] = "queued"
      PROVE  Fit(CancelQueued(st, X))
  <2>1. Sound(CancelQueued(st, X), w, n) /\ Fewer(st, CancelQueued(st, X))
    BY <1>4, CancelQueuedSound, Zenon
  <2> QED
    BY <1>1, <2>1, FewerFit, Zenon
<1>5. ASSUME \A j \in X \cap st.jobs : st.status[j] = "paused" => st.rec[j[1]] # "queued"
      PROVE  Fit(CancelPaused(st, X))
  <2>1. Sound(CancelPaused(st, X), w, n) /\ Fewer(st, CancelPaused(st, X))
    BY <1>5, CancelPausedSound, Zenon
  <2> QED
    BY <1>1, <2>1, FewerFit, Zenon
<1> QED
  BY <1>2, <1>3, <1>4, <1>5, Zenon

(* A task is started only under the limit. *)
LEMMA StartTaskFit ==
  ASSUME SInv, Fit(m), NEW s \in Subagents, StartTask(s)
  PROVE  Fit(m')
<1>1. m \in Manager /\ Bounded(m) /\ ~Full(m) /\ m' = Launch(m, {s}, [t \in {s} |-> NoMessage])
  BY Zenon DEF SInv, Sound, Good, Fit, StartTask
<1>2. Bounded(m') /\ m'.live # {}
  BY <1>1, LaunchBounded, Zenon
<1> QED
  BY <1>2, Zenon DEF Fit, Waits

(* A resume is started under the limit.  Otherwise it is queued, and a run is under way. *)
LEMMA ResumeFit ==
  ASSUME SInv, Fit(m), NEW s \in Subagents, NEW t \in Text, ResumeSubagent(s, t)
  PROVE  Fit(m')
<1>1. m \in Manager /\ Bounded(m) /\ Waits(m) /\ RunningJobs(m) \subseteq m.live
  BY Zenon DEF SInv, Sound, Good, Table, Fit
<1>2. CASE m' = [m EXCEPT !.queue = Retext(@, s, t)]
  <2>1. /\ m'.queue = Retext(m.queue, s, t) /\ m'.jobs = m.jobs /\ m'.status = m.status
        /\ m'.rec = m.rec /\ m'.live = m.live
    BY <1>1, <1>2, Zenon DEF Manager
  <2>2. IsFiniteSet(m'.queue)
    <3> DEFINE text(e) == IF e.sub = s /\ \A f \in m.queue : f.sub = s => e.seq <= f.seq
                          THEN [e EXCEPT !.msg = t] ELSE e
    <3>1. m'.queue = {text(e) : e \in m.queue}
      BY <2>1, Zenon DEF Retext
    <3> HIDE DEF text
    <3>2. PICK h : h = [e \in m.queue |-> text(e)]
      BY Zenon
    <3>3. h \in Surjection(m.queue, m'.queue)
      BY <3>1, <3>2, Zenon DEF Surjection
    <3> QED
      BY <1>1, <3>3, FS_Surjection, Zenon DEF Bounded
  <2>3. RunningJobs(m') = RunningJobs(m)
    BY <2>1, Zenon DEF RunningJobs
  <2> QED
    BY <1>1, <2>1, <2>2, <2>3, Zenon DEF Fit, Bounded, Waits
<1>3. CASE Full(m) /\ m' = [m EXCEPT !.rec[s] = "queued",
                                     !.queue = @ \cup {[sub |-> s, seq |-> seq + 1, msg |-> t]}]
  <2>1. /\ m'.queue = m.queue \cup {[sub |-> s, seq |-> seq + 1, msg |-> t]} /\ m'.jobs = m.jobs
        /\ m'.status = m.status /\ m'.live = m.live
    BY <1>1, <1>3, Zenon DEF Manager
  <2>2. IsFiniteSet(m'.queue)
    BY <1>1, <2>1, FS_AddElement, ZenonT(30) DEF Bounded
  <2>3. RunningJobs(m') = RunningJobs(m)
    BY <2>1, Zenon DEF RunningJobs
  <2>4. m.live # {}
    <3> SUFFICES ASSUME m.live = {}
                 PROVE  FALSE
      BY Zenon
    <3>1. RunningJobs(m) = {}
      BY <1>1, Zenon
    <3>2. Cardinality(RunningJobs(m)) = 0
      BY <3>1, FS_EmptySet, Zenon
    <3> QED
      BY <1>3, <3>2, SubagentAssumption DEF Full
  <2> QED
    BY <1>1, <2>1, <2>2, <2>3, <2>4, Zenon DEF Fit, Bounded, Waits
<1>4. CASE ~Full(m) /\ m' = Launch(m, {s}, [u \in {s} |-> t])
  <2>1. Bounded(m') /\ m'.live # {}
    BY <1>1, <1>4, LaunchBounded, Zenon
  <2> QED
    BY <2>1, Zenon DEF Fit, Waits
<1> QED
  BY <1>2, <1>3, <1>4, Zenon DEF ResumeSubagent


(* cancelSubagent, and the drain after a paused one. *)
LEMMA CancelSubagentFit ==
  ASSUME SInv, Fit(m), NEW s \in Subagents, CancelSubagent(s)
  PROVE  Fit(m')
<1>1. Sound(m, wanted, seq)
  BY Zenon DEF SInv
<1>2. CASE m' = Abort(m, {Current(m, s)})
  BY <1>1, <1>2, CancelFit, Zenon
<1>3. CASE m.rec[s] = "paused" /\ m' = Drain(CancelPaused(m, {Current(m, s)}))
  <2>1. PICK st : st = CancelPaused(m, {Current(m, s)})
    BY Zenon
  <2>2. \A j \in {Current(m, s)} \cap m.jobs : m.status[j] = "paused" => m.rec[j[1]] # "queued"
    BY <1>3 DEF Current
  <2>3. Sound(st, wanted, seq)
    BY <1>1, <2>1, <2>2, CancelPausedSound, Zenon
  <2>4. Fit(st)
    BY <1>1, <2>1, <2>2, CancelFit, Zenon
  <2> QED
    BY <1>3, <2>1, <2>3, <2>4, DrainFit, Zenon DEF Fit
<1>4. CASE m.rec[s] = "queued" /\ m' = CancelQueued(m, {s})
  <2>1. \A u \in {s} \cap Subagents : m.rec[u] = "queued"
    BY <1>4, Zenon
  <2> QED
    BY <1>1, <1>4, <2>1, CancelFit, Zenon
<1> QED
  BY <1>2, <1>3, <1>4, Zenon DEF CancelSubagent

(* The end of a run, and the drain it sets off. *)
LEMMA RunSettlesFit ==
  ASSUME SInv, Fit(m), NEW j \in Job, RunSettles(j)
  PROVE  Fit(m')
<1>1. Sound(m, wanted, seq) /\ j \in m.live
  BY Zenon DEF SInv, RunSettles
<1>2. PICK r \in {"paused", "completed", "cancelled"} :
        m' = Drain(Ended(m, j, r)) /\ (m.status[j] = "cancelled" => r = "cancelled")
  BY Zenon DEF RunSettles
<1>3. PICK st : st = Ended(m, j, r)
  BY Zenon
<1>4. Sound(st, wanted, seq) /\ Fewer(m, st)
  BY <1>1, <1>2, <1>3, EndedSound, Zenon
<1>5. Bounded(st)
  BY <1>4, FewerBounded, Zenon DEF Fit
<1> QED
  BY <1>2, <1>3, <1>4, <1>5, DrainFit, Zenon

(* An eviction. *)
LEMMA EvictFit ==
  ASSUME SInv, Fit(m), NEW j \in Job, Evict(j)
  PROVE  Fit(m')
<1> DEFINE T == [m.status EXCEPT ![j] = IF j \in m.live THEN @ ELSE "completed"]
<1>1. m \in Manager /\ m.status \in [Job -> Lifecycle \ {"queued"}] /\ m.jobs \subseteq Job
  BY Fields, Zenon DEF SInv, Sound, Good
<1>2. \A k \in Job : T[k] \in {m.status[k], "completed"}
  BY <1>1, Zenon
<1>3. m' = [m EXCEPT !.jobs = m.jobs \ {j}, !.timers = m.timers \ {j}, !.status = T]
  BY <1>1, Zenon DEF Evict, Manager
<1> HIDE DEF T
<1>4. m'.jobs = m.jobs \ {j} /\ m'.status = T /\ m'.live = m.live /\ m'.rec = m.rec /\ m'.queue = m.queue
  BY <1>1, <1>3, Zenon DEF Manager
<1>5. Fewer(m, m')
  BY <1>1, <1>2, <1>4, Zenon DEF Fewer, RunningJobs
<1>6. Bounded(m')
  BY <1>5, FewerBounded, Zenon DEF Fit
<1> QED
  BY <1>4, <1>6, Zenon DEF Fit, Waits

(* clearContext and its like. *)
LEMMA CancelOwnFit ==
  ASSUME SInv, Fit(m), NEW p \in Closing, CancelOwnAsyncJobs(p)
  PROVE  Fit(m')
<1>1. Sound(m, wanted, seq)
  BY Zenon DEF SInv
<1>2. PICK R : R = JobsOf(p) \cap RunningJobs(m)
  BY Zenon
<1>3. PICK q : q = Purge(m, p)
  BY Zenon
<1>4. PICK a : a = Abort(q, R)
  BY Zenon
<1>5. m' = [a EXCEPT !.timers = @ \cup R]
  BY <1>2, <1>3, <1>4, Zenon DEF CancelOwnAsyncJobs
<1>6. Sound(q, wanted, seq)
  BY <1>1, <1>3, PurgeSound, Zenon
<1>7. Fit(q)
  BY <1>1, <1>3, CancelFit, Zenon
<1>8. Fit(a)
  BY <1>4, <1>6, <1>7, CancelFit, Zenon
<1>9. Sound(a, wanted, seq)
  BY <1>4, <1>6, AbortSound, Zenon
<1>10. a \in Manager
  BY <1>9, Zenon DEF Sound, Good
<1>11. /\ m'.jobs = a.jobs /\ m'.live = a.live /\ m'.status = a.status
       /\ m'.rec = a.rec /\ m'.queue = a.queue
  BY <1>5, <1>10, Zenon DEF Manager
<1>12. RunningJobs(m') = RunningJobs(a)
  BY <1>11, Zenon DEF RunningJobs
<1> QED
  BY <1>8, <1>11, <1>12, Zenon DEF Fit, Bounded, Waits

(* cancelAndProveOwnerSubagents up to its await. *)
LEMMA CancelTargetsFit ==
  ASSUME SInv, Fit(m), NEW o \in Owners, CancelTargets(o)
  PROVE  Fit(m')
<1>1. lease[o].phase = "active" /\ Sound(m, wanted, seq) /\ Fence(m, lease[o], o)
  BY Zenon DEF CancelTargets, SInv
<1>2. PICK known : known = {s \in lease[o].records : m.rec[s] # "none"}
  BY Zenon
<1>3. PICK queued : queued = {s \in known : m.rec[s] = "queued"}
  BY Zenon
<1>4. PICK hit : hit = lease[o].backing \cup {Current(m, s) : s \in known \ queued}
  BY Zenon
<1>5. PICK paused : paused = {j \in hit \cap m.jobs : m.status[j] = "paused"}
  BY Zenon
<1>6. PICK st : st = CancelQueued(m, queued)
  BY Zenon
<1>7. \A s \in queued \cap Subagents : m.rec[s] = "queued"
  BY <1>3, Zenon
<1>8. Sound(st, wanted, seq)
  BY <1>1, <1>6, <1>7, CancelQueuedSound, Zenon
<1>9. Fit(st)
  BY <1>1, <1>6, <1>7, CancelFit, Zenon
<1>10. CASE m' = Abort(st, hit)
  BY <1>8, <1>9, <1>10, CancelFit, Zenon
<1>11. ASSUME NEW C, m' = Abort(Drain(CancelPaused(Abort(st, C), paused)), hit)
       PROVE  Fit(m')
  <2>1. PICK a : a = Abort(st, C)
    BY Zenon
  <2>2. PICK c : c = CancelPaused(a, paused)
    BY Zenon
  <2>3. PICK d : d = Drain(c)
    BY Zenon
  <2>4. Sound(a, wanted, seq)
    BY <1>8, <2>1, AbortSound, Zenon
  <2>5. Fit(a)
    BY <1>8, <1>9, <2>1, CancelFit, Zenon
  <2>6. NoneQueued(a, paused)
    BY <1>1, <1>2, <1>3, <1>4, <1>5, <1>6, <2>1, PausedNotQueued, Zenon
  <2>7. Sound(c, wanted, seq)
    BY <2>2, <2>4, <2>6, CancelPausedSound, Zenon DEF NoneQueued
  <2>8. Fit(c)
    BY <2>2, <2>4, <2>5, <2>6, CancelFit, Zenon DEF NoneQueued
  <2>9. Sound(d, wanted, seq)
    BY <2>3, <2>7, DrainSound, Zenon
  <2>10. Fit(d)
    BY <2>3, <2>7, <2>8, DrainFit, Zenon DEF Fit
  <2> QED
    BY <1>11, <2>1, <2>2, <2>3, <2>9, <2>10, CancelFit, Zenon
<1> QED
  BY <1>2, <1>3, <1>4, <1>5, <1>6, <1>10, <1>11, Zenon DEF CancelTargets

(* The replacement: the drain after the paused jobs, then the cancellation of what is left. *)
LEMMA CommitFit ==
  ASSUME SInv, Fit(m), NEW o \in Owners, Commit(o)
  PROVE  Fit(m') /\ \A s \in Owned(o) : m'.rec[s] = "none"
<1>1. lease[o].phase = "proved" /\ Sound(m, wanted, seq) /\ Fence(m, lease[o], o)
  BY Zenon DEF Commit, SInv
<1>2. PICK P : P = {j \in JobsOf(o) \cap m.jobs : m.status[j] = "paused"}
  BY Zenon
<1>3. PICK st : st = IF P = {} THEN m ELSE Drain(CancelPaused(m, P))
  BY Zenon
<1>4. m' = Purge(Abort(st, JobsOf(o)), o)
  BY <1>2, <1>3, Zenon DEF Commit
<1>5. Sound(st, wanted, seq) /\ Fit(st)
  <2>1. CASE P = {}
    BY <1>1, <1>3, <2>1, Zenon
  <2>2. CASE P # {}
    <3>1. PICK c : c = CancelPaused(m, P)
      BY Zenon
    <3>2. \A s \in Owned(o) : m.rec[s] # "queued"
      BY <1>1, Zenon DEF Fence
    <3>3. \A j \in P \cap m.jobs : m.status[j] = "paused" => m.rec[j[1]] # "queued"
      BY <1>2, <3>2, JobPair, Zenon DEF JobsOf, Owned
    <3>4. Sound(c, wanted, seq)
      BY <1>1, <3>1, <3>3, CancelPausedSound, Zenon
    <3>5. Fit(c)
      BY <1>1, <3>1, <3>3, CancelFit, Zenon
    <3>6. st = Drain(c)
      BY <1>3, <2>2, <3>1, Zenon
    <3>7. Sound(st, wanted, seq)
      BY <3>4, <3>6, DrainSound, Zenon
    <3> QED
      BY <3>4, <3>5, <3>6, <3>7, DrainFit, Zenon DEF Fit
  <2> QED
    BY <2>1, <2>2, Zenon
<1>6. PICK a : a = Abort(st, JobsOf(o))
  BY Zenon
<1>7. Sound(a, wanted, seq)
  BY <1>5, <1>6, AbortSound, Zenon
<1>8. Fit(a)
  BY <1>5, <1>6, CancelFit, Zenon
<1>9. Fit(m')
  BY <1>4, <1>6, <1>7, <1>8, CancelFit, Zenon
<1>10. a \in Manager
  BY <1>7, Zenon DEF Sound, Good
<1>11. m'.rec = [s \in Subagents |-> IF OwnerOf[s] = o THEN "none" ELSE a.rec[s]]
  BY <1>4, <1>6, <1>10, Zenon DEF Purge, Manager
<1> QED
  BY <1>9, <1>11, Zenon DEF Owned

-----------------------------------------------------------------------------

LInv == SInv /\ Fit(m)

(* A step keeps the tables fit, under the leases there were. *)
LEMMA StepFit ==
  ASSUME SInv, Fit(m), [Next]_vars
  PROVE  Fit(m')
<1>1. Closing \subseteq Owners
  BY SubagentAssumption, Zenon
<1>2. ASSUME NEW s \in Subagents, PauseSubagent(s)
      PROVE  m' = m
  BY <1>2, Zenon DEF PauseSubagent
<1>3. ASSUME NEW o \in Closing,
             \/ BeginShutdown(o) \/ AbortFails(o) \/ Confirmed(o) \/ Refused(o) \/ ReplaceFails(o)
      PROVE  m' = m
  BY <1>3, Zenon DEF BeginShutdown, AbortFails, Confirmed, Refused, ReplaceFails
<1>4. ASSUME UNCHANGED vars
      PROVE  m' = m
  BY <1>4, Zenon DEF vars
<1> QED
  BY <1>1, <1>2, <1>3, <1>4, StartTaskFit, CancelSubagentFit, ResumeFit, RunSettlesFit, EvictFit,
     CancelOwnFit, CancelTargetsFit, CommitFit, Zenon
  DEF Next

(* A lease that changes keeps the queued subagents of its owner waiting: it is taken, it goes    *)
(* on, it is given up before anything was cancelled, or it is released when none is queued.      *)
LEMMA LeaseWaits ==
  ASSUME SInv, Fit(m'), NEW o \in Owners, NEW l, lease' = [lease EXCEPT ![o] = l],
         \/ l.phase \in Fencing \cup {"abandoned"}
         \/ \A s \in Owned(o) : m'.rec[s] # "queued"
  PROVE  QueuedWaits'
<1>1. lease \in [Owners -> Lease]
  BY Zenon DEF SInv
<1>2. \A p \in Owners : lease'[p] = IF p = o THEN l ELSE lease[p]
  BY <1>1, Zenon
<1>3. ASSUME NEW s \in Subagents, m'.rec[s] = "queued"
      PROVE  \/ lease'[OwnerOf[s]].phase \in Fencing \/ m'.live # {}
             \/ lease'[OwnerOf[s]].phase = "abandoned"
  <2>1. OwnerOf[s] \in Owners
    BY SubagentAssumption, Zenon
  <2>2. CASE OwnerOf[s] = o
    <3>1. lease'[OwnerOf[s]] = l /\ s \in Owned(o)
      BY <1>2, <2>1, <2>2, Zenon DEF Owned
    <3>2. l.phase \in Fencing \cup {"abandoned"}
      BY <1>3, <3>1, Zenon
    <3> QED
      BY <3>1, <3>2, Zenon
  <2>3. CASE OwnerOf[s] # o
    <3>1. lease'[OwnerOf[s]] = lease[OwnerOf[s]]
      BY <1>2, <2>1, <2>3, Zenon
    <3>2. Fenced(s) \/ m'.live # {} \/ lease[OwnerOf[s]].phase = "abandoned"
      BY <1>3, Zenon DEF Fit, Waits
    <3> QED
      BY <3>1, <3>2, Zenon DEF Fenced, Fencing
  <2> QED
    BY <2>2, <2>3, Zenon
<1> QED
  BY <1>3, Zenon DEF QueuedWaits, Fenced, Fencing

(* What QueuedWaits says after a step, of the leases there are now. *)
LEMMA StepWaits ==
  ASSUME SInv, Fit(m'), Fit(m), [Next]_vars
  PROVE  QueuedWaits'
<1>1. Closing \subseteq Owners
  BY SubagentAssumption, Zenon
<1>2. CASE lease' = lease
  BY <1>2, Zenon DEF Fit, Waits, QueuedWaits, Fenced
<1>3. ASSUME NEW o \in Closing, BeginShutdown(o)
      PROVE  QueuedWaits'
  <2>1. PICK l : l = [phase |-> "active", records |-> Records(o), backing |-> Backing(o), awaited |-> {}]
    BY Zenon
  <2>2. lease' = [lease EXCEPT ![o] = l] /\ l.phase = "active"
    BY <1>3, <2>1, Zenon DEF BeginShutdown
  <2>3. l.phase \in Fencing \cup {"abandoned"}
    BY <2>2, Zenon DEF Fencing
  <2> QED
    BY <1>1, <2>2, <2>3, LeaseWaits, Zenon
<1>4. ASSUME NEW o \in Closing, AbortFails(o)
      PROVE  QueuedWaits'
  <2>1. PICK l : l = [NoLease EXCEPT !.phase = "abandoned"]
    BY Zenon
  <2>2. lease' = [lease EXCEPT ![o] = l] /\ l.phase = "abandoned"
    BY <1>4, <2>1, Zenon DEF AbortFails, NoLease
  <2>3. l.phase \in Fencing \cup {"abandoned"}
    BY <2>2, Zenon
  <2> QED
    BY <1>1, <2>2, <2>3, LeaseWaits, Zenon
<1>5. ASSUME NEW o \in Closing, CancelTargets(o)
      PROVE  QueuedWaits'
  <2>1. PICK l : l = [lease[o] EXCEPT !.phase = "proving", !.awaited = lease[o].backing \cap m.jobs]
    BY Zenon
  <2>2. lease' = [lease EXCEPT ![o] = l]
    BY <1>5, <2>1, Zenon DEF CancelTargets
  <2>3. lease[o] \in Lease
    BY <1>1, Zenon DEF SInv
  <2>4. l.phase = "proving"
    BY <2>1, <2>3, Zenon DEF Lease
  <2>5. l.phase \in Fencing \cup {"abandoned"}
    BY <2>4, Zenon DEF Fencing
  <2> QED
    BY <1>1, <2>2, <2>5, LeaseWaits, Zenon
<1>6. ASSUME NEW o \in Closing, Confirmed(o)
      PROVE  QueuedWaits'
  <2>1. PICK l : l = [lease[o] EXCEPT !.phase = "proved"]
    BY Zenon
  <2>2. lease' = [lease EXCEPT ![o] = l]
    BY <1>6, <2>1, Zenon DEF Confirmed
  <2>3. lease[o] \in Lease
    BY <1>1, Zenon DEF SInv
  <2>4. l.phase = "proved"
    BY <2>1, <2>3, Zenon DEF Lease
  <2>5. l.phase \in Fencing \cup {"abandoned"}
    BY <2>4, Zenon DEF Fencing
  <2> QED
    BY <1>1, <2>2, <2>5, LeaseWaits, Zenon
<1>7. ASSUME NEW o \in Closing, Refused(o) \/ ReplaceFails(o)
      PROVE  QueuedWaits'
  <2>1. lease' = [lease EXCEPT ![o] = NoLease] /\ m' = m /\ lease[o].phase \in {"proving", "proved"}
    BY <1>7, Zenon DEF Refused, ReplaceFails, Release
  <2>2. Fence(m, lease[o], o)
    BY <1>1, Zenon DEF SInv
  <2>3. \A s \in Owned(o) : m'.rec[s] # "queued"
    BY <2>1, <2>2, Zenon DEF Fence
  <2> QED
    BY <1>1, <2>1, <2>3, LeaseWaits, Zenon
<1>8. ASSUME NEW o \in Closing, Commit(o)
      PROVE  QueuedWaits'
  <2>1. lease' = [lease EXCEPT ![o] = NoLease]
    BY <1>8, Zenon DEF Commit, Release
  <2>2. \A s \in Owned(o) : m'.rec[s] = "none"
    BY <1>1, <1>8, CommitFit, Zenon
  <2>3. \A s \in Owned(o) : m'.rec[s] # "queued"
    BY <2>2, Zenon
  <2> QED
    BY <1>1, <2>1, <2>3, LeaseWaits, Zenon
<1> QED
  BY <1>2, <1>3, <1>4, <1>5, <1>6, <1>7, <1>8, Zenon
  DEF Next, vars, StartTask, PauseSubagent, CancelSubagent, ResumeSubagent, RunSettles, Evict,
      CancelOwnAsyncJobs

(* The invariant with the limit. *)
LEMMA FitAlways == Spec => []LInv
<1>1. ASSUME Init
      PROVE  LInv
  <2>1. m.queue = {} /\ RunningJobs(m) = {} /\ \A s \in Subagents : m.rec[s] = "none"
    BY <1>1, Zenon DEF Init, RunningJobs
  <2>2. IsFiniteSet({}) /\ Cardinality({}) = 0
    BY FS_EmptySet, Zenon
  <2>3. 0 <= MaxRunning
    BY SubagentAssumption
  <2>4. Bounded(m)
    BY <2>1, <2>2, <2>3, Zenon DEF Bounded
  <2>5. Waits(m)
    BY <2>1, Zenon DEF Waits
  <2> QED
    BY <1>1, <2>4, <2>5, InitSound, Zenon DEF LInv, Fit
<1>2. ASSUME LInv, [Next]_vars
      PROVE  LInv'
  <2>1. SInv /\ Fit(m)
    BY <1>2, Zenon DEF LInv
  <2>2. SInv'
    BY <1>2, <2>1, StepSound, Zenon
  <2>3. Fit(m')
    BY <1>2, <2>1, StepFit, Zenon
  <2>4. QueuedWaits'
    BY <1>2, <2>1, <2>3, StepWaits, Zenon
  <2>5. Bounded(m')
    BY <2>3, Zenon DEF Fit
  <2> QED
    BY <2>2, <2>4, <2>5, Zenon DEF LInv, Fit, Bounded, RunningJobs, Waits, QueuedWaits
<1>3. LInv /\ [Next]_vars => LInv'
  BY <1>2, Zenon
<1> QED
  BY <1>1, <1>3, PTL DEF Spec

(* Starting tasks, resumes and drains never put more jobs in status running than the limit.      *)
THEOREM WithinLimitAlways == Spec => []WithinLimit
<1>1. LInv => WithinLimit
  BY Zenon DEF LInv, Fit, Bounded, WithinLimit
<1> QED
  BY <1>1, FitAlways, PTL

(* A queued subagent waits for a run that is under way, whose end drains the queue, or for a     *)
(* shutdown that gives it up; or its newSession let go of its lease too early.                   *)
THEOREM QueuedWaitsAlways == Spec => []QueuedWaits
<1>1. LInv => QueuedWaits
  BY Zenon DEF LInv, Fit, Waits, QueuedWaits
<1> QED
  BY <1>1, FitAlways, PTL
=============================================================================
