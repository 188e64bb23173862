--------------------------- MODULE FileLockProofs ---------------------------
(***************************************************************************)
(* Proofs about FileLock for any number of callers, processes, attempts    *)
(* and ticks.                                                              *)
(***************************************************************************)
EXTENDS FileLock, TLAPS

(* A leaf that names no backend goes to the SMT solver, with time to spare. *)
USE SMTT(30)

USE DEF Acquiring, Owning, Pruning, Returned

(* Type correctness: every step of a caller, a process or the clock keeps   *)
(* the variables in their types, the attempt counter of acquireLock below   *)
(* options.retries included.                                                *)
THEOREM TypeCorrect == Spec => []TypeOK
<1>1. Init => TypeOK
  <2> SUFFICES ASSUME Init
               PROVE  TypeOK
    BY Zenon
  <2>1. ownStart \in [Pids -> Nat]
    <3>1. (IF LookupMayFail THEN {0, 1} ELSE {1}) \subseteq Nat
      OBVIOUS
    <3> QED
      BY <3>1, Zenon DEF Init
  <2>2. alive \in [Pids -> BOOLEAN] /\ slow \in BOOLEAN /\ window \in BOOLEAN
    BY Zenon DEF Init
  <2>3. pc \in [Callers -> Pcs] /\ attempt \in [Callers -> 0..Retries-1]
    BY LockAssumptions DEF Init, Pcs
  <2> QED
    BY <2>1, <2>2, <2>3 DEF Init, TypeOK
<1>2. TypeOK /\ [Next]_vars => TypeOK'
  <2> SUFFICES ASSUME TypeOK, [Next]_vars
               PROVE  TypeOK'
    BY Zenon
  <2> USE LockAssumptions
  <2>1. ASSUME NEW c \in Callers, Call(c) \/ GcPrune(c)
        PROVE  TypeOK'
    BY <2>1 DEF TypeOK, Call, GcPrune, Goto, Pcs, procs, disk
  <2>2. ASSUME NEW c \in Callers, Mkdir(c)
        PROVE  TypeOK'
    BY <2>2 DEF TypeOK, Mkdir, Goto, Pcs, procs, disk
  <2>3. ASSUME NEW c \in Callers, WriteInfo(c)
        PROVE  TypeOK'
    <3>1. [pid |-> PidOf[c], start |-> ownStart[PidOf[c]], at |-> now] \in Token
      BY Zenon DEF TypeOK, Token
    <3> QED
      BY <2>3, <3>1 DEF TypeOK, WriteInfo, Goto, Pcs, procs
  <2>4. ASSUME NEW c \in Callers, Snapshot(c) \/ Stat(c) \/ Reread(c) \/ Restat(c)
        PROVE  TypeOK'
    BY <2>4 DEF TypeOK, Snapshot, Stat, Reread, Restat, Goto, Pcs, procs, disk, local
  <2>5. ASSUME NEW c \in Callers, Recheck(c) \/ Release(c) \/ GcRecheck(c)
        PROVE  TypeOK'
    BY <2>5 DEF TypeOK, Recheck, Release, GcRecheck, Verify, Goto, Pcs, procs, disk
  <2>6. ASSUME NEW c \in Callers, Unlink(c) \/ Sleep(c)
        PROVE  TypeOK'
    <3>1. window' \in BOOLEAN
      BY <2>6, Zenon DEF TypeOK, Unlink, Sleep, Rm
    <3>2. pc' \in [Callers -> Pcs] /\ attempt' \in [Callers -> 0..Retries-1]
      BY <2>6 DEF TypeOK, Unlink, Sleep, NextAttempt, Goto, Pcs
    <3> QED
      BY <2>6, <3>1, <3>2 DEF TypeOK, Unlink, Sleep, Rm, NextAttempt, procs, disk
  <2>7. ASSUME NEW c \in Callers, EndFn(c) \/ ReleaseRm(c) \/ GcUnlink(c)
        PROVE  TypeOK'
    <3>1. window' \in BOOLEAN
      BY <2>7, Zenon DEF TypeOK, EndFn, ReleaseRm, GcUnlink, Rm
    <3> QED
      BY <2>7, <3>1 DEF TypeOK, EndFn, ReleaseRm, GcUnlink, Rm, Goto, Pcs, procs, disk, local
  <2>8. ASSUME NEW p \in Pids, Crash(p) \/ Restart(p)
        PROVE  TypeOK'
    <3>1. alive' \in [Pids -> BOOLEAN]
      BY <2>8, Zenon DEF TypeOK, Crash, Restart
    <3>2. pc' \in [Callers -> Pcs]
      BY <2>8, Zenon DEF TypeOK, Crash, Restart, Pcs
    <3>3. started' \in [Pids -> Nat] /\ ownStart' \in [Pids -> Nat]
      BY <2>8 DEF TypeOK, Crash, Restart
    <3> QED
      BY <2>8, <3>1, <3>2, <3>3 DEF TypeOK, Crash, Restart, disk, local
  <2>9. ASSUME Tick
        PROVE  TypeOK'
    <3>1. slow' \in BOOLEAN
      BY <2>9, Zenon DEF TypeOK, Tick
    <3> QED
      BY <2>9, <3>1 DEF TypeOK, Tick, procs, disk, local
  <2>10. CASE UNCHANGED vars
    BY <2>10, Zenon DEF TypeOK, vars, procs, disk, local
  <2> QED
    BY <2>1, <2>2, <2>3, <2>4, <2>5, <2>6, <2>7, <2>8, <2>9, <2>10, Zenon DEF Next, Step
<1> QED
  BY <1>1, <1>2, PTL DEF Spec
-----------------------------------------------------------------------------
(* The unconditional bookkeeping facts survive every step. *)
LEMMA BasicStep ==
  ASSUME TypeOK, Basic, [Next]_vars
  PROVE  Basic'
<1> USE LockAssumptions
<1>1. ASSUME NEW c \in Callers, Call(c) \/ GcPrune(c)
      PROVE  Basic'
  BY <1>1 DEF TypeOK, Basic, Alive, Call, GcPrune, Goto, procs, disk
<1>2. ASSUME NEW c \in Callers, Mkdir(c)
      PROVE  Basic'
  BY <1>2 DEF TypeOK, Basic, Alive, Mkdir, Goto, procs, disk
<1>3. ASSUME NEW c \in Callers, WriteInfo(c)
      PROVE  Basic'
  BY <1>3 DEF TypeOK, Basic, Alive, WriteInfo, Goto, procs
<1>4. ASSUME NEW c \in Callers, Snapshot(c) \/ Stat(c) \/ Reread(c) \/ Restat(c)
      PROVE  Basic'
  BY <1>4 DEF TypeOK, Basic, Alive, Snapshot, Stat, Reread, Restat, Goto, procs, disk, local
<1>5. ASSUME NEW c \in Callers, Recheck(c) \/ Release(c) \/ GcRecheck(c)
      PROVE  Basic'
  BY <1>5 DEF TypeOK, Basic, Alive, Recheck, Release, GcRecheck, Verify, Goto, procs, disk
<1>6. ASSUME NEW c \in Callers, Unlink(c) \/ Sleep(c)
      PROVE  Basic'
  BY <1>6 DEF TypeOK, Basic, Alive, Unlink, Sleep, Rm, NextAttempt, Goto, procs, disk
<1>7. ASSUME NEW c \in Callers, EndFn(c) \/ ReleaseRm(c) \/ GcUnlink(c)
      PROVE  Basic'
  BY <1>7 DEF TypeOK, Basic, Alive, EndFn, ReleaseRm, GcUnlink, Rm, Goto, procs, disk, local
<1>8. ASSUME NEW p \in Pids, Crash(p)
      PROVE  Basic'
  BY <1>8, Zenon DEF TypeOK, Basic, Alive, Crash, disk, local
<1>9. ASSUME NEW p \in Pids, Restart(p)
      PROVE  Basic'
  BY <1>9 DEF TypeOK, Basic, Alive, Restart, disk, local, Token
<1>10. ASSUME Tick
       PROVE  Basic'
  BY <1>10 DEF TypeOK, Basic, Alive, Tick, procs, disk, local
<1>11. CASE UNCHANGED vars
  BY <1>11, Zenon DEF Basic, Alive, vars, procs, disk, local
<1> QED
  BY <1>1, <1>2, <1>3, <1>4, <1>5, <1>6, <1>7, <1>8, <1>9, <1>10, <1>11, Zenon DEF Next, Step
-----------------------------------------------------------------------------
(* The heart of the argument: in a step that keeps the lock undisturbed, an *)
(* owner keeps the directory it made, and a reaper's target stays unowned.  *)
LEMMA CoreStep ==
  ASSUME TypeOK, Basic, Core, Undisturbed, Undisturbed', [Next]_vars
  PROVE  Core'
<1> USE LockAssumptions, NoInfoAssumption
<1> USE DEF Core, OwnerHasDir, ReaperIsRight, Undisturbed
<1>1. ASSUME NEW c \in Callers, Call(c)
      PROVE  Core'
  BY <1>1 DEF TypeOK, Gone, Call, Goto, procs, disk
<1>2. ASSUME NEW c \in Callers, GcPrune(c)
      PROVE  Core'
  BY <1>2 DEF TypeOK, Basic, Gone, GcPrune, Goto, procs, disk
<1>3. ASSUME NEW c \in Callers, Mkdir(c)
      PROVE  Core'
  <2>1. ASSUME NEW d \in Callers, pc'[d] \in Owning
        PROVE  OwnerHasDir(d)'
    <3>1. CASE d = c
      <4>1. /\ dirIno' = nextIno /\ saw'[c] = nextIno /\ nextIno # 0
            /\ dirMtime' = now /\ now' = now /\ dirInfo' = NoInfo /\ pc'[c] = "made"
        BY <1>3, <2>1, <3>1 DEF TypeOK, Mkdir, Goto
      <4> QED
        BY <3>1, <4>1 DEF TypeOK
    <3>2. CASE d # c
      <4>1. pc'[d] = pc[d] /\ OwnerHasDir(d)
        BY <1>3, <2>1, <3>2 DEF TypeOK, Mkdir, Goto
      <4> QED
        BY <1>3, <3>2, <4>1, Zenon DEF TypeOK, Mkdir, procs, disk
    <3> QED
      BY <3>1, <3>2, Zenon
  <2>2. ASSUME NEW d \in Callers, NEW e \in Callers, pc'[d] \in Owning, pc'[e] \in Owning
        PROVE  d = e
    BY <1>3, <2>2 DEF TypeOK, Basic, Gone, Mkdir, Goto, procs, disk
  <2>3. ASSUME NEW d \in Callers
        PROVE  ReaperIsRight(d)'
    BY <1>3 DEF TypeOK, Basic, Gone, Mkdir, Goto, procs, disk
  <2>4. ASSUME NEW d \in Callers
        PROVE  pc'[d] # "relfail"
    BY <1>3 DEF TypeOK, Basic, Gone, Mkdir, Goto, procs, disk
  <2> QED
    BY <2>1, <2>2, <2>3, <2>4, Zenon
<1>4. ASSUME NEW c \in Callers, WriteInfo(c)
      PROVE  Core'
  BY <1>4 DEF TypeOK, Basic, Gone, WriteInfo, Goto, procs, Token
<1>5. ASSUME NEW c \in Callers, Snapshot(c)
      PROVE  Core'
  <2>1. ASSUME NEW d \in Callers, pc'[d] \in Owning
        PROVE  OwnerHasDir(d)'
    BY <1>5, <2>1 DEF TypeOK, Basic, Gone, Snapshot, OwnerStale, ownerIsAlive, Goto, procs, disk,
                      Token
  <2>2. ASSUME NEW d \in Callers, NEW e \in Callers, pc'[d] \in Owning, pc'[e] \in Owning
        PROVE  d = e
    BY <1>5, <2>2 DEF TypeOK, Basic, Gone, Snapshot, OwnerStale, ownerIsAlive, Goto, procs, disk,
                      Token
  <2>3. ASSUME NEW d \in Callers
        PROVE  ReaperIsRight(d)'
    <3>1. CASE d # c
      BY <1>5, <3>1 DEF TypeOK, Gone, Snapshot, Goto, procs, disk
    <3>2. CASE d = c /\ pc'[c] = "recheck"
      <4>1. dirInfo \in Token /\ expect'[c] = dirInfo
        BY <1>5, <3>2 DEF TypeOK, Snapshot, Goto
      <4>2. PICK psAnswers \in BOOLEAN : OwnerStale(dirInfo, psAnswers)
        BY <1>5, <3>2 DEF TypeOK, Snapshot, Goto
      <4>3. ~alive[dirInfo.pid] \/ dirInfo.start # started[dirInfo.pid]
        BY <4>2, Zenon DEF OwnerStale, ownerIsAlive
      <4>4. Gone(dirInfo)
        <5>1. dirInfo # NoInfo
          BY <4>1, Zenon
        <5>2. dirInfo.start <= started[dirInfo.pid]
          BY <5>1, Zenon DEF Basic
        <5>3. dirInfo.pid \in Pids /\ dirInfo.start \in Nat /\ started[dirInfo.pid] \in Nat
          BY <4>1, Zenon DEF Token, TypeOK
        <5> QED
          BY <4>1, <4>3, <5>2, <5>3 DEF Gone
      <4> QED
        BY <1>5, <3>2, <4>1, <4>4, Zenon DEF Gone, Snapshot, procs
    <3>3. CASE d = c /\ pc'[c] # "recheck"
      BY <1>5, <3>3 DEF TypeOK, Snapshot, Goto
    <3> QED
      BY <3>1, <3>2, <3>3, Zenon
  <2>4. ASSUME NEW d \in Callers
        PROVE  pc'[d] # "relfail"
    BY <1>5 DEF TypeOK, Basic, Gone, Snapshot, OwnerStale, ownerIsAlive, Goto, procs, disk, Token
  <2> QED
    BY <2>1, <2>2, <2>3, <2>4, Zenon
<1>6. ASSUME NEW c \in Callers, Stat(c)
      PROVE  Core'
  BY <1>6 DEF TypeOK, Basic, Gone, Stat, Goto, procs, disk
<1>7. ASSUME NEW c \in Callers, Recheck(c) \/ GcRecheck(c)
      PROVE  Core'
  <2>1. ASSUME NEW d \in Callers, pc'[d] \in Owning
        PROVE  OwnerHasDir(d)'
    <3>1. d # c /\ pc'[d] = pc[d] /\ OwnerHasDir(d)
      BY <1>7, <2>1 DEF TypeOK, Recheck, GcRecheck, Verify, Goto
    <3>2. saw'[d] = saw[d]
      BY <1>7, <3>1, Zenon DEF TypeOK, Recheck, GcRecheck, Verify
    <3> QED
      BY <1>7, <3>1, <3>2, Zenon DEF Recheck, GcRecheck, procs, disk
  <2>2. ASSUME NEW d \in Callers, NEW e \in Callers, pc'[d] \in Owning, pc'[e] \in Owning
        PROVE  d = e
    BY <1>7, <2>2 DEF TypeOK, Basic, Alive, Gone, Recheck, GcRecheck, Verify, Goto, procs, disk
  <2>3. ASSUME NEW d \in Callers
        PROVE  ReaperIsRight(d)'
    BY <1>7 DEF TypeOK, Basic, Alive, Gone, Recheck, GcRecheck, Verify, Goto, procs, disk
  <2>4. ASSUME NEW d \in Callers
        PROVE  pc'[d] # "relfail"
    BY <1>7 DEF TypeOK, Basic, Alive, Gone, Recheck, GcRecheck, Verify, Goto, procs, disk
  <2> QED
    BY <2>1, <2>2, <2>3, <2>4, Zenon
<1>8. ASSUME NEW c \in Callers, Reread(c) \/ Restat(c)
      PROVE  Core'
  <2>1. ASSUME NEW d \in Callers, pc'[d] \in Owning
        PROVE  OwnerHasDir(d)'
    <3>1. d # c /\ pc'[d] = pc[d] /\ OwnerHasDir(d)
      BY <1>8, <2>1 DEF TypeOK, Reread, Restat, Goto
    <3> QED
      BY <1>8, <3>1, Zenon DEF TypeOK, Reread, Restat, procs, disk, local
  <2>2. ASSUME NEW d \in Callers, NEW e \in Callers, pc'[d] \in Owning, pc'[e] \in Owning
        PROVE  d = e
    BY <1>8, <2>2 DEF TypeOK, Basic, Gone, Reread, Restat, Goto, procs, disk, local
  <2>3. ASSUME NEW d \in Callers
        PROVE  ReaperIsRight(d)'
    BY <1>8 DEF TypeOK, Basic, Gone, Reread, Restat, Goto, procs, disk, local
  <2>4. ASSUME NEW d \in Callers
        PROVE  pc'[d] # "relfail"
    BY <1>8 DEF TypeOK, Basic, Gone, Reread, Restat, Goto, procs, disk, local
  <2> QED
    BY <2>1, <2>2, <2>3, <2>4, Zenon
<1>9. ASSUME NEW c \in Callers, Unlink(c) \/ GcUnlink(c)
      PROVE  Core'
  <2>1. ASSUME NEW d \in Callers, pc'[d] \in Owning
        PROVE  OwnerHasDir(d)'
    <3>1. pc[d] \in Owning
      BY <1>9, <2>1 DEF TypeOK, Unlink, GcUnlink, NextAttempt, Goto
    <3>2. dirIno = saw[d] /\ dirIno # 0 /\ saw[d] # saw[c]
      BY <1>9, <3>1, Zenon DEF Unlink, GcUnlink
    <3>3. dirIno \in {0, saw[c]}
      BY <1>9, Zenon DEF Unlink, GcUnlink, Rm
    <3> QED
      BY <3>2, <3>3, Zenon
  <2>2. ASSUME NEW d \in Callers, NEW e \in Callers, pc'[d] \in Owning, pc'[e] \in Owning
        PROVE  d = e
    BY <1>9, <2>2 DEF TypeOK, Basic, Gone, Unlink, GcUnlink, Rm, NextAttempt, Goto, procs, local
  <2>3. ASSUME NEW d \in Callers
        PROVE  ReaperIsRight(d)'
    BY <1>9 DEF TypeOK, Basic, Gone, Unlink, GcUnlink, Rm, NextAttempt, Goto, procs, local
  <2>4. ASSUME NEW d \in Callers
        PROVE  pc'[d] # "relfail"
    BY <1>9 DEF TypeOK, Basic, Gone, Unlink, GcUnlink, Rm, NextAttempt, Goto, procs, local
  <2> QED
    BY <2>1, <2>2, <2>3, <2>4, Zenon
<1>10. ASSUME NEW c \in Callers, Sleep(c) \/ EndFn(c)
       PROVE  Core'
  <2>1. ASSUME NEW d \in Callers, pc'[d] \in Owning
        PROVE  OwnerHasDir(d)'
    <3>1. pc[d] \in Owning /\ OwnerHasDir(d) /\ (pc[d] = "made" <=> pc'[d] = "made")
      BY <1>10, <2>1 DEF TypeOK, Sleep, EndFn, NextAttempt, Goto
    <3> QED
      BY <1>10, <3>1, Zenon DEF Sleep, EndFn, NextAttempt, procs, disk, local
  <2>2. ASSUME NEW d \in Callers, NEW e \in Callers, pc'[d] \in Owning, pc'[e] \in Owning
        PROVE  d = e
    BY <1>10, <2>2 DEF TypeOK, Gone, Sleep, EndFn, NextAttempt, Goto, procs, disk, local
  <2>3. ASSUME NEW d \in Callers
        PROVE  ReaperIsRight(d)'
    BY <1>10 DEF TypeOK, Gone, Sleep, EndFn, NextAttempt, Goto, procs, disk, local
  <2>4. ASSUME NEW d \in Callers
        PROVE  pc'[d] # "relfail"
    BY <1>10 DEF TypeOK, Gone, Sleep, EndFn, NextAttempt, Goto, procs, disk, local
  <2> QED
    BY <2>1, <2>2, <2>3, <2>4, Zenon
<1>11. ASSUME NEW c \in Callers, Release(c)
       PROVE  Core'
  BY <1>11 DEF TypeOK, Gone, Release, Verify, Goto, procs, disk
<1>12. ASSUME NEW c \in Callers, ReleaseRm(c)
       PROVE  Core'
  BY <1>12 DEF TypeOK, Gone, ReleaseRm, Rm, Goto, procs, local
<1>13. ASSUME NEW p \in Pids, Crash(p)
       PROVE  Core'
  BY <1>13 DEF TypeOK, Gone, Crash, disk, local
<1>14. ASSUME NEW p \in Pids, Restart(p)
       PROVE  Core'
  BY <1>14 DEF TypeOK, Basic, Alive, Gone, Restart, disk, local, Token
<1>15. ASSUME Tick
       PROVE  Core'
  <2>1. ASSUME NEW d \in Callers, pc'[d] \in Owning
        PROVE  OwnerHasDir(d)'
    <3>1. ~(pc[d] = "made" /\ dirIno = saw[d] /\ (now + 1) - dirMtime > Stale)
      BY <1>15, Zenon DEF Tick
    <3>2. pc[d] \in Owning /\ OwnerHasDir(d)
      BY <1>15, <2>1, Zenon DEF Tick
    <3> QED
      BY <1>15, <3>1, <3>2 DEF TypeOK, Tick, procs, disk, local
  <2>2. ASSUME NEW d \in Callers, NEW e \in Callers, pc'[d] \in Owning, pc'[e] \in Owning
        PROVE  d = e
    BY <1>15, <2>2, Zenon DEF TypeOK, Basic, Gone, Tick, procs, disk, local
  <2>3. ASSUME NEW d \in Callers
        PROVE  ReaperIsRight(d)'
    BY <1>15 DEF TypeOK, Basic, Gone, Tick, procs, disk, local
  <2>4. ASSUME NEW d \in Callers
        PROVE  pc'[d] # "relfail"
    BY <1>15, Zenon DEF TypeOK, Basic, Gone, Tick, procs, disk, local
  <2> QED
    BY <2>1, <2>2, <2>3, <2>4, Zenon
<1>16. CASE UNCHANGED vars
  BY <1>16, Zenon DEF Gone, vars, procs, disk, local
<1> QED
  BY <1>1, <1>2, <1>3, <1>4, <1>5, <1>6, <1>7, <1>8, <1>9, <1>10, <1>11, <1>12,
     <1>13, <1>14, <1>15, <1>16, Zenon DEF Next, Step
-----------------------------------------------------------------------------
(* Nothing undoes a death or a slow info write. *)
LEMMA HistoryStep ==
  ASSUME TypeOK, Basic, [Next]_vars
  PROVE  /\ slow => slow'
         /\ window => window'
         /\ NoDeath' => NoDeath
<1>1. slow => slow'
  BY ZenonT(30) DEF Next, Step, vars, Call, GcPrune, Mkdir, WriteInfo, Snapshot, Stat, Recheck,
                    Reread, Restat, Unlink, Sleep, EndFn, Release, ReleaseRm, GcRecheck, GcUnlink,
                    Crash, Restart, Tick
<1>2. window => window'
  BY ZenonT(30) DEF Next, Step, vars, Call, GcPrune, Mkdir, WriteInfo, Snapshot, Stat, Recheck,
                    Reread, Restat, Unlink, Sleep, EndFn, Release, ReleaseRm, GcRecheck, GcUnlink,
                    Crash, Restart, Tick, Rm
<1>3. ASSUME NEW p \in Pids, Crash(p) \/ Restart(p), NoDeath'
      PROVE  NoDeath
  BY <1>3 DEF TypeOK, Basic, NoDeath, Crash, Restart
<1>4. UNCHANGED procs => (NoDeath' <=> NoDeath)
  BY DEF procs, NoDeath
<1>5. UNCHANGED procs \/ \E p \in Pids : Crash(p) \/ Restart(p)
  BY ZenonT(30) DEF Next, Step, vars, Call, GcPrune, Mkdir, WriteInfo, Snapshot, Stat, Recheck,
                    Reread, Restat, Unlink, Sleep, EndFn, Release, ReleaseRm, GcRecheck, GcUnlink,
                    Tick
<1> QED
  BY <1>1, <1>2, <1>3, <1>4, <1>5, Zenon

(* While no process has died, no caller of the lock finds a stale owner or  *)
(* an abandoned directory, so no rm but the owner's own is ever issued.     *)
LEMMA QuietStep ==
  ASSUME TypeOK, Basic, Core, Quiet, NoDeath, NoDeath',
         ~LookupMayFail, ~slow, ~slow', [Next]_vars
  PROVE  Quiet'
<1> USE LockAssumptions, NoInfoAssumption
<1>1. ASSUME NEW c \in Callers, Call(c) \/ Sleep(c) \/ EndFn(c)
      PROVE  Quiet'
  BY <1>1 DEF TypeOK, Quiet, Call, Sleep, EndFn, NextAttempt, Goto, procs, disk, local
<1>2. ASSUME NEW c \in Callers, GcPrune(c) \/ Unlink(c) \/ Recheck(c) \/ GcRecheck(c) \/ GcUnlink(c)
      PROVE  FALSE
  <2>1. dirInfo # NoInfo => dirInfo.pid \in Pids
    BY Zenon DEF TypeOK, Token
  <2> QED
    BY <1>2, <2>1, Zenon DEF Quiet, NoDeath, GcPrune, Unlink, Recheck, GcRecheck, GcUnlink
<1>3. ASSUME NEW c \in Callers, Mkdir(c)
      PROVE  Quiet'
  BY <1>3 DEF TypeOK, Quiet, Mkdir, Goto, procs, disk
<1>4. ASSUME NEW c \in Callers, WriteInfo(c)
      PROVE  Quiet'
  BY <1>4 DEF TypeOK, Basic, Quiet, WriteInfo, Goto, procs, Token
<1>5. ASSUME NEW c \in Callers, Snapshot(c)
      PROVE  Quiet'
  <2>1. dirInfo # NoInfo => dirInfo.pid \in Pids
    BY Zenon DEF TypeOK, Token
  <2>2. pc'[c] # "recheck"
    BY <1>5, <2>1 DEF TypeOK, Quiet, NoDeath, Snapshot, OwnerStale, ownerIsAlive, Goto
  <2> QED
    BY <1>5, <2>2 DEF TypeOK, Quiet, Snapshot, Goto, procs, disk
<1>6. ASSUME NEW c \in Callers, Stat(c) \/ Reread(c)
      PROVE  Quiet'
  BY <1>6 DEF TypeOK, Quiet, Stat, Reread, Goto, procs, disk, local
<1>7. ASSUME NEW c \in Callers, Restat(c)
      PROVE  Quiet'
  <2>1. pc'[c] # "unlink"
    <3>1. SUFFICES ASSUME dirIno = saw[c], dirMtime = stat[c]
                   PROVE  FALSE
      BY <1>7, Zenon DEF TypeOK, Restat, Goto
    <3>2. dirInfo = NoInfo /\ dirMtime + Stale < now
      BY <1>7, <3>1, Zenon DEF Restat, Core, ReaperIsRight
    <3>3. \A d \in Callers : pc[d] # "made"
      BY <3>2 DEF TypeOK, Core, OwnerHasDir
    <3>4. dirIno = 0
      BY <3>2, <3>3, Zenon DEF Quiet
    <3> QED
      BY <1>7, <3>1, <3>4, Zenon DEF Restat, Core, ReaperIsRight
  <2> QED
    BY <1>7, <2>1 DEF TypeOK, Quiet, Restat, Goto, procs, disk, local
<1>8. ASSUME NEW c \in Callers, Release(c) \/ ReleaseRm(c)
      PROVE  Quiet'
  <2>1. dirIno = saw[c]
    BY <1>8, Zenon DEF Release, ReleaseRm, Core, OwnerHasDir
  <2>2. ~window'
    BY <1>8, <2>1, Zenon DEF Release, ReleaseRm, Rm, Quiet
  <2> QED
    BY <1>8, <2>2 DEF TypeOK, Quiet, Release, ReleaseRm, Verify, Rm, Goto, procs, disk, local
<1>9. ASSUME NEW p \in Pids, Crash(p) \/ Restart(p)
      PROVE  FALSE
  BY <1>9, Zenon DEF TypeOK, NoDeath, Crash, Restart
<1>10. ASSUME Tick
       PROVE  Quiet'
  BY <1>10, Zenon DEF TypeOK, Quiet, Tick, procs, disk, local
<1>11. CASE UNCHANGED vars
  BY <1>11, Zenon DEF Quiet, vars, procs, disk, local
<1> QED
  BY <1>1, <1>2, <1>3, <1>4, <1>5, <1>6, <1>7, <1>8, <1>9, <1>10, <1>11, Zenon DEF Next, Step

-----------------------------------------------------------------------------
(* LockInv is an invariant of the lock. *)
THEOREM LockInvariant == Spec => []LockInv
<1>1. Init => LockInv
  <2> SUFFICES ASSUME Init
               PROVE  LockInv
    BY Zenon
  <2>1. Basic
    BY LockAssumptions DEF Init, Basic
  <2>2. Core
    BY Zenon DEF Init, Core, ReaperIsRight
  <2>3. Quiet
    BY Zenon DEF Init, Quiet
  <2> QED
    BY <2>1, <2>2, <2>3, Zenon DEF LockInv
<1>2. TypeOK /\ TypeOK' /\ LockInv /\ [Next]_vars => LockInv'
  <2> SUFFICES ASSUME TypeOK, TypeOK', LockInv, [Next]_vars
               PROVE  LockInv'
    BY Zenon
  <2>1. Basic /\ Basic'
    BY BasicStep, Zenon DEF LockInv
  <2>2. ASSUME Undisturbed'
        PROVE  Core'
    <3>1. Undisturbed
      BY <2>1, <2>2, HistoryStep, Zenon DEF Undisturbed
    <3> QED
      BY <2>1, <2>2, <3>1, CoreStep, Zenon DEF LockInv
  <2>3. ASSUME ~LookupMayFail, ~slow', NoDeath'
        PROVE  Quiet'
    <3>1. ~slow /\ NoDeath
      BY <2>1, <2>3, HistoryStep, Zenon
    <3>2. Quiet
      BY <2>3, <3>1, Zenon DEF LockInv
    <3>3. Core
      BY <2>3, <3>1, <3>2, Zenon DEF LockInv, Quiet, Undisturbed
    <3> QED
      BY <2>1, <2>3, <3>1, <3>2, <3>3, QuietStep, Zenon
  <2> QED
    BY <2>1, <2>2, <2>3, Zenon DEF LockInv
<1> QED
  BY <1>1, <1>2, TypeCorrect, PTL DEF Spec

(* withFileLock serializes any number of callers in any number of           *)
(* processes, across crashes and pid reuse, unless an rm falls into the     *)
(* documented read->unlink window or an info write outlasts staleMs.        *)
THEOREM LockSerializes == Spec => []Serialized
<1>1. LockInv => Serialized
  BY Zenon DEF LockInv, Core, Serialized, Exclusion
<1> QED
  BY <1>1, LockInvariant, PTL

(* Under the same conditions releaseLock never throws. *)
THEOREM LockReleases == Spec => []ReleaseSucceeds
<1>1. LockInv => ReleaseSucceeds
  BY Zenon DEF LockInv, Core, ReleaseSucceeds
<1> QED
  BY <1>1, LockInvariant, PTL

(* The read->unlink window is reachable only after some process has died. *)
THEOREM LockWindow == Spec => []WindowNeedsDeath
<1>1. LockInv => WindowNeedsDeath
  BY Zenon DEF LockInv, Quiet, WindowNeedsDeath
<1> QED
  BY <1>1, LockInvariant, PTL

(* The directory of a caller that is running fn is removed by nobody else,  *)
(* when processes can read their own start time (file-lock.ts:200-203).     *)
THEOREM LockKeepsOwner ==
  ASSUME ~LookupMayFail
  PROVE  Spec => LiveOwnerKept
<1> DEFINE Kept(c) == /\ ~slow /\ ~window'
                      /\ dirInfo = mine[c] /\ pc[c] = "crit" /\ pc'[c] = "crit"
                      => dirIno' = dirIno
<1>1. TypeOK /\ LockInv /\ [Next]_vars
        => [\A c \in Callers : Kept(c)]_vars
  <2> SUFFICES ASSUME TypeOK, LockInv, Next,
                      NEW c \in Callers, ~slow, ~window',
                      dirInfo = mine[c], pc[c] = "crit", pc'[c] = "crit"
               PROVE  dirIno' = dirIno
    BY Zenon DEF vars, disk
  <2>1. Basic
    BY Zenon DEF LockInv
  <2>2. ~window
    BY <2>1, HistoryStep, Zenon
  <2>3. Core
    BY <2>2, Zenon DEF LockInv, Undisturbed
  <2>4. dirIno = saw[c] /\ dirIno # 0
    BY <2>3, Zenon DEF Core, OwnerHasDir, Owning
  <2>5. ASSUME NEW d \in Callers, Unlink(d) \/ GcUnlink(d)
        PROVE  FALSE
    <3>1. saw[d] # saw[c]
      BY <2>3, <2>5, Zenon DEF Core, ReaperIsRight, Owning, Unlink, GcUnlink
    <3>2. window'
      BY <2>4, <2>5, <3>1, Zenon DEF Unlink, GcUnlink, Rm
    <3> QED
      BY <3>2, Zenon
  <2>6. ASSUME NEW d \in Callers, Mkdir(d) \/ WriteInfo(d)
        PROVE  dirIno' = dirIno
    BY <2>4, <2>6, Zenon DEF Mkdir, WriteInfo, disk
  <2>7. ASSUME NEW d \in Callers, ReleaseRm(d)
        PROVE  FALSE
    <3>1. d = c
      BY <2>3, <2>7, Zenon DEF Core, Owning, ReleaseRm
    <3> QED
      BY <2>7, <3>1, Zenon DEF ReleaseRm
  <2>8. ASSUME NEW d \in Callers,
               \/ Call(d) \/ GcPrune(d) \/ Snapshot(d) \/ Stat(d) \/ Recheck(d)
               \/ Reread(d) \/ Restat(d) \/ Sleep(d) \/ EndFn(d) \/ Release(d)
               \/ GcRecheck(d)
        PROVE  dirIno' = dirIno
    BY <2>8, Zenon DEF Call, GcPrune, Snapshot, Stat, Recheck, Reread, Restat, Sleep,
               EndFn, Release, GcRecheck, disk
  <2>9. ASSUME NEW p \in Pids, Crash(p) \/ Restart(p)
        PROVE  dirIno' = dirIno
    BY <2>9, Zenon DEF Crash, Restart, disk
  <2>10. ASSUME Tick
         PROVE  dirIno' = dirIno
    BY <2>10, Zenon DEF Tick, disk
  <2> QED
    BY <2>5, <2>6, <2>7, <2>8, <2>9, <2>10, Zenon DEF Next, Step
<1> QED
  BY <1>1, TypeCorrect, LockInvariant, PTL DEF Spec, LiveOwnerKept
=============================================================================
