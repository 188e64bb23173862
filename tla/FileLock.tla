------------------------------ MODULE FileLock ------------------------------
(***************************************************************************)
(* The advisory directory lock of config/file-lock.ts and the garbage      *)
(* collector of config/file-lock-gc.ts that prunes abandoned locks.        *)
(*                                                                         *)
(* The lock is the directory <file>.lock: mkdir takes it, a separate write *)
(* stamps <file>.lock/info with the owner's {pid, start_time, timestamp},  *)
(* and a recursive rm frees it.  Every await of the code is a step         *)
(* boundary here, so callers interleave between any two file operations.   *)
(* Processes crash, and the operating system may give a dead process's pid *)
(* to a new one.                                                           *)
(***************************************************************************)
EXTENDS Integers

CONSTANTS
  Callers,        \* concurrent callers of withFileLock or of the lock GC
  Pids,           \* process ids
  PidOf,          \* the process each caller runs in; callers may share one
  NoInfo,         \* the directory has no readable info file
  Retries,        \* options.retries: attempts before acquireLock throws
  Stale,          \* options.staleMs, in ticks
  LookupMayFail,  \* may a process fail to read its own start time with ps?
  MaxTime,        \* bound: the clock stops here
  MaxCalls,       \* bound: calls made by all the callers together
  MaxStarts       \* bound: processes ever started per pid

ASSUME LockAssumptions ==
  /\ PidOf \in [Callers -> Pids]
  /\ Retries \in Nat \ {0}
  /\ Stale \in Nat
  /\ LookupMayFail \in BOOLEAN
  /\ MaxTime \in Nat
  /\ MaxCalls \in Nat
  /\ MaxStarts \in Nat \ {0}

(* FileLockOwnerToken.  start = 0 stands for the literal "unknown" that a   *)
(* process records when ps could not tell it its own start time.            *)
Token == [pid : Pids, start : Nat, at : Nat]

ASSUME NoInfoAssumption == NoInfo \notin Token

VARIABLES
  now,        \* Date.now()
  alive,      \* alive[p]: process p exists (process.kill(p, 0) succeeds)
  started,    \* started[p]: how many processes have had pid p; the start time
  ownStart,   \* ownStart[p]: the cached currentProcessStartTime()
  dirIno,     \* inode of the lock directory, 0 when it does not exist
  dirMtime,   \* its mtime
  dirInfo,    \* its info file: a Token or NoInfo
  nextIno,    \* next fresh inode
  pc,         \* where each caller is
  attempt,    \* acquireLock's loop counter
  mine,       \* the token writeLockInfo returned to the caller
  expect,     \* the owner token of the caller's stale snapshot
  stat,       \* the mtime of the caller's stale snapshot
  saw,        \* inode the caller made, statted or verified last
  calls,      \* calls made so far
  slow,       \* history: an info write was outstanding longer than Stale
  window      \* history: an rm hit another directory than the verified one

disk  == <<dirIno, dirMtime, dirInfo, nextIno>>
procs == <<alive, started, ownStart>>
local == <<attempt, mine, expect, stat, saw>>
vars  == <<now, procs, disk, pc, local, calls, slow, window>>

(* Where withFileLock can be: acquireLock's loop, fn, releaseLock. *)
Acquiring == {"mkdir", "snapshot", "stat", "recheck", "reread", "restat",
              "unlink", "sleep"}
Owning    == {"made", "crit", "release", "relrm"}
Pruning   == {"gcRecheck", "gcUnlink"}
Returned  == {"ok", "timeout", "relfail"}
Pcs       == {"idle"} \cup Acquiring \cup Owning \cup Pruning \cup Returned

Alive(c) == alive[PidOf[c]]

Goto(c, l) == pc' = [pc EXCEPT ![c] = l]

-----------------------------------------------------------------------------
(* ownerIsAlive: the pid must exist, and the start time ps reports must be  *)
(* the recorded one.  psAnswers = FALSE when ps fails, and then the pid      *)
(* alone decides; a start time cached before the pid was reused gives the    *)
(* same verdict.                                                            *)
ownerIsAlive(t, psAnswers) ==
  /\ alive[t.pid]
  /\ psAnswers => started[t.pid] = t.start

(* Mutant: a lock is reaped by its age alone. *)
OwnerStaleByAge(t, psAnswers) == now - t.at > Stale

(* The liveness half of staleLockSnapshot. *)
OwnerStale(t, psAnswers) ==
  /\ ~ownerIsAlive(t, psAnswers)
  /\ ~alive[t.pid] \/ now - t.at > Stale

(* withFileLock is called: acquireLock starts at attempt 0. *)
Call(c) ==
  /\ Alive(c)
  /\ pc[c] \in {"idle"} \cup Returned
  /\ calls < MaxCalls
  /\ calls' = calls + 1
  /\ Goto(c, "mkdir")
  /\ attempt' = [attempt EXCEPT ![c] = 0]
  /\ UNCHANGED <<now, procs, disk, mine, expect, stat, saw, slow, window>>

(* tryAcquireLock's mkdir: EEXIST sends the caller to the stale check. *)
Mkdir(c) ==
  /\ Alive(c)
  /\ pc[c] = "mkdir"
  /\ \/ /\ dirIno = 0
        /\ dirIno' = nextIno
        /\ nextIno' = nextIno + 1
        /\ dirMtime' = now
        /\ dirInfo' = NoInfo
        /\ saw' = [saw EXCEPT ![c] = nextIno]
        /\ Goto(c, "made")
     \/ /\ dirIno # 0
        /\ Goto(c, "snapshot")
        /\ UNCHANGED <<disk, saw>>
  /\ UNCHANGED <<now, procs, attempt, mine, expect, stat, calls, slow, window>>

(* writeLockInfo: Bun.write creates the parent directory if it has been      *)
(* removed meanwhile, and overwrites an info file that is there.            *)
WriteInfo(c) ==
  LET t == [pid |-> PidOf[c], start |-> ownStart[PidOf[c]], at |-> now] IN
  /\ Alive(c)
  /\ pc[c] = "made"
  /\ dirInfo' = t
  /\ mine' = [mine EXCEPT ![c] = t]
  /\ dirMtime' = IF dirInfo = NoInfo THEN now ELSE dirMtime
  /\ \/ /\ dirIno # 0
        /\ UNCHANGED <<dirIno, nextIno>>
     \/ /\ dirIno = 0
        /\ dirIno' = nextIno
        /\ nextIno' = nextIno + 1
  /\ Goto(c, "crit")
  /\ UNCHANGED <<now, procs, attempt, expect, stat, saw, calls, slow, window>>

(* staleLockSnapshot reads the info; kill(pid, 0) and ps are synchronous.   *)
Snapshot(c) ==
  /\ Alive(c)
  /\ pc[c] = "snapshot"
  /\ \/ /\ dirInfo = NoInfo
        /\ Goto(c, "stat")
        /\ UNCHANGED expect
     \/ \E psAnswers \in BOOLEAN :
        /\ dirInfo # NoInfo
        /\ OwnerStale(dirInfo, psAnswers)
        /\ expect' = [expect EXCEPT ![c] = dirInfo]
        /\ Goto(c, "recheck")
     \/ \E psAnswers \in BOOLEAN :
        /\ dirInfo # NoInfo
        /\ ~OwnerStale(dirInfo, psAnswers)
        /\ Goto(c, "sleep")
        /\ UNCHANGED expect
  /\ UNCHANGED <<now, procs, disk, attempt, mine, stat, saw, calls, slow, window>>

(* Mutant: a directory without info is stale at any age. *)
StatAnyAge(c) ==
  /\ Alive(c)
  /\ pc[c] = "stat"
  /\ dirIno # 0
  /\ stat' = [stat EXCEPT ![c] = dirMtime]
  /\ saw' = [saw EXCEPT ![c] = dirIno]
  /\ Goto(c, "reread")
  /\ UNCHANGED <<now, procs, disk, attempt, mine, expect, calls, slow, window>>

(* staleLockSnapshot's fs.stat of a directory without info. *)
Stat(c) ==
  /\ Alive(c)
  /\ pc[c] = "stat"
  /\ \/ /\ dirIno = 0 \/ now - dirMtime <= Stale
        /\ Goto(c, "sleep")
        /\ UNCHANGED <<stat, saw>>
     \/ /\ dirIno # 0 /\ now - dirMtime > Stale
        /\ stat' = [stat EXCEPT ![c] = dirMtime]
        /\ saw' = [saw EXCEPT ![c] = dirIno]
        /\ Goto(c, "reread")
  /\ UNCHANGED <<now, procs, disk, attempt, mine, expect, calls, slow, window>>

(* Mutant: the second read compares the pid only. *)
VerifyPidOnly(c, t, yes, no) ==
  \/ /\ dirInfo # NoInfo /\ dirInfo.pid = t.pid
     /\ saw' = [saw EXCEPT ![c] = dirIno]
     /\ Goto(c, yes)
  \/ /\ ~(dirInfo # NoInfo /\ dirInfo.pid = t.pid)
     /\ UNCHANGED saw
     /\ Goto(c, no)

(* removeFileLockDirForGc up to its fs.rm: the token is read again and the  *)
(* removal goes ahead only if it is the expected one.                       *)
Verify(c, t, yes, no) ==
  \/ /\ dirInfo = t
     /\ saw' = [saw EXCEPT ![c] = dirIno]
     /\ Goto(c, yes)
  \/ /\ dirInfo # t
     /\ UNCHANGED saw
     /\ Goto(c, no)

(* removeStaleLockForAcquire for a snapshot with an owner. *)
Recheck(c) ==
  /\ Alive(c)
  /\ pc[c] = "recheck"
  /\ Verify(c, expect[c], "unlink", "sleep")
  /\ UNCHANGED <<now, procs, disk, attempt, mine, expect, stat, calls, slow, window>>

(* removeStaleLockForAcquire for a snapshot without one: info, then stat. *)
Reread(c) ==
  /\ Alive(c)
  /\ pc[c] = "reread"
  /\ \/ dirInfo = NoInfo /\ Goto(c, "restat")
     \/ dirInfo # NoInfo /\ Goto(c, "sleep")
  /\ UNCHANGED <<now, procs, disk, local, calls, slow, window>>

Restat(c) ==
  /\ Alive(c)
  /\ pc[c] = "restat"
  /\ \/ dirIno = saw[c] /\ dirMtime = stat[c] /\ Goto(c, "unlink")
     \/ ~(dirIno = saw[c] /\ dirMtime = stat[c]) /\ Goto(c, "sleep")
  /\ UNCHANGED <<now, procs, disk, local, calls, slow, window>>

(* fs.rm of the path, whatever directory is there by now. *)
Rm(c) ==
  /\ dirIno' = 0
  /\ dirMtime' = 0
  /\ dirInfo' = NoInfo
  /\ window' = (window \/ dirIno \notin {0, saw[c]})
  /\ UNCHANGED nextIno

(* Mutant: attempts are not counted. *)
NextAttemptUncounted(c) == Goto(c, "mkdir") /\ UNCHANGED local

(* The end of a loop iteration: the next attempt, or the throw. *)
NextAttempt(c) ==
  /\ \/ /\ attempt[c] + 1 < Retries
        /\ attempt' = [attempt EXCEPT ![c] = attempt[c] + 1]
        /\ Goto(c, "mkdir")
     \/ /\ attempt[c] + 1 >= Retries
        /\ Goto(c, "timeout")
        /\ UNCHANGED attempt
  /\ UNCHANGED <<mine, expect, stat, saw>>

Unlink(c) ==
  /\ Alive(c)
  /\ pc[c] = "unlink"
  /\ Rm(c)
  /\ NextAttempt(c)
  /\ UNCHANGED <<now, procs, calls, slow>>

Sleep(c) ==
  /\ Alive(c)
  /\ pc[c] = "sleep"
  /\ NextAttempt(c)
  /\ UNCHANGED <<now, procs, disk, calls, slow, window>>

(* fn returns or throws: withFileLock releases either way. *)
EndFn(c) ==
  /\ Alive(c)
  /\ pc[c] = "crit"
  /\ Goto(c, "release")
  /\ UNCHANGED <<now, procs, disk, local, calls, slow, window>>

(* releaseLock: the guarded removal with the caller's own token; any outcome *)
(* but "removed" throws.                                                    *)
Release(c) ==
  /\ Alive(c)
  /\ pc[c] = "release"
  /\ Verify(c, mine[c], "relrm", "relfail")
  /\ UNCHANGED <<now, procs, disk, attempt, mine, expect, stat, calls, slow, window>>

ReleaseRm(c) ==
  /\ Alive(c)
  /\ pc[c] = "relrm"
  /\ Rm(c)
  /\ Goto(c, "ok")
  /\ UNCHANGED <<now, procs, local, calls, slow>>

(* Mutant: prune trusts its record and does not probe the pid again. *)
GcPruneUnprobed(c) ==
  /\ Alive(c)
  /\ pc[c] \in {"idle"} \cup Returned
  /\ calls < MaxCalls
  /\ dirInfo # NoInfo
  /\ calls' = calls + 1
  /\ expect' = [expect EXCEPT ![c] = dirInfo]
  /\ Goto(c, "gcRecheck")
  /\ UNCHANGED <<now, procs, disk, attempt, mine, stat, saw, slow, window>>

(* fileLocksGcAdapter.prune: only an owner whose pid is dead qualifies. *)
GcPrune(c) ==
  /\ Alive(c)
  /\ pc[c] \in {"idle"} \cup Returned
  /\ calls < MaxCalls
  /\ dirInfo # NoInfo
  /\ ~alive[dirInfo.pid]
  /\ calls' = calls + 1
  /\ expect' = [expect EXCEPT ![c] = dirInfo]
  /\ Goto(c, "gcRecheck")
  /\ UNCHANGED <<now, procs, disk, attempt, mine, stat, saw, slow, window>>

GcRecheck(c) ==
  /\ Alive(c)
  /\ pc[c] = "gcRecheck"
  /\ Verify(c, expect[c], "gcUnlink", "ok")
  /\ UNCHANGED <<now, procs, disk, attempt, mine, expect, stat, calls, slow, window>>

GcUnlink(c) ==
  /\ Alive(c)
  /\ pc[c] = "gcUnlink"
  /\ Rm(c)
  /\ Goto(c, "ok")
  /\ UNCHANGED <<now, procs, local, calls, slow>>

-----------------------------------------------------------------------------
(* A process dies: its callers vanish between two of their steps. *)
Crash(p) ==
  /\ alive[p]
  /\ alive' = [alive EXCEPT ![p] = FALSE]
  /\ pc' = [c \in Callers |-> IF PidOf[c] = p THEN "idle" ELSE pc[c]]
  /\ UNCHANGED <<now, started, ownStart, disk, local, calls, slow, window>>

(* A later process is given the same pid. *)
Restart(p) ==
  /\ ~alive[p]
  /\ started[p] < MaxStarts
  /\ alive' = [alive EXCEPT ![p] = TRUE]
  /\ started' = [started EXCEPT ![p] = started[p] + 1]
  /\ \E s \in {started[p] + 1} \cup (IF LookupMayFail THEN {0} ELSE {}) :
        ownStart' = [ownStart EXCEPT ![p] = s]
  /\ UNCHANGED <<now, disk, pc, local, calls, slow, window>>

Tick ==
  /\ now < MaxTime
  /\ now' = now + 1
  /\ slow' = (slow \/ \E c \in Callers : /\ pc[c] = "made"
                                         /\ dirIno = saw[c]
                                         /\ (now + 1) - dirMtime > Stale)
  /\ UNCHANGED <<procs, disk, pc, local, calls, window>>

Init ==
  /\ now = 0
  /\ alive = [p \in Pids |-> TRUE]
  /\ started = [p \in Pids |-> 1]
  /\ ownStart \in [Pids -> IF LookupMayFail THEN {0, 1} ELSE {1}]
  /\ dirIno = 0 /\ dirMtime = 0 /\ dirInfo = NoInfo /\ nextIno = 1
  /\ pc = [c \in Callers |-> "idle"]
  /\ attempt = [c \in Callers |-> 0]
  /\ mine = [c \in Callers |-> NoInfo]
  /\ expect = [c \in Callers |-> NoInfo]
  /\ stat = [c \in Callers |-> 0]
  /\ saw = [c \in Callers |-> 0]
  /\ calls = 0
  /\ slow = FALSE
  /\ window = FALSE

(* What a caller's own code does once it has been called. *)
Step(c) ==
  \/ Mkdir(c) \/ WriteInfo(c) \/ Snapshot(c) \/ Stat(c) \/ Recheck(c)
  \/ Reread(c) \/ Restat(c) \/ Unlink(c) \/ Sleep(c) \/ EndFn(c)
  \/ Release(c) \/ ReleaseRm(c) \/ GcRecheck(c) \/ GcUnlink(c)

Next ==
  \/ \E c \in Callers : Call(c) \/ GcPrune(c) \/ Step(c)
  \/ \E p \in Pids : Crash(p) \/ Restart(p)
  \/ Tick

Spec == Init /\ [][Next]_vars

(* A live process keeps running its event loop, and fn terminates. *)
FairSpec == Spec /\ \A c \in Callers : WF_vars(Step(c))
-----------------------------------------------------------------------------
(* Every variable has its type; in particular the loop counter stays below  *)
(* options.retries (file-lock.ts acquireLock).                              *)
TypeOK ==
  /\ now \in Nat
  /\ alive \in [Pids -> BOOLEAN]
  /\ started \in [Pids -> Nat]
  /\ ownStart \in [Pids -> Nat]
  /\ dirIno \in Nat /\ dirMtime \in Nat /\ nextIno \in Nat \ {0}
  /\ dirInfo \in Token \cup {NoInfo}
  /\ pc \in [Callers -> Pcs]
  /\ attempt \in [Callers -> 0..Retries-1]
  /\ mine \in [Callers -> Token \cup {NoInfo}]
  /\ expect \in [Callers -> Token \cup {NoInfo}]
  /\ stat \in [Callers -> Nat]
  /\ saw \in [Callers -> Nat]
  /\ calls \in Nat
  /\ slow \in BOOLEAN /\ window \in BOOLEAN

(* The conditions under which the lock keeps its promise: every process     *)
(* could read its own start time, no info write was outstanding longer than *)
(* staleMs, and no rm fell into the read->unlink window that the comment on *)
(* removeFileLockDirForGc names.                                            *)
Undisturbed == ~LookupMayFail /\ ~slow /\ ~window

(* No two callers run their fn at once. *)
Exclusion ==
  \A c, d \in Callers : pc[c] = "crit" /\ pc[d] = "crit" => c = d

(* withFileLock serializes its callers, whatever crashes and pid reuse the  *)
(* reclaim of abandoned locks has to cope with.                             *)
Serialized == Undisturbed => Exclusion

(* releaseLock finds its own token: a completed fn is never reported as a   *)
(* failed release (file-lock.ts releaseLock).                               *)
ReleaseSucceeds == Undisturbed => \A c \in Callers : pc[c] # "relfail"

(* The window opens only around an abandoned lock: while no process has     *)
(* died, every rm removes the directory that its caller verified, so the    *)
(* lock serializes its callers unconditionally.                             *)
NoDeath == \A p \in Pids : alive[p] /\ started[p] = 1
WindowNeedsDeath == ~LookupMayFail /\ ~slow /\ NoDeath => ~window

(* "Never reap a live owner by elapsed time" (file-lock.ts:200): nobody     *)
(* removes the directory of a caller that is running fn, as long as no info *)
(* write was outstanding longer than staleMs and the rm did not fall into   *)
(* the read->unlink window.                                                 *)
LiveOwnerKept ==
  [][\A c \in Callers :
       /\ ~slow /\ ~window'
       /\ dirInfo = mine[c] /\ pc[c] = "crit" /\ pc'[c] = "crit"
       => dirIno' = dirIno]_vars

(* Every call returns: with a lock, with a timeout, or with a failed        *)
(* release, unless its process dies (acquireLock's bounded loop).           *)
CallReturns ==
  \A c \in Callers : (pc[c] \notin {"idle"} \cup Returned)
                       ~> (pc[c] \in {"idle"} \cup Returned)
-----------------------------------------------------------------------------
(* The inductive strengthening of Serialized, ReleaseSucceeds and           *)
(* WindowNeedsDeath.                                                        *)

(* The process that wrote token t is gone for good. *)
Gone(t) ==
  /\ t \in Token
  /\ t.start <= started[t.pid]
  /\ ~alive[t.pid] \/ t.start < started[t.pid]

(* Facts that hold whatever happens. *)
Basic ==
  /\ dirMtime <= now
  /\ dirIno < nextIno
  /\ \A c \in Callers : saw[c] < nextIno
  /\ \A c \in Callers : pc[c] \in Owning => Alive(c)
  /\ dirInfo # NoInfo => dirInfo.start <= started[dirInfo.pid]
  /\ \A p \in Pids : started[p] >= 1 /\ ownStart[p] <= started[p]
  /\ ~LookupMayFail => \A p \in Pids : ownStart[p] = started[p]

(* The directory on disk is the one its owner made, stamped with the        *)
(* owner's token once the info is written.                                  *)
OwnerHasDir(c) ==
  /\ dirIno = saw[c] /\ dirIno # 0
  /\ pc[c] = "made" => dirInfo = NoInfo /\ now - dirMtime <= Stale
  /\ pc[c] # "made" => /\ dirInfo = mine[c] /\ dirInfo # NoInfo
                       /\ mine[c].pid = PidOf[c]
                       /\ mine[c].start = started[PidOf[c]]

(* A caller on its way to an rm it is not entitled to as the owner has       *)
(* verified a directory that no owner holds.                                *)
ReaperIsRight(c) ==
  /\ pc[c] \in {"recheck", "gcRecheck"} => Gone(expect[c])
  /\ pc[c] \in {"reread", "restat"} => saw[c] # 0 /\ stat[c] + Stale < now
  /\ pc[c] = "restat" /\ dirIno = saw[c] /\ dirMtime = stat[c] => dirInfo = NoInfo
  /\ pc[c] \in {"unlink", "gcUnlink"} =>
        \A d \in Callers : pc[d] \in Owning => saw[d] # saw[c]

Core ==
  /\ \A c \in Callers : pc[c] \in Owning => OwnerHasDir(c)
  /\ \A c, d \in Callers : pc[c] \in Owning /\ pc[d] \in Owning => c = d
  /\ \A c \in Callers : ReaperIsRight(c)
  /\ \A c \in Callers : pc[c] # "relfail"

(* While nobody has died, nobody reaps, and a directory without info still   *)
(* has its maker.                                                           *)
Quiet ==
  /\ ~window
  /\ \A c \in Callers : pc[c] \notin {"recheck", "unlink", "gcRecheck", "gcUnlink"}
  /\ dirInfo # NoInfo => dirInfo.start = started[dirInfo.pid]
  /\ dirIno # 0 /\ dirInfo = NoInfo => \E d \in Callers : pc[d] = "made"

(* The invariant that is inductive: the lock directory belongs to at most    *)
(* one live caller, and every pending rm by another is aimed at a directory  *)
(* nobody holds (file-lock.ts removeFileLockDirForGc, releaseLock).          *)
LockInv ==
  /\ Basic
  /\ Undisturbed => Core
  /\ ~LookupMayFail /\ ~slow /\ NoDeath => Quiet
=============================================================================
