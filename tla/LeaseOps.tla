------------------------------ MODULE LeaseOps ------------------------------
(***************************************************************************)
(* The operations of harness-control-plane/session-lease.ts step by step:  *)
(* acquireLease, heartbeat, releaseLease and reapDeadOwnerArtifacts read,  *)
(* classify, sometimes read again and then write lease.json, all under the *)
(* mutation lock.  A process may die between any two of these steps, the   *)
(* collector of gc-adapter.ts reads the lease before it takes the lock,    *)
(* and a stranger may get a dead owner's pid.                              *)
(*                                                                         *)
(* The lock is a mutex that a dead holder loses: what FileLock promises    *)
(* its callers.  The atomic operations of SessionLease are what the steps  *)
(* are shown to implement.                                                 *)
(***************************************************************************)
EXTENDS SessionLease

CONSTANTS
  Threads,    \* concurrent callers: an owner's start/stop, its heartbeat timer
  OwnerOf,    \* the owner each of them acts for
  Gcs,        \* harness lease collectors, in processes of their own
  NoThread,   \* nobody holds the mutation lock
  MaxCalls    \* bound: operations started

ASSUME OpsAssumptions ==
  /\ OwnerOf \in [Threads -> Owners]
  /\ Threads \cap Gcs = {}
  /\ NoThread \notin Threads \cup Gcs
  /\ MaxCalls \in Nat

All == Threads \cup Gcs
Ops == {"acquire", "heartbeat", "release", "reap"}

VARIABLES
  reused,   \* reused[o]: a stranger runs under the pid that dead owner o had
  mutex,    \* who is inside withLeaseMutationLock
  pc,       \* idle, lock, read, reread, write, unlock; gone for a dead collector
  op,       \* the operation in progress
  got,      \* the lease that the operation read (the collector's: expected)
  expiry,   \* the expiry it computed
  calls

opVars == <<reused, mutex, pc, op, got, expiry, calls>>
vars   == <<leaseVars, opVars>>

(* process.kill(pid, 0) finds no process: classifyLeaseStatus says "dead". *)
Dead(o) == ~alive[o] /\ ~reused[o]

(* The process that runs t. *)
Runs(t) == IF t \in Threads THEN alive[OwnerOf[t]] ELSE pc[t] # "gone"

Goto(t, l) == pc' = [pc EXCEPT ![t] = l]

(* The call ends, and with it its local variables. *)
Return(t) ==
  /\ Goto(t, "idle")
  /\ got' = [got EXCEPT ![t] = NoLease]
  /\ expiry' = [expiry EXCEPT ![t] = 0]

-----------------------------------------------------------------------------
(* An owner calls one of its three operations. *)
Call(t) ==
  /\ t \in Threads
  /\ Runs(t) /\ pc[t] = "idle"
  /\ calls < MaxCalls
  /\ calls' = calls + 1
  /\ \E o \in {"acquire", "heartbeat", "release"} : op' = [op EXCEPT ![t] = o]
  /\ Goto(t, "lock")
  /\ UNCHANGED <<leaseVars, reused, mutex, got, expiry>>

(* harnessLeasesGcAdapter.prune: read and classify without the lock. *)
GcPrune(t) ==
  /\ t \in Gcs
  /\ pc[t] = "idle"
  /\ calls < MaxCalls
  /\ lease # NoLease /\ Dead(lease.owner)
  /\ calls' = calls + 1
  /\ op' = [op EXCEPT ![t] = "reap"]
  /\ got' = [got EXCEPT ![t] = lease]
  /\ Goto(t, "lock")
  /\ UNCHANGED <<leaseVars, reused, mutex, expiry>>

(* Mutant: the lock does not exclude anybody. *)
LockShared(t) ==
  /\ Runs(t) /\ pc[t] = "lock"
  /\ mutex' = t
  /\ Goto(t, "read")
  /\ UNCHANGED <<leaseVars, reused, op, got, expiry, calls>>

(* withFileLock gets the lock. *)
Lock(t) ==
  /\ Runs(t) /\ pc[t] = "lock"
  /\ mutex = NoThread
  /\ mutex' = t
  /\ Goto(t, "read")
  /\ UNCHANGED <<leaseVars, reused, op, got, expiry, calls>>

(* lease_lock_timeout. *)
LockTimeout(t) ==
  /\ Runs(t) /\ pc[t] = "lock"
  /\ Return(t)
  /\ UNCHANGED <<leaseVars, reused, mutex, op, calls>>

(* The lock of a dead holder is reclaimed. *)
Reclaim ==
  /\ mutex # NoThread
  /\ ~Runs(mutex)
  /\ mutex' = NoThread
  /\ UNCHANGED <<leaseVars, reused, pc, op, got, expiry, calls>>

Mine(t) == HeldBy(OwnerOf[t])

(* Mutant: an expired lease is free for the taking. *)
MayWriteExpired(t) ==
  CASE op[t] = "acquire" -> lease = NoLease \/ Mine(t) \/ (lease # NoLease /\ Expired)
    [] op[t] = "reap"    -> /\ lease # NoLease
                            /\ lease.owner = got[t].owner
                            /\ lease.epoch = got[t].epoch
                            /\ Dead(lease.owner)
    [] OTHER             -> Mine(t)

(* Mutant: the collector reaps whatever lease it finds. *)
MayWriteReapAny(t) ==
  CASE op[t] = "acquire" -> lease = NoLease \/ Mine(t)
    [] op[t] = "reap"    -> lease # NoLease
    [] OTHER             -> Mine(t)

(* Does the lease just read let the operation write? *)
MayWrite(t) ==
  CASE op[t] = "acquire" -> lease = NoLease \/ Mine(t)
    [] op[t] = "reap"    -> /\ lease # NoLease
                            /\ lease.owner = got[t].owner
                            /\ lease.epoch = got[t].epoch
                            /\ Dead(lease.owner)
    [] OTHER             -> Mine(t)

(* readLease, the checks that follow it, and nowMs() when they pass; the     *)
(* operation ends there otherwise.                                          *)
Read(t) ==
  /\ Runs(t) /\ pc[t] = "read"
  /\ \/ /\ MayWrite(t)
        /\ Goto(t, "write")
        /\ expiry' = [expiry EXCEPT ![t] = now + Ttl]
     \/ /\ op[t] = "acquire" /\ ~MayWrite(t) /\ Dead(lease.owner)
        /\ Goto(t, "reread")
        /\ UNCHANGED expiry
     \/ /\ ~MayWrite(t) /\ (op[t] = "acquire" => ~Dead(lease.owner))
        /\ Goto(t, "unlock")
        /\ UNCHANGED expiry
  /\ got' = [got EXCEPT ![t] = lease]
  /\ UNCHANGED <<leaseVars, reused, mutex, op, calls>>

(* acquireLease reads a dead owner's lease again before taking it over. *)
Reread(t) ==
  /\ Runs(t) /\ pc[t] = "reread"
  /\ \/ /\ lease # NoLease /\ lease.owner = got[t].owner /\ lease.epoch = got[t].epoch
        /\ Goto(t, "write")
        /\ expiry' = [expiry EXCEPT ![t] = now + Ttl]
     \/ /\ ~(lease # NoLease /\ lease.owner = got[t].owner /\ lease.epoch = got[t].epoch)
        /\ Goto(t, "unlock")
        /\ UNCHANGED expiry
  /\ UNCHANGED <<leaseVars, reused, mutex, op, got, calls>>

(* What the operation writes, from what it read. *)
Written(t) ==
  CASE op[t] = "acquire" ->
         [owner     |-> OwnerOf[t],
          epoch     |-> IF got[t] = NoLease THEN 1
                        ELSE IF got[t].owner = OwnerOf[t] THEN got[t].epoch
                        ELSE got[t].epoch + 1,
          expiresAt |-> expiry[t]]
    [] op[t] = "heartbeat" -> [got[t] EXCEPT !.expiresAt = expiry[t]]
    [] OTHER -> NoLease

(* writeLeaseAtomic's rename, or fs.rm.  (The reaper removes the dead owner's     *)
(* socket first: RuntimeOwner has that half.)                                *)
Write(t) ==
  /\ Runs(t) /\ pc[t] = "write"
  /\ lease' = Written(t)
  /\ Goto(t, "unlock")
  /\ UNCHANGED <<now, alive, reused, mutex, op, got, expiry, calls>>

Unlock(t) ==
  /\ Runs(t) /\ pc[t] = "unlock"
  /\ mutex' = NoThread
  /\ Return(t)
  /\ UNCHANGED <<leaseVars, reused, op, calls>>

-----------------------------------------------------------------------------
(* The environment. *)
OwnerDies(o) == Die(o) /\ UNCHANGED opVars

GcDies(t) ==
  /\ t \in Gcs
  /\ pc[t] # "gone"
  /\ Goto(t, "gone")
  /\ UNCHANGED <<leaseVars, reused, mutex, op, got, expiry, calls>>

PidTaken(o) ==
  /\ ~alive[o]
  /\ reused' = [reused EXCEPT ![o] = ~reused[o]]
  /\ UNCHANGED <<leaseVars, mutex, pc, op, got, expiry, calls>>

Tick == Elapse /\ UNCHANGED opVars

Init ==
  /\ LeaseInit
  /\ reused = [o \in Owners |-> FALSE]
  /\ mutex = NoThread
  /\ pc = [t \in All |-> "idle"]
  /\ op \in [All -> {"acquire"}]
  /\ got = [t \in All |-> NoLease]
  /\ expiry = [t \in All |-> 0]
  /\ calls = 0

Next ==
  \/ \E t \in All : \/ Call(t) \/ GcPrune(t) \/ Lock(t) \/ LockTimeout(t) \/ Read(t)
                    \/ Reread(t) \/ Write(t) \/ Unlock(t) \/ GcDies(t)
  \/ \E o \in Owners : OwnerDies(o) \/ PidTaken(o)
  \/ Reclaim \/ Tick

Spec == Init /\ [][Next]_vars
-----------------------------------------------------------------------------
(* Every variable has its type. *)
TypeOK ==
  /\ now \in Nat /\ alive \in [Owners -> BOOLEAN]
  /\ lease \in Lease \cup {NoLease}
  /\ reused \in [Owners -> BOOLEAN]
  /\ mutex \in All \cup {NoThread}
  /\ pc \in [All -> {"idle", "lock", "read", "reread", "write", "unlock", "gone"}]
  /\ op \in [All -> Ops]
  /\ got \in [All -> Lease \cup {NoLease}]
  /\ expiry \in [All -> Nat]
  /\ calls \in Nat

(* The collector only ever reaps, an owner's threads never do; what the      *)
(* collector expects is a lease it has seen.                                *)
Roles ==
  /\ \A t \in Threads : op[t] # "reap"
  /\ \A t \in Gcs : pc[t] \notin {"idle", "gone"} => op[t] = "reap"
  /\ \A t \in Gcs : pc[t] \in {"lock", "read"} => got[t] # NoLease

(* What an operation that is about to write relies on: it holds the lock,    *)
(* the lease is still the one it read, and it belongs to the caller, or to   *)
(* nobody, or to an owner whose process is gone (session-lease.ts 172-206).  *)
View(t) ==
  /\ pc[t] \in {"read", "reread", "write", "unlock"} => mutex = t
  /\ pc[t] = "reread" => /\ op[t] = "acquire" /\ t \in Threads
                         /\ got[t] = lease /\ lease # NoLease
                         /\ ~alive[lease.owner]
  /\ pc[t] = "write" =>
       /\ got[t] = lease
       /\ expiry[t] \in Ttl..now + Ttl
       /\ lease = NoLease => op[t] = "acquire"
       /\ lease # NoLease => \/ t \in Threads /\ Mine(t)
                             \/ ~alive[lease.owner] /\ op[t] \in {"acquire", "reap"}

(* No operation ever acts on a stale view of the lease. *)
LockedView == Roles /\ \A t \in All : Runs(t) => View(t)

(* A lease whose owner is alive goes away only through the release that its   *)
(* owner called: neither a contender nor the collector, which classified it   *)
(* without the lock, ever removes or replaces it.                            *)
LiveLeaseKept ==
  [][\A o \in Owners :
       HeldBy(o) /\ alive[o] /\ ~HeldBy(o)' =>
         \E t \in Threads : OwnerOf[t] = o /\ op[t] = "release" /\ pc[t] = "write"]_vars
=============================================================================
