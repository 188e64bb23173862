---------------------------- MODULE SessionLease ----------------------------
(***************************************************************************)
(* What harness-control-plane/session-lease.ts promises: one lease per     *)
(* session, changed by atomic operations.  A live owner's lease is only    *)
(* refreshed or released by that owner, and a lease is taken over or       *)
(* reaped only when the process that holds it is gone.  LeaseOps gives the *)
(* operations step by step; RuntimeOwner builds on the atomic ones.        *)
(***************************************************************************)
EXTENDS Integers

CONSTANTS
  Owners,    \* owner ids; each names one RuntimeOwner, in a process of its own
  NoLease,   \* lease.json does not exist
  Ttl,       \* ttlMs, in ticks
  MaxTime    \* bound: the clock stops here

ASSUME LeaseAssumptions == Ttl \in Nat \ {0} /\ MaxTime \in Nat

(* SessionLease: the owner (whose pid the lease records), its epoch, expiry. *)
Lease == [owner : Owners, epoch : Nat, expiresAt : Nat]

ASSUME NoLeaseAssumption == NoLease \notin Lease

VARIABLES
  now,     \* Date.now()
  alive,   \* alive[o]: the process of owner o is running
  lease    \* lease.json: a Lease or NoLease

leaseVars == <<now, alive, lease>>

HeldBy(o) == lease # NoLease /\ lease.owner = o
Expired   == lease.expiresAt <= now

(* canWriteEvents, on the lease as it is now. *)
CanWriteEvents(o) == HeldBy(o) /\ ~Expired

(* acquireLease succeeds: a fresh lease, a refresh by the current owner, or  *)
(* the takeover of a dead owner's.  The expiry was computed a little before  *)
(* the write.                                                               *)
Acquire(o) ==
  /\ alive[o]
  /\ lease # NoLease => HeldBy(o) \/ ~alive[lease.owner]
  /\ \E e \in Ttl..now + Ttl :
       lease' = [owner     |-> o,
                 epoch     |-> IF lease = NoLease THEN 1
                               ELSE IF HeldBy(o) THEN lease.epoch
                               ELSE lease.epoch + 1,
                 expiresAt |-> e]
  /\ UNCHANGED <<now, alive>>

(* heartbeat succeeds. *)
Heartbeat(o) ==
  /\ alive[o]
  /\ HeldBy(o)
  /\ \E e \in Ttl..now + Ttl : lease' = [lease EXCEPT !.expiresAt = e]
  /\ UNCHANGED <<now, alive>>

(* releaseLease removes the file. *)
Release(o) ==
  /\ alive[o]
  /\ HeldBy(o)
  /\ lease' = NoLease
  /\ UNCHANGED <<now, alive>>

(* reapDeadOwnerArtifacts removes it for a dead owner. *)
Reap ==
  /\ lease # NoLease
  /\ ~alive[lease.owner]
  /\ lease' = NoLease
  /\ UNCHANGED <<now, alive>>

Die(o) ==
  /\ alive[o]
  /\ alive' = [alive EXCEPT ![o] = FALSE]
  /\ UNCHANGED <<now, lease>>

Elapse ==
  /\ now < MaxTime
  /\ now' = now + 1
  /\ UNCHANGED <<alive, lease>>

LeaseInit ==
  /\ now = 0
  /\ alive = [o \in Owners |-> TRUE]
  /\ lease = NoLease

LeaseNext ==
  \/ \E o \in Owners : Acquire(o) \/ Heartbeat(o) \/ Release(o) \/ Die(o)
  \/ Reap
  \/ Elapse

LeaseSpec == LeaseInit /\ [][LeaseNext]_leaseVars
=============================================================================
