--------------------------- MODULE LeaseOpsProofs ---------------------------
(***************************************************************************)
(* The steps of session-lease.ts implement the atomic lease of             *)
(* SessionLease, for any number of owners, threads and collectors.         *)
(***************************************************************************)
EXTENDS LeaseOps, TLAPS

(* A leaf that names no backend goes to the SMT solver, with time to spare. *)
USE SMTT(30)

(* Every step keeps the types; a write needs the view of its writer. *)
LEMMA TypeStep ==
  ASSUME TypeOK, LockedView, [Next]_vars
  PROVE  TypeOK'
<1> USE LeaseAssumptions, OpsAssumptions DEF TypeOK, Goto, Return, leaseVars, opVars
<1>1. ASSUME NEW t \in All, Call(t) \/ GcPrune(t)
      PROVE  TypeOK'
  BY <1>1 DEF Call, GcPrune, Ops
<1>2. ASSUME NEW t \in All, Lock(t) \/ LockTimeout(t) \/ Unlock(t) \/ GcDies(t)
      PROVE  TypeOK'
  BY <1>2 DEF Lock, LockTimeout, Unlock, GcDies
<1>3. ASSUME NEW t \in All, Read(t) \/ Reread(t)
      PROVE  TypeOK'
  BY <1>3 DEF Read, Reread
<1>4. ASSUME NEW t \in All, Write(t)
      PROVE  TypeOK'
  <2>1. View(t) /\ Roles
    BY <1>4 DEF LockedView, Write
  <2>2. op[t] = "acquire" => t \in Threads
    BY <1>4, <2>1 DEF Roles, Write, All
  <2>3. Written(t) \in Lease \cup {NoLease}
    <3>1. CASE op[t] = "acquire"
      BY <2>2, <3>1 DEF Written, Lease
    <3>2. CASE op[t] = "heartbeat"
      <4>1. got[t] \in Lease
        BY <1>4, <2>1, <3>2 DEF View, Write
      <4> QED
        BY <3>2, <4>1 DEF Written, Lease
    <3>3. CASE op[t] \notin {"acquire", "heartbeat"}
      BY <3>3 DEF Written
    <3> QED
      BY <3>1, <3>2, <3>3
  <2> QED
    BY <1>4, <2>3 DEF Write
<1>5. ASSUME NEW o \in Owners, OwnerDies(o) \/ PidTaken(o)
      PROVE  TypeOK'
  BY <1>5, Zenon DEF OwnerDies, Die, PidTaken
<1>6. ASSUME Reclaim \/ Tick
      PROVE  TypeOK'
  BY <1>6 DEF Reclaim, Tick, Elapse
<1>7. CASE UNCHANGED vars
  BY <1>7 DEF vars
<1> QED
  BY <1>1, <1>2, <1>3, <1>4, <1>5, <1>6, <1>7 DEF Next

(* The roles of owners and collectors never change. *)
LEMMA RolesStep ==
  ASSUME TypeOK, Roles, [Next]_vars
  PROVE  Roles'
<1> USE OpsAssumptions DEF TypeOK, Roles, Goto, Return, leaseVars, opVars, All
<1>1. ASSUME NEW t \in All, Call(t) \/ GcPrune(t)
      PROVE  Roles'
  BY <1>1 DEF Call, GcPrune
<1>2. ASSUME NEW t \in All, Lock(t) \/ LockTimeout(t) \/ Unlock(t) \/ GcDies(t)
      PROVE  Roles'
  BY <1>2 DEF Lock, LockTimeout, Unlock, GcDies
<1>3. ASSUME NEW t \in All, Read(t) \/ Reread(t) \/ Write(t)
      PROVE  Roles'
  BY <1>3 DEF Read, Reread, Write
<1>4. ASSUME NEW o \in Owners, OwnerDies(o) \/ PidTaken(o)
      PROVE  Roles'
  BY <1>4 DEF OwnerDies, Die, PidTaken
<1>5. ASSUME Reclaim \/ Tick
      PROVE  Roles'
  BY <1>5 DEF Reclaim, Tick, Elapse
<1>6. CASE UNCHANGED vars
  BY <1>6 DEF vars
<1> QED
  BY <1>1, <1>2, <1>3, <1>4, <1>5, <1>6 DEF Next

(* What a thread knows about the lease stays true until it acts: nobody      *)
(* else is inside the lock, and a dead owner stays dead.                     *)
LEMMA ViewStep ==
  ASSUME TypeOK, LockedView, [Next]_vars
  PROVE  \A u \in All : Runs(u)' => View(u)'
<1> SUFFICES ASSUME NEW u \in All, Runs(u)'
             PROVE  View(u)'
  OBVIOUS
<1> USE LeaseAssumptions, OpsAssumptions DEF TypeOK, Goto, Return, leaseVars, opVars
<1>0. Roles
  BY DEF LockedView
<1>1. ASSUME NEW t \in All, Call(t) \/ GcPrune(t)
      PROVE  View(u)'
  <2>1. Runs(u)
    BY <1>1 DEF Runs, Call, GcPrune
  <2> QED
    BY <1>1, <2>1 DEF LockedView, View, Mine, HeldBy, Call, GcPrune
<1>2. ASSUME NEW t \in All, Lock(t) \/ LockTimeout(t) \/ Unlock(t) \/ GcDies(t)
      PROVE  View(u)'
  <2>1. Runs(u) /\ View(u)
    BY <1>2 DEF LockedView, Runs, Lock, LockTimeout, Unlock, GcDies
  <2>2. CASE Lock(t)
    BY <2>1, <2>2 DEF View, Mine, HeldBy, Lock, All
  <2>3. CASE LockTimeout(t) \/ GcDies(t)
    BY <2>1, <2>3 DEF View, Mine, HeldBy, LockTimeout, GcDies
  <2>4. CASE Unlock(t)
    <3>1. View(t)
      BY <2>4 DEF LockedView, Unlock
    <3> QED
      BY <2>1, <2>4, <3>1 DEF View, Mine, HeldBy, Unlock
  <2> QED
    BY <1>2, <2>2, <2>3, <2>4
<1>3. ASSUME NEW t \in All, Read(t)
      PROVE  View(u)'
  <2>1. Runs(u)
    BY <1>3 DEF Runs, Read
  <2>2. CASE u # t
    BY <1>3, <2>1, <2>2 DEF LockedView, View, Mine, HeldBy, Read
  <2>3. CASE u = t
    <3>1. mutex' = t /\ got'[t] = lease'
      BY <1>3, <2>1, <2>3 DEF LockedView, View, Read
    <3>2. t \in Gcs => op[t] = "reap"
      BY <1>0, <1>3 DEF Roles, Read
    <3>3. CASE pc'[t] = "write"
      <4>1. MayWrite(t) /\ expiry'[t] = now + Ttl
        BY <1>3, <3>3 DEF Read
      <4>2. lease = NoLease => op[t] = "acquire"
        BY <4>1 DEF MayWrite, Mine, HeldBy, Ops
      <4>3. lease # NoLease => \/ t \in Threads /\ Mine(t)
                               \/ ~alive[lease.owner] /\ op[t] \in {"acquire", "reap"}
        BY <3>2, <4>1 DEF MayWrite, Dead, Ops, All
      <4> QED
        BY <1>3, <2>3, <3>1, <3>3, <4>1, <4>2, <4>3 DEF View, Read, Mine, HeldBy
    <3>4. CASE pc'[t] = "reread"
      <4>1. op[t] = "acquire" /\ ~MayWrite(t) /\ Dead(lease.owner)
        BY <1>3, <3>4 DEF Read
      <4> QED
        BY <1>3, <2>3, <3>1, <3>2, <3>4, <4>1 DEF View, Read, MayWrite, Dead, All
    <3>5. CASE pc'[t] = "unlock"
      BY <2>3, <3>1, <3>5 DEF View
    <3> QED
      BY <1>3, <3>3, <3>4, <3>5 DEF Read
  <2> QED
    BY <2>2, <2>3
<1>4. ASSUME NEW t \in All, Reread(t)
      PROVE  View(u)'
  <2>1. Runs(u)
    BY <1>4 DEF Runs, Reread
  <2> QED
    BY <1>4, <2>1 DEF LockedView, View, Mine, HeldBy, Reread
<1>5. ASSUME NEW t \in All, Write(t)
      PROVE  View(u)'
  <2>1. Runs(u)
    BY <1>5 DEF Runs, Write
  <2>2. pc'[u] \notin {"read", "reread", "write"}
    BY <1>5, <2>1 DEF LockedView, View, Write
  <2> QED
    BY <1>5, <2>1, <2>2 DEF LockedView, View, Write
<1>6. ASSUME NEW o \in Owners, OwnerDies(o) \/ PidTaken(o)
      PROVE  View(u)'
  <2>1. Runs(u)
    BY <1>6 DEF Runs, OwnerDies, Die, PidTaken
  <2> QED
    BY <1>6, <2>1 DEF LockedView, View, Mine, HeldBy, OwnerDies, Die, PidTaken, Lease
<1>7. ASSUME Reclaim
      PROVE  View(u)'
  <2>1. Runs(u) /\ u # mutex
    BY <1>7 DEF Runs, Reclaim
  <2> QED
    BY <1>7, <2>1 DEF LockedView, View, Mine, HeldBy, Reclaim
<1>8. ASSUME Tick
      PROVE  View(u)'
  <2>1. Runs(u)
    BY <1>8 DEF Runs, Tick, Elapse
  <2> QED
    BY <1>8, <2>1 DEF LockedView, View, Mine, HeldBy, Tick, Elapse
<1>9. CASE UNCHANGED vars
  <2>1. Runs(u)
    BY <1>9 DEF Runs, vars
  <2> QED
    BY <1>9, <2>1 DEF LockedView, View, Mine, HeldBy, vars
<1> QED
  BY <1>1, <1>2, <1>3, <1>4, <1>5, <1>6, <1>7, <1>8, <1>9 DEF Next

-----------------------------------------------------------------------------
(* The types and the views are invariant together. *)
THEOREM LeaseInvariant == Spec => [](TypeOK /\ LockedView)
<1>1. Init => TypeOK /\ LockedView
  BY LeaseAssumptions, OpsAssumptions
     DEF Init, LeaseInit, TypeOK, LockedView, Roles, View, Ops, All
<1>2. TypeOK /\ LockedView /\ [Next]_vars => TypeOK' /\ LockedView'
  BY TypeStep, RolesStep, ViewStep DEF LockedView
<1> QED
  BY <1>1, <1>2, PTL DEF Spec

(* Every step of the operations is one of the atomic operations of           *)
(* SessionLease or leaves the lease alone: acquireLease, heartbeat,          *)
(* releaseLease and reapDeadOwnerArtifacts are linearizable at their write.  *)
THEOREM LeaseRefinement == Spec => LeaseSpec
<1>1. Init => LeaseInit
  BY DEF Init
<1>2. TypeOK /\ LockedView /\ [Next]_vars => [LeaseNext]_leaseVars
  <2> SUFFICES ASSUME TypeOK, LockedView, [Next]_vars
               PROVE  [LeaseNext]_leaseVars
    OBVIOUS
  <2> USE DEF leaseVars
  <2>1. ASSUME NEW t \in All, Write(t)
        PROVE  LeaseNext
    <3>1. View(t) /\ Roles /\ Runs(t) /\ pc[t] = "write"
      BY <2>1 DEF LockedView, Write
    <3>2. t \in Threads => alive[OwnerOf[t]] /\ OwnerOf[t] \in Owners /\ op[t] # "reap"
      BY <3>1, OpsAssumptions DEF Runs, Roles
    <3>3. t \in Gcs => op[t] = "reap"
      BY <3>1 DEF Roles
    <3>4. UNCHANGED <<now, alive>> /\ lease' = Written(t)
      BY <2>1 DEF Write
    <3>5. CASE op[t] = "acquire"
      <4>1. t \in Threads
        BY <3>3, <3>5 DEF All
      <4>2. Acquire(OwnerOf[t])
        BY <3>1, <3>2, <3>4, <3>5, <4>1 DEF View, Mine, HeldBy, Written, Acquire
      <4> QED
        BY <3>2, <4>1, <4>2 DEF LeaseNext
    <3>6. CASE op[t] = "heartbeat"
      <4>1. t \in Threads
        BY <3>3, <3>6 DEF All
      <4>2. Heartbeat(OwnerOf[t])
        BY <3>1, <3>2, <3>4, <3>6, <4>1 DEF View, Mine, HeldBy, Written, Heartbeat
      <4> QED
        BY <3>2, <4>1, <4>2 DEF LeaseNext
    <3>7. CASE op[t] = "release"
      <4>1. t \in Threads
        BY <3>3, <3>7 DEF All
      <4>2. Release(OwnerOf[t])
        BY <3>1, <3>2, <3>4, <3>7, <4>1 DEF View, Mine, HeldBy, Written, Release
      <4> QED
        BY <3>2, <4>1, <4>2 DEF LeaseNext
    <3>8. CASE op[t] = "reap"
      <4>1. Reap
        BY <3>1, <3>2, <3>4, <3>8 DEF View, Written, Reap
      <4> QED
        BY <4>1 DEF LeaseNext
    <3> QED
      BY <3>5, <3>6, <3>7, <3>8 DEF TypeOK, Ops
  <2>2. ASSUME NEW o \in Owners, OwnerDies(o)
        PROVE  LeaseNext
    BY <2>2 DEF OwnerDies, LeaseNext
  <2>3. ASSUME Tick
        PROVE  LeaseNext
    BY <2>3 DEF Tick, LeaseNext
  <2>4. ASSUME NEW t \in All,
               \/ Call(t) \/ GcPrune(t) \/ Lock(t) \/ LockTimeout(t) \/ Read(t)
               \/ Reread(t) \/ Unlock(t) \/ GcDies(t)
        PROVE  UNCHANGED leaseVars
    BY <2>4 DEF Call, GcPrune, Lock, LockTimeout, Read, Reread, Unlock, GcDies
  <2>5. ASSUME NEW o \in Owners, PidTaken(o)
        PROVE  UNCHANGED leaseVars
    BY <2>5 DEF PidTaken
  <2>6. ASSUME Reclaim \/ UNCHANGED vars
        PROVE  UNCHANGED leaseVars
    BY <2>6 DEF Reclaim, vars
  <2> QED
    BY <2>1, <2>2, <2>3, <2>4, <2>5, <2>6 DEF Next
<1> QED
  BY <1>1, <1>2, LeaseInvariant, PTL DEF Spec, LeaseSpec

(* A live owner's lease goes away only by that owner's own release. *)
THEOREM LiveLease == Spec => LiveLeaseKept
<1> DEFINE Kept == \A o \in Owners :
                     HeldBy(o) /\ alive[o] /\ ~HeldBy(o)' =>
                       \E t \in Threads : OwnerOf[t] = o /\ op[t] = "release" /\ pc[t] = "write"
<1>1. TypeOK /\ LockedView /\ [Next]_vars => [Kept]_vars
  <2> SUFFICES ASSUME TypeOK, LockedView, Next,
                      NEW o \in Owners, HeldBy(o), alive[o], ~HeldBy(o)'
               PROVE  \E t \in Threads : /\ OwnerOf[t] = o /\ op[t] = "release"
                                         /\ pc[t] = "write"
    OBVIOUS
  <2>1. ASSUME NEW t \in All, Write(t)
        PROVE  t \in Threads /\ OwnerOf[t] = o /\ op[t] = "release" /\ pc[t] = "write"
    <3>1. View(t) /\ Roles /\ pc[t] = "write"
      BY <2>1 DEF LockedView, Write
    <3>2. t \in Threads /\ OwnerOf[t] = o
      BY <3>1 DEF View, Mine, HeldBy
    <3>3. op[t] # "acquire"
      <4> SUFFICES ASSUME op[t] = "acquire"
                   PROVE  FALSE
        OBVIOUS
      <4>1. lease' \in Lease /\ lease'.owner = o
        BY <2>1, <3>2 DEF Write, Written, TypeOK, Lease
      <4> QED
        BY <4>1, NoLeaseAssumption DEF HeldBy
    <3>4. op[t] # "heartbeat"
      <4> SUFFICES ASSUME op[t] = "heartbeat"
                   PROVE  FALSE
        OBVIOUS
      <4>1. got[t] \in Lease /\ got[t].owner = o
        BY <3>1 DEF View, HeldBy, TypeOK
      <4>2. lease' \in Lease /\ lease'.owner = o
        BY <2>1, <4>1 DEF Write, Written, TypeOK, Lease
      <4> QED
        BY <4>2, NoLeaseAssumption DEF HeldBy
    <3> QED
      BY <3>1, <3>2, <3>3, <3>4 DEF Roles, TypeOK, Ops
  <2>2. lease' # lease
    BY DEF HeldBy
  <2>3. PICK t \in All : Write(t)
    BY <2>2 DEF Next, Call, GcPrune, Lock, LockTimeout, Read, Reread, Unlock, GcDies,
                OwnerDies, Die, PidTaken, Reclaim, Tick, Elapse, leaseVars
  <2> QED
    BY <2>1, <2>3
<1> QED
  BY <1>1, LeaseInvariant, PTL DEF Spec, LiveLeaseKept
=============================================================================
