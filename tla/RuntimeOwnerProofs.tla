------------------------- MODULE RuntimeOwnerProofs -------------------------
(***************************************************************************)
(* Owners of one session, however many, hand the lease, the transport and  *)
(* the control socket over in order: HolderKeepsLease,                     *)
(* ClosedBeforeHandover and SocketIsHolders of RuntimeOwner, from an       *)
(* inductive invariant that ties where start(), stop() and the frame pump  *)
(* are to what the owner has at that moment.                               *)
(*                                                                         *)
(* The events rest on that order: every event an owner waits for is        *)
(* appended under the lease (WriterHolds), and the four activities of an   *)
(* owner never stamp the same cursor twice (CursorsDistinct).              *)
(***************************************************************************)
EXTENDS RuntimeOwner, TLAPS

(* A leaf that names no backend goes to the SMT solver, with time to spare. *)
USE SMTT(30)

(* start() has not bound the control socket yet. *)
Unbound == {"cursor", "acquire", "unbind", "bind"}

(* Every owner has the four slots; what an emit stamps does not matter here. *)
EmitSlots == em = [o \in Owners |-> [s \in Slots |-> em[o][s]]]

(* The types of what the order is about. *)
OwnerTypes ==
  /\ now \in Nat
  /\ lease \in Lease \cup {NoLease}
  /\ alive \in [Owners -> BOOLEAN]
  /\ start \in [Owners -> Unbound \cup {"hello", "started", "late", "failed"}]
  /\ epoch \in [Owners -> Nat]
  /\ stop \in [Owners -> {"no", "unsubscribe", "drain", "transport", "server", "unlink",
                          "release", "report", "done"}]
  /\ drainTo \in [Owners -> Nat]
  /\ leaseHeld \in [Owners -> BOOLEAN]
  /\ beating \in [Owners -> BOOLEAN]
  /\ transport \in [Owners -> BOOLEAN]
  /\ closed \in [Owners -> BOOLEAN]
  /\ listening \in [Owners -> BOOLEAN]
  /\ intruded \in BOOLEAN
  /\ subscribed \in [Owners -> BOOLEAN]
  /\ queued \in [Owners -> Nat]
  /\ pumped \in [Owners -> Nat]
  /\ job \in [Owners -> {"none", "flush", "frame"}]
  /\ request \in [Owners -> Verbs \cup {"none"}]
  /\ EmitSlots

(* Until start() has bound the socket nothing is served and nothing is being *)
(* stopped; the lease is there exactly from its acquisition on.              *)
StartOrder(o) ==
  /\ start[o] \in Unbound => /\ stop[o] = "no" /\ ~listening[o] /\ request[o] = "none"
                             /\ em[o]["handler"] = Idle
  /\ start[o] \in {"cursor", "acquire"} => ~leaseHeld[o] /\ ~beating[o]
  /\ start[o] \in {"unbind", "bind"} => leaseHeld[o]
  /\ em[o]["start"] # Idle => start[o] = "hello"

(* stop() closes the transport before the server and the server before it    *)
(* gives the lease up; a failed stage that is reported undoes nothing.       *)
StopOrder(o) ==
  /\ em[o]["stop"] # Idle => stop[o] = "report"
  /\ stop[o] = "no" => ~closed[o]
  /\ listening[o] => leaseHeld[o] /\ ~closed[o] /\ stop[o] \notin {"unlink", "release", "done"}
  /\ epoch[o] > 0 /\ ~leaseHeld[o] => stop[o] = "done"
  /\ stop[o] \in {"server", "unlink", "release", "done"} => ~transport[o]

(* The pump never overtakes the frames; past the drain every frame is dealt  *)
(* with and none is added, unless start() subscribed after stop() began.     *)
PumpOrder(o) ==
  /\ pumped[o] <= queued[o]
  /\ em[o]["pump"] # Idle => pumped[o] < queued[o] /\ job[o] # "none"
  /\ /\ stop[o] \in {"drain", "transport", "server", "unlink", "release", "done"}
     /\ start[o] # "late"
     => ~subscribed[o] /\ queued[o] = drainTo[o]
  /\ stop[o] \in {"transport", "server", "unlink", "release", "done"} => pumped[o] >= drainTo[o]

(* The socket leads to the live owner that listens. *)
SocketTrue == \A o \in Owners : alive[o] /\ listening[o] /\ ~intruded => sock = o

(* The inductive invariant: the order of every owner, and the two facts that *)
(* relate owners to each other, through the lease and through the socket.    *)
OwnerInv ==
  /\ OwnerTypes
  /\ \A o \in Owners : StartOrder(o) /\ StopOrder(o) /\ PumpOrder(o)
  /\ HolderKeepsLease
  /\ SocketTrue

-----------------------------------------------------------------------------
(* An emit changes the slot of its activity and no other. *)
LEMMA EmitSets ==
  ASSUME EmitSlots, NEW o \in Owners, NEW s \in Slots, NEW v, Emit(o, s, v)
  PROVE  /\ EmitSlots'
         /\ \A p \in Owners, r \in Slots :
              em'[p][r] = IF p = o /\ r = s THEN v ELSE em[p][r]
  BY Zenon DEF EmitSlots, Emit

(* No emit is called by the step, except by activity s of o. *)
Calls(o, s) ==
  \A p \in Owners, r \in Slots : em'[p][r] # Idle => em[p][r] # Idle \/ (p = o /\ r = s)

(* No emit is called by the step. *)
NoCall == \A p \in Owners, r \in Slots : em'[p][r] # Idle => em[p][r] # Idle

(* Each activity calls #emit at its own places only. *)
LEMMA CallersEmit ==
  ASSUME EmitSlots, NEW o \in Owners
  PROVE  /\ Bind(o) => EmitSlots' /\ Calls(o, "start")
         /\ Pump(o) => EmitSlots' /\ Calls(o, "pump")
         /\ SubmitSettled(o) => EmitSlots' /\ Calls(o, "handler")
         /\ \A verb \in Verbs : Request(o, verb) => EmitSlots' /\ Calls(o, "handler")
         /\ StageFails(o) => EmitSlots' /\ Calls(o, "stop")
<1>1. ASSUME NEW s \in Slots, em' = em \/ Emit(o, s, Called) PROVE EmitSlots' /\ Calls(o, s)
  <2>1. CASE em' = em
    BY <2>1, Zenon DEF Calls, EmitSlots
  <2>2. CASE Emit(o, s, Called)
    <3>1. /\ EmitSlots'
          /\ \A p \in Owners, r \in Slots :
               em'[p][r] = IF p = o /\ r = s THEN Called ELSE em[p][r]
      BY <2>2, EmitSets
    <3> QED
      BY <3>1, Zenon DEF Calls
  <2> QED
    BY <1>1, <2>1, <2>2, Zenon
<1>2. ASSUME Bind(o) PROVE EmitSlots' /\ Calls(o, "start")
  BY <1>1, <1>2, Zenon DEF Bind, Slots
<1>3. ASSUME Pump(o) PROVE EmitSlots' /\ Calls(o, "pump")
  BY <1>1, <1>3, Zenon DEF Pump, Slots
<1>4. ASSUME SubmitSettled(o) PROVE EmitSlots' /\ Calls(o, "handler")
  BY <1>1, <1>4, Zenon DEF SubmitSettled, Slots
<1>5. ASSUME NEW verb \in Verbs, Request(o, verb) PROVE EmitSlots' /\ Calls(o, "handler")
  BY <1>1, <1>5, Zenon DEF Request, Slots
<1>6. ASSUME StageFails(o) PROVE EmitSlots' /\ Calls(o, "stop")
  BY <1>1, <1>6, Zenon DEF StageFails, Slots
<1> QED
  BY <1>2, <1>3, <1>4, <1>5, <1>6, Zenon

(* An emit goes on: it passes the check of #emit, or takes its cursor. *)
EmitGoesOn(o, s) == EmitCheck(o, s) \/ EmitStamp(o, s)

(* An emit that goes on was called before. *)
LEMMA EmitsOn ==
  ASSUME EmitSlots, NEW o \in Owners, NEW s \in Slots, EmitGoesOn(o, s)
  PROVE  EmitSlots' /\ NoCall
<1>1. em[o][s] # Idle /\ \E v : Emit(o, s, v)
  BY DEF EmitGoesOn, EmitCheck, EmitStamp, Called, Checked, Idle
<1>2. PICK v : Emit(o, s, v)
  BY <1>1, Zenon
<1>3. /\ EmitSlots'
      /\ \A p \in Owners, r \in Slots : em'[p][r] = IF p = o /\ r = s THEN v ELSE em[p][r]
  BY <1>2, EmitSets
<1> QED
  BY <1>1, <1>3, Zenon DEF NoCall

(* What no end of an emit changes. *)
AtEnd(o, s) ==
  /\ em[o][s] # Idle
  /\ NoCall
  /\ EmitSlots'
  /\ UNCHANGED <<leaseVars, epoch, drainTo, leaseHeld, transport, closed, beating, sockVars,
                  queued>>

(* An emit of each activity ends; only the pump calls it again, after a flush. *)
StartEnds(o, ok)   == AtEnd(o, "start") /\ em'[o]["start"] = Idle /\ StartGoesOn(o, ok)
HandlerEnds(o, ok) == AtEnd(o, "handler") /\ em'[o]["handler"] = Idle /\ HandlerGoesOn(o, ok)
StopEnds(o)        == AtEnd(o, "stop") /\ em'[o]["stop"] = Idle /\ StopGoesOn(o)
PumpEnds(o, ok) ==
  /\ AtEnd(o, "pump") /\ PumpGoesOn(o, ok)
  /\ (ok /\ job[o] = "flush") \/ em'[o]["pump"] = Idle

(* An emit that is dropped, appended or fails ends. *)
LEMMA EmitEnds ==
  ASSUME EmitSlots, NEW o \in Owners, NEW s \in Slots,
         EmitDrop(o, s) \/ EmitAppend(o, s) \/ EmitFails(o, s)
  PROVE  \E ok \in BOOLEAN :
           StartEnds(o, ok) \/ PumpEnds(o, ok) \/ HandlerEnds(o, ok) \/ StopEnds(o)
<1>1. em[o][s] # Idle
  <2>1. CASE EmitDrop(o, s)
    BY <2>1 DEF EmitDrop, Called, Idle
  <2>2. CASE EmitAppend(o, s)
    <3>1. em[o][s] > 0
      BY <2>2, Zenon DEF EmitAppend, Checked
    <3> QED
      BY <3>1 DEF Idle
  <2>3. CASE EmitFails(o, s)
    BY <2>3, Zenon DEF EmitFails
  <2> QED
    BY <2>1, <2>2, <2>3, Zenon
<1>2. PICK ok \in BOOLEAN : Finish(o, s, ok)
  <2>1. Finish(o, s, TRUE) \/ Finish(o, s, FALSE)
    BY Zenon DEF EmitDrop, EmitAppend, EmitFails
  <2> QED
    BY <2>1, Zenon
<1>3. PICK v : /\ Emit(o, s, v) /\ v \in {Idle, Called}
               /\ (s = "pump" /\ ok /\ job[o] = "flush") \/ v = Idle
  BY <1>2, Zenon DEF Finish
<1>4. /\ EmitSlots'
      /\ \A p \in Owners, r \in Slots : em'[p][r] = IF p = o /\ r = s THEN v ELSE em[p][r]
  BY <1>3, EmitSets
<1>5. UNCHANGED <<leaseVars, epoch, drainTo, leaseHeld, transport, closed, beating, sockVars,
                  queued>>
  BY <1>2, Zenon DEF Finish
<1>6. AtEnd(o, s)
  BY <1>1, <1>4, <1>5, Zenon DEF AtEnd, NoCall
<1>7. CASE s = "start"
  BY <1>2, <1>3, <1>4, <1>6, <1>7, Zenon DEF Finish, StartEnds
<1>8. CASE s = "pump"
  BY <1>2, <1>3, <1>4, <1>6, <1>8, Zenon DEF Finish, PumpEnds
<1>9. CASE s = "handler"
  BY <1>2, <1>3, <1>4, <1>6, <1>9, Zenon DEF Finish, HandlerEnds
<1>10. CASE s = "stop"
  BY <1>2, <1>3, <1>4, <1>6, <1>10, Zenon DEF Finish, StopEnds
<1> QED
  BY <1>7, <1>8, <1>9, <1>10, Zenon DEF Slots

-----------------------------------------------------------------------------
(* The types hold after every step. *)
LEMMA TypesStep ==
  ASSUME OwnerInv, [Next]_vars
  PROVE  OwnerTypes'
<1> USE DEF Set, leaseVars, startVars, stopVars, sockVars, pumpVars, reqVars, emitVars
<1>0. OwnerTypes /\ EmitSlots
  BY Zenon DEF OwnerInv, OwnerTypes
<1>1. ASSUME NEW o \in Owners, StartStep(o) PROVE OwnerTypes'
  <2>1. CASE ReadCursor(o)
    BY <1>0, <2>1, Zenon DEF ReadCursor, OwnerTypes, EmitSlots, Unbound
  <2>2. CASE AcquireLease(o)
    BY <1>0, <2>2, LeaseAssumptions DEF AcquireLease, Acquire, Lease, OwnerTypes, EmitSlots, Unbound
  <2>3. CASE LeaseRefused(o)
    BY <1>0, <2>3 DEF LeaseRefused, StartRejects, Stop, OwnerTypes, EmitSlots, Unbound
  <2>4. CASE StartFails(o)
    BY <1>0, <2>4, Zenon DEF StartFails, StartRejects, Stop, OwnerTypes, EmitSlots, Unbound
  <2>5. CASE Unbind(o)
    BY <1>0, <2>5, Zenon DEF Unbind, OwnerTypes, EmitSlots, Unbound
  <2>6. CASE Bind(o)
    <3>1. Calls(o, "start") /\ EmitSlots'
      BY <1>0, <2>6, CallersEmit, Zenon
    <3> QED
      BY <1>0, <2>6, <3>1, Zenon DEF Bind, OwnerTypes, EmitSlots, Unbound, Calls
  <2> QED
    BY <1>1, <2>1, <2>2, <2>3, <2>4, <2>5, <2>6, Zenon DEF StartStep
<1>2. ASSUME NEW o \in Owners, Beat(o) \/ BeatLands(o) \/ BeatFails(o) PROVE OwnerTypes'
  <2>1. CASE Beat(o)
    BY <1>0, <2>1 DEF Beat, OwnerTypes, EmitSlots, Unbound
  <2>2. CASE BeatLands(o)
    <3>1. lease' \in Lease \cup {NoLease}
      BY <1>0, <2>2, LeaseAssumptions DEF BeatLands, Heartbeat, HeldBy, Lease, OwnerTypes
    <3>2. now' = now /\ alive' = alive
      BY <2>2, Zenon DEF BeatLands, Heartbeat
    <3>3. stop' = stop \/ Stop(o)
      BY <2>2, Zenon DEF BeatLands
    <3> QED
      BY <1>0, <2>2, <3>1, <3>2, <3>3 DEF BeatLands, Stop, OwnerTypes, EmitSlots
  <2>3. CASE BeatFails(o)
    BY <1>0, <2>3 DEF BeatFails, OwnerTypes, EmitSlots, Unbound
  <2> QED
    BY <1>2, <2>1, <2>2, <2>3, Zenon
<1>3. ASSUME NEW o \in Owners, PumpStep(o) PROVE OwnerTypes'
  <2>1. CASE Frame(o)
    BY <1>0, <2>1 DEF Frame, OwnerTypes, EmitSlots, Unbound
  <2>2. CASE Noise(o)
    BY <1>0, <2>2 DEF Noise, OwnerTypes, EmitSlots, Unbound
  <2>3. CASE Pump(o)
    <3>1. EmitSlots'
      BY <1>0, <2>3, CallersEmit, Zenon
    <3>2. job' \in [Owners -> {"none", "flush", "frame"}] /\ pumped' \in [Owners -> Nat]
      BY <1>0, <2>3 DEF Pump, OwnerTypes
    <3> QED
      BY <1>0, <2>3, <3>1, <3>2, Zenon DEF Pump, OwnerTypes
  <2> QED
    BY <1>3, <2>1, <2>2, <2>3, Zenon DEF PumpStep
<1>4. ASSUME NEW o \in Owners, RequestStep(o) PROVE OwnerTypes'
  <2>1. ASSUME NEW verb \in Verbs, Request(o, verb) PROVE OwnerTypes'
    <3>1. Calls(o, "handler") /\ EmitSlots'
      BY <1>0, <2>1, CallersEmit, Zenon
    <3> QED
      BY <1>0, <2>1, <3>1, Zenon DEF Request, OwnerTypes, EmitSlots, Unbound, Calls
  <2>2. CASE ClientGone(o)
    BY <1>0, <2>2 DEF ClientGone, OwnerTypes, EmitSlots, Unbound
  <2>3. CASE SubmitRefused(o)
    BY <1>0, <2>3, Zenon DEF SubmitRefused, Respond, OwnerTypes, EmitSlots, Unbound
  <2>4. CASE SubmitSettled(o)
    <3>1. Calls(o, "handler") /\ EmitSlots'
      BY <1>0, <2>4, CallersEmit, Zenon
    <3> QED
      BY <1>0, <2>4, <3>1, Zenon DEF SubmitSettled, OwnerTypes, EmitSlots, Unbound, Calls
  <2>5. CASE Observed(o)
    BY <1>0, <2>5, Zenon DEF Observed, Respond, OwnerTypes, EmitSlots, Unbound
  <2> QED
    BY <1>4, <2>1, <2>2, <2>3, <2>4, <2>5, Zenon DEF RequestStep
<1>5. ASSUME NEW o \in Owners, NEW s \in Slots, EmitGoesOn(o, s) PROVE OwnerTypes'
  <2>1. NoCall /\ EmitSlots'
    BY <1>0, <1>5, EmitsOn, Zenon
  <2>2. UNCHANGED <<leaseVars, startVars, stopVars, beating, sockVars, pumpVars, reqVars>>
    BY <1>5, Zenon DEF EmitGoesOn, EmitCheck, EmitStamp
  <2> QED
    BY <1>0, <2>1, <2>2, Zenon DEF OwnerTypes, EmitSlots, Unbound, NoCall
<1>6. ASSUME NEW o \in Owners, NEW ok \in BOOLEAN,
             StartEnds(o, ok) \/ PumpEnds(o, ok) \/ HandlerEnds(o, ok) \/ StopEnds(o)
      PROVE  OwnerTypes'
  <2>1. CASE StartEnds(o, ok)
    BY <1>0, <2>1 DEF StartEnds, StartGoesOn, Stop, AtEnd, OwnerTypes, EmitSlots, Unbound, NoCall
  <2>2. CASE PumpEnds(o, ok)
    BY <1>0, <2>2 DEF PumpEnds, PumpGoesOn, AtEnd, OwnerTypes, EmitSlots, Unbound, NoCall
  <2>3. CASE HandlerEnds(o, ok)
    BY <1>0, <2>3, ZenonT(30)
    DEF HandlerEnds, HandlerGoesOn, Stop, AtEnd, OwnerTypes, EmitSlots, Unbound, NoCall
  <2>4. CASE StopEnds(o)
    BY <1>0, <2>4, Zenon DEF StopEnds, StopGoesOn, AtEnd, OwnerTypes, EmitSlots, Unbound, NoCall
  <2> QED
    BY <1>6, <2>1, <2>2, <2>3, <2>4, Zenon
<1>7. ASSUME NEW o \in Owners, StopStep(o) PROVE OwnerTypes'
  <2>1. CASE StopSignal(o)
    BY <1>0, <2>1, Zenon DEF StopSignal, Stop, OwnerTypes, EmitSlots, Unbound
  <2>2. CASE Unsubscribe(o)
    BY <1>0, <2>2, Zenon DEF Unsubscribe, OwnerTypes, EmitSlots, Unbound
  <2>3. CASE Drained(o)
    BY <1>0, <2>3, Zenon DEF Drained, OwnerTypes, EmitSlots, Unbound
  <2>4. CASE CloseTransport(o)
    BY <1>0, <2>4, Zenon DEF CloseTransport, OwnerTypes, EmitSlots, Unbound
  <2>5. CASE CloseServer(o)
    BY <1>0, <2>5, Zenon DEF CloseServer, OwnerTypes, EmitSlots, Unbound
  <2>6. CASE Unlink(o)
    BY <1>0, <2>6 DEF Unlink, OwnerTypes, EmitSlots, Unbound
  <2>7. CASE ReleaseLease(o)
    BY <1>0, <2>7, Zenon DEF ReleaseLease, Release, OwnerTypes, EmitSlots, Unbound
  <2>8. CASE StageFails(o)
    <3>1. EmitSlots'
      BY <1>0, <2>8, CallersEmit, Zenon
    <3>2. stop' = Set(stop, o, "unsubscribe") \/ stop' = Set(stop, o, "report")
      BY <2>8, Zenon DEF StageFails
    <3> QED
      BY <1>0, <2>8, <3>1, <3>2, Zenon DEF StageFails, OwnerTypes
  <2> QED
    BY <1>7, <2>1, <2>2, <2>3, <2>4, <2>5, <2>6, <2>7, <2>8, Zenon DEF StopStep
<1>8. ASSUME NEW o \in Owners, Crash(o) PROVE OwnerTypes'
  BY <1>0, <1>8 DEF Crash, Die, OwnerTypes, EmitSlots, Unbound
<1>9. CASE GcReap \/ Tick
  <2>1. CASE GcReap
    BY <1>0, <2>1, Zenon DEF GcReap, Reap, OwnerTypes, EmitSlots, Unbound
  <2>2. CASE Tick
    BY <1>0, <2>2 DEF Tick, Elapse, OwnerTypes, EmitSlots, Unbound
  <2> QED
    BY <1>9, <2>1, <2>2, Zenon
<1>10. CASE UNCHANGED vars
  BY <1>0, <1>10, Zenon DEF vars, OwnerTypes, EmitSlots, Unbound
<1> QED
  BY <1>0, <1>1, <1>2, <1>3, <1>4, <1>5, <1>6, <1>7, <1>8, <1>9, <1>10, EmitEnds, Zenon
  DEF Next, EmitStep, EmitGoesOn

(* start() keeps its order. *)
LEMMA StartOrderStep ==
  ASSUME OwnerInv, [Next]_vars
  PROVE  \A p \in Owners : StartOrder(p)'
<1> USE DEF Set, leaseVars, startVars, stopVars, sockVars, pumpVars, reqVars, emitVars
<1>0. /\ start \in [Owners -> Unbound \cup {"hello", "started", "late", "failed"}]
      /\ stop \in [Owners -> {"no", "unsubscribe", "drain", "transport", "server", "unlink",
                              "release", "report", "done"}]
      /\ listening \in [Owners -> BOOLEAN] /\ leaseHeld \in [Owners -> BOOLEAN]
      /\ beating \in [Owners -> BOOLEAN] /\ request \in [Owners -> Verbs \cup {"none"}]
      /\ EmitSlots /\ \A p \in Owners : StartOrder(p)
      /\ \A p \in Owners : em[p]["stop"] # Idle => stop[p] = "report"
  BY Zenon DEF OwnerInv, OwnerTypes, StopOrder
<1>1. ASSUME NEW o \in Owners, StartStep(o) PROVE \A p \in Owners : StartOrder(p)'
  <2>1. CASE ReadCursor(o)
    BY <1>0, <2>1, ZenonT(30) DEF ReadCursor, StartOrder, Unbound, Slots
  <2>2. CASE AcquireLease(o)
    BY <1>0, <2>2 DEF AcquireLease, Acquire, StartOrder, Unbound, Slots
  <2>3. CASE LeaseRefused(o)
    BY <1>0, <2>3 DEF LeaseRefused, StartRejects, Stop, StartOrder, Unbound, Slots
  <2>4. CASE StartFails(o)
    BY <1>0, <2>4, ZenonT(30) DEF StartFails, StartRejects, Stop, StartOrder, Unbound, Slots
  <2>5. CASE Unbind(o)
    BY <1>0, <2>5, ZenonT(30) DEF Unbind, StartOrder, Unbound, Slots
  <2>6. CASE Bind(o)
    <3>1. Calls(o, "start") /\ EmitSlots'
      BY <1>0, <2>6, CallersEmit, Zenon
    <3> QED
      BY <1>0, <2>6, <3>1 DEF Bind, StartOrder, Unbound, Slots, Calls
  <2> QED
    BY <1>1, <2>1, <2>2, <2>3, <2>4, <2>5, <2>6, Zenon DEF StartStep
<1>2. ASSUME NEW o \in Owners, Beat(o) \/ BeatLands(o) \/ BeatFails(o)
      PROVE  \A p \in Owners : StartOrder(p)'
  <2>1. CASE Beat(o)
    BY <1>0, <2>1, Zenon DEF Beat, StartOrder, Unbound, Slots
  <2>2. CASE BeatLands(o)
    <3>1. stop' = stop \/ Stop(o)
      BY <2>2, Zenon DEF BeatLands
    <3>2. start[o] \in Unbound => stop' = stop
      <4>1. start[o] \in Unbound => leaseHeld[o]
        BY <1>0, <2>2, Zenon DEF BeatLands, StartOrder, Unbound
      <4>2. leaseHeld[o] => HeldBy(o)
        BY <2>2, Zenon DEF BeatLands, OwnerInv, HolderKeepsLease
      <4> QED
        BY <2>2, <4>1, <4>2, Zenon DEF BeatLands
    <3> QED
      BY <1>0, <2>2, <3>1, <3>2, ZenonT(30) DEF BeatLands, Stop, StartOrder, Unbound, Slots
  <2>3. CASE BeatFails(o)
    BY <1>0, <2>3, Zenon DEF BeatFails, StartOrder, Unbound, Slots
  <2> QED
    BY <1>2, <2>1, <2>2, <2>3, Zenon
<1>3. ASSUME NEW o \in Owners, PumpStep(o) PROVE \A p \in Owners : StartOrder(p)'
  <2>1. CASE Frame(o)
    BY <1>0, <2>1, Zenon DEF Frame, StartOrder, Unbound, Slots
  <2>2. CASE Noise(o)
    BY <1>0, <2>2, Zenon DEF Noise, StartOrder, Unbound, Slots
  <2>3. CASE Pump(o)
    <3>1. Calls(o, "pump") /\ EmitSlots'
      BY <1>0, <2>3, CallersEmit, Zenon
    <3> QED
      BY <1>0, <2>3, <3>1, Zenon DEF Pump, StartOrder, Unbound, Slots, Calls
  <2> QED
    BY <1>3, <2>1, <2>2, <2>3, Zenon DEF PumpStep
<1>4. ASSUME NEW o \in Owners, RequestStep(o) PROVE \A p \in Owners : StartOrder(p)'
  <2>1. ASSUME NEW verb \in Verbs, Request(o, verb) PROVE \A p \in Owners : StartOrder(p)'
    <3>1. Calls(o, "handler") /\ EmitSlots'
      BY <1>0, <2>1, CallersEmit, Zenon
    <3> QED
      BY <1>0, <2>1, <3>1 DEF Request, StartOrder, Unbound, Slots, Calls
  <2>2. CASE ClientGone(o)
    BY <1>0, <2>2, Zenon DEF ClientGone, StartOrder, Unbound, Slots
  <2>3. CASE SubmitRefused(o)
    BY <1>0, <2>3, ZenonT(30) DEF SubmitRefused, Respond, StartOrder, Unbound, Slots
  <2>4. CASE SubmitSettled(o)
    <3>1. Calls(o, "handler") /\ EmitSlots'
      BY <1>0, <2>4, CallersEmit, Zenon
    <3> QED
      BY <1>0, <2>4, <3>1, ZenonT(30) DEF SubmitSettled, StartOrder, Unbound, Slots, Calls
  <2>5. CASE Observed(o)
    BY <1>0, <2>5, ZenonT(30) DEF Observed, Respond, StartOrder, Unbound, Slots
  <2> QED
    BY <1>4, <2>1, <2>2, <2>3, <2>4, <2>5, Zenon DEF RequestStep
<1>5. ASSUME NEW o \in Owners, NEW s \in Slots, EmitGoesOn(o, s)
      PROVE  \A p \in Owners : StartOrder(p)'
  <2>1. NoCall /\ EmitSlots'
    BY <1>0, <1>5, EmitsOn, Zenon
  <2>2. UNCHANGED <<leaseVars, startVars, stopVars, beating, sockVars, pumpVars, reqVars>>
    BY <1>5, Zenon DEF EmitGoesOn, EmitCheck, EmitStamp
  <2> QED
    BY <1>0, <2>1, <2>2, Zenon DEF StartOrder, Unbound, Slots, NoCall
<1>6. ASSUME NEW o \in Owners, NEW ok \in BOOLEAN,
             StartEnds(o, ok) \/ PumpEnds(o, ok) \/ HandlerEnds(o, ok) \/ StopEnds(o)
      PROVE  \A p \in Owners : StartOrder(p)'
  <2>1. CASE StartEnds(o, ok)
    <3>1. /\ (stop' = stop \/ Stop(o)) /\ NoCall
          /\ UNCHANGED <<listening, request, leaseHeld, beating>>
      BY <2>1, Zenon DEF StartEnds, StartGoesOn, AtEnd
    <3>2. /\ start[o] = "hello" /\ em'[o]["start"] = Idle
          /\ \E v \in {"failed", "started", "late"} : start' = Set(start, o, v)
      BY <1>0, <2>1, Zenon DEF StartEnds, StartGoesOn, AtEnd, StartOrder
    <3> QED
      BY <1>0, <3>1, <3>2 DEF Stop, NoCall, StartOrder, Unbound, Slots
  <2>2. CASE PumpEnds(o, ok)
    BY <1>0, <2>2, Zenon DEF PumpEnds, PumpGoesOn, AtEnd, StartOrder, Unbound, Slots, NoCall
  <2>3. CASE HandlerEnds(o, ok)
    BY <1>0, <2>3 DEF HandlerEnds, HandlerGoesOn, Stop, AtEnd, StartOrder, Unbound, Slots, NoCall
  <2>4. CASE StopEnds(o)
    BY <1>0, <2>4, ZenonT(30) DEF StopEnds, StopGoesOn, AtEnd, StartOrder, Unbound, Slots, NoCall
  <2> QED
    BY <1>6, <2>1, <2>2, <2>3, <2>4, Zenon
<1>7. ASSUME NEW o \in Owners, StopStep(o) PROVE \A p \in Owners : StartOrder(p)'
  <2>1. CASE StopSignal(o)
    BY <1>0, <2>1, ZenonT(30) DEF StopSignal, Stop, StartOrder, Unbound, Slots
  <2>2. CASE Unsubscribe(o)
    BY <1>0, <2>2, Zenon DEF Unsubscribe, StartOrder, Unbound, Slots
  <2>3. CASE Drained(o)
    BY <1>0, <2>3, Zenon DEF Drained, StartOrder, Unbound, Slots
  <2>4. CASE CloseTransport(o)
    BY <1>0, <2>4, Zenon DEF CloseTransport, StartOrder, Unbound, Slots
  <2>5. CASE CloseServer(o)
    BY <1>0, <2>5, ZenonT(30) DEF CloseServer, StartOrder, Unbound, Slots
  <2>6. CASE Unlink(o)
    BY <1>0, <2>6, ZenonT(30) DEF Unlink, StartOrder, Unbound, Slots
  <2>7. CASE ReleaseLease(o)
    BY <1>0, <2>7, ZenonT(30) DEF ReleaseLease, Release, StartOrder, Unbound, Slots
  <2>8. CASE StageFails(o)
    <3>1. Calls(o, "stop") /\ EmitSlots'
      BY <1>0, <2>8, CallersEmit, Zenon
    <3>2. /\ \/ stop' = Set(stop, o, "unsubscribe") /\ em' = em
             \/ stop' = Set(stop, o, "report")
          /\ stop[o] \in {"transport", "unlink", "release"}
          /\ UNCHANGED <<startVars, listening, request, leaseHeld, beating>>
      BY <2>8, Zenon DEF StageFails
    <3> QED
      BY <1>0, <3>1, <3>2 DEF StartOrder, Unbound, Slots, Calls
  <2> QED
    BY <1>7, <2>1, <2>2, <2>3, <2>4, <2>5, <2>6, <2>7, <2>8, Zenon DEF StopStep
<1>8. ASSUME NEW o \in Owners, Crash(o) PROVE \A p \in Owners : StartOrder(p)'
  BY <1>0, <1>8, Zenon DEF Crash, Die, StartOrder, Unbound, Slots
<1>9. CASE GcReap \/ Tick
  <2>1. CASE GcReap
    BY <1>0, <2>1, Zenon DEF GcReap, Reap, StartOrder, Unbound, Slots
  <2>2. CASE Tick
    BY <1>0, <2>2, Zenon DEF Tick, Elapse, StartOrder, Unbound, Slots
  <2> QED
    BY <1>9, <2>1, <2>2, Zenon
<1>10. CASE UNCHANGED vars
  BY <1>0, <1>10, Zenon DEF vars, StartOrder, Unbound, Slots
<1> QED
  BY <1>0, <1>1, <1>2, <1>3, <1>4, <1>5, <1>6, <1>7, <1>8, <1>9, <1>10, EmitEnds, ZenonT(30)
  DEF Next, EmitStep, EmitGoesOn

(* stop() keeps its order. *)
LEMMA StopOrderStep ==
  ASSUME OwnerInv, [Next]_vars
  PROVE  \A p \in Owners : StopOrder(p)'
<1> USE DEF Set, leaseVars, startVars, stopVars, sockVars, pumpVars, reqVars, emitVars
<1>0. /\ stop \in [Owners -> {"no", "unsubscribe", "drain", "transport", "server", "unlink",
                              "release", "report", "done"}]
      /\ listening \in [Owners -> BOOLEAN] /\ leaseHeld \in [Owners -> BOOLEAN]
      /\ transport \in [Owners -> BOOLEAN] /\ closed \in [Owners -> BOOLEAN]
      /\ epoch \in [Owners -> Nat] /\ EmitSlots
      /\ \A p \in Owners : StopOrder(p)
      /\ \A p \in Owners : start[p] \in Unbound => stop[p] = "no" /\ ~listening[p]
      /\ \A p \in Owners : start[p] \in {"unbind", "bind"} => leaseHeld[p]
  BY Zenon DEF OwnerInv, OwnerTypes, StartOrder
<1>1. ASSUME NEW o \in Owners, StartStep(o) PROVE \A p \in Owners : StopOrder(p)'
  <2>1. CASE ReadCursor(o)
    BY <1>0, <2>1, Zenon DEF ReadCursor, StopOrder, Unbound, Slots
  <2>2. CASE AcquireLease(o)
    BY <1>0, <2>2, Zenon DEF AcquireLease, Acquire, StopOrder, Unbound, Slots
  <2>3. CASE LeaseRefused(o)
    BY <1>0, <2>3, Zenon DEF LeaseRefused, StartRejects, Stop, StopOrder, Unbound, Slots
  <2>4. CASE StartFails(o)
    BY <1>0, <2>4, Zenon DEF StartFails, StartRejects, Stop, StopOrder, Unbound, Slots
  <2>5. CASE Unbind(o)
    BY <1>0, <2>5, Zenon DEF Unbind, StopOrder, Unbound, Slots
  <2>6. CASE Bind(o)
    <3>1. Calls(o, "start") /\ EmitSlots'
      BY <1>0, <2>6, CallersEmit, Zenon
    <3> QED
      BY <1>0, <2>6, <3>1, ZenonT(30) DEF Bind, StopOrder, Unbound, Slots, Calls
  <2> QED
    BY <1>1, <2>1, <2>2, <2>3, <2>4, <2>5, <2>6, Zenon DEF StartStep
<1>2. ASSUME NEW o \in Owners, Beat(o) \/ BeatLands(o) \/ BeatFails(o)
      PROVE  \A p \in Owners : StopOrder(p)'
  <2>1. CASE Beat(o)
    BY <1>0, <2>1, Zenon DEF Beat, StopOrder, Unbound, Slots
  <2>2. CASE BeatLands(o)
    <3>1. /\ stop' = stop \/ Stop(o)
          /\ UNCHANGED <<listening, leaseHeld, transport, closed, epoch, em>>
      BY <2>2, Zenon DEF BeatLands
    <3> QED
      BY <1>0, <3>1 DEF Stop, StopOrder
  <2>3. CASE BeatFails(o)
    BY <1>0, <2>3, Zenon DEF BeatFails, StopOrder, Unbound, Slots
  <2> QED
    BY <1>2, <2>1, <2>2, <2>3, Zenon
<1>3. ASSUME NEW o \in Owners, PumpStep(o) PROVE \A p \in Owners : StopOrder(p)'
  <2>1. CASE Frame(o)
    BY <1>0, <2>1, Zenon DEF Frame, StopOrder, Unbound, Slots
  <2>2. CASE Noise(o)
    BY <1>0, <2>2, Zenon DEF Noise, StopOrder, Unbound, Slots
  <2>3. CASE Pump(o)
    <3>1. Calls(o, "pump") /\ EmitSlots'
      BY <1>0, <2>3, CallersEmit, Zenon
    <3> QED
      BY <1>0, <2>3, <3>1, Zenon DEF Pump, StopOrder, Unbound, Slots, Calls
  <2> QED
    BY <1>3, <2>1, <2>2, <2>3, Zenon DEF PumpStep
<1>4. ASSUME NEW o \in Owners, RequestStep(o) PROVE \A p \in Owners : StopOrder(p)'
  <2>1. ASSUME NEW verb \in Verbs, Request(o, verb) PROVE \A p \in Owners : StopOrder(p)'
    <3>1. Calls(o, "handler") /\ EmitSlots'
      BY <1>0, <2>1, CallersEmit, Zenon
    <3> QED
      BY <1>0, <2>1, <3>1, Zenon DEF Request, StopOrder, Unbound, Slots, Calls
  <2>2. CASE ClientGone(o)
    BY <1>0, <2>2, Zenon DEF ClientGone, StopOrder, Unbound, Slots
  <2>3. CASE SubmitRefused(o)
    BY <1>0, <2>3, Zenon DEF SubmitRefused, Respond, StopOrder, Unbound, Slots
  <2>4. CASE SubmitSettled(o)
    <3>1. Calls(o, "handler") /\ EmitSlots'
      BY <1>0, <2>4, CallersEmit, Zenon
    <3> QED
      BY <1>0, <2>4, <3>1, Zenon DEF SubmitSettled, StopOrder, Unbound, Slots, Calls
  <2>5. CASE Observed(o)
    BY <1>0, <2>5, Zenon DEF Observed, Respond, StopOrder, Unbound, Slots
  <2> QED
    BY <1>4, <2>1, <2>2, <2>3, <2>4, <2>5, Zenon DEF RequestStep
<1>5. ASSUME NEW o \in Owners, NEW s \in Slots, EmitGoesOn(o, s)
      PROVE  \A p \in Owners : StopOrder(p)'
  <2>1. NoCall /\ EmitSlots'
    BY <1>0, <1>5, EmitsOn, Zenon
  <2>2. UNCHANGED <<leaseVars, startVars, stopVars, beating, sockVars, pumpVars, reqVars>>
    BY <1>5, Zenon DEF EmitGoesOn, EmitCheck, EmitStamp
  <2> QED
    BY <1>0, <2>1, <2>2, Zenon DEF StopOrder, Unbound, Slots, NoCall
<1>6. ASSUME NEW o \in Owners, NEW ok \in BOOLEAN,
             StartEnds(o, ok) \/ PumpEnds(o, ok) \/ HandlerEnds(o, ok) \/ StopEnds(o)
      PROVE  \A p \in Owners : StopOrder(p)'
  <2>1. CASE StartEnds(o, ok)
    <3>1. /\ (stop' = stop \/ Stop(o)) /\ NoCall
          /\ UNCHANGED <<listening, leaseHeld, transport, closed, epoch>>
      BY <2>1, Zenon DEF StartEnds, StartGoesOn, AtEnd
    <3>2. start[o] = "hello"
      BY <1>0, <2>1, Zenon DEF StartEnds, StartGoesOn, AtEnd, StartOrder, OwnerInv
    <3> QED
      BY <1>0, <3>1, <3>2 DEF Stop, NoCall, StopOrder, Slots
  <2>2. CASE PumpEnds(o, ok)
    BY <1>0, <2>2, Zenon DEF PumpEnds, PumpGoesOn, AtEnd, StopOrder, Unbound, Slots, NoCall
  <2>3. CASE HandlerEnds(o, ok)
    BY <1>0, <2>3 DEF HandlerEnds, HandlerGoesOn, Stop, AtEnd, StopOrder, Unbound, Slots, NoCall
  <2>4. CASE StopEnds(o)
    BY <1>0, <2>4, Zenon DEF StopEnds, StopGoesOn, AtEnd, StopOrder, Unbound, Slots, NoCall
  <2> QED
    BY <1>6, <2>1, <2>2, <2>3, <2>4, Zenon
<1>7. ASSUME NEW o \in Owners, StopStep(o) PROVE \A p \in Owners : StopOrder(p)'
  <2>1. CASE StopSignal(o)
    BY <1>0, <2>1, Zenon DEF StopSignal, Stop, StopOrder, Unbound, Slots
  <2>2. CASE Unsubscribe(o)
    BY <1>0, <2>2, Zenon DEF Unsubscribe, StopOrder, Unbound, Slots
  <2>3. CASE Drained(o)
    BY <1>0, <2>3, ZenonT(30) DEF Drained, StopOrder, Unbound, Slots
  <2>4. CASE CloseTransport(o)
    BY <1>0, <2>4, Zenon DEF CloseTransport, StopOrder, Unbound, Slots
  <2>5. CASE CloseServer(o)
    BY <1>0, <2>5, Zenon DEF CloseServer, StopOrder, Unbound, Slots
  <2>6. CASE Unlink(o)
    BY <1>0, <2>6, Zenon DEF Unlink, StopOrder, Unbound, Slots
  <2>7. CASE ReleaseLease(o)
    BY <1>0, <2>7, Zenon DEF ReleaseLease, Release, StopOrder, Unbound, Slots
  <2>8. CASE StageFails(o)
    <3>1. Calls(o, "stop") /\ EmitSlots'
      BY <1>0, <2>8, CallersEmit, Zenon
    <3>2. /\ \/ stop' = Set(stop, o, "unsubscribe") /\ em' = em
             \/ stop' = Set(stop, o, "report")
          /\ stop[o] \in {"transport", "unlink", "release"}
          /\ UNCHANGED <<listening, leaseHeld, transport, closed, epoch>>
      BY <2>8, Zenon DEF StageFails
    <3> QED
      BY <1>0, <3>1, <3>2 DEF StopOrder, Slots, Calls
  <2> QED
    BY <1>7, <2>1, <2>2, <2>3, <2>4, <2>5, <2>6, <2>7, <2>8, Zenon DEF StopStep
<1>8. ASSUME NEW o \in Owners, Crash(o) PROVE \A p \in Owners : StopOrder(p)'
  BY <1>0, <1>8, Zenon DEF Crash, Die, StopOrder, Unbound, Slots
<1>9. CASE GcReap \/ Tick
  <2>1. CASE GcReap
    BY <1>0, <2>1, Zenon DEF GcReap, Reap, StopOrder, Unbound, Slots
  <2>2. CASE Tick
    BY <1>0, <2>2, Zenon DEF Tick, Elapse, StopOrder, Unbound, Slots
  <2> QED
    BY <1>9, <2>1, <2>2, Zenon
<1>10. CASE UNCHANGED vars
  BY <1>0, <1>10, Zenon DEF vars, StopOrder, Unbound, Slots
<1> QED
  BY <1>0, <1>1, <1>2, <1>3, <1>4, <1>5, <1>6, <1>7, <1>8, <1>9, <1>10, EmitEnds, Zenon
  DEF Next, EmitStep, EmitGoesOn

(* The pump keeps its order. *)
LEMMA PumpOrderStep ==
  ASSUME OwnerInv, [Next]_vars
  PROVE  \A p \in Owners : PumpOrder(p)'
<1> USE DEF Set, leaseVars, startVars, stopVars, sockVars, pumpVars, reqVars, emitVars
<1>0. /\ start \in [Owners -> Unbound \cup {"hello", "started", "late", "failed"}]
      /\ stop \in [Owners -> {"no", "unsubscribe", "drain", "transport", "server", "unlink",
                              "release", "report", "done"}]
      /\ subscribed \in [Owners -> BOOLEAN] /\ drainTo \in [Owners -> Nat]
      /\ queued \in [Owners -> Nat] /\ pumped \in [Owners -> Nat]
      /\ job \in [Owners -> {"none", "flush", "frame"}] /\ EmitSlots
      /\ \A p \in Owners : PumpOrder(p)
      /\ \A p \in Owners : start[p] \in Unbound => stop[p] = "no"
      /\ \A p \in Owners : em[p]["start"] # Idle => start[p] = "hello"
  BY Zenon DEF OwnerInv, OwnerTypes, StartOrder
<1>1. ASSUME NEW o \in Owners, StartStep(o) PROVE \A p \in Owners : PumpOrder(p)'
  <2>1. CASE ReadCursor(o)
    BY <1>0, <2>1, ZenonT(30) DEF ReadCursor, PumpOrder, Unbound, Slots
  <2>2. CASE AcquireLease(o)
    BY <1>0, <2>2, ZenonT(30) DEF AcquireLease, Acquire, PumpOrder, Unbound, Slots
  <2>3. CASE LeaseRefused(o)
    BY <1>0, <2>3 DEF LeaseRefused, StartRejects, Stop, PumpOrder, Unbound, Slots
  <2>4. CASE StartFails(o)
    BY <1>0, <2>4, Zenon DEF StartFails, StartRejects, Stop, PumpOrder, Unbound, Slots
  <2>5. CASE Unbind(o)
    BY <1>0, <2>5, ZenonT(30) DEF Unbind, PumpOrder, Unbound, Slots
  <2>6. CASE Bind(o)
    <3>1. Calls(o, "start") /\ EmitSlots'
      BY <1>0, <2>6, CallersEmit, Zenon
    <3> QED
      BY <1>0, <2>6, <3>1 DEF Bind, PumpOrder, Unbound, Slots, Calls
  <2> QED
    BY <1>1, <2>1, <2>2, <2>3, <2>4, <2>5, <2>6, Zenon DEF StartStep
<1>2. ASSUME NEW o \in Owners, Beat(o) \/ BeatLands(o) \/ BeatFails(o)
      PROVE  \A p \in Owners : PumpOrder(p)'
  <2>1. CASE Beat(o)
    BY <1>0, <2>1, Zenon DEF Beat, PumpOrder, Unbound, Slots
  <2>2. CASE BeatLands(o)
    <3>1. /\ stop' = stop \/ Stop(o)
          /\ UNCHANGED <<start, subscribed, drainTo, queued, pumped, job, em>>
      BY <2>2, Zenon DEF BeatLands
    <3> QED
      BY <1>0, <3>1 DEF Stop, PumpOrder
  <2>3. CASE BeatFails(o)
    BY <1>0, <2>3, Zenon DEF BeatFails, PumpOrder, Unbound, Slots
  <2> QED
    BY <1>2, <2>1, <2>2, <2>3, Zenon
<1>3. ASSUME NEW o \in Owners, PumpStep(o) PROVE \A p \in Owners : PumpOrder(p)'
  <2>1. CASE Frame(o)
    <3>1. /\ subscribed[o] /\ queued' = Set(queued, o, queued[o] + 1)
          /\ UNCHANGED <<start, stop, subscribed, drainTo, pumped, job, em>>
      BY <2>1, Zenon DEF Frame
    <3> QED
      BY <1>0, <3>1 DEF PumpOrder
  <2>2. CASE Noise(o)
    BY <1>0, <2>2, Zenon DEF Noise, PumpOrder, Unbound, Slots
  <2>3. CASE Pump(o)
    <3>1. Calls(o, "pump") /\ UNCHANGED <<start, stop, subscribed, drainTo, queued>>
      BY <1>0, <2>3, CallersEmit, Zenon DEF Pump
    <3>2. job[o] = "none" /\ pumped[o] < queued[o]
      BY <2>3, Zenon DEF Pump
    <3>3. CASE pumped' = Set(pumped, o, pumped[o] + 1) /\ UNCHANGED <<job, em>>
      BY <1>0, <3>1, <3>2, <3>3 DEF PumpOrder
    <3>4. CASE pumped' = pumped /\ \E v \in {"flush", "frame"} : job' = Set(job, o, v)
      BY <1>0, <3>1, <3>2, <3>4, ZenonT(30) DEF PumpOrder, Calls, Slots
    <3> QED
      BY <2>3, <3>3, <3>4, Zenon DEF Pump
  <2> QED
    BY <1>3, <2>1, <2>2, <2>3, Zenon DEF PumpStep
<1>4. ASSUME NEW o \in Owners, RequestStep(o) PROVE \A p \in Owners : PumpOrder(p)'
  <2>1. ASSUME NEW verb \in Verbs, Request(o, verb) PROVE \A p \in Owners : PumpOrder(p)'
    <3>1. Calls(o, "handler") /\ EmitSlots'
      BY <1>0, <2>1, CallersEmit, Zenon
    <3> QED
      BY <1>0, <2>1, <3>1, ZenonT(30) DEF Request, PumpOrder, Unbound, Slots, Calls
  <2>2. CASE ClientGone(o)
    BY <1>0, <2>2, Zenon DEF ClientGone, PumpOrder, Unbound, Slots
  <2>3. CASE SubmitRefused(o)
    BY <1>0, <2>3, Zenon DEF SubmitRefused, Respond, PumpOrder, Unbound, Slots
  <2>4. CASE SubmitSettled(o)
    <3>1. Calls(o, "handler") /\ EmitSlots'
      BY <1>0, <2>4, CallersEmit, Zenon
    <3> QED
      BY <1>0, <2>4, <3>1, ZenonT(30) DEF SubmitSettled, PumpOrder, Unbound, Slots, Calls
  <2>5. CASE Observed(o)
    BY <1>0, <2>5, Zenon DEF Observed, Respond, PumpOrder, Unbound, Slots
  <2> QED
    BY <1>4, <2>1, <2>2, <2>3, <2>4, <2>5, Zenon DEF RequestStep
<1>5. ASSUME NEW o \in Owners, NEW s \in Slots, EmitGoesOn(o, s)
      PROVE  \A p \in Owners : PumpOrder(p)'
  <2>1. NoCall /\ EmitSlots'
    BY <1>0, <1>5, EmitsOn, Zenon
  <2>2. UNCHANGED <<leaseVars, startVars, stopVars, beating, sockVars, pumpVars, reqVars>>
    BY <1>5, Zenon DEF EmitGoesOn, EmitCheck, EmitStamp
  <2> QED
    BY <1>0, <2>1, <2>2, Zenon DEF PumpOrder, Unbound, Slots, NoCall
<1>6. ASSUME NEW o \in Owners, NEW ok \in BOOLEAN,
             StartEnds(o, ok) \/ PumpEnds(o, ok) \/ HandlerEnds(o, ok) \/ StopEnds(o)
      PROVE  \A p \in Owners : PumpOrder(p)'
  <2>1. CASE StartEnds(o, ok)
    <3>1. /\ NoCall /\ UNCHANGED <<drainTo, queued, pumped, job>>
          /\ start[o] = "hello"
      BY <1>0, <2>1, Zenon DEF StartEnds, StartGoesOn, AtEnd
    <3>2. CASE ok
      <4>1. /\ stop' = stop /\ subscribed' = Set(subscribed, o, TRUE)
            /\ start' = Set(start, o, IF stop[o] = "no" THEN "started" ELSE "late")
        BY <2>1, <3>2, Zenon DEF StartEnds, StartGoesOn
      <4> QED
        BY <1>0, <3>1, <4>1, ZenonT(30) DEF NoCall, PumpOrder, Slots
    <3>3. CASE ~ok
      <4>1. /\ Stop(o) /\ subscribed' = Set(subscribed, o, FALSE)
            /\ start' = Set(start, o, "failed")
        BY <2>1, <3>3, Zenon DEF StartEnds, StartGoesOn
      <4> QED
        BY <1>0, <3>1, <4>1, ZenonT(30) DEF NoCall, PumpOrder, Slots, Stop
    <3> QED
      BY <3>2, <3>3, Zenon
  <2>2. CASE PumpEnds(o, ok)
    <3>1. NoCall /\ pumped[o] < queued[o] /\ UNCHANGED <<start, stop, subscribed, drainTo, queued>>
      BY <1>0, <2>2, Zenon DEF PumpEnds, PumpGoesOn, AtEnd, PumpOrder
    <3>2. CASE ok /\ job[o] = "flush"
      <4>1. pumped' = pumped /\ job' = Set(job, o, "frame")
        BY <1>0, <2>2, <3>2, Zenon DEF PumpEnds, PumpGoesOn
      <4> QED
        BY <1>0, <3>1, <4>1, Zenon DEF NoCall, PumpOrder, Slots
    <3>3. CASE ~(ok /\ job[o] = "flush")
      <4>1. /\ pumped' = Set(pumped, o, pumped[o] + 1) /\ job' = Set(job, o, "none")
            /\ em'[o]["pump"] = Idle
        BY <2>2, <3>3, Zenon DEF PumpEnds, PumpGoesOn
      <4> QED
        BY <1>0, <3>1, <4>1 DEF NoCall, PumpOrder, Slots
    <3> QED
      BY <3>2, <3>3, Zenon
  <2>3. CASE HandlerEnds(o, ok)
    <3>1. /\ (stop' = stop \/ Stop(o)) /\ NoCall
          /\ UNCHANGED <<start, subscribed, drainTo, queued, pumped, job>>
      BY <2>3, Zenon DEF HandlerEnds, HandlerGoesOn, AtEnd
    <3> QED
      BY <1>0, <3>1 DEF Stop, NoCall, PumpOrder, Slots
  <2>4. CASE StopEnds(o)
    BY <1>0, <2>4, ZenonT(30) DEF StopEnds, StopGoesOn, AtEnd, PumpOrder, Unbound, Slots, NoCall
  <2> QED
    BY <1>6, <2>1, <2>2, <2>3, <2>4, Zenon
<1>7. ASSUME NEW o \in Owners, StopStep(o) PROVE \A p \in Owners : PumpOrder(p)'
  <2>1. CASE StopSignal(o)
    BY <1>0, <2>1, ZenonT(30) DEF StopSignal, Stop, PumpOrder, Unbound, Slots
  <2>2. CASE Unsubscribe(o)
    BY <1>0, <2>2, ZenonT(30) DEF Unsubscribe, PumpOrder, Unbound, Slots
  <2>3. CASE Drained(o)
    BY <1>0, <2>3 DEF Drained, PumpOrder, Unbound, Slots
  <2>4. CASE CloseTransport(o)
    BY <1>0, <2>4 DEF CloseTransport, PumpOrder, Unbound, Slots
  <2>5. CASE CloseServer(o)
    BY <1>0, <2>5 DEF CloseServer, PumpOrder, Unbound, Slots
  <2>6. CASE Unlink(o)
    BY <1>0, <2>6, ZenonT(30) DEF Unlink, PumpOrder, Unbound, Slots
  <2>7. CASE ReleaseLease(o)
    BY <1>0, <2>7 DEF ReleaseLease, Release, PumpOrder, Unbound, Slots
  <2>8. CASE StageFails(o)
    <3>1. Calls(o, "stop") /\ EmitSlots'
      BY <1>0, <2>8, CallersEmit, Zenon
    <3>2. /\ \/ stop' = Set(stop, o, "unsubscribe") /\ em' = em
             \/ stop' = Set(stop, o, "report")
          /\ stop[o] \in {"transport", "unlink", "release"}
          /\ UNCHANGED <<start, subscribed, drainTo, queued, pumped, job>>
      BY <2>8, Zenon DEF StageFails
    <3> QED
      BY <1>0, <3>1, <3>2 DEF PumpOrder, Slots, Calls
  <2> QED
    BY <1>7, <2>1, <2>2, <2>3, <2>4, <2>5, <2>6, <2>7, <2>8, Zenon DEF StopStep
<1>8. ASSUME NEW o \in Owners, Crash(o) PROVE \A p \in Owners : PumpOrder(p)'
  BY <1>0, <1>8, Zenon DEF Crash, Die, PumpOrder, Unbound, Slots
<1>9. CASE GcReap \/ Tick
  <2>1. CASE GcReap
    BY <1>0, <2>1, Zenon DEF GcReap, Reap, PumpOrder, Unbound, Slots
  <2>2. CASE Tick
    BY <1>0, <2>2, Zenon DEF Tick, Elapse, PumpOrder, Unbound, Slots
  <2> QED
    BY <1>9, <2>1, <2>2, Zenon
<1>10. CASE UNCHANGED vars
  BY <1>0, <1>10, Zenon DEF vars, PumpOrder, Unbound, Slots
<1> QED
  BY <1>0, <1>1, <1>2, <1>3, <1>4, <1>5, <1>6, <1>7, <1>8, <1>9, <1>10, EmitEnds, Zenon
  DEF Next, EmitStep, EmitGoesOn

(* What moves the lease: an owner's own start, heartbeat and release, its    *)
(* death, and a collector after it.                                          *)
LEMMA LeaseMoves ==
  ASSUME [Next]_vars
  PROVE  \/ \E o \in Owners : AcquireLease(o) \/ BeatLands(o) \/ ReleaseLease(o) \/ Crash(o)
         \/ GcReap
         \/ UNCHANGED <<lease, alive, leaseHeld, epoch>>
<1> USE DEF leaseVars, startVars, stopVars
<1>1. ASSUME NEW o \in Owners, StartStep(o), ~AcquireLease(o)
      PROVE  UNCHANGED <<lease, alive, leaseHeld, epoch>>
  BY <1>1, Zenon DEF StartStep, ReadCursor, LeaseRefused, StartFails, StartRejects, Unbind, Bind
<1>2. ASSUME NEW o \in Owners, Beat(o) \/ BeatFails(o) \/ PumpStep(o) \/ RequestStep(o)
      PROVE  UNCHANGED <<lease, alive, leaseHeld, epoch>>
  BY <1>2, Zenon DEF Beat, BeatFails, PumpStep, Frame, Noise, Pump, RequestStep, Request,
                     ClientGone, SubmitRefused, SubmitSettled, Observed
<1>3. ASSUME NEW o \in Owners, EmitStep(o)
      PROVE  UNCHANGED <<lease, alive, leaseHeld, epoch>>
  BY <1>3, Zenon DEF EmitStep, EmitCheck, EmitStamp, EmitDrop, EmitAppend, EmitFails, Finish
<1>4. ASSUME NEW o \in Owners, StopStep(o), ~ReleaseLease(o)
      PROVE  UNCHANGED <<lease, alive, leaseHeld, epoch>>
  BY <1>4, Zenon DEF StopStep, StopSignal, Unsubscribe, Drained, CloseTransport, CloseServer,
                     Unlink, StageFails
<1>5. Tick \/ UNCHANGED vars => UNCHANGED <<lease, alive, leaseHeld, epoch>>
  BY Zenon DEF Tick, Elapse, vars
<1> QED
  BY <1>1, <1>2, <1>3, <1>4, <1>5, Zenon DEF Next

(* A successful acquisition: the lease is the owner's, with its epoch. *)
LEMMA Acquired ==
  ASSUME OwnerInv, NEW o \in Owners, AcquireLease(o)
  PROVE  lease' # NoLease /\ lease'.owner = o /\ epoch' = Set(epoch, o, lease'.epoch)
<1>1. PICK e \in Ttl..now + Ttl :
        lease' = [owner     |-> o,
                  epoch     |-> IF lease = NoLease THEN 1
                                ELSE IF HeldBy(o) THEN lease.epoch
                                ELSE lease.epoch + 1,
                  expiresAt |-> e]
  BY Zenon DEF AcquireLease, Acquire
<1>2. lease # NoLease => lease.epoch \in Nat
  BY Zenon DEF OwnerInv, OwnerTypes, Lease
<1>3. lease' \in Lease
  BY <1>1, <1>2, LeaseAssumptions DEF Lease, OwnerInv, OwnerTypes
<1> QED
  BY <1>1, <1>2, <1>3, NoLeaseAssumption, Zenon DEF AcquireLease

(* A heartbeat changes nothing of the lease but its expiry. *)
LEMMA Beaten ==
  ASSUME OwnerInv, NEW o \in Owners, BeatLands(o)
  PROVE  /\ UNCHANGED <<alive, leaseHeld, epoch>>
         /\ lease' # NoLease <=> lease # NoLease
         /\ lease # NoLease => lease'.owner = lease.owner /\ lease'.epoch = lease.epoch
<1>1. UNCHANGED <<alive, leaseHeld, epoch>>
  BY Zenon DEF BeatLands, Heartbeat, leaseVars, startVars
<1>2. CASE HeldBy(o)
  <2>1. lease' \in Lease /\ lease'.owner = lease.owner /\ lease'.epoch = lease.epoch
    BY <1>2, LeaseAssumptions DEF BeatLands, Heartbeat, HeldBy, Lease, OwnerInv, OwnerTypes
  <2> QED
    BY <1>1, <1>2, <2>1, NoLeaseAssumption, Zenon DEF HeldBy
<1>3. CASE ~HeldBy(o)
  BY <1>1, <1>3, Zenon DEF BeatLands, leaseVars
<1> QED
  BY <1>2, <1>3, Zenon

(* Nobody takes a live owner's lease. *)
LEMMA HolderStep ==
  ASSUME OwnerInv, [Next]_vars
  PROVE  HolderKeepsLease'
<1> USE DEF OwnerInv, OwnerTypes, HolderKeepsLease, HeldBy, Set, leaseVars, startVars, stopVars
<1>1. ASSUME NEW o \in Owners, AcquireLease(o) PROVE HolderKeepsLease'
  <2>1. \A p \in Owners : p # o => ~(alive[p] /\ leaseHeld[p])
    BY <1>1, Zenon DEF AcquireLease, Acquire
  <2> QED
    BY <1>1, <2>1, Acquired, ZenonT(30) DEF AcquireLease, Acquire
<1>2. ASSUME NEW o \in Owners, BeatLands(o) PROVE HolderKeepsLease'
  BY <1>2, Beaten
<1>3. ASSUME NEW o \in Owners, ReleaseLease(o) PROVE HolderKeepsLease'
  BY <1>3, Zenon DEF ReleaseLease, Release
<1>4. ASSUME NEW o \in Owners, Crash(o) PROVE HolderKeepsLease'
  BY <1>4, Zenon DEF Crash, Die
<1>5. CASE GcReap
  BY <1>5, Zenon DEF GcReap, Reap
<1>6. CASE UNCHANGED <<lease, alive, leaseHeld, epoch>>
  BY <1>6, Zenon
<1> QED
  BY <1>1, <1>2, <1>3, <1>4, <1>5, <1>6, LeaseMoves, Zenon

(* What moves the socket: the owner that has the lease binds it; one that    *)
(* stops removes it after its server stopped listening; a collector removes  *)
(* it after the holder's death.                                              *)
LEMMA SocketStep ==
  ASSUME OwnerInv, [Next]_vars
  PROVE  SocketTrue'
<1> USE DEF SocketTrue, Set, leaseVars, sockVars
<1>0. /\ alive \in [Owners -> BOOLEAN] /\ listening \in [Owners -> BOOLEAN] /\ intruded \in BOOLEAN
      /\ SocketTrue /\ HolderKeepsLease
      /\ \A o \in Owners : StartOrder(o) /\ StopOrder(o)
  BY Zenon DEF OwnerInv, OwnerTypes
<1>1. ASSUME NEW p \in Owners, alive[p], listening[p]
      PROVE  leaseHeld[p] /\ HeldBy(p)
  BY <1>0, <1>1, Zenon DEF StopOrder, HolderKeepsLease
<1>2. ASSUME NEW o \in Owners, alive[o], leaseHeld[o], ~listening[o]
      PROVE  \A p \in Owners : ~(alive[p] /\ listening[p])
  BY <1>0, <1>1, <1>2, Zenon DEF HolderKeepsLease, HeldBy
<1>3. ASSUME NEW o \in Owners, Unbind(o) \/ Bind(o) PROVE SocketTrue'
  <2>1. alive[o] /\ leaseHeld[o] /\ ~listening[o]
    BY <1>0, <1>3, Zenon DEF Unbind, Bind, StartOrder, Unbound
  <2>2. \A p \in Owners : ~(alive[p] /\ listening[p])
    BY <1>2, <2>1, Zenon
  <2> QED
    BY <1>0, <1>3, <2>2, Zenon DEF Unbind, Bind
<1>4. ASSUME NEW o \in Owners, CloseServer(o) PROVE SocketTrue'
  BY <1>0, <1>4, Zenon DEF CloseServer
<1>5. ASSUME NEW o \in Owners, Unlink(o) PROVE SocketTrue'
  <2>1. CASE epoch[o] = 0
    BY <1>0, <1>5, <2>1, Zenon DEF Unlink
  <2>2. CASE epoch[o] # 0
    <3>1. alive[o] /\ leaseHeld[o] /\ ~listening[o]
      <4>1. StopOrder(o) /\ epoch[o] \in Nat
        BY Zenon DEF OwnerInv, OwnerTypes
      <4> QED
        BY <1>5, <2>2, <4>1 DEF Unlink, StopOrder
    <3>2. \A p \in Owners : ~(alive[p] /\ listening[p])
      BY <1>2, <3>1, Zenon
    <3> QED
      BY <1>0, <1>5, <3>2, Zenon DEF Unlink
  <2> QED
    BY <2>1, <2>2, Zenon
<1>6. ASSUME NEW o \in Owners, Crash(o) PROVE SocketTrue'
  BY <1>0, <1>6, Zenon DEF Crash, Die
<1>7. CASE GcReap
  <2>1. \A p \in Owners : ~(alive[p] /\ listening[p])
    BY <1>0, <1>1, <1>7, Zenon DEF GcReap, Reap, HeldBy
  <2> QED
    BY <1>0, <1>7, <2>1, Zenon DEF GcReap, Reap
<1>8. CASE UNCHANGED <<alive, sock, listening, intruded>>
  BY <1>0, <1>8, Zenon
<1>9. ASSUME NEW o \in Owners, StartStep(o), ~Unbind(o), ~Bind(o)
      PROVE  UNCHANGED <<alive, sock, listening, intruded>>
  BY <1>9, Zenon DEF StartStep, ReadCursor, LeaseRefused, StartFails, StartRejects, AcquireLease,
                     Acquire
<1>10. ASSUME NEW o \in Owners,
              Beat(o) \/ BeatLands(o) \/ BeatFails(o) \/ PumpStep(o) \/ RequestStep(o)
       PROVE  UNCHANGED <<alive, sock, listening, intruded>>
  BY <1>10, Zenon DEF Beat, BeatLands, Heartbeat, BeatFails, PumpStep, Frame, Noise, Pump,
                      RequestStep, Request, ClientGone, SubmitRefused, SubmitSettled, Observed
<1>11. ASSUME NEW o \in Owners, EmitStep(o)
       PROVE  UNCHANGED <<alive, sock, listening, intruded>>
  BY <1>11, Zenon DEF EmitStep, EmitCheck, EmitStamp, EmitDrop, EmitAppend, EmitFails, Finish
<1>12. ASSUME NEW o \in Owners, StopStep(o), ~CloseServer(o), ~Unlink(o)
       PROVE  UNCHANGED <<alive, sock, listening, intruded>>
  BY <1>12, Zenon DEF StopStep, StopSignal, Unsubscribe, Drained, CloseTransport, ReleaseLease,
                      Release, StageFails
<1>13. Tick \/ UNCHANGED vars => UNCHANGED <<alive, sock, listening, intruded>>
  BY Zenon DEF Tick, Elapse, vars
<1> QED
  BY <1>3, <1>4, <1>5, <1>6, <1>7, <1>8, <1>9, <1>10, <1>11, <1>12, <1>13, Zenon DEF Next

-----------------------------------------------------------------------------
(* The initial states: nobody has started. *)
LEMMA InitHolds == Init => OwnerInv
<1> SUFFICES ASSUME Init PROVE OwnerInv
  BY Zenon
<1> USE DEF Init, LeaseInit
<1>1. OwnerTypes
  BY Zenon DEF OwnerTypes, EmitSlots, Unbound, Slots
<1>2. ASSUME NEW o \in Owners PROVE StartOrder(o) /\ StopOrder(o) /\ PumpOrder(o)
  <2>1. \A s \in Slots : em[o][s] = Idle
    BY Zenon
  <2>2. StartOrder(o)
    BY <2>1, Zenon DEF StartOrder, Slots
  <2>3. StopOrder(o)
    BY <2>1 DEF StopOrder, Slots
  <2>4. PumpOrder(o)
    BY <2>1 DEF PumpOrder, Slots
  <2> QED
    BY <2>2, <2>3, <2>4, Zenon
<1>3. HolderKeepsLease /\ SocketTrue
  BY Zenon DEF HolderKeepsLease, SocketTrue
<1> QED
  BY <1>1, <1>2, <1>3, Zenon DEF OwnerInv

(* The inductive invariant of the owners of a session. *)
THEOREM OwnersInOrder == Spec => []OwnerInv
<1>1. OwnerInv /\ [Next]_vars => OwnerInv'
  <2> SUFFICES ASSUME OwnerInv, [Next]_vars PROVE OwnerInv'
    BY Zenon
  <2> QED
    BY TypesStep, StartOrderStep, StopOrderStep, PumpOrderStep, HolderStep, SocketStep, Zenon
    DEF OwnerInv
<1> QED
  BY InitHolds, <1>1, PTL DEF Spec

(* For any number of owners, frames, requests and faults: while #leaseHeld is  *)
(* set and the process lives, lease.json names this owner with its epoch.    *)
THEOREM LeaseIsKept == Spec => []HolderKeepsLease
<1>1. OwnerInv => HolderKeepsLease
  BY Zenon DEF OwnerInv
<1> QED
  BY <1>1, OwnersInOrder, PTL

(* A live owner that had the lease and has it no more has closed its         *)
(* transport and its server, and has dealt with every frame it accepted      *)
(* unless start() subscribed after stop() began: the order of #stopOnce is   *)
(* kept by every interleaving and every failing stage.                       *)
THEOREM HandoverIsClosed == Spec => []ClosedBeforeHandover
<1>1. OwnerInv => ClosedBeforeHandover
  <2> SUFFICES ASSUME OwnerInv, NEW o \in Owners, alive[o], epoch[o] > 0, ~HeldBy(o)
               PROVE  /\ ~transport[o] /\ ~listening[o]
                      /\ start[o] # "late" => pumped[o] = queued[o]
    BY Zenon DEF ClosedBeforeHandover
  <2>1. StopOrder(o) /\ PumpOrder(o) /\ ~leaseHeld[o]
    BY Zenon DEF OwnerInv, HolderKeepsLease
  <2>2. stop[o] = "done"
    BY <2>1, Zenon DEF StopOrder
  <2>3. ~transport[o] /\ ~listening[o]
    BY <2>1, <2>2, Zenon DEF StopOrder
  <2>4. start[o] # "late" => pumped[o] = queued[o]
    <3>1. pumped[o] \in Nat /\ queued[o] \in Nat /\ drainTo[o] \in Nat
      BY Zenon DEF OwnerInv, OwnerTypes
    <3> QED
      BY <2>1, <2>2, <3>1 DEF PumpOrder
  <2> QED
    BY <2>3, <2>4, Zenon
<1> QED
  BY <1>1, OwnersInOrder, PTL

(* A live owner that listens has the lease, and the socket path leads to it  *)
(* unless an owner that never had the lease has removed it: no Unlink or     *)
(* listen of a later owner takes the path from a living one.                 *)
THEOREM SocketLeadsToHolder == Spec => []SocketIsHolders
<1>1. OwnerInv => SocketIsHolders
  BY Zenon DEF OwnerInv, SocketIsHolders, SocketTrue, StopOrder, HolderKeepsLease
<1> QED
  BY <1>1, OwnersInOrder, PTL

-----------------------------------------------------------------------------
(* The events of an owner.                                                 *)

(* A handler whose client waits is served before the server is closed for good. *)
ClientsServed ==
  /\ connected \in [Owners -> BOOLEAN]
  /\ \A o \in Owners : connected[o] => ~closed[o] /\ stop[o] \notin {"release", "done"}

(* The lease carries the epoch its owner knows. *)
EpochTrue == lease # NoLease => lease.epoch > 0 /\ epoch[lease.owner] = lease.epoch

(* Only an owner that had the lease gets past the check of #emit. *)
CheckedOnce == \A o \in Owners, s \in Slots : em[o][s] \in {Idle, Called} \/ epoch[o] > 0

(* The invariant of the writers. *)
WriterInv == ClientsServed /\ EpochTrue /\ CheckedOnce

-----------------------------------------------------------------------------
(* What moves the slots of the emits. *)
LEMMA EmitMoves ==
  ASSUME OwnerInv, [Next]_vars, NEW p \in Owners, NEW r \in Slots
  PROVE  em'[p][r] = em[p][r] \/ em'[p][r] \in {Idle, Called} \/ EmitGoesOn(p, r)
<1> DEFINE Goal == em'[p][r] = em[p][r] \/ em'[p][r] \in {Idle, Called} \/ EmitGoesOn(p, r)
<1>1. EmitSlots
  BY Zenon DEF OwnerInv, OwnerTypes
<1>2. ASSUME NEW o \in Owners, NEW s \in Slots, Emit(o, s, Called) \/ Emit(o, s, Idle) PROVE Goal
  BY <1>1, <1>2, EmitSets
<1>3. CASE em' = em
  BY <1>3, Zenon
<1>4. ASSUME NEW o \in Owners, StartStep(o) PROVE Goal
  <2>1. em' = em \/ Emit(o, "start", Called)
    BY <1>4, Zenon DEF StartStep, ReadCursor, AcquireLease, LeaseRefused, StartFails,
                       StartRejects, Unbind, Bind, emitVars
  <2> QED
    BY <1>2, <1>3, <2>1, Zenon DEF Slots
<1>5. ASSUME NEW o \in Owners, Beat(o) \/ BeatLands(o) \/ BeatFails(o) \/ Crash(o) PROVE Goal
  BY <1>3, <1>5, Zenon DEF Beat, BeatLands, BeatFails, Crash, emitVars
<1>6. ASSUME NEW o \in Owners, PumpStep(o) PROVE Goal
  <2>1. em' = em \/ Emit(o, "pump", Called)
    BY <1>6, Zenon DEF PumpStep, Frame, Noise, Pump, emitVars
  <2> QED
    BY <1>2, <1>3, <2>1, Zenon DEF Slots
<1>7. ASSUME NEW o \in Owners, RequestStep(o) PROVE Goal
  <2>1. em' = em \/ Emit(o, "handler", Called)
    BY <1>7, Zenon DEF RequestStep, Request, ClientGone, SubmitRefused, SubmitSettled, Observed,
                       emitVars
  <2> QED
    BY <1>2, <1>3, <2>1, Zenon DEF Slots
<1>8. ASSUME NEW o \in Owners, NEW s \in Slots, EmitGoesOn(o, s) PROVE Goal
  <2>1. \E v : Emit(o, s, v)
    BY <1>8, Zenon DEF EmitGoesOn, EmitCheck, EmitStamp
  <2>2. (p = o /\ r = s) \/ em'[p][r] = em[p][r]
    BY <1>1, <2>1, EmitSets
  <2> QED
    BY <1>8, <2>2, Zenon
<1>9. ASSUME NEW o \in Owners, NEW s \in Slots,
             EmitDrop(o, s) \/ EmitAppend(o, s) \/ EmitFails(o, s)
      PROVE  Goal
  <2>1. Emit(o, s, Called) \/ Emit(o, s, Idle)
    BY <1>9, Zenon DEF EmitDrop, EmitAppend, EmitFails, Finish
  <2> QED
    BY <1>2, <2>1, Zenon
<1>10. ASSUME NEW o \in Owners, StopStep(o) PROVE Goal
  <2>1. em' = em \/ Emit(o, "stop", Called)
    BY <1>10, Zenon DEF StopStep, StopSignal, Unsubscribe, Drained, CloseTransport, CloseServer,
                        Unlink, ReleaseLease, StageFails, emitVars
  <2> QED
    BY <1>2, <1>3, <2>1, Zenon DEF Slots
<1>11. CASE GcReap \/ Tick \/ UNCHANGED vars
  BY <1>3, <1>11, Zenon DEF GcReap, Tick, vars, emitVars
<1> QED
  BY <1>4, <1>5, <1>6, <1>7, <1>8, <1>9, <1>10, <1>11, Zenon DEF Next, EmitStep, EmitGoesOn

(* The emit of one of o's activities ends. *)
Ends(o, ok) == StartEnds(o, ok) \/ PumpEnds(o, ok) \/ HandlerEnds(o, ok) \/ StopEnds(o)

(* An emit that is dropped, appended or fails ends for its activity. *)
LEMMA SomeEnd ==
  ASSUME OwnerInv, NEW o \in Owners, NEW s \in Slots,
         EmitDrop(o, s) \/ EmitAppend(o, s) \/ EmitFails(o, s)
  PROVE  \E ok \in BOOLEAN : Ends(o, ok)
<1>1. EmitSlots
  BY Zenon DEF OwnerInv, OwnerTypes
<1> QED
  BY <1>1, EmitEnds, Zenon DEF Ends

(* The lease keeps the epoch of its owner. *)
LEMMA EpochStep ==
  ASSUME OwnerInv, EpochTrue, [Next]_vars
  PROVE  EpochTrue'
<1>1. /\ lease \in Lease \cup {NoLease} /\ epoch \in [Owners -> Nat]
      /\ lease # NoLease => lease.owner \in Owners /\ lease.epoch \in Nat
  BY Zenon DEF OwnerInv, OwnerTypes, Lease
<1>2. ASSUME NEW o \in Owners, AcquireLease(o) PROVE EpochTrue'
  <2>1. lease'.epoch > 0
    BY <1>1, <1>2 DEF AcquireLease, Acquire, EpochTrue
  <2> QED
    BY <1>1, <1>2, <2>1, Acquired, Zenon DEF EpochTrue, Set
<1>3. ASSUME NEW o \in Owners, BeatLands(o) PROVE EpochTrue'
  BY <1>3, Beaten, Zenon DEF EpochTrue
<1>4. ASSUME NEW o \in Owners, ReleaseLease(o) PROVE EpochTrue'
  BY <1>4, Zenon DEF ReleaseLease, Release, EpochTrue, startVars, leaseVars
<1>5. ASSUME NEW o \in Owners, Crash(o) PROVE EpochTrue'
  BY <1>5, Zenon DEF Crash, Die, EpochTrue, startVars
<1>6. CASE GcReap
  BY <1>6, Zenon DEF GcReap, Reap, EpochTrue
<1>7. CASE UNCHANGED <<lease, alive, leaseHeld, epoch>>
  BY <1>7, Zenon DEF EpochTrue
<1> QED
  BY <1>2, <1>3, <1>4, <1>5, <1>6, <1>7, LeaseMoves, Zenon

(* An epoch never goes back to 0. *)
LEMMA EpochStays ==
  ASSUME OwnerInv, EpochTrue, [Next]_vars, NEW p \in Owners, epoch[p] > 0
  PROVE  epoch'[p] > 0
<1>1. epoch \in [Owners -> Nat] /\ EpochTrue'
  BY EpochStep, Zenon DEF OwnerInv, OwnerTypes
<1>2. ASSUME NEW o \in Owners, AcquireLease(o) PROVE epoch'[p] > 0
  BY <1>1, <1>2, Acquired, Zenon DEF EpochTrue, Set
<1>3. ASSUME NEW o \in Owners, BeatLands(o) \/ ReleaseLease(o) \/ Crash(o) PROVE epoch' = epoch
  BY <1>3, Zenon DEF BeatLands, ReleaseLease, Crash, startVars
<1>4. CASE GcReap
  BY <1>4, Zenon DEF GcReap, startVars
<1> QED
  BY <1>2, <1>3, <1>4, LeaseMoves, Zenon

(* The check of #emit passes only with the lease. *)
LEMMA CheckStep ==
  ASSUME OwnerInv, EpochTrue, CheckedOnce, [Next]_vars
  PROVE  CheckedOnce'
<1> SUFFICES ASSUME NEW p \in Owners, NEW r \in Slots
             PROVE  em'[p][r] \in {Idle, Called} \/ epoch'[p] > 0
  BY Zenon DEF CheckedOnce
<1>1. CASE em'[p][r] = em[p][r]
  BY <1>1, EpochStays, Zenon DEF CheckedOnce
<1>2. CASE EmitCheck(p, r)
  <2>1. epoch[p] > 0
    BY <1>2, Zenon DEF EmitCheck, CanWriteEvents, HeldBy, EpochTrue
  <2> QED
    BY <2>1, EpochStays, Zenon
<1>3. CASE EmitStamp(p, r)
  <2>1. epoch[p] > 0
    BY <1>3 DEF EmitStamp, CheckedOnce, Checked, Idle, Called
  <2> QED
    BY <2>1, EpochStays, Zenon
<1> QED
  BY <1>1, <1>2, <1>3, EmitMoves, Zenon DEF EmitGoesOn

(* The step leaves closed alone, gives no client to o and takes stop() of o  *)
(* to no stage past the server.                                              *)
Serving(o) ==
  /\ closed' = closed
  /\ connected' = connected \/ connected' = Set(connected, o, FALSE)
  /\ \/ stop' = stop
     \/ Stop(o)
     \/ \E v \in {"unsubscribe", "drain", "server", "unlink", "report"} : stop' = Set(stop, o, v)

(* stop() closes its server for good only when no client waits. *)
LEMMA ClientsStep ==
  ASSUME OwnerInv, ClientsServed, [Next]_vars
  PROVE  ClientsServed'
<1> USE DEF ClientsServed, Set
<1>1. /\ closed \in [Owners -> BOOLEAN]
      /\ stop \in [Owners -> {"no", "unsubscribe", "drain", "transport", "server", "unlink",
                              "release", "report", "done"}]
      /\ \A o \in Owners : listening[o] => ~closed[o] /\ stop[o] \notin {"release", "done"}
  BY Zenon DEF OwnerInv, OwnerTypes, StopOrder
<1>2. ASSUME NEW o \in Owners, NEW verb \in Verbs, Request(o, verb) PROVE ClientsServed'
  BY <1>1, <1>2, Zenon DEF Request, stopVars
<1>3. ASSUME NEW o \in Owners, Drained(o) PROVE ClientsServed'
  BY <1>1, <1>3, Zenon DEF Drained, reqVars
<1>4. ASSUME NEW o \in Owners, Unlink(o) PROVE ClientsServed'
  BY <1>1, <1>4, Zenon DEF Unlink, reqVars
<1>5. ASSUME NEW o \in Owners, ReleaseLease(o) PROVE ClientsServed'
  BY <1>1, <1>5, Zenon DEF ReleaseLease, reqVars
<1>6. ASSUME NEW o \in Owners, Serving(o) PROVE ClientsServed'
  <2>1. connected' \in [Owners -> BOOLEAN] /\ \A p \in Owners : connected'[p] => connected[p]
    BY <1>6, Zenon DEF Serving
  <2>2. \A p \in Owners : stop[p] \notin {"release", "done"} => stop'[p] \notin {"release", "done"}
    BY <1>1, <1>6, Zenon DEF Serving, Stop
  <2> QED
    BY <1>6, <2>1, <2>2, Zenon DEF Serving
<1>7. ASSUME NEW o \in Owners, StartStep(o) PROVE Serving(o)
  BY <1>7, Zenon DEF StartStep, ReadCursor, AcquireLease, LeaseRefused, StartFails, StartRejects,
                     Unbind, Bind, Serving, stopVars, reqVars
<1>8. ASSUME NEW o \in Owners, Beat(o) \/ BeatLands(o) \/ BeatFails(o) \/ PumpStep(o) \/ Crash(o)
      PROVE  Serving(o)
  BY <1>8, Zenon DEF Beat, BeatLands, BeatFails, PumpStep, Frame, Noise, Pump, Crash, Serving,
                     stopVars, reqVars
<1>9. ASSUME NEW o \in Owners, ClientGone(o) \/ SubmitRefused(o) \/ SubmitSettled(o) \/ Observed(o)
      PROVE  Serving(o)
  BY <1>9, Zenon DEF ClientGone, SubmitRefused, SubmitSettled, Observed, Respond, Serving,
                     stopVars, reqVars
<1>10. ASSUME NEW o \in Owners, NEW s \in Slots, EmitGoesOn(o, s) PROVE Serving(o)
  BY <1>10, Zenon DEF EmitGoesOn, EmitCheck, EmitStamp, Serving, stopVars, reqVars
<1>11. ASSUME NEW o \in Owners, NEW ok \in BOOLEAN, Ends(o, ok)
       PROVE  Serving(o)
  BY <1>11, Zenon DEF Ends, StartEnds, PumpEnds, HandlerEnds, StopEnds, AtEnd, StartGoesOn,
                      PumpGoesOn, HandlerGoesOn, StopGoesOn, Serving
<1>12. ASSUME NEW o \in Owners, StopStep(o), ~Drained(o), ~Unlink(o), ~ReleaseLease(o)
       PROVE  Serving(o)
  BY <1>12, Zenon DEF StopStep, StopSignal, Unsubscribe, CloseTransport, CloseServer, StageFails,
                      Serving, reqVars
<1>13. CASE GcReap \/ Tick \/ UNCHANGED vars
  BY <1>13, Zenon DEF GcReap, Tick, vars, stopVars, reqVars
<1> QED
  BY <1>2, <1>3, <1>4, <1>5, <1>6, <1>7, <1>8, <1>9, <1>10, <1>11, <1>12, <1>13, SomeEnd, Zenon
  DEF Next, RequestStep, EmitStep, EmitGoesOn

(* The invariant of the writers, on top of the order of the owners. *)
THEOREM WritersInOrder == Spec => []WriterInv
<1>1. Init => WriterInv
  BY DEF Init, LeaseInit, WriterInv, ClientsServed, EpochTrue, CheckedOnce
<1>2. OwnerInv /\ WriterInv /\ [Next]_vars => WriterInv'
  BY ClientsStep, EpochStep, CheckStep, Zenon DEF WriterInv
<1> QED
  BY <1>1, <1>2, OwnersInOrder, PTL DEF Spec

(* Every event is appended by the holder of the lease, whatever happened     *)
(* between the check of #emit and its append, except by an activity that     *)
(* stop() does not wait for: the pump is drained, connected handlers and the *)
(* failure reports end before releaseLease.                                  *)
THEOREM EventsAreTheHolders == Spec => WriterHolds
<1>1. ASSUME OwnerInv, WriterInv, NEW o \in Owners, NEW s \in Slots,
             EmitAppend(o, s), ~Unawaited(o, s)
      PROVE  HeldBy(o)
  <2>1. StopOrder(o) /\ PumpOrder(o) /\ OwnerTypes /\ HolderKeepsLease
    BY <1>1, Zenon DEF OwnerInv
  <2>2. alive[o] /\ em[o][s] > 0
    BY <1>1, Zenon DEF EmitAppend, Checked
  <2>3. em[o][s] # Idle /\ em[o][s] # Called
    BY <2>2 DEF Idle, Called
  <2>4. epoch[o] > 0
    BY <1>1, <2>3, Zenon DEF WriterInv, CheckedOnce
  <2>5. stop[o] # "done"
    <3>1. CASE s = "start"
      BY <1>1, <3>1, Zenon DEF Unawaited
    <3>2. CASE s = "stop"
      BY <2>1, <2>3, <3>2, Zenon DEF StopOrder
    <3>3. CASE s = "pump"
      BY <1>1, <2>1, <2>3, <3>3 DEF PumpOrder, Unawaited, OwnerTypes
    <3>4. CASE s = "handler"
      BY <1>1, <3>4, Zenon DEF WriterInv, ClientsServed, Unawaited
    <3> QED
      BY <3>1, <3>2, <3>3, <3>4, Zenon DEF Slots
  <2>6. leaseHeld[o]
    BY <2>1, <2>4, <2>5, Zenon DEF StopOrder
  <2> QED
    BY <2>1, <2>2, <2>6, Zenon DEF HolderKeepsLease
<1>2. OwnerInv /\ WriterInv =>
        [\A o \in Owners, s \in Slots : EmitAppend(o, s) /\ ~Unawaited(o, s) => HeldBy(o)]_vars
  BY <1>1, Zenon
<1> QED
  BY <1>2, OwnersInOrder, WritersInOrder, PTL DEF WriterHolds

-----------------------------------------------------------------------------
(* An envelope in events.jsonl, its cursor positive. *)
Event == [by : Owners, epoch : Nat, cursor : Nat \ {0}, frame : Nat]

(* The types of cursors, stamps and log. *)
CursorTypes ==
  /\ cursor \in [Owners -> Nat]
  /\ \A o \in Owners, s \in Slots : em[o][s] \in Int
  /\ log \in Seq(Event)

(* Some event has the greatest cursor, which is what start() reads. *)
LogHasMax ==
  log # <<>> => \E i \in DOMAIN log : \A j \in DOMAIN log : log[j].cursor <= log[i].cursor

(* An owner that has not read its cursor has accepted no frame. *)
NoFramesYet == \A o \in Owners : start[o] = "cursor" => ~subscribed[o] /\ queued[o] = 0

(* What is stamped is not above the cursor, and differs between activities. *)
StampsDiffer ==
  \A o \in Owners :
    /\ \A s \in Slots : em[o][s] <= cursor[o]
    /\ \A s, r \in Slots : s # r /\ em[o][s] > 0 => em[o][s] # em[o][r]

(* What is logged is not above its writer's cursor and is stamped on no      *)
(* envelope that is still to be appended.                                    *)
LoggedBefore ==
  \A i \in DOMAIN log :
    /\ start[log[i].by] # "cursor"
    /\ log[i].cursor <= cursor[log[i].by]
    /\ \A s \in Slots : em[log[i].by][s] # log[i].cursor

(* The invariant of the cursors. *)
CursorInv ==
  CursorTypes /\ LogHasMax /\ NoFramesYet /\ StampsDiffer /\ LoggedBefore /\ CursorsDistinct

(* What moves the cursors and the log; start() reads its cursor once. *)
LEMMA CursorMoves ==
  ASSUME OwnerInv, [Next]_vars
  PROVE  /\ \/ \E o \in Owners : ReadCursor(o)
            \/ \E o \in Owners, s \in Slots : EmitStamp(o, s) \/ EmitAppend(o, s)
            \/ UNCHANGED <<cursor, log>>
         /\ \A p \in Owners : start'[p] = "cursor" => start[p] = "cursor" /\ ~ReadCursor(p)
<1> DEFINE Same == UNCHANGED <<cursor, log>>
           Once == \A p \in Owners : start'[p] = "cursor" => start[p] = "cursor" /\ ~ReadCursor(p)
<1>0. start \in [Owners -> Unbound \cup {"hello", "started", "late", "failed"}]
  BY Zenon DEF OwnerInv, OwnerTypes
<1>1. ASSUME start' = start, \A p \in Owners : ~ReadCursor(p) PROVE Once
  BY <1>1, Zenon
<1>2. ASSUME NEW o \in Owners, NEW v, start' = Set(start, o, v), v # "cursor" PROVE Once
  BY <1>0, <1>2, Zenon DEF Set, ReadCursor
<1>3. ASSUME NEW o \in Owners, StartStep(o) PROVE (ReadCursor(o) \/ Same) /\ Once
  <2>1. ReadCursor(o) \/ Same
    BY <1>3, Zenon DEF StartStep, AcquireLease, LeaseRefused, StartFails, StartRejects, Unbind,
                       Bind, emitVars
  <2>2. \E v \in {"acquire", "unbind", "failed", "bind", "hello"} : start' = Set(start, o, v)
    BY <1>3, Zenon DEF StartStep, ReadCursor, AcquireLease, LeaseRefused, StartFails,
                       StartRejects, Unbind, Bind
  <2> QED
    BY <1>2, <2>1, <2>2, Zenon
<1>4. ASSUME NEW p \in Owners, ReadCursor(p), start' = start PROVE FALSE
  BY <1>0, <1>4, Zenon DEF ReadCursor, Set
<1>5. ASSUME NEW o \in Owners,
             \/ Beat(o) \/ BeatLands(o) \/ BeatFails(o) \/ Crash(o)
             \/ PumpStep(o) \/ RequestStep(o) \/ StopStep(o)
      PROVE  Same /\ start' = start
  <2>1. CASE Beat(o) \/ BeatLands(o) \/ BeatFails(o) \/ PumpStep(o) \/ Crash(o)
    BY <2>1, Zenon DEF Beat, BeatLands, BeatFails, PumpStep, Frame, Noise, Pump, Crash, emitVars,
                       startVars
  <2>2. CASE RequestStep(o)
    BY <2>2, Zenon DEF RequestStep, Request, ClientGone, SubmitRefused, SubmitSettled, Observed,
                       emitVars, startVars
  <2>3. CASE StopStep(o)
    BY <2>3, Zenon DEF StopStep, StopSignal, Unsubscribe, Drained, CloseTransport, CloseServer,
                       Unlink, ReleaseLease, StageFails, emitVars, startVars
  <2> QED
    BY <1>5, <2>1, <2>2, <2>3, Zenon
<1>6. ASSUME NEW o \in Owners, NEW s \in Slots, EmitGoesOn(o, s)
      PROVE  (EmitStamp(o, s) \/ Same) /\ start' = start
  BY <1>6, Zenon DEF EmitGoesOn, EmitCheck, EmitStamp, startVars
<1>7. ASSUME NEW o \in Owners, NEW ok \in BOOLEAN, Ends(o, ok)
      PROVE  Once
  <2>1. start' = start \/ \E v \in {"failed", "started", "late"} : start' = Set(start, o, v)
    BY <1>7, Zenon DEF Ends, StartEnds, PumpEnds, HandlerEnds, StopEnds, StartGoesOn, PumpGoesOn,
                HandlerGoesOn, StopGoesOn
  <2> QED
    BY <1>1, <1>2, <1>4, <2>1, Zenon
<1>8. ASSUME NEW o \in Owners, NEW s \in Slots, EmitDrop(o, s) \/ EmitFails(o, s) PROVE Same
  BY <1>8, Zenon DEF EmitDrop, EmitFails
<1>9. GcReap \/ Tick \/ UNCHANGED vars => Same /\ start' = start
  BY Zenon DEF GcReap, Tick, vars, emitVars, startVars
<1> QED
  <2>1. CASE \E o \in Owners, s \in Slots : EmitDrop(o, s) \/ EmitAppend(o, s) \/ EmitFails(o, s)
    BY <1>7, <1>8, <2>1, SomeEnd, Zenon
  <2>2. CASE \E o \in Owners : StartStep(o)
    BY <1>3, <2>2, Zenon
  <2>3. CASE ~\E o \in Owners :
                  \/ StartStep(o)
                  \/ \E s \in Slots : EmitDrop(o, s) \/ EmitAppend(o, s) \/ EmitFails(o, s)
    BY <1>1, <1>4, <1>5, <1>6, <1>9, <2>3, Zenon DEF Next, EmitStep, EmitGoesOn
  <2> QED
    BY <2>1, <2>2, <2>3, Zenon

(* Frames are accepted only after start() has subscribed. *)
LEMMA NoFramesStep ==
  ASSUME OwnerInv, NoFramesYet, [Next]_vars
  PROVE  NoFramesYet'
<1> SUFFICES ASSUME NEW p \in Owners, start'[p] = "cursor"
             PROVE  ~subscribed'[p] /\ queued'[p] = 0
  BY Zenon DEF NoFramesYet
<1>1. start[p] = "cursor" /\ ~subscribed[p] /\ queued[p] = 0
  BY CursorMoves, Zenon DEF NoFramesYet
<1>2. subscribed \in [Owners -> BOOLEAN] /\ queued \in [Owners -> Nat] /\ EmitSlots
  BY Zenon DEF OwnerInv, OwnerTypes
<1>3. CASE UNCHANGED <<subscribed, queued>>
  BY <1>1, <1>3, Zenon
<1>4. ASSUME NEW o \in Owners, PumpStep(o) PROVE ~subscribed'[p] /\ queued'[p] = 0
  BY <1>1, <1>2, <1>4, Zenon DEF PumpStep, Frame, Noise, Pump, Set, pumpVars
<1>5. ASSUME NEW o \in Owners, Unsubscribe(o) PROVE ~subscribed'[p] /\ queued'[p] = 0
  BY <1>1, <1>2, <1>5, Zenon DEF Unsubscribe, Set
<1>6. ASSUME NEW o \in Owners, NEW ok \in BOOLEAN, Ends(o, ok)
      PROVE  ~subscribed'[p] /\ queued'[p] = 0
  <2>1. queued' = queued
    BY <1>6, Zenon DEF Ends, StartEnds, PumpEnds, HandlerEnds, StopEnds, AtEnd
  <2>2. CASE StartEnds(o, ok)
    <3>1. start[o] = "hello"
      BY <2>2, Zenon DEF OwnerInv, StartOrder, StartEnds, AtEnd
    <3>2. subscribed' = Set(subscribed, o, ok)
      BY <2>2, Zenon DEF StartEnds, StartGoesOn
    <3> QED
      BY <1>1, <1>2, <2>1, <3>1, <3>2, Zenon DEF Set
  <2>3. CASE ~StartEnds(o, ok)
    <3>1. subscribed' = subscribed
      BY <1>6, <2>3, Zenon DEF Ends, PumpEnds, HandlerEnds, StopEnds, PumpGoesOn, HandlerGoesOn,
                               StopGoesOn
    <3> QED
      BY <1>3, <2>1, <3>1, Zenon
  <2> QED
    BY <2>2, <2>3, Zenon
<1>7. ASSUME NEW o \in Owners, StartStep(o) \/ Beat(o) \/ BeatLands(o) \/ BeatFails(o) \/ Crash(o)
      PROVE  UNCHANGED <<subscribed, queued>>
  BY <1>7, Zenon DEF StartStep, ReadCursor, AcquireLease, LeaseRefused, StartFails, StartRejects,
                     Unbind, Bind, Beat, BeatLands, BeatFails, Crash, pumpVars
<1>8. ASSUME NEW o \in Owners, RequestStep(o) PROVE UNCHANGED <<subscribed, queued>>
  BY <1>8, Zenon DEF RequestStep, Request, ClientGone, SubmitRefused, SubmitSettled, Observed,
                     pumpVars
<1>9. ASSUME NEW o \in Owners, NEW s \in Slots, EmitGoesOn(o, s)
      PROVE  UNCHANGED <<subscribed, queued>>
  BY <1>9, Zenon DEF EmitGoesOn, EmitCheck, EmitStamp, pumpVars
<1>10. ASSUME NEW o \in Owners, StopStep(o), ~Unsubscribe(o) PROVE UNCHANGED <<subscribed, queued>>
  BY <1>10, Zenon DEF StopStep, StopSignal, Drained, CloseTransport, CloseServer, Unlink,
                      ReleaseLease, StageFails, pumpVars
<1>11. GcReap \/ Tick \/ UNCHANGED vars => UNCHANGED <<subscribed, queued>>
  BY Zenon DEF GcReap, Tick, vars, pumpVars
<1> QED
  BY <1>3, <1>4, <1>5, <1>6, <1>7, <1>8, <1>9, <1>10, <1>11, SomeEnd, Zenon
  DEF Next, EmitStep, EmitGoesOn

(* An owner that has not read its cursor is emitting nothing. *)
LEMMA NothingYet ==
  ASSUME OwnerInv, NoFramesYet, NEW o \in Owners, start[o] = "cursor", NEW s \in Slots
  PROVE  em[o][s] = Idle
<1>1. StartOrder(o) /\ StopOrder(o) /\ PumpOrder(o) /\ pumped \in [Owners -> Nat]
  BY Zenon DEF OwnerInv, OwnerTypes
<1>2. stop[o] = "no" /\ em[o]["handler"] = Idle /\ em[o]["start"] = Idle
  BY <1>1, Zenon DEF StartOrder, Unbound
<1>3. em[o]["stop"] = Idle
  BY <1>1, <1>2, Zenon DEF StopOrder
<1>4. em[o]["pump"] = Idle
  BY <1>1 DEF PumpOrder, NoFramesYet
<1> QED
  BY <1>2, <1>3, <1>4, Zenon DEF Slots

(* The fields of an event in the log. *)
LEMMA EventTypes ==
  ASSUME CursorTypes, NEW i \in DOMAIN log
  PROVE  log[i].by \in Owners /\ log[i].cursor \in Nat /\ log[i].cursor > 0
<1>1. log[i] \in Event
  BY DEF CursorTypes
<1>2. log[i].by \in Owners /\ log[i].cursor \in Nat \ {0}
  BY <1>1, Zenon DEF Event
<1> QED
  BY <1>2

(* readEvents finds a greatest cursor. *)
LEMMA MaxCursorIsNat ==
  ASSUME CursorTypes, LogHasMax
  PROVE  MaxCursor \in Nat
<1>1. CASE log = <<>>
  BY <1>1, Zenon DEF MaxCursor
<1>2. CASE log # <<>>
  <2>1. PICK i \in DOMAIN log : \A j \in DOMAIN log : log[j].cursor <= log[i].cursor
    BY <1>2, Zenon DEF LogHasMax
  <2>2. \A j \in DOMAIN log : log[j].cursor \in Nat
    BY EventTypes, Zenon
  <2>3. \E n \in {log[j].cursor : j \in DOMAIN log} : \A j \in DOMAIN log : log[j].cursor <= n
    BY <2>1, Zenon
  <2>4. MaxCursor \in {log[j].cursor : j \in DOMAIN log}
    BY <1>2, <2>3, Zenon DEF MaxCursor
  <2> QED
    BY <2>2, <2>4, Zenon
<1> QED
  BY <1>1, <1>2, Zenon

(* An owner stamps its next cursor. *)
LEMMA StampStep ==
  ASSUME OwnerInv, CursorInv, [Next]_vars, NEW o \in Owners, NEW s \in Slots, EmitStamp(o, s)
  PROVE  CursorInv'
<1>1. NoFramesYet'
  BY NoFramesStep, Zenon DEF CursorInv
<1>2. /\ cursor' = Set(cursor, o, cursor[o] + 1) /\ UNCHANGED <<log, start>>
      /\ \A p \in Owners, r \in Slots :
           em'[p][r] = IF p = o /\ r = s THEN cursor[o] + 1 ELSE em[p][r]
  BY EmitSets DEF EmitStamp, startVars, OwnerInv, OwnerTypes
<1>3. CursorTypes /\ LogHasMax /\ StampsDiffer /\ LoggedBefore /\ CursorsDistinct
  BY Zenon DEF CursorInv
<1>4. \A i \in DOMAIN log : log[i].by \in Owners /\ log[i].cursor \in Nat /\ log[i].cursor > 0
  BY <1>3, EventTypes, Zenon
<1>5. CursorTypes'
  BY <1>2, <1>3 DEF CursorTypes, Set
<1>6. StampsDiffer'
  BY <1>2, <1>3 DEF CursorTypes, StampsDiffer, Set
<1>7. LoggedBefore'
  <2>1. \A p \in Owners : /\ cursor[p] \in Nat
                          /\ cursor'[p] = IF p = o THEN cursor[p] + 1 ELSE cursor[p]
    BY <1>2, <1>3, Zenon DEF CursorTypes, Set
  <2> SUFFICES ASSUME NEW i \in DOMAIN log
               PROVE  /\ log[i].cursor <= cursor'[log[i].by]
                      /\ \A r \in Slots : em'[log[i].by][r] # log[i].cursor
    BY <1>2, <1>3, Zenon DEF LoggedBefore
  <2>2. log[i].cursor <= cursor[log[i].by] /\ \A r \in Slots : em[log[i].by][r] # log[i].cursor
    BY <1>3, Zenon DEF LoggedBefore
  <2> QED
    BY <1>2, <1>4, <2>1, <2>2
<1>8. LogHasMax' /\ CursorsDistinct'
  BY <1>2, <1>3 DEF LogHasMax, CursorsDistinct
<1> QED
  BY <1>1, <1>5, <1>6, <1>7, <1>8, Zenon DEF CursorInv

(* An owner appends what it stamped. *)
LEMMA AppendStep ==
  ASSUME OwnerInv, CursorInv, [Next]_vars, NEW o \in Owners, NEW s \in Slots, EmitAppend(o, s)
  PROVE  CursorInv'
<1> DEFINE e == Envelope(o, s)
           n == Len(log)
<1>1. NoFramesYet'
  BY NoFramesStep, Zenon DEF CursorInv
<1>2. CursorTypes /\ LogHasMax /\ StampsDiffer /\ LoggedBefore /\ CursorsDistinct /\ NoFramesYet
  BY Zenon DEF CursorInv
<1>3. em[o][s] \in Nat /\ em[o][s] > 0
  BY <1>2 DEF CursorTypes, EmitAppend, Checked
<1>4. e \in Event /\ e.by = o /\ e.cursor = em[o][s]
  BY <1>3 DEF Envelope, Event, OwnerInv, OwnerTypes
<1>5. log' = Append(log, e) /\ cursor' = cursor
  BY Zenon DEF EmitAppend
<1>6. n \in Nat /\ DOMAIN log = 1..n /\ DOMAIN log' = 1..n + 1
      /\ log'[n + 1] = e /\ \A i \in 1..n : log'[i] = log[i]
  BY <1>2, <1>4, <1>5 DEF CursorTypes
<1>7. /\ em'[o][s] \in {Idle, Called}
      /\ \A p \in Owners, r \in Slots : p # o \/ r # s => em'[p][r] = em[p][r]
  <2>1. Emit(o, s, Called) \/ Emit(o, s, Idle)
    BY Zenon DEF EmitAppend, Finish
  <2> QED
    BY <2>1, EmitSets DEF OwnerInv, OwnerTypes
<1>8. start[o] # "cursor"
  BY <1>2, <1>3, NothingYet DEF Idle
<1>9. \A i \in 1..n : log[i].by \in Owners /\ log[i].cursor \in Nat /\ log[i].cursor > 0
  BY <1>2, <1>6, EventTypes, Zenon
<1>10. CursorTypes'
  <2>1. log' \in Seq(Event)
    <3>1. log \in Seq(Event)
      BY <1>2, Zenon DEF CursorTypes
    <3> QED
      BY <1>4, <1>5, <3>1
  <2>2. Idle \in Int /\ Called \in Int
    BY DEF Idle, Called
  <2>3. \A p \in Owners, r \in Slots : em'[p][r] \in Int
    BY <1>2, <1>7, <2>2, Zenon DEF CursorTypes
  <2> QED
    BY <1>2, <1>5, <2>1, <2>3, Zenon DEF CursorTypes
<1>11. LogHasMax'
  <2>1. CASE n = 0
    BY <1>4, <1>3, <1>6, <2>1 DEF LogHasMax
  <2>2. CASE n # 0
    <3>1. PICK i \in 1..n : \A j \in 1..n : log[j].cursor <= log[i].cursor
      BY <1>2, <1>6, <2>2 DEF LogHasMax
    <3>2. CASE e.cursor <= log[i].cursor
      <4>1. i \in 1..n + 1 /\ \A j \in 1..n + 1 : log'[j].cursor <= log'[i].cursor
        BY <1>6, <3>1, <3>2
      <4> QED
        BY <1>6, <4>1, Zenon DEF LogHasMax
    <3>3. CASE e.cursor > log[i].cursor
      <4>1. n + 1 \in 1..n + 1 /\ \A j \in 1..n + 1 : log'[j].cursor <= log'[n + 1].cursor
        <5>1. \A j \in 1..n : log[j].cursor <= e.cursor
          BY <1>3, <1>4, <1>9, <3>1, <3>3
        <5>2. e.cursor <= e.cursor
          BY <1>3, <1>4
        <5> QED
          BY <1>6, <5>1, <5>2
      <4> QED
        BY <1>6, <4>1, Zenon DEF LogHasMax
    <3> QED
      BY <1>3, <1>4, <1>9, <3>2, <3>3
  <2> QED
    BY <2>1, <2>2, Zenon
<1>12. StampsDiffer'
  BY <1>2, <1>5, <1>7 DEF CursorTypes, StampsDiffer, Idle, Called
<1>13. LoggedBefore'
  <2>1. \A p \in Owners : start'[p] = "cursor" => start[p] = "cursor"
    BY CursorMoves, Zenon
  <2>2. ASSUME NEW i \in 1..n, NEW r \in Slots PROVE em'[log[i].by][r] # log[i].cursor
    <3>1. em[log[i].by][r] # log[i].cursor
      BY <1>2, <1>6, Zenon DEF LoggedBefore
    <3>2. log[i].cursor # Idle /\ log[i].cursor # Called
      BY <1>9 DEF Idle, Called
    <3> QED
      BY <1>7, <1>9, <3>1, <3>2, Zenon
  <2>3. ASSUME NEW r \in Slots PROVE em'[o][r] # em[o][s]
    BY <1>2, <1>3, <1>7, <2>3 DEF StampsDiffer, Idle, Called
  <2>4. em[o][s] <= cursor[o]
    BY <1>2, Zenon DEF StampsDiffer
  <2> QED
    BY <1>2, <1>4, <1>5, <1>6, <1>8, <1>9, <2>1, <2>2, <2>3, <2>4 DEF LoggedBefore
<1>14. CursorsDistinct'
  <2>1. \A i \in 1..n : log[i].by = o => log[i].cursor # e.cursor
    BY <1>2, <1>4, <1>6 DEF LoggedBefore
  <2>2. \A i, j \in 1..n : i # j /\ log[i].by = log[j].by => log[i].cursor # log[j].cursor
    BY <1>2, <1>6, Zenon DEF CursorsDistinct
  <2>3. \A i \in 1..n + 1 : i \in 1..n \/ i = n + 1
    BY <1>6
  <2> SUFFICES ASSUME NEW i \in 1..n + 1, NEW j \in 1..n + 1, i # j, log'[i].by = log'[j].by
               PROVE  log'[i].cursor # log'[j].cursor
    BY <1>6, Zenon DEF CursorsDistinct
  <2>4. CASE i \in 1..n /\ j \in 1..n
    BY <1>6, <2>2, <2>4, Zenon
  <2>5. CASE i \in 1..n /\ j = n + 1
    BY <1>4, <1>6, <2>1, <2>5, Zenon
  <2>6. CASE i = n + 1 /\ j \in 1..n
    BY <1>4, <1>6, <2>1, <2>6, Zenon
  <2> QED
    BY <2>3, <2>4, <2>5, <2>6, Zenon
<1> QED
  BY <1>1, <1>10, <1>11, <1>12, <1>13, <1>14, Zenon DEF CursorInv

(* start() reads the greatest cursor of the log. *)
LEMMA ReadStep ==
  ASSUME OwnerInv, CursorInv, [Next]_vars, NEW o \in Owners, ReadCursor(o)
  PROVE  CursorInv'
<1>1. NoFramesYet'
  BY NoFramesStep, Zenon DEF CursorInv
<1>2. CursorTypes /\ LogHasMax /\ StampsDiffer /\ LoggedBefore /\ CursorsDistinct /\ NoFramesYet
  BY Zenon DEF CursorInv
<1>3. MaxCursor \in Nat
  BY <1>2, MaxCursorIsNat, Zenon
<1>4. cursor' = Set(cursor, o, MaxCursor) /\ UNCHANGED <<em, log>> /\ start[o] = "cursor"
  BY Zenon DEF ReadCursor
<1>5. \A s \in Slots : em[o][s] = Idle
  BY <1>2, <1>4, NothingYet, Zenon
<1>6. \A p \in Owners : start'[p] = "cursor" => start[p] = "cursor"
  BY CursorMoves, Zenon
<1>7. CursorTypes'
  BY <1>2, <1>3, <1>4, Zenon DEF CursorTypes, Set
<1>8. StampsDiffer'
  BY <1>2, <1>3, <1>4, <1>5 DEF CursorTypes, StampsDiffer, Set, Idle
<1>9. \A i \in DOMAIN log : log[i].by \in Owners \ {o}
  BY <1>2, <1>4, EventTypes, Zenon DEF LoggedBefore
<1>10. LoggedBefore'
  BY <1>2, <1>4, <1>6, <1>9, Zenon DEF CursorTypes, LoggedBefore, Set
<1>11. LogHasMax' /\ CursorsDistinct'
  BY <1>2, <1>4 DEF LogHasMax, CursorsDistinct
<1> QED
  BY <1>1, <1>7, <1>8, <1>10, <1>11, Zenon DEF CursorInv

(* Every other step leaves the cursors and the log, and stamps nothing. *)
LEMMA OtherStep ==
  ASSUME OwnerInv, CursorInv, [Next]_vars, UNCHANGED <<cursor, log>>
  PROVE  CursorInv'
<1>1. NoFramesYet'
  BY NoFramesStep, Zenon DEF CursorInv
<1>2. CursorTypes /\ LogHasMax /\ StampsDiffer /\ LoggedBefore /\ CursorsDistinct
  BY Zenon DEF CursorInv
<1>3. \A p \in Owners, r \in Slots : em'[p][r] = em[p][r] \/ em'[p][r] \in {Idle, Called, Checked}
  <2> SUFFICES ASSUME NEW p \in Owners, NEW r \in Slots
               PROVE  em'[p][r] = em[p][r] \/ em'[p][r] \in {Idle, Called, Checked}
    BY Zenon
  <2>1. CASE EmitCheck(p, r)
    BY <2>1, EmitSets DEF EmitCheck, OwnerInv, OwnerTypes
  <2>2. ~EmitStamp(p, r)
    <3>1. cursor[p] \in Nat /\ cursor \in [Owners -> Nat]
      BY <1>2, Zenon DEF CursorTypes
    <3>2. EmitStamp(p, r) => cursor'[p] = cursor[p] + 1
      BY <3>1, Zenon DEF EmitStamp, Set
    <3> QED
      BY <3>1, <3>2
  <2> QED
    BY <2>1, <2>2, EmitMoves, Zenon DEF EmitGoesOn
<1>4. \A p \in Owners : start'[p] = "cursor" => start[p] = "cursor"
  BY CursorMoves, Zenon
<1>5. CursorTypes'
  BY <1>2, <1>3 DEF CursorTypes, Idle, Called, Checked
<1>6. StampsDiffer'
  BY <1>2, <1>3 DEF CursorTypes, StampsDiffer, Idle, Called, Checked
<1>7. \A i \in DOMAIN log : log[i].by \in Owners /\ log[i].cursor \in Nat /\ log[i].cursor > 0
  BY <1>2, EventTypes, Zenon
<1>8. LoggedBefore'
  BY <1>2, <1>3, <1>4, <1>7 DEF LoggedBefore, Idle, Called, Checked
<1>9. LogHasMax' /\ CursorsDistinct'
  BY <1>2 DEF LogHasMax, CursorsDistinct
<1> QED
  BY <1>1, <1>5, <1>6, <1>8, <1>9, Zenon DEF CursorInv

(* Two events of one owner never have the same cursor, however the emits of  *)
(* its start, its stop, its pump and its handlers interleave, because #emit  *)
(* takes and advances the cursor in one step.                                *)
THEOREM CursorsAreDistinct == Spec => []CursorsDistinct
<1>1. Init => CursorInv
  <2> SUFFICES ASSUME Init PROVE CursorInv
    BY Zenon
  <2>1. \A o \in Owners, s \in Slots : em[o][s] = -2
    BY Zenon DEF Init, Idle
  <2>2. CursorTypes
    BY <2>1 DEF Init, CursorTypes
  <2>3. NoFramesYet /\ LogHasMax
    BY Zenon DEF Init, NoFramesYet, LogHasMax
  <2>4. StampsDiffer
    <3>1. \A o \in Owners : cursor[o] = 0
      BY Zenon DEF Init
    <3>2. \A o \in Owners, s \in Slots : em[o][s] <= cursor[o] /\ ~(em[o][s] > 0)
      BY <2>1, <3>1
    <3> QED
      BY <3>2, Zenon DEF StampsDiffer
  <2>5. LoggedBefore /\ CursorsDistinct
    BY DEF Init, LoggedBefore, CursorsDistinct
  <2> QED
    BY <2>2, <2>3, <2>4, <2>5, Zenon DEF CursorInv
<1>2. OwnerInv /\ CursorInv /\ [Next]_vars => CursorInv'
  BY CursorMoves, StampStep, AppendStep, ReadStep, OtherStep, Zenon
<1>3. CursorInv => CursorsDistinct
  BY Zenon DEF CursorInv
<1> QED
  BY <1>1, <1>2, <1>3, OwnersInOrder, PTL DEF Spec
=============================================================================
