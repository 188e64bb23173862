---------------------------- MODULE RuntimeOwner ----------------------------
(***************************************************************************)
(* RuntimeOwner (harness-control-plane/owner.ts) with the control endpoint *)
(* it serves (control-endpoint.ts) and the event log it writes             *)
(* (storage.ts): several owner processes of one session start, serve       *)
(* requests, persist the frames of their transport and stop, on top of the *)
(* atomic lease of SessionLease.                                           *)
(*                                                                         *)
(* An owner has four activities that interleave at every await: its start, *)
(* its stop, the frame pump and a request handler; each of them emits      *)
(* events, in the three steps of #emit.  The handlers' writes of           *)
(* state.json are not part of this module.                                 *)
(***************************************************************************)
EXTENDS SessionLease, Sequences

CONSTANTS
  NoOwner,     \* nothing is bound to the control socket path
  MaxFrames,   \* bound: semantic frames per owner
  MaxCalls,    \* bound: requests, over all owners
  MaxFaults    \* bound: crashes and operations that fail, over all owners

ASSUME OwnerAssumptions ==
  NoOwner \notin Owners /\ MaxFrames \in Nat /\ MaxCalls \in Nat /\ MaxFaults \in Nat

VARIABLES
  start,       \* where start() is: cursor acquire unbind bind hello, then started,
               \*   late (it ended after stop() began) or failed
  epoch,       \* #leaseEpoch, 0 before the lease was acquired
  stop,        \* where stop() is: no unsubscribe drain transport server unlink
               \*   release report done
  drainTo,     \* the frames on #framePump when stop() began to wait for it
  leaseHeld,   \* #leaseHeld; #heartbeatTimer is set exactly as long
  beating,     \* a heartbeat is waiting for the mutation lock
  transport,   \* the session transport is open: #transportClosed is false
  closed,      \* #serverClosed
  reported,    \* #reportedStopFailures
  sock,        \* whose server the file at controlSocketPath leads to
  listening,   \* the server accepts connections
  intruded,    \* history: an owner that never had the lease removed the socket
  subscribed,  \* #unsubscribeFrames is set
  queued,      \* semantic frames put on #framePump so far
  pumped,      \* how many of them it has dealt with
  job,         \* what the pump is emitting: none, flush or frame
  noise,       \* #coalesced is not empty
  pumpFailed,  \* #framePumpFailure is set
  request,     \* the verb in progress, or none
  connected,   \* its client is still connected
  barrier,     \* the frames an observe request waits for
  requests,    \* requests made so far
  em,          \* em[o][s]: the state of an #emit by activity s
  cursor,      \* #cursor
  log,         \* events.jsonl
  lapsed,      \* history: an emit was dropped because the lease had expired
  faults       \* what has gone wrong so far

startVars == <<start, epoch>>
stopVars  == <<stop, drainTo, leaseHeld, transport, closed, reported>>
sockVars  == <<sock, listening, intruded>>
pumpVars  == <<subscribed, queued, pumped, job, noise, pumpFailed>>
reqVars   == <<request, connected, barrier, requests>>
emitVars  == <<em, cursor, log, lapsed>>
vars == <<leaseVars, startVars, stopVars, beating, sockVars, pumpVars, reqVars, emitVars,
          faults>>

Slots == {"start", "stop", "pump", "handler"}
Verbs == {"submit", "observe", "retire"}
Kinds == {"transport", "server", "lease"}

(* The state of an #emit: not running, called, past the lease check; a       *)
(* positive number is the cursor it stamped on the envelope.                *)
Idle    == -2
Called  == -1
Checked == 0

Set(f, o, v)  == [f EXCEPT ![o] = v]
Emit(o, s, v) == em' = [em EXCEPT ![o][s] = v]

Fault == faults < MaxFaults /\ faults' = faults + 1

(* stop() joins the teardown that is already running. *)
Stop(o) == stop' = Set(stop, o, IF stop[o] = "no" THEN "unsubscribe" ELSE stop[o])

-----------------------------------------------------------------------------
(* #startOnce: read the cursor, acquire the lease, listen, say so, subscribe. *)
MaxCursor ==
  IF log = <<>> THEN 0
  ELSE CHOOSE n \in {log[i].cursor : i \in DOMAIN log} :
         \A i \in DOMAIN log : log[i].cursor <= n

ReadCursor(o) ==
  /\ alive[o] /\ start[o] = "cursor"
  /\ cursor' = Set(cursor, o, MaxCursor)
  /\ start' = Set(start, o, "acquire")
  /\ UNCHANGED <<leaseVars, epoch, stopVars, beating, sockVars, pumpVars, reqVars,
                 em, log, lapsed, faults>>

(* Mutant: the owner counts epochs itself. *)
AcquireLeaseOwnEpoch(o) ==
  /\ start[o] = "acquire"
  /\ Acquire(o)
  /\ leaseHeld' = Set(leaseHeld, o, TRUE)
  /\ epoch' = Set(epoch, o, epoch[o] + 1)
  /\ start' = Set(start, o, "unbind")
  /\ UNCHANGED <<stop, drainTo, transport, closed, reported, beating, sockVars, pumpVars,
                 reqVars, emitVars, faults>>

AcquireLease(o) ==
  /\ start[o] = "acquire"
  /\ Acquire(o)
  /\ leaseHeld' = Set(leaseHeld, o, TRUE)
  /\ epoch' = Set(epoch, o, lease'.epoch)
  /\ start' = Set(start, o, "unbind")
  /\ UNCHANGED <<stop, drainTo, transport, closed, reported, beating, sockVars, pumpVars,
                 reqVars, emitVars, faults>>

(* start rejects and rolls back with stop(): another live owner has the lease *)
(* (lease_held); or the log cannot be read, the lease lock times out, the    *)
(* endpoint cannot listen.                                                  *)
StartRejects(o) ==
  /\ start' = Set(start, o, "failed")
  /\ Stop(o)
  /\ UNCHANGED <<leaseVars, epoch, drainTo, leaseHeld, transport, closed, reported,
                 beating, sockVars, pumpVars, reqVars, emitVars>>

LeaseRefused(o) ==
  /\ alive[o] /\ start[o] = "acquire"
  /\ lease # NoLease /\ ~HeldBy(o) /\ alive[lease.owner]
  /\ StartRejects(o)
  /\ UNCHANGED faults

StartFails(o) ==
  /\ Fault
  /\ alive[o] /\ start[o] \in {"cursor", "acquire", "unbind", "bind"}
  /\ StartRejects(o)

(* ControlServer.listen removes what is at the path, then binds it. *)
Unbind(o) ==
  /\ alive[o] /\ start[o] = "unbind"
  /\ sock' = NoOwner
  /\ start' = Set(start, o, "bind")
  /\ UNCHANGED <<leaseVars, epoch, stopVars, beating, listening, intruded, pumpVars,
                 reqVars, emitVars, faults>>

Bind(o) ==
  /\ alive[o] /\ start[o] = "bind"
  /\ sock = NoOwner
  /\ sock' = o
  /\ listening' = Set(listening, o, TRUE)
  /\ start' = Set(start, o, "hello")
  /\ Emit(o, "start", Called)
  /\ UNCHANGED <<leaseVars, epoch, stopVars, beating, intruded, pumpVars, reqVars,
                 cursor, log, lapsed, faults>>

-----------------------------------------------------------------------------
(* The heartbeat timer fires; the heartbeat refreshes the lease, finds none   *)
(* (ignored), stops a deposed owner, or times out on the lock (ignored).     *)
Beat(o) ==
  /\ alive[o] /\ leaseHeld[o] /\ ~beating[o]
  /\ beating' = Set(beating, o, TRUE)
  /\ UNCHANGED <<leaseVars, startVars, stopVars, sockVars, pumpVars, reqVars, emitVars,
                 faults>>

BeatLands(o) ==
  /\ alive[o] /\ beating[o]
  /\ beating' = Set(beating, o, FALSE)
  /\ IF HeldBy(o) THEN Heartbeat(o) ELSE UNCHANGED leaseVars
  /\ IF lease # NoLease /\ ~HeldBy(o) THEN Stop(o) ELSE UNCHANGED stop
  /\ UNCHANGED <<startVars, drainTo, leaseHeld, transport, closed, reported, sockVars,
                 pumpVars, reqVars, emitVars, faults>>

BeatFails(o) ==
  /\ Fault
  /\ alive[o] /\ beating[o]
  /\ beating' = Set(beating, o, FALSE)
  /\ UNCHANGED <<leaseVars, startVars, stopVars, sockVars, pumpVars, reqVars, emitVars>>

-----------------------------------------------------------------------------
(* #handleFrame: a semantic frame goes on the pump, noise is coalesced (what *)
(* comes after the last frame of the bound is never flushed).               *)
Frame(o) ==
  /\ alive[o] /\ subscribed[o] /\ transport[o]
  /\ queued[o] < MaxFrames
  /\ queued' = Set(queued, o, queued[o] + 1)
  /\ UNCHANGED <<leaseVars, startVars, stopVars, beating, sockVars, subscribed, pumped,
                 job, noise, pumpFailed, reqVars, emitVars, faults>>

Noise(o) ==
  /\ alive[o] /\ subscribed[o] /\ transport[o]
  /\ queued[o] < MaxFrames
  /\ noise' = Set(noise, o, TRUE)
  /\ UNCHANGED <<leaseVars, startVars, stopVars, beating, sockVars, subscribed, queued,
                 pumped, job, pumpFailed, reqVars, emitVars, faults>>

(* The next link of #framePump: it flushes the noise before the frame, and   *)
(* does nothing once the pump has failed.                                   *)
Pump(o) ==
  /\ alive[o] /\ job[o] = "none" /\ pumped[o] < queued[o]
  /\ \/ /\ pumpFailed[o]
        /\ pumped' = Set(pumped, o, pumped[o] + 1)
        /\ UNCHANGED <<job, noise, em>>
     \/ /\ ~pumpFailed[o]
        /\ job' = Set(job, o, IF noise[o] THEN "flush" ELSE "frame")
        /\ noise' = Set(noise, o, FALSE)
        /\ Emit(o, "pump", Called)
        /\ UNCHANGED pumped
  /\ UNCHANGED <<leaseVars, startVars, stopVars, beating, sockVars, subscribed, queued,
                 pumpFailed, reqVars, cursor, log, lapsed, faults>>

-----------------------------------------------------------------------------
(* ControlServer: a client's request reaches the handler over the socket.    *)
(* Observe notes the pump it will wait for; retire goes straight to its      *)
(* event.  A client gives up after its timeout; the handler goes on.        *)
Request(o, verb) ==
  /\ alive[o] /\ sock = o /\ listening[o]
  /\ request[o] = "none" /\ requests < MaxCalls
  /\ request' = Set(request, o, verb)
  /\ connected' = Set(connected, o, TRUE)
  /\ requests' = requests + 1
  /\ barrier' = Set(barrier, o, queued[o])
  /\ IF verb = "retire" THEN Emit(o, "handler", Called) ELSE UNCHANGED em
  /\ UNCHANGED <<leaseVars, startVars, stopVars, beating, sockVars, pumpVars, cursor, log,
                 lapsed, faults>>

ClientGone(o) ==
  /\ connected[o]
  /\ connected' = Set(connected, o, FALSE)
  /\ UNCHANGED <<leaseVars, startVars, stopVars, beating, sockVars, pumpVars, request,
                 barrier, requests, emitVars, faults>>

Respond(o) ==
  /\ request' = Set(request, o, "none")
  /\ connected' = Set(connected, o, FALSE)
  /\ UNCHANGED <<barrier, requests>>

(* #submit returns early on an empty prompt or a closed lifecycle gate, or   *)
(* reports whether the transport accepted the prompt.                       *)
SubmitRefused(o) ==
  /\ alive[o] /\ request[o] = "submit" /\ em[o]["handler"] = Idle
  /\ Respond(o)
  /\ UNCHANGED <<leaseVars, startVars, stopVars, beating, sockVars, pumpVars, emitVars, faults>>

SubmitSettled(o) ==
  /\ alive[o] /\ request[o] = "submit" /\ em[o]["handler"] = Idle
  /\ Emit(o, "handler", Called)
  /\ UNCHANGED <<leaseVars, startVars, stopVars, beating, sockVars, pumpVars, reqVars,
                 cursor, log, lapsed, faults>>

(* #observe answers once the pump has dealt with the frames it waited for. *)
Observed(o) ==
  /\ alive[o] /\ request[o] = "observe"
  /\ pumped[o] >= barrier[o]
  /\ Respond(o)
  /\ UNCHANGED <<leaseVars, startVars, stopVars, beating, sockVars, pumpVars, emitVars, faults>>

-----------------------------------------------------------------------------
(* What the activity does when its #emit returns (ok) or throws. *)
StartGoesOn(o, ok) ==
  /\ start' = Set(start, o, IF ~ok THEN "failed" ELSE IF stop[o] = "no" THEN "started" ELSE "late")
  /\ subscribed' = Set(subscribed, o, ok)
  /\ IF ok THEN UNCHANGED stop ELSE Stop(o)
  /\ UNCHANGED <<pumped, job, pumpFailed, request, connected>>

(* Mutant: a failed append is not remembered. *)
PumpGoesOnQuietly(o, ok) ==
  /\ job' = Set(job, o, IF ok /\ job[o] = "flush" THEN "frame" ELSE "none")
  /\ pumped' = Set(pumped, o, IF ok /\ job[o] = "flush" THEN pumped[o] ELSE pumped[o] + 1)
  /\ UNCHANGED pumpFailed
  /\ UNCHANGED <<start, subscribed, stop, request, connected>>

PumpGoesOn(o, ok) ==
  /\ job' = Set(job, o, IF ok /\ job[o] = "flush" THEN "frame" ELSE "none")
  /\ pumped' = Set(pumped, o, IF ok /\ job[o] = "flush" THEN pumped[o] ELSE pumped[o] + 1)
  /\ pumpFailed' = Set(pumpFailed, o, ~ok)
  /\ UNCHANGED <<start, subscribed, stop, request, connected>>

HandlerGoesOn(o, ok) ==
  /\ request' = Set(request, o, "none")
  /\ connected' = Set(connected, o, FALSE)
  /\ IF ok /\ request[o] = "retire" THEN Stop(o) ELSE UNCHANGED stop
  /\ UNCHANGED <<start, subscribed, pumped, job, pumpFailed>>

StopGoesOn(o) ==
  /\ stop' = Set(stop, o, "unsubscribe")
  /\ UNCHANGED <<start, subscribed, pumped, job, pumpFailed, request, connected>>

Finish(o, s, ok) ==
  /\ Emit(o, s, IF s = "pump" /\ ok /\ job[o] = "flush" THEN Called ELSE Idle)
  /\ CASE s = "start"   -> StartGoesOn(o, ok)
       [] s = "pump"    -> PumpGoesOn(o, ok)
       [] s = "handler" -> HandlerGoesOn(o, ok)
       [] s = "stop"    -> StopGoesOn(o)
  /\ UNCHANGED <<leaseVars, epoch, drainTo, leaseHeld, transport, closed, reported, beating,
                 sockVars, queued, noise, barrier, requests>>

(* #emit: check the lease (an event without it is dropped), read the state,  *)
(* stamp the next cursor, append the envelope.                              *)
EmitCheck(o, s) ==
  /\ alive[o] /\ em[o][s] = Called
  /\ CanWriteEvents(o)
  /\ Emit(o, s, Checked)
  /\ UNCHANGED <<leaseVars, startVars, stopVars, beating, sockVars, pumpVars, reqVars,
                 cursor, log, lapsed, faults>>

EmitDrop(o, s) ==
  /\ alive[o] /\ em[o][s] = Called
  /\ ~CanWriteEvents(o)
  /\ lapsed' = Set(lapsed, o, lapsed[o] \/ HeldBy(o))
  /\ Finish(o, s, TRUE)
  /\ UNCHANGED <<cursor, log, faults>>

(* Mutant: the cursor is read and not advanced. *)
EmitStampStale(o, s) ==
  /\ alive[o] /\ em[o][s] = Checked
  /\ UNCHANGED cursor
  /\ Emit(o, s, cursor[o] + 1)
  /\ UNCHANGED <<leaseVars, startVars, stopVars, beating, sockVars, pumpVars, reqVars,
                 log, lapsed, faults>>

EmitStamp(o, s) ==
  /\ alive[o] /\ em[o][s] = Checked
  /\ cursor' = Set(cursor, o, cursor[o] + 1)
  /\ Emit(o, s, cursor[o] + 1)
  /\ UNCHANGED <<leaseVars, startVars, stopVars, beating, sockVars, pumpVars, reqVars,
                 log, lapsed, faults>>

(* frame: which semantic frame the event is for, 0 if it is for none. *)
Envelope(o, s) ==
  [by     |-> o,
   epoch  |-> epoch[o],
   cursor |-> em[o][s],
   frame  |-> IF s = "pump" /\ job[o] = "frame" THEN pumped[o] + 1 ELSE 0]

EmitAppend(o, s) ==
  /\ alive[o] /\ em[o][s] > Checked
  /\ log' = Append(log, Envelope(o, s))
  /\ Finish(o, s, TRUE)
  /\ UNCHANGED <<cursor, lapsed, faults>>

(* The lease or the state cannot be read, or the event cannot be appended. *)
EmitFails(o, s) ==
  /\ Fault
  /\ alive[o] /\ em[o][s] # Idle
  /\ Finish(o, s, FALSE)
  /\ UNCHANGED <<cursor, log, lapsed>>

-----------------------------------------------------------------------------
(* #stopUntilVerified: stop() until one pass of #stopOnce succeeds.  A stage  *)
(* that fails is reported once per kind, and the pass starts over; what has  *)
(* been verified (transport, server, lease) is not done again.              *)
StopSignal(o) ==
  /\ alive[o] /\ start[o] = "started" /\ stop[o] = "no"
  /\ Stop(o)
  /\ UNCHANGED <<leaseVars, startVars, drainTo, leaseHeld, transport, closed, reported,
                 beating, sockVars, pumpVars, reqVars, emitVars, faults>>

Unsubscribe(o) ==
  /\ alive[o] /\ stop[o] = "unsubscribe"
  /\ subscribed' = Set(subscribed, o, FALSE)
  /\ drainTo' = Set(drainTo, o, queued[o])
  /\ stop' = Set(stop, o, "drain")
  /\ UNCHANGED <<leaseVars, startVars, leaseHeld, transport, closed, reported, beating,
                 sockVars, queued, pumped, job, noise, pumpFailed, reqVars, emitVars, faults>>

(* Mutant: the pump is not waited for. *)
DrainedAtOnce(o) ==
  /\ alive[o] /\ stop[o] = "drain"
  /\ stop' = Set(stop, o, IF transport[o] THEN "transport" ELSE IF closed[o] THEN "release" ELSE "server")
  /\ UNCHANGED <<leaseVars, startVars, drainTo, leaseHeld, transport, closed, reported,
                 beating, sockVars, pumpVars, reqVars, emitVars, faults>>

(* Mutant: the coalesced noise has to be flushed as well. *)
DrainedQuiet(o) ==
  /\ alive[o] /\ stop[o] = "drain" /\ pumped[o] >= drainTo[o] /\ ~noise[o]
  /\ stop' = Set(stop, o, IF transport[o] THEN "transport" ELSE IF closed[o] THEN "release" ELSE "server")
  /\ UNCHANGED <<leaseVars, startVars, drainTo, leaseHeld, transport, closed, reported,
                 beating, sockVars, pumpVars, reqVars, emitVars, faults>>

Drained(o) ==
  /\ alive[o] /\ stop[o] = "drain" /\ pumped[o] >= drainTo[o]
  /\ stop' = Set(stop, o, IF transport[o] THEN "transport" ELSE IF closed[o] THEN "release" ELSE "server")
  /\ UNCHANGED <<leaseVars, startVars, drainTo, leaseHeld, transport, closed, reported,
                 beating, sockVars, pumpVars, reqVars, emitVars, faults>>

(* Mutant: the lease is released as soon as the transport is closed. *)
CloseTransportReleases(o) ==
  /\ alive[o] /\ stop[o] = "transport"
  /\ transport' = Set(transport, o, FALSE)
  /\ stop' = Set(stop, o, "release")
  /\ UNCHANGED <<leaseVars, startVars, drainTo, leaseHeld, closed, reported, beating,
                 sockVars, pumpVars, reqVars, emitVars, faults>>

CloseTransport(o) ==
  /\ alive[o] /\ stop[o] = "transport"
  /\ transport' = Set(transport, o, FALSE)
  /\ stop' = Set(stop, o, "server")
  /\ UNCHANGED <<leaseVars, startVars, drainTo, leaseHeld, closed, reported, beating,
                 sockVars, pumpVars, reqVars, emitVars, faults>>

(* server.close: no new connection; it waits for the open ones. *)
CloseServer(o) ==
  /\ alive[o] /\ stop[o] = "server"
  /\ listening' = Set(listening, o, FALSE)
  /\ stop' = Set(stop, o, "unlink")
  /\ UNCHANGED <<leaseVars, startVars, drainTo, leaseHeld, transport, closed, reported,
                 beating, sock, intruded, pumpVars, reqVars, emitVars, faults>>

(* Mutant: open connections are not waited for. *)
UnlinkAtOnce(o) ==
  /\ alive[o] /\ stop[o] = "unlink"
  /\ sock' = NoOwner
  /\ intruded' = (intruded \/ epoch[o] = 0)
  /\ closed' = Set(closed, o, TRUE)
  /\ stop' = Set(stop, o, IF leaseHeld[o] THEN "release" ELSE "done")
  /\ UNCHANGED <<leaseVars, startVars, drainTo, leaseHeld, transport, reported, beating,
                 listening, pumpVars, reqVars, emitVars, faults>>

(* ControlServer.close then removes the path, whoever is bound to it. *)
Unlink(o) ==
  /\ alive[o] /\ stop[o] = "unlink" /\ ~connected[o]
  /\ sock' = NoOwner
  /\ intruded' = (intruded \/ epoch[o] = 0)
  /\ closed' = Set(closed, o, TRUE)
  /\ stop' = Set(stop, o, IF leaseHeld[o] THEN "release" ELSE "done")
  /\ UNCHANGED <<leaseVars, startVars, drainTo, leaseHeld, transport, reported, beating,
                 listening, pumpVars, reqVars, emitVars, faults>>

(* releaseLease removes our lease; none, or a successor's, is fine too. *)
ReleaseLease(o) ==
  /\ alive[o] /\ stop[o] = "release"
  /\ IF HeldBy(o) THEN Release(o) ELSE UNCHANGED leaseVars
  /\ leaseHeld' = Set(leaseHeld, o, FALSE)
  /\ stop' = Set(stop, o, "done")
  /\ UNCHANGED <<startVars, drainTo, transport, closed, reported, beating, sockVars,
                 pumpVars, reqVars, emitVars, faults>>

(* transport.close rejects, fs.rm fails, or the lease lock times out. *)
FailedKind(o) ==
  CASE stop[o] = "transport" -> "transport"
    [] stop[o] = "unlink"    -> "server"
    [] stop[o] = "release"   -> "lease"

StageFails(o) ==
  /\ Fault
  /\ alive[o] /\ stop[o] \in {"transport", "unlink", "release"}
  /\ stop[o] = "unlink" => ~connected[o]
  /\ reported' = Set(reported, o, reported[o] \cup {FailedKind(o)})
  /\ IF FailedKind(o) \in reported[o]
       THEN stop' = Set(stop, o, "unsubscribe") /\ UNCHANGED em
       ELSE stop' = Set(stop, o, "report") /\ Emit(o, "stop", Called)
  /\ UNCHANGED <<leaseVars, startVars, drainTo, leaseHeld, transport, closed, beating,
                 sockVars, pumpVars, reqVars, cursor, log, lapsed>>

-----------------------------------------------------------------------------
(* The environment: a process dies, gc reaps a dead owner's lease and socket, *)
(* time passes.                                                              *)
Crash(o) ==
  /\ Fault
  /\ Die(o)
  /\ connected' = Set(connected, o, FALSE)
  /\ UNCHANGED <<startVars, stopVars, beating, sockVars, pumpVars, request, barrier,
                 requests, emitVars>>

GcReap ==
  /\ Reap
  /\ sock' = NoOwner
  /\ UNCHANGED <<startVars, stopVars, beating, listening, intruded, pumpVars, reqVars,
                 emitVars, faults>>

Tick ==
  /\ Elapse
  /\ UNCHANGED <<startVars, stopVars, beating, sockVars, pumpVars, reqVars, emitVars, faults>>

Init ==
  /\ LeaseInit
  /\ start = [o \in Owners |-> "cursor"]
  /\ epoch = [o \in Owners |-> 0]
  /\ stop = [o \in Owners |-> "no"]
  /\ drainTo = [o \in Owners |-> 0]
  /\ leaseHeld = [o \in Owners |-> FALSE]
  /\ beating = [o \in Owners |-> FALSE]
  /\ transport = [o \in Owners |-> TRUE]
  /\ closed = [o \in Owners |-> FALSE]
  /\ reported = [o \in Owners |-> {}]
  /\ sock = NoOwner
  /\ listening = [o \in Owners |-> FALSE]
  /\ intruded = FALSE
  /\ subscribed = [o \in Owners |-> FALSE]
  /\ queued = [o \in Owners |-> 0]
  /\ pumped = [o \in Owners |-> 0]
  /\ job = [o \in Owners |-> "none"]
  /\ noise = [o \in Owners |-> FALSE]
  /\ pumpFailed = [o \in Owners |-> FALSE]
  /\ request = [o \in Owners |-> "none"]
  /\ connected = [o \in Owners |-> FALSE]
  /\ barrier = [o \in Owners |-> 0]
  /\ requests = 0
  /\ em = [o \in Owners |-> [s \in Slots |-> Idle]]
  /\ cursor = [o \in Owners |-> 0]
  /\ log = <<>>
  /\ lapsed = [o \in Owners |-> FALSE]
  /\ faults = 0

StartStep(o) ==
  \/ ReadCursor(o) \/ AcquireLease(o) \/ LeaseRefused(o) \/ StartFails(o) \/ Unbind(o)
  \/ Bind(o)
PumpStep(o)  == Frame(o) \/ Noise(o) \/ Pump(o)
RequestStep(o) ==
  \/ \E verb \in Verbs : Request(o, verb)
  \/ ClientGone(o) \/ SubmitRefused(o) \/ SubmitSettled(o) \/ Observed(o)
EmitStep(o) ==
  \E s \in Slots :
    EmitCheck(o, s) \/ EmitDrop(o, s) \/ EmitStamp(o, s) \/ EmitAppend(o, s) \/ EmitFails(o, s)
StopStep(o) ==
  \/ StopSignal(o) \/ Unsubscribe(o) \/ Drained(o) \/ CloseTransport(o) \/ CloseServer(o)
  \/ Unlink(o) \/ ReleaseLease(o) \/ StageFails(o)

Next ==
  \/ \E o \in Owners :
       \/ StartStep(o) \/ Beat(o) \/ BeatLands(o) \/ BeatFails(o) \/ PumpStep(o)
       \/ RequestStep(o) \/ EmitStep(o) \/ StopStep(o) \/ Crash(o)
  \/ GcReap
  \/ Tick

Spec == Init /\ [][Next]_vars

(* The event loop runs what is ready; a client gives up after its timeout    *)
(* (control-endpoint.ts:113); what fails does so finitely often, and stop()   *)
(* retries without limit (cleanupRetryLimit is infinite by default).        *)
LoopRuns(o) ==
  \/ Unsubscribe(o) \/ Drained(o) \/ CloseTransport(o) \/ CloseServer(o)
  \/ Unlink(o) \/ ReleaseLease(o)
  \/ Pump(o) \/ ClientGone(o)
  \/ \E s \in Slots : EmitCheck(o, s) \/ EmitDrop(o, s) \/ EmitStamp(o, s) \/ EmitAppend(o, s)

FairSpec == Spec /\ \A o \in Owners : WF_vars(LoopRuns(o))

-----------------------------------------------------------------------------
(* What an owner believes about the lease is true: as long as #leaseHeld is  *)
(* set and the process lives, lease.json is its own and has its epoch; no    *)
(* start, stop, crash or gc of another owner takes it away.                 *)
HolderKeepsLease ==
  \A o \in Owners : alive[o] /\ leaseHeld[o] => HeldBy(o) /\ lease.epoch = epoch[o]

(* "Do not surrender the lease while [the transport] is unverified"           *)
(* (owner.ts:857): a live owner that had the lease and no longer has it has   *)
(* closed its transport, takes no more requests and, unless it subscribed    *)
(* after its stop began, has persisted every frame it accepted.              *)
ClosedBeforeHandover ==
  \A o \in Owners :
    alive[o] /\ epoch[o] > 0 /\ ~HeldBy(o) =>
      /\ ~transport[o]
      /\ ~listening[o]
      /\ start[o] # "late" => pumped[o] = queued[o]

(* The path every client resolves leads to the live owner that is listening,  *)
(* which holds the lease, unless an owner that never had the lease removed   *)
(* it while rolling back its start.                                          *)
SocketIsHolders ==
  \A o \in Owners : alive[o] /\ listening[o] /\ ~intruded => sock = o /\ HeldBy(o)

(* The activities whose events stop() does not wait for: a handler whose      *)
(* client has gone, and what a start that was overtaken by stop() still does. *)
Unawaited(o, s) ==
  \/ s = "handler" /\ ~connected[o]
  \/ s = "start" /\ stop[o] # "no"
  \/ start[o] = "late"

(* Events are appended only by the holder of the lease, whatever happened      *)
(* between the check of #emit and its append, except by an activity that      *)
(* stop() does not wait for.                                                 *)
WriterHolds ==
  [][\A o \in Owners, s \in Slots : EmitAppend(o, s) /\ ~Unawaited(o, s) => HeldBy(o)]_vars

(* The frames an owner has dealt with are in the log, each once and in the    *)
(* order they came, if no emit was dropped or failed.                        *)
FramesPersisted ==
  \A o \in Owners :
    ~lapsed[o] /\ ~pumpFailed[o] /\ start[o] # "late" =>
      LET events == SelectSeq(log, LAMBDA e : e.by = o /\ e.frame > 0)
      IN  /\ Len(events) = pumped[o]
          /\ \A i \in 1..pumped[o] : events[i].frame = i

(* The four activities of an owner never stamp the same cursor twice, although *)
(* their emits interleave.                                                    *)
CursorsDistinct ==
  \A i, j \in DOMAIN log : i # j /\ log[i].by = log[j].by => log[i].cursor # log[j].cursor

(* A stop that has begun ends, with all of it verified, or the process dies. *)
StopCompletes == \A o \in Owners : stop[o] # "no" ~> stop[o] = "done" \/ ~alive[o]

=============================================================================
