---------------------------- MODULE Coordinator ----------------------------
(***************************************************************************)
(* The coordinator process: one thread per connection, all of them calling *)
(* the one health store, and the worker processes at the other end.  Each  *)
(* store call of a handler takes the lock by itself, so the calls of two   *)
(* handlers interleave.  A rejected observation is answered and changes    *)
(* nothing: it is no step.                                                  *)
(*                                                                         *)
(* A worker process (external) connects, registers under its worker id and *)
(* its boot id, and then reports in its own name.  The threads would take  *)
(* reports in the name of another worker that is registered too; none of   *)
(* the programs sends them.                                                *)
(***************************************************************************)
EXTENDS HealthStore

CONSTANT Conns      \* connections, each with its thread

VARIABLE conns      \* connection -> the locals of its thread

coordVars == <<vars, conns>>

(* worker and boot are those of the process at the other end; the thread knows *)
(* them once haveWorker is set.                                                *)
Free == [phase |-> "free", worker |-> NoWorker, boot |-> NoBoot, haveWorker |-> FALSE]

Enter(c, phase) == conns' = [conns EXCEPT ![c].phase = phase]

Reporting(c) == conns[c].phase = "idle" /\ conns[c].haveWorker

-----------------------------------------------------------------------------
AcceptClient(c, w, b) ==
  /\ conns[c].phase = "free"
  /\ conns' = [conns EXCEPT ![c] =
       [phase |-> "idle", worker |-> w, boot |-> b, haveWorker |-> FALSE]]
  /\ UNCHANGED vars

(* REGISTER is one call for the worker, one for each device it names, and a     *)
(* reassessment of the whole store.                                            *)
HandleRegister(c) ==
  LET w == conns[c].worker  b == conns[c].boot IN
  /\ conns[c].phase = "idle"
  /\ RegisterWorker(w, b)
  /\ conns' = [conns EXCEPT ![c].phase = "devices", ![c].haveWorker = TRUE]

RegisterItsDevice(c) ==
  /\ conns[c].phase = "devices"
  /\ \E u \in Uuids : RegisterDevice(u)
  /\ UNCHANGED conns

RegisterReassess(c) ==
  /\ conns[c].phase = "devices"
  /\ ReassessAll
  /\ Enter(c, "idle")

(* A device count that cannot be read ends the handler there. *)
RegisterCutShort(c) ==
  /\ conns[c].phase = "devices"
  /\ Enter(c, "idle")
  /\ UNCHANGED vars

HandleObservation(c, id) ==
  /\ Reporting(c)
  /\ \E env \in Envelopes, t \in Timestamps, r \in Reports :
       /\ env.worker = conns[c].worker /\ env.boot = conns[c].boot
       /\ AcceptObservation(id, env, t, r)
  /\ UNCHANGED conns

(* The envelopes of VALIDATION_RESULT and FAULT_REPORT are read and not used. *)
HandleValidation(c, id) ==
  /\ Reporting(c)
  /\ \E v \in Validations : RecordValidation(id, v)
  /\ UNCHANGED conns

HandleFault(c, id) ==
  /\ Reporting(c)
  /\ \E f \in Faults : RecordFault(id, f)
  /\ UNCHANGED conns

(* A fault id the history holds already makes recordFault throw: the thread    *)
(* leaves its loop.                                                            *)
HandleRepeatedFault(c, id) ==
  /\ Reporting(c)
  /\ \E f \in Faults, i \in 1 .. Len(devices[id].faults) : devices[id].faults[i].id = f.id
  /\ Enter(c, "closing")
  /\ UNCHANGED vars

(* The peer is gone, its frame is malformed, or a reply cannot be encoded. *)
LeaveLoop(c) ==
  /\ conns[c].phase = "idle"
  /\ Enter(c, "closing")
  /\ UNCHANGED vars

(* Variant: the departed worker's registration is dropped, its evidence kept.  *)
DisconnectKeepingEvidence(c) ==
  LET w == conns[c].worker  b == conns[c].boot IN
  /\ conns[c].phase = "closing"
  /\ workerBootRegistry' = [workerBootRegistry EXCEPT ![w] = IF @ = b THEN NoBoot ELSE @]
  /\ conns' = [conns EXCEPT ![c] = Free]
  /\ UNCHANGED <<devices, identityVars, lastObservedGeneration, coordinatorEpoch,
                 policyVars, now>>

(* Variant: the thread ends without telling the store. *)
DisconnectSilently(c) ==
  /\ conns[c].phase = "closing"
  /\ conns' = [conns EXCEPT ![c] = Free]
  /\ UNCHANGED vars

(* After the loop: the worker is invalidated if it is still the registered one. *)
Disconnect(c) ==
  LET w == conns[c].worker  b == conns[c].boot IN
  /\ conns[c].phase = "closing"
  /\ IF conns[c].haveWorker /\ workerBootRegistry[w] = b
       THEN InvalidateWorker(w, b) ELSE UNCHANGED vars
  /\ conns' = [conns EXCEPT ![c] = Free]

-----------------------------------------------------------------------------
CoordInit ==
  /\ Init
  /\ conns = [c \in Conns |-> Free]

(* The steps a thread takes by itself, once it is in a handler. *)
ThreadStep(c) ==
  RegisterItsDevice(c) \/ RegisterReassess(c) \/ RegisterCutShort(c) \/ Disconnect(c)

Time == Tick /\ UNCHANGED conns

CoordNext ==
  \/ \E c \in Conns :
       \/ \E w \in Workers, b \in Boots : AcceptClient(c, w, b)
       \/ HandleRegister(c)
       \/ \E id \in DOMAIN devices :
            HandleObservation(c, id) \/ HandleValidation(c, id)
              \/ HandleFault(c, id) \/ HandleRepeatedFault(c, id)
       \/ LeaveLoop(c)
       \/ ThreadStep(c)
  \/ Time

(* A thread that is not waiting for its peer runs on. *)
CoordSpec ==
  CoordInit /\ [][CoordNext]_coordVars /\ \A c \in Conns : WF_coordVars(ThreadStep(c))

-----------------------------------------------------------------------------
(* No registration outlives its worker: whatever order connections of the same *)
(* worker come, register and go in, the registered incarnation has a           *)
(* connection whose thread has yet to invalidate it.                           *)
RegistrationHasConnection ==
  \A w \in Workers :
    workerBootRegistry[w] # NoBoot =>
      \E c \in Conns :
        /\ conns[c].phase # "free" /\ conns[c].haveWorker
        /\ conns[c].worker = w /\ conns[c].boot = workerBootRegistry[w]

(* A device is execution ready only while the incarnation that observed it     *)
(* last is registered.  Where every worker keeps its boot id, no order of      *)
(* reconnections, disconnections and retried reports breaks this.              *)
ServingHasRegisteredWorker ==
  \A id \in DOMAIN devices :
    devices[id].readiness \in ExecutionReady =>
      workerBootRegistry[devices[id].lastWorker] = devices[id].lastWorkerBootId

Gone(w, b) ==
  \A c \in Conns :
    conns[c].worker = w /\ conns[c].boot = b => conns[c].phase = "closing"

ServesFrom(w, b) ==
  \E id \in DOMAIN devices :
    /\ devices[id].readiness \in ExecutionReady
    /\ devices[id].lastWorker = w /\ devices[id].lastWorkerBootId = b

(* When a worker is gone, no device goes on serving on its evidence, unless it *)
(* comes back.                                                                  *)
DeadWorkerEvidenceDrops ==
  \A w \in Workers, b \in Boots :
    Gone(w, b) /\ ServesFrom(w, b) ~> ~Gone(w, b) \/ ~ServesFrom(w, b)

-----------------------------------------------------------------------------
(* A statement of the tests that the code does not keep *)

(* test_distributed.ps1: a device is stale once its worker has been killed.    *)
(* With every worker gone and every disconnection handled, none is ready.      *)
NothingReadyWithoutWorkers ==
  (\A c \in Conns : conns[c].phase = "free") =>
    \A id \in DOMAIN devices : devices[id].readiness \notin ExecutionReady
=============================================================================
