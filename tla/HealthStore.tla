---------------------------- MODULE HealthStore ----------------------------
(***************************************************************************)
(* The in-memory health store: the tracked devices, the worker registry,   *)
(* the policy in force, and one action per public operation.  Every        *)
(* operation runs under the store's exclusive lock and is one step; only   *)
(* setPolicy releases the lock half way and is two.  A call that returns   *)
(* or throws before it has changed anything is no step at all.             *)
(*                                                                         *)
(* A device's change log, health generation and transition count advance   *)
(* together in applyTransitionLocked; the model keeps, as d.trail, the     *)
(* states the latest operation on the device entered, in order.            *)
(***************************************************************************)
EXTENDS Assessment, Integers

CONSTANTS
  Uuids,              \* device uuids; 0 asks the store to choose an id
  Workers, Boots,     \* worker identities and process incarnations
  NoWorker, NoBoot,   \* WorkerId{} and WorkerBootId{}
  Kinds,              \* health dimensions
  Reports,            \* what one observation says of them, Kinds -> DimensionStates
  Faults,             \* fault reports: [id, type, severity, fatal, open]
  Validations,        \* validation records: [id, depth, passed]
  Policies,           \* the policies setPolicy may install
  Epochs,             \* coordinator epochs
  Timestamps,         \* clock readings a worker may put in an observation
  MaxTime,            \* bound on the coordinator's clock
  MaxObservationGeneration,
  MaxDeviceGeneration,
  MaxPolicyGeneration,
  MaxSuccesses,       \* bound on the passes one recovery counts
  MaxPending          \* bound on setPolicy calls under way at once

PolicyType ==
  [current: Nat, stale: Nat, expire: Nat,
   degradeAfter: Nat, unhealthyAfter: Nat, quarantineAfter: Nat,
   requiredDepth: Depths, recoveryValidationsRequired: Nat,
   allowDegraded: BOOLEAN]

FaultType ==
  [id: Nat, type: STRING, severity: 0 .. FATAL, fatal: BOOLEAN, open: BOOLEAN]

ASSUME ConstantsAssumption ==
  /\ Uuids \subseteq Nat
  /\ NoWorker \notin Workers /\ NoBoot \notin Boots
  /\ Reports \subseteq [Kinds -> DimensionStates]
  /\ Faults \subseteq FaultType
  /\ \A v \in Validations : v.depth \in Depths /\ v.passed \in BOOLEAN
  /\ Policies \subseteq PolicyType
  /\ Timestamps \subseteq Nat
  /\ MaxTime \in Nat /\ MaxObservationGeneration \in Nat
  /\ MaxDeviceGeneration \in Nat /\ MaxPolicyGeneration \in Nat
  /\ MaxPending \in Nat /\ MaxSuccesses \in Nat

VARIABLES
  devices,                \* AcceleratorId -> device record, for the tracked ids
  uuidIndex,              \* DeviceUuid -> AcceleratorId
  nextDeviceRaw,
  workerBootRegistry,     \* WorkerId -> registered boot, or NoBoot
  lastObservedGeneration, \* (worker, boot) -> highest accepted generation, 0 if none
  policy, policyGeneration,
  pendingReassess,        \* setPolicy calls that have yet to reassess
  coordinatorEpoch,
  now                     \* the clock

vars == <<devices, uuidIndex, nextDeviceRaw, workerBootRegistry,
          lastObservedGeneration, policy, policyGeneration, pendingReassess,
          coordinatorEpoch, now>>

registryVars == <<workerBootRegistry, lastObservedGeneration, coordinatorEpoch>>
policyVars   == <<policy, policyGeneration, pendingReassess>>
identityVars == <<uuidIndex, nextDeviceRaw>>

-----------------------------------------------------------------------------
(* A device as registerDevice creates it.  stateIndexed and staleIndexed are   *)
(* what the state and stale-evidence indexes say of it; quarantineIndexed,     *)
(* whether quarantined() lists it.  The last two indexes are not touched: they *)
(* go on saying of the id what they said before.                               *)
NewDevice(listed, stale) ==
  [state                    |-> "INITIALIZING",
   readiness                |-> "UNKNOWN",
   trail                    |-> <<>>,
   generation               |-> 1,
   lastWorker               |-> NoWorker,
   lastWorkerBootId         |-> NoBoot,
   lastObservation          |-> 0,
   dimensions               |-> [k \in Kinds |-> "ABSENT"],
   faults                   |-> <<>>,
   validations              |-> {},
   validationRepeated       |-> FALSE,
   highestValidation        |-> 0,
   quarantine               |-> "none",
   successfulValidations    |-> 0,
   inRecovery               |-> FALSE,
   deviceGenerationChanged  |-> FALSE,
   policyGenerationChanged  |-> FALSE,
   requiresRevalidation     |-> FALSE,
   assessedPolicyGeneration |-> 0,
   stateIndexed             |-> "INITIALIZING",
   staleIndexed             |-> stale,
   quarantineIndexed        |-> listed]

(* applyTransitionLocked, for a transition the caller knows to be legal. *)
ApplyTransition(d, to) ==
  IF d.state = to THEN d
  ELSE [d EXCEPT !.state = to, !.trail = Append(@, to)]

(* Variant: the evidence is followed without asking whether the move is legal. *)
ReassessUnchecked(d, pol, gen, t) ==
  LET moved == ApplyTransition(d, Target(d, pol, t)) IN
  [moved EXCEPT !.readiness = Readiness(moved, pol, t),
                !.assessedPolicyGeneration = gen,
                !.stateIndexed = moved.state]

(* Variant: a device once listed as stale is not taken off the list. *)
ReassessKeepingStale(d, pol, gen, t) ==
  LET target  == Target(d, pol, t)
      blocked == target # d.state /\ ~CanTransition(d.state, target)
      moved   == IF blocked THEN d ELSE ApplyTransition(d, target)
  IN  [moved EXCEPT
         !.readiness = IF blocked THEN "REVALIDATION_REQUIRED"
                       ELSE Readiness(moved, pol, t),
         !.assessedPolicyGeneration = gen,
         !.staleIndexed = @ \/ OutOfDate(Freshness(pol, d.lastObservation, t)),
         !.stateIndexed = moved.state]

(* reassessLocked: move to the state the evidence calls for if that is legal, *)
(* then derive readiness, the assessment and the indexes from the result.      *)
ReassessLocked(d, pol, gen, t) ==
  LET target  == Target(d, pol, t)
      blocked == target # d.state /\ ~CanTransition(d.state, target)
      moved   == IF blocked THEN d ELSE ApplyTransition(d, target)
  IN  [moved EXCEPT
         !.readiness = IF blocked THEN "REVALIDATION_REQUIRED"
                       ELSE Readiness(moved, pol, t),
         !.assessedPolicyGeneration = gen,
         !.staleIndexed = OutOfDate(Freshness(pol, d.lastObservation, t)),
         !.stateIndexed = moved.state]

(* reassessLocked at the end of an operation, under the policy in force. *)
Assessed(d) == ReassessLocked(d, policy, policyGeneration, now)

Opened(id) == [devices[id] EXCEPT !.trail = <<>>]

(* The whole-store reassessment of reassessAll. *)
AllAssessed(ds) ==
  [id \in DOMAIN ds |-> Assessed([ds[id] EXCEPT !.trail = <<>>])]
-----------------------------------------------------------------------------
(* Policy and epoch *)

(* Variant: the devices are flagged and left for the next evidence to reassess. *)
SetPolicyWithoutReassess(p) ==
  /\ policyGeneration < MaxPolicyGeneration
  /\ policy' = p
  /\ policyGeneration' = policyGeneration + 1
  /\ devices' = [id \in DOMAIN devices |->
                   [devices[id] EXCEPT !.policyGenerationChanged = TRUE,
                                       !.trail = <<>>]]
  /\ UNCHANGED <<identityVars, registryVars, pendingReassess, now>>

(* setPolicy, first critical section: the policy is in force and every device  *)
(* is flagged, but none has been reassessed yet.                                *)
SetPolicy(p) ==
  /\ policyGeneration < MaxPolicyGeneration
  /\ pendingReassess < MaxPending
  /\ policy' = p
  /\ policyGeneration' = policyGeneration + 1
  /\ devices' = [id \in DOMAIN devices |->
                   [devices[id] EXCEPT !.policyGenerationChanged = TRUE,
                                       !.trail = <<>>]]
  /\ pendingReassess' = pendingReassess + 1
  /\ UNCHANGED <<identityVars, registryVars, now>>

(* Variant: only the devices that serve are looked at again. *)
FinishSetPolicyForServing ==
  /\ pendingReassess > 0
  /\ pendingReassess' = pendingReassess - 1
  /\ devices' = [id \in DOMAIN devices |->
       IF devices[id].readiness \in ExecutionReady THEN Assessed(Opened(id))
       ELSE devices[id]]
  /\ UNCHANGED <<identityVars, registryVars, policy, policyGeneration, now>>

(* setPolicy, second critical section: its call of reassessAll. *)
FinishSetPolicy ==
  /\ pendingReassess > 0
  /\ pendingReassess' = pendingReassess - 1
  /\ devices' = AllAssessed(devices)
  /\ UNCHANGED <<identityVars, registryVars, policy, policyGeneration, now>>

(* rollCoordinatorEpoch and setCoordinatorEpoch *)
SetCoordinatorEpoch(e) ==
  /\ coordinatorEpoch' = e
  /\ UNCHANGED <<devices, identityVars, workerBootRegistry,
                 lastObservedGeneration, policyVars, now>>

-----------------------------------------------------------------------------
(* Workers and devices *)

RegisterWorker(w, b) ==
  /\ workerBootRegistry' = [workerBootRegistry EXCEPT ![w] = b]
  /\ UNCHANGED <<devices, identityVars, lastObservedGeneration,
                 coordinatorEpoch, policyVars, now>>

(* invalidateWorker: the evidence of the departed incarnation is stripped. *)
InvalidateWorker(w, b) ==
  /\ workerBootRegistry[w] = b
  /\ workerBootRegistry' = [workerBootRegistry EXCEPT ![w] = NoBoot]
  /\ devices' = [id \in DOMAIN devices |->
       IF devices[id].lastWorker = w /\ devices[id].lastWorkerBootId = b
         THEN Assessed([Opened(id) EXCEPT !.lastObservation = 0,
                                          !.deviceGenerationChanged = FALSE])
         ELSE devices[id]]
  /\ UNCHANGED <<identityVars, lastObservedGeneration, coordinatorEpoch,
                 policyVars, now>>

(* registerDevice: a known uuid keeps its device; a new one gets the id equal  *)
(* to it, or for uuid 0 the next raw id - whatever device holds that id then.  *)
RegisterDevice(u) ==
  /\ u \notin DOMAIN uuidIndex
  /\ LET id     == IF u # 0 THEN u ELSE nextDeviceRaw
         listed == id \in DOMAIN devices /\ devices[id].quarantineIndexed
         stale  == id \in DOMAIN devices /\ devices[id].staleIndexed
     IN  /\ devices' = [x \in DOMAIN devices \cup {id} |->
                          IF x = id THEN NewDevice(listed, stale) ELSE devices[x]]
         /\ uuidIndex' = [x \in DOMAIN uuidIndex \cup {u} |->
                            IF x = u THEN id ELSE uuidIndex[x]]
         /\ nextDeviceRaw' = IF u # 0 THEN nextDeviceRaw ELSE nextDeviceRaw + 1
  /\ UNCHANGED <<registryVars, policyVars, now>>

(* markLost: the transition alone; no reassessment, no index update. *)
MarkLost(id) ==
  /\ id \in DOMAIN devices
  /\ devices' = [devices EXCEPT ![id] = ApplyTransition(Opened(id), "LOST")]
  /\ UNCHANGED <<identityVars, registryVars, policyVars, now>>

-----------------------------------------------------------------------------
(* Evidence *)

(* Variant: the incarnation is not compared with the registered one. *)
AdmitsAnyBoot(id, env) ==
  /\ id \in DOMAIN devices
  /\ env.epoch = coordinatorEpoch
  /\ env.observationGeneration > lastObservedGeneration[<<env.worker, env.boot>>]
  /\ env.deviceGeneration >= devices[id].generation

(* Variant: a generation that was accepted already is accepted again. *)
AdmitsRepeats(id, env) ==
  /\ id \in DOMAIN devices
  /\ env.epoch = coordinatorEpoch
  /\ workerBootRegistry[env.worker] = env.boot
  /\ env.observationGeneration >= lastObservedGeneration[<<env.worker, env.boot>>]
  /\ env.deviceGeneration >= devices[id].generation

(* The fences of acceptObservation, in the order the code applies them. *)
Admits(id, env) ==
  /\ id \in DOMAIN devices
  /\ env.epoch = coordinatorEpoch
  /\ workerBootRegistry[env.worker] = env.boot
  /\ env.observationGeneration > lastObservedGeneration[<<env.worker, env.boot>>]
  /\ env.deviceGeneration >= devices[id].generation

(* The worker numbers its observations from 1.  (The store would take a first   *)
(* observation numbered 0 too; none of the callers sends one.)                 *)
Envelopes ==
  [epoch: Epochs, worker: Workers, boot: Boots,
   observationGeneration: 1 .. MaxObservationGeneration,
   deviceGeneration: 0 .. MaxDeviceGeneration]

(* acceptObservation, for an observation made by the envelope's own worker. *)
AcceptObservation(id, env, timestamp, report) ==
  /\ Admits(id, env)
  /\ LET d == Opened(id) IN
     devices' = [devices EXCEPT ![id] = Assessed(
       [d EXCEPT
          !.generation = env.deviceGeneration,
          !.deviceGenerationChanged = @ \/ env.deviceGeneration > d.generation,
          !.lastWorker = env.worker,
          !.lastWorkerBootId = env.boot,
          !.requiresRevalidation = FALSE,
          !.dimensions = [k \in Kinds |->
             IF report[k] = "ABSENT" THEN d.dimensions[k] ELSE report[k]],
          !.lastObservation = timestamp])]
  /\ lastObservedGeneration' =
       [lastObservedGeneration EXCEPT ![<<env.worker, env.boot>>] =
          env.observationGeneration]
  /\ UNCHANGED <<identityVars, workerBootRegistry, coordinatorEpoch,
                 policyVars, now>>

(* FaultHistory::record throws on an id it holds already. *)
RecordFault(id, f) ==
  /\ id \in DOMAIN devices
  /\ \A i \in 1 .. Len(devices[id].faults) : devices[id].faults[i].id # f.id
  /\ devices' = [devices EXCEPT ![id] =
       Assessed([Opened(id) EXCEPT !.faults = Append(@, f)])]
  /\ UNCHANGED <<identityVars, registryVars, policyVars, now>>

(* The validation ledger, kept as the ids it holds and whether one recurs, and *)
(* the deepest validation passed.                                              *)
WithValidation(d, v) ==
  [d EXCEPT !.validations = @ \cup {v.id},
            !.validationRepeated = @ \/ v.id \in d.validations,
            !.highestValidation =
              IF v.passed /\ v.depth > @ THEN v.depth ELSE @]

RecordValidation(id, v) ==
  /\ id \in DOMAIN devices
  /\ devices' = [devices EXCEPT ![id] = Assessed(WithValidation(Opened(id), v))]
  /\ UNCHANGED <<identityVars, registryVars, policyVars, now>>

-----------------------------------------------------------------------------
(* Quarantine and recovery *)

(* beginQuarantine.  The record and the index are written before the           *)
(* transition; where the transition is illegal it throws and they stay.        *)
BeginQuarantine(id) ==
  /\ id \in DOMAIN devices
  /\ ~Quarantined(devices[id])
  /\ LET d == [Opened(id) EXCEPT !.quarantine = "active",
                                 !.quarantineIndexed = TRUE]
     IN  devices' = [devices EXCEPT ![id] =
           IF d.state = "QUARANTINED" \/ CanTransition(d.state, "QUARANTINED")
             THEN Assessed(ApplyTransition(d, "QUARANTINED"))
             ELSE d]
  /\ UNCHANGED <<identityVars, registryVars, policyVars, now>>

(* Variant: the index is not told. *)
ClearQuarantineKeepingIndex(id) ==
  /\ id \in DOMAIN devices
  /\ Quarantined(devices[id])
  /\ devices' = [devices EXCEPT ![id] =
       Assessed([Opened(id) EXCEPT !.quarantine = "cleared"])]
  /\ UNCHANGED <<identityVars, registryVars, policyVars, now>>

(* Variant: a cleared device is enumerated afresh. *)
ClearQuarantineReleasing(id) ==
  /\ id \in DOMAIN devices
  /\ Quarantined(devices[id])
  /\ devices' = [devices EXCEPT ![id] = Assessed(
       [Opened(id) EXCEPT !.quarantine = "cleared", !.quarantineIndexed = FALSE,
                          !.state = "INITIALIZING"])]
  /\ UNCHANGED <<identityVars, registryVars, policyVars, now>>

(* clearQuarantine: the record is closed and the state left to reassessment.   *)
ClearQuarantine(id) ==
  /\ id \in DOMAIN devices
  /\ LET d == Opened(id) IN
     devices' = [devices EXCEPT ![id] = Assessed(
       IF d.quarantine = "none" THEN d
       ELSE [d EXCEPT !.quarantine = "cleared", !.quarantineIndexed = FALSE])]
  /\ UNCHANGED <<identityVars, registryVars, policyVars, now>>

(* Variant: a recovery may begin in any state. *)
BeginRecoveryAnywhere(id) ==
  /\ id \in DOMAIN devices
  /\ ~devices[id].inRecovery
  /\ devices' = [devices EXCEPT ![id] = Assessed(
       [ApplyTransition(Opened(id), "RECOVERING") EXCEPT
          !.inRecovery = TRUE, !.successfulValidations = 0])]
  /\ UNCHANGED <<identityVars, registryVars, policyVars, now>>

BeginRecovery(id) ==
  /\ id \in DOMAIN devices
  /\ ~devices[id].inRecovery
  /\ CanTransition(devices[id].state, "RECOVERING")
  /\ devices' = [devices EXCEPT ![id] = Assessed(
       [ApplyTransition(Opened(id), "RECOVERING") EXCEPT
          !.inRecovery = TRUE, !.successfulValidations = 0])]
  /\ UNCHANGED <<identityVars, registryVars, policyVars, now>>

(* Variant: the recovery ends one validation early. *)
RecoveryPassedEarly(d, required) ==
  LET e == [ApplyTransition(d, "REVALIDATING") EXCEPT !.successfulValidations = @ + 1]
  IN  IF e.successfulValidations + 1 >= required
        THEN [ApplyTransition(e, "HEALTHY") EXCEPT !.inRecovery = FALSE]
        ELSE e

(* Variant: the flag is not reset when the recovery ends. *)
RecoveryPassedUnfinished(d, required) ==
  LET e == [ApplyTransition(d, "REVALIDATING") EXCEPT !.successfulValidations = @ + 1]
  IN  IF e.successfulValidations >= required THEN ApplyTransition(e, "HEALTHY") ELSE e

(* A passed validation moves a recovery on and, when enough have passed, ends *)
(* it.                                                                         *)
RecoveryPassed(d, required) ==
  LET e == [IF d.state = "RECOVERING" THEN ApplyTransition(d, "REVALIDATING") ELSE d
              EXCEPT !.successfulValidations = @ + 1]
  IN  IF e.state = "REVALIDATING" /\ e.successfulValidations >= required
        THEN [ApplyTransition(e, "HEALTHY") EXCEPT !.inRecovery = FALSE]
        ELSE e

(* A failed one quarantines the device. *)
RecoveryFailed(d) ==
  IF d.state \in {"RECOVERING", "REVALIDATING"}
    THEN ApplyTransition(d, "QUARANTINED") ELSE d

Revalidate(id, v) ==
  /\ id \in DOMAIN devices
  /\ devices[id].inRecovery => devices[id].successfulValidations < MaxSuccesses
  /\ LET d == WithValidation(Opened(id), v) IN
     devices' = [devices EXCEPT ![id] = Assessed(
       IF ~d.inRecovery THEN d
       ELSE IF v.passed THEN RecoveryPassed(d, policy.recoveryValidationsRequired)
       ELSE RecoveryFailed(d))]
  /\ UNCHANGED <<identityVars, registryVars, policyVars, now>>

-----------------------------------------------------------------------------
Reassess(id) ==
  /\ id \in DOMAIN devices
  /\ devices' = [devices EXCEPT ![id] = Assessed(Opened(id))]
  /\ UNCHANGED <<identityVars, registryVars, policyVars, now>>

ReassessAll ==
  /\ devices' = AllAssessed(devices)
  /\ UNCHANGED <<identityVars, registryVars, policyVars, now>>

(* The clock is read by the operations, never written by them. *)
Tick ==
  /\ now < MaxTime
  /\ now' = now + 1
  /\ UNCHANGED <<devices, identityVars, registryVars, policyVars>>

-----------------------------------------------------------------------------
Init ==
  /\ devices = <<>>
  /\ uuidIndex = <<>>
  /\ nextDeviceRaw = 1
  /\ workerBootRegistry = [w \in Workers |-> NoBoot]
  /\ lastObservedGeneration = [wb \in Workers \X Boots |-> 0]
  /\ policy \in Policies
  /\ policyGeneration = 1
  /\ pendingReassess = 0
  /\ coordinatorEpoch \in Epochs
  /\ now = 1

DeviceNext(id) ==
  \/ MarkLost(id)
  \/ \E env \in Envelopes, t \in Timestamps, r \in Reports :
       AcceptObservation(id, env, t, r)
  \/ \E f \in Faults : RecordFault(id, f)
  \/ \E v \in Validations : RecordValidation(id, v) \/ Revalidate(id, v)
  \/ BeginQuarantine(id)
  \/ ClearQuarantine(id)
  \/ BeginRecovery(id)
  \/ Reassess(id)

Next ==
  \/ \E p \in Policies : SetPolicy(p)
  \/ FinishSetPolicy
  \/ \E e \in Epochs : SetCoordinatorEpoch(e)
  \/ \E w \in Workers, b \in Boots : RegisterWorker(w, b) \/ InvalidateWorker(w, b)
  \/ \E u \in Uuids : RegisterDevice(u)
  \/ \E id \in DOMAIN devices : DeviceNext(id)
  \/ ReassessAll
  \/ Tick

(* The thread inside setPolicy runs on to its second critical section; nobody  *)
(* has to call the other operations.                                           *)
Spec == Init /\ [][Next]_vars /\ WF_vars(FinishSetPolicy)

-----------------------------------------------------------------------------
(* Types *)

DeviceType ==
  [state: HealthStates, readiness: ReadinessStates, trail: Seq(HealthStates),
   generation: Nat, lastWorker: Workers \cup {NoWorker},
   lastWorkerBootId: Boots \cup {NoBoot}, lastObservation: Nat,
   dimensions: [Kinds -> DimensionStates], faults: Seq(FaultType),
   validations: SUBSET {v.id : v \in Validations}, validationRepeated: BOOLEAN,
   highestValidation: Depths, quarantine: {"none", "active", "cleared"},
   successfulValidations: Nat, inRecovery: BOOLEAN,
   deviceGenerationChanged: BOOLEAN, policyGenerationChanged: BOOLEAN,
   requiresRevalidation: BOOLEAN, assessedPolicyGeneration: Nat,
   stateIndexed: HealthStates, staleIndexed: BOOLEAN,
   quarantineIndexed: BOOLEAN]

(* Every variable of the store holds a value of its type. *)
TypeOK ==
  /\ DOMAIN devices \subseteq Nat
  /\ \A id \in DOMAIN devices : devices[id] \in DeviceType
  /\ DOMAIN uuidIndex \subseteq Uuids
  /\ \A u \in DOMAIN uuidIndex : uuidIndex[u] \in Nat
  /\ nextDeviceRaw \in Nat
  /\ workerBootRegistry \in [Workers -> Boots \cup {NoBoot}]
  /\ lastObservedGeneration \in [Workers \X Boots -> Nat]
  /\ policy \in PolicyType
  /\ policyGeneration \in Nat
  /\ pendingReassess \in Nat
  /\ coordinatorEpoch \in Epochs
  /\ now \in Nat

-----------------------------------------------------------------------------
(* Safety *)

(* The inRecovery flag and the recovery states go together: whichever calls    *)
(* race a recovery, its states are held exactly while it is under way (a       *)
(* device lost meanwhile keeps the flag).                                      *)
RecoveryDiscipline ==
  \A id \in DOMAIN devices :
    LET d == devices[id] IN
    /\ d.inRecovery => d.state \in {"RECOVERING", "REVALIDATING", "LOST"}
    /\ d.state \in {"RECOVERING", "REVALIDATING"} => d.inRecovery

(* An active quarantine is never contradicted by the health state: no fault,   *)
(* validation, observation, policy change or recovery makes the device         *)
(* HEALTHY or anything else that could serve.  Persistence rejects a file that *)
(* says otherwise.                                                             *)
QuarantineHolds ==
  \A id \in DOMAIN devices :
    Quarantined(devices[id]) =>
      devices[id].state \in {"QUARANTINED", "RECOVERING", "REVALIDATING", "LOST"}

(* ... and its readiness is QUARANTINED, unless the device was lost before the *)
(* quarantine began.                                                           *)
QuarantineGatesReadiness ==
  \A id \in DOMAIN devices :
    Quarantined(devices[id]) /\ devices[id].state # "LOST" =>
      devices[id].readiness = "QUARANTINED"

(* A fatal fault, once in a device's history, keeps it out of service for good: *)
(* no later validation, recovery or policy makes it execution ready.            *)
FatalNeverReady ==
  \A id \in DOMAIN devices :
    HasOpenFatal(devices[id].faults) =>
      devices[id].readiness \notin ExecutionReady

(* A device that is execution ready under the policy in force has earned it:   *)
(* it has been observed, and its dimensions, history, validation and flags are *)
(* as the policy asks.  (Its evidence may have run out meanwhile: no timer     *)
(* reassesses.  When a call looks at it, ServiceInDate says what then holds.)  *)
ServingIsEarned ==
  \A id \in DOMAIN devices :
    LET d == devices[id] IN
    /\ d.readiness \in ExecutionReady
    /\ d.state # "LOST"
    /\ d.assessedPolicyGeneration = policyGeneration
    => /\ d.state \in {"HEALTHY", "DEGRADED"}
       /\ ~d.inRecovery
       /\ d.lastObservation # 0
       /\ ~HasFailed(d.dimensions)
       /\ ConsecutiveLatest(d.faults) < policy.unhealthyAfter
       /\ d.state = "HEALTHY" => ~NeedsRevalidation(d, policy)
       /\ d.state = "DEGRADED" => policy.allowDegraded

(* The four statements above as one about a single device, with the health     *)
(* states the store can reach: the inductive invariant of the proofs.          *)
StoreStates == HealthStates \ {"UNKNOWN", "DRAINING", "DRAINED", "OFFLINE"}

Sound(d) ==
  /\ d.state \in StoreStates
  /\ d.inRecovery => d.state \in {"RECOVERING", "REVALIDATING", "LOST"}
  /\ d.state \in {"RECOVERING", "REVALIDATING"} => d.inRecovery
  /\ Quarantined(d) => d.state \in {"QUARANTINED", "RECOVERING", "REVALIDATING", "LOST"}
  /\ Quarantined(d) /\ d.state # "LOST" => d.readiness = "QUARANTINED"
  /\ HasOpenFatal(d.faults) => d.readiness \notin ExecutionReady

(* The hysteresis thresholds of the policy in force bind: a run of faults that *)
(* reaches one has moved the device at least that far, whatever order faults,  *)
(* observations, validations and policy changes came in.                       *)
ThresholdsEnforced ==
  \A id \in DOMAIN devices :
    LET d   == devices[id]
        run == ConsecutiveLatest(d.faults) IN
    /\ ~d.inRecovery
    /\ d.state # "LOST"
    /\ d.assessedPolicyGeneration = policyGeneration
    => /\ run >= policy.degradeAfter => d.state \notin {"INITIALIZING", "HEALTHY"}
       /\ run >= policy.unhealthyAfter =>
            d.state \in {"UNHEALTHY", "FAILED", "QUARANTINED"}
       /\ /\ run >= policy.quarantineAfter
          /\ HasOpenCritical(d.faults)
          /\ ~HasFailed(d.dimensions) /\ ~HasOpenFatal(d.faults)
          => d.state = "QUARANTINED"

(* Once every setPolicy call has returned, no assessment of an earlier policy  *)
(* is left, however the calls' two halves were interleaved.                    *)
NoStalePolicyAssessment ==
  pendingReassess = 0 =>
    \A id \in DOMAIN devices :
      devices[id].assessedPolicyGeneration \in {0, policyGeneration}

(* The indexes the queries read agree with the devices, except that the state  *)
(* index still lists a lost device where it was before.                        *)
IndexesAgree ==
  \A id \in DOMAIN devices :
    LET d == devices[id] IN
    /\ d.quarantineIndexed = Quarantined(d)
    /\ d.state # "LOST" => d.stateIndexed = d.state

-----------------------------------------------------------------------------
(* What a step may never do *)

(* A call that touches a device and leaves it execution ready has found its    *)
(* evidence in date at that moment: however long nobody reassessed the device, *)
(* no fault, validation, recovery or observation passes over evidence that has *)
(* run out.  A new device generation, a new policy or a load keeps a HEALTHY   *)
(* device out until what they flagged is settled.  (Exceptions: a lost device, *)
(* and the first half of setPolicy, which reassesses nothing.)                 *)
ServiceInDate ==
  [][policyGeneration' = policyGeneration =>
       \A id \in DOMAIN devices :
         LET e == devices'[id] IN
         /\ e # devices[id]
         /\ e.readiness \in ExecutionReady /\ e.state # "LOST"
         => /\ ~OutOfDate(Freshness(policy, e.lastObservation, now))
            /\ e.state = "HEALTHY" => ~NeedsRevalidation(e, policy)]_vars

(* A QUARANTINED device leaves that state only by an explicit recovery or by   *)
(* being lost; clearing the quarantine record alone moves it nowhere.          *)
QuarantineExit ==
  [][\A id \in DOMAIN devices :
       devices[id].state = "QUARANTINED" /\ devices'[id].state # "QUARANTINED"
       => \/ devices'[id].state = "LOST"
          \/ devices'[id].state = "RECOVERING" /\ devices'[id].inRecovery]_vars

(* A device becomes HEALTHY from INITIALIZING, on fresh evidence, or out of a  *)
(* recovery that has counted the validations the policy asks for.              *)
HealthyEntry ==
  [][\A id \in DOMAIN devices :
       LET d == devices[id]  e == devices'[id] IN
       d.state # "HEALTHY" /\ e.state = "HEALTHY"
       => \/ d.state = "INITIALIZING" /\ e.lastObservation # 0
          \/ /\ d.inRecovery
             /\ e.successfulValidations >= policy.recoveryValidationsRequired]_vars

(* The change log accounts for every move: the states the step entered form a *)
(* chain of legal transitions from the old state to the new one.               *)
TrailExplainsState ==
  [][\A id \in DOMAIN devices :
       LET d == devices[id]  e == devices'[id]
           path == <<d.state>> \o e.trail
       IN d # e =>
            /\ e.state = path[Len(path)]
            /\ \A i \in 1 .. Len(e.trail) : CanTransition(path[i], path[i + 1])]_vars

(* Prior failures are never rewritten: the fault history only grows at its end. *)
FaultsAppendOnly ==
  [][\A id \in DOMAIN devices :
       /\ Len(devices'[id].faults) >= Len(devices[id].faults)
       /\ SubSeq(devices'[id].faults, 1, Len(devices[id].faults)) = devices[id].faults]_vars

(* Fencing tokens never go back: neither a device's generation nor the last    *)
(* generation accepted from an incarnation, and new evidence always comes from *)
(* the incarnation registered for its worker, under a generation not used yet. *)
FencesHold ==
  [][/\ \A wb \in Workers \X Boots :
          lastObservedGeneration'[wb] >= lastObservedGeneration[wb]
     /\ \A id \in DOMAIN devices :
          LET d == devices[id]  e == devices'[id]
              from == <<e.lastWorker, e.lastWorkerBootId>> IN
          /\ e.generation >= d.generation
          /\ e.lastObservation \notin {0, d.lastObservation} \/ e.dimensions # d.dimensions
             => /\ workerBootRegistry[e.lastWorker] = e.lastWorkerBootId
                /\ lastObservedGeneration'[from] > lastObservedGeneration[from]]_vars

(* Every policy takes effect: the devices are eventually all assessed under it *)
(* or it has been replaced.                                                    *)
PolicyTakesEffect ==
  \A g \in 1 .. MaxPolicyGeneration :
    policyGeneration = g ~>
      \/ policyGeneration > g
      \/ \A id \in DOMAIN devices : devices[id].assessedPolicyGeneration \in {0, g}

-----------------------------------------------------------------------------
(* Hysteresis keeps a device from flapping: among the states evidence alone    *)
(* decides, a step leads to a worse one or none, unless a recovery is under    *)
(* way.                                                                        *)
Rank(s) ==
  CASE s = "HEALTHY" -> 1 [] s = "DEGRADED" -> 2 [] s = "UNHEALTHY" -> 3
    [] s = "FAILED" -> 4 [] s = "QUARANTINED" -> 5 [] OTHER -> 0

NoFlapping ==
  [][\A id \in DOMAIN devices :
       LET d == devices[id]  e == devices'[id] IN
       /\ ~d.inRecovery
       /\ Rank(d.state) > 0 /\ Rank(e.state) > 0
       => Rank(e.state) >= Rank(d.state)]_vars

-----------------------------------------------------------------------------
(* A statement of the documentation that the code does not keep *)

(* README, Quarantine, and the comment in revalidate: a validation that fails *)
(* during a recovery quarantines the device.                                   *)
FailedRecoveryQuarantines ==
  [][\A id \in DOMAIN devices :
       LET d == devices[id]  e == devices'[id] IN
       /\ d.inRecovery /\ ~Quarantined(e) /\ d # e
       /\ \E i \in 1 .. Len(e.trail) : e.trail[i] = "QUARANTINED"
       => e.state = "QUARANTINED"]_vars

-----------------------------------------------------------------------------
(* The promise to a scheduler, device by device *)

PhaseOf(d) ==
  CASE d.state = "INITIALIZING" -> "probation"
    [] d.state \in {"HEALTHY", "DEGRADED"} -> "inService"
    [] d.state \in {"UNHEALTHY", "FAILED"} -> "broken"
    [] d.state = "QUARANTINED" -> "quarantined"
    [] d.state \in {"RECOVERING", "REVALIDATING"} -> "recovering"
    [] d.state = "LOST" -> "lost"

Tracked(id) == id \in DOMAIN devices

Lifecycle(id) == INSTANCE DeviceLifecycle WITH
  phase     <- IF Tracked(id) THEN PhaseOf(devices[id]) ELSE "untracked",
  serving   <- Tracked(id) /\ devices[id].readiness \in ExecutionReady,
  held      <- Tracked(id) /\ Quarantined(devices[id]),
  condemned <- Tracked(id) /\ HasOpenFatal(devices[id].faults)

(* Every device of the store lives the life DeviceLifecycle allows. *)
ImplementsLifecycle ==
  /\ \A id \in Uuids : Lifecycle(id)!Init
  /\ [][\A id \in Uuids : Lifecycle(id)!Next \/ UNCHANGED Lifecycle(id)!vars]_vars
=============================================================================
