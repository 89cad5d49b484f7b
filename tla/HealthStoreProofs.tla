------------------------- MODULE HealthStoreProofs -------------------------
(***************************************************************************)
(* Proofs about HealthStore for any devices, workers, reports, faults,     *)
(* validations, policies and bounds.  Every operation either leaves a      *)
(* device alone, or edits it and ends in reassessLocked, or (the first     *)
(* half of setPolicy, markLost, and a quarantine of a lost device) stops   *)
(* short of it.  The lemmas therefore speak of one device: what an edit    *)
(* may leave behind (Editable), what reassessLocked makes of it (Sound),   *)
(* and the ways an operation may change it (DeviceStep).  Module           *)
(* DeviceStepProofs goes on from there.                                    *)
(***************************************************************************)
EXTENDS HealthStore, TLAPS

(* What an operation may hand to reassessLocked: a quarantine or a failed      *)
(* validation may have pulled a recovering device into QUARANTINED, and a      *)
(* completed recovery may have made a quarantined one HEALTHY.                 *)
Editable(d) ==
  /\ d.state \in StoreStates
  /\ d.inRecovery => d.state \in {"RECOVERING", "REVALIDATING", "LOST", "QUARANTINED"}
  /\ d.state \in {"RECOVERING", "REVALIDATING"} => d.inRecovery
  /\ Quarantined(d) =>
       d.state \in {"QUARANTINED", "RECOVERING", "REVALIDATING", "LOST", "HEALTHY"}

(* What no transition, no reassessment and no new policy touches, *)
Frame(d, e) ==
  /\ e.generation = d.generation /\ e.lastWorker = d.lastWorker
  /\ e.lastWorkerBootId = d.lastWorkerBootId
  /\ e.lastObservation = d.lastObservation /\ e.dimensions = d.dimensions
  /\ e.faults = d.faults /\ e.validations = d.validations
  /\ e.validationRepeated = d.validationRepeated
  /\ e.highestValidation = d.highestValidation
  /\ e.quarantine = d.quarantine /\ e.quarantineIndexed = d.quarantineIndexed
  /\ e.successfulValidations = d.successfulValidations
  /\ e.inRecovery = d.inRecovery
  /\ e.deviceGenerationChanged = d.deviceGenerationChanged
  /\ e.requiresRevalidation = d.requiresRevalidation

(* and what a reassessment decides. *)
SameVerdict(d, e) ==
  /\ e.readiness = d.readiness
  /\ e.assessedPolicyGeneration = d.assessedPolicyGeneration
  /\ e.stateIndexed = d.stateIndexed /\ e.staleIndexed = d.staleIndexed

-----------------------------------------------------------------------------
(* Types of the decisions *)

(* The assessment engine always names a health state. *)
LEMMA TargetType ==
  ASSUME NEW d \in DeviceType, NEW pol, NEW t
  PROVE  Target(d, pol, t) \in HealthStates
BY DEF Target, DeviceType, HealthStates

(* The readiness evaluator covers every health state. *)
LEMMA ReadinessType ==
  ASSUME NEW d, d.state \in HealthStates, NEW pol, NEW t
  PROVE  Readiness(d, pol, t) \in ReadinessStates
BY DEF Readiness, HealthStates, ReadinessStates

(* A transition changes the state and the trail, and nothing else. *)
LEMMA ApplyTransitionFacts ==
  ASSUME NEW d \in DeviceType, NEW to \in HealthStates
  PROVE  /\ ApplyTransition(d, to) \in DeviceType
         /\ ApplyTransition(d, to).state = to
         /\ Frame(d, ApplyTransition(d, to))
         /\ SameVerdict(d, ApplyTransition(d, to))
         /\ ApplyTransition(d, to).policyGenerationChanged = d.policyGenerationChanged
<1> DEFINE longer == Append(d.trail, to)
           e == [d EXCEPT !.state = to, !.trail = longer]
<1>1. longer \in Seq(HealthStates)
  BY DEF DeviceType
<1> HIDE DEF longer
<1>2. /\ e \in DeviceType /\ e.state = to
      /\ e.policyGenerationChanged = d.policyGenerationChanged
  BY <1>1 DEF DeviceType
<1>3. Frame(d, e) /\ SameVerdict(d, e)
  BY DEF DeviceType, Frame, SameVerdict
<1>4. ApplyTransition(d, to) = IF d.state = to THEN d ELSE e
  BY DEF ApplyTransition, longer
<1>5. Frame(d, d) /\ SameVerdict(d, d)
  BY DEF Frame, SameVerdict
<1> HIDE DEF e
<1> QED
  BY <1>2, <1>3, <1>4, <1>5

-----------------------------------------------------------------------------
(* reassessLocked, field by field. *)
LEMMA ReassessFacts ==
  ASSUME NEW d \in DeviceType, NEW pol, NEW gen \in Nat, NEW t
  PROVE  LET r == ReassessLocked(d, pol, gen, t)
             target == Target(d, pol, t)
             blocked == target # d.state /\ ~CanTransition(d.state, target)
             moved == IF blocked THEN d ELSE ApplyTransition(d, target)
         IN  /\ r \in DeviceType
             /\ r.state = IF blocked THEN d.state ELSE target
             /\ r.state = moved.state
             /\ r.trail = moved.trail
             /\ r.readiness = IF blocked THEN "REVALIDATION_REQUIRED"
                              ELSE Readiness(moved, pol, t)
             /\ Frame(d, r)
             /\ Frame(d, moved)
             /\ r.policyGenerationChanged = d.policyGenerationChanged
             /\ moved.policyGenerationChanged = d.policyGenerationChanged
             /\ r.assessedPolicyGeneration = gen
             /\ r.stateIndexed = r.state
             /\ r.staleIndexed = OutOfDate(Freshness(pol, d.lastObservation, t))
<1> DEFINE target == Target(d, pol, t)
           blocked == target # d.state /\ ~CanTransition(d.state, target)
           moved == IF blocked THEN d ELSE ApplyTransition(d, target)
           ready == IF blocked THEN "REVALIDATION_REQUIRED" ELSE Readiness(moved, pol, t)
           stale == OutOfDate(Freshness(pol, d.lastObservation, t))
           r == [moved EXCEPT !.readiness = ready, !.assessedPolicyGeneration = gen,
                              !.staleIndexed = stale, !.stateIndexed = moved.state]
<1>1. target \in HealthStates
  BY TargetType
<1> HIDE DEF target
<1>2. /\ moved \in DeviceType
      /\ moved.state = IF blocked THEN d.state ELSE target
      /\ Frame(d, moved)
      /\ moved.policyGenerationChanged = d.policyGenerationChanged
  BY <1>1, ApplyTransitionFacts DEF Frame
<1>3. moved.state \in HealthStates
  BY <1>2 DEF DeviceType
<1>4. ready \in ReadinessStates
  BY <1>3, ReadinessType DEF ReadinessStates
<1>5. stale \in BOOLEAN
  BY DEF OutOfDate
<1>6. ReassessLocked(d, pol, gen, t) = r
  BY DEF ReassessLocked, target
<1> HIDE DEF moved, stale, ready
<1>7. /\ r \in DeviceType
      /\ r.state = moved.state /\ r.trail = moved.trail
      /\ r.readiness = ready
      /\ r.policyGenerationChanged = moved.policyGenerationChanged
      /\ r.assessedPolicyGeneration = gen
      /\ r.stateIndexed = moved.state /\ r.staleIndexed = stale
  BY <1>2, <1>3, <1>4, <1>5, ZenonT(60) DEF DeviceType
<1>8. Frame(moved, r)
  BY <1>2 DEF DeviceType, Frame
<1>9. Frame(d, r)
  BY <1>2, <1>8 DEF Frame
<1> QED
  BY <1>2, <1>6, <1>7, <1>9 DEF moved, ready, target, stale

(* Where a reassessment may take a device: a recovery stays a recovery, an     *)
(* active quarantine and fatal evidence prevail, and the way to HEALTHY is     *)
(* open from INITIALIZING alone, on evidence that is there.                    *)
LEMMA ReassessMoves ==
  ASSUME NEW d \in DeviceType, Editable(d), NEW pol, NEW gen \in Nat, NEW t
  PROVE  LET s == ReassessLocked(d, pol, gen, t).state IN
         /\ d.state = "LOST" => s = "LOST"
         /\ d.inRecovery /\ d.state # "LOST" =>
              s = IF d.state = "QUARANTINED" THEN "RECOVERING" ELSE d.state
         /\ ~d.inRecovery =>
              /\ \/ s = d.state
                 \/ /\ CanTransition(d.state, s)
                    /\ s \in {"HEALTHY", "DEGRADED", "UNHEALTHY", "FAILED", "QUARANTINED"}
              /\ Quarantined(d) /\ d.state # "LOST" => s = "QUARANTINED"
              /\ ~Quarantined(d) /\ HasOpenFatal(d.faults) /\ d.state = "HEALTHY" =>
                   s = "FAILED"
              /\ s = "HEALTHY" /\ d.state # "HEALTHY" =>
                   d.state = "INITIALIZING" /\ d.lastObservation # 0
<1> DEFINE s == ReassessLocked(d, pol, gen, t).state
           target == Target(d, pol, t)
           blocked == target # d.state /\ ~CanTransition(d.state, target)
<1>1. s = IF blocked THEN d.state ELSE target
  BY ReassessFacts
<1>2. d.inRecovery \in BOOLEAN /\ d.state \in HealthStates
  BY DEF DeviceType
<1>3. CASE d.inRecovery
  <2>1. target = IF d.state \in {"RECOVERING", "REVALIDATING"} THEN d.state ELSE "RECOVERING"
    BY <1>3 DEF Target, Editable, StoreStates, HealthStates
  <2> HIDE DEF target
  <2> QED
    BY <1>1, <1>3, <2>1 DEF Editable, StoreStates, HealthStates, CanTransition, LegalFrom
<1>4. CASE ~d.inRecovery
  <2>1. /\ target \in {"FAILED", "UNHEALTHY", "QUARANTINED", "DEGRADED", "HEALTHY", d.state}
        /\ Quarantined(d) => target = "QUARANTINED"
        /\ ~Quarantined(d) /\ HasOpenFatal(d.faults) => target = "FAILED"
    BY <1>4 DEF Target
  <2>2. target = "HEALTHY" => ~OutOfDate(Freshness(pol, d.lastObservation, t))
    BY <1>4 DEF Target
  <2>3. target = "HEALTHY" => d.lastObservation # 0
    BY <2>2 DEF OutOfDate, Freshness
  <2> HIDE DEF target
  <2> QED
    BY <1>1, <1>4, <2>1, <2>3 DEF Editable, StoreStates, HealthStates, CanTransition, LegalFrom
<1> QED
  BY <1>2, <1>3, <1>4

(* When a reassessment lets a device serve. *)
LEMMA ReassessReady ==
  ASSUME NEW d \in DeviceType, Editable(d), NEW pol, NEW gen \in Nat, NEW t,
         ReassessLocked(d, pol, gen, t).readiness \in ExecutionReady
  PROVE  LET s == ReassessLocked(d, pol, gen, t).state IN
         /\ s = Target(d, pol, t) /\ s \in {"HEALTHY", "DEGRADED"}
         /\ ~d.inRecovery /\ ~Quarantined(d) /\ ~HasOpenFatal(d.faults)
         /\ ~OutOfDate(Freshness(pol, d.lastObservation, t))
         /\ s = "HEALTHY" => ~NeedsRevalidation(d, pol)
         /\ s = "DEGRADED" => pol.allowDegraded
<1> DEFINE r == ReassessLocked(d, pol, gen, t)
           target == Target(d, pol, t)
           blocked == target # d.state /\ ~CanTransition(d.state, target)
           moved == IF blocked THEN d ELSE ApplyTransition(d, target)
<1>1. /\ r.state = IF blocked THEN d.state ELSE target
      /\ r.state = moved.state
      /\ r.readiness = IF blocked THEN "REVALIDATION_REQUIRED"
                       ELSE Readiness(moved, pol, t)
      /\ Frame(d, moved) /\ r \in DeviceType
      /\ moved.policyGenerationChanged = d.policyGenerationChanged
  BY ReassessFacts
<1>2. ~blocked
  BY <1>1 DEF ExecutionReady
<1>3. Readiness(moved, pol, t) \in ExecutionReady /\ moved.state \in HealthStates
  BY <1>1, <1>2 DEF DeviceType
<1>8. d.inRecovery \in BOOLEAN
  BY DEF DeviceType
<1> HIDE DEF r, moved
<1>4. /\ ~Quarantined(moved) /\ moved.state \in {"HEALTHY", "DEGRADED"}
      /\ ~OutOfDate(Freshness(pol, moved.lastObservation, t))
      /\ moved.state = "HEALTHY" => ~NeedsRevalidation(moved, pol)
      /\ moved.state = "DEGRADED" => pol.allowDegraded
  BY <1>3 DEF Readiness, ExecutionReady, HealthStates
<1>5. r.state = target /\ r.state = moved.state
  BY <1>1, <1>2
<1>6. ~d.inRecovery /\ ~HasOpenFatal(d.faults)
  BY <1>4, <1>5, <1>8 DEF Target
<1>7. NeedsRevalidation(moved, pol) <=> NeedsRevalidation(d, pol)
  BY <1>1 DEF NeedsRevalidation, Frame
<1> QED
  BY <1>1, <1>4, <1>5, <1>6, <1>7 DEF Frame, Quarantined, r

(* The heart of the safety argument: whatever an operation leaves of a device, *)
(* reassessLocked restores the soundness of its state and readiness.           *)
LEMMA ReassessSound ==
  ASSUME NEW d \in DeviceType, Editable(d), NEW pol, NEW gen \in Nat, NEW t
  PROVE  Sound(ReassessLocked(d, pol, gen, t))
<1> DEFINE r == ReassessLocked(d, pol, gen, t)
           target == Target(d, pol, t)
           blocked == target # d.state /\ ~CanTransition(d.state, target)
           moved == IF blocked THEN d ELSE ApplyTransition(d, target)
<1>1. /\ r.state = IF blocked THEN d.state ELSE target
      /\ r.readiness = IF blocked THEN "REVALIDATION_REQUIRED"
                       ELSE Readiness(moved, pol, t)
      /\ Frame(d, r) /\ Frame(d, moved) /\ r \in DeviceType
  BY ReassessFacts
<1>2. /\ d.state = "LOST" => r.state = "LOST"
      /\ d.inRecovery /\ d.state # "LOST" =>
           r.state = IF d.state = "QUARANTINED" THEN "RECOVERING" ELSE d.state
      /\ ~d.inRecovery =>
           /\ r.state \in {d.state, "HEALTHY", "DEGRADED", "UNHEALTHY", "FAILED", "QUARANTINED"}
           /\ Quarantined(d) /\ d.state # "LOST" => r.state = "QUARANTINED"
  BY ReassessMoves
<1>3. r.readiness \in ExecutionReady => ~HasOpenFatal(d.faults)
  BY ReassessReady
<1>4. d.inRecovery \in BOOLEAN /\ d.state \in HealthStates
  BY DEF DeviceType
<1>5. /\ r.state \in StoreStates
      /\ d.inRecovery => r.state \in {"RECOVERING", "REVALIDATING", "LOST"}
      /\ r.state \in {"RECOVERING", "REVALIDATING"} => d.inRecovery
      /\ Quarantined(d) =>
           r.state \in {"QUARANTINED", "RECOVERING", "REVALIDATING", "LOST"}
  BY <1>2, <1>4 DEF Editable, StoreStates, HealthStates
<1>6. Quarantined(d) /\ r.state # "LOST" => r.readiness = "QUARANTINED"
  <2>1. Quarantined(d) => Readiness(moved, pol, t) = "QUARANTINED"
    BY <1>1 DEF Frame, Quarantined, Readiness
  <2>2. Quarantined(d) /\ blocked => d.state = "LOST"
    <3>1. ~d.inRecovery /\ Quarantined(d) => target = "QUARANTINED"
      BY DEF Target
    <3>2. d.inRecovery =>
            target = IF d.state \in {"RECOVERING", "REVALIDATING"} THEN d.state ELSE "RECOVERING"
      BY DEF Target, Editable, StoreStates, HealthStates
    <3> HIDE DEF target
    <3> QED
      BY <1>4, <3>1, <3>2 DEF Editable, CanTransition, LegalFrom
  <2> QED
    BY <1>1, <2>1, <2>2
<1> HIDE DEF r
<1> QED
  BY <1>1, <1>3, <1>5, <1>6 DEF Sound, Frame, Quarantined, r

-----------------------------------------------------------------------------
(* The change log *)

(* The trail of d is a chain of legal transitions from one state to d's own. *)
Explained(from, d) ==
  LET path == <<from>> \o d.trail IN
  /\ d.state = path[Len(path)]
  /\ \A i \in 1 .. Len(d.trail) : CanTransition(path[i], path[i + 1])

(* An empty trail explains a state that has not changed. *)
LEMMA ExplainedStart ==
  ASSUME NEW d, d.trail = <<>> PROVE Explained(d.state, d)
BY DEF Explained

(* One more entry in the trail leaves the path before it as it was. *)
LEMMA TrailGrows ==
  ASSUME NEW from \in HealthStates, NEW t \in Seq(HealthStates), NEW to \in HealthStates
  PROVE  LET path == <<from>> \o t
             longer == <<from>> \o Append(t, to)
         IN  /\ Len(path) = Len(t) + 1 /\ Len(longer) = Len(t) + 2
             /\ \A i \in 1 .. Len(t) + 1 : longer[i] = path[i]
             /\ longer[Len(t) + 2] = to
OBVIOUS

(* A legal transition is explained if what came before it is. *)
LEMMA ExplainedStep ==
  ASSUME NEW d \in DeviceType, NEW from \in HealthStates, Explained(from, d),
         NEW to \in HealthStates, d.state = to \/ CanTransition(d.state, to)
  PROVE  Explained(from, ApplyTransition(d, to))
<1> DEFINE t == d.trail
           s == Append(t, to)
           path == <<from>> \o t
           longer == <<from>> \o s
<1>1. /\ t \in Seq(HealthStates) /\ s \in Seq(HealthStates)
      /\ Len(s) = Len(t) + 1 /\ Len(t) \in Nat
  BY DEF DeviceType
<1>2. CASE d.state = to
  BY <1>2 DEF ApplyTransition
<1>3. CASE d.state # to
  <2> DEFINE e == [d EXCEPT !.state = to, !.trail = s]
  <2>1. ApplyTransition(d, to) = e
    BY <1>3 DEF ApplyTransition
  <2> HIDE DEF s
  <2>2. e.state = to /\ e.trail = s
    BY DEF DeviceType
  <2>3. /\ Len(path) = Len(t) + 1 /\ Len(longer) = Len(t) + 2
        /\ \A i \in 1 .. Len(t) + 1 : longer[i] = path[i]
        /\ longer[Len(t) + 2] = to
    BY <1>1, TrailGrows DEF s
  <2>4. /\ d.state = path[Len(t) + 1]
        /\ \A i \in 1 .. Len(t) : CanTransition(path[i], path[i + 1])
    BY <2>3 DEF Explained
  <2> HIDE DEF e, t, path, longer
  <2>5. ASSUME NEW i \in 1 .. Len(s) PROVE CanTransition(longer[i], longer[i + 1])
    <3>1. CASE i \in 1 .. Len(t)
      <4>1. longer[i] = path[i] /\ longer[i + 1] = path[i + 1]
        BY <1>1, <2>3, <3>1
      <4> QED
        BY <2>4, <3>1, <4>1
    <3>2. CASE i = Len(t) + 1
      BY <1>1, <1>3, <2>3, <2>4, <3>2
    <3> QED
      BY <1>1, <3>1, <3>2
  <2> QED
    BY <1>1, <2>1, <2>2, <2>3, <2>5 DEF Explained, longer
<1> QED
  BY <1>2, <1>3

(* What reads only the trail and the state of a device. *)
LEMMA ExplainedSame ==
  ASSUME NEW d, NEW e, NEW from, Explained(from, d), e.trail = d.trail, e.state = d.state
  PROVE  Explained(from, e)
BY DEF Explained

(* reassessLocked moves along a legal transition or not at all. *)
LEMMA ReassessExplained ==
  ASSUME NEW d \in DeviceType, NEW from \in HealthStates, Explained(from, d),
         NEW pol, NEW gen \in Nat, NEW t
  PROVE  Explained(from, ReassessLocked(d, pol, gen, t))
<1> DEFINE r == ReassessLocked(d, pol, gen, t)
           target == Target(d, pol, t)
           blocked == target # d.state /\ ~CanTransition(d.state, target)
           moved == IF blocked THEN d ELSE ApplyTransition(d, target)
<1>1. r.state = moved.state /\ r.trail = moved.trail
  BY ReassessFacts
<1>2. Explained(from, moved)
  BY TargetType, ExplainedStep
<1> HIDE DEF r, moved
<1> QED
  BY <1>1, <1>2, ExplainedSame DEF r

-----------------------------------------------------------------------------
(* What an operation may do to a device before it reassesses it *)

Intact(d) == d \in DeviceType /\ Sound(d)

FaultsGrow(d, x) ==
  x.faults = d.faults \/ \E f \in Faults : x.faults = Append(d.faults, f)

(* No new evidence, though the old may be stripped; *)
SameEvidence(d, x) ==
  /\ x.generation = d.generation /\ x.dimensions = d.dimensions
  /\ x.lastWorker = d.lastWorker /\ x.lastWorkerBootId = d.lastWorkerBootId
  /\ x.requiresRevalidation = d.requiresRevalidation
  /\ x.lastObservation \in {0, d.lastObservation}

(* or evidence that has passed the fences. *)
Heard(d, x) ==
  LET from == <<x.lastWorker, x.lastWorkerBootId>> IN
  /\ from \in Workers \X Boots
  /\ workerBootRegistry[x.lastWorker] = x.lastWorkerBootId
  /\ lastObservedGeneration'[from] > lastObservedGeneration[from]
  /\ x.generation >= d.generation

(* The moves an edit may make by itself. *)
Unmoved(d, x) ==
  x.state = d.state /\ x.inRecovery = d.inRecovery /\ Quarantined(x) = Quarantined(d)

Released(d, x) ==
  /\ Quarantined(d) /\ ~Quarantined(x) /\ x.faults = d.faults
  /\ x.state = d.state /\ x.inRecovery = d.inRecovery

Held(d, x) ==
  /\ ~Quarantined(d) /\ Quarantined(x) /\ x.faults = d.faults
  /\ d.state # "LOST" /\ x.state = "QUARANTINED" /\ x.inRecovery = d.inRecovery

Begun(d, x) ==
  /\ Quarantined(x) = Quarantined(d) /\ x.faults = d.faults
  /\ ~d.inRecovery /\ d.state \in {"FAILED", "QUARANTINED"}
  /\ x.inRecovery /\ x.state = "RECOVERING"

Advanced(d, x) ==
  /\ Quarantined(x) = Quarantined(d) /\ x.faults = d.faults
  /\ d.inRecovery /\ d.state # "LOST"
  /\ \/ x.inRecovery /\ x.state \in {"REVALIDATING", "QUARANTINED"}
     \/ /\ ~x.inRecovery /\ x.state = "HEALTHY"
        /\ x.successfulValidations >= policy.recoveryValidationsRequired

Edited(d, x) ==
  /\ x \in DeviceType /\ Editable(x)
  /\ Explained(d.state, x)
  /\ d.quarantineIndexed = Quarantined(d) => x.quarantineIndexed = Quarantined(x)
  /\ FaultsGrow(d, x)
  /\ SameEvidence(d, x) \/ Heard(d, x)
  /\ Unmoved(d, x) \/ Released(d, x) \/ Held(d, x) \/ Begun(d, x) \/ Advanced(d, x)

(* Sound devices may be handed to reassessLocked as they are. *)
LEMMA SoundEditable ==
  ASSUME NEW d, Sound(d) PROVE Editable(d)
BY DEF Sound, Editable

(* An edit that enters no state and touches no quarantine. *)
Quiet(d, x) ==
  /\ x \in DeviceType /\ x.trail = <<>> /\ x.state = d.state
  /\ x.inRecovery = d.inRecovery /\ x.quarantine = d.quarantine
  /\ x.quarantineIndexed = d.quarantineIndexed

(* Such an edit leaves the moving to reassessLocked. *)
LEMMA QuietEdit ==
  ASSUME NEW d, Intact(d), NEW x, Quiet(d, x),
         FaultsGrow(d, x), SameEvidence(d, x) \/ Heard(d, x)
  PROVE  Edited(d, x)
<1>1. Editable(x) /\ Unmoved(d, x)
  BY DEF Quiet, Intact, Sound, Editable, Unmoved, Quarantined
<1>2. Explained(d.state, x)
  BY ExplainedStart DEF Quiet
<1> QED
  BY <1>1, <1>2 DEF Quiet, Edited, Quarantined

(* Starting an operation empties the trail of the last one and no more. *)
LEMMA ClearTrail ==
  ASSUME NEW d \in DeviceType
  PROVE  LET e == [d EXCEPT !.trail = <<>>] IN
         /\ e \in DeviceType /\ e.trail = <<>> /\ e.state = d.state
         /\ Frame(d, e) /\ SameVerdict(d, e)
<1> DEFINE empty == <<>>
           e == [d EXCEPT !.trail = empty]
<1>1. empty \in Seq(HealthStates)
  OBVIOUS
<1> HIDE DEF empty
<1>2. e \in DeviceType /\ e.trail = empty /\ e.state = d.state
  BY <1>1 DEF DeviceType
<1>3. Frame(d, e) /\ SameVerdict(d, e)
  BY DEF DeviceType, Frame, SameVerdict
<1> QED
  BY <1>2, <1>3 DEF empty

(* Soundness is a matter of the state, the verdict and the frame. *)
LEMMA SoundSame ==
  ASSUME NEW d, NEW e, Sound(d), e.state = d.state, Frame(d, e), SameVerdict(d, e)
  PROVE  Sound(e)
BY DEF Sound, Frame, SameVerdict, Quarantined

(* An operation starts from a device as sound as the last one left it. *)
LEMMA OpenedFacts ==
  ASSUME NEW id \in DOMAIN devices, Intact(devices[id])
  PROVE  /\ Intact(Opened(id)) /\ Quiet(devices[id], Opened(id))
         /\ Frame(devices[id], Opened(id)) /\ SameVerdict(devices[id], Opened(id))
         /\ FaultsGrow(devices[id], Opened(id)) /\ SameEvidence(devices[id], Opened(id))
<1> DEFINE o == Opened(id)
<1>1. /\ o \in DeviceType /\ o.trail = <<>> /\ o.state = devices[id].state
      /\ Frame(devices[id], o) /\ SameVerdict(devices[id], o)
  BY ClearTrail DEF Opened, Intact
<1> HIDE DEF o
<1>2. Sound(o)
  BY <1>1, SoundSame DEF Intact
<1> QED
  BY <1>1, <1>2 DEF Intact, Quiet, Frame, FaultsGrow, SameEvidence, o

(* A new device is sound. *)
LEMMA NewDeviceIntact ==
  ASSUME NEW listed \in BOOLEAN, NEW stale \in BOOLEAN
  PROVE  Intact(NewDevice(listed, stale))
<1>1. NewDevice(listed, stale) \in DeviceType
  <2>1. [k \in Kinds |-> "ABSENT"] \in [Kinds -> DimensionStates]
    BY DEF DimensionStates
  <2> DEFINE dims == [k \in Kinds |-> "ABSENT"]
  <2> HIDE DEF dims
  <2>2. <<>> \in Seq(HealthStates) /\ <<>> \in Seq(FaultType)
    OBVIOUS
  <2> QED
    BY <2>1, <2>2 DEF NewDevice, DeviceType, HealthStates, ReadinessStates, Depths
<1>2. Sound(NewDevice(listed, stale))
  BY DEF NewDevice, Sound, StoreStates, HealthStates, Quarantined, HasOpenFatal
<1> QED
  BY <1>1, <1>2 DEF Intact

(* A validation touches the ledger and the depth reached. *)
LEMMA WithValidationFacts ==
  ASSUME NEW d, NEW o, Quiet(d, o), o.faults = d.faults, SameEvidence(d, o),
         NEW v \in Validations
  PROVE  LET x == WithValidation(o, v) IN
         Quiet(d, x) /\ x.faults = d.faults /\ SameEvidence(d, x)
<1> USE ConstantsAssumption DEF ConstantsAssumption
<1> DEFINE ids == o.validations \cup {v.id}
           repeated == o.validationRepeated \/ v.id \in o.validations
           depth == IF v.passed /\ v.depth > o.highestValidation
                      THEN v.depth ELSE o.highestValidation
           x == [o EXCEPT !.validations = ids, !.validationRepeated = repeated,
                          !.highestValidation = depth]
<1>1. ids \in SUBSET {u.id : u \in Validations}
  BY DEF Quiet, DeviceType
<1>2. repeated \in BOOLEAN
  BY Zenon
<1>3. depth \in Depths
  BY DEF Quiet, DeviceType
<1>4. WithValidation(o, v) = x
  BY DEF WithValidation
<1> HIDE DEF ids, repeated, depth
<1>5. x \in DeviceType
  BY <1>1, <1>2, <1>3 DEF Quiet, DeviceType
<1>6. /\ x.trail = o.trail /\ x.state = o.state /\ x.inRecovery = o.inRecovery
      /\ x.quarantine = o.quarantine /\ x.quarantineIndexed = o.quarantineIndexed
      /\ x.faults = o.faults
      /\ x.generation = o.generation /\ x.dimensions = o.dimensions
      /\ x.lastWorker = o.lastWorker /\ x.lastWorkerBootId = o.lastWorkerBootId
      /\ x.requiresRevalidation = o.requiresRevalidation
      /\ x.lastObservation = o.lastObservation
  BY DEF Quiet, DeviceType
<1> HIDE DEF x
<1> QED
  BY <1>4, <1>5, <1>6 DEF Quiet, SameEvidence

(* A transition the edit makes on the way to reassessLocked. *)
LEMMA TransitionEdit ==
  ASSUME NEW d, Intact(d), NEW o, Quiet(d, o), o.faults = d.faults, SameEvidence(d, o),
         NEW to \in HealthStates, o.state = to \/ CanTransition(o.state, to)
  PROVE  LET m == ApplyTransition(o, to) IN
         /\ m \in DeviceType /\ m.state = to /\ Frame(o, m)
         /\ Explained(d.state, m) /\ SameEvidence(d, m) /\ FaultsGrow(d, m)
<1> DEFINE m == ApplyTransition(o, to)
<1>1. m \in DeviceType /\ m.state = to /\ Frame(o, m)
  BY ApplyTransitionFacts DEF Quiet
<1>2. Explained(d.state, o) /\ d.state \in HealthStates
  BY ExplainedStart DEF Quiet, Intact, DeviceType
<1>3. Explained(d.state, m)
  BY <1>2, ExplainedStep DEF Quiet
<1>4. SameEvidence(d, m) /\ FaultsGrow(d, m)
  BY <1>1 DEF Frame, SameEvidence, FaultsGrow
<1> QED
  BY <1>1, <1>3, <1>4

(* A passed validation advances the recovery, or completes it, or is counted   *)
(* for a device that is lost.                                                  *)
LEMMA RecoveryPassedEdit ==
  ASSUME NEW d, Intact(d), d.inRecovery,
         NEW o, Quiet(d, o), o.faults = d.faults, SameEvidence(d, o)
  PROVE  Edited(d, RecoveryPassed(o, policy.recoveryValidationsRequired))
<1> DEFINE n == policy.recoveryValidationsRequired
           c == IF o.state = "RECOVERING" THEN ApplyTransition(o, "REVALIDATING") ELSE o
           count == c.successfulValidations + 1
           e == [c EXCEPT !.successfulValidations = count]
           h == ApplyTransition(e, "HEALTHY")
           f == [h EXCEPT !.inRecovery = FALSE]
<1>1. /\ "HEALTHY" \in HealthStates /\ "REVALIDATING" \in HealthStates
      /\ CanTransition("RECOVERING", "REVALIDATING") /\ CanTransition("REVALIDATING", "HEALTHY")
  BY DEF HealthStates, CanTransition, LegalFrom
<1>2. /\ c \in DeviceType /\ Frame(o, c) /\ Explained(d.state, c)
      /\ c.state = IF d.state = "LOST" THEN "LOST" ELSE "REVALIDATING"
      /\ d.state \in HealthStates
  <2>1. d.state \in {"RECOVERING", "REVALIDATING", "LOST"} /\ d.state \in HealthStates
    BY DEF Intact, Sound, DeviceType
  <2>2. CASE o.state = "RECOVERING"
    BY <1>1, <2>1, <2>2, TransitionEdit DEF Quiet
  <2>3. CASE o.state # "RECOVERING"
    BY <2>1, <2>3, ExplainedStart DEF Quiet, Frame
  <2> QED
    BY <2>2, <2>3
<1> HIDE DEF c
<1>3. count \in Nat
  BY <1>2 DEF DeviceType
<1> HIDE DEF count
<1>4. /\ e \in DeviceType /\ e.state = c.state /\ e.trail = c.trail
      /\ e.successfulValidations = count /\ e.inRecovery = o.inRecovery
      /\ e.quarantine = o.quarantine /\ e.quarantineIndexed = o.quarantineIndexed
      /\ e.faults = d.faults /\ SameEvidence(d, e)
  BY <1>2, <1>3, SMTT(30) DEF DeviceType, Frame, SameEvidence
<1> HIDE DEF e
<1>5. Explained(d.state, e)
  BY <1>2, <1>4, ExplainedSame
<1>6. Edited(d, e)
  <2>1. Editable(e)
    BY <1>2, <1>4 DEF Quiet, Editable, StoreStates, HealthStates, Quarantined
  <2>2. Unmoved(d, e) \/ Advanced(d, e)
    BY <1>2, <1>4 DEF Quiet, Unmoved, Advanced, Quarantined
  <2> QED
    BY <1>4, <1>5, <2>1, <2>2 DEF Quiet, Edited, FaultsGrow, Quarantined
<1>7. ASSUME e.state = "REVALIDATING", e.successfulValidations >= n PROVE Edited(d, f)
  <2>1. /\ h \in DeviceType /\ h.state = "HEALTHY" /\ Frame(e, h)
        /\ Explained(d.state, h)
    BY <1>1, <1>2, <1>4, <1>5, <1>7, ApplyTransitionFacts, ExplainedStep
  <2>2. SameEvidence(d, h) /\ h.faults = d.faults
    BY <1>4, <2>1 DEF Frame, SameEvidence
  <2> HIDE DEF h
  <2>3. /\ f \in DeviceType /\ f.state = h.state /\ f.trail = h.trail /\ ~f.inRecovery
        /\ f.successfulValidations = h.successfulValidations
        /\ f.quarantine = h.quarantine /\ f.quarantineIndexed = h.quarantineIndexed
        /\ f.faults = h.faults
    BY <2>1 DEF DeviceType
  <2>4. SameEvidence(d, f)
    BY <2>1, <2>2 DEF DeviceType, SameEvidence
  <2> HIDE DEF f
  <2>5. Explained(d.state, f)
    BY <2>1, <2>3, ExplainedSame
  <2>6. Editable(f)
    BY <2>1, <2>3 DEF Editable, StoreStates, HealthStates, Quarantined
  <2>7. Advanced(d, f)
    <3>1. d.state # "LOST"
      BY <1>2, <1>4, <1>7
    <3>2. f.quarantine = d.quarantine /\ f.successfulValidations >= n
      BY <1>4, <1>7, <2>1, <2>3 DEF Frame, Quiet
    <3> QED
      BY <2>1, <2>2, <2>3, <3>1, <3>2 DEF Advanced, Quarantined
  <2> QED
    BY <1>4, <2>1, <2>2, <2>3, <2>4, <2>5, <2>6, <2>7
    DEF Quiet, Edited, FaultsGrow, Frame, Quarantined
<1>8. RecoveryPassed(o, n) = IF e.state = "REVALIDATING" /\ e.successfulValidations >= n
                               THEN f ELSE e
  BY DEF RecoveryPassed, f, h, e, count, c
<1> HIDE DEF f
<1> QED
  BY <1>6, <1>7, <1>8

(* A failed one pulls the device into QUARANTINED, recovery flag and all. *)
LEMMA RecoveryFailedEdit ==
  ASSUME NEW d, Intact(d), d.inRecovery,
         NEW o, Quiet(d, o), o.faults = d.faults, SameEvidence(d, o)
  PROVE  Edited(d, RecoveryFailed(o))
<1>1. CASE o.state \in {"RECOVERING", "REVALIDATING"}
  <2> DEFINE m == ApplyTransition(o, "QUARANTINED")
  <2>1. "QUARANTINED" \in HealthStates /\ CanTransition(o.state, "QUARANTINED")
    BY <1>1 DEF HealthStates, CanTransition, LegalFrom
  <2>2. /\ m \in DeviceType /\ m.state = "QUARANTINED" /\ Frame(o, m)
        /\ Explained(d.state, m) /\ SameEvidence(d, m) /\ FaultsGrow(d, m)
    BY <2>1, TransitionEdit
  <2>3. RecoveryFailed(o) = m
    BY <1>1 DEF RecoveryFailed
  <2> HIDE DEF m
  <2>4. Editable(m)
    BY <2>1, <2>2 DEF Editable, StoreStates, HealthStates
  <2>5. Advanced(d, m)
    BY <1>1, <2>2 DEF Advanced, Quiet, Frame, Quarantined
  <2> QED
    BY <2>2, <2>3, <2>4, <2>5 DEF Edited, Quiet, Frame, Quarantined
<1>2. CASE o.state \notin {"RECOVERING", "REVALIDATING"}
  BY <1>2, QuietEdit DEF RecoveryFailed, FaultsGrow
<1> QED
  BY <1>1, <1>2

-----------------------------------------------------------------------------
(* The whole store *)

(* Flagged by the first half of setPolicy, *)
Flagged(d, e) ==
  /\ policyGeneration' = policyGeneration + 1
  /\ e \in DeviceType /\ e.trail = <<>> /\ e.state = d.state
  /\ Frame(d, e) /\ SameVerdict(d, e)

(* lost, *)
Lost(d, e) ==
  /\ e \in DeviceType /\ Explained(d.state, e) /\ e.state = "LOST"
  /\ Frame(d, e) /\ SameVerdict(d, e)

(* or quarantined when it was lost already. *)
HeldWhenLost(d, e) ==
  /\ e \in DeviceType /\ e.trail = <<>> /\ e.state = "LOST" /\ d.state = "LOST"
  /\ ~Quarantined(d) /\ Quarantined(e) /\ e.quarantineIndexed
  /\ e.faults = d.faults /\ e.inRecovery = d.inRecovery
  /\ SameEvidence(d, e) /\ e.lastObservation = d.lastObservation /\ SameVerdict(d, e)

(* All an operation may do to one device. *)
DeviceStep(d, e) ==
  \/ e = d \/ Flagged(d, e) \/ Lost(d, e) \/ HeldWhenLost(d, e)
  \/ \E x \in DeviceType : Edited(d, x) /\ e = Assessed(x)

(* A new device takes an id nobody had, unless uuid 0 is in use. *)
New(id) ==
  /\ devices'[id] = NewDevice(id \in DOMAIN devices /\ devices[id].quarantineIndexed,
                              id \in DOMAIN devices /\ devices[id].staleIndexed)
  /\ 0 \notin Uuids => id \notin DOMAIN uuidIndex /\ id \in DOMAIN uuidIndex'

(* All it may do to the devices, *)
DevicesStep ==
  /\ DOMAIN devices \subseteq DOMAIN devices' /\ DOMAIN devices' \subseteq Nat
  /\ \E n : DOMAIN devices' \subseteq DOMAIN devices \cup {n}
  /\ \A id \in DOMAIN devices' :
       \/ id \in DOMAIN devices /\ DeviceStep(devices[id], devices'[id])
       \/ New(id)

(* to the policy in force, *)
PolicyStep ==
  \/ UNCHANGED <<policy, policyGeneration, pendingReassess>>
  \/ policyGeneration' = policyGeneration + 1 /\ pendingReassess' > 0
  \/ /\ UNCHANGED <<policy, policyGeneration>>
     /\ \A id \in DOMAIN devices' :
          devices'[id].assessedPolicyGeneration = policyGeneration

(* and to the rest, of which TypeOK says this. *)
RestTyped ==
  /\ DOMAIN uuidIndex \subseteq Uuids
  /\ \A u \in DOMAIN uuidIndex : uuidIndex[u] \in Nat
  /\ nextDeviceRaw \in Nat
  /\ workerBootRegistry \in [Workers -> Boots \cup {NoBoot}]
  /\ lastObservedGeneration \in [Workers \X Boots -> Nat]
  /\ policy \in PolicyType
  /\ policyGeneration \in Nat
  /\ pendingReassess \in Nat
  /\ coordinatorEpoch \in Epochs
  /\ now \in Nat

RestStep ==
  /\ RestTyped'
  /\ DOMAIN uuidIndex \subseteq DOMAIN uuidIndex'
  /\ \A wb \in Workers \X Boots : lastObservedGeneration'[wb] >= lastObservedGeneration[wb]
  /\ now <= now'

StoreStep == DevicesStep /\ PolicyStep /\ RestStep

DevicesIntact == \A id \in DOMAIN devices : Intact(devices[id])

(* The inductive invariant: typed variables, every device sound, and no        *)
(* assessment of an old policy left once the setPolicy calls are done.         *)
StoreInv == TypeOK /\ DevicesIntact
Inv == StoreInv /\ NoStalePolicyAssessment

(* reassessLocked as the operations call it. *)
LEMMA AssessedIntact ==
  ASSUME TypeOK, NEW x \in DeviceType, Editable(x)
  PROVE  /\ Intact(Assessed(x)) /\ Frame(x, Assessed(x))
         /\ Assessed(x).assessedPolicyGeneration = policyGeneration
<1>1. policyGeneration \in Nat
  BY DEF TypeOK
<1> QED
  BY <1>1, ReassessFacts, ReassessSound DEF Assessed, Intact

(* No operation leaves a device unsound. *)
LEMMA DeviceStepIntact ==
  ASSUME TypeOK, NEW d, Intact(d), NEW e, DeviceStep(d, e)
  PROVE  /\ Intact(e)
         /\ e.assessedPolicyGeneration \in {policyGeneration, d.assessedPolicyGeneration}
<1>1. CASE e = d
  BY <1>1
<1>2. CASE Flagged(d, e)
  BY <1>2, SoundSame DEF Flagged, Intact, SameVerdict
<1>3. CASE Lost(d, e)
  BY <1>3 DEF Lost, Intact, Sound, Frame, SameVerdict, Quarantined, StoreStates, HealthStates
<1>4. CASE HeldWhenLost(d, e)
  BY <1>4 DEF HeldWhenLost, Intact, Sound, SameVerdict, Quarantined
<1>5. ASSUME NEW x \in DeviceType, Edited(d, x), e = Assessed(x)
      PROVE  Intact(e) /\ e.assessedPolicyGeneration = policyGeneration
  BY <1>5, AssessedIntact DEF Edited
<1> QED
  BY <1>1, <1>2, <1>3, <1>4, <1>5 DEF DeviceStep

(* A step of the store keeps the invariant. *)
LEMMA StoreStepInv ==
  ASSUME StoreInv, StoreStep
  PROVE  StoreInv' /\ (NoStalePolicyAssessment => NoStalePolicyAssessment')
<1>1. ASSUME NEW id \in DOMAIN devices'
      PROVE  /\ Intact(devices'[id])
             /\ \/ devices'[id].assessedPolicyGeneration \in {0, policyGeneration}
                \/ /\ id \in DOMAIN devices
                   /\ devices'[id].assessedPolicyGeneration
                        = devices[id].assessedPolicyGeneration
  <2>1. CASE id \in DOMAIN devices /\ DeviceStep(devices[id], devices'[id])
    BY <2>1, DeviceStepIntact DEF StoreInv, DevicesIntact
  <2>2. CASE New(id)
    <3> DEFINE listed == id \in DOMAIN devices /\ devices[id].quarantineIndexed
               stale  == id \in DOMAIN devices /\ devices[id].staleIndexed
    <3>1. listed \in BOOLEAN /\ stale \in BOOLEAN
      BY Zenon
    <3>2. devices'[id] = NewDevice(listed, stale)
      BY <2>2 DEF New
    <3> HIDE DEF listed, stale
    <3>3. /\ Intact(NewDevice(listed, stale))
          /\ NewDevice(listed, stale).assessedPolicyGeneration = 0
      BY <3>1, NewDeviceIntact DEF NewDevice
    <3> QED
      BY <3>2, <3>3
  <2> QED
    BY <2>1, <2>2 DEF StoreStep, DevicesStep
<1>2. DevicesIntact' /\ \A id \in DOMAIN devices' : devices'[id] \in DeviceType
  BY <1>1 DEF DevicesIntact, Intact
<1>3. TypeOK'
  BY <1>2 DEF TypeOK, StoreStep, DevicesStep, RestStep, RestTyped
<1>4. NoStalePolicyAssessment => NoStalePolicyAssessment'
  BY <1>1 DEF NoStalePolicyAssessment, StoreStep, PolicyStep
<1> QED
  BY <1>2, <1>3, <1>4 DEF StoreInv

-----------------------------------------------------------------------------
(* Each operation is a step of the store *)

(* Most change nothing beyond the devices, *)
LEMMA DevicesOnly ==
  ASSUME StoreInv, DevicesStep, UNCHANGED <<identityVars, registryVars, policyVars, now>>
  PROVE  StoreStep
<1>1. RestStep
  BY DEF StoreInv, TypeOK, RestStep, RestTyped, identityVars, registryVars, policyVars
<1>2. PolicyStep
  BY DEF PolicyStep, policyVars
<1> QED
  BY <1>1, <1>2 DEF StoreStep

(* and there only one of them. *)
LEMMA OneDevice ==
  ASSUME StoreInv, NEW id \in DOMAIN devices, NEW e, DeviceStep(devices[id], e),
         devices' = [devices EXCEPT ![id] = e]
  PROVE  DevicesStep
<1>1. DOMAIN devices' = DOMAIN devices /\ DOMAIN devices \subseteq Nat
  BY DEF StoreInv, TypeOK
<1>2. ASSUME NEW n \in DOMAIN devices' PROVE DeviceStep(devices[n], devices'[n])
  <2>1. devices'[n] = IF n = id THEN e ELSE devices[n]
    BY <1>1
  <2> QED
    BY <2>1 DEF DeviceStep
<1> QED
  BY <1>1, <1>2 DEF DevicesStep

(* An edit of one device and its reassessment. *)
LEMMA EditOne ==
  ASSUME StoreInv, NEW id \in DOMAIN devices, NEW x, Edited(devices[id], x),
         devices' = [devices EXCEPT ![id] = Assessed(x)]
  PROVE  DevicesStep
<1>1. DeviceStep(devices[id], Assessed(x))
  BY DEF DeviceStep, Edited
<1> QED
  BY <1>1, OneDevice

(* A device opened and reassessed as it is. *)
LEMMA OpenedEdit ==
  ASSUME StoreInv, NEW id \in DOMAIN devices
  PROVE  Edited(devices[id], Opened(id))
BY OpenedFacts, QuietEdit DEF StoreInv, DevicesIntact

(* The first half of setPolicy only raises flags. *)
LEMMA SetPolicyStep ==
  ASSUME StoreInv, NEW p \in Policies, SetPolicy(p) PROVE StoreStep
<1>1. ASSUME NEW id \in DOMAIN devices
      PROVE  DeviceStep(devices[id], devices'[id])
  <2> DEFINE d == devices[id]
             f == [d EXCEPT !.policyGenerationChanged = TRUE]
             e == [f EXCEPT !.trail = <<>>]
  <2>1. d \in DeviceType
    BY DEF StoreInv, TypeOK
  <2>2. devices'[id] = e
    BY DEF SetPolicy
  <2> HIDE DEF d
  <2>3. f \in DeviceType /\ f.state = d.state /\ Frame(d, f) /\ SameVerdict(d, f)
    BY <2>1 DEF DeviceType, Frame, SameVerdict
  <2> HIDE DEF f
  <2>4. /\ e \in DeviceType /\ e.trail = <<>> /\ e.state = f.state
        /\ Frame(f, e) /\ SameVerdict(f, e)
    BY <2>3, ClearTrail
  <2> HIDE DEF e
  <2>5. Flagged(d, e)
    BY <2>3, <2>4 DEF Flagged, Frame, SameVerdict, SetPolicy
  <2> QED
    BY <2>2, <2>5 DEF DeviceStep, d
<1>2. DOMAIN devices' = DOMAIN devices
  BY DEF SetPolicy
<1>3. DevicesStep
  BY <1>1, <1>2 DEF DevicesStep, StoreInv, TypeOK
<1>4. p \in PolicyType
  BY ConstantsAssumption DEF ConstantsAssumption
<1>5. /\ policy' = p /\ policyGeneration' = policyGeneration + 1
      /\ pendingReassess' = pendingReassess + 1
      /\ UNCHANGED <<identityVars, registryVars, now>>
  BY DEF SetPolicy
<1>6. RestStep
  BY <1>4, <1>5 DEF StoreInv, TypeOK, RestStep, RestTyped, identityVars, registryVars
<1>7. PolicyStep
  BY <1>5 DEF StoreInv, TypeOK, PolicyStep
<1> QED
  BY <1>3, <1>6, <1>7 DEF StoreStep

(* A reassessment of the whole store brings it up to the policy in force. *)
LEMMA AllAssessedStep ==
  ASSUME StoreInv, devices' = AllAssessed(devices)
  PROVE  /\ DevicesStep
         /\ \A id \in DOMAIN devices' :
              devices'[id].assessedPolicyGeneration = policyGeneration
<1>1. ASSUME NEW id \in DOMAIN devices
      PROVE  /\ devices'[id] = Assessed(Opened(id))
             /\ DeviceStep(devices[id], devices'[id])
             /\ devices'[id].assessedPolicyGeneration = policyGeneration
  <2>1. devices'[id] = Assessed(Opened(id))
    BY DEF AllAssessed, Opened
  <2>2. Edited(devices[id], Opened(id))
    BY OpenedEdit
  <2> QED
    BY <2>1, <2>2, AssessedIntact DEF DeviceStep, Edited, StoreInv
<1>2. DOMAIN devices' = DOMAIN devices
  BY DEF AllAssessed
<1> QED
  BY <1>1, <1>2 DEF DevicesStep, StoreInv, TypeOK

(* The second half of setPolicy does so. *)
LEMMA FinishSetPolicyStep ==
  ASSUME StoreInv, FinishSetPolicy PROVE StoreStep
<1>1. DevicesStep /\ PolicyStep
  BY AllAssessedStep DEF FinishSetPolicy, PolicyStep
<1>2. RestStep
  BY DEF FinishSetPolicy, StoreInv, TypeOK, RestStep, RestTyped, identityVars, registryVars
<1> QED
  BY <1>1, <1>2 DEF StoreStep

(* invalidateWorker strips evidence from the devices of its worker. *)
LEMMA InvalidateWorkerStep ==
  ASSUME StoreInv, NEW w \in Workers, NEW b \in Boots, InvalidateWorker(w, b)
  PROVE  StoreStep
<1>1. ASSUME NEW id \in DOMAIN devices
      PROVE  DeviceStep(devices[id], devices'[id])
  <2> DEFINE d == devices[id]
             o == Opened(id)
             x == [o EXCEPT !.lastObservation = 0, !.deviceGenerationChanged = FALSE]
  <2>1. Intact(d) /\ o \in DeviceType /\ Quiet(d, o) /\ o.faults = d.faults /\ SameEvidence(d, o)
    BY OpenedFacts DEF StoreInv, DevicesIntact, Intact, Frame
  <2>2. devices'[id] = d \/ devices'[id] = Assessed(x)
    BY DEF InvalidateWorker
  <2> HIDE DEF o, d
  <2>3. Quiet(d, x) /\ SameEvidence(d, x) /\ FaultsGrow(d, x)
    BY <2>1 DEF Quiet, DeviceType, SameEvidence, FaultsGrow
  <2> HIDE DEF x
  <2>4. Edited(d, x)
    BY <2>1, <2>3, QuietEdit
  <2> QED
    BY <2>2, <2>4 DEF DeviceStep, Edited, d
<1>2. DOMAIN devices' = DOMAIN devices
  BY DEF InvalidateWorker
<1>3. DevicesStep
  BY <1>1, <1>2 DEF DevicesStep, StoreInv, TypeOK
<1>4. RestStep
  <2>1. /\ workerBootRegistry' = [workerBootRegistry EXCEPT ![w] = NoBoot]
        /\ UNCHANGED <<identityVars, lastObservedGeneration, coordinatorEpoch, policyVars, now>>
    BY DEF InvalidateWorker
  <2> QED
    BY <2>1 DEF StoreInv, TypeOK, RestStep, RestTyped, identityVars, policyVars
<1>5. PolicyStep
  BY DEF InvalidateWorker, PolicyStep, policyVars
<1> QED
  BY <1>3, <1>4, <1>5 DEF StoreStep

(* registerDevice adds a device, or puts one in another's place. *)
LEMMA RegisterDeviceStep ==
  ASSUME StoreInv, NEW u \in Uuids, RegisterDevice(u) PROVE StoreStep
<1> USE ConstantsAssumption DEF ConstantsAssumption
<1> DEFINE id == IF u # 0 THEN u ELSE nextDeviceRaw
           listed == id \in DOMAIN devices /\ devices[id].quarantineIndexed
           stale == id \in DOMAIN devices /\ devices[id].staleIndexed
<1>1. id \in Nat /\ nextDeviceRaw \in Nat
  BY DEF StoreInv, TypeOK
<1>2. /\ devices' = [x \in DOMAIN devices \cup {id} |->
                      IF x = id THEN NewDevice(listed, stale) ELSE devices[x]]
      /\ uuidIndex' = [x \in DOMAIN uuidIndex \cup {u} |->
                         IF x = u THEN id ELSE uuidIndex[x]]
      /\ nextDeviceRaw' = IF u # 0 THEN nextDeviceRaw ELSE nextDeviceRaw + 1
      /\ u \notin DOMAIN uuidIndex
  BY DEF RegisterDevice
<1>3. 0 \notin Uuids => id = u
  OBVIOUS
<1> HIDE DEF listed, stale, id
<1>4. New(id)
  BY <1>2, <1>3 DEF New, listed, stale
<1>5. \A x \in DOMAIN devices : x # id => DeviceStep(devices[x], devices'[x])
  BY <1>2 DEF DeviceStep
<1>6. DOMAIN devices' = DOMAIN devices \cup {id}
  BY <1>2
<1>7. DevicesStep
  BY <1>1, <1>4, <1>5, <1>6 DEF DevicesStep, StoreInv, TypeOK
<1>8. RestStep
  BY <1>1, <1>2
  DEF RegisterDevice, StoreInv, TypeOK, RestStep, RestTyped, registryVars, policyVars
<1>9. PolicyStep
  BY DEF RegisterDevice, PolicyStep, policyVars
<1> QED
  BY <1>7, <1>8, <1>9 DEF StoreStep

(* markLost is legal from every state of the store. *)
LEMMA MarkLostStep ==
  ASSUME StoreInv, NEW id \in DOMAIN devices, MarkLost(id) PROVE StoreStep
<1> DEFINE d == devices[id]
           o == Opened(id)
           e == ApplyTransition(o, "LOST")
<1>1. /\ Intact(d) /\ Quiet(d, o) /\ o.faults = d.faults /\ SameEvidence(d, o)
      /\ Frame(d, o) /\ SameVerdict(d, o)
  BY OpenedFacts DEF StoreInv, DevicesIntact, Frame
<1>2. "LOST" \in HealthStates /\ (o.state = "LOST" \/ CanTransition(o.state, "LOST"))
  BY <1>1 DEF Quiet, Intact, Sound, StoreStates, HealthStates, CanTransition, LegalFrom
<1>3. devices' = [devices EXCEPT ![id] = e]
  BY DEF MarkLost
<1> HIDE DEF o, d
<1>4. e \in DeviceType /\ e.state = "LOST" /\ Frame(o, e) /\ Explained(d.state, e)
  BY <1>1, <1>2, TransitionEdit
<1>5. SameVerdict(o, e)
  BY <1>1, <1>2, ApplyTransitionFacts DEF Quiet
<1> HIDE DEF e
<1>6. Lost(d, e)
  BY <1>1, <1>4, <1>5 DEF Lost, Frame, SameVerdict
<1>7. DevicesStep
  BY <1>3, <1>6, OneDevice DEF DeviceStep, d
<1> QED
  BY <1>7, DevicesOnly DEF MarkLost

(* An observation is admitted past the fences and then reassessed. *)
LEMMA AcceptObservationStep ==
  ASSUME StoreInv, NEW id \in DOMAIN devices, NEW env \in Envelopes, NEW t \in Timestamps,
         NEW r \in Reports, AcceptObservation(id, env, t, r)
  PROVE  StoreStep
<1> DEFINE d == devices[id]
           o == Opened(id)
           from == <<env.worker, env.boot>>
           changed == o.deviceGenerationChanged \/ env.deviceGeneration > o.generation
           dims == [k \in Kinds |-> IF r[k] = "ABSENT" THEN o.dimensions[k] ELSE r[k]]
           x == [o EXCEPT !.generation = env.deviceGeneration,
                          !.deviceGenerationChanged = changed,
                          !.lastWorker = env.worker,
                          !.lastWorkerBootId = env.boot,
                          !.requiresRevalidation = FALSE,
                          !.dimensions = dims,
                          !.lastObservation = t]
<1>1. Intact(d) /\ Intact(o) /\ Quiet(d, o) /\ Frame(d, o)
  BY OpenedFacts DEF StoreInv, DevicesIntact
<1>2. /\ env.worker \in Workers /\ env.boot \in Boots
      /\ env.deviceGeneration \in Nat /\ env.observationGeneration \in Nat
      /\ from \in Workers \X Boots
  BY ConstantsAssumption DEF ConstantsAssumption, Envelopes
<1>3. t \in Nat /\ r \in [Kinds -> DimensionStates]
  BY ConstantsAssumption DEF ConstantsAssumption
<1>4. devices' = [devices EXCEPT ![id] = Assessed(x)]
  BY DEF AcceptObservation
<1>5. /\ workerBootRegistry[env.worker] = env.boot
      /\ env.observationGeneration > lastObservedGeneration[from]
      /\ env.deviceGeneration >= d.generation
  BY DEF AcceptObservation, Admits
<1>6. /\ lastObservedGeneration' =
           [lastObservedGeneration EXCEPT ![from] = env.observationGeneration]
      /\ lastObservedGeneration \in [Workers \X Boots -> Nat]
  BY DEF AcceptObservation, StoreInv, TypeOK
<1> HIDE DEF o, d, from
<1>7. /\ lastObservedGeneration'[from] > lastObservedGeneration[from]
      /\ \A wb \in Workers \X Boots : lastObservedGeneration'[wb] >= lastObservedGeneration[wb]
      /\ lastObservedGeneration' \in [Workers \X Boots -> Nat]
  BY <1>2, <1>5, <1>6
<1>8. o.dimensions \in [Kinds -> DimensionStates]
  BY <1>1 DEF Intact, DeviceType
<1>9. dims \in [Kinds -> DimensionStates]
  BY <1>3, <1>8
<1>10. changed \in BOOLEAN
  BY Zenon
<1> HIDE DEF dims, changed
<1>11. /\ x \in DeviceType /\ x.trail = o.trail /\ x.state = o.state
       /\ x.inRecovery = o.inRecovery /\ x.quarantine = o.quarantine
       /\ x.quarantineIndexed = o.quarantineIndexed /\ x.faults = o.faults
       /\ x.generation = env.deviceGeneration
       /\ x.lastWorker = env.worker /\ x.lastWorkerBootId = env.boot
  BY <1>1, <1>2, <1>3, <1>9, <1>10, ZenonT(60) DEF Intact, DeviceType
<1> HIDE DEF x
<1>12. Quiet(d, x) /\ FaultsGrow(d, x)
  BY <1>1, <1>11 DEF Quiet, FaultsGrow, Frame
<1>13. Heard(d, x)
  BY <1>2, <1>5, <1>7, <1>11 DEF Heard, from
<1>14. DevicesStep
  BY <1>1, <1>4, <1>12, <1>13, QuietEdit, EditOne DEF d
<1>15. RestStep
  BY <1>7 DEF AcceptObservation, StoreInv, TypeOK, RestStep, RestTyped, identityVars, policyVars
<1>16. PolicyStep
  BY DEF AcceptObservation, PolicyStep, policyVars
<1> QED
  BY <1>14, <1>15, <1>16 DEF StoreStep

(* A fault joins the history at its end. *)
LEMMA RecordFaultStep ==
  ASSUME StoreInv, NEW id \in DOMAIN devices, NEW f \in Faults, RecordFault(id, f)
  PROVE  StoreStep
<1> DEFINE d == devices[id]
           o == Opened(id)
           longer == Append(o.faults, f)
           x == [o EXCEPT !.faults = longer]
<1>1. Intact(d) /\ Intact(o) /\ Quiet(d, o) /\ o.faults = d.faults /\ SameEvidence(d, o)
  BY OpenedFacts DEF StoreInv, DevicesIntact, Frame
<1>2. f \in FaultType
  BY ConstantsAssumption DEF ConstantsAssumption
<1>3. devices' = [devices EXCEPT ![id] = Assessed(x)]
  BY DEF RecordFault
<1> HIDE DEF o, d
<1>4. o.faults \in Seq(FaultType)
  BY <1>1 DEF Intact, DeviceType
<1>5. longer \in Seq(FaultType) /\ longer = Append(d.faults, f)
  BY <1>1, <1>2, <1>4
<1> HIDE DEF longer
<1>6. Quiet(d, x) /\ SameEvidence(d, x) /\ x.faults = longer
  BY <1>1, <1>5 DEF Intact, Quiet, DeviceType, SameEvidence
<1> HIDE DEF x
<1>7. Edited(d, x)
  BY <1>1, <1>5, <1>6, QuietEdit DEF FaultsGrow
<1>8. DevicesStep
  BY <1>3, <1>7, EditOne DEF d
<1> QED
  BY <1>8, DevicesOnly DEF RecordFault

(* A validation joins the ledger. *)
LEMMA RecordValidationStep ==
  ASSUME StoreInv, NEW id \in DOMAIN devices, NEW v \in Validations, RecordValidation(id, v)
  PROVE  StoreStep
<1> DEFINE d == devices[id]
           x == WithValidation(Opened(id), v)
<1>1. /\ Intact(d) /\ Quiet(d, x) /\ x.faults = d.faults /\ SameEvidence(d, x)
  BY OpenedFacts, WithValidationFacts DEF StoreInv, DevicesIntact, Frame
<1>2. Edited(d, x)
  BY <1>1, QuietEdit DEF FaultsGrow
<1>3. DevicesStep
  BY <1>2, EditOne DEF RecordValidation
<1> QED
  BY <1>3, DevicesOnly DEF RecordValidation

(* revalidate moves a recovery on, or ends it, or fails it. *)
LEMMA RevalidateStep ==
  ASSUME StoreInv, NEW id \in DOMAIN devices, NEW v \in Validations, Revalidate(id, v)
  PROVE  StoreStep
<1> DEFINE d == devices[id]
           o == WithValidation(Opened(id), v)
           x == IF ~o.inRecovery THEN o
                ELSE IF v.passed THEN RecoveryPassed(o, policy.recoveryValidationsRequired)
                ELSE RecoveryFailed(o)
<1>1. Intact(d) /\ Quiet(d, o) /\ o.faults = d.faults /\ SameEvidence(d, o)
  BY OpenedFacts, WithValidationFacts DEF StoreInv, DevicesIntact, Frame
<1>2. devices' = [devices EXCEPT ![id] = Assessed(x)]
  BY DEF Revalidate
<1> HIDE DEF d, o
<1>3. Edited(d, x)
  <2>1. CASE ~o.inRecovery
    BY <1>1, <2>1, QuietEdit DEF FaultsGrow
  <2>2. CASE o.inRecovery
    BY <1>1, <2>2, RecoveryPassedEdit, RecoveryFailedEdit DEF Quiet
  <2> QED
    BY <2>1, <2>2
<1> HIDE DEF x
<1>4. DevicesStep
  BY <1>2, <1>3, EditOne DEF d
<1> QED
  BY <1>4, DevicesOnly DEF Revalidate

(* A quarantine takes hold, also where its transition throws. *)
LEMMA BeginQuarantineStep ==
  ASSUME StoreInv, NEW id \in DOMAIN devices, BeginQuarantine(id) PROVE StoreStep
<1> DEFINE d == devices[id]
           o == Opened(id)
           h == [o EXCEPT !.quarantine = "active", !.quarantineIndexed = TRUE]
           x == ApplyTransition(h, "QUARANTINED")
           legal == h.state = "QUARANTINED" \/ CanTransition(h.state, "QUARANTINED")
<1>1. /\ Intact(d) /\ Intact(o) /\ Quiet(d, o) /\ Frame(d, o) /\ SameVerdict(d, o)
      /\ SameEvidence(d, o)
  BY OpenedFacts DEF StoreInv, DevicesIntact
<1>2. ~Quarantined(d) /\ devices' = [devices EXCEPT ![id] = IF legal THEN Assessed(x) ELSE h]
  BY DEF BeginQuarantine
<1>3. o.lastObservation = d.lastObservation /\ o.faults = d.faults
  BY <1>1 DEF Frame
<1> HIDE DEF o, d
<1>4. /\ h \in DeviceType /\ h.state = o.state /\ h.trail = o.trail
      /\ h.inRecovery = o.inRecovery /\ h.quarantine = "active" /\ h.quarantineIndexed
      /\ h.faults = o.faults /\ h.lastObservation = o.lastObservation
  BY <1>1 DEF Intact, DeviceType
<1>5. SameVerdict(d, h) /\ SameEvidence(d, h)
  BY <1>1 DEF Intact, DeviceType, SameVerdict, SameEvidence
<1> HIDE DEF h
<1>6. "QUARANTINED" \in HealthStates /\ "QUARANTINED" \in StoreStates /\ d.state \in HealthStates
  BY <1>1 DEF HealthStates, StoreStates, Intact, DeviceType
<1>7. Explained(d.state, h)
  BY <1>1, <1>4, ExplainedStart DEF Quiet
<1>8. CASE legal
  <2>1. /\ x \in DeviceType /\ x.state = "QUARANTINED" /\ Frame(h, x) /\ Explained(d.state, x)
    BY <1>4, <1>6, <1>7, <1>8, ApplyTransitionFacts, ExplainedStep
  <2> HIDE DEF x
  <2>2. SameEvidence(d, x) /\ FaultsGrow(d, x)
    BY <1>3, <1>4, <1>5, <2>1 DEF Frame, SameEvidence, FaultsGrow
  <2>3. Editable(x)
    BY <1>6, <2>1 DEF Editable
  <2>4. d.state # "LOST"
    BY <1>1, <1>4, <1>8 DEF Quiet, CanTransition, LegalFrom
  <2>5. Held(d, x) /\ x.quarantineIndexed = Quarantined(x)
    BY <1>1, <1>2, <1>3, <1>4, <2>1, <2>4 DEF Held, Frame, Quarantined, Quiet
  <2>6. Edited(d, x)
    BY <2>1, <2>2, <2>3, <2>5 DEF Edited
  <2>7. DevicesStep
    BY <1>2, <1>8, <2>6, EditOne DEF d
  <2> QED
    BY <2>7, DevicesOnly DEF BeginQuarantine
<1>9. CASE ~legal
  <2>1. d.state = "LOST"
    BY <1>1, <1>4, <1>9
    DEF Quiet, Intact, Sound, StoreStates, HealthStates, CanTransition, LegalFrom
  <2>2. HeldWhenLost(d, h)
    BY <1>1, <1>2, <1>3, <1>4, <1>5, <2>1 DEF HeldWhenLost, Quiet, Quarantined
  <2>3. DevicesStep
    BY <1>2, <1>9, <2>2, OneDevice DEF DeviceStep, d
  <2> QED
    BY <2>3, DevicesOnly DEF BeginQuarantine
<1> QED
  BY <1>8, <1>9

(* Clearing one leaves the device where it was. *)
LEMMA ClearQuarantineStep ==
  ASSUME StoreInv, NEW id \in DOMAIN devices, ClearQuarantine(id) PROVE StoreStep
<1> DEFINE d == devices[id]
           o == Opened(id)
           c == [o EXCEPT !.quarantine = "cleared", !.quarantineIndexed = FALSE]
           x == IF o.quarantine = "none" THEN o ELSE c
<1>1. Intact(d) /\ Intact(o) /\ Quiet(d, o) /\ o.faults = d.faults /\ SameEvidence(d, o)
  BY OpenedFacts DEF StoreInv, DevicesIntact, Frame
<1>2. devices' = [devices EXCEPT ![id] = Assessed(x)]
  BY DEF ClearQuarantine
<1> HIDE DEF o, d
<1>3. /\ c \in DeviceType /\ c.state = o.state /\ c.trail = o.trail
      /\ c.inRecovery = o.inRecovery /\ c.quarantine = "cleared" /\ c.quarantineIndexed = FALSE
      /\ c.faults = o.faults
  BY <1>1 DEF Intact, DeviceType
<1>4. SameEvidence(d, c) /\ FaultsGrow(d, c)
  BY <1>1 DEF Intact, DeviceType, SameEvidence, FaultsGrow
<1> HIDE DEF c
<1>5. Edited(d, c)
  <2>1. Explained(d.state, c)
    BY <1>1, <1>3, ExplainedStart DEF Quiet
  <2>2. Editable(c)
    BY <1>1, <1>3 DEF Intact, Sound, Editable, Quarantined, Quiet
  <2>3. Unmoved(d, c) \/ Released(d, c)
    BY <1>1, <1>3 DEF Quiet, Unmoved, Released, Quarantined
  <2> QED
    BY <1>3, <1>4, <2>1, <2>2, <2>3 DEF Edited, Quarantined
<1>6. Edited(d, o)
  BY <1>1, QuietEdit DEF FaultsGrow
<1>7. DevicesStep
  BY <1>2, <1>5, <1>6, EditOne DEF d
<1> QED
  BY <1>7, DevicesOnly DEF ClearQuarantine

(* A recovery begins with the flag and the state at once. *)
LEMMA BeginRecoveryStep ==
  ASSUME StoreInv, NEW id \in DOMAIN devices, BeginRecovery(id) PROVE StoreStep
<1> DEFINE d == devices[id]
           o == Opened(id)
           m == ApplyTransition(o, "RECOVERING")
           x == [m EXCEPT !.inRecovery = TRUE, !.successfulValidations = 0]
<1>1. Intact(d) /\ Quiet(d, o) /\ o.faults = d.faults /\ SameEvidence(d, o)
  BY OpenedFacts DEF StoreInv, DevicesIntact, Frame
<1>2. /\ devices' = [devices EXCEPT ![id] = Assessed(x)]
      /\ ~d.inRecovery /\ CanTransition(d.state, "RECOVERING")
  BY DEF BeginRecovery
<1>3. "RECOVERING" \in HealthStates /\ "RECOVERING" \in StoreStates
  BY DEF HealthStates, StoreStates
<1> HIDE DEF o, d
<1>4. /\ m \in DeviceType /\ m.state = "RECOVERING" /\ Frame(o, m)
      /\ Explained(d.state, m) /\ SameEvidence(d, m) /\ FaultsGrow(d, m)
  BY <1>1, <1>2, <1>3, TransitionEdit DEF Quiet
<1> HIDE DEF m
<1>5. /\ x \in DeviceType /\ x.state = "RECOVERING" /\ x.inRecovery /\ x.trail = m.trail
      /\ x.quarantine = m.quarantine /\ x.quarantineIndexed = m.quarantineIndexed
      /\ x.faults = m.faults
  BY <1>4 DEF DeviceType
<1>6. SameEvidence(d, x) /\ FaultsGrow(d, x)
  BY <1>4 DEF DeviceType, SameEvidence, FaultsGrow
<1> HIDE DEF x
<1>7. Editable(x) /\ Explained(d.state, x)
  BY <1>3, <1>4, <1>5, ExplainedSame DEF Editable
<1>8. d.state \in {"FAILED", "QUARANTINED"}
  BY <1>1, <1>2 DEF Intact, Sound, StoreStates, HealthStates, CanTransition, LegalFrom
<1>9. Begun(d, x)
  BY <1>1, <1>2, <1>4, <1>5, <1>8 DEF Begun, Quiet, Frame, Quarantined
<1>10. Edited(d, x)
  BY <1>1, <1>4, <1>5, <1>6, <1>7, <1>9 DEF Edited, Quiet, Frame, Quarantined
<1>11. DevicesStep
  BY <1>2, <1>10, EditOne DEF d
<1> QED
  BY <1>11, DevicesOnly DEF BeginRecovery

(* reassess alone. *)
LEMMA ReassessStep ==
  ASSUME StoreInv, NEW id \in DOMAIN devices, Reassess(id) PROVE StoreStep
BY OpenedEdit, EditOne, DevicesOnly DEF Reassess

(* All operations on a single device. *)
LEMMA DeviceNextStep ==
  ASSUME StoreInv, NEW id \in DOMAIN devices, DeviceNext(id) PROVE StoreStep
BY MarkLostStep, AcceptObservationStep, RecordFaultStep, RecordValidationStep,
   RevalidateStep, BeginQuarantineStep, ClearQuarantineStep, BeginRecoveryStep,
   ReassessStep
DEF DeviceNext

(* A step that leaves the devices, the policy and the fences alone. *)
LEMMA DevicesUntouched ==
  ASSUME StoreInv, UNCHANGED <<devices, policyVars>>, RestStep PROVE StoreStep
BY DEF StoreInv, TypeOK, DevicesStep, DeviceStep, PolicyStep, StoreStep, policyVars

(* Every step of the specification is a step of the store. *)
LEMMA NextStep ==
  ASSUME StoreInv, [Next]_vars PROVE StoreStep
<1>1. ASSUME NEW e \in Epochs, SetCoordinatorEpoch(e) PROVE StoreStep
  <2>1. RestStep
    BY <1>1 DEF SetCoordinatorEpoch, StoreInv, TypeOK, RestStep, RestTyped, identityVars, policyVars
  <2> QED
    BY <1>1, <2>1, DevicesUntouched DEF SetCoordinatorEpoch
<1>2. ASSUME NEW w \in Workers, NEW b \in Boots, RegisterWorker(w, b) PROVE StoreStep
  <2>1. RestStep
    BY <1>2 DEF RegisterWorker, StoreInv, TypeOK, RestStep, RestTyped, identityVars, policyVars
  <2> QED
    BY <1>2, <2>1, DevicesUntouched DEF RegisterWorker
<1>3. CASE ReassessAll
  BY <1>3, AllAssessedStep, DevicesOnly DEF ReassessAll
<1>4. CASE Tick
  <2>1. RestStep
    BY <1>4 DEF Tick, StoreInv, TypeOK, RestStep, RestTyped, identityVars, registryVars, policyVars
  <2> QED
    BY <1>4, <2>1, DevicesUntouched DEF Tick
<1>5. CASE UNCHANGED vars
  <2>1. RestStep
    BY <1>5 DEF vars, StoreInv, TypeOK, RestStep, RestTyped
  <2> QED
    BY <1>5, <2>1, DevicesUntouched DEF vars, policyVars
<1> QED
  BY <1>1, <1>2, <1>3, <1>4, <1>5, SetPolicyStep, FinishSetPolicyStep,
     InvalidateWorkerStep, RegisterDeviceStep, DeviceNextStep
  DEF Next

-----------------------------------------------------------------------------
(* The store starts in the invariant. *)
LEMMA InitInv == Init => Inv
<1> SUFFICES ASSUME Init PROVE Inv
  OBVIOUS
<1>1. DOMAIN devices = {} /\ DOMAIN uuidIndex = {}
  BY DEF Init
<1>2. policy \in PolicyType
  BY ConstantsAssumption DEF Init, ConstantsAssumption
<1> QED
  BY <1>1, <1>2 DEF Init, Inv, StoreInv, TypeOK, DevicesIntact, NoStalePolicyAssessment

(* Every step keeps it. *)
LEMMA NextInv == Inv /\ [Next]_vars => Inv'
BY NextStep, StoreStepInv DEF Inv

-----------------------------------------------------------------------------
(* Type correctness of the store, for every value of its constants. *)
THEOREM TypeCorrect == Spec => []TypeOK
<1>1. Inv => TypeOK
  BY DEF Inv, StoreInv
<1> QED
  BY <1>1, InitInv, NextInv, PTL DEF Spec

(* However calls from any number of threads are interleaved, the recovery flag *)
(* and the recovery states of every device agree.                              *)
THEOREM RecoverySafe == Spec => []RecoveryDiscipline
<1>1. Inv => RecoveryDiscipline
  BY DEF Inv, StoreInv, DevicesIntact, Intact, Sound, RecoveryDiscipline
<1> QED
  BY <1>1, InitInv, NextInv, PTL DEF Spec

(* No sequence of operations brings a quarantined device into a state that     *)
(* could serve.                                                                *)
THEOREM QuarantineSafe == Spec => []QuarantineHolds
<1>1. Inv => QuarantineHolds
  BY DEF Inv, StoreInv, DevicesIntact, Intact, Sound, QuarantineHolds
<1> QED
  BY <1>1, InitInv, NextInv, PTL DEF Spec

(* ... and its readiness is QUARANTINED, whatever was reassessed meanwhile.    *)
THEOREM QuarantineGateSafe == Spec => []QuarantineGatesReadiness
<1>1. Inv => QuarantineGatesReadiness
  BY DEF Inv, StoreInv, DevicesIntact, Intact, Sound, QuarantineGatesReadiness
<1> QED
  BY <1>1, InitInv, NextInv, PTL DEF Spec

(* A device with an open fatal fault is never execution ready, whatever is     *)
(* validated, recovered or configured afterwards.                              *)
THEOREM FatalSafe == Spec => []FatalNeverReady
<1>1. Inv => FatalNeverReady
  BY DEF Inv, StoreInv, DevicesIntact, Intact, Sound, FatalNeverReady
<1> QED
  BY <1>1, InitInv, NextInv, PTL DEF Spec

(* Overlapping setPolicy calls never leave a device assessed under a policy    *)
(* that is no longer in force.                                                 *)
THEOREM PolicySafe == Spec => []NoStalePolicyAssessment
<1>1. Inv => NoStalePolicyAssessment
  BY DEF Inv
<1> QED
  BY <1>1, InitInv, NextInv, PTL DEF Spec
=============================================================================
