-------------------------- MODULE DeviceStepProofs --------------------------
(***************************************************************************)
(* What follows from the ways an operation may change a device             *)
(* (HealthStoreProofs, DeviceStep): what a verdict is worth as long as its *)
(* policy is in force, that indexes and queries agree, what no step may do *)
(* to a device, and that every device lives the life DeviceLifecycle       *)
(* promises.  Where a device's own past matters, the store must not hand   *)
(* its id to another: the statements assume that uuid 0, which takes ids   *)
(* from the counter, is not in use.                                        *)
(***************************************************************************)
EXTENDS HealthStoreProofs, StoreQueries, FiniteSetTheorems, SequenceTheorems

-----------------------------------------------------------------------------
(* What a verdict is worth *)

(* The statements of ServingIsEarned and ThresholdsEnforced, of one device. *)
Earned(d, pol) ==
  /\ d.state \in {"HEALTHY", "DEGRADED"}
  /\ ~d.inRecovery
  /\ d.lastObservation # 0
  /\ ~HasFailed(d.dimensions)
  /\ ConsecutiveLatest(d.faults) < pol.unhealthyAfter
  /\ d.state = "HEALTHY" => ~NeedsRevalidation(d, pol)
  /\ d.state = "DEGRADED" => pol.allowDegraded

Enforced(d, pol) ==
  LET run == ConsecutiveLatest(d.faults) IN
  /\ run >= pol.degradeAfter => d.state \notin {"INITIALIZING", "HEALTHY"}
  /\ run >= pol.unhealthyAfter => d.state \in {"UNHEALTHY", "FAILED", "QUARANTINED"}
  /\ /\ run >= pol.quarantineAfter
     /\ HasOpenCritical(d.faults)
     /\ ~HasFailed(d.dimensions) /\ ~HasOpenFatal(d.faults)
     => d.state = "QUARANTINED"

(* A verdict is no younger than the policy.  As long as its policy is in force *)
(* it is what the evidence calls for, and evidence it found out of date stays  *)
(* so.  The indexes written with it say what it says.                          *)
Standing(d, pol, gen, t) ==
  /\ d.assessedPolicyGeneration <= gen
  /\ d.assessedPolicyGeneration = gen =>
       /\ d.readiness \in ExecutionReady /\ d.state # "LOST" => Earned(d, pol)
       /\ ~d.inRecovery /\ d.state # "LOST" => Enforced(d, pol)
       /\ d.staleIndexed => OutOfDate(Freshness(pol, d.lastObservation, t))
  /\ d.assessedPolicyGeneration = 0 /\ d.staleIndexed => d.lastObservation = 0
  /\ d.staleIndexed /\ d.state # "LOST" => d.readiness \notin ExecutionReady
  /\ d.state # "LOST" => d.stateIndexed = d.state

(* The run of faults at the end of a history is a number. *)
LEMMA RunType ==
  ASSUME NEW faults \in Seq(FaultType) PROVE ConsecutiveLatest(faults) \in Nat
<1> DEFINE run == {i \in 1 .. Len(faults) :
                     \A j \in i .. Len(faults) : faults[j].type = faults[Len(faults)].type}
<1>1. IsFiniteSet(1 .. Len(faults))
  BY FS_Interval
<1>2. IsFiniteSet(run)
  BY <1>1, FS_Subset
<1> QED
  BY <1>2, FS_CardinalityType DEF ConsecutiveLatest

(* Evidence that is out of date stays so as the clock advances. *)
LEMMA StaysOutOfDate ==
  ASSUME NEW pol \in PolicyType, NEW o \in Nat, NEW t \in Nat, NEW u \in Nat, t <= u,
         OutOfDate(Freshness(pol, o, t))
  PROVE  OutOfDate(Freshness(pol, o, u))
BY DEF OutOfDate, Freshness, PolicyType

(* A device that a reassessment lets serve has earned it. *)
LEMMA ReassessEarned ==
  ASSUME NEW d \in DeviceType, Editable(d), NEW pol \in PolicyType, NEW gen \in Nat, NEW t,
         ReassessLocked(d, pol, gen, t).readiness \in ExecutionReady
  PROVE  Earned(ReassessLocked(d, pol, gen, t), pol)
<1> DEFINE r == ReassessLocked(d, pol, gen, t)
           run == ConsecutiveLatest(d.faults)
<1>1. /\ Frame(d, r) /\ r.policyGenerationChanged = d.policyGenerationChanged
  BY ReassessFacts
<1>2. /\ r.state = Target(d, pol, t) /\ r.state \in {"HEALTHY", "DEGRADED"}
      /\ ~d.inRecovery /\ ~Quarantined(d) /\ ~HasOpenFatal(d.faults)
      /\ ~OutOfDate(Freshness(pol, d.lastObservation, t))
      /\ r.state = "HEALTHY" => ~NeedsRevalidation(d, pol)
      /\ r.state = "DEGRADED" => pol.allowDegraded
  BY ReassessReady
<1>3. run \in Nat /\ pol.unhealthyAfter \in Nat
  BY RunType DEF DeviceType, PolicyType
<1> HIDE DEF r, run
<1>4. ~HasFailed(d.dimensions) /\ ~(run >= pol.unhealthyAfter)
  BY <1>2 DEF Target, run
<1>5. d.lastObservation # 0
  BY <1>2 DEF OutOfDate, Freshness
<1>6. NeedsRevalidation(r, pol) <=> NeedsRevalidation(d, pol)
  BY <1>1 DEF NeedsRevalidation, Frame
<1>7. ConsecutiveLatest(r.faults) < pol.unhealthyAfter
  BY <1>1, <1>3, <1>4 DEF Frame, run
<1> QED
  BY <1>1, <1>2, <1>4, <1>5, <1>6, <1>7 DEF Earned, Frame, r

(* A reassessment enforces the thresholds of its policy. *)
LEMMA ReassessEnforced ==
  ASSUME NEW d \in DeviceType, Editable(d), NEW pol \in PolicyType, NEW gen \in Nat, NEW t,
         ~d.inRecovery, ReassessLocked(d, pol, gen, t).state # "LOST"
  PROVE  Enforced(ReassessLocked(d, pol, gen, t), pol)
<1> DEFINE r == ReassessLocked(d, pol, gen, t)
           target == Target(d, pol, t)
           blocked == target # d.state /\ ~CanTransition(d.state, target)
           run == ConsecutiveLatest(d.faults)
<1>1. Frame(d, r) /\ r.state = IF blocked THEN d.state ELSE target
  BY ReassessFacts
<1>2. /\ run \in Nat /\ pol.degradeAfter \in Nat /\ pol.unhealthyAfter \in Nat
      /\ pol.quarantineAfter \in Nat
  BY RunType DEF DeviceType, PolicyType
<1>3. d.state \in StoreStates \ {"RECOVERING", "REVALIDATING"}
  BY DEF Editable
<1> HIDE DEF r, run
<1>4. /\ run >= pol.degradeAfter => target \in {"DEGRADED", "UNHEALTHY", "FAILED", "QUARANTINED"}
      /\ run >= pol.unhealthyAfter => target \in {"UNHEALTHY", "FAILED", "QUARANTINED"}
      /\ /\ run >= pol.quarantineAfter /\ HasOpenCritical(d.faults)
         /\ ~HasFailed(d.dimensions) /\ ~HasOpenFatal(d.faults)
         => target = "QUARANTINED"
  BY DEF Target, run, HasFailed, HasFatal
<1> HIDE DEF target
<1>5. /\ run >= pol.degradeAfter => r.state \notin {"INITIALIZING", "HEALTHY"}
      /\ run >= pol.unhealthyAfter => r.state \in {"UNHEALTHY", "FAILED", "QUARANTINED"}
      /\ /\ run >= pol.quarantineAfter /\ HasOpenCritical(d.faults)
         /\ ~HasFailed(d.dimensions) /\ ~HasOpenFatal(d.faults)
         => r.state = "QUARANTINED"
  BY <1>1, <1>3, <1>4 DEF StoreStates, HealthStates, CanTransition, LegalFrom, r
<1> QED
  BY <1>1, <1>5 DEF Enforced, Frame, run, r

(* So the verdict of a reassessment stands. *)
LEMMA ReassessStanding ==
  ASSUME NEW d \in DeviceType, Editable(d), NEW pol \in PolicyType,
         NEW gen \in Nat \ {0}, NEW t
  PROVE  Standing(ReassessLocked(d, pol, gen, t), pol, gen, t)
<1> DEFINE r == ReassessLocked(d, pol, gen, t)
<1>1. /\ Frame(d, r) /\ r.assessedPolicyGeneration = gen /\ r.stateIndexed = r.state
      /\ r.staleIndexed = OutOfDate(Freshness(pol, d.lastObservation, t))
  BY ReassessFacts
<1>2. r.readiness \in ExecutionReady => Earned(r, pol)
  BY ReassessEarned
<1>3. ~d.inRecovery /\ r.state # "LOST" => Enforced(r, pol)
  BY ReassessEnforced
<1>4. r.staleIndexed => r.readiness \notin ExecutionReady
  BY <1>1, ReassessReady
<1> HIDE DEF r
<1> QED
  BY <1>1, <1>2, <1>3, <1>4 DEF Standing, Frame, r

(* It goes on standing as the clock advances, and a new policy supersedes it. *)
LEMMA StandingLater ==
  ASSUME NEW d \in DeviceType, NEW pol \in PolicyType, NEW gen \in Nat \ {0}, NEW t \in Nat,
         Standing(d, pol, gen, t), NEW u \in Nat, t <= u, NEW q
  PROVE  Standing(d, pol, gen, u) /\ Standing(d, q, gen + 1, u)
<1>1. d.assessedPolicyGeneration \in Nat /\ d.lastObservation \in Nat
  BY DEF DeviceType
<1>2. d.assessedPolicyGeneration # gen + 1
  BY <1>1 DEF Standing
<1> QED
  BY <1>1, <1>2, StaysOutOfDate DEF Standing

(* A flag raised together with a new policy does not matter, *)
LEMMA StandingFlagged ==
  ASSUME NEW d \in DeviceType, NEW e \in DeviceType, NEW pol, NEW gen \in Nat \ {0}, NEW t,
         Standing(d, pol, gen, t), e.state = d.state, SameVerdict(d, e),
         e.lastObservation = d.lastObservation, NEW q, NEW u
  PROVE  Standing(e, q, gen + 1, u)
<1>1. d.assessedPolicyGeneration \in Nat
  BY DEF DeviceType
<1> QED
  BY <1>1 DEF Standing, SameVerdict

(* and of a device that is lost less is asked. *)
LEMMA StandingLost ==
  ASSUME NEW d, NEW e, NEW pol, NEW gen, NEW t, Standing(d, pol, gen, t),
         SameVerdict(d, e), e.state = "LOST", e.lastObservation = d.lastObservation
  PROVE  Standing(e, pol, gen, t)
BY DEF Standing, SameVerdict

(* A new device has no verdict yet. *)
LEMMA StandingNew ==
  ASSUME NEW listed, NEW stale, NEW pol, NEW gen \in Nat \ {0}, NEW t
  PROVE  Standing(NewDevice(listed, stale), pol, gen, t)
BY DEF Standing, NewDevice, ExecutionReady

VerdictsStand ==
  /\ policyGeneration # 0
  /\ \A id \in DOMAIN devices : Standing(devices[id], policy, policyGeneration, now)

(* Every step leaves standing verdicts. *)
LEMMA StepStands ==
  ASSUME StoreInv, VerdictsStand, StoreStep PROVE VerdictsStand'
<1>1. /\ policy \in PolicyType /\ policyGeneration \in Nat \ {0} /\ now \in Nat /\ now' \in Nat
      /\ now <= now' /\ policy' \in PolicyType /\ policyGeneration' \in Nat \ {0}
      /\ \/ UNCHANGED <<policy, policyGeneration>>
         \/ policyGeneration' = policyGeneration + 1
  BY DEF StoreInv, TypeOK, VerdictsStand, StoreStep, RestStep, RestTyped, PolicyStep
<1>2. ASSUME NEW e \in DeviceType, Standing(e, policy, policyGeneration, now)
      PROVE  Standing(e, policy', policyGeneration', now')
  BY <1>1, <1>2, StandingLater
<1>3. ASSUME NEW id \in DOMAIN devices'
      PROVE  Standing(devices'[id], policy', policyGeneration', now')
  <2> DEFINE d == devices[id]
             e == devices'[id]
  <2>1. CASE New(id)
    BY <1>1, <2>1, StandingNew DEF New
  <2>2. CASE id \in DOMAIN devices /\ DeviceStep(d, e)
    <3>1. Intact(d) /\ d \in DeviceType /\ Standing(d, policy, policyGeneration, now)
      BY <2>2 DEF StoreInv, DevicesIntact, Intact, VerdictsStand
    <3> SUFFICES Standing(e, policy', policyGeneration', now')
      OBVIOUS
    <3> HIDE DEF d, e
    <3>2. CASE e = d
      BY <1>2, <3>1, <3>2
    <3>3. CASE Flagged(d, e)
      BY <1>1, <3>1, <3>3, StandingFlagged DEF Flagged, Frame
    <3>4. CASE Lost(d, e) \/ HeldWhenLost(d, e)
      <4>1. /\ e \in DeviceType /\ SameVerdict(d, e) /\ e.state = "LOST"
            /\ e.lastObservation = d.lastObservation
        BY <3>4 DEF Lost, HeldWhenLost, Frame
      <4> QED
        BY <1>2, <3>1, <4>1, StandingLost
    <3>5. ASSUME NEW x \in DeviceType, Edited(d, x), e = Assessed(x)
          PROVE  Standing(e, policy', policyGeneration', now')
      <4>1. Editable(x) /\ Intact(e)
        BY <3>5, AssessedIntact DEF Edited, StoreInv
      <4>2. Standing(e, policy, policyGeneration, now)
        BY <1>1, <3>5, <4>1, ReassessStanding DEF Assessed
      <4> QED
        BY <1>2, <4>1, <4>2 DEF Intact
    <3> QED
      BY <2>2, <3>2, <3>3, <3>4, <3>5 DEF DeviceStep
  <2> QED
    BY <2>1, <2>2 DEF StoreStep, DevicesStep
<1> QED
  BY <1>1, <1>3 DEF VerdictsStand

(* The verdicts stand in every reachable state. *)
LEMMA VerdictsAlways == Spec => [](Inv /\ VerdictsStand)
<1>1. Init => VerdictsStand
  BY DEF Init, VerdictsStand
<1>2. Inv /\ VerdictsStand /\ [Next]_vars => VerdictsStand'
  BY NextStep, StepStands DEF Inv
<1> QED
  BY <1>1, <1>2, InitInv, NextInv, PTL DEF Spec

(* A device that is execution ready under the policy in force has earned it,   *)
(* in every interleaving of operations, for every policy.                      *)
THEOREM ServingSafe == Spec => []ServingIsEarned
<1>1. VerdictsStand => ServingIsEarned
  BY DEF VerdictsStand, Standing, Earned, ServingIsEarned
<1> QED
  BY <1>1, VerdictsAlways, PTL

(* A reassessment lets a device serve only on evidence that is in date then.   *)
LEMMA AssessedInDate ==
  ASSUME TypeOK, NEW x \in DeviceType, Editable(x), NEW e, e = Assessed(x),
         e.readiness \in ExecutionReady
  PROVE  /\ ~OutOfDate(Freshness(policy, e.lastObservation, now))
         /\ e.state = "HEALTHY" => ~NeedsRevalidation(e, policy)
<1>1. policy \in PolicyType /\ policyGeneration \in Nat
  BY DEF TypeOK
<1>2. Frame(x, e)
  BY AssessedIntact
<1>3. ~OutOfDate(Freshness(policy, x.lastObservation, now))
  BY <1>1, ReassessReady DEF Assessed
<1>4. Earned(e, policy)
  BY <1>1, ReassessEarned DEF Assessed
<1> QED
  BY <1>2, <1>3, <1>4 DEF Frame, Earned

(* Whatever is called, in whatever order and after however long a pause: the   *)
(* call that leaves a device execution ready has found its evidence in date,   *)
(* and a HEALTHY one validated and free of flags.                              *)
THEOREM ServiceSafe == Spec => ServiceInDate
<1> DEFINE P == policyGeneration' = policyGeneration =>
                  \A id \in DOMAIN devices :
                    LET e == devices'[id] IN
                    /\ e # devices[id]
                    /\ e.readiness \in ExecutionReady /\ e.state # "LOST"
                    => /\ ~OutOfDate(Freshness(policy, e.lastObservation, now))
                       /\ e.state = "HEALTHY" => ~NeedsRevalidation(e, policy)
<1>1. ASSUME Inv, [Next]_vars PROVE P
  <2> SUFFICES ASSUME policyGeneration' = policyGeneration, NEW id \in DOMAIN devices,
                      NEW e, e = devices'[id], e # devices[id],
                      e.readiness \in ExecutionReady, e.state # "LOST"
               PROVE  /\ ~OutOfDate(Freshness(policy, e.lastObservation, now))
                      /\ e.state = "HEALTHY" => ~NeedsRevalidation(e, policy)
    OBVIOUS
  <2>1. TypeOK /\ policyGeneration \in Nat /\ DevicesStep
    BY <1>1, NextStep DEF Inv, StoreInv, StoreStep, TypeOK
  <2>2. id \in DOMAIN devices'
    BY <2>1 DEF DevicesStep
  <2>3. ~New(id)
    BY DEF New, NewDevice, ExecutionReady
  <2>4. DeviceStep(devices[id], e)
    BY <2>1, <2>2, <2>3 DEF DevicesStep
  <2>5. PICK x \in DeviceType : Edited(devices[id], x) /\ e = Assessed(x)
    BY <2>1, <2>4 DEF DeviceStep, Flagged, Lost, HeldWhenLost
  <2> QED
    BY <2>1, <2>5, AssessedInDate DEF Edited
<1>2. Inv /\ [Next]_vars => P
  BY <1>1
<1> QED
  BY <1>2, VerdictsAlways, PTL DEF Spec, ServiceInDate

(* The thresholds of the policy in force bind, for every history of faults.    *)
THEOREM ThresholdsSafe == Spec => []ThresholdsEnforced
<1>1. VerdictsStand => ThresholdsEnforced
  BY DEF VerdictsStand, Standing, Enforced, ThresholdsEnforced
<1> QED
  BY <1>1, VerdictsAlways, PTL

-----------------------------------------------------------------------------
(* One device from one state of the store to the next *)

(* reassessLocked passes the evidence, the history and the record on. *)
LEMMA EditedFacts ==
  ASSUME TypeOK, NEW d, Intact(d), NEW x \in DeviceType, Edited(d, x)
  PROVE  LET e == Assessed(x) IN
         /\ Intact(e) /\ Frame(x, e) /\ Explained(d.state, e)
         /\ FaultsGrow(d, e)
         /\ SameEvidence(d, e) \/ Heard(d, e)
         /\ d.quarantineIndexed = Quarantined(d) => e.quarantineIndexed = Quarantined(e)
<1> DEFINE e == Assessed(x)
<1>1. policyGeneration \in Nat /\ d.state \in HealthStates
  BY DEF TypeOK, Intact, DeviceType
<1>2. Intact(e) /\ Frame(x, e)
  BY AssessedIntact DEF Edited
<1>3. Explained(d.state, e)
  BY <1>1, ReassessExplained DEF Assessed, Edited
<1> HIDE DEF e
<1>4. FaultsGrow(d, e)
  BY <1>2 DEF Edited, Frame, FaultsGrow
<1>5. SameEvidence(d, e) \/ Heard(d, e)
  BY <1>2 DEF Edited, Frame, SameEvidence, Heard
<1>6. d.quarantineIndexed = Quarantined(d) => e.quarantineIndexed = Quarantined(e)
  BY <1>2 DEF Edited, Frame, Quarantined
<1> QED
  BY <1>2, <1>3, <1>4, <1>5, <1>6 DEF e

(* Whatever the operation, the change log explains the move, the history only  *)
(* grows, new evidence has passed the fences, and the quarantine index follows. *)
LEMMA StepRecords ==
  ASSUME TypeOK, NEW d, Intact(d), NEW e, DeviceStep(d, e)
  PROVE  /\ e = d \/ Explained(d.state, e)
         /\ FaultsGrow(d, e)
         /\ SameEvidence(d, e) \/ Heard(d, e)
         /\ d.quarantineIndexed = Quarantined(d) => e.quarantineIndexed = Quarantined(e)
<1>1. CASE e = d
  BY <1>1 DEF FaultsGrow, SameEvidence
<1>2. CASE Flagged(d, e) \/ Lost(d, e)
  <2>1. Frame(d, e) /\ Explained(d.state, e)
    BY <1>2, ExplainedStart DEF Flagged, Lost
  <2> QED
    BY <2>1 DEF Frame, FaultsGrow, SameEvidence, Quarantined
<1>3. CASE HeldWhenLost(d, e)
  <2>1. Explained(d.state, e)
    BY <1>3, ExplainedStart DEF HeldWhenLost
  <2>2. e.quarantineIndexed = Quarantined(e)
    BY <1>3 DEF HeldWhenLost, DeviceType, Quarantined
  <2> QED
    BY <1>3, <2>1, <2>2 DEF HeldWhenLost, FaultsGrow
<1> QED
  BY <1>1, <1>2, <1>3, EditedFacts DEF DeviceStep

(* The moves of a device, whatever the operation: deteriorating, a recovery    *)
(* begun, under way or completed, and being lost.                              *)
Deteriorated(d, e) ==
  /\ ~d.inRecovery /\ ~e.inRecovery
  /\ \/ e.state = d.state
     \/ /\ CanTransition(d.state, e.state)
        /\ e.state \in {"HEALTHY", "DEGRADED", "UNHEALTHY", "FAILED", "QUARANTINED"}
  /\ e.state = "HEALTHY" /\ d.state # "HEALTHY" =>
       d.state = "INITIALIZING" /\ e.lastObservation # 0

RecoveryBegun(d, e) ==
  /\ ~d.inRecovery /\ d.state \in {"FAILED", "QUARANTINED"}
  /\ e.inRecovery /\ e.state = "RECOVERING"

RecoveryOngoing(d, e) ==
  /\ d.inRecovery /\ e.inRecovery
  /\ IF d.state = "LOST" THEN e.state = "LOST" ELSE e.state \in {"RECOVERING", "REVALIDATING"}

RecoveryEnded(d, e) ==
  /\ d.inRecovery /\ d.state # "LOST" /\ ~e.inRecovery
  /\ e.successfulValidations >= policy.recoveryValidationsRequired
  /\ e.state \in {"HEALTHY", "DEGRADED", "UNHEALTHY", "FAILED", "QUARANTINED"}
  /\ Quarantined(e) => e.state = "QUARANTINED"
  /\ ~Quarantined(e) /\ HasOpenFatal(e.faults) => e.state = "FAILED"

(* Every operation that reassesses a device makes one of the first four. *)
LEMMA EditedMoves ==
  ASSUME TypeOK, NEW d, Intact(d), NEW x \in DeviceType, Edited(d, x)
  PROVE  LET e == Assessed(x) IN
         \/ Deteriorated(d, e) /\ (Unmoved(d, x) \/ Released(d, x) \/ Held(d, x))
         \/ RecoveryBegun(d, e) /\ Begun(d, x)
         \/ RecoveryOngoing(d, e)
            /\ (Unmoved(d, x) \/ Released(d, x) \/ Held(d, x) \/ Advanced(d, x))
         \/ RecoveryEnded(d, e) /\ Advanced(d, x)
<1> DEFINE e == Assessed(x)
<1>1. /\ policyGeneration \in Nat /\ Editable(x) /\ d.inRecovery \in BOOLEAN
      /\ x.inRecovery \in BOOLEAN /\ d.state \in StoreStates
  BY DEF TypeOK, Edited, Intact, Sound, DeviceType
<1>2. Frame(x, e)
  BY EditedFacts
<1>3. /\ x.state = "LOST" => e.state = "LOST"
      /\ x.inRecovery /\ x.state # "LOST" =>
           e.state = IF x.state = "QUARANTINED" THEN "RECOVERING" ELSE x.state
      /\ ~x.inRecovery =>
           /\ \/ e.state = x.state
              \/ /\ CanTransition(x.state, e.state)
                 /\ e.state \in {"HEALTHY", "DEGRADED", "UNHEALTHY", "FAILED", "QUARANTINED"}
           /\ Quarantined(x) /\ x.state # "LOST" => e.state = "QUARANTINED"
           /\ ~Quarantined(x) /\ HasOpenFatal(x.faults) /\ x.state = "HEALTHY" =>
                e.state = "FAILED"
           /\ e.state = "HEALTHY" /\ x.state # "HEALTHY" =>
                x.state = "INITIALIZING" /\ x.lastObservation # 0
  BY <1>1, ReassessMoves DEF Assessed
<1>4. /\ e.inRecovery = x.inRecovery /\ e.lastObservation = x.lastObservation
      /\ e.faults = x.faults /\ Quarantined(e) = Quarantined(x)
      /\ e.successfulValidations = x.successfulValidations
  BY <1>2 DEF Frame, Quarantined
<1> HIDE DEF e
<1>5. CASE (Unmoved(d, x) \/ Released(d, x)) /\ ~d.inRecovery
  BY <1>3, <1>4, <1>5 DEF Unmoved, Released, Deteriorated, e
<1>6. CASE (Unmoved(d, x) \/ Released(d, x)) /\ d.inRecovery
  BY <1>1, <1>3, <1>4, <1>6 DEF Unmoved, Released, RecoveryOngoing, Editable, Intact, Sound, e
<1>7. CASE Held(d, x) /\ ~d.inRecovery
  <2>1. d.state \in {"INITIALIZING", "HEALTHY", "DEGRADED", "UNHEALTHY", "FAILED", "QUARANTINED"}
    BY <1>1, <1>7 DEF Held, Intact, Sound, StoreStates, HealthStates
  <2>2. e.state = "QUARANTINED"
    BY <1>3, <1>7 DEF Held
  <2>3. e.state = d.state \/ CanTransition(d.state, e.state)
    BY <2>1, <2>2 DEF CanTransition, LegalFrom
  <2> QED
    BY <1>4, <1>7, <2>2, <2>3 DEF Held, Deteriorated, e
<1>8. CASE Held(d, x) /\ d.inRecovery
  BY <1>1, <1>3, <1>4, <1>8 DEF Held, RecoveryOngoing, e
<1>9. CASE Begun(d, x)
  BY <1>1, <1>3, <1>4, <1>9 DEF Begun, RecoveryBegun, e
<1>10. CASE Advanced(d, x) /\ x.inRecovery
  BY <1>1, <1>3, <1>4, <1>10 DEF Advanced, RecoveryOngoing, e
<1>11. CASE Advanced(d, x) /\ ~x.inRecovery
  <2>1. e.state \in {"HEALTHY", "DEGRADED", "UNHEALTHY", "FAILED", "QUARANTINED"}
    BY <1>3, <1>11 DEF Advanced
  <2> QED
    BY <1>3, <1>4, <1>11, <2>1 DEF Advanced, RecoveryEnded, e
<1> QED
  BY <1>1, <1>5, <1>6, <1>7, <1>8, <1>9, <1>10, <1>11 DEF Edited

(* The moves of any step. *)
LEMMA StepMoves ==
  ASSUME TypeOK, NEW d, Intact(d), NEW e, DeviceStep(d, e)
  PROVE  \/ e.state = d.state /\ e.inRecovery = d.inRecovery
         \/ e.state = "LOST" /\ e.inRecovery = d.inRecovery
         \/ Deteriorated(d, e) \/ RecoveryBegun(d, e)
         \/ RecoveryOngoing(d, e) \/ RecoveryEnded(d, e)
BY EditedMoves DEF DeviceStep, Flagged, Lost, HeldWhenLost, Frame

-----------------------------------------------------------------------------
(* What no step may do to a device, where ids are not handed on *)

KnownIds == DOMAIN devices \subseteq DOMAIN uuidIndex

(* Every tracked id is known, so that no registration takes it. *)
LEMMA KnownIdsStep ==
  ASSUME 0 \notin Uuids, KnownIds, StoreStep PROVE KnownIds'
BY DEF KnownIds, StoreStep, DevicesStep, New, RestStep

(* A tracked device stays, and changes by the steps of its own. *)
LEMMA OwnStep ==
  ASSUME 0 \notin Uuids, KnownIds, StoreStep, NEW id \in DOMAIN devices
  PROVE  id \in DOMAIN devices' /\ DeviceStep(devices[id], devices'[id])
BY DEF KnownIds, StoreStep, DevicesStep, New

(* ... in every behaviour of the store. *)
LEMMA KnownAlways ==
  ASSUME 0 \notin Uuids PROVE Spec => [](Inv /\ KnownIds)
<1>1. Init => KnownIds
  BY DEF Init, KnownIds
<1>2. Inv /\ KnownIds /\ [Next]_vars => KnownIds'
  BY NextStep, KnownIdsStep DEF Inv
<1> QED
  BY <1>1, <1>2, InitInv, NextInv, PTL DEF Spec

(* The moves of the tracked devices in a step of the specification. *)
LEMMA TrackedMoves ==
  ASSUME 0 \notin Uuids, Inv, KnownIds, [Next]_vars, NEW id \in DOMAIN devices
  PROVE  LET d == devices[id]
             e == devices'[id]
         IN  /\ Intact(d) /\ DeviceStep(d, e)
             /\ \/ e.state = d.state /\ e.inRecovery = d.inRecovery
                \/ e.state = "LOST" /\ e.inRecovery = d.inRecovery
                \/ Deteriorated(d, e) \/ RecoveryBegun(d, e)
                \/ RecoveryOngoing(d, e) \/ RecoveryEnded(d, e)
BY NextStep, OwnStep, StepMoves DEF Inv, StoreInv, DevicesIntact

(* A quarantined device leaves QUARANTINED only by a recovery somebody began,  *)
(* or by being lost.                                                           *)
THEOREM QuarantineExitSafe ==
  ASSUME 0 \notin Uuids PROVE Spec => QuarantineExit
<1> DEFINE P == \A id \in DOMAIN devices :
       devices[id].state = "QUARANTINED" /\ devices'[id].state # "QUARANTINED"
       => \/ devices'[id].state = "LOST"
          \/ devices'[id].state = "RECOVERING" /\ devices'[id].inRecovery
<1>1. Inv /\ KnownIds /\ [Next]_vars => P
  <2> SUFFICES ASSUME Inv, KnownIds, [Next]_vars, NEW id \in DOMAIN devices,
                      devices[id].state = "QUARANTINED", devices'[id].state # "QUARANTINED"
               PROVE  \/ devices'[id].state = "LOST"
                      \/ devices'[id].state = "RECOVERING" /\ devices'[id].inRecovery
    OBVIOUS
  <2>1. ~devices[id].inRecovery
    BY TrackedMoves DEF Intact, Sound
  <2> QED
    BY <2>1, TrackedMoves
    DEF Deteriorated, RecoveryBegun, RecoveryOngoing, RecoveryEnded, CanTransition, LegalFrom
<1> QED
  BY <1>1, KnownAlways, PTL DEF Spec, QuarantineExit

(* A device becomes HEALTHY only from INITIALIZING on evidence, or out of a    *)
(* recovery with the validations its policy asks for.                          *)
THEOREM HealthyEntrySafe ==
  ASSUME 0 \notin Uuids PROVE Spec => HealthyEntry
<1> DEFINE P == \A id \in DOMAIN devices :
       LET d == devices[id]  e == devices'[id] IN
       d.state # "HEALTHY" /\ e.state = "HEALTHY"
       => \/ d.state = "INITIALIZING" /\ e.lastObservation # 0
          \/ /\ d.inRecovery
             /\ e.successfulValidations >= policy.recoveryValidationsRequired
<1>1. Inv /\ KnownIds /\ [Next]_vars => P
  BY TrackedMoves DEF Deteriorated, RecoveryBegun, RecoveryOngoing, RecoveryEnded
<1> QED
  BY <1>1, KnownAlways, PTL DEF Spec, HealthyEntry

(* Every move of every device is in its change log, as a legal chain.          *)
THEOREM TrailSafe ==
  ASSUME 0 \notin Uuids PROVE Spec => TrailExplainsState
<1> DEFINE P == \A id \in DOMAIN devices :
       LET d == devices[id]  e == devices'[id]
           path == <<d.state>> \o e.trail
       IN d # e =>
            /\ e.state = path[Len(path)]
            /\ \A i \in 1 .. Len(e.trail) : CanTransition(path[i], path[i + 1])
<1>1. ASSUME Inv, KnownIds, [Next]_vars, NEW id \in DOMAIN devices,
             devices[id] # devices'[id]
      PROVE  Explained(devices[id].state, devices'[id])
  BY <1>1, TrackedMoves, StepRecords DEF Inv, StoreInv
<1>2. Inv /\ KnownIds /\ [Next]_vars => P
  BY <1>1 DEF Explained
<1> QED
  BY <1>2, KnownAlways, PTL DEF Spec, TrailExplainsState

(* No device improves by itself: it never flaps between the states evidence    *)
(* decides.                                                                    *)
THEOREM FlappingSafe ==
  ASSUME 0 \notin Uuids PROVE Spec => NoFlapping
<1> DEFINE P == \A id \in DOMAIN devices :
       LET d == devices[id]  e == devices'[id] IN
       /\ ~d.inRecovery
       /\ Rank(d.state) > 0 /\ Rank(e.state) > 0
       => Rank(e.state) >= Rank(d.state)
<1>1. ASSUME NEW s \in StoreStates, NEW t \in StoreStates, Rank(s) > 0, Rank(t) > 0,
             t = s \/ t = "QUARANTINED" \/ CanTransition(s, t), t # "RECOVERING"
      PROVE  Rank(t) >= Rank(s)
  BY <1>1 DEF StoreStates, HealthStates, Rank, CanTransition, LegalFrom
<1>2. ASSUME Inv, KnownIds, [Next]_vars, NEW id \in DOMAIN devices,
             ~devices[id].inRecovery,
             Rank(devices[id].state) > 0, Rank(devices'[id].state) > 0
      PROVE  Rank(devices'[id].state) >= Rank(devices[id].state)
  <2> DEFINE d == devices[id]
             e == devices'[id]
  <2>1. Intact(d) /\ Intact(e)
    BY <1>2, TrackedMoves, DeviceStepIntact DEF Inv, StoreInv
  <2>2. d.state \in StoreStates /\ e.state \in StoreStates
    BY <2>1 DEF Intact, Sound
  <2>3. Rank("LOST") = 0 /\ Rank("RECOVERING") = 0
    BY DEF Rank
  <2>4. e.state # "LOST" /\ e.state # "RECOVERING"
    BY <1>2, <2>3
  <2>5. e.state = d.state \/ CanTransition(d.state, e.state)
    BY <1>2, <2>4, TrackedMoves
    DEF Deteriorated, RecoveryBegun, RecoveryOngoing, RecoveryEnded
  <2> QED
    BY <1>1, <1>2, <2>2, <2>4, <2>5
<1>3. Inv /\ KnownIds /\ [Next]_vars => P
  BY <1>2
<1> QED
  BY <1>3, KnownAlways, PTL DEF Spec, NoFlapping

(* The fault history of a device is never rewritten. *)
THEOREM FaultsSafe ==
  ASSUME 0 \notin Uuids PROVE Spec => FaultsAppendOnly
<1> DEFINE P == \A id \in DOMAIN devices :
       /\ Len(devices'[id].faults) >= Len(devices[id].faults)
       /\ SubSeq(devices'[id].faults, 1, Len(devices[id].faults)) = devices[id].faults
<1>1. ASSUME NEW s \in Seq(FaultType), NEW f \in FaultType, NEW t, t = s \/ t = Append(s, f)
      PROVE  Len(t) >= Len(s) /\ SubSeq(t, 1, Len(s)) = s
  <2>1. CASE t = s
    BY <2>1
  <2>2. CASE t = Append(s, f)
    <3>1. /\ Len(s) \in Nat /\ Len(t) = Len(s) + 1
          /\ \A i \in 1 .. Len(s) : t[i] = s[i] /\ t[i] \in FaultType
      BY <2>2
    <3>2. /\ SubSeq(t, 1, Len(s)) \in Seq(FaultType)
          /\ Len(SubSeq(t, 1, Len(s))) = Len(s)
          /\ \A i \in 1 .. Len(s) : SubSeq(t, 1, Len(s))[i] = s[i]
      BY <3>1, SubSeqProperties, Z3
    <3> QED
      BY <3>1, <3>2, SeqEqual
  <2> QED
    BY <1>1, <2>1, <2>2
<1>2. ASSUME Inv, KnownIds, [Next]_vars, NEW id \in DOMAIN devices
      PROVE  /\ Len(devices'[id].faults) >= Len(devices[id].faults)
             /\ SubSeq(devices'[id].faults, 1, Len(devices[id].faults)) = devices[id].faults
  <2> DEFINE d == devices[id]
             e == devices'[id]
  <2>1. d.faults \in Seq(FaultType)
    BY <1>2, TrackedMoves DEF Intact, DeviceType
  <2>2. e.faults = d.faults \/ \E f \in Faults : e.faults = Append(d.faults, f)
    BY <1>2, TrackedMoves, StepRecords DEF Inv, StoreInv, FaultsGrow
  <2>3. Faults \subseteq FaultType
    BY ConstantsAssumption DEF ConstantsAssumption
  <2>4. CASE e.faults = d.faults
    BY <2>1, <2>4
  <2>5. ASSUME NEW f \in Faults, e.faults = Append(d.faults, f)
        PROVE  Len(e.faults) >= Len(d.faults) /\ SubSeq(e.faults, 1, Len(d.faults)) = d.faults
    BY <1>1, <2>1, <2>3, <2>5
  <2> QED
    BY <2>2, <2>4, <2>5
<1>3. Inv /\ KnownIds /\ [Next]_vars => P
  BY <1>2
<1> QED
  BY <1>3, KnownAlways, PTL DEF Spec, FaultsAppendOnly

(* What the fences promise of one step. *)
Fenced ==
  /\ \A wb \in Workers \X Boots :
       lastObservedGeneration'[wb] >= lastObservedGeneration[wb]
  /\ \A id \in DOMAIN devices :
       LET d == devices[id]  e == devices'[id]
           from == <<e.lastWorker, e.lastWorkerBootId>> IN
       /\ e.generation >= d.generation
       /\ e.lastObservation \notin {0, d.lastObservation} \/ e.dimensions # d.dimensions
          => /\ workerBootRegistry[e.lastWorker] = e.lastWorkerBootId
             /\ lastObservedGeneration'[from] > lastObservedGeneration[from]

(* No step of the store goes behind a fence. *)
LEMMA FencesStep ==
  ASSUME 0 \notin Uuids, Inv, KnownIds, [Next]_vars PROVE Fenced
<1>1. ASSUME NEW id \in DOMAIN devices
      PROVE  LET d == devices[id]  e == devices'[id] IN
             /\ SameEvidence(d, e) \/ Heard(d, e)
             /\ d.generation \in Nat
  BY <1>1, TrackedMoves, StepRecords DEF Inv, StoreInv, Intact, DeviceType
<1> QED
  BY <1>1, NextStep DEF Inv, StoreStep, RestStep, SameEvidence, Heard, Fenced

(* The fences hold: generations never go back, and evidence comes from the     *)
(* registered incarnation under a generation not used before.                  *)
THEOREM FencesSafe ==
  ASSUME 0 \notin Uuids PROVE Spec => FencesHold
<1>1. Inv /\ KnownIds /\ [Next]_vars => Fenced
  BY FencesStep
<1> QED
  BY <1>1, KnownAlways, PTL DEF Spec, FencesHold, Fenced


-----------------------------------------------------------------------------
(* The indexes and the queries *)

ListedRight ==
  \A id \in DOMAIN devices : devices[id].quarantineIndexed = Quarantined(devices[id])

FinitelyMany == IsFiniteSet(DOMAIN devices)

(* The quarantine index keeps up with the devices. *)
LEMMA ListedStep ==
  ASSUME 0 \notin Uuids, StoreInv, KnownIds, ListedRight, StoreStep PROVE ListedRight'
<1> SUFFICES ASSUME NEW id \in DOMAIN devices'
             PROVE  devices'[id].quarantineIndexed = Quarantined(devices'[id])
  BY DEF ListedRight
<1>1. CASE New(id)
  <2>1. PICK stale : devices'[id] = NewDevice(FALSE, stale)
    BY <1>1 DEF New, KnownIds
  <2>2. devices'[id].quarantineIndexed = FALSE /\ ~Quarantined(devices'[id])
    BY <2>1 DEF NewDevice, Quarantined
  <2> QED
    BY <2>2, Zenon DEF Quarantined
<1>2. CASE id \in DOMAIN devices /\ DeviceStep(devices[id], devices'[id])
  <2>1. Intact(devices[id]) /\ TypeOK /\ devices[id].quarantineIndexed = Quarantined(devices[id])
    BY <1>2 DEF StoreInv, DevicesIntact, ListedRight
  <2> QED
    BY <1>2, <2>1, StepRecords
<1> QED
  BY <1>1, <1>2 DEF StoreStep, DevicesStep

(* A step registers one device at most. *)
LEMMA FiniteStep ==
  ASSUME FinitelyMany, StoreStep PROVE FinitelyMany'
<1>1. PICK n : DOMAIN devices' \subseteq DOMAIN devices \cup {n}
  BY DEF StoreStep, DevicesStep
<1>2. IsFiniteSet(DOMAIN devices \cup {n})
  BY FS_AddElement DEF FinitelyMany
<1> QED
  BY <1>1, <1>2, FS_Subset DEF FinitelyMany

(* What the queries rest on, in every reachable state. *)
LEMMA IndexesAlways ==
  ASSUME 0 \notin Uuids
  PROVE  Spec => [](Inv /\ VerdictsStand /\ KnownIds /\ ListedRight /\ FinitelyMany)
<1>1. Init => ListedRight /\ FinitelyMany
  <2>1. Init => DOMAIN devices = {}
    BY DEF Init
  <2> QED
    BY <2>1, FS_EmptySet DEF ListedRight, FinitelyMany
<1>2. Inv /\ KnownIds /\ ListedRight /\ FinitelyMany /\ [Next]_vars
      => ListedRight' /\ FinitelyMany'
  BY NextStep, ListedStep, FiniteStep DEF Inv
<1> QED
  BY <1>1, <1>2, KnownAlways, VerdictsAlways, PTL DEF Spec

(* The indexes the queries read never disagree with the devices. *)
THEOREM IndexesSafe ==
  ASSUME 0 \notin Uuids PROVE Spec => []IndexesAgree
<1>1. VerdictsStand /\ ListedRight => IndexesAgree
  BY DEF VerdictsStand, Standing, ListedRight, IndexesAgree
<1> QED
  BY <1>1, IndexesAlways, PTL

(* What each device contributes to the answers. *)
LEMMA AnswersOfDevice ==
  ASSUME StoreInv, VerdictsStand, ListedRight, NEW id \in DOMAIN devices
  PROVE  LET d == devices[id] IN
         /\ d.readiness \in ExecutionReady /\ d.state # "LOST" =>
              ~d.quarantineIndexed /\ ~d.staleIndexed
         /\ d.quarantineIndexed => d.state \in {"QUARANTINED", "LOST"} \/ d.inRecovery
         /\ /\ d.staleIndexed /\ d.assessedPolicyGeneration \in {0, policyGeneration}
            => OutOfDate(Freshness(policy, d.lastObservation, now))
         /\ d.state # "LOST" => d.stateIndexed = d.state
<1> DEFINE d == devices[id]
<1>1. /\ d \in DeviceType /\ Sound(d) /\ d.quarantineIndexed = Quarantined(d)
      /\ Standing(d, policy, policyGeneration, now)
  BY DEF StoreInv, DevicesIntact, Intact, ListedRight, VerdictsStand
<1> SUFFICES /\ d.readiness \in ExecutionReady /\ d.state # "LOST" =>
                  ~d.quarantineIndexed /\ ~d.staleIndexed
             /\ d.quarantineIndexed => d.state \in {"QUARANTINED", "LOST"} \/ d.inRecovery
             /\ /\ d.staleIndexed /\ d.assessedPolicyGeneration \in {0, policyGeneration}
                => OutOfDate(Freshness(policy, d.lastObservation, now))
             /\ d.state # "LOST" => d.stateIndexed = d.state
  OBVIOUS
<1> HIDE DEF d
<1>2. d.staleIndexed /\ d.assessedPolicyGeneration \in {0, policyGeneration}
      => OutOfDate(Freshness(policy, d.lastObservation, now))
  BY <1>1 DEF Standing, OutOfDate, Freshness
<1> QED
  BY <1>1, <1>2 DEF Sound, Standing, ExecutionReady

(* A set within the union of three is no larger than the three together. *)
LEMMA CoveredByThree ==
  ASSUME NEW A, NEW B, NEW C, IsFiniteSet(A), IsFiniteSet(B), IsFiniteSet(C),
         NEW S, S \subseteq (A \cup B) \cup C
  PROVE  Cardinality(S) <= Cardinality(A) + Cardinality(B) + Cardinality(C)
<1>1. /\ IsFiniteSet(A \cup B) /\ IsFiniteSet(A \cap B)
      /\ Cardinality(A \cup B) = Cardinality(A) + Cardinality(B) - Cardinality(A \cap B)
  BY FS_Union, FS_Intersection
<1>2. /\ IsFiniteSet((A \cup B) \cup C) /\ IsFiniteSet((A \cup B) \cap C)
      /\ Cardinality((A \cup B) \cup C)
           = Cardinality(A \cup B) + Cardinality(C) - Cardinality((A \cup B) \cap C)
  BY <1>1, FS_Union, FS_Intersection
<1>3. IsFiniteSet(S) /\ Cardinality(S) <= Cardinality((A \cup B) \cup C)
  BY <1>2, FS_Subset
<1> QED
  BY <1>1, <1>2, <1>3, FS_CardinalityType

(* The answers of the queries fit together, for any number of devices. *)
THEOREM QueriesSafe ==
  ASSUME 0 \notin Uuids PROVE Spec => []QueriesAgree
<1>1. ASSUME Inv, VerdictsStand, ListedRight, FinitelyMany PROVE QueriesAgree
  <2> DEFINE D == DOMAIN devices
             lost == InState("LOST")
             ready == ByReadiness("READY") \cup ByReadiness("READY_DEGRADED")
             inQuarantine == InState("QUARANTINED")
             inRecovery == {id \in D : devices[id].inRecovery}
             outOfDate == {id \in D : OutOfDate(Freshness(policy, devices[id].lastObservation, now))}
  <2>1. /\ IsFiniteSet(D) /\ StoreInv /\ NoStalePolicyAssessment
    BY <1>1 DEF FinitelyMany, Inv
  <2>2. (ready \ lost) \cap (QuarantinedIds \cup StaleEvidence \cup RevalidationRequired) = {}
    <3> SUFFICES ASSUME NEW id \in ready \ lost
                 PROVE  id \notin QuarantinedIds \cup StaleEvidence \cup RevalidationRequired
      OBVIOUS
    <3>1. /\ id \in D /\ devices[id].readiness \in {"READY", "READY_DEGRADED"}
          /\ devices[id].state # "LOST"
      BY DEF ByReadiness, InState
    <3>2. devices[id].readiness \in ExecutionReady
      BY <3>1 DEF ExecutionReady
    <3>3. ~devices[id].quarantineIndexed /\ ~devices[id].staleIndexed
      BY <1>1, <2>1, <3>1, <3>2, AnswersOfDevice
    <3> QED
      BY <3>1, <3>3 DEF QuarantinedIds, StaleEvidence, RevalidationRequired, ByReadiness
  <2>3. Cardinality(QuarantinedIds)
          <= Accounting.quarantined + Accounting.recovering + Cardinality(lost)
    <3>1. QuarantinedIds \subseteq (inQuarantine \cup inRecovery) \cup lost
      BY <1>1, <2>1, AnswersOfDevice DEF QuarantinedIds, InState
    <3>2. inQuarantine \subseteq D /\ inRecovery \subseteq D /\ lost \subseteq D
      BY DEF InState
    <3>3. IsFiniteSet(inQuarantine) /\ IsFiniteSet(inRecovery) /\ IsFiniteSet(lost)
      BY <2>1, <3>2, FS_Subset
    <3>4. Accounting.quarantined = Cardinality(inQuarantine)
          /\ Accounting.recovering = Cardinality(inRecovery)
      BY DEF Accounting
    <3> QED
      BY <3>1, <3>3, <3>4, CoveredByThree
  <2>4. ASSUME NEW s \in {"HEALTHY", "DEGRADED", "UNHEALTHY", "FAILED"}
        PROVE  InState(s) \subseteq ByHealthState(s) /\ ByHealthState(s) \ InState(s) \subseteq lost
    BY <1>1, <2>1, <2>4, AnswersOfDevice DEF InState, ByHealthState
  <2>5. pendingReassess = 0 => Cardinality(StaleEvidence) <= Accounting.stale
    <3>1. pendingReassess = 0 => StaleEvidence \subseteq outOfDate
      BY <1>1, <2>1, AnswersOfDevice DEF NoStalePolicyAssessment, StaleEvidence
    <3>2. outOfDate \subseteq D
      OBVIOUS
    <3>3. IsFiniteSet(outOfDate)
      BY <2>1, <3>2, FS_Subset
    <3>4. Accounting.stale = Cardinality(outOfDate)
      BY DEF Accounting
    <3> QED
      BY <3>1, <3>3, <3>4, FS_Subset
  <2> QED
    BY <2>2, <2>3, <2>4, <2>5 DEF QueriesAgree
<1> QED
  BY <1>1, IndexesAlways, PTL

-----------------------------------------------------------------------------
(* The promise to a scheduler, device by device *)

(* What a device shows of itself in DeviceLifecycle. *)
Serves(d) == d.readiness \in ExecutionReady
Condemned(d) == HasOpenFatal(d.faults)

(* The phase is decided together with serving. *)
Decided(e) == Serves(e) => PhaseOf(e) = "inService" /\ ~Condemned(e) /\ ~Quarantined(e)

(* A fault that condemned a device goes on condemning it. *)
LEMMA CondemnedStays ==
  ASSUME NEW d \in DeviceType, NEW e, FaultsGrow(d, e), Condemned(d) PROVE Condemned(e)
<1>1. CASE e.faults = d.faults
  BY <1>1 DEF Condemned
<1>2. ASSUME NEW f \in Faults, e.faults = Append(d.faults, f) PROVE Condemned(e)
  <2>1. d.faults \in Seq(FaultType) /\ f \in FaultType
    BY <1>2, ConstantsAssumption DEF ConstantsAssumption, DeviceType
  <2>2. PICK i \in 1 .. Len(d.faults) : d.faults[i].open /\ (d.faults[i].fatal \/ d.faults[i].severity = FATAL)
    BY DEF Condemned, HasOpenFatal
  <2>3. i \in 1 .. Len(e.faults) /\ e.faults[i] = d.faults[i]
    BY <1>2, <2>1
  <2> QED
    BY <2>2, <2>3 DEF Condemned, HasOpenFatal
<1> QED
  BY <1>1, <1>2 DEF FaultsGrow

(* Where evidence alone may take a device. *)
LEMMA DeteriorationIsWorse ==
  ASSUME NEW d, Intact(d), NEW e, Deteriorated(d, e), NEW id
  PROVE  PhaseOf(e) \in Lifecycle(id)!Worse(PhaseOf(d))
<1>1. d.state \in {"INITIALIZING", "HEALTHY", "DEGRADED", "UNHEALTHY", "FAILED", "QUARANTINED", "LOST"}
  BY DEF Intact, Sound, Deteriorated, StoreStates, HealthStates
<1> QED
  BY <1>1 DEF Deteriorated, PhaseOf, CanTransition, LegalFrom, Lifecycle!Worse

(* Serving, too, is decided by reassessLocked. *)
LEMMA AssessedDecided ==
  ASSUME TypeOK, NEW d, Intact(d), NEW x \in DeviceType, Edited(d, x)
  PROVE  Decided(Assessed(x))
<1> DEFINE e == Assessed(x)
<1>1. Frame(x, e)
  BY EditedFacts
<1>2. policyGeneration \in Nat /\ Editable(x)
  BY DEF TypeOK, Edited
<1>3. e.readiness \in ExecutionReady =>
        /\ e.state \in {"HEALTHY", "DEGRADED"} /\ ~Quarantined(x) /\ ~HasOpenFatal(x.faults)
  BY <1>2, ReassessReady DEF Assessed
<1> HIDE DEF e
<1> QED
  BY <1>1, <1>3 DEF Frame, Decided, Serves, Condemned, PhaseOf, Quarantined, e

(* The steps of DeviceLifecycle, in terms of the device. *)
AssessStep(id, d, e) ==
  /\ PhaseOf(e) \in Lifecycle(id)!Worse(PhaseOf(d)) /\ Decided(e)
  /\ Condemned(d) => Condemned(e)
  /\ Quarantined(e) = Quarantined(d)

HoldStep(d, e) ==
  /\ ~Quarantined(d) /\ Quarantined(e) /\ e.faults = d.faults
  /\ \/ PhaseOf(d) \notin {"recovering", "lost"} /\ PhaseOf(e) = "quarantined" /\ Decided(e)
     \/ PhaseOf(d) = "recovering" /\ PhaseOf(e) = "recovering" /\ Decided(e)
     \/ PhaseOf(d) = "lost" /\ PhaseOf(e) = "lost" /\ e.readiness = d.readiness

ReleaseStep(id, d, e) ==
  /\ Quarantined(d) /\ ~Quarantined(e) /\ e.faults = d.faults
  /\ PhaseOf(e) \in Lifecycle(id)!Worse(PhaseOf(d)) /\ Decided(e)

BeginStep(d, e) ==
  /\ PhaseOf(d) \in {"broken", "quarantined"} /\ PhaseOf(e) = "recovering" /\ Decided(e)
  /\ Quarantined(e) = Quarantined(d) /\ e.faults = d.faults

EndStep(d, e) ==
  /\ PhaseOf(d) = "recovering" /\ PhaseOf(e) \in {"inService", "broken", "quarantined"}
  /\ Quarantined(d) => PhaseOf(e) = "quarantined"
  /\ Condemned(d) /\ ~Quarantined(d) => PhaseOf(e) = "broken"
  /\ Decided(e)
  /\ Quarantined(e) = Quarantined(d) /\ e.faults = d.faults

LoseStep(d, e) ==
  /\ PhaseOf(e) = "lost" /\ e.readiness = d.readiness
  /\ Quarantined(e) = Quarantined(d) /\ e.faults = d.faults

Looks(d, e) ==
  /\ PhaseOf(e) = PhaseOf(d) /\ e.readiness = d.readiness
  /\ Quarantined(e) = Quarantined(d) /\ e.faults = d.faults

(* Whatever reassesses a device is one of them. *)
LEMMA EditedLife ==
  ASSUME TypeOK, NEW id, NEW d, Intact(d), NEW x \in DeviceType, Edited(d, x)
  PROVE  LET e == Assessed(x) IN
         \/ AssessStep(id, d, e) \/ HoldStep(d, e) \/ ReleaseStep(id, d, e)
         \/ BeginStep(d, e) \/ EndStep(d, e)
<1> DEFINE e == Assessed(x)
<1>1. /\ Decided(e) /\ Frame(x, e) /\ Intact(e) /\ FaultsGrow(d, e) /\ d \in DeviceType
  BY EditedFacts, AssessedDecided DEF Intact
<1>2. /\ e.faults = x.faults /\ Quarantined(e) = Quarantined(x)
      /\ e.inRecovery = x.inRecovery
      /\ Condemned(d) => Condemned(e)
  BY <1>1, CondemnedStays DEF Frame, Quarantined
<1>3. \/ Deteriorated(d, e) /\ (Unmoved(d, x) \/ Released(d, x) \/ Held(d, x))
      \/ RecoveryBegun(d, e) /\ Begun(d, x)
      \/ RecoveryOngoing(d, e)
         /\ (Unmoved(d, x) \/ Released(d, x) \/ Held(d, x) \/ Advanced(d, x))
      \/ RecoveryEnded(d, e) /\ Advanced(d, x)
  BY EditedMoves
<1>4. Sound(d) /\ Sound(e)
  BY <1>1 DEF Intact
<1> SUFFICES \/ AssessStep(id, d, e) \/ HoldStep(d, e) \/ ReleaseStep(id, d, e)
             \/ BeginStep(d, e) \/ EndStep(d, e)
  OBVIOUS
<1> HIDE DEF e
<1>5. CASE Deteriorated(d, e) /\ Unmoved(d, x)
  BY <1>1, <1>2, <1>5, DeteriorationIsWorse DEF Unmoved, AssessStep
<1>6. CASE Deteriorated(d, e) /\ Released(d, x)
  BY <1>1, <1>2, <1>6, DeteriorationIsWorse DEF Released, ReleaseStep
<1>7. CASE Deteriorated(d, e) /\ Held(d, x)
  <2>1. e.state = "QUARANTINED"
    BY <1>2, <1>4, <1>7 DEF Deteriorated, Held, Sound
  <2>2. d.state \notin {"RECOVERING", "REVALIDATING", "LOST"} /\ d.state \in StoreStates
    BY <1>4, <1>7 DEF Deteriorated, Held, Sound
  <2>3. PhaseOf(e) = "quarantined" /\ PhaseOf(d) \notin {"recovering", "lost"}
    BY <2>1, <2>2 DEF PhaseOf, StoreStates, HealthStates
  <2> QED
    BY <1>1, <1>2, <1>7, <2>3 DEF Held, HoldStep
<1>8. CASE RecoveryBegun(d, e) /\ Begun(d, x)
  <2>1. PhaseOf(d) \in {"broken", "quarantined"} /\ PhaseOf(e) = "recovering"
    BY <1>8 DEF RecoveryBegun, PhaseOf
  <2> QED
    BY <1>1, <1>2, <1>8, <2>1 DEF Begun, BeginStep
<1>9. CASE RecoveryOngoing(d, e)
  <2>1. \/ PhaseOf(d) = "recovering" /\ PhaseOf(e) = "recovering"
        \/ PhaseOf(d) = "lost" /\ PhaseOf(e) = "lost"
    BY <1>4, <1>9 DEF RecoveryOngoing, Sound, PhaseOf
  <2>2. PhaseOf(e) \in Lifecycle(id)!Worse(PhaseOf(d))
    BY <2>1 DEF Lifecycle!Worse
  <2>3. d.state # "LOST" => PhaseOf(d) = "recovering" /\ PhaseOf(e) = "recovering"
    BY <1>4, <1>9 DEF RecoveryOngoing, Sound, PhaseOf
  <2> QED
    BY <1>1, <1>2, <1>3, <1>9, <2>2, <2>3
    DEF Unmoved, Released, Held, Advanced, AssessStep, ReleaseStep, HoldStep,
        RecoveryOngoing, RecoveryBegun, RecoveryEnded, Deteriorated
<1>10. CASE RecoveryEnded(d, e) /\ Advanced(d, x)
  <2>1. PhaseOf(d) = "recovering"
    BY <1>4, <1>10 DEF RecoveryEnded, Sound, PhaseOf
  <2>2. /\ PhaseOf(e) \in {"inService", "broken", "quarantined"}
        /\ Quarantined(e) => PhaseOf(e) = "quarantined"
        /\ ~Quarantined(e) /\ HasOpenFatal(e.faults) => PhaseOf(e) = "broken"
    BY <1>10 DEF RecoveryEnded, PhaseOf
  <2> QED
    BY <1>1, <1>2, <1>10, <2>1, <2>2 DEF Advanced, EndStep, Condemned
<1> QED
  BY <1>3, <1>5, <1>6, <1>7, <1>8, <1>9, <1>10

(* So is whatever else an operation may do to it. *)
LEMMA DeviceLife ==
  ASSUME TypeOK, NEW id, NEW d, Intact(d), NEW e, DeviceStep(d, e)
  PROVE  \/ AssessStep(id, d, e) \/ HoldStep(d, e) \/ ReleaseStep(id, d, e)
         \/ BeginStep(d, e) \/ EndStep(d, e) \/ LoseStep(d, e) \/ Looks(d, e)
<1>1. CASE e = d
  BY <1>1 DEF Looks
<1>2. CASE Flagged(d, e)
  BY <1>2 DEF Flagged, Frame, SameVerdict, Looks, PhaseOf, Quarantined
<1>3. CASE Lost(d, e)
  BY <1>3 DEF Lost, Frame, SameVerdict, LoseStep, PhaseOf, Quarantined
<1>4. CASE HeldWhenLost(d, e)
  BY <1>4 DEF HeldWhenLost, SameVerdict, HoldStep, PhaseOf
<1> QED
  BY <1>1, <1>2, <1>3, <1>4, EditedLife DEF DeviceStep

(* A step of a tracked device is a step of DeviceLifecycle. *)
LEMMA TrackedLife ==
  ASSUME 0 \notin Uuids, Inv, KnownIds, [Next]_vars, NEW id \in DOMAIN devices
  PROVE  Lifecycle(id)!Next \/ UNCHANGED Lifecycle(id)!vars
<1> DEFINE d == devices[id]
           e == devices'[id]
<1>1. Tracked(id) /\ Tracked(id)' /\ Intact(d) /\ DeviceStep(d, e) /\ TypeOK
  BY NextStep, OwnStep DEF Inv, StoreInv, DevicesIntact, Tracked
<1>2. PhaseOf(d) # "untracked" /\ PhaseOf(d)' # "untracked"
  BY <1>1, DeviceStepIntact DEF Intact, Sound, PhaseOf, StoreStates, HealthStates
<1>3. \/ AssessStep(id, d, e) \/ HoldStep(d, e) \/ ReleaseStep(id, d, e)
      \/ BeginStep(d, e) \/ EndStep(d, e) \/ LoseStep(d, e) \/ Looks(d, e)
  BY <1>1, DeviceLife
<1>4. CASE AssessStep(id, d, e)
  <2>1. Lifecycle(id)!Assess
    BY <1>1, <1>4 DEF Lifecycle!Assess, Lifecycle!Decide, AssessStep, Decided, Serves, Condemned
  <2> QED
    BY <2>1 DEF Lifecycle!Next
<1>5. CASE HoldStep(d, e)
  <2>1. Lifecycle(id)!Hold
    BY <1>1, <1>2, <1>5 DEF Lifecycle!Hold, Lifecycle!Decide, HoldStep, Decided, Serves, Condemned
  <2> QED
    BY <2>1 DEF Lifecycle!Next
<1>6. CASE ReleaseStep(id, d, e)
  <2>1. Lifecycle(id)!Release
    BY <1>1, <1>6 DEF Lifecycle!Release, Lifecycle!Decide, ReleaseStep, Decided, Serves, Condemned
  <2> QED
    BY <2>1 DEF Lifecycle!Next
<1>7. CASE BeginStep(d, e)
  <2>1. Lifecycle(id)!BeginRecovery
    BY <1>1, <1>7
    DEF Lifecycle!BeginRecovery, Lifecycle!Decide, BeginStep, Decided, Serves, Condemned
  <2> QED
    BY <2>1 DEF Lifecycle!Next
<1>8. CASE EndStep(d, e)
  <2>1. Lifecycle(id)!EndRecovery
    BY <1>1, <1>8
    DEF Lifecycle!EndRecovery, Lifecycle!Decide, EndStep, Decided, Serves, Condemned
  <2> QED
    BY <2>1 DEF Lifecycle!Next
<1>9. CASE LoseStep(d, e)
  <2>1. Lifecycle(id)!Lose
    BY <1>1, <1>2, <1>9 DEF Lifecycle!Lose, LoseStep
  <2> QED
    BY <2>1 DEF Lifecycle!Next
<1>10. CASE Looks(d, e)
  BY <1>1, <1>10 DEF Lifecycle!vars, Looks
<1> QED
  BY <1>3, <1>4, <1>5, <1>6, <1>7, <1>8, <1>9, <1>10

(* A registration begins a life; an id nobody tracks has none. *)
LEMMA UntrackedLife ==
  ASSUME 0 \notin Uuids, Inv, KnownIds, [Next]_vars, NEW id, id \notin DOMAIN devices
  PROVE  Lifecycle(id)!Next \/ UNCHANGED Lifecycle(id)!vars
<1>1. ~Tracked(id)
  BY DEF Tracked
<1>2. CASE id \notin DOMAIN devices'
  BY <1>1, <1>2 DEF Tracked, Lifecycle!vars
<1>3. CASE id \in DOMAIN devices'
  <2>1. PICK stale : Tracked(id)' /\ devices'[id] = NewDevice(FALSE, stale)
    BY <1>3, NextStep DEF Inv, StoreStep, DevicesStep, New, Tracked
  <2>2. /\ PhaseOf(devices'[id]) = "probation" /\ ~(devices'[id].readiness \in ExecutionReady)
        /\ ~Quarantined(devices'[id]) /\ ~HasOpenFatal(devices'[id].faults)
    BY <2>1 DEF NewDevice, PhaseOf, ExecutionReady, Quarantined, HasOpenFatal
  <2>3. Lifecycle(id)!Register
    BY <1>1, <2>1, <2>2 DEF Lifecycle!Register
  <2> QED
    BY <2>3 DEF Lifecycle!Next
<1> QED
  BY <1>2, <1>3

(* Every device of the store lives the life DeviceLifecycle allows: serving is *)
(* earned, deterioration is one way, quarantine binds until it is released     *)
(* and the way back leads through a recovery.                                  *)
THEOREM LifecycleRefined ==
  ASSUME 0 \notin Uuids PROVE Spec => ImplementsLifecycle
<1>1. Init => \A id \in Uuids : Lifecycle(id)!Init
  BY DEF Init, Lifecycle!Init, Tracked
<1>2. Inv /\ KnownIds /\ [Next]_vars =>
        [\A id \in Uuids : Lifecycle(id)!Next \/ UNCHANGED Lifecycle(id)!vars]_vars
  BY TrackedLife, UntrackedLife
<1> QED
  BY <1>1, <1>2, KnownAlways, PTL DEF Spec, ImplementsLifecycle
=============================================================================
