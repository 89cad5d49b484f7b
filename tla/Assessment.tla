----------------------------- MODULE Assessment -----------------------------
(***************************************************************************)
(* The decisions the store takes about one device: how fresh its evidence  *)
(* is, which health state the evidence calls for, and whether the device   *)
(* may execute work.  A device d is the record HealthStore keeps; the      *)
(* operators read only the fields they name.  The texts, confidence,       *)
(* action hint and digest of an assessment are outputs no decision reads,  *)
(* and are left out.                                                       *)
(***************************************************************************)
EXTENDS Transitions, Sequences, FiniteSets

Freshnesses == {"CURRENT", "AGING", "STALE", "EXPIRED"}

ReadinessStates ==
  {"READY", "READY_DEGRADED", "NOT_READY", "REVALIDATION_REQUIRED",
   "DRAIN_REQUIRED", "QUARANTINED", "UNKNOWN"}

(* executionReady accompanies exactly these two readiness states *)
ExecutionReady == {"READY", "READY_DEGRADED"}

(* Severity, as the enumeration's rank *)
WARNING == 1
CRITICAL == 3
FATAL == 4

(* ValidationDepth, as the enumeration's rank NONE .. FULL *)
Depths == 0 .. 7

(* What a health dimension says: absent, fine, FAILED, or FAILED with severity  *)
(* FATAL.  A DEGRADED dimension only adds a reason and counts as "NOMINAL".     *)
DimensionStates == {"ABSENT", "NOMINAL", "FAILED", "FATAL"}

-----------------------------------------------------------------------------
(* FreshnessEvaluator::evaluate, and EXPIRED when there is no evidence at all. *)
Freshness(pol, observed, now) ==
  IF observed = 0 THEN "EXPIRED"
  ELSE IF observed > now \/ now - observed <= pol.current THEN "CURRENT"
  ELSE IF now - observed <= pol.stale THEN "AGING"
  ELSE IF now - observed <= pol.expire THEN "STALE"
  ELSE "EXPIRED"

OutOfDate(f) == f \in {"STALE", "EXPIRED"}

(* FaultHistory::stats *)
HasOpenFatal(faults) ==
  \E i \in 1 .. Len(faults) :
    faults[i].open /\ (faults[i].fatal \/ faults[i].severity = FATAL)

HasOpenCritical(faults) ==
  \E i \in 1 .. Len(faults) : faults[i].open /\ faults[i].severity >= CRITICAL

(* consecutiveOfType(back().type): the length of the run of one type at the end *)
ConsecutiveLatest(faults) ==
  Cardinality({i \in 1 .. Len(faults) :
                 \A j \in i .. Len(faults) : faults[j].type = faults[Len(faults)].type})

HasFailed(dims) == \E k \in DOMAIN dims : dims[k] \in {"FAILED", "FATAL"}
HasFatal(dims)  == \E k \in DOMAIN dims : dims[k] = "FATAL"

Quarantined(d) == d.quarantine = "active"

-----------------------------------------------------------------------------
(* Variant: a passing validation depth outweighs the fatal evidence. *)
TargetForgivingFatal(d, pol, now) ==
  IF d.inRecovery THEN d.state
  ELSE IF Quarantined(d) THEN "QUARANTINED"
  ELSE IF HasOpenFatal(d.faults) /\ d.highestValidation < pol.requiredDepth THEN "FAILED"
  ELSE IF OutOfDate(Freshness(pol, d.lastObservation, now)) THEN d.state
  ELSE "HEALTHY"

(* Variant: the active quarantine is not looked at. *)
TargetForgettingQuarantine(d, pol, now) ==
  IF d.inRecovery THEN d.state
  ELSE IF HasOpenFatal(d.faults) \/ HasFatal(d.dimensions) THEN "FAILED"
  ELSE IF HasFailed(d.dimensions) THEN "UNHEALTHY"
  ELSE IF OutOfDate(Freshness(pol, d.lastObservation, now)) THEN d.state
  ELSE "HEALTHY"

(* Variant: each threshold is crossed one fault late. *)
TargetOffByOne(d, pol, now) ==
  LET run == ConsecutiveLatest(d.faults) IN
  IF d.inRecovery THEN d.state
  ELSE IF Quarantined(d) THEN "QUARANTINED"
  ELSE IF HasOpenFatal(d.faults) \/ HasFatal(d.dimensions) THEN "FAILED"
  ELSE IF HasFailed(d.dimensions) THEN "UNHEALTHY"
  ELSE IF HasOpenCritical(d.faults) /\ run > pol.quarantineAfter THEN "QUARANTINED"
  ELSE IF run > pol.unhealthyAfter THEN "UNHEALTHY"
  ELSE IF run > pol.degradeAfter THEN "DEGRADED"
  ELSE "HEALTHY"

(* The state the evidence calls for: the decision of AssessmentEngine::assess. *)
Target(d, pol, now) ==
  LET run == ConsecutiveLatest(d.faults) IN
  IF d.inRecovery THEN
    IF d.state \in {"RECOVERING", "REVALIDATING", "DRAINING", "DRAINED"}
      THEN d.state ELSE "RECOVERING"
  ELSE IF Quarantined(d) THEN "QUARANTINED"
  ELSE IF HasOpenFatal(d.faults) \/ HasFatal(d.dimensions) THEN "FAILED"
  ELSE IF HasFailed(d.dimensions) THEN "UNHEALTHY"
  ELSE IF HasOpenCritical(d.faults) /\ run >= pol.quarantineAfter THEN "QUARANTINED"
  ELSE IF run >= pol.unhealthyAfter THEN "UNHEALTHY"
  ELSE IF run >= pol.degradeAfter THEN "DEGRADED"
  ELSE IF OutOfDate(Freshness(pol, d.lastObservation, now)) THEN
    IF d.state = "HEALTHY" THEN "DEGRADED" ELSE d.state
  ELSE "HEALTHY"

(* What a HEALTHY device still needs before it may run at full readiness. *)
NeedsRevalidation(d, pol) ==
  \/ d.highestValidation < pol.requiredDepth
  \/ d.deviceGenerationChanged
  \/ d.policyGenerationChanged
  \/ d.requiresRevalidation

(* Variant: the health state stands in for the readiness state. *)
ReadinessMirroringState(d, pol, now) ==
  IF Quarantined(d) THEN "QUARANTINED" ELSE d.state

(* Variant: a HEALTHY device is ready, revalidated or not. *)
ReadinessTrustingState(d, pol, now) ==
  IF Quarantined(d) \/ d.state = "QUARANTINED" THEN "QUARANTINED"
  ELSE IF d.state = "HEALTHY" THEN "READY" ELSE "NOT_READY"

(* Variant: the age of the evidence is left to the health state. *)
ReadinessForgettingAge(d, pol, now) ==
  IF Quarantined(d) THEN "QUARANTINED"
  ELSE IF d.state = "HEALTHY" /\ ~NeedsRevalidation(d, pol) THEN "READY"
  ELSE IF d.state = "DEGRADED" THEN "READY_DEGRADED" ELSE "NOT_READY"

(* Variant: the quarantine record is not looked at, only the state. *)
ReadinessForgettingQuarantine(d, pol, now) ==
  IF d.state = "QUARANTINED" THEN "QUARANTINED" ELSE "REVALIDATION_REQUIRED"

(* ReadinessEvaluator::evaluate *)
Readiness(d, pol, now) ==
  LET fresh == Freshness(pol, d.lastObservation, now) IN
  IF Quarantined(d) THEN "QUARANTINED"
  ELSE IF d.state \in {"HEALTHY", "DEGRADED"} /\ OutOfDate(fresh)
    THEN "REVALIDATION_REQUIRED"
  ELSE CASE d.state \in {"FAILED", "UNHEALTHY"} -> "DRAIN_REQUIRED"
         [] d.state = "DEGRADED" ->
              IF pol.allowDegraded THEN "READY_DEGRADED" ELSE "NOT_READY"
         [] d.state = "HEALTHY" ->
              IF NeedsRevalidation(d, pol) THEN "REVALIDATION_REQUIRED"
              ELSE IF fresh = "AGING" THEN "READY_DEGRADED"
              ELSE "READY"
         [] d.state \in {"UNKNOWN", "INITIALIZING"} -> "UNKNOWN"
         [] d.state \in {"DRAINING", "DRAINED", "RECOVERING", "REVALIDATING"} ->
              "REVALIDATION_REQUIRED"
         [] d.state = "QUARANTINED" -> "QUARANTINED"
         [] d.state \in {"OFFLINE", "LOST"} -> "NOT_READY"
=============================================================================
