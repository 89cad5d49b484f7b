---------------------------- MODULE Transitions ----------------------------
(***************************************************************************)
(* The health states of an accelerator and the transitions the state       *)
(* machine declares legal.  Everything here is constant: the module is     *)
(* shared by the StateMachine class, by the assessment engine and by the   *)
(* health store.                                                           *)
(***************************************************************************)
EXTENDS Naturals

HealthStates ==
  {"UNKNOWN", "INITIALIZING", "HEALTHY", "DEGRADED", "UNHEALTHY", "FAILED",
   "DRAINING", "DRAINED", "QUARANTINED", "RECOVERING", "REVALIDATING",
   "OFFLINE", "LOST"}

(* legalTransitions(), read as "the states s may move to". *)
LegalFrom(s) ==
  CASE s = "UNKNOWN"      -> {"INITIALIZING", "OFFLINE", "LOST", "HEALTHY"}
    [] s = "INITIALIZING" -> {"HEALTHY", "DEGRADED", "UNHEALTHY", "FAILED",
                              "DRAINING", "QUARANTINED", "OFFLINE", "LOST"}
    [] s = "HEALTHY"      -> {"DEGRADED", "UNHEALTHY", "FAILED", "DRAINING",
                              "QUARANTINED", "OFFLINE", "LOST"}
    [] s = "DEGRADED"     -> {"UNHEALTHY", "FAILED", "DRAINING",
                              "QUARANTINED", "REVALIDATING", "OFFLINE", "LOST"}
    [] s = "UNHEALTHY"    -> {"DRAINING", "FAILED", "QUARANTINED", "OFFLINE",
                              "LOST"}
    [] s = "FAILED"       -> {"QUARANTINED", "DRAINING", "RECOVERING",
                              "OFFLINE", "LOST"}
    [] s = "DRAINING"     -> {"DRAINED", "FAILED", "QUARANTINED", "OFFLINE",
                              "LOST"}
    [] s = "DRAINED"      -> {"RECOVERING", "REVALIDATING", "OFFLINE", "LOST"}
    [] s = "QUARANTINED"  -> {"RECOVERING", "OFFLINE", "LOST"}
    [] s = "RECOVERING"   -> {"REVALIDATING", "FAILED", "QUARANTINED",
                              "OFFLINE", "LOST"}
    [] s = "REVALIDATING" -> {"HEALTHY", "DEGRADED", "UNHEALTHY", "FAILED",
                              "QUARANTINED", "OFFLINE", "LOST"}
    [] s = "OFFLINE"      -> {"INITIALIZING", "HEALTHY", "LOST"}
    [] s = "LOST"         -> {"OFFLINE", "INITIALIZING"}

CanTransition(from, to) == to \in LegalFrom(from)

(* recoverySequenceFromUnhealthy and recoverySequenceFromFailed *)
RecoverySequenceFromUnhealthy ==
  <<"UNHEALTHY", "DRAINING", "DRAINED", "RECOVERING", "REVALIDATING", "HEALTHY">>

RecoverySequenceFromFailed ==
  <<"FAILED", "QUARANTINED", "RECOVERING", "REVALIDATING", "HEALTHY">>
=============================================================================
