-------------------------- MODULE DeviceLifecycle --------------------------
(***************************************************************************)
(* What the health store promises a scheduler about one device, with the   *)
(* evidence, policies, workers and clock abstracted away:                  *)
(*   - a device serves (is execution ready) only while in service, and     *)
(*     never again once it is condemned by a fatal fault;                  *)
(*   - it deteriorates by itself but never improves by itself: the way     *)
(*     back into service leads through a recovery somebody began;          *)
(*   - a held device (active quarantine) does not come back into service   *)
(*     until it is released;                                               *)
(*   - a lost device stays lost.                                           *)
(* HealthStore implements this specification for every device id.          *)
(***************************************************************************)

VARIABLES
  phase,      \* where the device is in its life
  serving,    \* whether a scheduler is told to use it
  held,       \* whether a quarantine is active
  condemned   \* whether its history holds an open fatal fault

vars == <<phase, serving, held, condemned>>

Phases == {"untracked", "probation", "inService", "broken", "quarantined",
           "recovering", "lost"}

(* Where evidence alone may take a device. *)
Worse(p) ==
  CASE p = "probation"   -> {"probation", "inService", "broken", "quarantined"}
    [] p = "inService"   -> {"inService", "broken", "quarantined"}
    [] p = "broken"      -> {"broken", "quarantined"}
    [] p = "quarantined" -> {"quarantined"}
    [] p = "recovering"  -> {"recovering"}
    [] p = "lost"        -> {"lost"}
    [] OTHER             -> {}

(* Serving is decided together with the phase. *)
Decide(p) ==
  /\ phase' = p
  /\ serving' \in BOOLEAN
  /\ serving' => p = "inService" /\ ~condemned' /\ ~held'

Init == phase = "untracked" /\ serving = FALSE /\ held = FALSE /\ condemned = FALSE

Register ==
  /\ phase = "untracked"
  /\ phase' = "probation"
  /\ UNCHANGED <<serving, held, condemned>>

(* New evidence, a new policy or a later look at the clock. *)
Assess ==
  /\ \E p \in Worse(phase) : Decide(p)
  /\ condemned' \in BOOLEAN /\ (condemned => condemned')
  /\ held' = held

(* A fresh quarantine.  One for a lost device takes hold but decides nothing.  *)
Hold ==
  /\ phase # "untracked" /\ ~held /\ held'
  /\ \/ phase \notin {"recovering", "lost"} /\ Decide("quarantined")
     \/ phase = "recovering" /\ Decide("recovering")
     \/ phase = "lost" /\ UNCHANGED <<phase, serving>>
  /\ UNCHANGED condemned

Release ==
  /\ held /\ ~held'
  /\ \E p \in Worse(phase) : Decide(p)
  /\ UNCHANGED condemned

BeginRecovery ==
  /\ phase \in {"broken", "quarantined"}
  /\ Decide("recovering")
  /\ UNCHANGED <<held, condemned>>

(* The recovery ends; a held device goes back to quarantine, a condemned one   *)
(* is broken again.                                                            *)
EndRecovery ==
  /\ phase = "recovering"
  /\ \E p \in {"inService", "broken", "quarantined"} :
       /\ held => p = "quarantined"
       /\ condemned /\ ~held => p = "broken"
       /\ Decide(p)
  /\ UNCHANGED <<held, condemned>>

(* A device is lost from any phase; serving is not decided again until the     *)
(* next assessment.                                                            *)
Lose ==
  /\ phase # "untracked"
  /\ phase' = "lost"
  /\ UNCHANGED <<serving, held, condemned>>

Next ==
  Register \/ Assess \/ Hold \/ Release \/ BeginRecovery \/ EndRecovery \/ Lose

Spec == Init /\ [][Next]_vars
=============================================================================
