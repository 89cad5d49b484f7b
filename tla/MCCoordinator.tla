--------------------------- MODULE MCCoordinator ---------------------------
(* Constant values for checking Coordinator with TLC. *)
EXTENDS Coordinator

(* Evidence is current in its own tick and expired after; one fault degrades. *)
Quick ==
  [current |-> 0, stale |-> 0, expire |-> 0, degradeAfter |-> 1,
   unhealthyAfter |-> 2, quarantineAfter |-> 3, requiredDepth |-> 7,
   recoveryValidationsRequired |-> 1, allowDegraded |-> TRUE]

QuickOnly == {Quick}
OneKind == {"EXECUTION"}
NominalReports == [Kinds -> {"NOMINAL"}]
NoFaults == {}
OneFault ==
  {[id |-> 1, type |-> "TRANSFER", severity |-> CRITICAL, fatal |-> FALSE, open |-> TRUE]}
OneValidation == {[id |-> 1, depth |-> 7, passed |-> TRUE]}
=============================================================================
