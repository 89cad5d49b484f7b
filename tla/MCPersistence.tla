--------------------------- MODULE MCPersistence ---------------------------
(* Constant values for checking Persistence with TLC. *)
EXTENDS Persistence

(* One fault degrades a device, one validation ends a recovery. *)
Quick ==
  [current |-> 1, stale |-> 1, expire |-> 1, degradeAfter |-> 1,
   unhealthyAfter |-> 2, quarantineAfter |-> 3, requiredDepth |-> 7,
   recoveryValidationsRequired |-> 1, allowDegraded |-> TRUE]

(* No validation is asked for: evidence alone makes a device ready. *)
Easy == [Quick EXCEPT !.requiredDepth = 0]

QuickOnly == {Quick}
EasyOnly == {Easy}
Encoding == {"front", "back"}
Anywhere == Encoding \cup {"open", "write", "rename", "remove"}
Nowhere == {}
OneKind == {"EXECUTION"}
NominalReports == [Kinds -> {"NOMINAL"}]
NoReports == {}
NoFaults == {}
NoValidations == {}
OneFault ==
  {[id |-> 1, type |-> "TRANSFER", severity |-> CRITICAL, fatal |-> FALSE, open |-> TRUE]}
OneValidation == {[id |-> 1, depth |-> 7, passed |-> TRUE]}
=============================================================================
