--------------------------- MODULE MCHealthStore ---------------------------
(* Constant values for checking HealthStore and StoreQueries with TLC. *)
EXTENDS StoreQueries

(* Small thresholds, in the order of the defaults: 1 fault degrades, 2 make    *)
(* the device unhealthy, 3 quarantine it; evidence is current for one tick,    *)
(* aging for another, stale for a third.                                       *)
Strict ==
  [current |-> 0, stale |-> 1, expire |-> 2, degradeAfter |-> 1,
   unhealthyAfter |-> 2, quarantineAfter |-> 3, requiredDepth |-> 7,
   recoveryValidationsRequired |-> 2, allowDegraded |-> TRUE]

(* No validation is asked for; the second fault of a run quarantines. *)
Swift ==
  [current |-> 1, stale |-> 2, expire |-> 3, degradeAfter |-> 1,
   unhealthyAfter |-> 1, quarantineAfter |-> 2, requiredDepth |-> 0,
   recoveryValidationsRequired |-> 1, allowDegraded |-> FALSE]

OnlyStrict == {Strict}
StrictAndSwift == {Strict, Swift}

OneKind == {"EXECUTION"}
AllReports == [Kinds -> {"NOMINAL", "FAILED", "FATAL"}]
NominalReports == [Kinds -> {"NOMINAL"}]

Fault(i, t, s) ==
  [id |-> i, type |-> t, severity |-> s, fatal |-> FALSE, open |-> TRUE]

FewFaults ==
  {Fault(1, "TRANSFER", WARNING), Fault(2, "TRANSFER", CRITICAL), Fault(9, "RUNTIME", FATAL)}
FaultRun ==
  {Fault(2, "TRANSFER", CRITICAL), Fault(3, "TRANSFER", CRITICAL), Fault(4, "POWER", WARNING)}

Validation(i, n, p) == [id |-> i, depth |-> n, passed |-> p]
NoValidations == {}
FullValidations == {Validation(1, 7, TRUE), Validation(1, 7, FALSE)}
=============================================================================
