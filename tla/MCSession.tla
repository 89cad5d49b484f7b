---------------------------- MODULE MCSession ----------------------------
(* Constant values for checking Session with TLC. *)
EXTENDS Session

(* One fault degrades a device, the second makes it unhealthy. *)
Quick ==
  [current |-> 1, stale |-> 1, expire |-> 1, degradeAfter |-> 1,
   unhealthyAfter |-> 2, quarantineAfter |-> 3, requiredDepth |-> 7,
   recoveryValidationsRequired |-> 1, allowDegraded |-> TRUE]

QuickOnly == {Quick}
OneKind == {"EXECUTION"}
NominalReports == [Kinds -> {"NOMINAL"}]
ItsFaults == {ItsFault([boot |-> b]) : b \in {1, 2}}
ItsValidations == {ItsValidation([boot |-> b]) : b \in {1, 2}}

Line(b, mode, og, dg) ==
  [worker |-> 1, boot |-> b, uuid |-> 1, mode |-> mode, epoch |-> 1,
   obsgen |-> og, devicegen |-> dg]

(* A run of any mode, beside it the next incarnation of its worker or a retry; *)
(* the validation reports a later observation and device generation.           *)
Lines ==
  <<{Line(1, m, 1, 1) : m \in {"query", "stale-epoch", "stale-boot", "stale-devgen",
                               "stale-obsgen", "report", "skewed"}}
      \cup {Line(1, "validate", 2, 2)},
    {Line(1, "validate", 1, 1), Line(2, "live", 1, 1)}>>
=============================================================================
