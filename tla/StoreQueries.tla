---------------------------- MODULE StoreQueries ----------------------------
(***************************************************************************)
(* The queries of the health store and its accounting.  They change        *)
(* nothing; some read the indexes, some the devices, one the clock, and    *)
(* each takes the lock by itself.                                          *)
(***************************************************************************)
EXTENDS HealthStore, FaultHistory

(* From the indexes *)
ByHealthState(s) == {id \in DOMAIN devices : devices[id].stateIndexed = s}
QuarantinedIds == {id \in DOMAIN devices : devices[id].quarantineIndexed}
StaleEvidence == {id \in DOMAIN devices : devices[id].staleIndexed}

(* From the devices: readinessIndex_ is written with the readiness. *)
ByReadiness(r) == {id \in DOMAIN devices : devices[id].readiness = r}
RevalidationRequired == ByReadiness("REVALIDATION_REQUIRED") \cup ByReadiness("NOT_READY")

InState(s) == {id \in DOMAIN devices : devices[id].state = s}

(* recomputeAccounting, without its counts of validation records and faults. *)
Accounting ==
  [tracked     |-> Cardinality(DOMAIN devices),
   healthy     |-> Cardinality(InState("HEALTHY")),
   degraded    |-> Cardinality(InState("DEGRADED")),
   unhealthy   |-> Cardinality(InState("UNHEALTHY")),
   failed      |-> Cardinality(InState("FAILED")),
   quarantined |-> Cardinality(InState("QUARANTINED")),
   recovering  |-> Cardinality({id \in DOMAIN devices : devices[id].inRecovery}),
   stale       |-> Cardinality({id \in DOMAIN devices :
                     OutOfDate(Freshness(policy, devices[id].lastObservation, now))})]

-----------------------------------------------------------------------------
(* The answers fit together, though each comes from another index: no device   *)
(* that is not lost is offered as ready and listed as quarantined, stale or    *)
(* in need of revalidation; what quarantined() lists is accounted for as       *)
(* quarantined, recovering or lost; and staleEvidence(), which is as old as    *)
(* the latest reassessment, lists no device whose evidence counts as fresh     *)
(* now, unless a new policy has yet to be applied.                             *)
QueriesAgree ==
  LET lost  == InState("LOST")
      ready == ByReadiness("READY") \cup ByReadiness("READY_DEGRADED")
  IN  /\ (ready \ lost) \cap (QuarantinedIds \cup StaleEvidence \cup RevalidationRequired) = {}
      /\ Cardinality(QuarantinedIds)
           <= Accounting.quarantined + Accounting.recovering + Cardinality(lost)
      /\ \A s \in {"HEALTHY", "DEGRADED", "UNHEALTHY", "FAILED"} :
           InState(s) \subseteq ByHealthState(s) /\ ByHealthState(s) \ InState(s) \subseteq lost
      /\ pendingReassess = 0 => Cardinality(StaleEvidence) <= Accounting.stale

(* The loops over a fault history compute what the decisions assume of them,   *)
(* also when faults have been resolved in any order: a fault is resolved once, *)
(* stays in the history and in its run, and the history that is written is     *)
(* the one that is read back.                                                  *)
HistoryAnswers ==
  \A id \in DOMAIN devices :
    LET h == devices[id].faults  ids == {h[i].id : i \in 1 .. Len(h)} IN
    \A resolved \in SUBSET ids :
      LET k == FoldLeft(LAMBDA past, f : IF f.id \in resolved THEN Resolve(past, f.id)
                                         ELSE past, h, h)
          s == Stats(k)
      IN  /\ s.open.hasOpenFatal = HasOpenFatal(k)
          /\ s.open.hasOpenCritical = HasOpenCritical(k)
          /\ s.open.criticalFatalOpen =
               Len(SelectSeq(OpenFaults(k), LAMBDA f : f.severity >= CRITICAL))
          /\ s.consecutiveLatest = ConsecutiveLatest(h)
          /\ \A f \in ids : Resolvable(k, f) = (Resolvable(h, f) /\ f \notin resolved)
          /\ \A n \in 0 .. Len(h) : IsSuffix(Recent(k, n), k)
          /\ Read(k) = [ok |-> TRUE, history |-> k]
=============================================================================
