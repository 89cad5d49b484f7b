SPECIFICATION Spec
CONSTANTS
  Uuids = {1}
  Workers = {w1}
  Boots = {b1}
  NoWorker = NoWorker
  NoBoot = NoBoot
  Kinds <- OneKind
  Reports <- AllReports
  Faults <- FewFaults
  Validations <- FullValidations
  Policies <- OnlyStrict
  Epochs = {1}
  Timestamps = {1}
  MaxTime = 3
  MaxObservationGeneration = 2
  MaxDeviceGeneration = 2
  MaxPolicyGeneration = 1
  MaxSuccesses = 2
  MaxPending = 1
CHECK_DEADLOCK FALSE
INVARIANTS
  TypeOK
  RecoveryDiscipline
  QuarantineHolds
  QuarantineGatesReadiness
  FatalNeverReady
  IndexesAgree
  QueriesAgree
PROPERTIES
  ServiceInDate
  QuarantineExit
  HealthyEntry
  TrailExplainsState
  ImplementsLifecycle
