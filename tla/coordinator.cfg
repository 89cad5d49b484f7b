SPECIFICATION CoordSpec
CONSTANTS
  Uuids = {1}
  Workers = {w1, w2}
  Boots = {b1}
  NoWorker = NoWorker
  NoBoot = NoBoot
  Kinds <- OneKind
  Reports <- NominalReports
  Faults <- OneFault
  Validations <- OneValidation
  Policies <- QuickOnly
  Epochs = {1}
  Timestamps = {1}
  MaxTime = 2
  MaxObservationGeneration = 2
  MaxDeviceGeneration = 1
  MaxPolicyGeneration = 1
  MaxSuccesses = 1
  MaxPending = 0
  Conns = {c1, c2}
CHECK_DEADLOCK FALSE
INVARIANTS
  ServingHasRegisteredWorker
  RegistrationHasConnection
PROPERTY
  DeadWorkerEvidenceDrops
