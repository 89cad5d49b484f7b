SPECIFICATION CoordSpec
CONSTANTS
  Uuids = {1}
  Workers = {w1}
  Boots = {b1, b2}
  NoWorker = NoWorker
  NoBoot = NoBoot
  Kinds <- OneKind
  Reports <- NominalReports
  Faults <- NoFaults
  Validations <- OneValidation
  Policies <- QuickOnly
  Epochs = {1}
  Timestamps = {1}
  MaxTime = 1
  MaxObservationGeneration = 1
  MaxDeviceGeneration = 1
  MaxPolicyGeneration = 1
  MaxSuccesses = 1
  MaxPending = 0
  Conns = {c1, c2}
CHECK_DEADLOCK FALSE
INVARIANT
  NothingReadyWithoutWorkers
