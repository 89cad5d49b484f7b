SPECIFICATION PersistSpec
CONSTANTS
  Uuids = {1}
  Workers = {w1}
  Boots = {b1}
  NoWorker = NoWorker
  NoBoot = NoBoot
  Kinds <- OneKind
  Reports <- NominalReports
  Faults <- OneFault
  Validations <- NoValidations
  Policies <- QuickOnly
  Epochs = {1}
  Timestamps = {1}
  MaxTime = 1
  MaxObservationGeneration = 1
  MaxDeviceGeneration = 1
  MaxPolicyGeneration = 1
  MaxSuccesses = 1
  MaxPending = 0
  Savers = {s1}
  Racing <- Nowhere
  LoadFlags = {TRUE}
  Inodes = {1, 2}
  Garbage = Garbage
  MaxSaves = 1
  MaxRestarts = 1
CHECK_DEADLOCK FALSE
INVARIANT
  NothingReadyUntilRefreshed
