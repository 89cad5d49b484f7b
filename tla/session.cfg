SPECIFICATION SessionSpec
CONSTANTS
  Uuids = {1}
  Workers = {1}
  Boots = {1, 2, 1001}
  NoWorker = NoWorker
  NoBoot = NoBoot
  Kinds <- OneKind
  Reports <- NominalReports
  Faults <- ItsFaults
  Validations <- ItsValidations
  Policies <- QuickOnly
  Epochs = {1}
  Timestamps = {1}
  MaxTime = 1
  MaxObservationGeneration = 2
  MaxDeviceGeneration = 2
  MaxPolicyGeneration = 1
  MaxSuccesses = 1
  MaxPending = 0
  Procs = {1, 2}
  CommandLines <- Lines
  MaxSnapshot = 1
  MaxDamage = 1
CHECK_DEADLOCK FALSE
INVARIANTS
  AckIsTruth
  AtMostOnce
PROPERTIES
  FencesHold
  EveryRunEnds
  ImplementsCoordinator
