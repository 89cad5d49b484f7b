SPECIFICATION Spec
CONSTANTS
  Uuids = {1}
  Workers = {w1}
  Boots = {b1}
  NoWorker = NoWorker
  NoBoot = NoBoot
  Kinds <- OneKind
  Reports <- NominalReports
  Faults <- FaultRun
  Validations <- NoValidations
  Policies <- StrictAndSwift
  Epochs = {1}
  Timestamps = {1}
  MaxTime = 1
  MaxObservationGeneration = 1
  MaxDeviceGeneration = 1
  MaxPolicyGeneration = 3
  MaxSuccesses = 2
  MaxPending = 2
CHECK_DEADLOCK FALSE
INVARIANTS
  ThresholdsEnforced
  NoStalePolicyAssessment
  ServingIsEarned
  HistoryAnswers
PROPERTIES
  NoFlapping
  PolicyTakesEffect
