SPECIFICATION PersistSpec
CONSTANTS
  Uuids = {1}
  Workers = {w1}
  Boots = {b1}
  NoWorker = NoWorker
  NoBoot = NoBoot
  Kinds <- OneKind
  Reports <- NoReports
  Faults <- NoFaults
  Validations <- NoValidations
  Policies <- QuickOnly
  Epochs = {1}
  Timestamps = {1}
  MaxTime = 1
  MaxObservationGeneration = 0
  MaxDeviceGeneration = 1
  MaxPolicyGeneration = 1
  MaxSuccesses = 1
  MaxPending = 0
  Savers = {s1, s2}
  Racing <- Anywhere
  LoadFlags = {TRUE}
  Inodes = {1, 2, 3, 4}
  Garbage = Garbage
  MaxSaves = 2
  MaxRestarts = 0
CHECK_DEADLOCK FALSE
INVARIANT
  FileAlwaysWhole
