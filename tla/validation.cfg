SPECIFICATION ValSpec
CONSTANTS
  Gpus = {1, 2}
  AskedFor = {1, 2, 3}
  BufferSize = 2
  Tolerance = 1
  Capacity = 5
  MaxOthers = 1
INVARIANTS
  PassedIsEarned
  BufferReturned
  LeakNoticed
  UndisturbedMatchesFake
