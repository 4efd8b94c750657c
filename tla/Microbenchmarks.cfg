CONSTANTS
  Benchmarks = {"ring", "ringAlone", "spin", "mutex", "counterAlone", "store", "storeOwn",
                "fetchAdd", "fetchAddOwn", "loopAlone", "loopLock", "loopCas",
                "loopCasTruth", "elapsed", "log", "strcpy", "maRing"}
  NumThread = 3
  Iterations = 2
  MeasureCnt = 4
  NumMsg = 4
  Runs = 2
  Capacity = 2
  MaxCounter = 8
  NumStr = 4
  Modulus = 8
  PerSecond = 3
  MaxTicks = 2
  MaCapacity = 1
  NoRecord = NoRecord
SPECIFICATION FairSpec
INVARIANTS
  LockInv
  NothingLost
  ArrayInv
  LogInv
PROPERTIES
  Terminates
