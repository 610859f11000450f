SPECIFICATION FairSpec
CONSTANTS
  t1 = t1
  t2 = t2
  Tasks = {t1, t2}
  Name <- MCName
  AllowMultiExecution = {}
  Windows <- MCWindows
  HeightTolerance = 1
  ResponseChanSize = 1
  MaxHeight = 2
  MaxCrashes = 1
INVARIANTS OneRunning GoroutinesTracked
PROPERTIES NoSecondTx  LoopReturns
