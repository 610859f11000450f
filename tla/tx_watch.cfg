SPECIFICATION FairSpec
CONSTANTS
  r1 = r1
  r2 = r2
  s1 = s1
  t1 = t1
  Txns = {t1, r1, r2}
  Originals = {t1}
  Subscribers = {s1}
  MaxStaleBlocks = 1
  TxNotFoundMaxBlocks = 1
  FinalityDelay = 1
  TxReceiptCacheMaxBlocks = 1
  MaxFaults = 2
  None = None
INVARIANT GroupHoldsMonitored
PROPERTY ReceiptIsFinal
PROPERTY ErrorMeansNoneFinal
PROPERTY AnsweredEventually
