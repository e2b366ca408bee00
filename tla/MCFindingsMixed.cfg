SPECIFICATION ApiSpec
CONSTANTS
  t1 = t1  t2 = t2  t3 = t3
  a = a  b = b
  summary = summary
  Txn = {t1, t2, t3}
  Key = {a, b}
  BatchesOf <- MixedBatches
  MaxBatch = 2
  Lock = {summary}
  NoLock = NoLock
  GuardOf <- MixedOf
  NoTxn = NoTxn
INVARIANTS
  SerializedScansComplete
PROPERTIES
  ScansEnd
