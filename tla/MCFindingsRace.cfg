SPECIFICATION Spec
CONSTANTS
  t1 = t1  t2 = t2  t3 = t3
  a = a  b = b
  summary = summary
  Txn = {t1, t2}
  Key = {a, b}
  BatchesOf <- AnyBatch
  MaxBatch = 2
  Lock = {summary}
  NoLock = NoLock
  GuardOf <- UnguardedOf
  NoTxn = NoTxn
INVARIANTS
  TypeOK
  OneActivePerKey
  EvidenceSurvives
PROPERTIES
  VerdictsStand
  ImplementsStore
