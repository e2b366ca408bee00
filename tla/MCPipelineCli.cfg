SPECIFICATION Spec
CONSTANTS
  s1 = s1  s2 = s2  i1 = i1  i2 = i2  c = c  w = w
  f1 = f1  f2 = f2  f3 = f3
  Server = {s1}
  Row = {f1}
  ServerOf <- Owner
  MaxLevel = 1
  AlertFrom = 1
  Ingestor = {i1}
  Cli = {c}
  LongWriter = {}
  NoProc = NoProc
  MaxNow = 2
  MaxFails = 0
  MaxLostCommits = 0
INVARIANTS
  SettledScoresCurrent
