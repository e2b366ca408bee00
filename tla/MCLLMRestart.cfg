SPECIFICATION Spec
CONSTANTS
  c1 = c1  c2 = c2  c3 = c3
  k = k  l = l
  tpa = tpa  NoLimit = NoLimit
  v = v
  Null = Null  Garbled = Garbled
  Call = {c1, c2}
  Key = {k, l}
  Detector = {tpa}
  Answer = {v}
  KeyOf <- MCKeyOf
  DetectorOf <- OneDetector
  Limit <- LimitOne
  MaxConcurrency = 1
  MaxAttempts = 3
  MaxDays = 0
  MaxRestarts = 1
  MaxLostRows = 1
INVARIANT
  DailyLimitKept
