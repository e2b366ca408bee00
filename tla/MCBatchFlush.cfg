SPECIFICATION Spec
CONSTANTS
  j1 = j1  j2 = j2  f1 = f1  f2 = f2
  Job = {j1, j2}
  Flusher = {f1, f2}
  Timed = {f2}
  MaxInflight = 1
  NoJob = NoJob
  MaxRaises = 2
INVARIANT
  FlushSynchronous
