SPECIFICATION Spec
CONSTANTS
  s1 = s1  s2 = s2  here = here  there = there
  reader = reader  sender = sender  twin = twin
  Server = {here, there}
  Scan = {s1, s2}
  Tool = {reader, sender, twin}
  Name = {"read", "send"}
  NameOf <- MCNameOf
  ServerOf <- MCServerOf
  Alike <- MCAlike
  CapsOf <- MCCapsOf
  VerdictOf <- MCVerdictOf
  ScoreOf <- MCScoreOf
  Handled <- MCHandled
  NoScan = NoScan
  NoTool = NoTool
  NoName = NoName
  MaxFails = 1
INVARIANT
  CapabilitiesNeverContended
