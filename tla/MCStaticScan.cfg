SPECIFICATION Spec
CONSTANTS
  s1 = s1  s2 = s2
  Scan = {s1, s2}
  HitsOf <- MCHitsOf
  Manifests = {"package.json"}
  Language = "python"
  Installed <- Installations
  Packed = {"directory", "archive", "file"}
  NoScan = NoScan
  MaxFails = 2
SYMMETRY ScanSymmetry
INVARIANTS
  TypeOK
  WorkdirsRemoved
  CrashesContained
  SummaryMatchesFindings
