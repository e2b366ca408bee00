SPECIFICATION Spec
CONSTANTS
  s1 = s1  s2 = s2
  Scan = {s1, s2}
  HitsOf <- MCHitsOf
  Manifests = {"package.json"}
  Language = "python"
  Installed <- AllInstalled
  Packed = {"directory"}
  NoScan = NoScan
  MaxFails = 2
INVARIANT
  EvidenceActiveOnce
