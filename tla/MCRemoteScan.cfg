SPECIFICATION Spec
CONSTANTS
  s1 = s1  s2 = s2  mild = mild  rewritten = rewritten  nameless = nameless
  Scan = {s1, s2}
  Tool = {mild, rewritten, nameless}
  Name = {"search"}
  NameOf <- MCNameOf
  Cert = {"renewed", "homemade"}
  Trusted = {"renewed"}
  Expiring = {"renewed"}
  Version = {"2025-03-26", "2030-01-01"}
  KnownVersions = {"2025-03-26"}
  Site <- MCSite
  NoScan = NoScan
  NoName = NoName
  NoCert = NoCert
  NoVersion = NoVersion
  MaxChanges = 1
  MaxNetFails = 2
  MaxDbFails = 1
INVARIANTS
  TypeOK
  CitationsResolve
  NothingObservedLost
PROPERTIES
  ScansEnd
