SPECIFICATION Spec
CONSTANTS
  s2 = s2  a1 = a1  a2 = a2  b = b  coreA = coreA  NoCore = NoCore
  Runs = {r1, r2}
  Subs = {s1, s2}
  JsonSubs = {s2}
  Lists <- MCLists
  Budget = 2
  Uris <- MCUris
  Identity <- MCIdentity
  Stable <- MCStable
  Opaque <- MCOpaque
INVARIANTS
  TypeOK
  StaleIsUnlistedOrDuplicate
  SoloSyncMirrors
  SerialIntegrity
PROPERTIES
  OnlyOwnRowsDeleted
CHECK_DEADLOCK FALSE
SYMMETRY RunSymmetry
CONSTRAINT OverlapInOne
