SPECIFICATION FairSpec
CONSTANTS
  s2 = s2  a1 = a1  a2 = a2  b = b  coreA = coreA  NoCore = NoCore
  Runs = {r1, r2}
  Subs = {s1}
  JsonSubs = {s1}
  Lists <- MCOneNode
  Budget = 2
  Uris <- MCUris
  Identity <- MCIdentity
  Stable <- MCStable
  Opaque <- MCOpaque
PROPERTIES
  Converges
CHECK_DEADLOCK FALSE
