SPECIFICATION Spec
CONSTANTS
  NoToken = NoToken
  NoLink = NoLink
  Users = {u1, u2}
  OldUsers = {u1}
  Codes = {c1, c2}
  Tokens = {t1, t2}
  Slots = {s1, s2}
INVARIANTS
  TypeOK
  OwnFeedOnly
  SerialLinkCurrent
PROPERTIES
  SoloRelinks
SYMMETRY Symmetry
CHECK_DEADLOCK FALSE
