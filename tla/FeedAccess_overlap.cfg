SPECIFICATION Spec
CONSTANTS
  none = none
  Hwids = {h1, h2, h3}
  NoHwid = none
  LogIds = {i1, i2, i3}
  Limits = {0, 1}
  Editable <- MCEditable
  Slots = {s1, s2}
  CanFail = TRUE
INVARIANTS
  TypeOK
  LimitKept
  AnnouncedOnce
  SerialHeralded
SYMMETRY Symmetry
CHECK_DEADLOCK FALSE
