SPECIFICATION BoardSpec
CONSTANTS
  top = top  side = side  none = none
  Connects = {1, 2, 3}
  GroupNames = {top, side, none}
  Ungrouped = none
  InitGroups <- MCGroups
  InitDocs <- MCDocs
  SubTitle <- MCSubTitle
  JsonConns = {2}
  Labels = {1, 2}
  Filters <- MCFilters
  Pages = {p}
  FlowSlots = {s, t}
  Gestures <- MCGestures
  Outside <- MCOutside
  MaxGestures = 2
  MaxOutside = 1
INVARIANTS
  BoardTypeOK
  SoloSticks
  ShowsOwnChanges
CHECK_DEADLOCK FALSE
SYMMETRY Twins
