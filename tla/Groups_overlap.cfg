SPECIFICATION Spec
CONSTANTS
  g0 = g0  ungrouped = ungrouped
  Names = {ungrouped, a, b}
  Ungrouped = ungrouped
  Gids = {g0, g1}
  UngroupedId = g0
  Conns = {c}
  Users = {u}
  Slots = {o1, o2}
  Requests <- MCOverlapping
  CanCrash = TRUE
INVARIANTS
  TypeOK
  RenameLeavesNoTrace
CONSTRAINT Apart
SYMMETRY SlotSymmetry
