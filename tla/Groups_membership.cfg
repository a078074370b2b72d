SPECIFICATION Spec
CONSTANTS
  g0 = g0  ungrouped = ungrouped
  Names = {ungrouped, a, b}
  Ungrouped = ungrouped
  Gids = {g0, g1, g2}
  UngroupedId = g0
  Conns = {c}
  Users = {u}
  Slots = {o1}
  Requests <- MCAll
  CanCrash = FALSE
PROPERTIES
  NoSecondMainByTags
  ImplementsMembership
