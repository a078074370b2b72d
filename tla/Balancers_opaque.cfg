SPECIFICATION Spec
CONSTANTS
  g1 = g1  g2 = g2  none = none
  Conns = {1, 2, 3}
  Opaque = {1}
  Nodes = {n1, n2}
  Bals = {b1}
  Groups = {none, g1, g2}
  Ungrouped = none
  Assigned = {none, g1}
  Placing <- MCPlacing
  Placed <- MCPlaced
  Slots = {o1}
  MaxFeeds = 1
  Budget = 1
  CanCrash = TRUE
INVARIANTS
  OnlyAssigned
SYMMETRY Symmetry
