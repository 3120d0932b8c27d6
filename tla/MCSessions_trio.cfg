CONSTANTS
  d1 = d1
  d2 = d2
  d3 = d3
  c1 = c1
  c2 = c2
  c3 = c3
  c4 = c4
  c5 = c5
  c6 = c6
  NULL = NULL
  Desc = {d1, d2, d3}
  Cell = {c1, c2, c3, c4, c5, c6}
  Mob = {c6}
  Name = {"player", "wizard", "vicepres", "implementor"}
  Level <- MCLevel
  MobLevel = 11
  InitId <- MCInitId
  MaxId = 4
  Scenarios <- TrioScenes
SYMMETRY DescSymmetry
SPECIFICATION MCSpec
INVARIANTS
  SnoopAcyclic
  OwnersInOrder
