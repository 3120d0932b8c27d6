CONSTANTS
  d1 = d1
  d2 = d2
  d3 = d3
  c1 = c1
  c2 = c2
  c3 = c3
  c4 = c4
  c5 = c5
  c6 = c6
  NULL = NULL
  Desc = {d1, d2}
  Cell = {c1, c2, c3, c4, c5, c6}
  Mob = {c1}
  Name = {"player", "wizard", "implementor"}
  Level <- MCLevel
  MobLevel = 0
  InitId <- MCInitId
  MaxId = 3
  Scenarios <- PairScenes
SYMMETRY DescSymmetry
SPECIFICATION MCSpec
INVARIANTS
  SnoopSound
  BodiesLinked
  NoFreedCell
