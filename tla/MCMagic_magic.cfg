SPECIFICATION Spec
CONSTANTS
  p1 = p1
  p2 = p2
  g1 = g1
  g2 = g2
  r1 = r1
  r2 = r2
  None = None
  Char <- Chars
  Mob <- Mobs
  Id <- Numbers
  Room <- Rooms
  Sight <- OneWay
  MaxAffect = 3
  SusMax = 2
  Dark = 1
  Scenes <- Plays
INVARIANTS
  SorceryBound
  EffectsPaired
PROPERTIES
  UpdateExact
CHECK_DEADLOCK FALSE
