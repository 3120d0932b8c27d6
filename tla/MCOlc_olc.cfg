CONSTANTS
  b1 = b1
  b2 = b2
  t1 = t1
  t2 = t2
  None = None
  Builder = {b1, b2}
  Thing = {t1, t2}
  Scenes <- Plays
SPECIFICATION Spec
INVARIANTS
  InRoomTrue
  WaysTrue
  NamesTrue
