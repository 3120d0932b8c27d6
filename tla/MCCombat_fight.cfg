SPECIFICATION Spec
CONSTANTS
  ann = ann
  bob = bob
  orc = orc
  NULL = NULL
  Char <- Chars
  Mob <- Mobs
  Melee <- MeleeFighters
  Partner <- Partners
  Room = {"street", "hospital"}
  Hospital = "hospital"
  Parked = "street"
INVARIANTS
  ListSound
  FoesSound
  NobodySkipped
PROPERTIES
  RoundShrinks
