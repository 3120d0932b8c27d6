SPECIFICATION MCSpec
CONSTANTS
  c1 = c1
  c2 = c2
  x1 = x1
  x2 = x2
  x3 = x3
  NULL = NULL
  Char <- Chars
  Obj <- Objs
  Kits <- Triples
  Zaps <- GodOnly
  Heft <- Weights
  Capacity <- OnePerPocket
  BagLimit = 4
  QuiverCap = 2
  CarryN = 2
  CarryW = 4
  VehLoad = 3
INVARIANTS
  OnePlace
  BurdenExact
  ShopSound
SYMMETRY CharSymmetry
PROPERTIES
  KeptSomewhere
