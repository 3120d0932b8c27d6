CONSTANTS
  n1 = n1
  n2 = n2
  c1 = c1
  c2 = c2
  NULL = NULL
  Name = {n1, n2}
  Conn = {c1, c2}
  Slots = 1
  MaxId = 2
  InitIndex <- MCInitIndex
  n3 = n3
  Room = {1}
  Player = {n1, n2, n3}
  Admin = {}
  MaxGuests = 2
  MaxPaid = 1
  Nobody = Nobody
  bag = bag
  box = box
  coin = coin
  key = key
  Obj = {bag, box, coin, key}
  Containers = {bag, box}
  Lapsing <- MCLapsing
  Scenes <- MCScenes
  Orders <- MCOrders
SYMMETRY MCSymmetry
SPECIFICATION MCSpec
INVARIANTS
  IndexSound
  FileCurrent
  LeasesSound
  BelongingsSound
CHECK_DEADLOCK FALSE
