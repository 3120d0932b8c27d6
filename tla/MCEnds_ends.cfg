CONSTANTS
  d1 = d1
  d2 = d2
  c1 = c1
  c2 = c2
  c3 = c3
  c4 = c4
  c5 = c5
  NULL = NULL
  Nowhere = Nowhere
  Car = Car
  ann = ann
  bob = bob
  street = street
  avenue = avenue
  west = west
  east = east
  num_floors = 4
  Blocked = {2}
  Doors <- MCDoors
  Person = {ann, bob}
  Cab = {1}
  Street = {street, avenue}
  Way = {west, east}
  Rev <- MCRev
  Taken <- MCTaken
  Rider = {ann, bob}
  Most = 1
  Number <- MCNumber
  Sought <- MCSought
  MaxLen = 5
SPECIFICATION MCSpec
INVARIANTS
  LookupSound
  DoorsSound
PROPERTIES
  EverythingEnds
CHECK_DEADLOCK FALSE
