SPECIFICATION Spec
CONSTANTS
  p1 = p1
  p2 = p2
  p3 = p3
  car = car
  van = van
  bike = bike
  r1 = r1
  r2 = r2
  Ghost = Ghost
  None = None
  Char <- Players
  Veh <- Vehicles3
  Bikes = {bike}
  Room <- Rooms
  Owner <- Owners
  Capacity <- Seats
  Decked = {p1}
  Navigated = {car, bike}
  VehList <- Row
  Scenes <- Plays
INVARIANTS SeatsCounted ChasersListed ControlTrue
PROPERTIES
  UnmannedStops
