----------------------------- MODULE Elevators -----------------------------
(***************************************************************************)
(* One elevator of transport.cpp.  Its car is a room, every floor has a    *)
(* landing, and the doors are a pair of exits that are made when it stops  *)
(* and deleted when it leaves.  Whoever stands on a landing pushes the     *)
(* call button; whoever is in the car pushes the button of a floor;        *)
(* ElevatorProcess moves the car one floor with every round of combat.     *)
(*                                                                         *)
(* The number of a landing stands for the landing.  The search for the     *)
(* floor that called looks one slot beyond the table of floors; what lies  *)
(* there is taken not to be the number of a landing.                       *)
(***************************************************************************)
EXTENDS Integers

CONSTANTS
  num_floors, (* the floors, the top one first                                *)
  Blocked,    (* floors whose landing did not exist at boot: vnum -1          *)
  Doors,      (* the direction of the car in which the doors of a floor lie   *)
  Person,     (* who pushes buttons and walks                                 *)
  Car, NoFloor

Floor == 0 .. (num_floors - 1)

FloorAssumption ==
  /\ num_floors \in Nat \ {0}
  /\ Blocked \subseteq Floor /\ NoFloor \notin Floor /\ Car \notin Floor

VARIABLES
  dir,         (* -1 at rest, 0 .. UP - 1 while the doors stand open, UP, DOWN *)
  time_left,   (* floors still to go                                           *)
  rating,      (* world[rnum].rating: the floor the car is at                  *)
  destination, (* the floor whose call button was pushed, or NoFloor           *)
  car,         (* the exits of the car: the landing each leads to              *)
  landing,     (* the landings with an exit into the car                       *)
  at,          (* where everybody is: a floor, or Car                         *)
  fallen       (* close_elevator_doors has followed a null exit                *)

vars == <<dir, time_left, rating, destination, car, landing, at, fallen>>

UP == 8
DOWN == 9

\* MAX(1, n) of the buttons.
Distance(f) == IF f > rating THEN f - rating ELSE rating - f

-----------------------------------------------------------------------------
open_elevator_doors(f) ==
  /\ car' = [car EXCEPT ![Doors[f]] = f]
  /\ landing' = landing \cup {f}
  /\ dir' = UP - 1
  /\ UNCHANGED fallen

close_elevator_doors(f) ==
  /\ IF car[Doors[f]] = NoFloor
     THEN fallen' = TRUE /\ UNCHANGED <<car, landing>>
     ELSE /\ car' = [car EXCEPT ![Doors[f]] = NoFloor]
          /\ landing' = landing \ {car[Doors[f]]}
          /\ UNCHANGED fallen

\* "push button" on a landing: one call at a time, and none where the doors are open.
call_elevator(p) ==
  /\ at[p] \in Floor \ Blocked
  /\ destination = NoFloor
  /\ \A d \in DOMAIN car : car[d] # at[p]
  /\ destination' = at[p]
  /\ UNCHANGED <<dir, time_left, rating, car, landing, at, fallen>>

\* The car is sent to another floor; doors that are open close.
Leave(f) ==
  /\ dir' = IF f > rating THEN DOWN ELSE UP
  /\ time_left' = Distance(f)
  /\ IF car[Doors[rating]] = NoFloor
     THEN UNCHANGED <<car, landing, fallen>>
     ELSE close_elevator_doors(rating)

\* "push <floor>" in the car, refused while it moves.
Push(p, f) ==
  /\ at[p] = Car /\ dir < UP /\ f \notin Blocked
  /\ \/ /\ f = rating /\ car[Doors[f]] = NoFloor
        /\ open_elevator_doors(f)
        /\ UNCHANGED time_left
     \/ f # rating /\ Leave(f)
  /\ UNCHANGED <<rating, destination, at>>

Walk(p) ==
  /\ \/ /\ at[p] \in landing
        /\ at' = [at EXCEPT ![p] = Car]
     \/ /\ at[p] = Car
        /\ \E d \in DOMAIN car : car[d] # NoFloor /\ at' = [at EXCEPT ![p] = car[d]]
  /\ UNCHANGED <<dir, time_left, rating, destination, car, landing, fallen>>

-----------------------------------------------------------------------------
(* process_elevator without a command: a waiting call is taken up when the *)
(* car rests, and then the car moves, stops, waits or closes.              *)

Answers == destination # NoFloor /\ dir = -1

\* The direction and the distance this turn works with.
Heading == IF ~Answers THEN dir ELSE IF destination >= rating THEN DOWN ELSE UP
ToGo    == IF Answers THEN Distance(destination) ELSE time_left

Moves ==
  /\ ToGo > 0
  /\ time_left' = ToGo - 1
  /\ rating' = IF Heading = DOWN THEN rating + 1 ELSE rating - 1
  /\ dir' = Heading
  /\ UNCHANGED <<car, landing, fallen>>

Stops ==
  /\ ToGo = 0 /\ Heading \in {UP, DOWN}
  /\ open_elevator_doors(rating)
  /\ time_left' = 0 /\ UNCHANGED rating

Waits ==
  /\ ToGo = 0 /\ Heading \in 1 .. (UP - 1)
  /\ dir' = dir - 1
  /\ UNCHANGED <<time_left, rating, car, landing, fallen>>

Closes ==
  /\ ToGo = 0 /\ Heading = 0
  /\ close_elevator_doors(rating)
  /\ dir' = -1
  /\ UNCHANGED <<time_left, rating>>

ElevatorProcess ==
  /\ Moves \/ Stops \/ Waits \/ Closes
  /\ destination' = IF Answers THEN NoFloor ELSE destination
  /\ UNCHANGED at

-----------------------------------------------------------------------------
Init ==
  /\ dir = -1 /\ time_left = 0 /\ rating = 0 /\ destination = NoFloor
  /\ car = [d \in {Doors[f] : f \in Floor} |-> NoFloor]
  /\ landing = {} /\ fallen = FALSE
  /\ at \in [Person -> Floor \ Blocked]

Acts == \E p \in Person : call_elevator(p) \/ Walk(p) \/ \E f \in Floor : Push(p, f)

Next == ~fallen /\ (Acts \/ ElevatorProcess)

\* The elevators are served with every round of combat, whatever players do.
Serves == ~fallen /\ ElevatorProcess

-----------------------------------------------------------------------------
TypeOK ==
  /\ dir \in -1 .. DOWN /\ rating \in Floor /\ time_left \in Nat
  /\ destination \in Floor \cup {NoFloor}
  /\ landing \subseteq Floor \ Blocked
  /\ at \in [Person -> (Floor \ Blocked) \cup {Car}]

\* The doors of open_elevator_doors and close_elevator_doors: an exit on either
\* side or on none, on the floor where the car stands and only while it stands,
\* and never closed twice.  Nobody walks into a shaft.
DoorsTrue ==
  /\ TypeOK /\ ~fallen
  /\ landing = IF dir \in 0 .. (UP - 1) THEN {rating} ELSE {}
  /\ \A d \in DOMAIN car : car[d] = IF dir \in 0 .. (UP - 1) /\ Doors[rating] = d THEN rating ELSE NoFloor
  /\ dir \in {UP, DOWN} => (IF dir = DOWN THEN rating + time_left ELSE rating - time_left) \in Floor \ Blocked

Open(f) == f \in landing

\* Where the car goes, when it goes.
Target(f) == dir \in {UP, DOWN} /\ f = IF dir = DOWN THEN rating + time_left ELSE rating - time_left

\* Who pushes a button in the car gets there; who calls is served once the car stays
\* empty (each button pushed in the car keeps the call of call_elevator waiting).
Arrives ==
  /\ \A f \in Floor : Target(f) ~> Open(f)
  /\ <>[](\A p \in Person : at[p] # Car) => \A f \in Floor : destination = f ~> Open(f)
=============================================================================
