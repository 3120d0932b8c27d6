----------------------------- MODULE MCVehicles -----------------------------
(***************************************************************************)
(* Three players, two cars and a bike, two rooms.  Each behaviour has some *)
(* of them and some of the commands.                                       *)
(***************************************************************************)
EXTENDS Vehicles

CONSTANTS p1, p2, p3, car, van, bike, r1, r2

Players == {p1, p2, p3}
Vehicles3 == {car, van, bike}
Rooms == {r1, r2}
Owners == [v \in Vehicles3 |-> p1]
Seats == [v \in Vehicles3 |-> IF v = car THEN 2 ELSE 1]
Row == <<car, bike, van>>

Scene(who, vehs, start, rooms, cmds, purges, depth) ==
  [who |-> who, vehs |-> vehs, start |-> start, rooms |-> rooms, cmds |-> cmds,
   purges |-> purges, depth |-> depth]

Plays ==
  { \* Cyberdecks: remote control, subscriber lists, a purge.
    Scene({p1, p2}, {car, van}, {r1}, {r1},
          {"enter", "rig", "control", "save", "quit", "purge"}, 1, 3),
    \* Chases of three.
    Scene({p1, p2, p3}, {car, van, bike}, {r1}, {r1, r2}, {"enter", "drive", "chase", "move"}, 0, 2),
    \* Chases, and trails that are tested at high speed.
    Scene({p1, p2}, {car, bike}, {r1}, {r1, r2}, {"enter", "drive", "speed", "chase", "move"}, 0, 3),
    \* The autonav.
    Scene({p1, p2}, {car, bike}, {r1}, {r1, r2},
          {"enter", "drive", "rig", "grid", "transfer", "quit"}, 0, 3),
    \* Wrecks.
    Scene({p1, p2}, {car, bike}, {r1}, {r1},
          {"enter", "drive", "control", "speed", "ram", "repair"}, 0, 3),
    Scene({p1, p2}, {car}, {r1}, {r1, r2},
          {"enter", "drive", "speed", "driveby", "shoot", "walk", "grid"}, 0, 3) }

=============================================================================
