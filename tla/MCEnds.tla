------------------------------- MODULE MCEnds -------------------------------
(***************************************************************************)
(* What must come to an end.  The game is one thread, so its small         *)
(* machines are asked side by side, each in a scene of its own: a lookup,  *)
(* in every sorted table of up to MaxLen numbers and for every number      *)
(* sought (one below and one above everything a table holds); the main     *)
(* loop with two connections of one player, who quits, dies and changes    *)
(* the password; an elevator of four floors, one of them blocked, and two  *)
(* persons; a cab and two riders in two streets that have room for two     *)
(* doors each.                                                             *)
(***************************************************************************)
EXTENDS TableSearch

CONSTANTS d1, d2, c1, c2, c3, c4, c5, NULL

CONSTANTS num_floors, Blocked, Doors, Person, Car, Nowhere   \* Elevators

CONSTANTS Cab, Street, Way, Rev, Taken, Rider, Most          \* Taxis

CONSTANTS ann, bob, street, avenue, west, east

VARIABLES
  scene,
  game, before, phase, cursor, login, scenario,                          \* Sessions
  dir, time_left, rating, destination, car, landing, at, fallen,         \* Elevators
  exit, door, active, spare1, spare2, memory, in, paid, hailed, broken   \* Taxis

LoopDesc == {d1, d2}
LoopCell == {c1, c2, c3, c4, c5}
LoopName == {"player"}

S == INSTANCE Sessions WITH
       Desc <- LoopDesc, Cell <- LoopCell, Mob <- {c1}, Name <- LoopName,
       Level <- [m \in LoopName |-> 1], MobLevel <- 0, InitId <- [m \in LoopName |-> 3], MaxId <- 4,
       Scenarios <- {[commands |-> {"quit", "kill", "chpwd"},
                      gives |-> [d \in LoopDesc |-> LoopName], cells |-> LoopCell]}

Lift == INSTANCE Elevators WITH NoFloor <- Nowhere
Cabs == INSTANCE Taxis WITH None <- Nowhere

ASSUME LiftAssumption == Lift!FloorAssumption
ASSUME CabsAssumption == Cabs!CabsAssumption

loopVars == <<game, before, phase, cursor, login, scenario>>
liftVars == <<dir, time_left, rating, destination, car, landing, at, fallen>>
cabVars  == <<exit, door, active, spare1, spare2, memory, in, paid, hailed, broken>>
allVars  == <<vars, loopVars, liftVars, cabVars, scene>>

MCInit ==
  /\ scene \in {"lookup", "closing", "lift", "cabs"}
  /\ Init /\ S!Init /\ Lift!Init /\ Cabs!Init
  /\ scene # "lookup" => kind = "player" /\ n = 0 /\ virt = 0
  /\ scene # "lift" => \A p \in Person : at[p] = 0

LookupStep == scene = "lookup" /\ Next /\ UNCHANGED <<loopVars, liftVars, cabVars, scene>>
LoopStep   == scene = "closing" /\ S!Next /\ UNCHANGED <<vars, liftVars, cabVars, scene>>
PulseStep  == scene = "closing" /\ S!Loop /\ UNCHANGED <<scenario, vars, liftVars, cabVars, scene>>
LiftStep   == scene = "lift" /\ Lift!Next /\ UNCHANGED <<vars, loopVars, cabVars, scene>>
LiftServes == scene = "lift" /\ Lift!Serves /\ UNCHANGED <<vars, loopVars, cabVars, scene>>
CabStep    == scene = "cabs" /\ Cabs!Next /\ UNCHANGED <<vars, loopVars, liftVars, scene>>
Turns(c)   == scene = "cabs" /\ Cabs!Turn(c) /\ UNCHANGED <<vars, loopVars, liftVars, scene>>

MCSpec ==
  /\ MCInit
  /\ [][LookupStep \/ LoopStep \/ LiftStep \/ CabStep]_allVars
  /\ WF_allVars(LookupStep)
  /\ WF_allVars(PulseStep)
  /\ WF_allVars(LiftServes)
  /\ \A c \in Cab : WF_allVars(Turns(c))

\* Doors of elevators and cabs are pairs of exits. An elevator has them where the car stands
\* and nowhere else; a cab has one at most and none on the way, unless it was hailed empty
\* while its driver drove: only then is a door ever made over another one
\* (open_elevator_doors, close_elevator_doors, open_taxi_door, close_taxi_door).
DoorsSound == Lift!DoorsTrue /\ Cabs!CabsSound

\* What has begun comes to its end: a lookup by number (one that did not would stop the
\* game: real_room, real_object and the others), a descriptor told to close, which until
\* then never comes back (game_loop), and the way of whoever rides in an elevator, has
\* called it, or has paid a cab (process_elevator, taxi).
EverythingEnds ==
  /\ scene = "lookup" => Terminates
  /\ S!ClosingEnds
  /\ scene \in {"lift", "cabs"} => Lift!Arrives /\ Cabs!PaidArrives

-----------------------------------------------------------------------------
MCNumber == 1 .. 6
MCSought == 0 .. 7

MCDoors == [f \in 0 .. 3 |-> IF f = 3 THEN west ELSE east]

MCRev   == [w \in {west, east} |-> IF w = west THEN east ELSE west]
MCTaken == [r \in {street, avenue} |-> {}]
=============================================================================
