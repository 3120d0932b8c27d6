------------------------------ MODULE Vehicles ------------------------------
(***************************************************************************)
(* Vehicles: who sits in which, who controls it (the driver at the wheel,  *)
(* the rigger jacked in on board, the rigger far away), which vehicle      *)
(* chases which, what the autonav does, and how all this ends in a wreck.  *)
(*                                                                         *)
(* A command is one step, but move_vehicle is not: it walks the list of    *)
(* the chasers with a cached next pointer and moves each of them, which    *)
(* walks the chasers of the chaser.  The calls in progress are the stack.  *)
(*                                                                         *)
(* g.up is FALSE once the server has followed a null pointer or one to     *)
(* freed memory.  Dice, locks and the three points of a chaser's trail are *)
(* choices; speeds above SPEED_SPEEDING act like it; mounts, loads and     *)
(* mobiles that drive are left out.                                        *)
(***************************************************************************)
EXTENDS Integers, FiniteSets, SequencesExt

CONSTANTS
  Char,        \* players
  Veh, Bikes,  \* vehicles, and those that throw their riders
  Room,
  Owner,       \* veh->owner when it is bought
  Capacity,    \* seats of the prototype
  Decked,      \* players with a datajack, a control rig and a control deck
  Navigated,   \* vehicles with an autonav
  VehList,     \* veh_list
  Scenes,      \* bounds of a behaviour: the players and vehicles there (who,
               \* vehs), the commands given, the rooms purged, and how many
               \* calls of move_vehicle may be within each other (depth)
  Ghost,       \* the body a rigger left when it was extracted
  None

ASSUME VehiclesAssumption ==
  /\ Bikes \cup Navigated \subseteq Veh /\ Decked \subseteq Char
  /\ Owner \in [Veh -> Char] /\ Capacity \in [Veh -> Nat]
  /\ VehList \in Seq(Veh) /\ IsInjective(VehList) /\ ToSet(VehList) = Veh
  /\ Ghost \notin Char /\ None \notin Char \cup Veh \cup Room \cup {Ghost}

ASSUME ScenesAssumption ==
  \A k \in Scenes :
    /\ k.who \subseteq Char /\ IsFiniteSet(k.who) /\ k.vehs \subseteq Veh
    /\ k.start \subseteq k.rooms /\ k.rooms \subseteq Room
    /\ k.purges \in Nat /\ k.depth \in Nat

VARIABLES g, stack
vars == <<g, stack>>

OFF == 0
IDLE == 1
CRUISING == 2
SPEEDING == 3
Speeds == OFF .. SPEEDING

\* dest of a vehicle that gave chase: NOWHERE, which is not zero.
Nowhere == "NOWHERE"

\* The players and vehicles of a scene where they stand when it begins.
Start(k, room, at) ==
  [k |-> k, up |-> TRUE, purges |-> 0,
   list |-> SetToSeq(k.who),
   room |-> [c \in Char |-> IF c \in k.who THEN room[c] ELSE None],
   at |-> [v \in Veh |-> IF v \in k.vehs THEN at[v] ELSE None],
   people |-> [v \in Veh |-> <<>>],
   seating |-> Capacity,
   cspeed |-> [v \in Veh |-> OFF],
   wreck |-> {},
   dest |-> [v \in Veh |-> None],
   pilot |-> {}, rig |-> {}, remote |-> {},
   rigging |-> [c \in Char |-> None],
   rigger |-> [v \in Veh |-> None],
   following |-> [v \in Veh |-> None],
   followers |-> [v \in Veh |-> <<>>],
   owned |-> k.vehs,
   sub |-> {},
   subscribe |-> [c \in Char |-> <<>>]]

Init ==
  /\ stack = <<>>
  /\ \E k \in Scenes : \E room \in [k.who -> k.start] : \E at \in [k.vehs -> k.start] :
       g = Start(k, room, at)

-----------------------------------------------------------------------------
(* What the handlers read. *)

Playing(x, c) == Contains(x.list, c)
Live(x, v) == v # None /\ x.at[v] # None
In(x, v) == ToSet(x.people[v])
InVeh(x, c) ==
  IF \E v \in Veh : c \in In(x, v) THEN CHOOSE v \in Veh : c \in In(x, v) ELSE None
RigVeh(x, c) == IF x.rigging[c] # None THEN x.rigging[c] ELSE InVeh(x, c)
\* The room a player sees: its own or the one its vehicle is in.
RoomOf(x, c) == IF InVeh(x, c) = None THEN x.room[c] ELSE x.at[InVeh(x, c)]
Owns(x, c, v) == v \in x.owned /\ Owner[v] = c
\* Where e stands in a list that holds it.
Place(s, e) == CHOOSE i \in DOMAIN s : s[i] = e
\* What is left of a list without those in D, in the old order.
Without(s, D) ==
  LET kept == {i \in DOMAIN s : s[i] \notin D}
      rank(i) == Cardinality({k \in kept : k <= i})
  IN  [n \in 1 .. Cardinality(kept) |-> s[CHOOSE i \in kept : rank(i) = n]]
Flip(S, c) == IF c \in S THEN S \ {c} ELSE S \cup {c}
Crash(x) == [x EXCEPT !.up = FALSE]

-----------------------------------------------------------------------------
(* What they share.  What dice decide is a set of outcomes. *)

\* Mutant: the chased vehicle keeps the chaser on its list.
Unchased_OneSide(x, v) == [x EXCEPT !.following[v] = None]
Unchased(x, v) == [x EXCEPT !.followers[x.following[v]] = Without(@, {v}),
                            !.following[v] = None]

StopChase(x, v) ==
  IF x.following[v] = None THEN x
  ELSE IF Live(x, x.following[v]) THEN Unchased(x, v) ELSE Crash(x)

CharsToRoom(x, C, r) ==
  [x EXCEPT !.room = [c \in Char |-> IF c \in C THEN r ELSE @[c]],
            !.people = [v \in Veh |-> Without(@[v], C)]]

\* The old bodies go; what they rigged keeps pointing at them.
ExtractChars(x, D) ==
  [CharsToRoom(x, D, None) EXCEPT
     !.list = Without(@, D), !.pilot = @ \ D, !.rig = @ \ D, !.remote = @ \ D,
     !.rigging = [c \in Char |-> IF c \in D THEN None ELSE @[c]],
     !.subscribe = [c \in Char |-> IF c \in D THEN <<>> ELSE @[c]],
     !.rigger = [v \in Veh |-> IF @[v] \in D THEN Ghost ELSE @[v]]]

\* Everybody in C lands in the street at r, some of them dead.
Hurled(x, C, r) == { ExtractChars(CharsToRoom(x, C, r), D) : D \in SUBSET C }

Unflagged(x, C) == [x EXCEPT !.pilot = @ \ C, !.rig = @ \ C]

Careen(x, v) ==
  LET y == StopChase(x, v)
      thrown == In(y, v)
  IN  IF v \in Bikes /\ thrown # {}
      THEN Hurled(Unflagged([y EXCEPT !.cspeed[v] = OFF,
                                      !.seating[v] = @ + Cardinality(thrown)], thrown),
                  thrown, x.at[v])
      ELSE {y}

\* crash_test: the damage that makes a wreck of it has no effect yet.
CrashTest(x, c, v) ==
  IF ~Live(x, v) THEN {Crash(x)}
  ELSE {x} \cup Careen(x, v) \cup Careen([x EXCEPT !.wreck = @ \cup {v}], v)

\* Mutant: the rigger of the wreck stays in remote control.
ReleaseRigger_Remote(x, v) ==
  IF x.rigger[v] \in Char THEN {[x EXCEPT !.rigging[x.rigger[v]] = None, !.rigger[v] = None]}
  ELSE {[x EXCEPT !.rigger[v] = None]}

ReleaseRigger(x, v) ==
  IF x.rigger[v] \in Char
  THEN LET y == [x EXCEPT !.rigging[x.rigger[v]] = None,
                          !.remote = @ \ {x.rigger[v]}, !.rigger[v] = None]
       IN  {y, ExtractChars(y, {x.rigger[v]})}
  ELSE {[x EXCEPT !.rigger[v] = None]}

\* A wreck at speed: everybody is hurled out; the seats are not given back.
FastWreck(x, v) ==
  UNION { Hurled(Unflagged(y, In(y, v)), In(y, v), y.at[v]) :
            y \in ReleaseRigger([StopChase(x, v) EXCEPT !.cspeed[v] = OFF,
                                                        !.dest[v] = None], v) }

\* A wreck that stands: from the first of its people on, the walk follows
\* character_list instead of the list of the vehicle.
Scrambled(x, v) ==
  IF x.people[v] = <<>> THEN {}
  ELSE {x.list[j] : j \in Place(x.list, Head(x.people[v])) .. Len(x.list)}

ChkDmg(x, v) ==
  IF v \notin x.wreck THEN {x}
  ELSE IF x.cspeed[v] >= IDLE THEN FastWreck(x, v)
  ELSE Hurled(x, Scrambled(x, v), x.at[v])

\* vcombat and vram: the vehicle takes some damage, perhaps too much.
Hit(x, v) == {x} \cup ChkDmg([x EXCEPT !.wreck = @ \cup {v}], v)

-----------------------------------------------------------------------------
(* move_vehicle. *)

Frame(v, c, next) ==
  [veh |-> v, ch |-> c, next |-> next, pilot |-> None, chaser |-> None,
   moves |-> 0, test |-> FALSE]

First(x, v) == IF x.followers[v] = <<>> THEN None ELSE Head(x.followers[v])
Next1(x, v, f) ==
  LET i == Place(x.followers[v], f)
  IN  IF i = Len(x.followers[v]) THEN None ELSE x.followers[v][i + 1]

Drives(x, c, v) == c \in x.pilot \cup x.remote \/ x.dest[v] # None
CanMove(x, c, v) == Live(x, v) /\ v \notin x.wreck /\ Drives(x, c, v) /\ x.cspeed[v] > IDLE

\* move_vehicle up to the walk over the chasers.
BeginMove(x, c, v, r) ==
  /\ CanMove(x, c, v) /\ r # x.at[v] /\ Len(stack) < g.k.depth
  /\ g' = [x EXCEPT !.at[v] = r]
  /\ stack' = <<Frame(v, c, First(x, v))>> \o stack

Top == Head(stack)
Walking == g.up /\ stack # <<>>
Settled == Walking /\ Top.moves = 0 /\ ~Top.test
Outcome(S) == g' \in S /\ UNCHANGED stack
Crashes == g' = Crash(g) /\ UNCHANGED stack

\* The pilot of a chaser: the loop asks whether the leader drives.
PilotOf(f) ==
  IF g.rigger[f] # None THEN g.rigger[f]
  ELSE IF Top.ch \in g.pilot /\ g.people[f] # <<>> THEN Head(g.people[f])
  ELSE None

LosesTrail(f) ==
  /\ g' = StopChase(g, f)
  /\ stack' = [stack EXCEPT ![1].next = Next1(g, Top.veh, f)]

KeepsTrail(f, n, t) ==
  /\ g.cspeed[f] > IDLE /\ (t => g.cspeed[f] = SPEEDING)
  /\ stack' = [stack EXCEPT ![1].next = Next1(g, Top.veh, f), ![1].pilot = PilotOf(f),
                            ![1].chaser = f, ![1].moves = n, ![1].test = t]
  /\ UNCHANGED g

NextChaser ==
  LET f == Top.next
  IN  /\ Settled /\ f # None
      /\ IF Contains(g.followers[Top.veh], f) /\ Live(g, f) /\ PilotOf(f) # None
         THEN LosesTrail(f) \/ \E n \in 0 .. 2 : \E t \in BOOLEAN : KeepsTrail(f, n, t)
         ELSE Crashes

OneLess == [stack EXCEPT ![1].moves = @ - 1]

\* The vehicle the pilot of the chaser controls by now.
PilotsVeh == IF Top.pilot = Ghost THEN Top.chaser ELSE RigVeh(g, Top.pilot)

\* perform_move by the pilot, or by somebody who is one no longer.
ChaserMoves ==
  /\ Walking /\ Top.moves > 0
  /\ \/ /\ g' = g /\ stack' = OneLess
     \/ \E r \in g.k.rooms :
          /\ CanMove(g, Top.pilot, PilotsVeh)
          /\ r # g.at[PilotsVeh] /\ Len(stack) < g.k.depth
          /\ g' = [g EXCEPT !.at[PilotsVeh] = r]
          /\ stack' = <<Frame(PilotsVeh, Top.pilot, First(g, PilotsVeh))>> \o OneLess
     \/ /\ Top.pilot \in Char /\ Playing(g, Top.pilot) /\ PilotsVeh = None
        /\ \E r \in g.k.rooms : g' = CharsToRoom(g, {Top.pilot}, r)
        /\ stack' = OneLess

\* Only above eighty, which the first of the moves may have ended.
ChaserTested ==
  /\ Walking /\ Top.moves = 0 /\ Top.test
  /\ g' \in IF g.cspeed[Top.chaser] = SPEEDING
            THEN CrashTest(g, Top.pilot, PilotsVeh) ELSE {g}
  /\ stack' = [stack EXCEPT ![1].test = FALSE]

\* The leader stands nowhere again; one thrown into the street meanwhile
\* stands in a room's list with no room.
EndMove ==
  /\ Settled /\ Top.next = None
  /\ stack' = Tail(stack)
  /\ g' \in IF Top.ch \in Char \ g.remote /\ g.room[Top.ch] # None THEN {Crash(g)}
            ELSE IF Live(g, Top.veh) /\ g.cspeed[Top.veh] = SPEEDING
                 THEN CrashTest(g, Top.ch, Top.veh) \cup {g}
            ELSE {g}

-----------------------------------------------------------------------------
(* Commands. *)

Given(cmd, c) == g.up /\ stack = <<>> /\ cmd \in g.k.cmds /\ Playing(g, c)
\* Who is jacked in has rig_info for a table of commands.
Jacked(c) == c \in g.remote \cup g.rig
Free(cmd, c) == Given(cmd, c) /\ ~Jacked(c)
Aboard(c, v) == v = InVeh(g, c) /\ Live(g, v)
Controls(c, v) == v = RigVeh(g, c) /\ Live(g, v)

\* Mutant: the seat is not taken.
Enter_Seatless(c, v) ==
  /\ Free("enter", c) /\ InVeh(g, c) = None
  /\ Live(g, v) /\ g.at[v] = g.room[c]
  /\ v \notin g.wreck /\ g.seating[v] # 0 /\ g.cspeed[v] <= IDLE
  /\ Outcome({[g EXCEPT !.room[c] = None, !.people[v] = <<c>> \o @]})

\* enter_veh; who follows the character enters after it in the same way.
Enter(c, v) ==
  /\ Free("enter", c) /\ InVeh(g, c) = None
  /\ Live(g, v) /\ g.at[v] = g.room[c]
  /\ v \notin g.wreck /\ g.seating[v] # 0 /\ g.cspeed[v] <= IDLE
  /\ Outcome({[g EXCEPT !.room[c] = None, !.people[v] = <<c>> \o @, !.seating[v] = @ - 1]})

Leave(c, v) ==
  LET x == IF c \in g.pilot
           THEN StopChase([g EXCEPT !.pilot = @ \ {c}, !.cspeed[v] = OFF], v) ELSE g
  IN  /\ Free("enter", c) /\ Aboard(c, v) /\ g.cspeed[v] <= IDLE
      /\ Outcome({CharsToRoom([x EXCEPT !.seating[v] = @ + 1], {c}, g.at[v])})

\* The guards do_drive and do_rig share.
Unclaimed(c, v) ==
  /\ v \notin g.wreck /\ g.rigger[v] = None /\ g.dest[v] = None
  /\ In(g, v) \cap g.pilot \subseteq {c}

\* The wheel is taken or given back according to the engine, not the flag.
Drive(c, v) ==
  /\ Free("drive", c) /\ Aboard(c, v) /\ Unclaimed(c, v)
  /\ LET x == [g EXCEPT !.pilot = Flip(@, c)]
     IN  Outcome({IF g.cspeed[v] = OFF THEN [x EXCEPT !.cspeed[v] = IDLE]
                  ELSE [StopChase(x, v) EXCEPT !.cspeed[v] = OFF]})

Rig(c, v) ==
  /\ Given("rig", c) /\ c \in Decked /\ Aboard(c, v) /\ Unclaimed(c, v)
  /\ LET x == [g EXCEPT !.pilot = Flip(@, c), !.rig = Flip(@, c)]
     IN  IF g.cspeed[v] = OFF THEN Outcome({[x EXCEPT !.cspeed[v] = IDLE]})
         ELSE c \in g.rig /\ Outcome({StopChase([x EXCEPT !.cspeed[v] = OFF], v)})

\* do_control; the return from a vehicle rigged before cannot come up, since
\* rig_info does not list the command.
Control(c, v) ==
  LET jacked == In(g, v) \cap g.rig
  IN  /\ Free("control", c) /\ c \in Decked \ g.pilot /\ InVeh(g, c) = None
      /\ Contains(g.subscribe[c], v)
      /\ Outcome({IF \E w \in ToSet(g.subscribe[c]) : ~Live(g, w) THEN Crash(g)
                  ELSE [g EXCEPT !.rigging[c] = v, !.rigger[v] = c, !.remote = @ \cup {c},
                          !.rig = @ \ jacked,
                          !.pilot = (@ \ In(g, v)) \cup (jacked \ @)]})

Return(c) ==
  LET v == g.rigging[c]
      x == StopChase([g EXCEPT !.rigger[v] = None, !.cspeed[v] = OFF], v)
  IN  /\ Given("control", c) /\ c \in g.remote /\ Live(g, v)
      /\ Outcome({[x EXCEPT !.rigging[c] = None, !.remote = @ \ {c}]})

Subscribe(c, v) ==
  /\ Given("control", c) /\ c \in Decked /\ (InVeh(g, c) # None => Live(g, InVeh(g, c)))
  /\ Live(g, v) /\ g.at[v] = RoomOf(g, c) /\ Owns(g, c, v) /\ v \notin g.sub
  /\ Outcome({[g EXCEPT !.sub = @ \cup {v}, !.subscribe[c] = <<v>> \o @]})

Unsubscribe(c, v) ==
  /\ Free("control", c) /\ Contains(g.subscribe[c], v)
  /\ Outcome({IF \E w \in ToSet(g.subscribe[c]) : ~Live(g, w) THEN Crash(g)
              ELSE [g EXCEPT !.sub = @ \ {v}, !.subscribe[c] = Without(@, {v})]})

SetSpeed(c, v, n) ==
  /\ Given("speed", c) /\ c \in g.pilot \cup g.remote /\ Controls(c, v)
  /\ n # OFF /\ n # g.cspeed[v]
  /\ Outcome({[g EXCEPT !.cspeed[v] = n]})

Chase(c, v) ==
  /\ Free("chase", c) /\ c \in g.pilot /\ Controls(c, v)
  /\ IF g.following[v] # None THEN Outcome({StopChase(g, v)})
     ELSE \E w \in Veh \ {v} :
            /\ Live(g, w) /\ g.at[w] = g.at[v]
            /\ Outcome({[g EXCEPT !.following[v] = w, !.followers[w] = <<v>> \o @,
                           !.dest[v] = Nowhere,
                           !.cspeed[v] = IF @ = IDLE THEN CRUISING ELSE @]})

\* A driver on the street reads the vehicle it has not.
ControlsNothing(c) ==
  /\ \/ Given("speed", c) /\ c \in g.pilot \cup g.remote
     \/ Free("chase", c) /\ c \in g.pilot
  /\ RigVeh(g, c) = None
  /\ Crashes

\* Any command of somebody whose vehicle was purged.
UsesFreedVehicle(c) ==
  /\ \E cmd \in g.k.cmds : Given(cmd, c)
  /\ RigVeh(g, c) # None /\ ~Live(g, RigVeh(g, c))
  /\ Crashes

Move(c, v) ==
  /\ Given("move", c) /\ Controls(c, v)
  /\ \E r \in g.k.rooms : BeginMove(g, c, v, r)

\* On foot.
Walk(c) ==
  /\ Given("walk", c) /\ RigVeh(g, c) = None
  /\ \E r \in g.k.rooms \ {g.room[c]} : Outcome({CharsToRoom(g, {c}, r)})

\* Shots at a passer-by, who may shoot back, and away.
Driveby(c, v) ==
  /\ Given("driveby", c) /\ Aboard(c, v) /\ c \in g.pilot /\ g.cspeed[v] > IDLE
  /\ \E x \in IF v \in g.wreck THEN {g} ELSE Hit(g, v) :
       IF InVeh(x, c) = v /\ x.up /\ CanMove(x, c, v)
       THEN \E r \in g.k.rooms : BeginMove(x, c, v, r)
       ELSE Outcome({x})

GridGuide(c, v, r) ==
  /\ Given("grid", c) /\ Controls(c, v) /\ v \in Navigated
  /\ g.cspeed[v] <= IDLE \/ c \in g.pilot
  /\ r # g.at[v]
  /\ Outcome({[g EXCEPT !.dest[v] = r, !.cspeed[v] = CRUISING, !.pilot = @ \ {c},
                        !.rig = IF c \in g.pilot THEN @ \ {c} ELSE @]})

GridStop(c, v) ==
  /\ Given("grid", c) /\ Controls(c, v) /\ v \in Navigated
  /\ Outcome({[g EXCEPT !.dest[v] = None,
                        !.cspeed[v] = IF c \in g.pilot THEN @ ELSE OFF]})

Repair(c, v) ==
  /\ Free("repair", c) /\ InVeh(g, c) = None /\ Live(g, v) /\ g.at[v] = g.room[c]
  /\ v \in g.wreck /\ Outcome({[g EXCEPT !.wreck = @ \ {v}]})

\* Both take damage; who drives the rammed one, and then the other, may lose
\* control of it.
Shaken(x, v) ==
  LET who == IF x.rigger[v] # None THEN {x.rigger[v]} ELSE In(x, v) \cap x.pilot
      slow == IF x.cspeed[v] > IDLE THEN [x EXCEPT !.cspeed[v] = CRUISING] ELSE x
  IN  {x, slow} \cup (IF x.cspeed[v] > IDLE /\ who # {} THEN CrashTest(slow, None, v) ELSE {})

RamDamage(x, v) ==
  UNION { UNION { ChkDmg(z, v) : z \in {y, [y EXCEPT !.wreck = @ \cup {v}]} } : y \in Shaken(x, v) }

Ram(c, v, w) ==
  /\ Given("ram", c) /\ c \in g.pilot \cup g.remote /\ Controls(c, v) /\ g.cspeed[v] > IDLE
  /\ w # v /\ Live(g, w) /\ g.at[w] = g.at[v]
  /\ \/ \E x \in RamDamage(g, w) : Outcome(RamDamage(x, v))
     \/ \E x \in CrashTest(g, c, v) : Outcome(ChkDmg(x, v))

RamSomebody(c, v) ==
  /\ Given("ram", c) /\ c \in g.pilot \cup g.remote /\ Controls(c, v) /\ g.cspeed[v] > IDLE
  /\ \/ Outcome(Hit(g, v))
     \/ \E x \in CrashTest(g, c, v) : Outcome(ChkDmg(x, v))

-----------------------------------------------------------------------------
(* What happens to vehicles and players from outside. *)

Idle(cmd) == g.up /\ stack = <<>> /\ cmd \in g.k.cmds

ShotAt(v) == Idle("shoot") /\ Live(g, v) /\ v \notin g.wreck /\ Outcome(Hit(g, v))

\* do_trans and do_teleport: the driver's flag goes, the rigger's stays, and
\* the seat is not given back.
Transfer(c, r) ==
  /\ Idle("transfer") /\ Playing(g, c)
  /\ Outcome({CharsToRoom([g EXCEPT !.pilot = @ \ {c}], {c}, r)})

VTeleport(v, r) ==
  /\ Idle("transfer") /\ Live(g, v) /\ r # g.at[v]
  /\ Outcome({[g EXCEPT !.at[v] = r]})

Purge(r) ==
  /\ Idle("purge") /\ g.purges < g.k.purges
  /\ \E v \in Veh : g.at[v] = r
  /\ Outcome({[g EXCEPT !.purges = @ + 1,
                        !.at = [v \in Veh |-> IF @[v] = r THEN None ELSE @[v]]]})

Quit(c) ==
  LET v == InVeh(g, c)
      x == [g EXCEPT !.seating[v] = @ + 1]
  IN  /\ Free("quit", c) /\ (v # None => Live(g, v))
      /\ Outcome({ExtractChars(
                    IF v = None THEN g
                    ELSE IF c \in g.pilot THEN StopChase([x EXCEPT !.cspeed[v] = OFF], v)
                    ELSE x, {c})})

\* Death, or a lost link and the idle limit.
Die(c) == Idle("quit") /\ Playing(g, c) /\ Outcome({ExtractChars(g, {c})})

\* The body read from the file has none of the flags.
Login(c) ==
  /\ Idle("quit") /\ c \in g.k.who /\ ~Playing(g, c)
  /\ \E r \in g.k.rooms : Outcome({[g EXCEPT !.list = <<c>> \o @, !.room[c] = r]})

\* One vehicle's turn in process_autonav, one room at a time.
Navigator(v) ==
  IF g.rigger[v] # None THEN g.rigger[v]
  ELSE IF g.people[v] = <<>> THEN None ELSE Head(g.people[v])

\* Mutant: nobody asks whether somebody is at the controls.
Autonav_Unasked(v) ==
  /\ g.up /\ stack = <<>> /\ Live(g, v) /\ Navigator(v) # None
  /\ g.dest[v] # None /\ g.cspeed[v] > IDLE /\ v \notin g.wreck
  /\ \/ /\ g.dest[v] \in Room \ {g.at[v]}
        /\ BeginMove(g, Navigator(v), v, g.dest[v])
     \/ /\ g.dest[v] = g.at[v]
        /\ Outcome({[g EXCEPT !.dest[v] = None,
                       !.cspeed[v] = IF g.rigger[v] # None \/ In(g, v) \cap g.pilot # {}
                                     THEN @ ELSE OFF]})

Autonav(v) ==
  /\ g.up /\ stack = <<>> /\ Live(g, v)
  /\ g.dest[v] # None /\ g.cspeed[v] > IDLE /\ v \notin g.wreck
  /\ \/ /\ Navigator(v) = None
        /\ Outcome({[g EXCEPT !.dest[v] = None, !.cspeed[v] = OFF]})
     \/ /\ Navigator(v) # None /\ g.dest[v] \in Room \ {g.at[v]}
        /\ BeginMove(g, Navigator(v), v, g.dest[v])
     \/ /\ Navigator(v) # None /\ g.dest[v] = g.at[v]
        /\ Outcome({[g EXCEPT !.dest[v] = None,
                       !.cspeed[v] = IF g.rigger[v] # None \/ In(g, v) \cap g.pilot # {}
                                     THEN @ ELSE OFF]})

\* point_update rebuilds the lists of those who play from the flags of the
\* vehicles; one damaged too much loses its owner, unless it is after the
\* last that is saved.
Kept(v) == Live(g, v) /\ v \in g.owned \ g.wreck
\* A vehicle that is saved comes after v in veh_list.
Passed(v) == \E i, j \in DOMAIN VehList : i < j /\ VehList[i] = v /\ Kept(VehList[j])
PointUpdate ==
  LET mine(c) == Without(VehList, {v \in Veh : ~(Kept(v) /\ v \in g.sub /\ Owner[v] = c)})
  IN  /\ Idle("save")
      /\ Outcome({[g EXCEPT
           !.owned = @ \ {v \in Veh : Passed(v) /\ ~Kept(v)},
           !.subscribe = [c \in Char |-> IF Playing(g, c) THEN Reverse(mine(c)) ELSE @[c]]]})

Ended == (~g.up \/ stack = <<>>) /\ UNCHANGED vars

Walks == NextChaser \/ ChaserMoves \/ ChaserTested \/ EndMove

Next ==
  \/ Walks \/ PointUpdate \/ Ended
  \/ \E r \in Room : Purge(r)
  \/ \E c \in Char :
       \/ Return(c) \/ ControlsNothing(c) \/ UsesFreedVehicle(c) \/ Walk(c)
       \/ Quit(c) \/ Die(c) \/ Login(c)
       \/ \E r \in g.k.rooms : Transfer(c, r)
       \/ \E v \in Veh :
            \/ Enter(c, v) \/ Leave(c, v) \/ Drive(c, v) \/ Rig(c, v) \/ Control(c, v)
            \/ Subscribe(c, v) \/ Unsubscribe(c, v) \/ Chase(c, v) \/ Move(c, v)
            \/ Driveby(c, v) \/ GridStop(c, v) \/ Repair(c, v) \/ RamSomebody(c, v)
            \/ \E n \in Speeds : SetSpeed(c, v, n)
            \/ \E r \in g.k.rooms : GridGuide(c, v, r)
            \/ \E w \in Veh : Ram(c, v, w)
  \/ \E v \in Veh :
       \/ ShotAt(v) \/ Autonav(v)
       \/ \E r \in g.k.rooms : VTeleport(v, r)

Spec == Init /\ [][Next]_vars /\ WF_vars(Walks) /\ \A v \in Veh : SF_vars(Autonav(v))

-----------------------------------------------------------------------------
(* Properties. *)

VehiclesType ==
  [k : Scenes, up : BOOLEAN, purges : Nat,
   list : Seq(Char), room : [Char -> Room \cup {None}],
   at : [Veh -> Room \cup {None}], people : [Veh -> Seq(Char)],
   seating : [Veh -> Int], cspeed : [Veh -> Speeds], wreck : SUBSET Veh,
   dest : [Veh -> Room \cup {None, Nowhere}],
   pilot : SUBSET Char, rig : SUBSET Char, remote : SUBSET Char,
   rigging : [Char -> Veh \cup {None}], rigger : [Veh -> Char \cup {None, Ghost}],
   following : [Veh -> Veh \cup {None}], followers : [Veh -> Seq(Veh)],
   owned : SUBSET Veh, sub : SUBSET Veh, subscribe : [Char -> Seq(Veh)]]

FrameType ==
  [veh : Veh, ch : Char \cup {Ghost}, next : Veh \cup {None},
   pilot : Char \cup {Ghost, None}, chaser : Veh \cup {None},
   moves : 0 .. 2, test : BOOLEAN]

TypeOK == g \in VehiclesType /\ stack \in Seq(FrameType)

\* A player is in one place, and a vehicle never holds more than its seats
\* (enter_veh, leave_veh and everything that throws people out of one).
SeatsCounted ==
  /\ \A v \in Veh : IsInjective(g.people[v])
                    /\ g.seating[v] >= 0 /\ Len(g.people[v]) + g.seating[v] <= Capacity[v]
  /\ \A c \in Char :
       Cardinality({v \in Veh : c \in In(g, v)} \cup ({g.room[c]} \ {None}))
         = IF Playing(g, c) THEN 1 ELSE 0

\* Whom a vehicle chases lists it, once, and lists nobody else: stop_chase
\* walks the list until it finds the vehicle (do_chase and whatever ends one).
ChasersListed ==
  \A v, w \in Veh : Live(g, v) /\ Live(g, w) =>
    Cardinality({i \in DOMAIN g.followers[w] : g.followers[w][i] = v})
      = IF g.following[v] = w THEN 1 ELSE 0

\* PLR_REMOTE, the vehicle a player rigs and the rigger of that vehicle agree:
\* do_return follows both pointers without a look (do_control, the wreck).
RemoteLinked ==
  \A c \in Char :
    /\ c \in g.remote <=> g.rigging[c] # None
    /\ \A v \in Veh : g.rigger[v] = c <=> g.rigging[c] = v

\* A subscriber list holds vehicles of that owner, each flagged and in one
\* place of the list (do_subscribe against the hourly rebuilding).
ListsOwned ==
  \A c \in Char :
    /\ IsInjective(g.subscribe[c])
    /\ \A v \in ToSet(g.subscribe[c]) : v \in g.sub /\ Owner[v] = c

\* Whoever controls a vehicle from afar is its rigger, and what he may control is his own.
ControlTrue == RemoteLinked /\ ListsOwned

\* A vehicle under way to a destination of its autonav, with nobody on board and
\* nobody rigging it, is stopped.  process_autonav looks at no other (act.drive.cpp:1520):
\* a vehicle without a destination whose driver is taken away keeps its speed, and at that
\* speed nobody can climb in (act.movement.cpp:977); nothing is claimed of it.
Unmanned(v) ==
  /\ Live(g, v) /\ g.dest[v] # None /\ g.cspeed[v] > IDLE /\ v \notin g.wreck
  /\ g.people[v] = <<>> /\ g.rigger[v] = None
UnmannedStops == \A v \in Veh : Unmanned(v) ~> (~Unmanned(v) \/ ~g.up)

=============================================================================
