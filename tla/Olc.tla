-------------------------------- MODULE Olc --------------------------------
(***************************************************************************)
(* Online creation.  Rooms and the prototypes of mobiles, objects and      *)
(* vehicles live in tables sorted by vnum; everything at run time names    *)
(* them by their place in the table (the rnum), and every table moves its  *)
(* entries while the game runs: a builder who saves a new number inserts   *)
(* it, rdelete takes one out.  Whatever stores an rnum must then be        *)
(* renumbered: who stands in a room, the instances of a prototype, exits,  *)
(* the commands that reset a zone, the start room, and the room to which a *)
(* builder returns from his editor.                                        *)
(*                                                                         *)
(* A table is a function on 0..top.  Fields that no program state has, and *)
(* that only say what a number stood for when it was stored, are named     *)
(* means, isa and home.  Descriptions, levels and zone permissions are     *)
(* left out; a scene says who may edit what.                               *)
(***************************************************************************)
EXTENDS Integers, FiniteSets, Sequences

CONSTANTS
  Builder,    \* characters with OLC
  Thing,      \* cells for mobiles, objects and vehicles
  Scenes,     \* bounds: what is in the tables at boot, who may edit what,
              \* which things may come to be, the rooms bodies may move to,
              \* and how many commands the zone may have (max)
  None

VARIABLES
  scene,
  world,      \* rnum -> the room
  index,      \* table -> rnum -> vnum
  at,         \* in_room of builders and things
  was,        \* GET_WAS_IN of a builder
  inst,       \* a thing's prototype: table and rnum
  vlist,      \* veh_list, newest first
  zone,       \* the zone's commands, from 0
  start,      \* r_mortal_start_room
  desk,       \* what a descriptor edits
  home        \* history: the room a builder left for his editor

vars == <<scene, world, index, at, was, inst, vlist, zone, start, desk, home>>

Body    == Builder \cup Thing
Proto   == {"mob", "obj", "veh"}
Nowhere == -1
Dir     == {"north", "south"}
Rev(k)  == IF k = "north" THEN "south" ELSE "north"

Top(f) == Cardinality(DOMAIN f) - 1

Sorted(S) == [i \in 0 .. Cardinality(S) - 1 |->
                CHOOSE v \in S : Cardinality({u \in S : u < v}) = i]

NoDoors  == [k \in Dir |-> None]
NewRoom  == [number |-> 0, here |-> {}, vehs |-> {}, door |-> NoDoors]
Blank    == [letter |-> "*", arg |-> [i \in 1..3 |-> 0], means |-> [i \in 1..3 |-> 0]]
Playing  == [mode |-> "play"]

-----------------------------------------------------------------------------
(* The tables.                                                             *)

Numbers(w) == [r \in DOMAIN w |-> w[r].number]

\* real_room and its likes over a sorted table.
RealIn(f, v) == IF \E r \in DOMAIN f : f[r] = v
                THEN CHOOSE r \in DOMAIN f : f[r] = v
                ELSE Nowhere

TableOf(k) == IF k = "room" THEN Numbers(world) ELSE index[k]
Real(k, v) == RealIn(TableOf(k), v)

\* Where a new number goes: before the first that is greater, or at the end.
Place(f, v) == CHOOSE p \in 0 .. Top(f) + 1 :
                 /\ p <= Top(f) => f[p] > v
                 /\ \A q \in 0 .. p - 1 : f[q] <= v

InsertAt(f, p, e) ==
  [r \in 0 .. Top(f) + 1 |-> IF r < p THEN f[r] ELSE IF r = p THEN e ELSE f[r - 1]]

RemoveAt(f, p) == [r \in 0 .. Top(f) - 1 |-> IF r < p THEN f[r] ELSE f[r + 1]]

Bump(n, p) == IF n >= p THEN n + 1 ELSE n

-----------------------------------------------------------------------------
(* Commands of a zone.  "G" stands for the letters that give an object to  *)
(* a mobile (G, E); "U" for those whose object the editors forget (U, I,   *)
(* C, N and H); "*" is no command.                                         *)

Letter == {"M", "O", "P", "G", "R", "D", "V", "S", "U", "*"}

\* What an argument of a command is a number of.
RefTable(l, i) ==
  CASE i = 1 /\ l \in {"M", "S"}           -> "mob"
    [] i = 1 /\ l \in {"O", "P", "G", "U"} -> "obj"
    [] i = 1 /\ l = "V"                    -> "veh"
    [] i = 1 /\ l \in {"R", "D"}           -> "room"
    [] i = 2 /\ l = "R"                    -> "obj"
    [] i = 3 /\ l \in {"M", "O", "V"}      -> "room"
    [] i = 3 /\ l = "P"                    -> "obj"
    [] OTHER                               -> "none"

\* What the editor of a table renumbers.
Renumbered(k) ==
  CASE k = "room" -> {<<"M", 3>>, <<"O", 3>>, <<"D", 1>>, <<"R", 1>>}
    [] k = "mob"  -> {<<"M", 1>>}
    [] k = "obj"  -> {<<"O", 1>>, <<"G", 1>>, <<"P", 1>>, <<"P", 3>>, <<"R", 2>>}
    [] OTHER      -> {}

RenumberZone(k, p) ==
  [i \in DOMAIN zone |->
     [zone[i] EXCEPT !.arg = [j \in 1..3 |->
        IF <<zone[i].letter, j>> \in Renumbered(k) THEN Bump(@[j], p) ELSE @[j]]]]

\* renum_zone_table, at boot: a command with a number that is not there is
\* none.
Booted(c) ==
  LET arg == [j \in 1..3 |-> CASE RefTable(c.letter, j) = "none" -> 0
                              [] RefTable(c.letter, j) = "room" -> RealIn(Numbers(world), c.means[j])
                              [] OTHER -> RealIn(index[RefTable(c.letter, j)], c.means[j])]
  IN  [letter |-> IF \E j \in 1..3 : arg[j] = Nowhere THEN "*" ELSE c.letter,
       means |-> c.means, arg |-> arg]

\* The files of a zone hold no more commands than max, and zedit, which
\* gives an argument the table's entry 0, finds one.
ASSUME OlcAssumption ==
  /\ Builder \cap Thing = {}
  /\ None \notin Builder \cup Thing
  /\ None \notin [kind : Proto, nr : Int, isa : Nat]
  /\ \A s \in Scenes :
       /\ s.rooms \in SUBSET Nat /\ IsFiniteSet(s.rooms) /\ s.start \in s.rooms
       /\ \A k \in Proto : s.protos[k] \in SUBSET Nat /\ IsFiniteSet(s.protos[k])
       /\ \A b \in Builder : s.edit[b] \subseteq (Proto \cup {"room"}) \X Nat
       /\ s.exits \in SUBSET Nat /\ s.things \subseteq Thing
       /\ s.max \in Nat /\ s.letters \subseteq Letter
       /\ \A l \in s.letters, j \in 1..3 :
            RefTable(l, j) \in Proto => s.protos[RefTable(l, j)] # {}
       /\ \E n \in 0 .. s.max : DOMAIN s.zone = 0 .. n - 1
       /\ \A i \in DOMAIN s.zone :
            s.zone[i].letter \in Letter /\ s.zone[i].means \in [1..3 -> Nat]

Init ==
  /\ scene \in Scenes
  /\ LET numbers == Sorted(scene.rooms) IN
       /\ start = CHOOSE r \in DOMAIN numbers : numbers[r] = scene.start
       /\ world = [r \in DOMAIN numbers |->
                     [NewRoom EXCEPT !.number = numbers[r],
                                     !.here = IF r = start THEN Builder ELSE {}]]
  /\ index = [k \in Proto |-> Sorted(scene.protos[k])]
  /\ at = [x \in Body |-> IF x \in Builder THEN start ELSE Nowhere]
  /\ was = [b \in Builder |-> Nowhere]
  /\ home = [b \in Builder |-> 0]
  /\ inst = [x \in Thing |-> None]
  /\ vlist = <<>>
  /\ zone = [i \in DOMAIN scene.zone |-> Booted(scene.zone[i])]
  /\ desk = [b \in Builder |-> Playing]

-----------------------------------------------------------------------------
(* Coming and going.                                                       *)

IsVeh(x) == x \in Thing /\ inst[x] # None /\ inst[x].kind = "veh"

\* Off the list of the room that in_room names.
FromRoom(w, x, r) ==
  IF IsVeh(x) THEN [w EXCEPT ![r].vehs = @ \ {x}] ELSE [w EXCEPT ![r].here = @ \ {x}]

\* char_to_room takes a room that does not exist for the first.
CharRoom(w, r) == IF r \in DOMAIN w THEN r ELSE 0

\* Somebody walks or is fetched, a thing is carried, a vehicle drives.
Move(x, r) ==
  /\ at[x] # Nowhere
  /\ r \in DOMAIN world /\ r # at[x] /\ world[r].number \in scene.roam
  /\ LET w == FromRoom(world, x, at[x]) IN
     world' = IF IsVeh(x) THEN [w EXCEPT ![r].vehs = @ \cup {x}]
                          ELSE [w EXCEPT ![r].here = @ \cup {x}]
  /\ at' = [at EXCEPT ![x] = r]
  /\ UNCHANGED <<scene, index, was, inst, vlist, zone, start, desk, home>>

\* reset_zone: a command reads a prototype and puts the instance somewhere.
Load(x, i) ==
  LET c == zone[i]
      k == RefTable(c.letter, 1)
      r == CASE c.letter = "M"                                 -> CharRoom(world, c.arg[3])
             [] c.letter \in {"O", "V"} /\ c.arg[3] \in DOMAIN world -> c.arg[3]
             [] OTHER                                          -> Nowhere
  IN /\ k \in Proto /\ inst[x] = None
     /\ inst' = [inst EXCEPT ![x] = [kind |-> k, nr |-> c.arg[1], isa |-> index[k][c.arg[1]]]]
     /\ at' = [at EXCEPT ![x] = r]
     /\ world' = IF r = Nowhere THEN world
                 ELSE IF k = "veh" THEN [world EXCEPT ![r].vehs = @ \cup {x}]
                 ELSE [world EXCEPT ![r].here = @ \cup {x}]
     /\ vlist' = IF k = "veh" THEN <<x>> \o vlist ELSE vlist
     /\ UNCHANGED <<scene, index, was, zone, start, desk, home>>

\* extract_char, extract_obj and extract_veh.  A vehicle in the first room
\* stays on the room's list; one that is nowhere ends the server.
Extract(x) ==
  /\ inst[x] # None
  /\ IsVeh(x) => at[x] # Nowhere
  /\ world' = IF at[x] = Nowhere \/ (IsVeh(x) /\ at[x] = 0) THEN world
              ELSE FromRoom(world, x, at[x])
  /\ at' = [at EXCEPT ![x] = Nowhere]
  /\ inst' = [inst EXCEPT ![x] = None]
  /\ vlist' = IF IsVeh(x) THEN SelectSeq(vlist, LAMBDA y : y # x) ELSE vlist
  /\ UNCHANGED <<scene, index, was, zone, start, desk, home>>

\* reset_zone, R: one such object is taken from the room.
TakeAway(x, i) ==
  /\ zone[i].letter = "R"
  /\ zone[i].arg[1] \in DOMAIN world /\ x \in world[zone[i].arg[1]].here
  /\ x \in Thing /\ inst[x].kind = "obj" /\ inst[x].nr = zone[i].arg[2]
  /\ Extract(x)

-----------------------------------------------------------------------------
(* Editing.                                                                *)

\* He is at the prompt, and may edit this number.
May(b, k, v) == desk[b].mode = "play" /\ <<k, v>> \in scene.edit[b]

\* The builder leaves his room for the editor of a room.
Withdraw(b, page) ==
  /\ at[b] # Nowhere
  /\ desk' = [desk EXCEPT ![b] = page]
  /\ was' = [was EXCEPT ![b] = at[b]]
  /\ home' = [home EXCEPT ![b] = world[at[b]].number]
  /\ world' = FromRoom(world, b, at[b])
  /\ at' = [at EXCEPT ![b] = Nowhere]
  /\ UNCHANGED <<scene, index, inst, vlist, zone, start>>

\* The copy is made after the builder has left.
Redit(b, v) ==
  LET n == Real("room", v) IN
  /\ May(b, "room", v)
  /\ Withdraw(b, [mode |-> "room", vnum |-> v,
                  room |-> IF n = Nowhere THEN NewRoom
                           ELSE FromRoom(world, b, at[b])[n]])

\* The clone starts without people and things; vehicles are not looked at.
Rclone(b, u, v) ==
  LET n == Real("room", u) IN
  /\ May(b, "room", v)
  /\ n # Nowhere /\ Real("room", v) = Nowhere
  /\ Withdraw(b, [mode |-> "room", vnum |-> v, room |-> [world[n] EXCEPT !.here = {}]])

\* redit: an exit is made or changed, or taken away.
SetExit(b, k, v) ==
  /\ desk[b].mode = "room" /\ v \in scene.exits
  /\ LET old == desk[b].room.door[k] IN
     desk' = [desk EXCEPT ![b].room.door[k] =
                [to |-> IF old = None THEN 0 ELSE old.to, vnum |-> v]]
  /\ UNCHANGED <<scene, world, index, at, was, inst, vlist, zone, start, home>>

ClearExit(b, k) ==
  /\ desk[b].mode = "room" /\ desk[b].room.door[k] # None
  /\ desk' = [desk EXCEPT ![b].room.door[k] = None]
  /\ UNCHANGED <<scene, world, index, at, was, inst, vlist, zone, start, home>>

\* vnum doors of room n become rnum doors.
Resolved(w, n) ==
  [w EXCEPT ![n].door = [k \in Dir |->
     IF @[k] = None THEN None
     ELSE [to |-> RealIn(Numbers(w), @[k].vnum), vnum |-> @[k].vnum]]]

\* Out of the editor and back into the room he left.
ComeBack(b, w, place, back) ==
  LET r == CharRoom(w, back[b]) IN
  /\ world' = [w EXCEPT ![r].here = @ \cup {b}]
  /\ at' = [place EXCEPT ![b] = r]
  /\ was' = [back EXCEPT ![b] = Nowhere]
  /\ desk' = [desk EXCEPT ![b] = Playing]

\* Mutant: an exit that waited for this room is not connected.
BumpDoors_Waiting(w, n) ==
  [r \in DOMAIN w |-> [w[r] EXCEPT !.door = [k \in Dir |->
     IF @[k] = None THEN None ELSE [to |-> Bump(@[k].to, n), vnum |-> @[k].vnum]]]]

\* The exits of every room after room n was inserted.
BumpDoors(w, n) ==
  [r \in DOMAIN w |-> [w[r] EXCEPT !.door = [k \in Dir |->
     IF @[k] = None THEN None
     ELSE [to |-> IF @[k].vnum = w[n].number THEN n ELSE Bump(@[k].to, n), vnum |-> @[k].vnum]]]]

\* Mutant: vehicles are forgotten.
Shifted_NoVehicles(w, p) == UNION {w[r].here : r \in p + 1 .. Top(w) - 1}

\* Who is renumbered when a room was inserted at p: whoever is in a later
\* room, up to the slot that was the last one before the tables grew.
Shifted(w, p) == UNION {w[r].here \cup w[r].vehs : r \in p + 1 .. Top(w) - 1}

\* redit, saving a room that is in the table (and is not the first): people
\* and contents are the room's, all else the copy's.
ReplaceRoom(b) ==
  LET n == Real("room", desk[b].vnum) IN
  /\ n > 0
  /\ ComeBack(b, Resolved([world EXCEPT ![n] = [desk[b].room EXCEPT !.here = world[n].here]], n),
              at, was)
  /\ UNCHANGED <<scene, index, inst, vlist, zone, start, home>>

\* redit, saving a new room.
InsertRoom(b) ==
  LET v == desk[b].vnum
      p == Place(Numbers(world), v)
      w == InsertAt(world, p, [desk[b].room EXCEPT !.number = v])
  IN
  /\ Real("room", v) <= 0
  /\ ComeBack(b, Resolved(BumpDoors(w, p), p),
              [x \in Body |-> IF x \in Shifted(w, p) /\ at[x] # Nowhere THEN at[x] + 1 ELSE at[x]],
              [c \in Builder |-> Bump(was[c], p)])
  /\ zone' = RenumberZone("room", p)
  /\ start' = Bump(start, p)
  /\ UNCHANGED <<scene, index, inst, vlist, home>>

SaveRoom(b) == desk[b].mode = "room" /\ (ReplaceRoom(b) \/ InsertRoom(b))

\* medit, iedit, vedit (and the clone commands).
Open(b, k, v) ==
  /\ k \in Proto /\ May(b, k, v)
  /\ desk' = [desk EXCEPT ![b] = [mode |-> k, vnum |-> v]]
  /\ UNCHANGED <<scene, world, index, at, was, inst, vlist, zone, start, home>>

\* An old prototype: instances are overwritten with the copy and keep what
\* the editor keeps for them.  vedit loses the link of veh_list: the first
\* instance it overwrites becomes the last vehicle of the game.
ReplaceProto(b) ==
  LET k == desk[b].mode
      n == Real(k, desk[b].vnum)
      hits == {i \in DOMAIN vlist : inst[vlist[i]].nr = n}
  IN
  /\ n > 0
  /\ vlist' = IF k = "veh" /\ hits # {}
              THEN [i \in 1 .. CHOOSE h \in hits : \A g \in hits : h <= g |-> vlist[i]]
              ELSE vlist
  /\ UNCHANGED <<index, inst, zone>>

\* Mutant: the objects in the game are forgotten.
Known_NoObjects(k) == {x \in Thing : /\ inst[x] # None /\ inst[x].kind = k /\ k # "obj"
                                     /\ k = "veh" => \E i \in DOMAIN vlist : vlist[i] = x}

\* Which instances the editor of a table finds to renumber them.
Known(k) == {x \in Thing : /\ inst[x] # None /\ inst[x].kind = k
                           /\ k = "veh" => \E i \in DOMAIN vlist : vlist[i] = x}

InsertProto(b) ==
  LET k == desk[b].mode
      v == desk[b].vnum
      p == Place(index[k], v)
  IN
  /\ Real(k, v) <= 0
  /\ index' = [index EXCEPT ![k] = InsertAt(@, p, v)]
  /\ inst' = [x \in Thing |-> IF x \in Known(k) THEN [inst[x] EXCEPT !.nr = Bump(@, p)]
                              ELSE inst[x]]
  /\ zone' = RenumberZone(k, p)
  /\ UNCHANGED vlist

SaveProto(b) ==
  /\ desk[b].mode \in Proto
  /\ ReplaceProto(b) \/ InsertProto(b)
  /\ desk' = [desk EXCEPT ![b] = Playing]
  /\ UNCHANGED <<scene, world, at, was, start, home>>

\* "no": the copy is thrown away.
Abort(b) ==
  /\ desk[b].mode # "play"
  /\ IF desk[b].mode = "room" THEN ComeBack(b, world, at, was)
     ELSE desk' = [desk EXCEPT ![b] = Playing] /\ UNCHANGED <<world, at, was>>
  /\ UNCHANGED <<scene, index, inst, vlist, zone, start, home>>

-----------------------------------------------------------------------------
(* Rooms without an editor.                                                *)

\* An exit from here to a room, and one back.
Dig(b, k, v) ==
  LET h == at[b]
      n == Real("room", v)
      exit(r) == [to |-> r, vnum |-> world[r].number]
      there == [world EXCEPT ![h].door[k] = exit(n)]
  IN
  /\ desk[b].mode = "play" /\ "dig" \in scene.cmds[b] /\ h # Nowhere
  /\ v \in scene.exits /\ n # Nowhere
  /\ world[h].door[k] = None /\ world[n].door[Rev(k)] = None
  /\ world' = [there EXCEPT ![n].door[Rev(k)] = exit(h)]
  /\ UNCHANGED <<scene, index, at, was, inst, vlist, zone, start, desk, home>>

\* Later rooms move down, and with them their people and things, but not
\* their vehicles; the start room and those who are in an editor are not
\* renumbered.
Rdelete(b, v) ==
  LET n == Real("room", v)
      w == RemoveAt(world, n)
      moved == {x \in Body : \E r \in n .. Top(w) : x \in w[r].here}
      down(c, j) == IF <<c.letter, j>> \in Renumbered("room") /\ c.arg[j] > n
                    THEN c.arg[j] - 1 ELSE c.arg[j]
      gone(c) == \E j \in 1..3 : <<c.letter, j>> \in Renumbered("room") /\ c.arg[j] = n
  IN
  /\ desk[b].mode = "play" /\ "rdelete" \in scene.cmds[b] /\ at[b] # Nowhere
  /\ v \in scene.delete /\ v # scene.start
  /\ n # Nowhere /\ world[n].here = {}
  /\ world' = [r \in DOMAIN w |-> [w[r] EXCEPT !.door = [k \in Dir |->
       IF @[k] # None /\ @[k].to >= n THEN [to |-> @[k].to - 1, vnum |-> @[k].vnum] ELSE @[k]]]]
  /\ at' = [x \in Body |-> IF x \in moved /\ at[x] # Nowhere
                           THEN CHOOSE r \in n .. Top(w) : x \in w[r].here ELSE at[x]]
  /\ zone' = [i \in DOMAIN zone |-> IF gone(zone[i]) THEN Blank
                ELSE [zone[i] EXCEPT !.arg = [j \in 1..3 |-> down(zone[i], j)]]]
  /\ UNCHANGED <<scene, index, was, inst, vlist, start, desk, home>>

-----------------------------------------------------------------------------
(* zedit: one command of the zone, as a copy that keeps rnums.             *)

Zedit(b, i, how) ==
  /\ desk[b].mode = "play" /\ "zedit" \in scene.cmds[b]
  /\ how = "edit"   => i \in DOMAIN zone
  /\ how = "insert" => i \in DOMAIN zone /\ Top(zone) + 1 < scene.max
  /\ how = "add"    => i = Top(zone) + 1 /\ i < scene.max
  /\ desk' = [desk EXCEPT ![b] = [mode |-> "cmd", nr |-> i, insert |-> how = "insert",
                                  cmd |-> IF how = "edit" THEN zone[i] ELSE Blank]]
  /\ UNCHANGED <<scene, world, index, at, was, inst, vlist, zone, start, home>>

\* Another type takes the arguments with it.
Zblank(l) == [Blank EXCEPT !.letter = l]

ZeditType(b, l) ==
  /\ desk[b].mode = "cmd" /\ l \in scene.letters
  /\ desk' = [desk EXCEPT ![b].cmd =
       [Zblank(l) EXCEPT !.means = [j \in 1..3 |->
          IF RefTable(l, j) = "none" THEN 0 ELSE TableOf(RefTable(l, j))[0]]]]
  /\ UNCHANGED <<scene, world, index, at, was, inst, vlist, zone, start, home>>

\* A vnum is typed; one that does not exist becomes the first entry.
ZeditArg(b, j, v) ==
  LET k == RefTable(desk[b].cmd.letter, j)
      n == IF Real(k, v) > 0 THEN Real(k, v) ELSE 0
  IN
  /\ desk[b].mode = "cmd" /\ k # "none" /\ <<k, v>> \in scene.types
  /\ desk' = [desk EXCEPT ![b].cmd = [@ EXCEPT !.arg[j] = n, !.means[j] = TableOf(k)[n]]]
  /\ UNCHANGED <<scene, world, index, at, was, inst, vlist, zone, start, home>>

ZeditSave(b) ==
  LET d == desk[b] IN
  /\ d.mode = "cmd"
  /\ zone' = IF d.nr \in DOMAIN zone /\ ~d.insert THEN [zone EXCEPT ![d.nr] = d.cmd]
             ELSE IF d.nr \in DOMAIN zone THEN InsertAt(zone, d.nr, d.cmd)
             ELSE InsertAt(zone, Top(zone) + 1, d.cmd)
  /\ desk' = [desk EXCEPT ![b] = Playing]
  /\ UNCHANGED <<scene, world, index, at, was, inst, vlist, start, home>>

-----------------------------------------------------------------------------

Vnum == UNION ({scene.rooms, scene.exits} \cup {scene.protos[k] : k \in Proto}
               \cup {{e[2] : e \in scene.edit[b]} : b \in Builder}
               \cup {{e[2] : e \in scene.types}})

Edit(b) ==
  \/ \E v \in Vnum : Redit(b, v)
  \/ \E u, v \in Vnum : "rclone" \in scene.cmds[b] /\ Rclone(b, u, v)
  \/ \E k \in Dir, v \in scene.exits : SetExit(b, k, v)
  \/ \E k \in Dir : ClearExit(b, k)
  \/ SaveRoom(b)
  \/ \E k \in Proto, v \in Vnum : Open(b, k, v)
  \/ SaveProto(b)
  \/ Abort(b)
  \/ \E k \in Dir, v \in scene.exits : Dig(b, k, v)
  \/ \E v \in scene.delete : Rdelete(b, v)
  \/ \E i \in 0 .. scene.max, how \in {"edit", "insert", "add"} : Zedit(b, i, how)
  \/ \E l \in Letter : ZeditType(b, l)
  \/ \E j \in 1..3, v \in Vnum : ZeditArg(b, j, v)
  \/ ZeditSave(b)

Live(x) ==
  \/ \E i \in DOMAIN zone : Load(x, i)
  \/ \E i \in DOMAIN zone : TakeAway(x, i)
  \/ Extract(x)

Next ==
  \/ \E b \in Builder : Edit(b)
  \/ \E x \in scene.things : Live(x)
  \/ \E x \in Body, r \in DOMAIN world : Move(x, r)

Spec == Init /\ [][Next]_vars

-----------------------------------------------------------------------------
(* What the builders of a scene keep away from.                            *)

\* What nobody deletes.
Lasting(s, k) == IF k = "room" THEN s.rooms \ (s.delete \ {s.start}) ELSE s.protos[k]

\* Nothing is made before, or in, the first entry of a table.
FirstKept(s) ==
  \A b \in Builder : \A e \in s.edit[b] : \E u \in Lasting(s, e[1]) : u < e[2]

\* A room that two builders edit is there from the start to the end.
OneMaker(s) ==
  \A b, c \in Builder : b # c =>
    \A e \in s.edit[b] \cap s.edit[c] : e[1] = "room" => e[2] \in Lasting(s, "room")

\* Whoever writes commands builds alone.
WritesAlone(s) ==
  \A b, c \in Builder : b # c /\ "zedit" \in s.cmds[b] => s.edit[c] = {} /\ s.cmds[c] = {}

NothingDeleted(s) == s.delete = {}

\* No vehicle comes into the game.
NoVehicles(s) ==
  /\ "V" \notin s.letters
  /\ \A i \in DOMAIN s.zone : s.zone[i].letter # "V"

\* Nobody and nothing comes into the last room, z.
LastRoom(s, z) ==
  /\ z \in s.rooms /\ z # s.start /\ \A u \in s.rooms : u <= z
  /\ \A b \in Builder : \A e \in s.edit[b] : e[1] = "room" => e[2] < z
  /\ z \notin s.roam /\ <<"room", z>> \notin s.types
  /\ \A i \in DOMAIN s.zone : s.zone[i].letter \in {"M", "O"} => s.zone[i].means[3] # z

LastEmpty(s) == \E z \in s.rooms : LastRoom(s, z)

-----------------------------------------------------------------------------
(* Properties.                                                             *)

\* Entry n of table k is number v.
Names(k, n, v) == n \in DOMAIN TableOf(k) /\ TableOf(k)[n] = v

IsTable(f) == /\ DOMAIN f = 0 .. Top(f)
              /\ \A p, q \in DOMAIN f : p < q => f[p] < f[q]

\* The tables stay sorted, without a gap and without a number twice, however
\* two builders' inserts and deletions interleave (the shifts of redit.cpp,
\* medit.cpp, iedit.cpp, vedit.cpp and do_rdelete), and nobody and nothing is
\* on the lists of two rooms.  (In scenes that are FirstKept and OneMaker:
\* a save that has no earlier entry to find inserts what is there already.)
TypeOK ==
  /\ \A k \in Proto \cup {"room"} : IsTable(TableOf(k))
  /\ \A b \in Builder : desk[b].mode \in {"play", "room", "cmd"} \cup Proto
  /\ \A r, s \in DOMAIN world :
        r # s => (world[r].here \cup world[r].vehs) \cap (world[s].here \cup world[s].vehs) = {}
  /\ DOMAIN zone = 0 .. Top(zone) /\ Top(zone) < scene.max
  /\ \A i, j \in DOMAIN vlist : i # j => vlist[i] # vlist[j]

\* in_room of everybody, every object and every vehicle names the room on
\* whose list he or it is, through the insertions and deletions that forget
\* nobody.  The code does forget, and the scenes keep those cases out: who is
\* in the last room when one is inserted before it (the loop over the table
\* ends at its old end, redit.cpp:385-424), vehicles anywhere behind a room
\* that is deleted (olc.cpp:595-604), and vehicles in a room that is edited
\* (redit.cpp:352-361 copies back the people and the contents only).
InRoomTrue ==
  TypeOK /\ \A x \in Body, r \in DOMAIN world : x \in world[r].here \cup world[r].vehs <=> at[x] = r

\* An instance in the game names the prototype it was made from.
InstancesNamed ==
  \A x \in Thing : inst[x] # None => Names(inst[x].kind, inst[x].nr, inst[x].isa)

\* Every exit leads to the room of its vnum, or nowhere while there is none;
\* the start room stays the start room; and a builder comes back to the room
\* he left, whatever the others inserted meanwhile.  (After a deletion neither
\* the start rooms nor the ways back are renumbered; the scene that deletes
\* has its start room in front and nobody else in an editor.)
WaysTrue ==
  /\ \A r \in DOMAIN world, k \in Dir :
       world[r].door[k] # None => world[r].door[k].to = Real("room", world[r].door[k].vnum)
  /\ Names("room", start, scene.start)
  /\ \A b \in Builder : was[b] # Nowhere => Names("room", was[b], home[b])

\* What a zone's command named when it was written it names still, through
\* every insertion and deletion.  (No editor renumbers S, V and the letters
\* that U stands for.)
CommandsTrue ==
  \A i \in DOMAIN zone, j \in 1..3 :
    LET k == RefTable(zone[i].letter, j) IN
      k # "none" /\ zone[i].letter \notin {"S", "V", "U"}
        => Names(k, zone[i].arg[j], zone[i].means[j])

\* The numbers kept by instances and by zone commands name what they were stored
\* for, where whoever writes commands builds alone: a command that is in an
\* editor is renumbered by nobody.
NamesTrue == InstancesNamed /\ CommandsTrue

=============================================================================
