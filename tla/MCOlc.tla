------------------------------- MODULE MCOlc -------------------------------
(***************************************************************************)
(* Two builders and two things in seven scenes. In those that pass, the    *)
(* last room of the world stays empty, no two builders create one room,    *)
(* whoever edits commands builds alone, nothing that rdelete forgets is    *)
(* about, and vehicles stay out of the rooms that are edited.              *)
(***************************************************************************)
EXTENDS Olc

CONSTANTS b1, b2, t1, t2

Cmd(l, x, y, z) == [letter |-> l, means |-> <<x, y, z>>]
Zone(s) == [i \in 0 .. Len(s) - 1 |-> s[i + 1]]
Of(k, S) == {<<k, v>> : v \in S}
Both(x, y) == [b \in Builder |-> IF b = b1 THEN x ELSE y]
Protos(m, o, v) == [k \in Proto |-> CASE k = "mob" -> m [] k = "obj" -> o [] k = "veh" -> v]

Empty == [rooms |-> {1, 3, 5}, start |-> 3, protos |-> Protos({1, 3}, {1, 3}, {1}),
          edit |-> Both({}, {}), cmds |-> Both({}, {}), roam |-> {}, exits |-> {},
          delete |-> {}, letters |-> {}, things |-> Thing, max |-> 6, types |-> {}, zone |-> Zone(<<>>)]

\* Two builders make and change rooms while somebody walks.
Rooms == [Empty EXCEPT !.edit = Both(Of("room", {2, 3}), Of("room", {3, 4})),
                       !.things = {t1}, !.roam = {1, 2, 3, 4},
                       !.zone = Zone(<<Cmd("M", 3, 0, 3)>>)]

\* Two builders make rooms and the exits between them.
Exits == [Empty EXCEPT !.edit = Both(Of("room", {2}), Of("room", {4})), !.exits = {2, 5}]

\* Two builders make prototypes while instances come and go.
Kinds == [Empty EXCEPT !.edit = Both(Of("mob", {2, 3}) \cup Of("obj", {2}), Of("obj", {4}) \cup Of("mob", {4})),
                       !.zone = Zone(<<Cmd("M", 3, 0, 3), Cmd("G", 3, 0, 0), Cmd("O", 3, 0, 1),
                                       Cmd("P", 1, 0, 3), Cmd("R", 1, 3, 0), Cmd("S", 3, 0, 0)>>)]

\* Vehicles, whose commands nobody renumbers.
Traffic == [Empty EXCEPT !.rooms = {1, 2, 4, 6}, !.start = 2,
                         !.protos = Protos({}, {}, {1, 2, 4}),
                         !.edit = Both(Of("room", {3}) \cup Of("veh", {3}), {}),
                         !.roam = {2, 4}, !.zone = Zone(<<Cmd("V", 4, 0, 2), Cmd("V", 2, 0, 2)>>)]

\* One builder writes commands and makes what stands before their numbers.
Commands(letters, max) ==
  [Empty EXCEPT !.edit = Both(Of("room", {2}) \cup Of("mob", {2}) \cup Of("obj", {2}), {}),
                !.cmds = Both({"zedit"}, {}), !.things = {t1}, !.max = max, !.letters = letters,
                !.types = {<<"room", 3>>, <<"mob", 3>>, <<"mob", 9>>, <<"obj", 3>>}]

\* A room is deleted and made again.
Deleted == [Empty EXCEPT !.rooms = {1, 2, 4, 5}, !.start = 1,
                         !.edit = Both(Of("room", {2}), {}),
                         !.cmds = Both({"dig", "rclone", "rdelete"}, {}),
                         !.things = {t1}, !.delete = {2}, !.roam = {1, 4}, !.exits = {1, 4},
                         !.zone = Zone(<<Cmd("M", 3, 0, 4), Cmd("O", 3, 0, 2), Cmd("D", 4, 0, 0)>>)]

Calm  == {Rooms, Exits, Kinds,
          Commands({"M", "R"}, 2), Commands({"O", "P", "G", "D", "S", "U"}, 1)}
Plays == Calm \cup {Traffic, Deleted}

\* The scenes of which the theorems of OlcProofs speak.
ASSUME CalmIsProved ==
  \A s \in Calm :
    /\ FirstKept(s) /\ OneMaker(s) /\ WritesAlone(s)
    /\ NoVehicles(s) /\ NothingDeleted(s) /\ LastEmpty(s)

=============================================================================
