------------------------------ MODULE MCMagic ------------------------------
(***************************************************************************)
(* Two players and two mobiles of one prototype, in two rooms of which the *)
(* first sees into the second.                                             *)
(***************************************************************************)
EXTENDS Magic

CONSTANTS p1, p2, g1, g2, r1, r2

Chars == {p1, p2, g1, g2}
Mobs  == {g1, g2}
Numbers == [c \in Chars |-> IF c = p1 THEN 1 ELSE IF c = p2 THEN 2 ELSE -5]
Rooms == {r1, r2}
OneWay == {<<r1, r1>>, <<r2, r2>>, <<r1, r2>>}
Sorcery(a, b) == [c \in Chars |-> IF c = p1 THEN a ELSE IF c = p2 THEN b ELSE 1]

Scene(spells, who, led, rooms, skill) ==
  [spells |-> spells, who |-> who, led |-> led, rooms |-> rooms,
   skill |-> skill, thirst |-> {}]

\* The first player is poisoned by food and drink, too.
Thirsty(k) == [k EXCEPT !.thirst = {p1}]

Plays ==
  { Scene({"light"}, {p1, p2, g1}, {}, Rooms, Sorcery(2, 1)),
    Scene({"influence"}, {p1, p2, g1}, {p2}, {r1}, Sorcery(2, 1)),
    Scene({"petrify"}, {p1, p2}, {}, Rooms, Sorcery(2, 1)),
    Scene({"heal"}, {p1, g1, g2}, {}, {r1}, Sorcery(0, 0)),
    Scene({"poison", "antidote"}, {p1, p2}, {}, {r1}, Sorcery(1, 0)),
    Thirsty(Scene({"poison"}, {p1, p2}, {}, {r1}, Sorcery(1, 1))),
    Thirsty(Scene({"poison", "antidote"}, {p1, p2}, {}, {r1}, Sorcery(0, 0))),
    Scene({"chaos", "world"}, {p1, p2, g1}, {p2}, {r1}, Sorcery(2, 0)),
    Scene({"invis"}, {p1, p2}, {}, Rooms, Sorcery(2, 1)),
    Scene({"detect"}, {p1, g1, g2}, {}, Rooms, Sorcery(1, 0)) }

=============================================================================
