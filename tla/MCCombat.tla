---------------------------- MODULE MCCombat ----------------------------
(***************************************************************************)
(* A player, his companion and a mobile, in a street and a hospital.       *)
(***************************************************************************)
EXTENDS Combat

CONSTANTS ann, bob, orc

Chars == {ann, bob, orc}
Mobs == {orc}
MeleeFighters == {bob, orc}
Partners == [c \in Chars |-> IF c = ann THEN bob ELSE IF c = bob THEN ann ELSE NULL]

=============================================================================
