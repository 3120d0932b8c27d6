------------------------------- MODULE Creation -------------------------------
(***************************************************************************)
(* The creation of a character: create_parse answers one question after   *)
(* the other, kept in d->ccr.  A character spends five priorities, A to E, *)
(* on five settings: race, magic, attributes, skills and resources.  The   *)
(* race takes its priority first; the rest is assigned by the player, one  *)
(* slot at a time and in any order, or by an archetype.                    *)
(*                                                                         *)
(* The points of a character are the priority they were given for: an     *)
(* entry of attrib_vals, skill_vals or nuyen_vals, 0 for none; attributes  *)
(* and nuyen are left of them when the minima of the race and the outfit   *)
(* of an archetype have been paid for.  Names, languages, the grimoire  *)
(* of a mage and the clothes everybody gets are left out.                  *)
(***************************************************************************)
EXTENDS Integers, FiniteSets

PR_NONE == "none"                               \* no priority, no race, no question
Slot == 1 .. 5                                  \* priorities A to E
Setting == {"attrib", "skill", "resource", "magic"}   \* PR_ATTRIB, ...
Pointed == {"attrib", "skill", "resource"}
Archetype == {"samurai", "shaman", "mage", "decker", "adept", "rigger"}

\* The priority of a race: a human pays E, a dwarf or an ork D, all others C.
\* Of the races with the same priority and minima one is kept.
RaceSlot == [human |-> 5, dwarf |-> 4, ork |-> 4, elf |-> 3, ogre |-> 3, oni |-> 3, satyr |-> 3, troll |-> 3]
Race == DOMAIN RaceSlot

\* The attribute points the minima of a race cost.
Minima == [human |-> 6, dwarf |-> 6, ork |-> 8, elf |-> 6, ogre |-> 7, oni |-> 8, satyr |-> 9, troll |-> 11]

attrib_vals == <<30, 27, 24, 21, 18>>

VARIABLES
  con,        \* STATE(d): CON_CNFPASSWD, CON_CCREATE or CON_RMOTD
  mode,       \* d->ccr.mode
  temp,       \* d->ccr.temp: the slot being assigned,
  back,       \*   or the question help was asked at
  pr,         \* d->ccr.pr
  ch          \* the character: race, tradition, points, attributes, nuyen

vars == <<con, mode, temp, back, pr, ch>>

NoPriorities == [i \in Slot |-> PR_NONE]
NoPoints == [s \in Pointed |-> 0]

\* paid: times the minima of the race have been paid for.
NewCharacter == [race |-> PR_NONE, tradition |-> PR_NONE, points |-> NoPoints, paid |-> 0, attributes |-> 0, nuyen |-> 0]

-----------------------------------------------------------------------------
(* Helpers                                                                  *)

At(m) == con = "CON_CCREATE" /\ mode = m

\* An answer that is none: the question is asked again.
Again == UNCHANGED vars

Ask(m) == mode' = m /\ UNCHANGED <<con, temp, back, pr, ch>>

\* "? topic": the text is shown, a line leads back to the question.
HelpOn(m) == mode' = "CCR_AWAIT_CR" /\ back' = m /\ UNCHANGED <<con, temp, pr, ch>>

\* The priorities are shown, and asked for again.
priority_menu == mode' = "CCR_PRIORITY"

init_create_vars == mode' = "CCR_SEX" /\ temp' = 0 /\ back' = PR_NONE /\ pr' = NoPriorities

\* The character is created and saved.
start_game(c) == con' = "CON_RMOTD" /\ ch' = c /\ init_create_vars

set_attributes(c) == [c EXCEPT !.paid = @ + 1, !.attributes = @ - Minima[c.race]]

-----------------------------------------------------------------------------
(* assign_priorities                                                        *)

\* A setting takes the best priority that is free, if one is.
Free(p) == { i \in Slot : p[i] = PR_NONE }
Place(a, s) ==
  IF Free(a.pr) = {} THEN a
  ELSE LET i == CHOOSE i \in Free(a.pr) : \A j \in Free(a.pr) : i <= j IN
       [pr |-> [a.pr EXCEPT ![i] = s], points |-> [a.points EXCEPT ![s] = i]]

Others(a) == Place(Place(Place(a, "attrib"), "skill"), "resource")

\* A rigger is given skills, resources and attributes first, and then again
\* what is free: the attributes a second time, for the priority left.
RiggerFirst(a) == Place(Place(Place(a, "skill"), "resource"), "attrib")

TraditionOf(a) ==
  CASE a = "shaman" -> "shamanic" [] a = "mage" -> "hermetic" [] a = "adept" -> "adept" [] OTHER -> "mundane"

\* Magic is priority A for a mage or shaman, B for an adept.
MagicSlot(t) == CASE t \in {"hermetic", "shamanic"} -> 1 [] t = "adept" -> 2 [] OTHER -> 0

WithMagic(p, t) == [i \in Slot |-> IF i = MagicSlot(t) THEN "magic" ELSE p[i]]

Assigned(p, points, a) ==
  LET start == [pr |-> WithMagic(p, TraditionOf(a)), points |-> points] IN
  Others(IF a = "rigger" THEN RiggerFirst(start) ELSE start)

-----------------------------------------------------------------------------
(* What an archetype buys.                                                  *)

nuyen_vals == <<1000000, 400000, 90000, 20000, 5000>>

Spend(n, price) == IF n > price THEN n - price ELSE n

\* The first of three things there is money for; the last resort is free.
Best(n, x, y, z) == CASE n > x -> n - x [] n > y -> n - y [] n > z -> n - z [] OTHER -> n

WeaponAndArmor(n) == Best(Best(n, 1000, 550, 350), 900, 400, 200)

\* A rigger's datajack, remote deck, reflexes, jack and vehicle.
RiggerGear(n) == Spend(Spend(Spend(Spend(Spend(n, 60000), 5500), 2500), 1000), 20000)

SamuraiGear(n) == Best(n, 2500, 4000, 2000)

\* A decker's programs are bought after the deck.
DeckerGear(n) ==
  LET jacked == Spend(n, 1000) IN
  IF jacked > 6800
    THEN Spend(Spend(Spend(Spend(Spend(jacked - 6800, 1200), 1200), 800), 800), 800)
    ELSE jacked

Outfit(n, a) ==
  LET armed == WeaponAndArmor(n) IN
  CASE a = "rigger" -> RiggerGear(armed) [] a = "samurai" -> SamuraiGear(armed)
    [] a = "decker" -> DeckerGear(armed) [] OTHER -> armed

-----------------------------------------------------------------------------
(* create_parse                                                             *)

Sex == At("CCR_SEX") /\ (Again \/ Ask("CCR_RACE"))

parse_race ==
  At("CCR_RACE") /\
    (Again \/ HelpOn("CCR_RACE")
       \/ \E r \in Race :
            /\ pr' = [pr EXCEPT ![RaceSlot[r]] = "race"]
            /\ ch' = [ch EXCEPT !.race = r]
            /\ mode' = "CCR_TYPE" /\ UNCHANGED <<con, temp, back>>)

Type ==
  At("CCR_TYPE") /\ (Again \/ Ask("CCR_ARCHETYPE") \/ (priority_menu /\ UNCHANGED <<con, temp, back, pr, ch>>))

\* All but the shaman, who chooses a totem, start at once.
parse_archetype ==
  At("CCR_ARCHETYPE") /\
    (Again \/ HelpOn("CCR_ARCHETYPE")
       \/ \E a \in Archetype :
            LET given == Assigned(pr, ch.points, a)
                made == set_attributes([ch EXCEPT !.tradition = TraditionOf(a), !.points = given.points,
                                                  !.attributes = attrib_vals[given.points["attrib"]],
                                                  !.nuyen = Outfit(nuyen_vals[given.points["resource"]], a)]) IN
            IF a = "shaman" THEN mode' = "CCR_TOTEM" /\ pr' = given.pr /\ ch' = made /\ UNCHANGED <<con, temp, back>>
                            ELSE start_game(made))

parse_totem == At("CCR_TOTEM") /\ (Again \/ HelpOn("CCR_TOTEM") \/ start_game(ch))

ChooseSlot ==
  /\ At("CCR_PRIORITY")
  /\ \E i \in Slot :
       IF pr[i] = "race" THEN Again ELSE mode' = "CCR_ASSIGN" /\ temp' = i /\ UNCHANGED <<con, back, pr, ch>>

\* Mutant: only the last priority is looked at.
ContinueLast ==
  /\ At("CCR_PRIORITY") /\ pr[5] # PR_NONE
  /\ LET paid == set_attributes(ch) IN
     CASE pr[1] = "magic" -> mode' = "CCR_TRADITION" /\ ch' = paid /\ UNCHANGED <<con, temp, back, pr>>
       [] pr[1] # "magic" /\ pr[2] = "magic" -> start_game([paid EXCEPT !.tradition = "adept"])
       [] OTHER -> start_game([paid EXCEPT !.tradition = "mundane"])

\* 'p': once every priority is set, the attributes of the race are paid for.
Continue ==
  /\ At("CCR_PRIORITY") /\ \A i \in Slot : pr[i] # PR_NONE
  /\ LET paid == set_attributes(ch) IN
     CASE pr[1] = "magic" -> mode' = "CCR_TRADITION" /\ ch' = paid /\ UNCHANGED <<con, temp, back, pr>>
       [] pr[1] # "magic" /\ pr[2] = "magic" -> start_game([paid EXCEPT !.tradition = "adept"])
       [] OTHER -> start_game([paid EXCEPT !.tradition = "mundane"])

Priority == ChooseSlot \/ Continue \/ (At("CCR_PRIORITY") /\ (Again \/ HelpOn("CCR_PRIORITY")))

AttributesOf(points) == IF points["attrib"] = 0 THEN 0 ELSE attrib_vals[points["attrib"]]
NuyenOf(points) == IF points["resource"] = 0 THEN 0 ELSE nuyen_vals[points["resource"]]

\* The setting leaves the slot that had it.
Moved(s) == [i \in Slot |-> CASE i = temp -> s [] i # temp /\ pr[i] = s -> PR_NONE [] OTHER -> pr[i]]

\* The points are those of the slot; whatever the slot held before loses the
\* slot and keeps its points.  'c' clears the slot, not the points.
parse_assign ==
  /\ At("CCR_ASSIGN")
  /\ \/ Again
     \/ \E s \in Setting :
          /\ pr' = Moved(s)
          /\ LET points == IF s \in Pointed THEN [ch.points EXCEPT ![s] = temp] ELSE ch.points IN
             ch' = [ch EXCEPT !.points = points, !.attributes = AttributesOf(points), !.nuyen = NuyenOf(points)]
          /\ priority_menu /\ temp' = 0 /\ UNCHANGED <<con, back>>
     \/ /\ pr' = [pr EXCEPT ![temp] = PR_NONE]
        /\ priority_menu /\ temp' = 0 /\ UNCHANGED <<con, back, ch>>

Tradition ==
  At("CCR_TRADITION") /\
    (Again
       \/ start_game([ch EXCEPT !.tradition = "hermetic"])
       \/ (ch' = [ch EXCEPT !.tradition = "shamanic"] /\ mode' = "CCR_TOTEM" /\ UNCHANGED <<con, temp, back, pr>>))

AwaitCr == At("CCR_AWAIT_CR") /\ mode' = back /\ back' = PR_NONE /\ UNCHANGED <<con, temp, pr, ch>>

create_parse ==
  \/ Sex \/ parse_race \/ Type \/ parse_archetype \/ parse_totem
  \/ Priority \/ parse_assign \/ Tradition \/ AwaitCr

-----------------------------------------------------------------------------
(* nanny: the password was typed twice.                                     *)
Enter == con = "CON_CNFPASSWD" /\ con' = "CON_CCREATE" /\ ch' = NewCharacter /\ init_create_vars

\* The link breaks: close_socket frees a character that is not in the game.
LinkLost ==
  con = "CON_CCREATE" /\ con' = "CON_CNFPASSWD" /\ ch' = NewCharacter /\ init_create_vars

\* The next new player.
Another == con = "CON_RMOTD" /\ con' = "CON_CNFPASSWD" /\ ch' = NewCharacter /\ init_create_vars

Init == con = "CON_CNFPASSWD" /\ mode = "CCR_SEX" /\ temp = 0 /\ back = PR_NONE /\ pr = NoPriorities /\ ch = NewCharacter

Next == Enter \/ create_parse \/ LinkLost \/ Another

Spec == Init /\ [][Next]_vars

-----------------------------------------------------------------------------
(* Properties                                                               *)

Questions == {"CCR_RACE", "CCR_ARCHETYPE", "CCR_TOTEM", "CCR_PRIORITY"}
Modes == Questions \cup {"CCR_SEX", "CCR_TYPE", "CCR_ASSIGN", "CCR_TRADITION", "CCR_AWAIT_CR"}
Traditions == {"hermetic", "shamanic", "adept", "mundane"}

\* Help leads back to the question it was asked at, a priority is assigned
\* to a slot the race has not taken.
TypeOK ==
  /\ con \in {"CON_CNFPASSWD", "CON_CCREATE", "CON_RMOTD"} /\ mode \in Modes
  /\ pr \in [Slot -> Setting \cup {"race", PR_NONE}]
  /\ ch.race \in Race \cup {PR_NONE} /\ ch.tradition \in Traditions \cup {PR_NONE}
  /\ ch.points \in [Pointed -> Slot \cup {0}] /\ ch.paid \in 0 .. 1
  /\ temp \in Slot \cup {0} /\ back \in Questions \cup {PR_NONE}
  /\ mode = "CCR_AWAIT_CR" => back \in Questions
  /\ mode = "CCR_ASSIGN" => temp \in Slot /\ pr[temp] # "race"

\* The priority spent on each setting (0: a mundane spends none on magic).
Price(c, t) ==
  [s \in Pointed \cup {"race", "magic"} |->
     CASE s = "race" -> RaceSlot[c.race] [] s = "magic" -> MagicSlot(t) [] OTHER -> c.points[s]]

\* A character that starts has paid for everything, each setting with a
\* priority of its own: attributes, skills, resources, race and magic come
\* from different priorities, whatever was assigned, moved, cleared and
\* looked up before; the minima of the race are paid for once, and neither
\* they nor the outfit of an archetype leave a debt.  It holds as soon as the
\* priorities are settled, before a tradition or a totem is chosen.
Settled == con = "CON_RMOTD" \/ (con = "CON_CCREATE" /\ ch.paid > 0)
PaidOnce ==
  Settled =>
    /\ ch.race \in Race /\ ch.paid = 1
    /\ \A s \in Pointed : ch.points[s] \in Slot
    /\ LET price == Price(ch, IF con = "CON_RMOTD" THEN ch.tradition ELSE "hermetic") IN
       \A s, t \in DOMAIN price : s # t => price[s] # price[t]
    /\ con = "CON_RMOTD" => ch.tradition \in Traditions
    /\ ch.attributes = attrib_vals[ch.points["attrib"]] - Minima[ch.race] /\ ch.attributes > 0
    /\ ch.nuyen \in 0 .. nuyen_vals[ch.points["resource"]]

=============================================================================
