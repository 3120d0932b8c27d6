------------------------------ MODULE MCEditors ------------------------------
(***************************************************************************)
(* What a player says and types, in scenes: the editors, opened one after  *)
(* the other by one builder; the creation of characters; a player and a    *)
(* builder at the boards, with two messages at a time; the builder alone,  *)
(* who fills a board with messages that stay; a runner between two         *)
(* johnsons, one of whose quests pays nothing; two runners, alone or as a  *)
(* group, and one johnson; the phone of a player, two in houses, and a     *)
(* decker.                                                                 *)
(***************************************************************************)
EXTENDS Editors

CONSTANTS Boards, MaxMessages, Spare, Builder, Leaks, Posters   \* Boards

CONSTANTS Jobs                                                  \* Quests

CONSTANTS Phone, Fixed, Decker, Number, Short                   \* Phones

VARIABLES
  scene,                                         \* which of the seven
  asking, question, temp, back, pr, ch,          \* the creation of a character
  index, text, taken, writes, file, spoilt,      \* the boards
  table, spare1, spare2, memory, questnum, complete, lquest,
  place, leader, targets, left, orphan, moved,   \* the runs
  up, phone_list, number, dest, connected, switched, here, ghost, broken  \* the phones

BoardScenes == {"pair", "alone"}
JobScenes   == {"solo", "duo"}

\* The constants of a scene are those its records give.
Creation == INSTANCE Creation WITH con <- asking, mode <- question

Post(s) == INSTANCE Boards WITH Writer <- Posters[s].writers, Id <- Posters[s].ids

Run(s) == INSTANCE Quests WITH
  Runner <- Jobs[s].runners, Johnson <- Jobs[s].johnsons, Job <- DOMAIN Jobs[s].goals, First <- Jobs[s].first,
  Giver <- Jobs[s].giver, Goals <- Jobs[s].goals, IpZone <- Jobs[s].unpaid, Suits <- Jobs[s].suits,
  Timer <- Jobs[s].timer, Most <- 1, spoilt <- moved

Calls == INSTANCE Phones WITH NULL <- None

ASSUME PostsAssumption == \A s \in BoardScenes : Post(s)!BoardsAssumption
ASSUME RunsAssumption == \A s \in JobScenes : Run(s)!QuestsAssumption
ASSUME CallsAssumption == Calls!PhonesAssumption

creating == <<asking, question, temp, back, pr, ch>>
posting == <<index, text, taken, writes, file, spoilt>>
running == <<table, spare1, spare2, memory, questnum, complete, lquest, place, leader, targets, left, orphan, moved>>
phoning == <<up, phone_list, number, dest, connected, switched, here, ghost, broken>>

\* The scene that is played, or, where none of these is, the one whose initial state is kept.
Shows(s, scenes, idle) == s = (IF scene \in scenes THEN scene ELSE idle)

MCInit ==
  /\ scene \in {"editors", "creation", "pair", "alone", "solo", "duo", "phones"}
  /\ Init /\ Creation!Init
  /\ \E s \in BoardScenes : Shows(s, BoardScenes, "pair") /\ Post(s)!Init
  /\ \E s \in JobScenes : Shows(s, JobScenes, "solo") /\ Run(s)!Init
  /\ Calls!Init
  /\ scene # "phones" => \A p \in DOMAIN switched : switched[p]

Edits == scene = "editors" /\ Next /\ UNCHANGED <<scene, creating, posting, running, phoning>>
Creates == scene = "creation" /\ Creation!Next /\ UNCHANGED <<scene, vars, posting, running, phoning>>
Posts == (\E s \in BoardScenes : scene = s /\ Post(s)!Next) /\ UNCHANGED <<scene, vars, creating, running, phoning>>
Works == (\E s \in JobScenes : scene = s /\ Run(s)!Next) /\ UNCHANGED <<scene, vars, creating, posting, phoning>>
Rings == scene = "phones" /\ Calls!Next /\ UNCHANGED <<scene, vars, creating, posting, running>>

MCNext == Edits \/ Creates \/ Posts \/ Works \/ Rings

MCSpec == MCInit /\ [][MCNext]_<<scene, vars, creating, posting, running, phoning>>

-----------------------------------------------------------------------------
\* Every setting of a new character has a priority of its own (Creation).
PaidOnce == Creation!TypeOK /\ Creation!PaidOnce

\* Under a headline is its own text, with one author, and a reboot loses no post and brings
\* none back (Boards).
PostsSound == \A s \in BoardScenes : scene = s => Post(s)!PostsSound

\* Nothing of a run outlives it, and whoever is on one can end it (Quests).
RunsSound == \A s \in JobScenes : scene = s => Run(s)!RunsSound

\* A call is one call, and whoever is in it is on phone_list (Phones).
PhonesSound == Calls!PhonesSound

-----------------------------------------------------------------------------
(* The constants of the run.                                                *)

Every == DOMAIN Starts

MCPosters == [pair |-> [writers |-> {"player"} \cup Builder, ids |-> {1, 2}], alone |-> [writers |-> Builder, ids |-> {1, 2, 3}]]

Goal(load, goal) == [load |-> load, goal |-> goal]

MCJobs ==
  [solo |-> [runners |-> {"ann"}, johnsons |-> {"jim", "joe"}, first |-> <<1, 3>>, giver |-> <<"jim", "jim", "joe">>,
             goals |-> << <<Goal("placed", "kill")>>, <<Goal("follows", "escort"), Goal("given", "bring")>>,
                          <<Goal("placed", "destroy"), Goal("none", "carry")>> >>,
             unpaid |-> {2}, suits |-> << {"ann"}, {"ann"}, {"ann"} >>, timer |-> 1],
   duo |-> [runners |-> {"ann", "bob"}, johnsons |-> {"jim"}, first |-> <<1, 2>>, giver |-> <<"jim", "jim">>,
            goals |-> << <<Goal("placed", "kill")>>, <<Goal("given", "bring")>> >>,
            unpaid |-> {}, suits |-> << {"ann", "bob"}, {"ann"} >>, timer |-> 0]]

\* The numbers of two houses differ, and are written the same without their zeros.
MCNumber ==
  [r \in {"p", "h", "k", "d"} |-> CASE r = "h" -> 10010 [] r = "k" -> 1001 [] r = "p" -> 2 [] r = "d" -> 4]
MCShort == [r \in {"h", "k"} |-> 11]

=============================================================================
