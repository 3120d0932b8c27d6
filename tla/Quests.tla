-------------------------------- MODULE Quests --------------------------------
(***************************************************************************)
(* The runs johnsons give.  A johnson has a quest on offer (GET_SPARE2, an *)
(* index of quest_table) and a state of the conversation (GET_SPARE1), and *)
(* remembers by idnum whom he has spoken with.  A player who accepts gets  *)
(* the index as his quest number, a counter for every objective, and the   *)
(* mobiles and items of the run, which carry his idnum; what kills, gives, *)
(* drops, destroys or leads somebody home counts for him or for the leader *)
(* of his group.  end_quest takes everything away again.                   *)
(*                                                                         *)
(* The builders' qedit inserts quests into the table and rewrites them     *)
(* while runs are on.  When that moves or replaces the quest of a runner,  *)
(* spoilt is set and the model stops: the numbers and counters of the      *)
(* runner then belong to another quest.                                    *)
(***************************************************************************)
EXTENDS Integers, Sequences, FiniteSets, Functions

CONSTANTS
  Runner,    \* players
  Johnson,   \* mobiles with the special procedure
  Job,       \* vnums of quests
  First,     \* quest_table at boot, in order: one quest at least of every johnson
  Giver,     \* the johnson of a quest
  Goals,     \* its objectives: what is loaded for them, and what has to be done
  IpZone,    \* quests of zones that pay nothing
  Suits,     \* who has a reputation within the bounds of a quest
  Timer,     \* QUEST_TIMER
  Most,      \* bound of the model: of the counters of deeds
  None

QuestsAssumption ==
  /\ First \in Seq(Job) /\ First # <<>>
  /\ \A v \in Job : None \notin [DOMAIN Goals[v] -> Nat]

VARIABLES
  table,     \* quest_table: vnums in order
  spare1,    \* -1: free to talk; 0: asked "are you interested?"; 1: telling the info
  spare2,    \* the index of the quest on offer
  memory,    \* whom a johnson remembers
  questnum,  \* GET_QUEST: an index, 0 for none
  complete,  \* mob_complete and obj_complete
  lquest,    \* GET_LQUEST: the last quests done
  place,     \* the room of a johnson, the street, or out of the game
  leader,    \* ch->master of somebody in a group
  targets,   \* mobiles and items with a quest_id: of whom, of which quest, for which objective
  left,      \* history: whose targets no quest number accounts for
  orphan,    \* history: whose run no johnson can end
  spoilt     \* history: the quest of a runner was moved or replaced

vars == <<table, spare1, spare2, memory, questnum, complete, lquest, place, leader, targets, left, orphan, spoilt>>

JobAt(n) == table[n + 1]
OnRun(r) == questnum[r] # 0
JobOf(r) == JobAt(questnum[r])
In(j) == { r \in Runner : place[r] = j }

Init ==
  /\ table = First
  /\ spare1 = [j \in Johnson |-> 0] /\ spare2 = [j \in Johnson |-> 0]
  /\ memory = [j \in Johnson |-> {}]
  /\ questnum = [r \in Runner |-> 0] /\ complete = [r \in Runner |-> None]
  /\ lquest = [r \in Runner |-> <<>>]
  /\ place = [r \in Runner |-> "street"] /\ leader = [r \in Runner |-> None]
  /\ targets = {} /\ left = {} /\ orphan = {} /\ spoilt = FALSE

-----------------------------------------------------------------------------
(* The offer of a johnson.                                                  *)

\* new_quest: another of his quests, if he has another.
new_quest(j, now) ==
  LET his == { n \in 0 .. Len(table) - 1 : Giver[JobAt(n)] = j } IN
  IF Cardinality(his) > 1 THEN his \ {now} ELSE his

\* handle_info: a part of the text, or its end, after which he may think of another quest.
handle_info(j) ==
  \/ spare1' = [spare1 EXCEPT ![j] = 1] /\ UNCHANGED spare2
  \/ /\ spare1' = [spare1 EXCEPT ![j] = -1]
     /\ \E n \in {spare2[j]} \cup new_quest(j, spare2[j]) : spare2' = [spare2 EXCEPT ![j] = n]

\* The pulse of a mobile.  A quest of index 0 counts as none.
Offer(j, talk, n) == spare1' = [spare1 EXCEPT ![j] = talk] /\ spare2' = [spare2 EXCEPT ![j] = n]

Idle(j) ==
  LET known == In(j) \cap memory[j]
      fresh == IF spare2[j] = 0 THEN new_quest(j, 0) ELSE {spare2[j]}
      talk == IF spare2[j] = 0 THEN -1 ELSE spare1[j] IN
  /\ \E n \in fresh :
       \/ talk = -1 /\ \E m \in {n} \cup new_quest(j, n) : Offer(j, -1, m)
       \/ talk >= 0 /\ known = {} /\ \E m \in new_quest(j, n) : Offer(j, -1, m)
       \/ talk >= 0 /\ (\E r \in known : ~OnRun(r)) /\ Offer(j, talk, n)
       \/ talk >= 0 /\ (\E r \in known : OnRun(r)) /\ handle_info(j)
  /\ UNCHANGED <<table, memory, questnum, complete, lquest, place, leader, targets, left, orphan, spoilt>>

-----------------------------------------------------------------------------
(* The end of a run.                                                        *)

Forget(j, r) == memory' = [memory EXCEPT ![j] = @ \ {r}]

\* Everything that carries the idnum, of earlier runs too.
extract_quest_targets(r) == { t \in targets : t[1] # r }

\* Mutant: the targets stay.
end_quest_Stays(r) ==
  /\ questnum' = [questnum EXCEPT ![r] = 0] /\ complete' = [complete EXCEPT ![r] = None]
  /\ left' = left \ {r} /\ orphan' = orphan \ {r} /\ UNCHANGED targets

end_quest(r) ==
  /\ targets' = extract_quest_targets(r)
  /\ questnum' = [questnum EXCEPT ![r] = 0] /\ complete' = [complete EXCEPT ![r] = None]
  /\ left' = left \ {r} /\ orphan' = orphan \ {r}

\* The quest of a zone that pays nothing is not ended, and the johnson forgets who did it.
reward(r) ==
  IF JobOf(r) \in IpZone
  THEN orphan' = orphan \cup {r} /\ UNCHANGED <<questnum, complete, targets, left>>
  ELSE end_quest(r)

-----------------------------------------------------------------------------
(* What a player says to a johnson.  Members of a group are not listened    *)
(* to, only its leader.                                                     *)

Hears(j, r) == place[r] = j /\ leader[r] = None

SayQuit(j, r) ==
  /\ Hears(j, r) /\ spare1[j] = -1 /\ OnRun(r) /\ r \in memory[j]
  /\ end_quest(r) /\ Forget(j, r)
  /\ UNCHANGED <<table, spare1, spare2, lquest, place, leader, spoilt>>

\* One objective is enough.
SayDone(j, r) ==
  /\ Hears(j, r) /\ spare1[j] = -1 /\ OnRun(r) /\ r \in memory[j]
  /\ \E i \in DOMAIN complete[r] : complete[r][i] > 0
  /\ LET longer == <<JobOf(r)>> \o lquest[r] IN
     lquest' = [lquest EXCEPT ![r] = SubSeq(longer, 1, IF Len(longer) > Timer THEN Timer ELSE Len(longer))]
  /\ reward(r) /\ Forget(j, r)
  /\ UNCHANGED <<table, spare1, spare2, place, leader, spoilt>>

\* rep_too_high and rep_too_low: of the player and of all who follow.
Suitable(r, v) == \A c \in {r} \cup { f \in Runner : leader[f] = r } : c \in Suits[v]

SayWork(j, r) ==
  /\ Hears(j, r) /\ spare1[j] = -1 /\ ~OnRun(r)
  /\ LET v == JobAt(spare2[j]) IN
     IF v \in Range(lquest[r]) \/ ~Suitable(r, v)
     THEN Forget(j, r) /\ UNCHANGED spare1
     ELSE spare1' = [spare1 EXCEPT ![j] = 0] /\ memory' = [memory EXCEPT ![j] = @ \cup {r}]
  /\ UNCHANGED <<table, spare2, questnum, complete, lquest, place, leader, targets, left, orphan, spoilt>>

\* Mobiles and items are loaded; what the johnson cannot hand over is destroyed.
load_quest_targets(r, v) ==
  LET of(load) == { <<r, v, i>> : i \in { k \in DOMAIN Goals[v] : Goals[v][k].load = load } } IN
  { of("placed") \cup of("follows") \cup given : given \in SUBSET of("given") }

\* Whoever is remembered and asked accepts what is on offer, heard before or not.
SayYes(j, r) ==
  /\ Hears(j, r) /\ spare1[j] = 0 /\ ~OnRun(r) /\ r \in memory[j]
  /\ LET v == JobAt(spare2[j]) IN
     /\ questnum' = [questnum EXCEPT ![r] = spare2[j]]
     /\ complete' = [complete EXCEPT ![r] = [i \in DOMAIN Goals[v] |-> 0]]
     /\ \E loaded \in load_quest_targets(r, v) : targets' = targets \cup loaded
     /\ left' = IF spare2[j] = 0 THEN left \cup {r} ELSE left
  /\ handle_info(j)
  /\ UNCHANGED <<table, memory, lquest, place, leader, orphan, spoilt>>

SayNo(j, r) ==
  /\ Hears(j, r) /\ spare1[j] = 0 /\ ~OnRun(r) /\ r \in memory[j]
  /\ spare1' = [spare1 EXCEPT ![j] = -1] /\ Forget(j, r)
  /\ UNCHANGED <<table, spare2, questnum, complete, lquest, place, leader, targets, left, orphan, spoilt>>

johnson(j) == Idle(j) \/ \E r \in Runner : SayQuit(j, r) \/ SayDone(j, r) \/ SayWork(j, r) \/ SayYes(j, r) \/ SayNo(j, r)

-----------------------------------------------------------------------------
(* Deeds.                                                                   *)

\* Who gets the credit: who is on a run himself, or else the leader.
Credited(r) == IF OnRun(r) THEN r ELSE leader[r]

\* It may be a target of whomever, or another of the same kind.
Lost(v, i) == { {} } \cup { {t} : t \in { x \in targets : x[2] = v /\ x[3] = i } }

\* A kill counts and takes a target; the other goals are met once.
Deed(r, goal, counts) ==
  LET w == Credited(r) IN
  /\ place[r] # "out" /\ w # None /\ OnRun(w)
  /\ \E i \in DOMAIN complete[w] :
       /\ Goals[JobOf(w)][i].goal = goal
       /\ complete[w][i] < Most
       /\ complete' = [complete EXCEPT ![w][i] = IF counts THEN @ + 1 ELSE 1]
       /\ \E gone \in IF counts THEN Lost(JobOf(w), i) ELSE { {} } : targets' = targets \ gone
  /\ UNCHANGED <<table, spare1, spare2, memory, questnum, lquest, place, leader, left, orphan, spoilt>>

check_quest_kill(r) == Deed(r, "kill", TRUE)
check_quest_destroy(r) == Deed(r, "destroy", TRUE)
check_quest_drop(r) == Deed(r, "carry", FALSE)
check_quest_destination(r) == OnRun(r) /\ Deed(r, "escort", FALSE)

\* Given to a johnson who remembers the runner.
check_quest_delivery(r) ==
  /\ Credited(r) # None
  /\ \E j \in Johnson : place[r] = j /\ Credited(r) \in memory[j]
  /\ Deed(r, "bring", FALSE)

\* Somebody else kills or junks a target.
Perish ==
  /\ \E t \in targets : targets' = targets \ {t}
  /\ UNCHANGED <<table, spare1, spare2, memory, questnum, complete, lquest, place, leader, left, orphan, spoilt>>

-----------------------------------------------------------------------------
(* Coming and going.                                                        *)

Walk(r) ==
  /\ place[r] # "out"
  /\ \E p \in (Johnson \cup {"street"}) \ {place[r]} : place' = [place EXCEPT ![r] = p]
  /\ UNCHANGED <<table, spare1, spare2, memory, questnum, complete, lquest, leader, targets, left, orphan, spoilt>>

Group(r, l) ==
  /\ r # l /\ place[r] # "out" /\ place[r] = place[l] /\ leader[l] = None
  /\ ~ \E f \in Runner : leader[f] = r
  /\ leader' = [leader EXCEPT ![r] = IF @ = None THEN l ELSE None]
  /\ UNCHANGED <<table, spare1, spare2, memory, questnum, complete, lquest, place, targets, left, orphan, spoilt>>

Departs(r) ==
  /\ place[r] # "out" /\ place' = [place EXCEPT ![r] = "out"]
  /\ leader' = [f \in Runner |-> IF f = r \/ leader[f] = r THEN None ELSE leader[f]]
  /\ UNCHANGED <<table, spare1, spare2, memory, lquest, spoilt>>

\* Players who quit, and who have been idle for long.
DoQuit(r) == Departs(r) /\ IF OnRun(r) THEN end_quest(r) ELSE UNCHANGED <<questnum, complete, targets, left, orphan>>

\* Players who rent, and who have no link: the character is loaded anew, the targets stay.
Rent(r) ==
  /\ Departs(r)
  /\ questnum' = [questnum EXCEPT ![r] = 0] /\ complete' = [complete EXCEPT ![r] = None]
  /\ left' = IF OnRun(r) THEN left \cup {r} ELSE left
  /\ orphan' = orphan \ {r} /\ UNCHANGED targets

Enter(r) ==
  /\ place[r] = "out" /\ place' = [place EXCEPT ![r] = "street"]
  /\ UNCHANGED <<table, spare1, spare2, memory, questnum, complete, lquest, leader, targets, left, orphan, spoilt>>

\* A johnson is killed or purged; the zone loads a new one.
Replace(j) ==
  /\ Offer(j, 0, 0) /\ memory' = [memory EXCEPT ![j] = {}]
  /\ orphan' = orphan \cup { r \in memory[j] : OnRun(r) /\ \A k \in Johnson \ {j} : r \notin memory[k] }
  /\ UNCHANGED <<table, questnum, complete, lquest, place, leader, targets, left, spoilt>>

-----------------------------------------------------------------------------
(* The builders.                                                            *)

\* The quests behind the new one move up, the numbers of the runners do not.
boot_one_quest(v) ==
  LET at == Cardinality({ w \in Range(table) : w < v }) IN
  /\ v \notin Range(table)
  /\ table' = SubSeq(table, 1, at) \o <<v>> \o SubSeq(table, at + 1, Len(table))
  /\ spoilt' = \E r \in Runner : OnRun(r) /\ questnum[r] >= at
  /\ UNCHANGED <<spare1, spare2, memory, questnum, complete, lquest, place, leader, targets, left, orphan>>

\* A quest that is being run gets other objectives; the counters are as many as before.
reboot_quest(v) ==
  /\ \E r \in Runner : OnRun(r) /\ JobOf(r) = v
  /\ spoilt' = TRUE
  /\ UNCHANGED <<table, spare1, spare2, memory, questnum, complete, lquest, place, leader, targets, left, orphan>>

-----------------------------------------------------------------------------
Deeds(r) ==
  \/ check_quest_kill(r) \/ check_quest_destroy(r) \/ check_quest_drop(r)
  \/ check_quest_destination(r) \/ check_quest_delivery(r)

Runs ==
  \/ \E j \in Johnson : johnson(j) \/ Replace(j)
  \/ \E r \in Runner : Deeds(r) \/ Walk(r) \/ DoQuit(r) \/ Rent(r) \/ Enter(r) \/ \E l \in Runner : Group(r, l)
  \/ Perish
  \/ \E v \in Job : boot_one_quest(v) \/ reboot_quest(v)

Next == (~spoilt /\ Runs) \/ (spoilt /\ UNCHANGED vars)

Spec == Init /\ [][Next]_vars

-----------------------------------------------------------------------------
(* Properties.                                                              *)

\* Nothing of a run outlives it: a mobile or an item with the idnum of a player belongs to
\* the quest he is on, unless an earlier run was lost by renting, a broken link or index 0.
TargetsOwned ==
  ~spoilt => \A t \in targets : t[1] \in left \/ (OnRun(t[1]) /\ JobOf(t[1]) = t[2])

\* Whoever is on a run can end it: some johnson remembers him, whatever was said to whom in
\* which order, unless the johnson has died or the quest pays nothing.
Discharged ==
  \A r \in Runner : OnRun(r) => r \in orphan \/ \E j \in Johnson : r \in memory[j]

\* The deeds of a run are counted in an array of its length.
CountsFit ==
  ~spoilt => \A r \in Runner : OnRun(r) => complete[r] # None /\ DOMAIN complete[r] = DOMAIN Goals[JobOf(r)]

RunsSound == TargetsOwned /\ Discharged /\ CountsFit

=============================================================================
