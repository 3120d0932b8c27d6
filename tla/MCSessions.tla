---------------------------- MODULE MCSessions ----------------------------
(***************************************************************************)
(* Small instances of Sessions: two or three connections, up to three      *)
(* players known at boot, a handful of cells, and scenarios that each      *)
(* enable the commands which interfere with each other.                    *)
(***************************************************************************)
EXTENDS Sessions, TLC

CONSTANTS d1, d2, d3, c1, c2, c3, c4, c5, c6

VARIABLE lent   (* history: who began to snoop from a body that is not his own *)

\* The administrators who snoop: a bound on that scene is that none of them loses
\* the link while he plays.  A lost link ends his snooping (SnoopSound).
Snoopers == {"snoop", "kill"} \cap scenario.commands = {"snoop"}

MCInit == Init /\ lent = {}

MCNext ==
  /\ Next
  /\ lent' = { d \in Desc : /\ game'.snooping[d] # NULL
                           /\ IF game'.snooping[d] = game.snooping[d] THEN d \in lent
                              ELSE game.original[d] # NULL }
  /\ Snoopers => \A d \in Desc : game.state[d] \in InGame => game'.state[d] # "FREE"

MCSpec == MCInit /\ [][MCNext]_<<vars, lent>>

DescSymmetry == Permutations(Desc)

MCLevel == [n \in Name |-> CASE n = "wizard" -> LVL_EXECUTIVE
                             [] n = "vicepres" -> LVL_DEVELOPER + 1
                             [] n = "implementor" -> LVL_PRESIDENT
                             [] OTHER -> 1]

MCInitId == [n \in Name |->
               CASE n = "wizard" -> 1 [] n = "implementor" -> 2
                 [] n = "player" -> 3 [] OTHER -> 4]

Scene(commands, gives, cells) == [commands |-> commands, gives |-> gives, cells |-> cells]

\* Everybody may give any of these names.
Anyone(commands, names) == Scene(commands, [d \in Desc |-> names], Cell)

\* Each connection is one administrator's, in every way to deal them out.
OneNameEach ==
  {g \in [Desc -> {{"wizard"}, {"vicepres"}, {"implementor"}}] :
     \A d, e \in Desc : d # e => g[d] # g[e]}

\* Two connections.
PairScenes ==
  { Anyone({"quit", "switch", "return", "snoop", "kill"}, {"player", "wizard"}),
    Anyone({"create", "delete", "quit"}, {"player"}),
    Anyone({"project", "edit", "idle", "rent", "return", "kill"}, {"player"}),
    Anyone({"switch", "return", "dc", "purge", "copyover"}, {"player", "implementor"}) }

\* Three connections: of one player in and out of a projected body (a cell for
\* each password prompt, for the body in the game and for the projection), and
\* of three administrators of different levels who snoop each other and switch
\* into a mobile that its builder put above all of them.
TrioScenes ==
  { Scene({"quit", "project", "return"}, [d \in Desc |-> {"player"}], {c1, c2, c3, c4, c5}) }
  \cup {Scene({"snoop", "switch", "return"}, g, {c1, c2, c3, c4}) : g \in OneNameEach}

-----------------------------------------------------------------------------
\* Nobody snoops himself through others, as long as nobody in the circle began
\* to snoop from a body he had switched into: write_to_output copies what is sent
\* to a snooped descriptor on to the snooper, so a circle would feed itself.
\* do_snoop refuses a circle of two; longer ones are kept out by the levels, those
\* of the victim's player and of the *body* the snooper is in.  From a mobile of a
\* high level a circle can be closed.  Switching and returning later opens none.
SnoopAcyclic ==
  \A S \in SUBSET (Open(game) \ lent) :
    S # {} => \E d \in S : game.snooping[d] \notin S

\* A player owns one body and one session, and plays no other: but not where
\* characters are created twice under one name, and not where an implementor
\* may occupy a player's body while the player is away.
Ordinary == {"create", "switch"} \cap scenario.commands = {}

OwnersInOrder == Ordinary => OneBodyPerPlayer /\ OneSessionPerPlayer /\ OwnBody
===========================================================================
