------------------------------ MODULE Combat ------------------------------
(***************************************************************************)
(* The fights of fight.cpp: the list combat_list of the characters who     *)
(* fight, what set_fighting, stop_fighting, damage and extract_char do to  *)
(* it, and perform_violence, which walks it with the next fighter cached   *)
(* in next_combat_list while the blows it deals take fighters off the list *)
(* and put new ones at its head.                                           *)
(*                                                                         *)
(* An operator from a state of the fights to the set of states it may      *)
(* leave stands for a C++ function whose outcome depends on dice, on       *)
(* equipment or on who sees whom.                                          *)
(***************************************************************************)
EXTENDS FiniteSets

CONSTANTS
  Char,      \* cells of characters
  Mob,       \* those that hold mobiles: the others are players
  Melee,     \* those who fight without a ranged weapon
  Partner,   \* who assists whom: leader or follower with PRF_ASSIST, or NULL
  Room,      \* rooms, all next to each other
  Hospital,  \* the room where DocWagon, the void and the gods put people
  Parked,    \* the room of the vehicle they may attack
  NULL

ASSUME CombatAssumption ==
  /\ IsFiniteSet(Char) /\ Mob \subseteq Char /\ Melee \subseteq Char
  /\ NULL \notin Char
  /\ Partner \in [Char -> Char \cup {NULL}]
  /\ \A c \in Char : Partner[c] # NULL => Partner[Partner[c]] = c /\ Partner[c] # c
  /\ Hospital \in Room /\ Parked \in Room /\ {"menu", "pool"} \cap Room = {}

(***************************************************************************)
(* f.list        who is on combat_list                                     *)
(* f.ahead       the order of combat_list: pairs of one ahead of another   *)
(* f.next        next_combat_list                                          *)
(* f.fighting    FIGHTING(ch)                                              *)
(* f.fveh        FIGHTING_VEH(ch) is set                                   *)
(* f.approach    AFF_APPROACH                                              *)
(* f.pos         "standing", "fighting", or "down": POS_STUNNED and below  *)
(* f.well        update_pos would let the character stand                  *)
(* f.place       in_room; "menu": a player who left the game; "pool": a    *)
(*               mobile whose cell was given back                          *)
(* f.due         history: who has not had a turn of this round             *)
(* f.broken      history: "cut" once a cell that is on the list has been   *)
(*               cleared, "ghost" once somebody attacks a character who    *)
(*               has left; no behaviour is followed further                *)
(***************************************************************************)
VARIABLE f

Whereabouts == Room \cup {"menu", "pool"}

FightType ==
  [list: SUBSET Char, ahead: SUBSET (Char \X Char), next: Char \cup {NULL},
   fighting: [Char -> Char \cup {NULL}], fveh: [Char -> BOOLEAN],
   approach: [Char -> BOOLEAN], pos: [Char -> {"standing", "fighting", "down"}],
   well: [Char -> BOOLEAN], place: [Char -> Whereabouts],
   due: SUBSET Char, broken: {"", "cut", "ghost"}]

TypeOK == f \in FightType

InWorld(g, c)     == g.place[c] \in Room
SameRoom(g, c, d) == g.place[c] = g.place[d]
Busy(g, c)        == g.fighting[c] # NULL \/ g.fveh[c]

\* fn with the value v for all of S.
Put(fn, S, v) == [c \in Char |-> IF c \in S THEN v ELSE fn[c]]

\* The first of combat_list among S.
FirstOf(g, S) ==
  IF \E c \in S : \A d \in S \ {c} : <<c, d>> \in g.ahead
  THEN CHOOSE c \in S : \A d \in S \ {c} : <<c, d>> \in g.ahead
  ELSE NULL

Behind(g, c) == {d \in g.list : <<c, d>> \in g.ahead}

Init ==
  \E rooms \in [Char -> Room] :
    f = [list |-> {}, ahead |-> {}, next |-> NULL,
         fighting |-> [c \in Char |-> NULL], fveh |-> [c \in Char |-> FALSE],
         approach |-> [c \in Char |-> FALSE], pos |-> [c \in Char |-> "standing"],
         well |-> [c \in Char |-> TRUE], place |-> rooms,
         due |-> {}, broken |-> ""]

-----------------------------------------------------------------------------
(***************************************************************************)
(* Joining and leaving the list.                                           *)
(***************************************************************************)

\* The position update_pos leaves somebody in who does not fight.
Posture(well) == IF well THEN "standing" ELSE "down"

\* Mutant: next_combat_list is not moved off somebody who leaves the list.
NextAfter_Kept(g, S) == g.next
NextAfter(g, S) == IF g.next \in S THEN FirstOf(g, Behind(g, g.next) \ S) ELSE g.next

\* Mutant: FIGHTING_VEH is not cleared.
VehAfter_Kept(g, S) == g.fveh
VehAfter(g, S) == Put(g.fveh, S, FALSE)

ApproachAfter(g, S) == Put(g.approach, S, FALSE)

\* stop_fighting of everybody in S.
Stop(g, S) ==
  [g EXCEPT
     !.next     = NextAfter(g, S),
     !.list     = @ \ S,
     !.ahead    = {p \in @ : p[1] \notin S /\ p[2] \notin S},
     !.fighting = Put(@, S, NULL),
     !.fveh     = VehAfter(g, S),
     !.approach = ApproachAfter(g, S),
     !.pos      = [c \in Char |-> IF c \in S THEN Posture(g.well[c]) ELSE g.pos[c]],
     !.due      = @ \ S]

StopIf(g, c) == IF g.fighting[c] # NULL THEN Stop(g, {c}) ELSE g

\* Mutant: the newcomer is put at the end.
InFront_Behind(g, c) == (g.list \ {c}) \X {c}
InFront(g, c) == {c} \X (g.list \ {c})

Push(g, c) ==
  [g EXCEPT !.list = @ \cup {c}, !.ahead = @ \cup InFront(g, c),
            !.pos = Put(@, {c}, "fighting")]

\* set_fighting before the assistants are called.
Start(g, c, v) ==
  IF c = v \/ Busy(g, c) THEN g
  ELSE [Push(g, c) EXCEPT !.fighting = Put(@, {c}, v),
                          !.approach = Put(@, {c} \cap Melee, TRUE)]

StartVeh(g, c) == IF Busy(g, c) THEN g ELSE [Push(g, c) EXCEPT !.fveh = Put(@, {c}, TRUE)]

\* Whom do_assist attacks: somebody here who fights c, or else whom c fights.
Opponents(g, c) ==
  LET foes == {d \in Char : g.fighting[d] = c /\ SameRoom(g, c, d)}
  IN  IF foes # {} THEN foes ELSE {g.fighting[c]} \ {NULL}

\* Who assists c: a companion in the room, awake and not FIGHTING.
Assistants(g, c) ==
  {h \in Char : /\ h = Partner[c] /\ SameRoom(g, h, c)
                /\ g.fighting[h] = NULL /\ g.pos[h] # "down"}

\* The assistant of c joins, and nobody has to be called for the one it attacks.
Assisted(g, c) ==
  {g} \cup {Start(g, p[1], p[2]) : p \in Assistants(g, c) \X Opponents(g, c)}

\* The assistant joins, the one it attacks turns on it and calls an assistant.
Turned(g, h, o) ==
  IF g.fighting[o] # NULL \/ o = h THEN {g} ELSE Assisted(Start(g, o, h), o)

Joined(g, c) ==
  {g} \cup UNION {Turned(Start(g, p[1], p[2]), p[1], p[2]) :
                    p \in Assistants(g, c) \X Opponents(g, c)}

SetFighting(g, c, v) ==
  IF c = v \/ Busy(g, c) THEN {g} ELSE Joined(Start(g, c, v), c)

SetFightingVeh(g, c) ==
  IF Busy(g, c) THEN {g} ELSE Joined(StartVeh(g, c), c)

\* d fights back, unless it is fighting already.
FightsBack(S, c, d) ==
  UNION {IF g.fighting[d] = NULL THEN SetFighting(g, d, c) ELSE {g} : g \in S}

-----------------------------------------------------------------------------
(***************************************************************************)
(* Leaving the room and the game.                                          *)
(***************************************************************************)

\* char_from_room and char_to_room.
Relocate(g, c, room) == [StopIf(g, c) EXCEPT !.place[c] = room]

\* Clearing the cell of somebody who is on the list ends the list there.
Cleared(g, c) ==
  IF c \in g.list
  THEN [g EXCEPT !.list = @ \ Behind(g, c), !.broken = "cut"]
  ELSE g

\* Mutant: those who shoot from another room are not asked to stop.
Attackers_Here(g, c) == {k \in g.list : g.fighting[k] = c /\ SameRoom(g, k, c)}
Attackers(g, c) == {k \in g.list : g.fighting[k] = c}

ExtractChar(g, c) ==
  LET s == StopIf(g, c)
      t == Stop(s, Attackers(s, c))
  IN  IF c \notin Mob THEN [t EXCEPT !.place[c] = "menu"]
      ELSE [Cleared(t, c) EXCEPT !.place[c] = "pool", !.fveh = Put(@, {c}, FALSE),
              !.approach = Put(@, {c}, FALSE), !.pos = Put(@, {c}, "standing"), !.well[c] = TRUE]

\* Aggressive mobiles attack whoever walks in: the last of them is c's new foe.
Noticed(g, c) ==
  {g} \cup UNION {SetFighting(g, m, c) :
                    m \in {m \in Mob \ {c} : SameRoom(g, m, c) /\ g.fighting[m] = NULL}}

\* do_flee: a step into another room.  Those who fought c in the old room hit after it: who
\* has no ranged weapon stops, and one who has a gun makes c fight back.
Flee(g, c) ==
  {g} \cup
  UNION {LET foes == {d \in Char : s.fighting[d] = c /\ g.place[d] = g.place[c]}
         IN  UNION {{Stop(s, A)} \cup UNION {SetFighting(Stop(s, A), c, d) : d \in foes \ Melee}
                      : A \in SUBSET (foes \cap Melee)} :
           s \in UNION {Noticed(Relocate(g, c, r), c) : r \in Room \ {g.place[c]}}}

-----------------------------------------------------------------------------
(***************************************************************************)
(* Blows.                                                                  *)
(***************************************************************************)

\* What the end of damage() does when v falls: c and v stop.
Felled(g, c, v) ==
  LET s == [g EXCEPT !.well[v] = FALSE, !.pos = Put(@, {v}, "down")]
      t == IF s.fighting[c] = v THEN Stop(s, {c}) ELSE s
  IN  StopIf(t, v)

\* docwagon() carries a mortally wounded player away, and the one he fights stops if
\* they fought each other.
Rescued(g, c, v) ==
  LET w == g.fighting[v]
      s == IF w # NULL /\ g.fighting[w] = v THEN Stop(g, {w}) ELSE g
  IN  Relocate(Felled(s, c, v), v, Hospital)

\* A wound of v dealt by c: none that matters, flight, a fall, a rescue, death.
Wound(g, c, v) ==
  {g, Felled(g, c, v), ExtractChar(Felled(g, c, v), v)}
  \cup (IF v \in Mob THEN {} ELSE {Rescued(g, c, v)})
  \cup (IF c = v THEN {} ELSE Flee(g, v))

Charmed(c, v) ==
  /\ v \in Mob /\ c \notin Mob
  /\ Partner[v] \notin Mob \cup {NULL, c}

\* Both sides of a blow begin to fight.
Engaged(g, c, v) ==
  UNION {IF h.pos[v] # "down" /\ SameRoom(h, c, v) THEN FightsBack({h}, c, v) ELSE {h} :
           h \in IF g.pos[c] # "down" /\ g.fighting[c] = NULL THEN SetFighting(g, c, v) ELSE {g}}

\* The blow meets the master of a charmed mobile instead.
MasterSteps(g, c, v) ==
  IF ~Charmed(c, v) \/ ~SameRoom(g, c, Partner[v]) THEN {}
  ELSE UNION {FightsBack(SetFighting(StopIf(h, c), c, Partner[v]), c, Partner[v]) :
                h \in SetFighting(g, c, v)}

\* A player without a link is not hurt, and taken away when he does not fight.
Linkless(g, v) ==
  IF v \in Mob THEN {}
  ELSE {IF g.fighting[v] = NULL THEN Relocate(g, v, Hospital) ELSE g}

Damage(g, c, v) ==
  IF c = v THEN Wound(g, c, c)
  ELSE MasterSteps(g, c, v)
       \cup UNION {Linkless(h, v) \cup Wound(h, c, v) : h \in Engaged(g, c, v)}

\* A blow of c at v: out of reach, out of ammunition, or dealt; then recoil or drain.
Hit(g, c, v) ==
  {g, Stop(g, {c} \cup {d \in {v} : g.fighting[d] = c /\ ~SameRoom(g, c, d)})}
  \cup (IF SameRoom(g, c, v) /\ g.pos[v] # "down" THEN FightsBack({g}, c, v) ELSE {})
  \cup (IF ~SameRoom(g, c, v) /\ c \in Melee THEN {}
        ELSE UNION {{h} \cup (IF InWorld(h, c) THEN Damage(h, c, c) ELSE {}) : h \in Damage(g, c, v)})

\* ranged_response: v answers the distant shooter c, who may have left the world by then.
RangedResponse(g, c, v) ==
  IF SameRoom(g, c, v) \/ g.pos[v] = "down" \/ ~InWorld(g, v) THEN {g}
  ELSE LET s == [g EXCEPT !.pos = IF g.pos[v] = "fighting" THEN @ ELSE Put(@, {v}, "standing")]
       IN  {s} \cup (IF v \in Mob THEN Flee(s, v) ELSE {})
           \cup (IF s.fighting[v] # NULL THEN {}
                 ELSE IF ~InWorld(s, c)
                 THEN IF v \in Melee THEN {}
                      ELSE {[h EXCEPT !.broken = "ghost"] : h \in SetFighting(s, v, c)}
                 ELSE SetFighting(Relocate(s, v, s.place[c]), v, c)
                      \cup (IF v \in Melee THEN {} ELSE SetFighting(s, v, c)))

-----------------------------------------------------------------------------
(***************************************************************************)
(* Commands and events between two rounds.                                 *)
(***************************************************************************)

Becomes(S) == f' \in S

\* Nobody's turn: the server runs commands and other events.
Idle == f.next = NULL /\ f.broken = ""

Acts(c) == Idle /\ InWorld(f, c) /\ f.pos[c] # "down"

\* perform_hit at somebody here, and mobiles that attack; one asleep does not fight back.
DoHit(c, v) ==
  /\ Acts(c) /\ c # v /\ InWorld(f, v) /\ SameRoom(f, c, v) /\ f.fighting[c] # v
  /\ LET S == SetFighting(StopIf(f, c), c, v)
     IN  Becomes(S \cup (IF f.pos[v] = "down" THEN {} ELSE FightsBack(S, c, v)))

\* perform_hit at a vehicle, and mobiles that attack one.
DoHitVeh(c) == /\ Acts(c) /\ f.place[c] = Parked
               /\ Becomes(SetFightingVeh(f, c))

DoAssist(c, h) ==
  /\ Acts(c) /\ c # h /\ SameRoom(f, c, h) /\ f.fighting[c] = NULL
  /\ \E o \in Opponents(f, h) : Becomes(FightsBack(SetFighting(f, c, o), c, o))

DoFlee(c) == Acts(c) /\ Becomes(Flee(f, c))

\* Walking: not while fighting.
Walk(c) ==
  /\ Acts(c) /\ f.pos[c] = "standing"
  /\ \E r \in Room \ {f.place[c]} : Becomes(Noticed(Relocate(f, c, r), c))

\* range_combat with a gun: the shooter leaves his fight and shoots into the next room.
Shoot(c, v) ==
  /\ Acts(c) /\ c \notin Melee /\ InWorld(f, v) /\ ~SameRoom(f, c, v)
  /\ Becomes(UNION {RangedResponse(h, c, v) : h \in Hit(StopIf(f, c), c, v)})

\* The rigger's and the idler's way out: he and the one he fights stop, and he is moved.
Void(c) ==
  /\ Idle /\ c \notin Mob /\ InWorld(f, c)
  /\ LET s == IF f.fighting[c] # NULL THEN Stop(f, {c, f.fighting[c]}) ELSE f
     IN  Becomes({Relocate(s, c, Hospital)})

\* unequip_char: who loses the weapon in his hand has to close the distance again.
LoseWeapon(c) ==
  /\ Idle /\ InWorld(f, c) /\ f.fighting[c] # NULL
  /\ f' = [f EXCEPT !.approach = Put(@, {c}, TRUE)]

\* raw_kill, do_die, drain, do_purge: somebody leaves the world.
Die(c)  == Idle /\ InWorld(f, c) /\ f' = ExtractChar(f, c)

\* do_quit.
DoQuit(c) == Acts(c) /\ c \notin Mob /\ f.pos[c] # "fighting" /\ f' = ExtractChar(f, c)

\* The world menu: reset_char, and the character is put into a room.
EnterGame(c) ==
  /\ Idle /\ f.place[c] = "menu"
  /\ \E r \in Room :
       f' = [Cleared(f, c) EXCEPT !.fighting = Put(@, {c}, NULL), !.well[c] = TRUE,
                                  !.pos = Put(@, {c}, "standing"), !.place[c] = r]

\* read_mobile takes the cell from the pool.
NewMob(c) == /\ Idle /\ f.place[c] = "pool"
             /\ \E r \in Room : f' = [f EXCEPT !.place[c] = r]

\* Wounds heal, and update_pos lets the character stand.
Recover(c) ==
  /\ Idle /\ InWorld(f, c) /\ ~f.well[c]
  /\ f' = [f EXCEPT !.well[c] = TRUE,
                    !.pos = IF f.pos[c] = "down" THEN Put(@, {c}, "standing") ELSE @]

-----------------------------------------------------------------------------
(***************************************************************************)
(* The round.                                                              *)
(***************************************************************************)

\* All ways to put S in a row.
Orders(S) ==
  {R \in SUBSET {p \in S \X S : p[1] # p[2]} :
     /\ \A c, d \in S : c # d => (<<c, d>> \in R <=> <<d, c>> \notin R)
     /\ \A a, b, c \in S : <<a, b>> \in R /\ <<b, c>> \in R => <<a, c>> \in R}

\* order_list, roll_initiative, and the start of the walk of perform_violence.
StartRound ==
  /\ Idle /\ f.list # {}
  /\ \E R \in Orders(f.list) :
       LET g == [f EXCEPT !.ahead = R]
       IN  f' = [g EXCEPT !.next = FirstOf(g, g.list), !.due = g.list]

\* The distance to the foe: nobody keeps it, c closes it, or c fails to.
Closing(g, c) ==
  LET foe == g.fighting[c]
  IN  IF g.approach[foe] \/ g.pos[foe] # "fighting"
      THEN {[g EXCEPT !.approach = Put(@, {c, foe}, FALSE)]}
      ELSE {g, [g EXCEPT !.approach = Put(@, {c}, FALSE)]}

\* vcombat: out of ammunition, no effect, or rammed by the vehicle.
AttackVeh(g, c) ==
  IF g.place[c] # Parked THEN {Stop(g, {c})}
  ELSE {g, Stop(g, {c})} \cup Wound(g, c, c)

Attack(g, c) ==
  IF g.approach[c] THEN {g}
  ELSE IF g.fveh[c] THEN AttackVeh(g, c) ELSE Hit(g, c, g.fighting[c])

\* One round of the loop.  next_combat_list is set before anything else happens; a fighter
\* whose initiative is too low does nothing.
Turn(c) ==
  /\ f.broken = "" /\ f.next = c
  /\ LET g == [f EXCEPT !.next = FirstOf(f, Behind(f, c)), !.due = @ \ {c}]
     IN  IF ~Busy(g, c) \/ g.pos[c] = "down" THEN f' = Stop(g, {c})
         ELSE Becomes({g} \cup UNION {Attack(h, c) :
                                        h \in IF g.approach[c] THEN Closing(g, c) ELSE {g}})

Round == \E c \in Char : Turn(c)

-----------------------------------------------------------------------------
\* The process does not get past a list that is cut or a pointer to somebody gone.
Halted == f.broken # "" /\ UNCHANGED f

Commands ==
  \/ \E c, v \in Char : DoHit(c, v) \/ DoAssist(c, v) \/ Shoot(c, v)
  \/ \E c \in Char : \/ DoHitVeh(c) \/ DoFlee(c) \/ Walk(c) \/ Void(c) \/ LoseWeapon(c)
                     \/ Die(c) \/ DoQuit(c) \/ EnterGame(c) \/ NewMob(c) \/ Recover(c)

Next == Commands \/ StartRound \/ Round \/ Halted

Spec == Init /\ [][Next]_f

-----------------------------------------------------------------------------
(***************************************************************************)
(* Properties.                                                             *)
(***************************************************************************)

Sound == f.broken = ""

\* combat_list holds exactly the characters who attack somebody or something, each once, in
\* one order: what set_fighting puts on it, stop_fighting takes off it, whoever dies, flees,
\* is rescued, quits or is dragged into a fight while perform_violence walks the list.
ListExact ==
  Sound => /\ f.list = {c \in Char : Busy(f, c)}
           /\ \A c, d \in f.list : c # d => (<<c, d>> \in f.ahead <=> <<d, c>> \notin f.ahead)
           /\ \A p \in f.ahead : p[1] \in f.list /\ p[2] \in f.list /\ p[1] # p[2]

\* The same with every field of its type.
ListSound == TypeOK /\ ListExact

\* FIGHTING(ch) is somebody else, and both are in the world: a fighter killed, rescued or
\* gone by the time a blow lands leaves nobody attacking his cell.
TargetsLive ==
  Sound => \A c \in Char : f.fighting[c] # NULL =>
             /\ f.fighting[c] # c
             /\ InWorld(f, c) /\ InWorld(f, f.fighting[c])

\* Those whose turn perform_violence has still to come to.
Remaining(g) == IF g.next = NULL THEN {} ELSE {g.next} \cup Behind(g, g.next)

\* next_combat_list, which every blow may move, never loses its place: those it has still to
\* come to are all who joined before the round, stayed on the list and have had no turn.
NobodySkipped == Sound => f.due = Remaining(f)

\* perform_violence reads the position of FIGHTING(ch) of everybody who has to close the
\* distance: nobody with AFF_APPROACH attacks nobody, or a vehicle.
ApproachHasFoe ==
  Sound => \A c \in f.list : f.approach[c] => f.fighting[c] # NULL

\* Whoever fights has somebody to fight.
FoesSound == TargetsLive /\ ApproachHasFoe

\* A round ends: every turn takes somebody off those still to come, and nobody who joins the
\* fight, or who stopped and joined it again, is put among them.
RoundShrinks ==
  [][f.next # NULL /\ Sound /\ Sound' =>
       Remaining(f') \subseteq Remaining(f) /\ f.next \notin Remaining(f')]_f

=============================================================================
