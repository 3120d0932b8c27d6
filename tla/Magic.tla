------------------------------- MODULE Magic -------------------------------
(***************************************************************************)
(* Sustained spells.  A spell that lasts leaves two entries: one on the    *)
(* victim (caster FALSE, sustained_by the caster) and one on the caster    *)
(* (caster TRUE, sustained_by the victim), and counts in the caster's      *)
(* GET_SUSTAINED.  Nothing but the pair (type, sustained_by) ties the two  *)
(* together: affect_remove finds the other entry by searching the list of  *)
(* characters for whoever carries the number, and a mobile's number is its *)
(* prototype's, which it shares with its likes.                            *)
(*                                                                         *)
(* m.aff[c] is ch->affected, head first; m.list is character_list.         *)
(* Dice are nondeterministic; a cast that fails changes nothing and is a   *)
(* stutter.  Spell locks, astral bodies and vehicles are left out.         *)
(***************************************************************************)
EXTENDS Integers, SequencesExt

CONSTANTS
  Char,         \* characters
  Mob,          \* those that are mobiles
  Id,           \* GET_IDNUM of a player, minus the prototype of a mobile
  Room,
  Sight,        \* pairs of rooms: who stands in the first sees the second
  MaxAffect,    \* MAX_AFFECT
  Scenes,       \* bounds: the spells of a behaviour, who comes, who of them
                \* follows or conjures (led) or is poisoned by food or drink
                \* (thirst), and the rooms they walk; skill is each one's
                \* SKILL_SORCERY
  SusMax, Dark, \* bounds: of the counts, and of the light taken off a room
  None

Player == Char \ Mob

ASSUME MagicAssumption ==
  /\ Mob \subseteq Char
  /\ \A c \in Char : Id[c] \in Int /\ (c \in Mob <=> Id[c] < 0) /\ Id[c] # 0
  /\ \A c, d \in Player : Id[c] = Id[d] => c = d
  /\ Sight \subseteq Room \X Room /\ \A r \in Room : <<r, r>> \in Sight
  /\ \A k \in Scenes : k.skill \in [Char -> Nat]
  /\ MaxAffect \in Nat \ {0}
  /\ None \notin Char \cup Room

\* One spell of each sort the handlers tell apart.
Health == {"heal", "antidote"}
Spell  == Health \cup {"poison", "invis", "influence", "petrify", "chaos",
                        "world", "detect", "light"}

\* Chaotic world is stored as chaos.
Stored(t) == IF t = "world" THEN "chaos" ELSE t

Entry == [type : Spell \ {"world"}, caster : BOOLEAN,
          by : {Id[c] : c \in Char} \cup {0}]

VARIABLE m

Nobody == [c \in Char |-> None]

\* crashed: the server has recursed itself to death; full: history, whose
\* list was full when an entry was put there; unpaid: history, pairs of
\* players: the first does not pay for a spell on the second, since a
\* caster's entry was taken off by itself.
Init ==
  \E k \in Scenes :
    m = [scene |-> k, list |-> <<>>, room |-> Nobody, master |-> Nobody,
         aff |-> [c \in Char |-> <<>>], sus |-> [c \in Char |-> 0],
         light |-> [r \in Room |-> 0], charm |-> {}, full |-> {},
         unpaid |-> {}, crashed |-> FALSE]

InGame(s) == ToSet(s.list)
Present(s, c) == {d \in InGame(s) : s.room[d] = s.room[c]}
InSight(s, c) == {d \in InGame(s) : <<s.room[c], s.room[d]>> \in Sight}

HasSpell(s, c, t) ==
  \E i \in DOMAIN s.aff[c] : s.aff[c][i].type = t /\ ~s.aff[c][i].caster

EntriesOf(s, c, t) == {i \in DOMAIN s.aff[c] : s.aff[c][i].type = t}
CastersOf(s, c) == {i \in DOMAIN s.aff[c] : s.aff[c][i].caster}
Least(S) == CHOOSE i \in S : \A j \in S : i <= j

-----------------------------------------------------------------------------
(* The list of a character.                                                *)

\* Whoever carries the number n, the newest first; nobody's poison (n = 0)
\* is taken for the newest mobile's.
Carries(c, n) == IF n = 0 THEN c \in Mob ELSE Id[c] = n
Known(s, n) == SelectSeq(s.list, LAMBDA c : Carries(c, n))

\* Mutant: the search looks for the caster's own number.
Twin_Own(s, c, e) ==
  LET who == Known(s, e.by)
  IN  IF who = <<>> THEN {}
      ELSE LET d == Head(who)
               I == {i \in CastersOf(s, d) : /\ s.aff[d][i].type = e.type
                                             /\ s.aff[d][i].by = e.by}
           IN  IF I = {} THEN {} ELSE {<<d, Least(I)>>}

\* The caster's side of entry e of c: at most one <<character, index>>.
Twin(s, c, e) ==
  LET who == Known(s, e.by)
  IN  IF who = <<>> THEN {}
      ELSE LET d == Head(who)
               I == {i \in CastersOf(s, d) : /\ s.aff[d][i].type = e.type
                                             /\ s.aff[d][i].by = Id[c]}
           IN  IF I = {} THEN {} ELSE {<<d, Least(I)>>}

Without(q, I) ==
  LET kept == SetToSortSeq(DOMAIN q \ I, <)
  IN  IF I = {} THEN q ELSE [k \in DOMAIN kept |-> q[kept[k]]]

\* Leaving a leader.  A charmed and influenced follower is sent to
\* affect_from_char, which comes back here with the entry still there.
StopFollower(s, c) ==
  IF c \in s.charm /\ HasSpell(s, c, "influence")
  THEN [s EXCEPT !.crashed = TRUE]
  ELSE [s EXCEPT !.master[c] = None, !.charm = @ \ {c}]

AffectTo(s, c, e) ==
  IF Len(s.aff[c]) >= MaxAffect THEN [s EXCEPT !.full = @ \cup {c}]
  ELSE [s EXCEPT !.aff[c] = <<e>> \o @]

\* The victim's side of a spell that c sustains.
Owes(e, c) == ~e.caster /\ e.by = Id[c]

\* Mutant: the caster's count goes down and his entry stays.
AffectRemove_Kept(s, c, i) ==
  LET hit == {p[1] : p \in Twin(s, c, s.aff[c][i])}
  IN  [s EXCEPT !.aff[c] = RemoveAt(@, i),
                !.sus = [d \in Char |-> IF d \in hit /\ @[d] > 0
                                        THEN @[d] - 1 ELSE @[d]]]

AffectRemove(s, c, i) ==
  LET e == s.aff[c][i]
      two == Twin(s, c, e)
      hit == {p[1] : p \in two}
      s1 == [s EXCEPT !.sus = [d \in Char |-> IF d \in hit /\ @[d] > 0
                                              THEN @[d] - 1 ELSE @[d]]]
      s2 == IF e.type = "influence" /\ s.master[c] # None
            THEN StopFollower(s1, c) ELSE s1
      s3 == IF e.type = "light" /\ s.room[c] # None
            THEN [s2 EXCEPT !.light[s.room[c]] = @ - 1] ELSE s2
      s4 == [s3 EXCEPT !.aff = [d \in Char |->
               Without(@[d], {p[2] : p \in {p \in two \cup {<<c, i>>} : p[1] = d}})]]
      lost == IF e.caster THEN UNION {{<<c, v>>, <<v, c>>} : v \in {v \in Player : Id[v] = e.by}} ELSE {}
  IN  IF s.crashed THEN s
      ELSE [s4 EXCEPT !.unpaid = {p \in (@ \cup lost) \cap (Player \X Player) :
                                    \E k \in DOMAIN s4.aff[p[2]] : Owes(s4.aff[p[2]][k], p[1])}]

\* while (ch->affected) affect_remove(ch, ch->affected)
RECURSIVE Strip(_, _)
Strip(s, c) == IF s.aff[c] = <<>> \/ s.crashed THEN s ELSE Strip(AffectRemove(s, c, 1), c)

\* affect_from_char: every entry of the type, the caster's ones too.
RECURSIVE AffectFrom(_, _, _)
AffectFrom(s, c, t) ==
  LET of == EntriesOf(s, c, t)
  IN  IF of = {} \/ s.crashed THEN s ELSE AffectFrom(AffectRemove(s, c, Least(of)), c, t)

-----------------------------------------------------------------------------
(* Casting.                                                                *)

SustainSpell(s, c, v, t) ==
  LET s1 == IF t = "light" THEN [s EXCEPT !.light[s.room[v]] = @ + 1] ELSE s
      s2 == AffectTo(s1, v, [type |-> Stored(t), caster |-> FALSE, by |-> Id[c]])
      s3 == AffectTo(s2, c, [type |-> Stored(t), caster |-> TRUE, by |-> Id[v]])
  IN  IF HasSpell(s, v, t) \/ (s.sus[c] >= s.scene.skill[c] /\ t \notin Health)
      THEN s ELSE [s3 EXCEPT !.sus[c] = @ + 1]

\* What has a range goes to the rooms in sight as well.
InRange(s, c) == Present(s, c) \cup InSight(s, c)

DetectionTargets(s, c) == InRange(s, c)
HealthTargets(s, c) == Present(s, c)
IllusionTargets(s, c, t) == IF t = "invis" THEN Present(s, c) ELSE InRange(s, c)
ManipulationTargets(s, c, t) == IF t = "light" THEN {c} ELSE InRange(s, c)

Targets(s, c, t) ==
  CASE t = "detect"                           -> DetectionTargets(s, c)
    [] t \in Health \cup {"poison"}           -> HealthTargets(s, c)
    [] t \in {"invis", "chaos"}               -> IllusionTargets(s, c, t)
    [] t \in {"light", "influence", "petrify"} -> ManipulationTargets(s, c, t)
    [] OTHER                                  -> {}

InGroup(s, c, d) ==
  \/ c = d
  \/ s.master[c] = d \/ s.master[d] = c
  \/ s.master[c] # None /\ s.master[c] = s.master[d]

Ordered(S) == {q \in UNION {[1..n -> S] : n \in 0..Cardinality(S)} :
                 \A i, j \in DOMAIN q : q[i] = q[j] => i = j}

Cast(c) ==
  \E t \in m.scene.spells \ {"antidote"} : \E v \in Targets(m, c, t) :
     m' = SustainSpell(m, c, v, t)

\* Everybody in the room who is not of the group and does not resist, in
\* the order of the room's list.
CastArea(c) ==
  /\ "world" \in m.scene.spells
  /\ \E vs \in Ordered({v \in Present(m, c) : ~InGroup(m, c, v)}) :
        m' = FoldLeft(LAMBDA acc, v : SustainSpell(acc, c, v, "world"), m, vs)

\* The first poison entry goes when the test succeeds, be it the victim's
\* own side of a poison put on somebody else.
CastAntidote(c) ==
  /\ "antidote" \in m.scene.spells
  /\ \E v \in Targets(m, c, "antidote") :
       /\ HasSpell(m, v, "poison")
       /\ \E s \in {m, AffectRemove(m, v, Least(EntriesOf(m, v, "poison")))} :
             m' = IF s.crashed THEN s ELSE SustainSpell(s, c, v, "antidote")

\* The spells mobiles sustain by themselves: they heal.
MobHeal(c) == "heal" \in m.scene.spells /\ m' = SustainSpell(m, c, c, "heal")

\* Released by whoever sustains the first such spell on the victim.
Release(c) ==
  \E v \in Present(m, c), t \in m.scene.spells \ (Health \cup {"world"}) :
    LET I == EntriesOf(m, v, t) \ CastersOf(m, v)
    IN  /\ HasSpell(m, v, t)
        /\ m.aff[v][Least(I)].by = Id[c]
        /\ m' = AffectRemove(m, v, Least(I))

\* Poisoned food or drink: nobody sustains it.
Drink(c) ==
  /\ c \in m.scene.thirst /\ "poison" \in m.scene.spells
  /\ m' = AffectTo(m, c, [type |-> "poison", caster |-> FALSE, by |-> 0])

-----------------------------------------------------------------------------
(* What ends spells.                                                       *)

Appear(c) ==
  /\ HasSpell(m, c, "invis")
  /\ m' = AffectFrom(m, c, "invis")

\* The first petrify entry, which may be the cost of petrifying another.
Resist(c) ==
  /\ HasSpell(m, c, "petrify")
  /\ m' = AffectRemove(m, c, Least(EntriesOf(m, c, "petrify")))

\* mag_can_see: the first with the number, from where he stands.
SeenBy(s, c, n) ==
  LET who == SelectSeq(s.list, LAMBDA d : Id[d] = n)
  IN  who # <<>> /\ <<s.room[Head(who)], s.room[c]>> \in Sight

Unseen(s, c) ==
  {i \in DOMAIN s.aff[c] : /\ ~s.aff[c][i].caster
                           /\ s.aff[c][i].type \notin Health
                           /\ ~SeenBy(s, c, s.aff[c][i].by)}

\* Mutant: the count is not reset before it is made again.
Recount_Kept(s, c) ==
  LET gone == SetToSortSeq(Unseen(s, c), >)
  IN  FoldLeft(LAMBDA acc, i : AffectRemove(acc, c, i),
               [s EXCEPT !.sus[c] = @ + Cardinality(CastersOf(s, c))], gone)

\* One round of affect_update's loop; the entry after a removed one is
\* read from the removed one, which the allocator has left intact.
Recount(s, c) ==
  LET gone == SetToSortSeq(Unseen(s, c), >)
  IN  FoldLeft(LAMBDA acc, i : AffectRemove(acc, c, i),
               [s EXCEPT !.sus[c] = Cardinality(CastersOf(s, c))], gone)

AffectUpdate == m' = FoldLeft(Recount, m, m.list)

\* SaveChar takes every effect off and puts none back.
Save(c) == m.aff[c] # <<>> /\ m' = Strip(m, c)

Unaffect(c) == m.aff[c] # <<>> /\ m' = Strip(m, c)

-----------------------------------------------------------------------------
(* Coming, going, following.                                               *)

CharToRoom(s, c, r) ==
  LET s1 == [s EXCEPT !.room[c] = r]
  IN  IF HasSpell(s, c, "light") THEN [s1 EXCEPT !.light[r] = @ + 1] ELSE s1

CharFromRoom(s, c) ==
  LET s1 == [s EXCEPT !.room[c] = None]
  IN  IF HasSpell(s, c, "light")
      THEN [s1 EXCEPT !.light[s.room[c]] = @ - 1] ELSE s1

\* A player is loaded afresh, a mobile made.
Arrive(s, c, r) ==
  CharToRoom([s EXCEPT !.list = <<c>> \o @, !.sus[c] = 0], c, r)

Enter(c) ==
  /\ c \in m.scene.who \ InGame(m)
  /\ \E r \in m.scene.rooms : m' = Arrive(m, c, r)

Conjure(c) ==
  /\ c \in m.scene.led
  /\ \E spirit \in (m.scene.who \cap Mob) \ InGame(m) :
       m' = [Arrive(m, spirit, m.room[c]) EXCEPT !.master[spirit] = c,
                                                 !.charm = @ \cup {spirit}]

Walk(c) ==
  \E r \in m.scene.rooms \ {m.room[c]} : m' = CharToRoom(CharFromRoom(m, c), c, r)

DieFollower(s, c) ==
  LET s1 == IF s.master[c] = None THEN s ELSE StopFollower(s, c)
  IN  FoldLeft(LAMBDA acc, d : IF acc.master[d] # c THEN acc
                               ELSE StopFollower(acc, d), s1, s.list)

\* A player is saved first; then the followers, the effects, the room.
Extract(s, c) ==
  LET s1 == IF c \in Mob THEN s ELSE Strip(s, c)
      s2 == Strip(DieFollower(s1, c), c)
  IN  IF s2.crashed THEN s2
      ELSE [CharFromRoom(s2, c) EXCEPT
              !.list = SelectSeq(@, LAMBDA d : d # c)]

Leave(c) == m' = Extract(m, c)

\* raw_kill, and a death trap, strip the body before it is extracted.
Die(c) == m' = IF Strip(m, c).crashed THEN Strip(m, c)
               ELSE Extract(Strip(m, c), c)

\* No loops, and a charmed one does as it is told.
Leads(s, d, c) ==
  \E q \in UNION {[1..n -> Char] : n \in 1..Cardinality(Char)} :
    /\ q[1] = d /\ q[Len(q)] = c
    /\ \A i \in 1..(Len(q) - 1) : s.master[q[i]] = q[i + 1]

Follow(c) ==
  /\ c \in m.scene.led \ m.charm
  /\ \E d \in Present(m, c) \ {m.master[c]} :
       /\ ~Leads(m, d, c)
       /\ LET s == IF m.master[c] = None THEN m ELSE StopFollower(m, c)
          IN  m' = [s EXCEPT !.master[c] = d]

Unfollow(c) ==
  /\ c \notin m.charm /\ m.master[c] # None
  /\ m' = StopFollower(m, c)

-----------------------------------------------------------------------------

Next ==
  /\ ~m.crashed
  /\ \/ \E c \in Char : Enter(c)
     \/ \E c \in InGame(m) :
          \/ Release(c) \/ Appear(c) \/ Resist(c) \/ Unaffect(c)
          \/ Walk(c) \/ Leave(c) \/ Die(c)
     \/ \E c \in InGame(m) \cap Player :
          \/ Cast(c) \/ CastArea(c) \/ CastAntidote(c) \/ Drink(c)
          \/ Save(c) \/ Conjure(c) \/ Follow(c) \/ Unfollow(c)
     \/ \E c \in InGame(m) \cap Mob : MobHeal(c)
     \/ AffectUpdate
  /\ \A c \in Char : m'.sus[c] <= SusMax
  /\ \A r \in Room : m'.light[r] >= 0 - Dark

vars == m
Spec == Init /\ [][Next]_vars

-----------------------------------------------------------------------------
(* Properties.                                                             *)

\* Every character in the game is in a room and the others in none and
\* under nothing; no list is longer than MAX_AFFECT; a charmed one has a
\* master (struct char_data, affect_to_char, extract_char).
TypeOK ==
  /\ m.scene \in Scenes /\ m.list \in Seq(Char) /\ IsInjective(m.list)
  /\ \A c \in Char :
       /\ IF c \in InGame(m) THEN m.room[c] \in Room
          ELSE m.room[c] = None /\ (m.crashed \/ m.master[c] = None)
               /\ m.aff[c] = <<>>
       /\ m.aff[c] \in Seq(Entry) /\ Len(m.aff[c]) <= MaxAffect
       /\ m.sus[c] \in Nat
       /\ m.master[c] \in InGame(m) \cup {None}
  /\ m.light \in [Room -> Int]
  /\ m.charm \subseteq {c \in Mob : m.master[c] # None}
  /\ m.full \subseteq Char /\ m.unpaid \subseteq Player \X Player /\ m.crashed \in BOOLEAN

\* A character never sustains more spells than his sorcery allows, whatever
\* releases, saves, deaths and recounts come between: GET_SUSTAINED covers
\* the entries on his list (sustain_spell, affect_remove, affect_update).
SorceryBound ==
  TypeOK /\ \A c \in InGame(m) :
    /\ Cardinality(CastersOf(m, c)) <= m.sus[c]
    /\ Cardinality({i \in CastersOf(m, c) : m.aff[c][i].type \notin Health})
         <= m.scene.skill[c]

\* A player pays only for spells that are still on their victims: each
\* entry on the caster's side has its own on the victim's, unless the
\* victim's list was full (affect_remove takes the caster's side with it).
CostHasEffect ==
  \A c, v \in Player \cap InGame(m), t \in Spell :
    v \in m.full \/
      Cardinality({i \in CastersOf(m, c) : /\ m.aff[c][i].type = t
                                           /\ m.aff[c][i].by = Id[v]})
      <= Cardinality({i \in EntriesOf(m, v, t) : Owes(m.aff[v][i], c)})

\* And he pays for all that are still on them, whoever casts, walks out of
\* sight, is released and counted again, until an entry is taken off a
\* caster's own list: when he saves, leaves, dies, is unaffected, appears,
\* resists or takes an antidote. The victim keeps the spell then, and what he
\* sustains on the caster in his turn is not paid for either: affect_remove
\* looks for a caster's entry only, whichever side it takes off.
EffectHasCost ==
  \A c, v \in Player \cap InGame(m), t \in Spell :
    c \in m.full \/ <<c, v>> \in m.unpaid \/
      Cardinality({i \in EntriesOf(m, v, t) : Owes(m.aff[v][i], c)})
      <= Cardinality({i \in CastersOf(m, c) : /\ m.aff[c][i].type = t
                                              /\ m.aff[c][i].by = Id[v]})

\* After affect_update the counts are exact and nobody is under a spell
\* whose caster does not see him, though the removals for one character
\* take entries off others the loop has passed or has yet to pass.
UpdateExact ==
  [][AffectUpdate /\ ~m'.crashed =>
       \A c \in InGame(m) : /\ m'.sus[c] = Cardinality(CastersOf(m', c))
                             /\ Unseen(m', c) = {}]_m

\* A room is never lit by a spell nobody there is under, whatever the order
\* of casting, walking, losing the spell and leaving the game.
NoPhantomLight ==
  m.full # {} \/ m.crashed \/
    \A r \in Room :
      m.light[r] <= Cardinality({c \in InGame(m) : /\ m.room[c] = r
                                                   /\ HasSpell(m, c, "light")})

\* What is paid for works, what works is paid for until the caster's own
\* entries are taken off, and what is lit has somebody who lights it.
EffectsPaired == CostHasEffect /\ EffectHasCost /\ NoPhantomLight

\* "add spell and eq affections back in now" (newdb.cpp:1186): a save leaves
\* the player's spells as they were.
SpellsBack == [][\A c \in InGame(m) \cap Player : Save(c) => m'.aff = m.aff]_m

=============================================================================
