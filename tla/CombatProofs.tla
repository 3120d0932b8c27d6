--------------------------- MODULE CombatProofs ---------------------------
(***************************************************************************)
(* What Combat keeps for any set of characters, rooms and companions.      *)
(*                                                                         *)
(* The operators of Combat take a state of the fights to the states a C++  *)
(* function may leave.  Good(g) is the inductive invariant; Leads(g, h)    *)
(* says that h, left by a function called in g, is good again and that     *)
(* nobody has been added to those perform_violence has still to come to.   *)
(* One lemma per function shows that it leads from good states to good     *)
(* ones, from the lemmas of the functions it calls.                        *)
(***************************************************************************)
EXTENDS Combat, FiniteSetTheorems, WellFoundedInduction, TLAPS

Whole(g) == g.broken = ""

Exact(g) == \A c \in Char : c \in g.list <=> Busy(g, c)

Ordered(g) ==
  /\ \A c, d : <<c, d>> \in g.ahead => c \in g.list /\ d \in g.list /\ c # d
  /\ \A c, d \in g.list : c # d => (<<c, d>> \in g.ahead <=> <<d, c>> \notin g.ahead)
  /\ \A a, b, c : <<a, b>> \in g.ahead /\ <<b, c>> \in g.ahead => <<a, c>> \in g.ahead

Live(g) ==
  \A c \in Char : g.fighting[c] # NULL => /\ g.fighting[c] # c
                                          /\ InWorld(g, c) /\ InWorld(g, g.fighting[c])

Chasing(g) == \A c \in Char : g.approach[c] => g.fighting[c] # NULL

Pointed(g) == g.next = NULL \/ g.next \in g.list

\* perform_violence has still to come to whoever has had no turn of the round.
Waiting(g) == g.due = Remaining(g)

Consistent(g) ==
  Exact(g) /\ Ordered(g) /\ Live(g) /\ Chasing(g) /\ Pointed(g) /\ Waiting(g)

Good(g) == g \in FightType /\ (Whole(g) => Consistent(g))

Leads(g, h) ==
  /\ Good(h)
  /\ Whole(h) => Whole(g) /\ Remaining(h) \subseteq Remaining(g)

\* c is a character, and in the world as long as the list is whole.
Here(g, c) == c \in Char /\ (Whole(g) => InWorld(g, c))

\* A function that moves nobody.
Stays(g, h) == Leads(g, h) /\ h.place = g.place

-----------------------------------------------------------------------------
LEMMA FirstOfIn ==
  ASSUME NEW g, NEW S
  PROVE  FirstOf(g, S) = NULL \/ FirstOf(g, S) \in S
  BY DEF FirstOf

LEMMA LeastSize ==
  ASSUME NEW S \in SUBSET Nat, S # {}
  PROVE  \E n \in S : \A m \in S : n <= m
<1>1. IsWellFoundedOn({p \in Nat \X Nat : p[1] < p[2]}, Nat)
  BY NatLessThanWellFounded, Zenon DEF OpToRel
<1>2. PICK n \in S : \A m \in S : ~(<<m, n>> \in {p \in Nat \X Nat : p[1] < p[2]})
  BY <1>1, WFMin, Zenon
<1>3. \A m \in S : ~(m < n) BY <1>2
<1> QED BY <1>3

\* A finite line has a first: of those parts of S that had none, take a smallest; without one
\* of its members it has a first, and so has the whole of it.
LEMMA FirstExists ==
  ASSUME NEW g \in FightType, Ordered(g), NEW S \in SUBSET g.list, S # {}
  PROVE  /\ FirstOf(g, S) \in S
         /\ \A d \in S \ {FirstOf(g, S)} : <<FirstOf(g, S), d>> \in g.ahead
<1> DEFINE Leads1(T, c) == c \in T /\ \A d \in T \ {c} : <<c, d>> \in g.ahead
<1>1. \E c \in S : Leads1(S, c)
  <2> DEFINE Headless == {T \in SUBSET S : T # {} /\ \A c \in T : ~Leads1(T, c)}
             Sizes == {Cardinality(T) : T \in Headless}
  <2>1. SUFFICES ASSUME S \in Headless PROVE FALSE OBVIOUS
  <2>2. IsFiniteSet(S) BY CombatAssumption, FS_Subset DEF FightType
  <2>3. \A T \in SUBSET S : IsFiniteSet(T) /\ Cardinality(T) \in Nat
    BY <2>2, FS_Subset, FS_CardinalityType
  <2>4. PICK T \in Headless : \A U \in Headless : Cardinality(T) <= Cardinality(U)
    <3>1. Sizes \in SUBSET Nat /\ Sizes # {} BY <2>1, <2>3
    <3>2. PICK n \in Sizes : \A m \in Sizes : n <= m BY <3>1, LeastSize
    <3> QED BY <3>2
  <2>5. PICK x \in T : TRUE OBVIOUS
  <2>6. Cardinality(T \ {x}) = Cardinality(T) - 1 BY <2>3, FS_RemoveElement
  <2>7. T \ {x} \notin Headless
    <3>1. Cardinality(T) \in Nat BY <2>3
    <3>2. ASSUME T \ {x} \in Headless PROVE FALSE
      <4>1. Cardinality(T) <= Cardinality(T \ {x}) BY <2>4, <3>2
      <4> HIDE DEF Headless
      <4> QED BY <2>6, <3>1, <4>1
    <3> QED BY <3>2
  <2>8. CASE T \ {x} = {}
    <3>1. Leads1(T, x) BY <2>8
    <3> QED BY <3>1
  <2>9. CASE T \ {x} # {}
    <3>1. PICK y \in T \ {x} : Leads1(T \ {x}, y) BY <2>7, <2>9
    <3>2. <<x, y>> \in g.ahead \/ <<y, x>> \in g.ahead BY <3>1 DEF Ordered
    <3>3. CASE <<y, x>> \in g.ahead
      <4>1. Leads1(T, y) BY <3>1, <3>3
      <4> QED BY <3>1, <4>1
    <3>4. CASE <<x, y>> \in g.ahead
      <4>1. \A d \in T \ {x} : <<x, d>> \in g.ahead BY <3>1, <3>4 DEF Ordered
      <4>2. Leads1(T, x) BY <4>1
      <4> QED BY <4>2
    <3> QED BY <3>2, <3>3, <3>4
  <2> QED BY <2>8, <2>9
<1>2. \E c \in S : \A d \in S \ {c} : <<c, d>> \in g.ahead BY <1>1
<1> QED BY <1>2 DEF FirstOf

\* The first of a line and those behind it are the whole line.
LEMMA RemainingFrom ==
  ASSUME NEW g \in FightType, Ordered(g), NEW S \in SUBSET g.list,
         \A a \in S : Behind(g, a) \subseteq S,
         NEW h, h.next = FirstOf(g, S), h.list \cap S = S,
         \A a, d \in S : <<a, d>> \in g.ahead => <<a, d>> \in h.ahead,
         \A a, d : <<a, d>> \in h.ahead => <<a, d>> \in g.ahead,
         h.list \subseteq g.list
  PROVE  Remaining(h) = S
<1>0. NULL \notin S BY CombatAssumption DEF FightType
<1>1. CASE S = {} BY <1>0, <1>1, FirstOfIn DEF Remaining
<1>2. CASE S # {}
  <2> DEFINE n == FirstOf(g, S)
  <2>1. n \in S /\ \A d \in S \ {n} : <<n, d>> \in g.ahead BY <1>2, FirstExists
  <2> HIDE DEF n
  <2>2. h.next = n /\ h.next # NULL BY <1>0, <2>1 DEF n
  <2>3. Behind(h, n) \subseteq S BY <2>1 DEF Behind
  <2>4. S \ {n} \subseteq Behind(h, n) BY <2>1 DEF Behind
  <2> QED BY <2>1, <2>2, <2>3, <2>4 DEF Remaining
<1> QED BY <1>1, <1>2

LEMMA StopFields ==
  ASSUME NEW g \in FightType, NEW S \in SUBSET Char
  PROVE  /\ Stop(g, S) \in FightType
         /\ Stop(g, S).next = NextAfter(g, S)
         /\ Stop(g, S).list = g.list \ S
         /\ Stop(g, S).ahead = {p \in g.ahead : p[1] \notin S /\ p[2] \notin S}
         /\ \A c \in Char : /\ Stop(g, S).fighting[c] = IF c \in S THEN NULL ELSE g.fighting[c]
                            /\ Stop(g, S).fveh[c] = (c \notin S /\ g.fveh[c])
                            /\ Stop(g, S).approach[c] = (c \notin S /\ g.approach[c])
         /\ Stop(g, S).place = g.place
         /\ Stop(g, S).broken = g.broken
         /\ Stop(g, S).due = g.due \ S
<1> DEFINE fi == Put(g.fighting, S, NULL)
           fv == Put(g.fveh, S, FALSE)
           ap == Put(g.approach, S, FALSE)
           po == [c \in Char |-> IF c \in S THEN Posture(g.well[c]) ELSE g.pos[c]]
           ah == {p \in g.ahead : p[1] \notin S /\ p[2] \notin S}
           li == g.list \ S
           du == g.due \ S
           nx == NextAfter(g, S)
<1>1. Stop(g, S) = [g EXCEPT !.next = nx, !.list = li, !.ahead = ah, !.fighting = fi,
                             !.fveh = fv, !.approach = ap, !.pos = po, !.due = du]
  BY DEF Stop, VehAfter, ApproachAfter, FightType
<1>2. /\ g.fighting \in [Char -> Char \cup {NULL}]
      /\ g.fveh \in [Char -> BOOLEAN] /\ g.approach \in [Char -> BOOLEAN]
  BY DEF FightType
<1>3. /\ fi \in [Char -> Char \cup {NULL}]
      /\ \A c \in Char : fi[c] = IF c \in S THEN NULL ELSE g.fighting[c]
  BY <1>2 DEF Put
<1>4. /\ fv \in [Char -> BOOLEAN]
      /\ \A c \in Char : fv[c] = IF c \in S THEN FALSE ELSE g.fveh[c]
  BY <1>2 DEF Put
<1>5. /\ ap \in [Char -> BOOLEAN]
      /\ \A c \in Char : ap[c] = IF c \in S THEN FALSE ELSE g.approach[c]
  BY <1>2 DEF Put
<1>6. po \in [Char -> {"standing", "fighting", "down"}] BY DEF FightType, Posture
<1>7. /\ nx \in Char \cup {NULL} /\ li \in SUBSET Char /\ du \in SUBSET Char
      /\ ah \in SUBSET (Char \X Char)
      /\ g.well \in [Char -> BOOLEAN] /\ g.place \in [Char -> Whereabouts]
      /\ g.broken \in {"", "cut", "ghost"}
  BY FirstOfIn DEF FightType, NextAfter, Behind
<1>8. ah = {p \in g.ahead : p[1] \notin S /\ p[2] \notin S} /\ li = g.list \ S
      /\ nx = NextAfter(g, S) /\ du = g.due \ S
  OBVIOUS
<1> HIDE DEF fi, fv, ap, po, ah, li, du, nx
<1>9. Stop(g, S) \in FightType
  <2>1. [g EXCEPT !.next = nx, !.list = li, !.ahead = ah, !.due = du] \in FightType
    BY <1>7 DEF FightType
  <2>2. \A k \in FightType :
          [k EXCEPT !.fighting = fi, !.fveh = fv, !.approach = ap, !.pos = po] \in FightType
    BY <1>3, <1>4, <1>5, <1>6, ZenonT(60) DEF FightType
  <2>3. Stop(g, S) = [[g EXCEPT !.next = nx, !.list = li, !.ahead = ah, !.due = du]
                        EXCEPT !.fighting = fi, !.fveh = fv, !.approach = ap, !.pos = po]
    BY <1>1 DEF FightType
  <2> QED BY <2>1, <2>2, <2>3
<1>10. /\ Stop(g, S).fighting = fi /\ Stop(g, S).fveh = fv /\ Stop(g, S).approach = ap
       /\ Stop(g, S).next = nx /\ Stop(g, S).list = li /\ Stop(g, S).ahead = ah
       /\ Stop(g, S).place = g.place /\ Stop(g, S).broken = g.broken
       /\ Stop(g, S).due = du
  BY <1>1 DEF FightType
<1>11. \A c \in Char : /\ g.fveh[c] \in BOOLEAN /\ g.approach[c] \in BOOLEAN
  BY DEF FightType
<1> QED BY <1>3, <1>4, <1>5, <1>8, <1>9, <1>10, <1>11

LEMMA StopGood ==
  ASSUME NEW g, Good(g), NEW S \in SUBSET Char
  PROVE  Stays(g, Stop(g, S))
<1> DEFINE s == Stop(g, S)
<1>0. g \in FightType BY DEF Good
<1>1. /\ s \in FightType /\ s.next = NextAfter(g, S) /\ s.list = g.list \ S
      /\ s.ahead = {p \in g.ahead : p[1] \notin S /\ p[2] \notin S}
      /\ \A c \in Char : /\ s.fighting[c] = IF c \in S THEN NULL ELSE g.fighting[c]
                         /\ s.fveh[c] = (c \notin S /\ g.fveh[c])
                         /\ s.approach[c] = (c \notin S /\ g.approach[c])
      /\ s.place = g.place /\ s.broken = g.broken /\ s.due = g.due \ S
  BY <1>0, StopFields
<1> HIDE DEF s
<1>2. ASSUME Whole(g)
      PROVE  Consistent(s) /\ Remaining(s) \subseteq Remaining(g)
  <2>0. Consistent(g) BY <1>2 DEF Good
  <2>1. Exact(s) BY <1>0, <1>1, <2>0 DEF Consistent, Exact, Busy
  <2>2. Ordered(s) BY <1>1, <2>0 DEF Consistent, Ordered
  <2>3. Live(s) BY <1>0, <1>1, <2>0 DEF Consistent, Live, InWorld
  <2>4. Chasing(s) BY <1>0, <1>1, <2>0 DEF Consistent, Chasing
  <2>5. \/ s.next = NULL
        \/ s.next = g.next /\ s.next \notin S
        \/ s.next \in Behind(g, g.next) \ S
    BY <1>1, FirstOfIn DEF NextAfter
  <2>6. Pointed(s) BY <1>1, <2>0, <2>5 DEF Pointed, Consistent, Behind
  <2>7. Remaining(s) = Remaining(g) \ S
    <3>1. CASE g.next = NULL
      <4>1. s.next = NULL \/ s.next \in Behind(g, NULL) BY <1>1, <3>1, FirstOfIn DEF NextAfter
      <4>2. Behind(g, NULL) = {} BY <1>0, <2>0, CombatAssumption DEF Consistent, Ordered, Behind, FightType
      <4> QED BY <3>1, <4>1, <4>2 DEF Remaining
    <3>2. CASE g.next # NULL /\ g.next \notin S
      <4>1. s.next = g.next BY <1>1, <3>2 DEF NextAfter
      <4>2. Behind(s, g.next) = Behind(g, g.next) \ S
        <5>1. \A d : <<g.next, d>> \in s.ahead <=> <<g.next, d>> \in g.ahead /\ d \notin S
          BY <1>1, <3>2
        <5> QED BY <1>1, <5>1 DEF Behind
      <4> QED BY <3>2, <4>1, <4>2 DEF Remaining
    <3>3. CASE g.next # NULL /\ g.next \in S
      <4> DEFINE B == Behind(g, g.next) \ S
      <4>1. s.next = FirstOf(g, B) BY <1>1, <3>3 DEF NextAfter
      <4>2. B \in SUBSET g.list /\ s.list \cap B = B BY <1>1 DEF Behind
      <4>3. \A d : d \in B <=> d \in s.list /\ <<g.next, d>> \in g.ahead BY <1>1 DEF Behind
      <4> HIDE DEF B
      <4>4. \A a, d : <<a, d>> \in s.ahead => <<a, d>> \in g.ahead BY <1>1
      <4>5. \A a, d \in B : <<a, d>> \in g.ahead => <<a, d>> \in s.ahead BY <1>1, <4>2, <4>3
      <4>6. s.list \subseteq g.list /\ Ordered(g) BY <1>1, <2>0 DEF Consistent
      <4>7. Ordered(s) /\ B \in SUBSET s.list BY <2>2, <4>2
      <4>8. \A a \in B : Behind(s, a) \subseteq B
        BY <4>3, <4>4, <4>6 DEF Ordered, Behind
      <4>9. FirstOf(g, B) = FirstOf(s, B)
        <5>1. \A a, d \in B : <<a, d>> \in g.ahead <=> <<a, d>> \in s.ahead BY <4>4, <4>5
        <5> QED BY <5>1 DEF FirstOf
      <4>10. Remaining(s) = B BY <1>1, <4>1, <4>2, <4>7, <4>8, <4>9, RemainingFrom
      <4> QED BY <3>3, <4>10 DEF Remaining, B
    <3> QED BY <3>1, <3>2, <3>3
  <2>8. Waiting(s) BY <1>1, <2>0, <2>7 DEF Consistent, Waiting
  <2> QED BY <2>1, <2>2, <2>3, <2>4, <2>6, <2>7, <2>8 DEF Consistent
<1>3. Whole(s) <=> Whole(g) BY <1>1 DEF Whole
<1> QED BY <1>1, <1>2, <1>3 DEF Stays, Leads, Good, s

\* Good states: one step of reasoning for all that follows.
LEMMA LeadsTo ==
  ASSUME NEW g, NEW h, NEW k, Leads(g, h), Leads(h, k)
  PROVE  Leads(g, k)
  BY DEF Leads

LEMMA StayTo ==
  ASSUME NEW g, NEW h, NEW k, Stays(g, h), Stays(h, k)
  PROVE  Stays(g, k)
  BY LeadsTo DEF Stays

LEMMA LeadsSelf ==
  ASSUME NEW g, Good(g)
  PROVE  Stays(g, g)
  BY DEF Leads, Stays

LEMMA HereStays ==
  ASSUME NEW g, NEW h, NEW c, Stays(g, h), Here(g, c)
  PROVE  Here(h, c)
  BY DEF Stays, Leads, Here, InWorld

LEMMA StopIfGood ==
  ASSUME NEW g, Good(g), NEW c \in Char
  PROVE  Stays(g, StopIf(g, c)) /\ (Whole(g) => StopIf(g, c).fighting[c] = NULL)
<1>1. CASE g.fighting[c] # NULL
  <2>1. StopIf(g, c) = Stop(g, {c}) BY <1>1 DEF StopIf
  <2>2. Stop(g, {c}).fighting[c] = NULL BY StopFields DEF Good
  <2> QED BY <2>1, <2>2, StopGood
<1>2. CASE g.fighting[c] = NULL BY <1>2, LeadsSelf DEF StopIf
<1> QED BY <1>1, <1>2

-----------------------------------------------------------------------------
(* Joining. *)

\* Somebody new at the head of the list: the list is one longer, nobody is still to come.
LEMMA PushGood ==
  ASSUME NEW g, Good(g), NEW c \in Char, NEW h \in FightType,
         h.list = g.list \cup {c}, h.ahead = g.ahead \cup InFront(g, c),
         h.next = g.next, h.place = g.place, h.broken = g.broken, h.due = g.due,
         Whole(g) => ~Busy(g, c) /\ Busy(h, c),
         \A d \in Char \ {c} : /\ h.fighting[d] = g.fighting[d] /\ h.fveh[d] = g.fveh[d]
                               /\ h.approach[d] = g.approach[d],
         Whole(g) => h.fighting[c] # c,
         Whole(g) /\ h.fighting[c] # NULL => InWorld(g, c) /\ InWorld(g, h.fighting[c]),
         Whole(g) /\ h.approach[c] => h.fighting[c] # NULL
  PROVE  Stays(g, h)
<1>1. ASSUME Whole(g)
      PROVE  Consistent(h) /\ Remaining(h) \subseteq Remaining(g)
  <2>0. Consistent(g) /\ c \notin g.list BY <1>1 DEF Good, Consistent, Exact
  <2>1. Exact(h) BY <1>1, <2>0 DEF Consistent, Exact, Busy
  <2>2. Ordered(h) BY <2>0 DEF Consistent, Ordered, InFront
  <2>3. Live(h) BY <1>1, <2>0 DEF Consistent, Live, InWorld
  <2>4. Chasing(h) BY <1>1, <2>0 DEF Consistent, Chasing
  <2>5. Pointed(h) BY <2>0 DEF Consistent, Pointed
  <2>6. Remaining(h) = Remaining(g)
    <3>1. CASE g.next = NULL BY <3>1 DEF Remaining
    <3>2. CASE g.next # NULL
      <4>1. g.next \in g.list /\ g.next # c BY <2>0, <3>2 DEF Consistent, Pointed
      <4>2. Behind(h, g.next) = Behind(g, g.next)
        BY <2>0, <4>1 DEF Consistent, Ordered, Behind, InFront
      <4> QED BY <4>2, <3>2 DEF Remaining
    <3> QED BY <3>1, <3>2
  <2>7. Waiting(h) BY <2>0, <2>6 DEF Consistent, Waiting
  <2> QED BY <2>1, <2>2, <2>3, <2>4, <2>5, <2>6, <2>7 DEF Consistent
<1> QED BY <1>1 DEF Stays, Leads, Good, Whole

LEMMA StartFields ==
  ASSUME NEW g \in FightType, NEW c \in Char, NEW v \in Char,
         c # v, ~Busy(g, c), NEW h, h = Start(g, c, v)
  PROVE  /\ h \in FightType
         /\ h.list = g.list \cup {c} /\ h.ahead = g.ahead \cup InFront(g, c)
         /\ h.next = g.next /\ h.place = g.place /\ h.broken = g.broken /\ h.due = g.due
         /\ h.fighting[c] = v /\ h.fveh[c] = g.fveh[c]
         /\ \A d \in Char \ {c} : /\ h.fighting[d] = g.fighting[d] /\ h.fveh[d] = g.fveh[d]
                                  /\ h.approach[d] = g.approach[d]
<1> DEFINE li == g.list \cup {c}
           ah == g.ahead \cup InFront(g, c)
           po == Put(g.pos, {c}, "fighting")
           fi == Put(g.fighting, {c}, v)
           ap == Put(g.approach, {c} \cap Melee, TRUE)
<1>1. h = [g EXCEPT !.list = li, !.ahead = ah, !.pos = po, !.fighting = fi, !.approach = ap]
  BY DEF Start, Push, FightType
<1>2. /\ li \in SUBSET Char /\ ah \in SUBSET (Char \X Char)
      /\ fi \in [Char -> Char \cup {NULL}] /\ fi[c] = v
      /\ \A d \in Char \ {c} : fi[d] = g.fighting[d]
  BY DEF Put, InFront, FightType
<1>3. /\ po \in [Char -> {"standing", "fighting", "down"}]
      /\ ap \in [Char -> BOOLEAN]
      /\ \A d \in Char \ {c} : ap[d] = g.approach[d]
  BY DEF Put, FightType
<1> HIDE DEF li, ah, po, fi, ap
<1>4. h \in FightType BY <1>1, <1>2, <1>3, ZenonT(60) DEF FightType
<1>5. /\ h.list = li /\ h.ahead = ah /\ h.next = g.next /\ h.place = g.place
      /\ h.broken = g.broken /\ h.fighting = fi /\ h.fveh = g.fveh /\ h.approach = ap
      /\ h.due = g.due
  BY <1>1 DEF FightType
<1> QED BY <1>2, <1>3, <1>4, <1>5 DEF li, ah

LEMMA StartTyped ==
  ASSUME NEW g \in FightType, NEW c \in Char, NEW v \in Char
  PROVE  /\ Start(g, c, v) \in FightType
         /\ Start(g, c, v).place = g.place /\ Start(g, c, v).broken = g.broken
<1>1. CASE c = v \/ Busy(g, c) BY <1>1 DEF Start
<1>2. CASE ~(c = v \/ Busy(g, c)) BY <1>2, StartFields
<1> QED BY <1>1, <1>2

LEMMA StartGood ==
  ASSUME NEW g, Good(g), NEW c, Here(g, c), NEW v, Here(g, v)
  PROVE  Stays(g, Start(g, c, v))
<1>0. g \in FightType /\ c \in Char /\ v \in Char BY DEF Good, Here
<1>1. CASE c = v \/ Busy(g, c) BY <1>1, LeadsSelf DEF Start
<1>2. CASE ~(c = v \/ Busy(g, c))
  <2> DEFINE h == Start(g, c, v)
  <2>1. /\ h \in FightType
        /\ h.list = g.list \cup {c} /\ h.ahead = g.ahead \cup InFront(g, c)
        /\ h.next = g.next /\ h.place = g.place /\ h.broken = g.broken /\ h.due = g.due
        /\ h.fighting[c] = v /\ h.fveh[c] = g.fveh[c]
        /\ \A d \in Char \ {c} : /\ h.fighting[d] = g.fighting[d] /\ h.fveh[d] = g.fveh[d]
                                 /\ h.approach[d] = g.approach[d]
    BY <1>0, <1>2, StartFields
  <2> HIDE DEF h
  <2>2. v # NULL BY <1>0, CombatAssumption
  <2>3. Whole(g) => InWorld(g, c) /\ InWorld(g, v) BY DEF Here
  <2>4. Busy(h, c) BY <2>1, <2>2 DEF Busy
  <2>5. Stays(g, h) BY <1>0, <1>2, <2>1, <2>2, <2>3, <2>4, PushGood
  <2> QED BY <2>5 DEF h
<1> QED BY <1>1, <1>2

LEMMA StartVehGood ==
  ASSUME NEW g, Good(g), NEW c \in Char
  PROVE  Stays(g, StartVeh(g, c)) /\ StartVeh(g, c).broken = g.broken
<1>0. g \in FightType BY DEF Good
<1>1. CASE Busy(g, c) BY <1>1, LeadsSelf DEF StartVeh
<1>2. CASE ~Busy(g, c)
  <2> DEFINE h == StartVeh(g, c)
             li == g.list \cup {c}
             ah == g.ahead \cup InFront(g, c)
             po == Put(g.pos, {c}, "fighting")
             fv == Put(g.fveh, {c}, TRUE)
  <2>1. h = [g EXCEPT !.list = li, !.ahead = ah, !.pos = po, !.fveh = fv]
    BY <1>0, <1>2 DEF StartVeh, Push, FightType
  <2>2. /\ li \in SUBSET Char /\ ah \in SUBSET (Char \X Char)
        /\ po \in [Char -> {"standing", "fighting", "down"}]
        /\ fv \in [Char -> BOOLEAN] /\ fv[c]
        /\ \A d \in Char \ {c} : fv[d] = g.fveh[d]
    BY <1>0 DEF Put, InFront, FightType
  <2> HIDE DEF li, ah, po, fv, h
  <2>3. h \in FightType BY <1>0, <2>1, <2>2 DEF FightType
  <2>4. /\ h.list = li /\ h.ahead = ah /\ h.next = g.next /\ h.place = g.place
        /\ h.broken = g.broken /\ h.fighting = g.fighting /\ h.fveh = fv
        /\ h.approach = g.approach /\ h.due = g.due
    BY <1>0, <2>1 DEF FightType
  <2>5. g.fighting[c] = NULL BY <1>2 DEF Busy
  <2>6. Busy(h, c) BY <2>2, <2>4 DEF Busy
  <2>7. c # NULL BY CombatAssumption
  <2>8. Whole(g) => ~g.approach[c] BY <2>5 DEF Good, Consistent, Chasing
  <2>9. /\ h.list = g.list \cup {c} /\ h.ahead = g.ahead \cup InFront(g, c)
        /\ \A d \in Char \ {c} : /\ h.fighting[d] = g.fighting[d] /\ h.fveh[d] = g.fveh[d]
                                 /\ h.approach[d] = g.approach[d]
        /\ h.fighting[c] = NULL /\ h.approach[c] = g.approach[c]
    BY <2>2, <2>4, <2>5 DEF li, ah
  <2>10. Stays(g, h) BY <1>2, <2>3, <2>4, <2>6, <2>7, <2>8, <2>9, PushGood
  <2> QED BY <2>4, <2>10 DEF h
<1> QED BY <1>1, <1>2

\* Whoever is attacked on behalf of c is in the world.
LEMMA OpponentsHere ==
  ASSUME NEW g, Good(g), NEW c, Here(g, c), NEW o \in Opponents(g, c)
  PROVE  Here(g, o)
<1>1. g \in FightType /\ c \in Char BY DEF Good, Here
<1>2. o \in Char
  <2>1. \A d \in {d \in Char : g.fighting[d] = c /\ SameRoom(g, c, d)} : d \in Char OBVIOUS
  <2>2. g.fighting[c] \in Char \cup {NULL} BY <1>1 DEF FightType
  <2> QED BY <2>1, <2>2 DEF Opponents
<1>3. ASSUME Whole(g) PROVE InWorld(g, o)
  <2>1. o = g.fighting[c] \/ SameRoom(g, c, o) BY DEF Opponents
  <2>2. CASE SameRoom(g, c, o) BY <1>3, <2>2 DEF SameRoom, InWorld, Here
  <2>3. CASE o = g.fighting[c]
    BY <1>1, <1>2, <1>3, <2>3, CombatAssumption DEF Good, Consistent, Live
  <2> QED BY <2>1, <2>2, <2>3
<1> QED BY <1>2, <1>3 DEF Here

LEMMA AssistantsHere ==
  ASSUME NEW g, NEW c, Here(g, c), NEW h \in Assistants(g, c)
  PROVE  Here(g, h)
  BY DEF Assistants, Here, SameRoom, InWorld

LEMMA AssistedGood ==
  ASSUME NEW g, Good(g), NEW c, Here(g, c), NEW k \in Assisted(g, c)
  PROVE  Stays(g, k)
<1>1. CASE k = g BY <1>1, LeadsSelf
<1>2. CASE \E p \in Assistants(g, c) \X Opponents(g, c) : k = Start(g, p[1], p[2])
  <2> PICK p \in Assistants(g, c) \X Opponents(g, c) : k = Start(g, p[1], p[2]) BY <1>2
  <2>1. Here(g, p[1]) BY AssistantsHere
  <2>2. Here(g, p[2]) BY OpponentsHere
  <2> QED BY <2>1, <2>2, StartGood
<1> QED BY <1>1, <1>2 DEF Assisted

LEMMA TurnedGood ==
  ASSUME NEW g, Good(g), NEW h, Here(g, h), NEW o, Here(g, o), NEW k \in Turned(g, h, o)
  PROVE  Stays(g, k)
<1>1. CASE k = g BY <1>1, LeadsSelf
<1>2. CASE k \in Assisted(Start(g, o, h), o)
  <2>1. Stays(g, Start(g, o, h)) BY StartGood
  <2>2. Good(Start(g, o, h)) /\ Here(Start(g, o, h), o) BY <2>1, HereStays DEF Stays, Leads
  <2>3. Stays(Start(g, o, h), k) BY <1>2, <2>2, AssistedGood
  <2> QED BY <2>1, <2>3, StayTo
<1> QED BY <1>1, <1>2 DEF Turned

LEMMA JoinedGood ==
  ASSUME NEW g, Good(g), NEW c, Here(g, c), NEW k \in Joined(g, c)
  PROVE  Stays(g, k)
<1>1. CASE k = g BY <1>1, LeadsSelf
<1>2. CASE \E p \in Assistants(g, c) \X Opponents(g, c) :
             k \in Turned(Start(g, p[1], p[2]), p[1], p[2])
  <2> PICK p \in Assistants(g, c) \X Opponents(g, c) :
             k \in Turned(Start(g, p[1], p[2]), p[1], p[2])
    BY <1>2
  <2> DEFINE s == Start(g, p[1], p[2])
  <2>1. Here(g, p[1]) BY AssistantsHere
  <2>2. Here(g, p[2]) BY OpponentsHere
  <2>3. Stays(g, s) BY <2>1, <2>2, StartGood
  <2>4. Good(s) /\ Here(s, p[1]) /\ Here(s, p[2])
    BY <2>1, <2>2, <2>3, HereStays DEF Stays, Leads
  <2>5. Stays(s, k) BY <2>4, TurnedGood
  <2> QED BY <2>3, <2>5, StayTo
<1> QED BY <1>1, <1>2 DEF Joined

LEMMA SetFightingGood ==
  ASSUME NEW g, Good(g), NEW c, Here(g, c), NEW v, Here(g, v), NEW k \in SetFighting(g, c, v)
  PROVE  Stays(g, k)
<1>1. CASE k = g BY <1>1, LeadsSelf
<1>2. CASE k \in Joined(Start(g, c, v), c)
  <2>1. Stays(g, Start(g, c, v)) BY StartGood
  <2>2. Good(Start(g, c, v)) /\ Here(Start(g, c, v), c) BY <2>1, HereStays DEF Stays, Leads
  <2>3. Stays(Start(g, c, v), k) BY <1>2, <2>2, JoinedGood
  <2> QED BY <2>1, <2>3, StayTo
<1> QED BY <1>1, <1>2 DEF SetFighting

LEMMA SetFightingVehGood ==
  ASSUME NEW g, Good(g), NEW c, Here(g, c), NEW k \in SetFightingVeh(g, c)
  PROVE  Stays(g, k)
<1>0. c \in Char BY DEF Here
<1>1. CASE k = g BY <1>1, LeadsSelf
<1>2. CASE k \in Joined(StartVeh(g, c), c)
  <2>1. Stays(g, StartVeh(g, c)) BY <1>0, StartVehGood
  <2>2. Good(StartVeh(g, c)) /\ Here(StartVeh(g, c), c) BY <2>1, HereStays DEF Stays, Leads
  <2>3. Stays(StartVeh(g, c), k) BY <1>2, <2>2, JoinedGood
  <2> QED BY <2>1, <2>3, StayTo
<1> QED BY <1>1, <1>2 DEF SetFightingVeh

LEMMA FightsBackGood ==
  ASSUME NEW g, Good(g), NEW c, Here(g, c), NEW v, Here(g, v),
         NEW S, \A h \in S : Stays(g, h), NEW k \in FightsBack(S, c, v)
  PROVE  Stays(g, k)
<1>1. PICK h \in S : k = h \/ k \in SetFighting(h, v, c) BY DEF FightsBack
<1>2. Stays(g, h) BY <1>1
<1>3. Good(h) /\ Here(h, c) /\ Here(h, v) BY <1>2, HereStays DEF Stays, Leads
<1>4. Stays(h, k) BY <1>1, <1>3, LeadsSelf, SetFightingGood
<1> QED BY <1>2, <1>4, StayTo

\* The types survive even an attack on somebody who has left.
LEMMA OpponentsIn ==
  ASSUME NEW g \in FightType, NEW c \in Char
  PROVE  Opponents(g, c) \subseteq Char
<1>1. {d \in Char : g.fighting[d] = c /\ SameRoom(g, c, d)} \subseteq Char OBVIOUS
<1>2. g.fighting[c] \in Char \cup {NULL} BY DEF FightType
<1> QED BY <1>1, <1>2 DEF Opponents

LEMMA AssistedTyped ==
  ASSUME NEW g \in FightType, NEW c \in Char, NEW k \in Assisted(g, c)
  PROVE  k \in FightType
<1>1. \A p \in Assistants(g, c) \X Opponents(g, c) : p[1] \in Char /\ p[2] \in Char
  <2>1. Assistants(g, c) \subseteq Char BY DEF Assistants
  <2>2. Opponents(g, c) \subseteq Char BY OpponentsIn
  <2> QED BY <2>1, <2>2
<1> QED BY <1>1, StartTyped DEF Assisted

LEMMA SetFightingTyped ==
  ASSUME NEW g \in FightType, NEW c \in Char, NEW v \in Char, NEW k \in SetFighting(g, c, v)
  PROVE  k \in FightType
<1> DEFINE s == Start(g, c, v)
<1>1. CASE k = g BY <1>1
<1>2. CASE k \in Joined(s, c)
  <2>1. s \in FightType BY StartTyped
  <2> HIDE DEF s
  <2>2. CASE k = s BY <2>1, <2>2
  <2>3. CASE \E p \in Assistants(s, c) \X Opponents(s, c) :
               k \in Turned(Start(s, p[1], p[2]), p[1], p[2])
    <3> PICK p \in Assistants(s, c) \X Opponents(s, c) :
               k \in Turned(Start(s, p[1], p[2]), p[1], p[2])
      BY <2>3
    <3> DEFINE t == Start(s, p[1], p[2])
    <3>1. p[1] \in Char BY DEF Assistants
    <3>2. p[2] \in Char BY <2>1, OpponentsIn
    <3>3. t \in FightType BY <2>1, <3>1, <3>2, StartTyped
    <3>4. Start(t, p[2], p[1]) \in FightType BY <3>1, <3>2, <3>3, StartTyped
    <3>5. k = t \/ k \in Assisted(Start(t, p[2], p[1]), p[2]) BY DEF Turned
    <3> QED BY <3>2, <3>3, <3>4, <3>5, AssistedTyped
  <2> QED BY <1>2, <2>2, <2>3 DEF Joined
<1> QED BY <1>1, <1>2 DEF SetFighting

-----------------------------------------------------------------------------
(* Leaving. *)

LEMMA RelocateGood ==
  ASSUME NEW g, Good(g), NEW c \in Char, NEW room \in Room
  PROVE  Leads(g, Relocate(g, c, room)) /\ Here(Relocate(g, c, room), c)
<1> DEFINE s == StopIf(g, c)
           h == Relocate(g, c, room)
<1>1. Stays(g, s) /\ (Whole(g) => s.fighting[c] = NULL) BY StopIfGood
<1>2. s \in FightType /\ (Whole(s) => Whole(g) /\ Consistent(s))
  BY <1>1 DEF Stays, Leads, Good
<1>3. h = [s EXCEPT !.place[c] = room] BY DEF Relocate
<1> HIDE DEF s, h
<1>4. h \in FightType BY <1>2, <1>3 DEF FightType, Whereabouts
<1>5. /\ h.list = s.list /\ h.ahead = s.ahead /\ h.next = s.next /\ h.fighting = s.fighting
      /\ h.fveh = s.fveh /\ h.approach = s.approach /\ h.broken = s.broken
      /\ h.place[c] = room /\ \A d \in Char \ {c} : h.place[d] = s.place[d]
      /\ h.due = s.due
  BY <1>2, <1>3 DEF FightType
<1>6. ASSUME Whole(h) PROVE Consistent(h)
  <2>0. s.fighting \in [Char -> Char \cup {NULL}] BY <1>2 DEF FightType
  <2>1. Whole(s) /\ Consistent(s) BY <1>2, <1>5, <1>6 DEF Whole
  <2>2. Live(h) BY <1>5, <2>0, <2>1 DEF Consistent, Live, InWorld
  <2> QED BY <1>5, <2>1, <2>2 DEF Consistent, Exact, Busy, Ordered, Chasing, Pointed, Waiting,
         Remaining, Behind
<1>7. Remaining(h) = Remaining(s) BY <1>5 DEF Remaining, Behind
<1>8. Leads(g, h) BY <1>1, <1>4, <1>5, <1>6, <1>7 DEF Stays, Leads, Good, Whole
<1>9. Here(h, c) BY <1>5 DEF Here, InWorld
<1> QED BY <1>8, <1>9 DEF h

LEMMA ExtractGood ==
  ASSUME NEW g, Good(g), NEW c \in Char
  PROVE  Leads(g, ExtractChar(g, c))
<1> DEFINE s == StopIf(g, c)
           t == Stop(s, Attackers(s, c))
           h == ExtractChar(g, c)
<1>1. Stays(g, s) /\ (Whole(g) => s.fighting[c] = NULL) BY StopIfGood
<1>2. s \in FightType /\ Good(s) BY <1>1 DEF Stays, Leads, Good
<1> HIDE DEF s
<1>3. Attackers(s, c) \in SUBSET Char BY <1>2 DEF Attackers, FightType
<1>4. Stays(s, t) BY <1>2, <1>3, StopGood
<1>5. Stays(g, t) BY <1>1, <1>4, StayTo
<1>6. ASSUME Whole(t)
      PROVE  /\ Consistent(t) /\ t.fighting[c] = NULL
             /\ \A d \in Char : t.fighting[d] # c
  <2>1. Whole(s) /\ Whole(g) /\ Consistent(s) /\ Consistent(t)
    BY <1>1, <1>2, <1>4, <1>6 DEF Stays, Leads, Good
  <2>2. \A d \in Char : t.fighting[d] = IF d \in Attackers(s, c) THEN NULL ELSE s.fighting[d]
    BY <1>2, <1>3, StopFields
  <2>3. \A d \in Char : s.fighting[d] = c => d \in Attackers(s, c)
    BY <2>1, CombatAssumption DEF Consistent, Exact, Busy, Attackers
  <2> QED BY <1>1, <2>1, <2>2, <2>3, CombatAssumption
<1>7. t \in FightType /\ t.fighting \in [Char -> Char \cup {NULL}]
  BY <1>5 DEF Stays, Leads, Good, FightType
<1> HIDE DEF t
<1>8. CASE c \notin Mob
  <2>1. h = [t EXCEPT !.place[c] = "menu"] BY <1>8 DEF ExtractChar, s, t
  <2> HIDE DEF h
  <2>2. h \in FightType BY <1>7, <2>1 DEF FightType, Whereabouts
  <2>3. /\ h.list = t.list /\ h.ahead = t.ahead /\ h.next = t.next /\ h.fighting = t.fighting
        /\ h.fveh = t.fveh /\ h.approach = t.approach /\ h.broken = t.broken /\ h.due = t.due
        /\ \A d \in Char \ {c} : h.place[d] = t.place[d]
    BY <1>7, <2>1 DEF FightType
  <2>4. ASSUME Whole(h) PROVE Consistent(h)
    <3>1. Whole(t) BY <2>3, <2>4 DEF Whole
    <3>2. Live(h) BY <1>6, <1>7, <2>3, <3>1 DEF Consistent, Live, InWorld
    <3> QED BY <1>6, <2>3, <3>1, <3>2 DEF Consistent, Exact, Busy, Ordered, Chasing, Pointed, Waiting,
         Remaining, Behind
  <2>5. Remaining(h) = Remaining(t) BY <2>3 DEF Remaining, Behind
  <2>6. Leads(g, h) BY <1>5, <2>2, <2>3, <2>4, <2>5 DEF Stays, Leads, Good, Whole
  <2> QED BY <2>6 DEF h
<1>9. CASE c \in Mob
  <2> DEFINE u == Cleared(t, c)
             fv == Put(u.fveh, {c}, FALSE)
             ap == Put(u.approach, {c}, FALSE)
             po == Put(u.pos, {c}, "standing")
  <2>1. h = [u EXCEPT !.place[c] = "pool", !.fveh = fv, !.approach = ap, !.pos = po,
                      !.well[c] = TRUE]
    BY <1>9 DEF ExtractChar, s, t
  <2>2. /\ u \in FightType
        /\ c \in t.list => u.broken = "cut"
        /\ c \notin t.list => u = t
    BY <1>7 DEF Cleared, FightType
  <2> HIDE DEF h, u
  <2>3. /\ fv \in [Char -> BOOLEAN] /\ ap \in [Char -> BOOLEAN]
        /\ po \in [Char -> {"standing", "fighting", "down"}]
        /\ ~fv[c] /\ ~ap[c]
        /\ \A d \in Char \ {c} : fv[d] = u.fveh[d] /\ ap[d] = u.approach[d]
    BY <2>2 DEF Put, FightType
  <2> HIDE DEF fv, ap, po
  <2>4. h \in FightType BY <2>1, <2>2, <2>3 DEF FightType, Whereabouts
  <2>5. /\ h.list = u.list /\ h.ahead = u.ahead /\ h.next = u.next /\ h.fighting = u.fighting
        /\ h.fveh = fv /\ h.approach = ap /\ h.broken = u.broken /\ h.due = u.due
        /\ \A d \in Char \ {c} : h.place[d] = u.place[d]
    BY <2>1, <2>2 DEF FightType
  <2>6. ASSUME Whole(h) PROVE Whole(t) /\ Consistent(h) /\ u = t
    <3>1. u = t /\ c \notin t.list /\ Whole(t) BY <2>2, <2>5, <2>6 DEF Whole
    <3>2. Consistent(t) /\ t.fighting[c] = NULL /\ \A d \in Char : t.fighting[d] # c
      BY <1>6, <3>1
    <3>3. Exact(h) BY <2>3, <2>5, <3>1, <3>2 DEF Consistent, Exact, Busy
    <3>4. Live(h) BY <1>7, <2>5, <3>1, <3>2 DEF Consistent, Live, InWorld
    <3>5. Chasing(h) BY <2>3, <2>5, <3>1, <3>2 DEF Consistent, Chasing
    <3> QED BY <2>5, <3>1, <3>2, <3>3, <3>4, <3>5
         DEF Consistent, Ordered, Pointed, Waiting, Remaining, Behind
  <2>7. u = t => Remaining(h) = Remaining(t) BY <2>5 DEF Remaining, Behind
  <2>8. Leads(g, h) BY <1>5, <2>4, <2>6, <2>7 DEF Stays, Leads, Good
  <2> QED BY <2>8 DEF h
<1> QED BY <1>8, <1>9

LEMMA NoticedGood ==
  ASSUME NEW g, Good(g), NEW c, Here(g, c), NEW k \in Noticed(g, c)
  PROVE  Stays(g, k)
<1>1. CASE k = g BY <1>1, LeadsSelf
<1>2. CASE \E m \in Mob \ {c} : SameRoom(g, m, c) /\ k \in SetFighting(g, m, c)
  <2> PICK m \in Mob \ {c} : SameRoom(g, m, c) /\ k \in SetFighting(g, m, c) BY <1>2
  <2>1. Here(g, m) BY CombatAssumption DEF Here, SameRoom, InWorld
  <2> QED BY <2>1, SetFightingGood
<1> QED BY <1>1, <1>2 DEF Noticed

LEMMA FleeGood ==
  ASSUME NEW g, Good(g), NEW c \in Char, NEW k \in Flee(g, c)
  PROVE  Leads(g, k)
<1>1. CASE k = g BY <1>1, LeadsSelf DEF Stays
<1>2. CASE k # g
  <2>0. PICK r \in Room \ {g.place[c]} : \E s \in Noticed(Relocate(g, c, r), c) :
          LET foes == {d \in Char : s.fighting[d] = c /\ g.place[d] = g.place[c]}
          IN  \E A \in SUBSET (foes \cap Melee) :
                \/ k = Stop(s, A)
                \/ \E d \in foes \ Melee : k \in SetFighting(Stop(s, A), c, d)
    BY <1>2 DEF Flee
  <2>1. PICK s \in Noticed(Relocate(g, c, r), c) :
          LET foes == {d \in Char : s.fighting[d] = c /\ g.place[d] = g.place[c]}
          IN  \E A \in SUBSET (foes \cap Melee) :
                \/ k = Stop(s, A)
                \/ \E d \in foes \ Melee : k \in SetFighting(Stop(s, A), c, d)
    BY <2>0
  <2> DEFINE q == Relocate(g, c, r)
             foes == {d \in Char : s.fighting[d] = c /\ g.place[d] = g.place[c]}
  <2>2. PICK A \in SUBSET (foes \cap Melee) :
                \/ k = Stop(s, A)
                \/ \E d \in foes \ Melee : k \in SetFighting(Stop(s, A), c, d)
    BY <2>1
  <2>3. Leads(g, q) /\ Here(q, c) BY RelocateGood
  <2>4. Good(q) /\ s \in Noticed(q, c) BY <2>1, <2>3 DEF Leads
  <2> HIDE DEF q
  <2>5. Stays(q, s) BY <2>3, <2>4, NoticedGood
  <2>6. Good(s) /\ Here(s, c) BY <2>3, <2>5, HereStays DEF Stays, Leads
  <2>7. A \in SUBSET Char BY <2>2
  <2>8. Stays(s, Stop(s, A)) BY <2>6, <2>7, StopGood
  <2>9. Good(Stop(s, A)) /\ Here(Stop(s, A), c) BY <2>6, <2>8, HereStays DEF Stays, Leads
  <2>10. \A d \in foes : Here(Stop(s, A), d)
    <3> SUFFICES ASSUME NEW d \in foes PROVE Here(s, d) BY <2>8, HereStays
    <3>1. d \in Char /\ s.fighting[d] # NULL BY CombatAssumption
    <3> QED BY <2>6, <3>1 DEF Good, Consistent, Live, Here
  <2>11. Leads(s, k)
    <3>1. CASE k = Stop(s, A) BY <2>8, <3>1 DEF Stays
    <3>2. CASE \E d \in foes \ Melee : k \in SetFighting(Stop(s, A), c, d)
      <4> PICK d \in foes \ Melee : k \in SetFighting(Stop(s, A), c, d) BY <3>2
      <4>1. Stays(Stop(s, A), k) BY <2>9, <2>10, SetFightingGood
      <4> QED BY <2>8, <4>1, StayTo DEF Stays
    <3> QED BY <2>2, <3>1, <3>2
  <2> QED BY <2>3, <2>5, <2>11, LeadsTo DEF Stays
<1> QED BY <1>1, <1>2

-----------------------------------------------------------------------------
(* Blows. *)

\* Fields that only say how somebody is.
LEMMA HealthGood ==
  ASSUME NEW g, Good(g), NEW w \in [Char -> BOOLEAN],
         NEW po \in [Char -> {"standing", "fighting", "down"}]
  PROVE  Stays(g, [g EXCEPT !.well = w, !.pos = po])
<1> DEFINE h == [g EXCEPT !.well = w, !.pos = po]
<1>0. g \in FightType BY DEF Good
<1>1. h \in FightType BY <1>0 DEF FightType
<1>2. /\ h.list = g.list /\ h.ahead = g.ahead /\ h.next = g.next /\ h.fighting = g.fighting
      /\ h.fveh = g.fveh /\ h.approach = g.approach /\ h.broken = g.broken
      /\ h.place = g.place /\ h.due = g.due
  BY <1>0 DEF FightType
<1> HIDE DEF h
<1>3. Whole(h) => Consistent(h)
  BY <1>2, ZenonT(60) DEF Good, Whole, Consistent, Exact, Busy, Ordered, Live, InWorld, Chasing, Pointed,
         Waiting, Remaining, Behind
<1>4. Remaining(h) = Remaining(g) BY <1>2 DEF Remaining, Behind
<1>5. Stays(g, h) BY <1>1, <1>2, <1>3, <1>4 DEF Stays, Leads, Good, Whole
<1> QED BY <1>5 DEF h

LEMMA FelledGood ==
  ASSUME NEW g, Good(g), NEW c \in Char, NEW v \in Char
  PROVE  Stays(g, Felled(g, c, v))
<1> DEFINE s == [g EXCEPT !.well[v] = FALSE, !.pos = Put(@, {v}, "down")]
           t == IF s.fighting[c] = v THEN Stop(s, {c}) ELSE s
<1>0. g \in FightType BY DEF Good
<1>1. Stays(g, s)
  <2> DEFINE w == [g.well EXCEPT ![v] = FALSE]
             po == Put(g.pos, {v}, "down")
  <2>1. w \in [Char -> BOOLEAN] BY <1>0 DEF FightType
  <2>2. po \in [Char -> {"standing", "fighting", "down"}] BY <1>0 DEF FightType, Put
  <2>3. s = [g EXCEPT !.well = w, !.pos = po] BY <1>0 DEF FightType
  <2> HIDE DEF w, po, s
  <2> QED BY <2>1, <2>2, <2>3, HealthGood
<1>2. Good(s) BY <1>1 DEF Stays, Leads
<1> HIDE DEF s
<1>3. Stays(s, t) BY <1>2, StopGood, LeadsSelf
<1>4. Good(t) BY <1>3 DEF Stays, Leads
<1>5. Felled(g, c, v) = StopIf(t, v) BY DEF Felled, s
<1> HIDE DEF t
<1>6. Stays(t, StopIf(t, v)) BY <1>4, StopIfGood
<1> QED BY <1>1, <1>3, <1>5, <1>6, StayTo

LEMMA RescuedGood ==
  ASSUME NEW g, Good(g), NEW c \in Char, NEW v \in Char
  PROVE  Leads(g, Rescued(g, c, v))
<1> DEFINE w == g.fighting[v]
           s == IF w # NULL /\ g.fighting[w] = v THEN Stop(g, {w}) ELSE g
           t == Felled(s, c, v)
<1>1. w \in Char \cup {NULL} BY DEF Good, FightType
<1>2. Stays(g, s)
  <2>1. CASE w # NULL /\ g.fighting[w] = v BY <1>1, <2>1, StopGood
  <2>2. CASE ~(w # NULL /\ g.fighting[w] = v) BY <2>2, LeadsSelf
  <2> QED BY <2>1, <2>2
<1>3. Rescued(g, c, v) = Relocate(t, v, Hospital) BY DEF Rescued
<1> HIDE DEF s
<1>4. Good(s) BY <1>2 DEF Stays, Leads
<1>5. Stays(s, t) BY <1>4, FelledGood
<1>6. Good(t) BY <1>5 DEF Stays, Leads
<1> HIDE DEF t
<1>7. Leads(t, Relocate(t, v, Hospital)) BY <1>6, CombatAssumption, RelocateGood
<1> QED BY <1>2, <1>3, <1>5, <1>7, LeadsTo DEF Stays

LEMMA WoundGood ==
  ASSUME NEW g, Good(g), NEW c \in Char, NEW v \in Char, NEW k \in Wound(g, c, v)
  PROVE  Leads(g, k)
<1>1. CASE k = g BY <1>1, LeadsSelf DEF Stays
<1>2. Stays(g, Felled(g, c, v)) BY FelledGood
<1>3. CASE k = ExtractChar(Felled(g, c, v), v)
  <2>1. Good(Felled(g, c, v)) BY <1>2 DEF Stays, Leads
  <2>2. Leads(Felled(g, c, v), k) BY <1>3, <2>1, ExtractGood
  <2> QED BY <1>2, <2>2, LeadsTo DEF Stays
<1>4. CASE k = Rescued(g, c, v) BY <1>4, RescuedGood
<1>5. CASE k \in Flee(g, v) BY <1>5, FleeGood
<1> QED BY <1>1, <1>2, <1>3, <1>4, <1>5 DEF Wound, Stays

LEMMA EngagedGood ==
  ASSUME NEW g, Good(g), NEW c, Here(g, c), NEW v, Here(g, v), NEW k \in Engaged(g, c, v)
  PROVE  Stays(g, k)
<1>1. PICK h \in IF g.pos[c] # "down" /\ g.fighting[c] = NULL THEN SetFighting(g, c, v) ELSE {g} :
        k = h \/ k \in FightsBack({h}, c, v)
  BY DEF Engaged
<1>2. Stays(g, h)
  <2>1. CASE h = g BY <2>1, LeadsSelf
  <2>2. CASE h \in SetFighting(g, c, v) BY <2>2, SetFightingGood
  <2> QED BY <1>1, <2>1, <2>2
<1>3. CASE k = h BY <1>2, <1>3
<1>4. CASE k \in FightsBack({h}, c, v) BY <1>2, <1>4, FightsBackGood
<1> QED BY <1>1, <1>3, <1>4

LEMMA MasterStepsGood ==
  ASSUME NEW g, Good(g), NEW c, Here(g, c), NEW v, Here(g, v), NEW k \in MasterSteps(g, c, v)
  PROVE  Stays(g, k)
<1> DEFINE m == Partner[v]
<1>1. PICK h \in SetFighting(g, c, v) :
        k \in FightsBack(SetFighting(StopIf(h, c), c, m), c, m)
  BY DEF MasterSteps
<1>2. Charmed(c, v) /\ SameRoom(g, c, m) BY DEF MasterSteps
<1>3. m \in Char BY <1>2, CombatAssumption DEF Charmed, Here
<1>4. Here(g, m) BY <1>2, <1>3 DEF Here, SameRoom, InWorld
<1> HIDE DEF m
<1>5. Stays(g, h) BY <1>1, SetFightingGood
<1>6. Good(h) /\ c \in Char BY <1>5 DEF Stays, Leads, Here
<1> DEFINE s == StopIf(h, c)
<1>7. Stays(h, s) BY <1>6, StopIfGood
<1> HIDE DEF s
<1>8. Stays(g, s) BY <1>5, <1>7, StayTo
<1>9. Good(s) /\ Here(s, c) /\ Here(s, m) BY <1>4, <1>8, HereStays DEF Stays, Leads
<1>10. \A q \in SetFighting(s, c, m) : Stays(s, q) BY <1>9, SetFightingGood
<1>11. k \in FightsBack(SetFighting(s, c, m), c, m) BY <1>1 DEF s
<1>12. Stays(s, k) BY <1>9, <1>10, <1>11, FightsBackGood
<1> QED BY <1>8, <1>12, StayTo

LEMMA DamageGood ==
  ASSUME NEW g, Good(g), NEW c, Here(g, c), NEW v, Here(g, v), NEW k \in Damage(g, c, v)
  PROVE  Leads(g, k)
<1>0. c \in Char /\ v \in Char BY DEF Here
<1>1. CASE c = v BY <1>0, <1>1, WoundGood DEF Damage
<1>2. CASE c # v /\ k \in MasterSteps(g, c, v) BY <1>2, MasterStepsGood DEF Stays
<1>3. CASE c # v /\ \E h \in Engaged(g, c, v) : k \in Linkless(h, v) \/ k \in Wound(h, c, v)
  <2> PICK h \in Engaged(g, c, v) : k \in Linkless(h, v) \/ k \in Wound(h, c, v) BY <1>3
  <2>1. Stays(g, h) BY EngagedGood
  <2>2. Good(h) BY <2>1 DEF Stays, Leads
  <2>3. CASE k \in Wound(h, c, v)
    <3>1. Leads(h, k) BY <1>0, <2>2, <2>3, WoundGood
    <3> QED BY <2>1, <3>1, LeadsTo DEF Stays
  <2>4. CASE k \in Linkless(h, v)
    <3>1. k = h \/ k = Relocate(h, v, Hospital) BY <2>4 DEF Linkless
    <3>2. Leads(h, Relocate(h, v, Hospital))
      BY <1>0, <2>2, RelocateGood, CombatAssumption
    <3>3. Leads(h, k) BY <2>2, <3>1, <3>2, LeadsSelf DEF Stays
    <3> QED BY <2>1, <3>3, LeadsTo DEF Stays
  <2> QED BY <2>3, <2>4
<1> QED BY <1>1, <1>2, <1>3 DEF Damage

LEMMA HitGood ==
  ASSUME NEW g, Good(g), NEW c, Here(g, c), NEW v, Here(g, v), NEW k \in Hit(g, c, v)
  PROVE  Leads(g, k)
<1>0. c \in Char /\ v \in Char BY DEF Here
<1>1. CASE k = g BY <1>1, LeadsSelf DEF Stays
<1>2. CASE k = Stop(g, {c} \cup {d \in {v} : g.fighting[d] = c /\ ~SameRoom(g, c, d)})
  <2> DEFINE S == {c} \cup {d \in {v} : g.fighting[d] = c /\ ~SameRoom(g, c, d)}
  <2>1. S \in SUBSET Char /\ k = Stop(g, S) BY <1>0, <1>2
  <2> HIDE DEF S
  <2> QED BY <2>1, StopGood DEF Stays
<1>3. CASE k \in FightsBack({g}, c, v) BY <1>3, FightsBackGood, LeadsSelf DEF Stays
<1>4. CASE \E h \in Damage(g, c, v) : k = h \/ (InWorld(h, c) /\ k \in Damage(h, c, c))
  <2> PICK h \in Damage(g, c, v) : k = h \/ (InWorld(h, c) /\ k \in Damage(h, c, c)) BY <1>4
  <2>1. Leads(g, h) BY DamageGood
  <2>2. Good(h) BY <2>1 DEF Leads
  <2>3. CASE k \in Damage(h, c, c)
    <3>1. k \in Wound(h, c, c) BY <2>3 DEF Damage
    <3>2. Leads(h, k) BY <1>0, <2>2, <3>1, WoundGood
    <3> QED BY <2>1, <3>2, LeadsTo
  <2> QED BY <2>1, <2>3
<1>5. \/ k = g
      \/ k = Stop(g, {c} \cup {d \in {v} : g.fighting[d] = c /\ ~SameRoom(g, c, d)})
      \/ k \in FightsBack({g}, c, v)
      \/ \E h \in Damage(g, c, v) : k = h \/ (InWorld(h, c) /\ k \in Damage(h, c, c))
  BY DEF Hit
<1> QED BY <1>1, <1>2, <1>3, <1>4, <1>5

LEMMA RelocateHere ==
  ASSUME NEW g, Good(g), NEW c \in Char, NEW room \in Room, NEW d \in Char, InWorld(g, d)
  PROVE  Here(Relocate(g, c, room), d)
<1>1. StopIf(g, c) \in FightType /\ StopIf(g, c).place = g.place
  BY StopIfGood DEF Stays, Leads, Good
<1>2. Relocate(g, c, room).place = [g.place EXCEPT ![c] = room]
  BY <1>1 DEF Relocate, FightType
<1>3. g.place \in [Char -> Whereabouts] BY DEF Good, FightType
<1> QED BY <1>2, <1>3 DEF Here, InWorld

LEMMA RangedGood ==
  ASSUME NEW g, Good(g), NEW c \in Char, NEW v \in Char, NEW k \in RangedResponse(g, c, v)
  PROVE  Leads(g, k)
<1> DEFINE s == [g EXCEPT !.pos = IF g.pos[v] = "fighting" THEN @ ELSE Put(@, {v}, "standing")]
<1>0. g \in FightType BY DEF Good
<1>1. CASE k = g BY <1>1, LeadsSelf DEF Stays
<1>2. CASE InWorld(g, v) /\ k # g
  <2>1. Stays(g, s) /\ s.fighting = g.fighting
    <3> DEFINE po == IF g.pos[v] = "fighting" THEN g.pos ELSE Put(g.pos, {v}, "standing")
    <3>1. po \in [Char -> {"standing", "fighting", "down"}] BY <1>0 DEF FightType, Put
    <3>2. g.well \in [Char -> BOOLEAN] BY <1>0 DEF FightType
    <3>3. s = [g EXCEPT !.well = g.well, !.pos = po] BY <1>0 DEF FightType
    <3>4. s.fighting = g.fighting BY <1>0 DEF FightType
    <3> HIDE DEF po, s
    <3> QED BY <3>1, <3>2, <3>3, <3>4, HealthGood
  <2>2. Good(s) /\ InWorld(s, v) BY <1>2, <2>1 DEF Stays, Leads, InWorld
  <2>3. \/ k = s
        \/ k \in Flee(s, v)
        \/ ~InWorld(s, c) /\ \E h \in SetFighting(s, v, c) : k = [h EXCEPT !.broken = "ghost"]
        \/ InWorld(s, c) /\ k \in SetFighting(Relocate(s, v, s.place[c]), v, c)
        \/ InWorld(s, c) /\ k \in SetFighting(s, v, c)
    BY <1>2 DEF RangedResponse
  <2> HIDE DEF s
  <2>4. CASE k = s BY <2>1, <2>4 DEF Stays
  <2>5. CASE k \in Flee(s, v)
    <3>1. Leads(s, k) BY <2>2, <2>5, FleeGood
    <3> QED BY <2>1, <3>1, LeadsTo DEF Stays
  <2>6. CASE \E h \in SetFighting(s, v, c) : k = [h EXCEPT !.broken = "ghost"]
    <3>1. PICK h \in SetFighting(s, v, c) : k = [h EXCEPT !.broken = "ghost"] BY <2>6
    <3>2. h \in FightType BY <2>2, SetFightingTyped DEF Good
    <3>3. k \in FightType /\ k.broken = "ghost" BY <3>1, <3>2 DEF FightType
    <3> QED BY <3>3 DEF Leads, Good, Whole
  <2>7. CASE InWorld(s, c) /\ k \in SetFighting(s, v, c)
    <3>1. Here(s, v) /\ Here(s, c) BY <2>2, <2>7 DEF Here
    <3>2. Stays(s, k) BY <2>2, <2>7, <3>1, SetFightingGood
    <3> QED BY <2>1, <3>2, StayTo DEF Stays
  <2>8. CASE InWorld(s, c) /\ k \in SetFighting(Relocate(s, v, s.place[c]), v, c)
    <3> DEFINE q == Relocate(s, v, s.place[c])
    <3>1. s.place[c] \in Room BY <2>8 DEF InWorld
    <3>2. Leads(s, q) /\ Here(q, v) BY <2>2, <3>1, RelocateGood
    <3>3. Here(q, c) BY <2>2, <2>8, <3>1, RelocateHere
    <3>4. Good(q) BY <3>2 DEF Leads
    <3> HIDE DEF q
    <3>5. Stays(q, k) BY <2>8, <3>2, <3>3, <3>4, SetFightingGood DEF q
    <3> QED BY <2>1, <3>2, <3>5, LeadsTo DEF Stays
  <2> QED BY <2>3, <2>4, <2>5, <2>6, <2>7, <2>8
<1> QED BY <1>1, <1>2 DEF RangedResponse

-----------------------------------------------------------------------------
(* Commands. *)

LEMMA HereNow ==
  ASSUME NEW c \in Char, InWorld(f, c)
  PROVE  Here(f, c)
  BY DEF Here

LEMMA DoHitGood ==
  ASSUME Good(f), NEW c \in Char, NEW v \in Char, DoHit(c, v)
  PROVE  Good(f')
<1> DEFINE s == StopIf(f, c)
           S == SetFighting(s, c, v)
<1>1. Here(f, c) /\ Here(f, v) BY HereNow DEF DoHit, Acts
<1>2. Stays(f, s) BY StopIfGood
<1>3. f' \in S \cup FightsBack(S, c, v) BY DEF DoHit, Becomes
<1> HIDE DEF s
<1>4. Good(s) /\ Here(s, c) /\ Here(s, v) BY <1>1, <1>2, HereStays DEF Stays, Leads
<1>5. \A h \in S : Stays(s, h) BY <1>4, SetFightingGood
<1> HIDE DEF S
<1>6. Stays(s, f') BY <1>3, <1>4, <1>5, FightsBackGood
<1> QED BY <1>6 DEF Stays, Leads

LEMMA DoAssistGood ==
  ASSUME Good(f), NEW c \in Char, NEW h \in Char, DoAssist(c, h)
  PROVE  Good(f')
<1>1. Here(f, c) /\ Here(f, h) BY HereNow DEF DoAssist, Acts, SameRoom, InWorld
<1>2. PICK o \in Opponents(f, h) : f' \in FightsBack(SetFighting(f, c, o), c, o)
  BY DEF DoAssist, Becomes
<1>3. Here(f, o) BY <1>1, OpponentsHere
<1>4. \A k \in SetFighting(f, c, o) : Stays(f, k) BY <1>1, <1>3, SetFightingGood
<1>5. Stays(f, f') BY <1>1, <1>2, <1>3, <1>4, FightsBackGood
<1> QED BY <1>5 DEF Stays, Leads

LEMMA ShootGood ==
  ASSUME Good(f), NEW c \in Char, NEW v \in Char, Shoot(c, v)
  PROVE  Good(f')
<1> DEFINE s == StopIf(f, c)
<1>1. Here(f, c) /\ Here(f, v) BY HereNow DEF Shoot, Acts
<1>2. Stays(f, s) BY StopIfGood
<1>3. PICK h \in Hit(s, c, v) : f' \in RangedResponse(h, c, v) BY DEF Shoot, Becomes
<1> HIDE DEF s
<1>4. Good(s) /\ Here(s, c) /\ Here(s, v) BY <1>1, <1>2, HereStays DEF Stays, Leads
<1>5. Good(h) BY <1>4, HitGood DEF Leads
<1>6. Leads(h, f') BY <1>3, <1>5, RangedGood
<1> QED BY <1>6 DEF Leads

LEMMA WalkGood ==
  ASSUME Good(f), NEW c \in Char, Walk(c)
  PROVE  Good(f')
<1>1. PICK r \in Room : f' \in Noticed(Relocate(f, c, r), c) BY DEF Walk, Becomes
<1>2. Leads(f, Relocate(f, c, r)) /\ Here(Relocate(f, c, r), c) BY RelocateGood
<1>3. Good(Relocate(f, c, r)) BY <1>2 DEF Leads
<1>4. Stays(Relocate(f, c, r), f') BY <1>1, <1>2, <1>3, NoticedGood
<1> QED BY <1>4 DEF Stays, Leads

LEMMA VoidGood ==
  ASSUME Good(f), NEW c \in Char, Void(c)
  PROVE  Good(f')
<1> DEFINE s == IF f.fighting[c] # NULL THEN Stop(f, {c, f.fighting[c]}) ELSE f
<1>1. f' = Relocate(s, c, Hospital) BY DEF Void, Becomes
<1>2. Stays(f, s)
  <2>1. CASE f.fighting[c] # NULL
    <3>1. f.fighting[c] \in Char BY <2>1 DEF Good, FightType
    <3>2. {c, f.fighting[c]} \in SUBSET Char BY <3>1
    <3> QED BY <2>1, <3>2, StopGood
  <2>2. CASE f.fighting[c] = NULL BY <2>2, LeadsSelf
  <2> QED BY <2>1, <2>2
<1> HIDE DEF s
<1>3. Good(s) BY <1>2 DEF Stays, Leads
<1>4. Leads(s, f') BY <1>1, <1>3, RelocateGood, CombatAssumption
<1> QED BY <1>4 DEF Leads

\* Only AFF_APPROACH changes, and only of those who fight somebody.
LEMMA ApproachGood ==
  ASSUME NEW g, Good(g), NEW ap \in [Char -> BOOLEAN],
         \A c \in Char : ap[c] => g.approach[c] \/ g.fighting[c] # NULL
  PROVE  Stays(g, [g EXCEPT !.approach = ap])
<1> DEFINE h == [g EXCEPT !.approach = ap]
<1>0. g \in FightType BY DEF Good
<1>1. h \in FightType BY <1>0 DEF FightType
<1>2. /\ h.list = g.list /\ h.ahead = g.ahead /\ h.next = g.next /\ h.fighting = g.fighting
      /\ h.fveh = g.fveh /\ h.approach = ap /\ h.broken = g.broken /\ h.place = g.place
      /\ h.due = g.due
  BY <1>0 DEF FightType
<1> HIDE DEF h
<1>3. Whole(h) => Consistent(h)
  BY <1>2, ZenonT(60) DEF Good, Whole, Consistent, Exact, Busy, Ordered, Live, InWorld, Chasing, Pointed,
         Waiting, Remaining, Behind
<1>4. Remaining(h) = Remaining(g) BY <1>2 DEF Remaining, Behind
<1>5. Stays(g, h) BY <1>1, <1>2, <1>3, <1>4 DEF Stays, Leads, Good, Whole
<1> QED BY <1>5 DEF h

LEMMA LoseWeaponGood ==
  ASSUME Good(f), NEW c \in Char, LoseWeapon(c)
  PROVE  Good(f')
<1> DEFINE ap == Put(f.approach, {c}, TRUE)
<1>1. f' = [f EXCEPT !.approach = ap] BY DEF LoseWeapon, Good, FightType
<1>2. ap \in [Char -> BOOLEAN] BY DEF Good, FightType, Put
<1>3. \A d \in Char : ap[d] => f.approach[d] \/ f.fighting[d] # NULL BY DEF LoseWeapon, Put
<1> HIDE DEF ap
<1>4. Stays(f, f') BY <1>1, <1>2, <1>3, ApproachGood
<1> QED BY <1>4 DEF Stays, Leads

\* Between rounds nobody is waited for: a change of place of somebody who does not fight.
LEMMA PlacedGood ==
  ASSUME NEW g, Good(g), NEW h \in FightType, NEW c \in Char, InWorld(h, c),
         h.list = g.list, h.ahead = g.ahead, h.next = g.next, h.fighting = g.fighting,
         h.fveh = g.fveh, h.approach = g.approach, h.broken = g.broken, h.due = g.due,
         \A d \in Char \ {c} : h.place[d] = g.place[d]
  PROVE  Good(h)
<1>1. ASSUME Whole(h) PROVE Consistent(h)
  <2>1. Consistent(g) BY <1>1 DEF Good, Whole
  <2>2. g.fighting \in [Char -> Char \cup {NULL}] BY DEF Good, FightType
  <2>3. \A d \in Char : InWorld(g, d) => InWorld(h, d) BY DEF InWorld
  <2>4. Live(h) BY <2>1, <2>2, <2>3 DEF Consistent, Live
  <2> QED BY <2>1, <2>4 DEF Consistent, Exact, Busy, Ordered, Chasing, Pointed, Waiting,
         Remaining, Behind
<1> QED BY <1>1 DEF Good

LEMMA EnterGameGood ==
  ASSUME Good(f), NEW c \in Char, EnterGame(c)
  PROVE  Good(f')
<1> DEFINE u == Cleared(f, c)
           fi == Put(u.fighting, {c}, NULL)
           po == Put(u.pos, {c}, "standing")
<1>0. f \in FightType BY DEF Good
<1>1. PICK r \in Room : f' = [u EXCEPT !.fighting = fi, !.well[c] = TRUE, !.pos = po,
                                       !.place[c] = r]
  BY DEF EnterGame
<1>2. /\ u \in FightType
      /\ c \in f.list => u.broken = "cut"
      /\ c \notin f.list => u = f
  BY <1>0 DEF Cleared, FightType
<1> HIDE DEF u
<1>3. fi \in [Char -> Char \cup {NULL}] /\ po \in [Char -> {"standing", "fighting", "down"}]
  BY <1>2 DEF Put, FightType
<1>4. c \notin f.list /\ Whole(f) => fi = f.fighting
  <2> SUFFICES ASSUME c \notin f.list, Whole(f) PROVE fi = f.fighting OBVIOUS
  <2>1. f.fighting[c] = NULL BY DEF Good, Consistent, Exact, Busy
  <2>2. u = f /\ f.fighting \in [Char -> Char \cup {NULL}] BY <1>0, <1>2 DEF FightType
  <2> QED BY <2>1, <2>2 DEF Put
<1> HIDE DEF fi, po
<1>5. f' \in FightType BY <1>1, <1>2, <1>3 DEF FightType, Whereabouts
<1>6. /\ f'.list = u.list /\ f'.ahead = u.ahead /\ f'.next = u.next /\ f'.fighting = fi
      /\ f'.fveh = u.fveh /\ f'.approach = u.approach /\ f'.broken = u.broken /\ f'.due = u.due
      /\ f'.place[c] = r /\ \A d \in Char \ {c} : f'.place[d] = u.place[d]
  <2>1. u.place \in [Char -> Whereabouts] BY <1>2 DEF FightType
  <2>2. /\ f'.list = u.list /\ f'.ahead = u.ahead /\ f'.next = u.next /\ f'.fighting = fi
        /\ f'.fveh = u.fveh /\ f'.approach = u.approach /\ f'.broken = u.broken /\ f'.due = u.due
    BY <1>1, <1>2, ZenonT(60) DEF FightType
  <2>3. f'.place = [u.place EXCEPT ![c] = r] BY <1>1, <1>2, ZenonT(60) DEF FightType
  <2> QED BY <2>1, <2>2, <2>3
<1>7. CASE c \in f.list BY <1>2, <1>5, <1>6, <1>7 DEF Good, Whole
<1>8. CASE c \notin f.list /\ ~Whole(f) BY <1>2, <1>5, <1>6, <1>8 DEF Good, Whole
<1>9. CASE c \notin f.list /\ Whole(f)
  <2>1. InWorld(f', c) BY <1>6 DEF InWorld
  <2>2. /\ f'.list = f.list /\ f'.ahead = f.ahead /\ f'.next = f.next
        /\ f'.fighting = f.fighting
        /\ f'.fveh = f.fveh /\ f'.approach = f.approach /\ f'.broken = f.broken
        /\ f'.due = f.due /\ \A d \in Char \ {c} : f'.place[d] = f.place[d]
    BY <1>2, <1>4, <1>6, <1>9
  <2> QED BY <1>5, <2>1, <2>2, PlacedGood
<1> QED BY <1>7, <1>8, <1>9

LEMMA NewMobGood ==
  ASSUME Good(f), NEW c \in Char, NewMob(c)
  PROVE  Good(f')
<1>0. f \in FightType BY DEF Good
<1>1. PICK r \in Room : f' = [f EXCEPT !.place[c] = r] BY DEF NewMob
<1>2. f' \in FightType BY <1>0, <1>1 DEF FightType, Whereabouts
<1>3. /\ f'.list = f.list /\ f'.ahead = f.ahead /\ f'.next = f.next
      /\ f'.fighting = f.fighting /\ f'.fveh = f.fveh /\ f'.approach = f.approach
      /\ f'.broken = f.broken /\ f'.place[c] = r /\ f'.due = f.due
      /\ \A d \in Char \ {c} : f'.place[d] = f.place[d]
  BY <1>0, <1>1 DEF FightType
<1>4. InWorld(f', c) BY <1>3 DEF InWorld
<1> QED BY <1>2, <1>3, <1>4, PlacedGood

LEMMA RecoverGood ==
  ASSUME Good(f), NEW c \in Char, Recover(c)
  PROVE  Good(f')
<1> DEFINE w == [f.well EXCEPT ![c] = TRUE]
           po == IF f.pos[c] = "down" THEN Put(f.pos, {c}, "standing") ELSE f.pos
<1>0. f \in FightType BY DEF Good
<1>1. w \in [Char -> BOOLEAN] /\ po \in [Char -> {"standing", "fighting", "down"}]
  BY <1>0 DEF FightType, Put
<1>2. f' = [f EXCEPT !.well = w, !.pos = po] BY <1>0 DEF Recover, FightType
<1> HIDE DEF w, po
<1> QED BY <1>1, <1>2, HealthGood DEF Stays, Leads

LEMMA CommandsGood ==
  ASSUME Good(f), Commands
  PROVE  Good(f')
<1>1. ASSUME NEW c \in Char, NEW v \in Char, DoHit(c, v) \/ DoAssist(c, v) \/ Shoot(c, v)
      PROVE  Good(f')
  BY <1>1, DoHitGood, DoAssistGood, ShootGood
<1>2. ASSUME NEW c \in Char, DoHitVeh(c) PROVE Good(f')
  BY <1>2, HereNow, SetFightingVehGood DEF DoHitVeh, Acts, Becomes, Stays, Leads
<1>3. ASSUME NEW c \in Char, DoFlee(c) PROVE Good(f')
  BY <1>3, FleeGood DEF DoFlee, Becomes, Leads
<1>4. ASSUME NEW c \in Char, Die(c) \/ DoQuit(c) PROVE Good(f')
  BY <1>4, ExtractGood DEF Die, DoQuit, Leads
<1>5. ASSUME NEW c \in Char,
             Walk(c) \/ Void(c) \/ LoseWeapon(c) \/ EnterGame(c) \/ NewMob(c) \/ Recover(c)
      PROVE  Good(f')
  BY <1>5, WalkGood, VoidGood, LoseWeaponGood, EnterGameGood, NewMobGood, RecoverGood
<1> QED BY <1>1, <1>2, <1>3, <1>4, <1>5 DEF Commands

-----------------------------------------------------------------------------
(* The round. *)

LEMMA InitGood ==
  ASSUME Init
  PROVE  Good(f)
<1>1. PICK rooms \in [Char -> Room] :
    f = [list |-> {}, ahead |-> {}, next |-> NULL,
         fighting |-> [c \in Char |-> NULL], fveh |-> [c \in Char |-> FALSE],
         approach |-> [c \in Char |-> FALSE], pos |-> [c \in Char |-> "standing"],
         well |-> [c \in Char |-> TRUE], place |-> rooms,
         due |-> {}, broken |-> ""]
  BY DEF Init
<1>2. f \in FightType BY <1>1 DEF FightType, Whereabouts
<1>3. Consistent(f)
  BY <1>1 DEF Consistent, Exact, Busy, Ordered, Live, Chasing, Pointed, Waiting, Remaining
<1> QED BY <1>2, <1>3 DEF Good

LEMMA StartRoundGood ==
  ASSUME Good(f), StartRound
  PROVE  Good(f')
<1>0. f \in FightType BY DEF Good
<1>1. PICK R \in Orders(f.list) :
        LET g == [f EXCEPT !.ahead = R]
        IN  f' = [g EXCEPT !.next = FirstOf(g, g.list), !.due = g.list]
  BY DEF StartRound
<1> DEFINE g == [f EXCEPT !.ahead = R]
           nx == FirstOf(g, g.list)
<1>2. /\ R \in SUBSET (Char \X Char)
      /\ \A p \in R : p[1] \in f.list /\ p[2] \in f.list /\ p[1] # p[2]
      /\ \A c, d \in f.list : c # d => (<<c, d>> \in R <=> <<d, c>> \notin R)
      /\ \A a, b, c \in f.list : <<a, b>> \in R /\ <<b, c>> \in R => <<a, c>> \in R
  BY <1>0, ZenonT(60) DEF Orders, FightType
<1>3. g \in FightType /\ g.list = f.list /\ g.ahead = R BY <1>0, <1>2 DEF FightType
<1>4. nx \in Char \cup {NULL} /\ (nx = NULL \/ nx \in f.list)
  BY <1>3, FirstOfIn DEF FightType
<1>5. f' = [f EXCEPT !.ahead = R, !.next = nx, !.due = f.list] BY <1>0, <1>1, <1>3 DEF FightType
<1> HIDE DEF g, nx
<1>6. f' \in FightType BY <1>0, <1>2, <1>4, <1>5 DEF FightType
<1>7. /\ f'.list = f.list /\ f'.ahead = R /\ f'.next = nx /\ f'.fighting = f.fighting
      /\ f'.fveh = f.fveh /\ f'.approach = f.approach /\ f'.broken = f.broken
      /\ f'.place = f.place /\ f'.due = f.list
  BY <1>0, <1>5 DEF FightType
<1>8. Ordered(f')
  <2>1. \A c, d : <<c, d>> \in R => c \in f.list /\ d \in f.list /\ c # d BY <1>2
  <2> QED BY <1>2, <1>7, <2>1 DEF Ordered
<1>9. Remaining(f') = f.list
  <2>1. \A a \in f.list : Behind(f', a) \subseteq f.list BY <1>7 DEF Behind
  <2>2. f'.next = FirstOf(f', f.list) BY <1>3, <1>7 DEF nx, FirstOf
  <2> QED BY <1>6, <1>7, <1>8, <2>1, <2>2, RemainingFrom
<1>10. Whole(f') => Consistent(f')
  BY <1>4, <1>7, <1>8, <1>9 DEF Good, Whole, Consistent, Exact, Busy, Live, InWorld, Chasing, Pointed,
         Waiting
<1> QED BY <1>6, <1>10 DEF Good

LEMMA ClosingGood ==
  ASSUME NEW g, Good(g), Whole(g), NEW c \in Char, g.approach[c], NEW k \in Closing(g, c)
  PROVE  Stays(g, k) /\ k.fighting = g.fighting /\ k.broken = g.broken
<1> DEFINE foe == g.fighting[c]
           both == Put(g.approach, {c, foe}, FALSE)
           one == Put(g.approach, {c}, FALSE)
<1>0. g \in FightType BY DEF Good
<1>1. /\ both \in [Char -> BOOLEAN] /\ one \in [Char -> BOOLEAN]
      /\ \A d \in Char : (both[d] => g.approach[d]) /\ (one[d] => g.approach[d])
  BY <1>0 DEF FightType, Put
<1>2. k = g \/ k = [g EXCEPT !.approach = both] \/ k = [g EXCEPT !.approach = one]
  BY <1>0 DEF Closing, FightType
<1> HIDE DEF both, one
<1>3. Stays(g, k) BY <1>1, <1>2, ApproachGood, LeadsSelf
<1>4. k.fighting = g.fighting /\ k.broken = g.broken BY <1>0, <1>2 DEF FightType
<1> QED BY <1>3, <1>4

LEMMA AttackGood ==
  ASSUME NEW g, Good(g), Whole(g), NEW c \in Char, g.fighting[c] # NULL \/ g.fveh[c],
         NEW k \in Attack(g, c)
  PROVE  Leads(g, k)
<1>1. CASE k = g BY <1>1, LeadsSelf DEF Stays
<1>2. CASE k \in AttackVeh(g, c)
  <2>1. k = g \/ k = Stop(g, {c}) \/ k \in Wound(g, c, c) BY <1>2 DEF AttackVeh
  <2>2. Leads(g, g) BY LeadsSelf DEF Stays
  <2>3. Leads(g, Stop(g, {c})) BY StopGood DEF Stays
  <2> QED BY <2>1, <2>2, <2>3, WoundGood
<1>3. CASE ~g.fveh[c] /\ k \in Hit(g, c, g.fighting[c])
  <2>1. g.fighting[c] \in Char
    BY <1>3 DEF Good, FightType
  <2>2. Here(g, c) /\ Here(g, g.fighting[c])
    BY <1>3, <2>1 DEF Good, Consistent, Live, Here
  <2> QED BY <1>3, <2>2, HitGood
<1> QED BY <1>1, <1>2, <1>3 DEF Attack

\* Taking the next fighter: c is behind nobody who is still to come.
LEMMA TakeGood ==
  ASSUME Good(f), Whole(f), NEW c \in Char, f.next = c,
         NEW g, g = [f EXCEPT !.next = FirstOf(f, Behind(f, c)), !.due = @ \ {c}]
  PROVE  /\ Good(g) /\ Whole(g)
         /\ Remaining(g) \subseteq Remaining(f) /\ c \notin Remaining(g)
<1> DEFINE nx == FirstOf(f, Behind(f, c))
           du == f.due \ {c}
<1>0. f \in FightType /\ Consistent(f) BY DEF Good
<1>1. nx = NULL \/ nx \in Behind(f, c) BY FirstOfIn
<1>2. g = [f EXCEPT !.next = nx, !.due = du] BY <1>0 DEF FightType
<1>3. nx \in Char \cup {NULL} /\ du \in SUBSET Char BY <1>0, <1>1 DEF Behind, FightType
<1> HIDE DEF nx, du
<1>4. g \in FightType BY <1>0, <1>2, <1>3 DEF FightType
<1>5. /\ g.list = f.list /\ g.ahead = f.ahead /\ g.next = nx /\ g.fighting = f.fighting
      /\ g.fveh = f.fveh /\ g.approach = f.approach /\ g.broken = f.broken
      /\ g.place = f.place /\ g.due = du
  BY <1>0, <1>2 DEF FightType
<1>6. Pointed(g) BY <1>1, <1>5 DEF Pointed, Behind
<1>7. Remaining(g) = Behind(f, c)
  <2> DEFINE B == Behind(f, c)
  <2>1. B \in SUBSET f.list /\ Ordered(f) BY <1>0 DEF Behind, Consistent
  <2>2. \A a \in B : Behind(f, a) \subseteq B BY <2>1 DEF Behind, Ordered
  <2>3. g.next = FirstOf(f, B) BY <1>5 DEF nx
  <2> HIDE DEF B
  <2>4. /\ g.list \cap B = B /\ g.list \subseteq f.list
        /\ \A a, d : <<a, d>> \in g.ahead <=> <<a, d>> \in f.ahead
    BY <1>5, <2>1
  <2>5. Remaining(g) = B BY <1>0, <2>1, <2>2, <2>3, <2>4, RemainingFrom
  <2> QED BY <2>5 DEF B
<1>8. c \notin Behind(f, c) BY <1>0 DEF Behind, Consistent, Ordered
<1>9. Consistent(g)
  <2>1. f.due = {c} \cup Behind(f, c)
    BY <1>0, CombatAssumption DEF Consistent, Waiting, Remaining
  <2>2. Waiting(g) BY <1>5, <1>7, <1>8, <2>1 DEF Waiting, du
  <2> QED BY <1>0, <1>5, <1>6, <2>2
          DEF Consistent, Exact, Busy, Ordered, Live, InWorld, Chasing
<1>10. Behind(f, c) \subseteq Remaining(f) BY CombatAssumption DEF Remaining
<1> QED BY <1>4, <1>5, <1>7, <1>8, <1>9, <1>10 DEF Good, Whole

LEMMA TurnGood ==
  ASSUME Good(f), NEW c \in Char, Turn(c)
  PROVE  /\ Good(f')
         /\ Whole(f') => Remaining(f') \subseteq Remaining(f) /\ c \notin Remaining(f')
<1> DEFINE g == [f EXCEPT !.next = FirstOf(f, Behind(f, c)), !.due = @ \ {c}]
<1>0. Whole(f) /\ f.next = c BY DEF Turn, Whole
<1>1. /\ Good(g) /\ Whole(g)
      /\ Remaining(g) \subseteq Remaining(f) /\ c \notin Remaining(g)
  BY <1>0, TakeGood
<1>2. \/ f' = Stop(g, {c})
      \/ f' = g
      \/ /\ g.fighting[c] # NULL \/ g.fveh[c]
         /\ \E h \in IF g.approach[c] THEN Closing(g, c) ELSE {g} : f' \in Attack(h, c)
  BY DEF Turn, Becomes, Busy
<1> HIDE DEF g
<1>3. Leads(g, f')
  <2>1. CASE f' = Stop(g, {c}) BY <1>1, <2>1, StopGood DEF Stays
  <2>2. CASE f' = g BY <1>1, <2>2, LeadsSelf DEF Stays
  <2>3. CASE /\ g.fighting[c] # NULL \/ g.fveh[c]
             /\ \E h \in IF g.approach[c] THEN Closing(g, c) ELSE {g} : f' \in Attack(h, c)
    <3>1. PICK h \in IF g.approach[c] THEN Closing(g, c) ELSE {g} : f' \in Attack(h, c)
      BY <2>3
    <3>2. CASE h = g BY <1>1, <2>3, <3>1, <3>2, AttackGood
    <3>3. CASE g.approach[c] /\ h \in Closing(g, c)
      <4>1. Stays(g, h) /\ h.fighting = g.fighting /\ h.broken = g.broken
        BY <1>1, <3>3, ClosingGood
      <4>2. g.fighting[c] # NULL BY <1>1, <3>3 DEF Good, Consistent, Chasing
      <4>3. Good(h) /\ Whole(h) /\ h.fighting[c] # NULL
        BY <1>1, <4>1, <4>2 DEF Stays, Leads, Whole
      <4>4. Leads(h, f') BY <3>1, <4>3, AttackGood
      <4> QED BY <4>1, <4>4, LeadsTo DEF Stays
    <3> QED BY <3>1, <3>2, <3>3
  <2> QED BY <1>2, <2>1, <2>2, <2>3
<1> QED BY <1>1, <1>3 DEF Leads

LEMMA NextGood ==
  ASSUME Good(f), [Next]_f
  PROVE  Good(f')
<1>1. CASE f' = f BY <1>1
<1>2. CASE Commands BY <1>2, CommandsGood
<1>3. CASE StartRound BY <1>3, StartRoundGood
<1>4. CASE Round BY <1>4, TurnGood DEF Round
<1> QED BY <1>1, <1>2, <1>3, <1>4 DEF Next, Halted

\* In a round nothing but turns happens.
LEMMA OnlyTurns ==
  ASSUME Good(f), [Next]_f
  PROVE  [f.next # NULL /\ Sound /\ Sound' =>
            Remaining(f') \subseteq Remaining(f) /\ f.next \notin Remaining(f')]_f
<1> SUFFICES ASSUME f' # f, f.next # NULL, Sound, Sound'
             PROVE  Remaining(f') \subseteq Remaining(f) /\ f.next \notin Remaining(f')
  OBVIOUS
<1>1. ~StartRound BY DEF StartRound, Idle
<1>2. ~Commands
  BY DEF Commands, Idle, Acts, DoHit, DoAssist, Shoot, DoHitVeh, DoFlee, Walk, Void,
         LoseWeapon, Die, DoQuit, EnterGame, NewMob, Recover
<1>3. PICK c \in Char : Turn(c) BY <1>1, <1>2 DEF Next, Round, Halted
<1>4. f.next = c BY <1>3 DEF Turn
<1>5. Whole(f') BY DEF Sound, Whole
<1> QED BY <1>3, <1>4, <1>5, TurnGood

LEMMA GoodAlways == Spec => []Good(f)
<1>1. Init => Good(f) BY InitGood
<1>2. Good(f) /\ [Next]_f => Good(f)' BY NextGood
<1> QED BY <1>1, <1>2, PTL DEF Spec

-----------------------------------------------------------------------------
(* The theorems. *)

\* Every state of the fights has the right types.
THEOREM TypeAlways == Spec => []TypeOK
<1>1. Good(f) => TypeOK BY DEF Good, TypeOK
<1> QED BY <1>1, GoodAlways, PTL

\* combat_list is exact for any number of characters, however they die, flee and assist, until
\* the fights are broken: a cell is cleared that is on the list (extract_char), or the answer
\* to a distant shooter is aimed at one who has left the world (ranged_response).
THEOREM ListAlways == Spec => []ListExact
<1>1. ASSUME Good(f) PROVE ListExact
  <2>1. SUFFICES ASSUME Sound
                 PROVE  /\ f.list = {c \in Char : Busy(f, c)}
                        /\ \A c, d \in f.list : c # d => (<<c, d>> \in f.ahead <=> <<d, c>> \notin f.ahead)
                        /\ \A p \in f.ahead : p[1] \in f.list /\ p[2] \in f.list /\ p[1] # p[2]
    BY DEF ListExact
  <2>2. f \in FightType /\ Consistent(f) BY <1>1, <2>1 DEF Good, Sound, Whole
  <2>3. f.list = {c \in Char : Busy(f, c)} BY <2>2 DEF Consistent, Exact, FightType
  <2>4. \A p \in f.ahead : p[1] \in f.list /\ p[2] \in f.list /\ p[1] # p[2]
    <3>1. f.ahead \subseteq Char \X Char BY <2>2 DEF FightType
    <3>2. \A p \in Char \X Char : p = <<p[1], p[2]>> OBVIOUS
    <3> QED BY <2>2, <3>1, <3>2 DEF Consistent, Ordered
  <2> QED BY <2>2, <2>3, <2>4 DEF Consistent, Ordered
<1> QED BY <1>1, GoodAlways, PTL

\* The fields keep their types, and combat_list is exact until the fights are broken, for any
\* number of characters.
THEOREM ListSoundAlways == Spec => []ListSound
<1>1. TypeOK /\ ListExact => ListSound BY DEF ListSound
<1> QED BY <1>1, TypeAlways, ListAlways, PTL

\* Nobody attacks himself or a character who has left, until the answer to a distant
\* shooter is aimed at one who left the world meanwhile (ranged_response), or a cell is
\* cleared that is on the list.
THEOREM TargetsAlways == Spec => []TargetsLive
<1>1. Good(f) => TargetsLive BY DEF Good, TargetsLive, Sound, Whole, Consistent, Live
<1> QED BY <1>1, GoodAlways, PTL

\* Nobody on the list has to close the distance to nobody or to a vehicle, until then.
THEOREM ApproachAlways == Spec => []ApproachHasFoe
<1>1. Good(f) => ApproachHasFoe
  BY DEF Good, FightType, ApproachHasFoe, Sound, Whole, Consistent, Chasing
<1> QED BY <1>1, GoodAlways, PTL

\* Nobody attacks himself or somebody who is gone, or closes the distance to nobody, until
\* the answer to a shooter who is gone, or a cleared cell, has broken the fights.
THEOREM FoesAlways == Spec => []FoesSound
<1>1. TargetsLive /\ ApproachHasFoe => FoesSound BY DEF FoesSound
<1> QED BY <1>1, TargetsAlways, ApproachAlways, PTL

\* Nobody who waits for a turn of the round is passed over, and nobody has two: whatever the
\* blows do to the list, next_combat_list and those behind it are the ones still due, until
\* the fights are broken.
THEOREM NobodySkippedAlways == Spec => []NobodySkipped
<1>1. Good(f) => NobodySkipped BY DEF Good, NobodySkipped, Sound, Whole, Consistent, Waiting
<1> QED BY <1>1, GoodAlways, PTL

\* A round is at most as long as the list it began with.
THEOREM RoundShrinksAlways == Spec => RoundShrinks
<1>1. Good(f) /\ [Next]_f =>
        [f.next # NULL /\ Sound /\ Sound' =>
           Remaining(f') \subseteq Remaining(f) /\ f.next \notin Remaining(f')]_f
  BY OnlyTurns
<1> QED BY <1>1, GoodAlways, PTL DEF Spec, RoundShrinks

=============================================================================
