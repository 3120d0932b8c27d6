------------------------------ MODULE OlcProofs ------------------------------
(***************************************************************************)
(* Theorems of module Olc, for any builders, things and scenes.  What the  *)
(* editors forget (see the README) makes every one of them conditional: a  *)
(* theorem names, by the predicates of Olc's scenes, what the builders     *)
(* must leave alone, and shows that nothing else can go wrong.             *)
(***************************************************************************)
EXTENDS Olc, FiniteSetTheorems, WellFoundedInduction, TLAPS

Table == Proto \cup {"room"}

RoomType == [number : Nat, here : SUBSET Body, vehs : SUBSET Thing,
             door : [Dir -> {None} \cup [to : Int, vnum : Nat]]]
CmdType  == [letter : Letter, arg : [1..3 -> Int], means : [1..3 -> Nat]]

WorldTyped(w) == Top(w) \in Nat /\ w \in [0 .. Top(w) -> RoomType]
TableTyped(f) == Top(f) \in Nat \cup {-1} /\ f \in [0 .. Top(f) -> Nat]
Ascending(f) == \A p, q \in DOMAIN f : p < q => f[p] < f[q]

-----------------------------------------------------------------------------
(* The inductive invariant in layers: the tables, the exits and the ways   *)
(* back, the numbers that instances and commands keep, the last room and   *)
(* the lists of the others, the place for commands.                        *)

Answerable(l) ==
  \A j \in 1..3 : RefTable(l, j) # "none" => 0 \in DOMAIN TableOf(RefTable(l, j))

PageTyped(d) ==
  /\ d.mode \in {"play", "room", "cmd"} \cup Proto
  /\ d.mode = "room" => d \in [mode : {"room"}, vnum : Nat, room : RoomType]
  /\ d.mode \in Proto => d \in [mode : Proto, vnum : Nat]
  /\ d.mode = "cmd" => d \in [mode : {"cmd"}, nr : Nat, insert : BOOLEAN, cmd : CmdType]

\* A builder edits what his scene lets him; the copy of a room that is there
\* has its number.
Allowed(b, d) ==
  /\ d.mode \in Table => <<d.mode, d.vnum>> \in scene.edit[b]
  /\ d.mode = "cmd" => "zedit" \in scene.cmds[b] /\ Answerable(d.cmd.letter)
  /\ d.mode = "room" => \/ d.room.number = d.vnum
                        \/ \A r \in DOMAIN world : world[r].number # d.vnum

Typed ==
  /\ scene \in Scenes
  /\ WorldTyped(world)
  /\ DOMAIN index = Proto /\ \A k \in Proto : TableTyped(index[k])
  /\ at \in [Body -> Int]
  /\ Top(zone) \in Nat \cup {-1} /\ zone \in [0 .. Top(zone) -> CmdType]
  /\ DOMAIN desk = Builder /\ \A b \in Builder : PageTyped(desk[b])

\* The tables are in order, and what nobody deletes is in them.
TablesInv ==
  /\ FirstKept(scene) /\ OneMaker(scene)
  /\ Typed
  /\ \A k \in Table : Ascending(TableOf(k))
  /\ \A k \in Table : \A u \in Lasting(scene, k) : \E r \in DOMAIN TableOf(k) : TableOf(k)[r] = u
  /\ \A b \in Builder : Allowed(b, desk[b])
  /\ \A l \in scene.letters : Answerable(l)
  /\ \A i \in DOMAIN zone : Answerable(zone[i].letter)

\* A builder who is somewhere is on the list of that room or of a later one.
Listed(c, w, place) ==
  place[c] # Nowhere =>
    /\ place[c] >= 0
    /\ \E r \in DOMAIN w : r >= place[c] /\ c \in w[r].here

ListedInv == \A c \in Builder : Listed(c, world, at)

WaysInv ==
  /\ NothingDeleted(scene)
  /\ WaysTrue
  /\ was \in [Builder -> Int] /\ DOMAIN home = Builder

Tables == [k \in Table |-> TableOf(k)]

\* The numbers of command c name in tables T what they were written for.  The
\* editors forget the numbers of S and U, which name something nevertheless.
FaithfulTo(T, c) ==
  /\ c.letter # "V"
  /\ \A j \in 1..3 : LET k == RefTable(c.letter, j) IN
       k # "none" /\ c.letter \notin {"S", "U"} =>
         c.arg[j] \in DOMAIN T[k] /\ T[k][c.arg[j]] = c.means[j]
  /\ RefTable(c.letter, 1) \in Proto => c.arg[1] \in DOMAIN T[RefTable(c.letter, 1)]

\* So does the number of an instance.
InstanceOf(T, i) ==
  i # None => /\ i \in [kind : {"mob", "obj"}, nr : Int, isa : Nat]
              /\ i.nr \in DOMAIN T[i.kind] /\ T[i.kind][i.nr] = i.isa

NamesInv ==
  /\ WritesAlone(scene) /\ NoVehicles(scene)
  /\ DOMAIN inst = Thing /\ \A x \in Thing : InstanceOf(Tables, inst[x])
  /\ \A i \in DOMAIN zone : FaithfulTo(Tables, zone[i])
  /\ \A b \in Builder : desk[b].mode = "cmd" => FaithfulTo(Tables, desk[b].cmd)

\* A command that puts somebody or something into a room puts it elsewhere.
Elsewhere(c, z) == c.letter \in {"M", "O"} => c.means[3] # z

LastInv ==
  \E z \in scene.rooms :
         /\ LastRoom(scene, z) /\ world[Top(world)].number = z
         /\ \A i \in DOMAIN zone : Elsewhere(zone[i], z)
         /\ \A b \in Builder : desk[b].mode = "cmd" => Elsewhere(desk[b].cmd, z)

\* Everybody and everything is in the room that in_room names, and on no
\* other list.
Housed(w, place) ==
  /\ \A x \in Body : place[x] \in DOMAIN w \cup {Nowhere}
  /\ \A x \in Body, r \in DOMAIN w : x \in w[r].here <=> place[x] = r
  /\ \A r \in DOMAIN w : w[r].vehs = {}
  /\ w[Top(w)].here = {}

\* The copy of a room that is not there yet has nobody in it.
EmptyCopy(d, w) ==
  d.mode = "room" => /\ d.room.vehs = {}
                     /\ d.room.here = {} \/ \E r \in DOMAIN w : w[r].number = d.vnum

\* A builder in the editor of rooms is nowhere, and came from no last room.
Away(b) ==
  /\ was[b] # Top(world)
  /\ desk[b].mode = "room" => at[b] = Nowhere
  /\ EmptyCopy(desk[b], world)

\* There is a place for the command that is being written.
Space(d) ==
  d.mode = "cmd" => Top(zone) + 1 < scene.max \/ (d.nr \in DOMAIN zone /\ ~d.insert)

Settled ==
  /\ Housed(world, at)
  /\ \A x \in Thing : inst[x] = None => at[x] = Nowhere
  /\ \A b \in Builder : Away(b)
  /\ vlist = <<>>

RoomsInv == LastInv /\ Settled

SpaceInv == Top(zone) < scene.max /\ \A b \in Builder : Space(desk[b])

-----------------------------------------------------------------------------
(* Tables.                                                                 *)

\* The top slot of a table on 0 .. n is n.
LEMMA TopOf ==
  ASSUME NEW n \in Nat \cup {-1}, NEW f, DOMAIN f = 0 .. n
  PROVE  Top(f) = n
<1>1. Cardinality(0 .. n) = IF 0 > n THEN 0 ELSE n - 0 + 1
  BY FS_Interval, SMT
<1> QED BY <1>1 DEF Top

LEMMA LeastOf ==
  ASSUME NEW S \in SUBSET Nat, S # {}
  PROVE  \E n \in S : \A k \in S : n <= k
<1>1. IsWellFoundedOn({p \in Nat \X Nat : p[1] < p[2]}, Nat)
  BY NatLessThanWellFounded, Zenon DEF OpToRel
<1>2. PICK n \in S : \A k \in S : ~(<<k, n>> \in {p \in Nat \X Nat : p[1] < p[2]})
  BY <1>1, WFMin, Zenon
<1>3. \A k \in S : ~(k < n) BY <1>2
<1> QED BY <1>3

\* In a table in order a number is found where it is, and only there.
LEMMA RealInIs ==
  ASSUME NEW f, TableTyped(f), Ascending(f), NEW r \in DOMAIN f
  PROVE  RealIn(f, f[r]) = r
<1>1. \A q \in DOMAIN f : f[q] = f[r] => q = r
  <2> SUFFICES ASSUME NEW q \in DOMAIN f, f[q] = f[r], q # r PROVE FALSE OBVIOUS
  <2>1. q \in Int /\ r \in Int /\ f[q] \in Nat /\ f[r] \in Nat BY DEF TableTyped
  <2> QED BY <2>1 DEF Ascending
<1> QED BY <1>1 DEF RealIn

LEMMA RealInOf ==
  ASSUME NEW f, NEW v, TableTyped(f)
  PROVE  \/ RealIn(f, v) = Nowhere /\ \A r \in DOMAIN f : f[r] # v
         \/ RealIn(f, v) \in DOMAIN f /\ f[RealIn(f, v)] = v
  BY DEF RealIn

\* The place of a new number is behind the smaller and before the greater.
LEMMA PlaceIs ==
  ASSUME NEW f, TableTyped(f), Ascending(f), NEW v \in Nat
  PROVE  /\ Place(f, v) \in 0 .. Top(f) + 1
         /\ \A q \in DOMAIN f : q < Place(f, v) => f[q] <= v
         /\ \A q \in DOMAIN f : q >= Place(f, v) => f[q] > v
<1> DEFINE Over == {q \in DOMAIN f : f[q] > v} \cup {Top(f) + 1}
           Fits(p) == /\ p <= Top(f) => f[p] > v
                      /\ \A q \in 0 .. p - 1 : f[q] <= v
<1>0. /\ Top(f) \in Nat \cup {-1} /\ DOMAIN f = 0 .. Top(f)
      /\ \A q \in DOMAIN f : f[q] \in Nat
  BY DEF TableTyped
<1>1. Over \in SUBSET Nat /\ Over # {} BY <1>0
<1>2. PICK n \in Over : \A k \in Over : n <= k BY <1>1, LeastOf
<1>3. n \in 0 .. Top(f) + 1 /\ Fits(n)
  <2>1. n \in 0 .. Top(f) + 1 BY <1>0
  <2>2. n <= Top(f) => f[n] > v BY <1>0
  <2>3. ASSUME NEW q \in 0 .. n - 1 PROVE f[q] <= v
    <3>1. q \in DOMAIN f /\ q < n BY <1>0, <2>1
    <3>2. q \notin Over BY <1>2, <3>1, <1>0
    <3> QED BY <3>1, <3>2, <1>0
  <2> QED BY <2>1, <2>2, <2>3
<1>4. Place(f, v) \in 0 .. Top(f) + 1 /\ Fits(Place(f, v))
  <2> HIDE DEF Fits
  <2>1. Place(f, v) = CHOOSE p \in 0 .. Top(f) + 1 : Fits(p) BY DEF Place, Fits
  <2> QED BY <1>3, <2>1
<1>5. ASSUME NEW q \in DOMAIN f, q >= Place(f, v) PROVE f[q] > v
  <2>1. Place(f, v) \in DOMAIN f /\ f[Place(f, v)] > v BY <1>0, <1>4, <1>5
  <2>2. q = Place(f, v) \/ f[Place(f, v)] < f[q] BY <2>1, <1>5, <1>0, <1>4 DEF Ascending
  <2> QED BY <2>1, <2>2, <1>0
<1> QED BY <1>0, <1>4, <1>5

\* A table with an entry more, of whatever entries.
Inserted(g, f, n, p, e) ==
  /\ DOMAIN g = 0 .. n + 1 /\ Top(g) = n + 1
  /\ p \in 0 .. n + 1 /\ g[p] = e
  /\ \A r \in 0 .. n : /\ Bump(r, p) \in 0 .. n + 1 /\ Bump(r, p) # p
                       /\ g[Bump(r, p)] = f[r]
  /\ \A q \in 0 .. n + 1 : q # p => \E r \in 0 .. n : q = Bump(r, p)

LEMMA InsertShape ==
  ASSUME NEW f, NEW n \in Nat \cup {-1}, DOMAIN f = 0 .. n,
         NEW p \in 0 .. n + 1, NEW e
  PROVE  Inserted(InsertAt(f, p, e), f, n, p, e)
<1> DEFINE g == InsertAt(f, p, e)
<1>1. Top(f) = n BY TopOf
<1>2. g = [r \in 0 .. n + 1 |-> IF r < p THEN f[r] ELSE IF r = p THEN e ELSE f[r - 1]]
  BY <1>1 DEF InsertAt
<1>3. DOMAIN g = 0 .. n + 1 /\ n + 1 \in Nat \cup {-1} BY <1>2
<1>4. Top(g) = n + 1 BY <1>3, TopOf
<1>5. g[p] = e BY <1>2
<1>6. ASSUME NEW r \in 0 .. n
      PROVE  Bump(r, p) \in 0 .. n + 1 /\ Bump(r, p) # p /\ g[Bump(r, p)] = f[r]
  BY <1>2 DEF Bump
<1>7. ASSUME NEW q \in 0 .. n + 1, q # p PROVE \E r \in 0 .. n : q = Bump(r, p)
  <2>1. q < p \/ q > p BY <1>7
  <2>2. CASE q < p
    <3>1. q \in 0 .. n /\ q = Bump(q, p) BY <2>2 DEF Bump
    <3> QED BY <3>1
  <2>3. CASE q > p
    <3>1. q - 1 \in 0 .. n /\ q = Bump(q - 1, p) BY <2>3 DEF Bump
    <3> QED BY <3>1
  <2> QED BY <2>1, <2>2, <2>3
<1> QED BY <1>3, <1>4, <1>5, <1>6, <1>7 DEF Inserted

\* The numbers of a table in order, with a new one put in its place.
LEMMA InsertNumber ==
  ASSUME NEW f, TableTyped(f), Ascending(f), NEW v \in Nat,
         \A r \in DOMAIN f : f[r] # v
  PROVE  LET p == Place(f, v)
             g == InsertAt(f, p, v)
         IN  /\ TableTyped(g) /\ Ascending(g) /\ Top(g) = Top(f) + 1
             /\ p \in DOMAIN g /\ g[p] = v
             /\ \A r \in DOMAIN f : Bump(r, p) \in DOMAIN g /\ g[Bump(r, p)] = f[r]
             /\ \A q \in DOMAIN g : q # p => \E r \in DOMAIN f : q = Bump(r, p)
             /\ RealIn(g, v) = p
             /\ \A u \in Nat : u # v => RealIn(g, u) = Bump(RealIn(f, u), p)
<1> DEFINE p == Place(f, v)
           g == InsertAt(f, p, v)
           n == Top(f)
<1>0. /\ n \in Nat \cup {-1} /\ DOMAIN f = 0 .. n
      /\ \A q \in DOMAIN f : f[q] \in Nat
  BY DEF TableTyped
<1>1. /\ p \in 0 .. n + 1
      /\ \A q \in DOMAIN f : q < p => f[q] < v
      /\ \A q \in DOMAIN f : q >= p => f[q] > v
  <2>1. /\ p \in 0 .. n + 1
        /\ \A q \in DOMAIN f : q < p => f[q] <= v
        /\ \A q \in DOMAIN f : q >= p => f[q] > v
    BY PlaceIs
  <2> QED BY <2>1, <1>0
<1>2. /\ DOMAIN g = 0 .. n + 1
      /\ Top(g) = n + 1
      /\ g[p] = v
      /\ \A r \in 0 .. n : /\ Bump(r, p) \in 0 .. n + 1 /\ Bump(r, p) # p
                           /\ g[Bump(r, p)] = f[r]
      /\ \A q \in 0 .. n + 1 : q # p => \E r \in 0 .. n : q = Bump(r, p)
  <2> HIDE DEF p, n
  <2>1. n \in Nat \cup {-1} /\ DOMAIN f = 0 .. n /\ p \in 0 .. n + 1 BY <1>0, <1>1
  <2>2. Inserted(g, f, n, p, v) BY <2>1, InsertShape, Zenon DEF g
  <2> HIDE DEF g
  <2> QED BY <2>2 DEF Inserted
<1>3. g = [r \in 0 .. n + 1 |-> IF r < p THEN f[r] ELSE IF r = p THEN v ELSE f[r - 1]]
  BY DEF InsertAt
<1> HIDE DEF p, n, g
<1>4. g \in [0 .. n + 1 -> Nat]
  <2>1. ASSUME NEW q \in 0 .. n + 1 PROVE g[q] \in Nat
    <3>0. n \in Int /\ p \in Int BY <1>0, <1>1
    <3>1. g[q] = IF q < p THEN f[q] ELSE IF q = p THEN v ELSE f[q - 1] BY <1>3
    <3>2. CASE q < p
      <4>1. q \in 0 .. n BY <3>0, <3>2, <1>1
      <4> QED BY <4>1, <3>1, <3>2, <1>0
    <3>3. CASE q = p BY <3>3, <3>0, <3>1
    <3>4. CASE q > p
      <4>1. q - 1 \in 0 .. n BY <3>0, <3>4, <1>1
      <4>2. g[q] = f[q - 1] BY <3>0, <3>1, <3>4
      <4> QED BY <4>1, <4>2, <1>0
    <3> QED BY <3>0, <3>2, <3>3, <3>4
  <2> QED BY <2>1, <1>3
<1>5. TableTyped(g) BY <1>0, <1>2, <1>4 DEF TableTyped
<1>6. Ascending(g)
  <2> SUFFICES ASSUME NEW a \in 0 .. n + 1, NEW b \in 0 .. n + 1, a < b PROVE g[a] < g[b]
    BY <1>2 DEF Ascending
  <2>0. \A q, r \in 0 .. n : q < r => f[q] < f[r] BY <1>0 DEF Ascending
  <2>1. CASE b < p
    <3>1. a \in 0 .. n /\ b \in 0 .. n BY <2>1, <1>0, <1>1
    <3> QED BY <3>1, <2>0, <2>1, <1>3, <1>1, <1>0
  <2>2. CASE b = p
    <3>1. a \in DOMAIN f /\ a < p BY <2>2, <1>0, <1>1
    <3>2. g[a] = f[a] /\ g[b] = v BY <3>1, <2>2, <1>3, <1>1, <1>0
    <3> QED BY <3>1, <3>2, <1>1
  <2>3. CASE a = p
    <3>1. b - 1 \in DOMAIN f /\ b - 1 >= p BY <2>3, <1>0, <1>1
    <3>2. g[b] = f[b - 1] /\ g[a] = v BY <2>3, <1>3, <1>1, <1>0
    <3> QED BY <3>1, <3>2, <1>1, <1>0
  <2>4. CASE a > p
    <3>1. a - 1 \in 0 .. n /\ b - 1 \in 0 .. n /\ a - 1 < b - 1 BY <2>4, <1>0, <1>1
    <3>2. g[b] = f[b - 1] /\ g[a] = f[a - 1] BY <2>4, <1>3, <1>1, <1>0
    <3> QED BY <3>1, <3>2, <2>0
  <2>5. CASE a < p /\ b > p
    <3>1. a \in 0 .. n /\ b - 1 \in 0 .. n /\ a < b - 1 BY <2>5, <1>0, <1>1
    <3>2. g[b] = f[b - 1] /\ g[a] = f[a] BY <2>5, <1>3, <1>1, <1>0
    <3> QED BY <3>1, <3>2, <2>0
  <2> QED BY <2>1, <2>2, <2>3, <2>4, <2>5, <1>1, <1>0
<1>7. p \in DOMAIN g BY <1>1, <1>2
<1>8. RealIn(g, v) = p BY <1>2, <1>5, <1>6, <1>7, RealInIs
<1>9. ASSUME NEW u \in Nat, u # v PROVE RealIn(g, u) = Bump(RealIn(f, u), p)
  <2>1. CASE RealIn(f, u) \in DOMAIN f /\ f[RealIn(f, u)] = u
    <3>1. Bump(RealIn(f, u), p) \in DOMAIN g /\ g[Bump(RealIn(f, u), p)] = u
      BY <2>1, <1>2, <1>0
    <3> QED BY <3>1, <1>5, <1>6, RealInIs
  <2>2. CASE RealIn(f, u) = Nowhere /\ \A r \in DOMAIN f : f[r] # u
    <3>1. ASSUME NEW q \in DOMAIN g, g[q] = u PROVE FALSE
      <4>1. q # p BY <3>1, <1>2, <1>9
      <4>2. PICK r \in 0 .. n : q = Bump(r, p) BY <4>1, <1>2
      <4>3. g[q] = f[r] /\ f[r] # u BY <4>2, <1>2, <2>2, <1>0
      <4> QED BY <3>1, <4>3
    <3>2. RealIn(g, u) = Nowhere BY <3>1 DEF RealIn
    <3>3. Bump(Nowhere, p) = Nowhere BY <1>1, <1>0 DEF Bump, Nowhere
    <3> QED BY <3>2, <3>3, <2>2
  <2> QED BY <2>1, <2>2, RealInOf
<1> QED BY <1>0, <1>2, <1>5, <1>6, <1>7, <1>8, <1>9 DEF p, g, n

\* An entry taken out.
LEMMA RemoveShape ==
  ASSUME NEW f, NEW n \in Nat \cup {-1}, DOMAIN f = 0 .. n, NEW p \in 0 .. n
  PROVE  /\ DOMAIN RemoveAt(f, p) = 0 .. n - 1
         /\ Top(RemoveAt(f, p)) = n - 1
         /\ \A r \in 0 .. n : r < p => r \in 0 .. n - 1 /\ RemoveAt(f, p)[r] = f[r]
         /\ \A r \in 0 .. n : r > p => r - 1 \in 0 .. n - 1 /\ RemoveAt(f, p)[r - 1] = f[r]
         /\ \A q \in 0 .. n - 1 :
              /\ q < p => q \in 0 .. n /\ RemoveAt(f, p)[q] = f[q]
              /\ q >= p => q + 1 \in 0 .. n /\ RemoveAt(f, p)[q] = f[q + 1]
<1> DEFINE g == RemoveAt(f, p)
<1>1. Top(f) = n BY TopOf
<1>2. g = [r \in 0 .. n - 1 |-> IF r < p THEN f[r] ELSE f[r + 1]] BY <1>1 DEF RemoveAt
<1>3. DOMAIN g = 0 .. n - 1 /\ n - 1 \in Nat \cup {-1} BY <1>2
<1>4. Top(g) = n - 1 BY <1>3, TopOf
<1>5. \A r \in 0 .. n : r < p => r \in 0 .. n - 1 /\ g[r] = f[r] BY <1>2
<1>6. \A r \in 0 .. n : r > p => r - 1 \in 0 .. n - 1 /\ g[r - 1] = f[r] BY <1>2
<1>7. \A q \in 0 .. n - 1 : /\ q < p => q \in 0 .. n /\ g[q] = f[q]
                            /\ q >= p => q + 1 \in 0 .. n /\ g[q] = f[q + 1]
  BY <1>2
<1> QED BY <1>3, <1>4, <1>5, <1>6, <1>7

LEMMA RemoveNumber ==
  ASSUME NEW f, TableTyped(f), Ascending(f), NEW p \in DOMAIN f
  PROVE  LET g == RemoveAt(f, p) IN
         /\ TableTyped(g) /\ Ascending(g) /\ Top(g) = Top(f) - 1
         /\ \A r \in DOMAIN f : r # p => \E q \in DOMAIN g : g[q] = f[r]
         /\ \A q \in DOMAIN g : \E r \in DOMAIN f : g[q] = f[r]
<1> DEFINE g == RemoveAt(f, p)
           n == Top(f)
<1>0. /\ n \in Nat \cup {-1} /\ DOMAIN f = 0 .. n /\ p \in 0 .. n
      /\ \A q \in DOMAIN f : f[q] \in Nat
  BY DEF TableTyped
<1>1. /\ DOMAIN g = 0 .. n - 1
      /\ Top(g) = n - 1
      /\ \A r \in 0 .. n : r < p => r \in 0 .. n - 1 /\ g[r] = f[r]
      /\ \A r \in 0 .. n : r > p => r - 1 \in 0 .. n - 1 /\ g[r - 1] = f[r]
      /\ \A q \in 0 .. n - 1 :
              /\ q < p => q \in 0 .. n /\ g[q] = f[q]
              /\ q >= p => q + 1 \in 0 .. n /\ g[q] = f[q + 1]
  <2> HIDE DEF n
  <2> QED BY <1>0, RemoveShape DEF g
<1>2. g = [r \in 0 .. n - 1 |-> IF r < p THEN f[r] ELSE f[r + 1]] BY DEF RemoveAt
<1> HIDE DEF g, n
<1>3. TableTyped(g) BY <1>0, <1>1, <1>2 DEF TableTyped
<1>4. Ascending(g)
  <2> SUFFICES ASSUME NEW a \in 0 .. n - 1, NEW b \in 0 .. n - 1, a < b PROVE g[a] < g[b]
    BY <1>1 DEF Ascending
  <2>0. \A q, r \in 0 .. n : q < r => f[q] < f[r] BY <1>0 DEF Ascending
  <2>1. CASE b < p BY <2>0, <2>1, <1>1, <1>0
  <2>2. CASE a >= p BY <2>0, <2>2, <1>1, <1>0
  <2>3. CASE a < p /\ b >= p BY <2>0, <2>3, <1>1, <1>0
  <2> QED BY <2>1, <2>2, <2>3, <1>0
<1>5. \A r \in DOMAIN f : r # p => \E q \in DOMAIN g : g[q] = f[r]
  <2> SUFFICES ASSUME NEW r \in 0 .. n, r # p PROVE \E q \in 0 .. n - 1 : g[q] = f[r]
    BY <1>0, <1>1
  <2>1. r < p \/ r > p BY <1>0
  <2> QED BY <2>1, <1>1
<1>6. \A q \in DOMAIN g : \E r \in DOMAIN f : g[q] = f[r]
  <2> SUFFICES ASSUME NEW q \in 0 .. n - 1 PROVE \E r \in 0 .. n : g[q] = f[r]
    BY <1>0, <1>1
  <2>1. q < p \/ q >= p BY <1>0
  <2> QED BY <2>1, <1>1
<1> QED BY <1>1, <1>3, <1>4, <1>5, <1>6 DEF g, n

\* The files of the world are read in order of their numbers.
LEMMA SortedIs ==
  ASSUME NEW S \in SUBSET Nat, IsFiniteSet(S)
  PROVE  /\ TableTyped(Sorted(S)) /\ Ascending(Sorted(S))
         /\ Top(Sorted(S)) = Cardinality(S) - 1
         /\ \A r \in DOMAIN Sorted(S) : Sorted(S)[r] \in S
         /\ \A v \in S : \E r \in DOMAIN Sorted(S) : Sorted(S)[r] = v
<1> DEFINE n == Cardinality(S)
           Less(v) == {u \in S : u < v}
           rank == [v \in S |-> Cardinality(Less(v))]
           f == Sorted(S)
<1>1. n \in Nat BY FS_CardinalityType
<1>2. ASSUME NEW v \in S
      PROVE  IsFiniteSet(Less(v)) /\ rank[v] \in 0 .. n - 1
  <2>1. Less(v) \in SUBSET S /\ v \notin Less(v) OBVIOUS
  <2>2. /\ IsFiniteSet(Less(v)) /\ Cardinality(Less(v)) <= n
        /\ n = Cardinality(Less(v)) => S = Less(v)
    <3> HIDE DEF Less
    <3> QED BY <2>1, FS_Subset
  <2>3. Cardinality(Less(v)) \in Nat BY <2>2, FS_CardinalityType
  <2> QED BY <2>1, <2>2, <2>3, <1>1
<1>3. ASSUME NEW v \in S, NEW w \in S, v < w PROVE rank[v] < rank[w]
  <2>0. \A u \in S : u \in Nat OBVIOUS
  <2>1. Less(v) \in SUBSET Less(w) /\ v \in Less(w) /\ v \notin Less(v)
    <3>1. ASSUME NEW u \in Less(v) PROVE u \in Less(w)
      <4>1. u \in S /\ u < v BY <3>1
      <4> QED BY <4>1, <2>0, <1>3
    <3>2. v \in Less(w) BY <1>3
    <3>3. v \notin Less(v) BY <2>0
    <3> HIDE DEF Less
    <3> QED BY <3>1, <3>2, <3>3
  <2>2. /\ Cardinality(Less(v)) <= Cardinality(Less(w))
        /\ Cardinality(Less(w)) = Cardinality(Less(v)) => Less(w) = Less(v)
    <3>1. IsFiniteSet(Less(w)) BY <1>2
    <3> HIDE DEF Less
    <3> QED BY <2>1, <3>1, FS_Subset
  <2> QED BY <2>1, <2>2, <1>2
<1>4. IsFiniteSet(0 .. n - 1) /\ Cardinality(0 .. n - 1) = n
  <2>1. /\ IsFiniteSet(0 .. n - 1)
        /\ Cardinality(0 .. n - 1) = IF 0 > n - 1 THEN 0 ELSE n - 1 - 0 + 1
    <3> HIDE DEF n
    <3>1. 0 \in Int /\ n - 1 \in Int BY <1>1
    <3> QED BY <3>1, FS_Interval
  <2> QED BY <2>1, <1>1
<1>5. rank \in Injection(S, 0 .. n - 1)
  <2>1. rank \in [S -> 0 .. n - 1] BY <1>2
  <2>2. ASSUME NEW v \in S, NEW w \in S, rank[v] = rank[w] PROVE v = w
    <3>1. rank[v] \in Int /\ rank[w] \in Int BY <1>2
    <3>2. ~(v < w) /\ ~(w < v)
      <4> HIDE DEF rank
      <4> QED BY <1>3, <2>2, <3>1
    <3> QED BY <3>2
  <2> HIDE DEF rank, n
  <2> QED BY <2>1, <2>2 DEF Injection, IsInjective
<1>6. rank \in Surjection(S, 0 .. n - 1)
  <2> HIDE DEF rank
  <2> QED BY <1>4, <1>5, FS_Injection
<1>7. ASSUME NEW i \in 0 .. n - 1
      PROVE  f[i] \in S /\ rank[f[i]] = i
  <2>1. \E v \in S : rank[v] = i
    <3> HIDE DEF rank, n
    <3> QED BY <1>6 DEF Surjection
  <2>2. \E v \in S : Cardinality({u \in S : u < v}) = i BY <2>1
  <2>3. f[i] = CHOOSE v \in S : Cardinality({u \in S : u < v}) = i BY DEF Sorted
  <2>4. f[i] \in S /\ Cardinality({u \in S : u < f[i]}) = i BY <2>2, <2>3
  <2> QED BY <2>4
<1>8. DOMAIN f = 0 .. n - 1 BY DEF Sorted
<1>9. Top(f) = n - 1
  <2>1. n - 1 \in Nat \cup {-1} BY <1>1
  <2> QED BY <2>1, <1>8, TopOf
<1>10. f \in [0 .. n - 1 -> Nat]
  <2> DEFINE pick(i) == CHOOSE v \in S : Cardinality({u \in S : u < v}) = i
  <2>1. f = [i \in 0 .. n - 1 |-> pick(i)] BY DEF Sorted
  <2>2. \A i \in 0 .. n - 1 : f[i] \in Nat BY <1>7
  <2> HIDE DEF f, n, pick
  <2> QED BY <2>1, <2>2
<1>11. TableTyped(f) BY <1>9, <1>10, <1>1 DEF TableTyped
<1>12. Ascending(f)
  <2> HIDE DEF f, rank, n
  <2> SUFFICES ASSUME NEW a \in 0 .. n - 1, NEW b \in 0 .. n - 1, a < b PROVE f[a] < f[b]
    BY <1>8 DEF Ascending
  <2>1. f[a] \in Nat /\ f[b] \in Nat /\ rank[f[a]] = a /\ rank[f[b]] = b BY <1>7
  <2>2. ~(f[b] < f[a]) /\ f[a] # f[b] BY <2>1, <1>3, <1>7
  <2> QED BY <2>1, <2>2
<1>13. ASSUME NEW v \in S PROVE \E r \in DOMAIN f : f[r] = v
  <2> HIDE DEF f, rank, n
  <2>1. rank[v] \in 0 .. n - 1 /\ f[rank[v]] \in S /\ rank[f[rank[v]]] = rank[v]
    BY <1>2, <1>7
  <2>2. f[rank[v]] = v BY <2>1, <1>5 DEF Injection, IsInjective
  <2> QED BY <2>1, <2>2, <1>8
<1> QED BY <1>7, <1>8, <1>9, <1>11, <1>12, <1>13

-----------------------------------------------------------------------------
(* The world.                                                              *)

\* As many rooms with the same numbers.
SameRooms(w2, w) ==
  /\ WorldTyped(w2) /\ Top(w2) = Top(w)
  /\ \A r \in DOMAIN w : w2[r].number = w[r].number

LEMMA NumbersTyped ==
  ASSUME NEW w, WorldTyped(w)
  PROVE  /\ TableTyped(Numbers(w)) /\ Top(Numbers(w)) = Top(w)
         /\ DOMAIN Numbers(w) = 0 .. Top(w) /\ DOMAIN w = 0 .. Top(w)
         /\ \A r \in DOMAIN w : Numbers(w)[r] = w[r].number
<1>1. DOMAIN w = 0 .. Top(w) BY DEF WorldTyped
<1>2. DOMAIN Numbers(w) = DOMAIN w BY DEF Numbers
<1>3. Top(Numbers(w)) = Top(w) BY <1>2 DEF Top
<1>4. \A r \in DOMAIN w : w[r].number \in Nat BY DEF WorldTyped, RoomType
<1>5. Numbers(w) \in [0 .. Top(w) -> Nat] BY <1>1, <1>4 DEF Numbers
<1>6. \A r \in DOMAIN w : Numbers(w)[r] = w[r].number BY DEF Numbers
<1>7. Top(w) \in Nat BY DEF WorldTyped
<1>8. TableTyped(Numbers(w)) BY <1>3, <1>5, <1>7 DEF TableTyped
<1> QED BY <1>1, <1>2, <1>3, <1>6, <1>8

LEMMA SameNumbers ==
  ASSUME NEW w, NEW w2, WorldTyped(w), SameRooms(w2, w)
  PROVE  Numbers(w2) = Numbers(w) /\ DOMAIN w2 = DOMAIN w
<1>1. DOMAIN w2 = DOMAIN w BY DEF SameRooms, WorldTyped
<1>2. \A r \in DOMAIN w : w2[r].number = w[r].number BY DEF SameRooms
<1> QED BY <1>1, <1>2 DEF Numbers

LEMMA SameRoomsTwice ==
  ASSUME NEW w, NEW w2, NEW w3, WorldTyped(w), SameRooms(w2, w), SameRooms(w3, w2)
  PROVE  SameRooms(w3, w)
<1>1. DOMAIN w2 = DOMAIN w BY SameNumbers
<1> QED BY <1>1 DEF SameRooms

\* Room by room.
LEMMA SameByRoom ==
  ASSUME NEW w, WorldTyped(w), NEW w2, w2 = [r \in DOMAIN w |-> w2[r]],
         \A r \in DOMAIN w : w2[r] \in RoomType /\ w2[r].number = w[r].number
  PROVE  SameRooms(w2, w)
<1>1. DOMAIN w2 = DOMAIN w OBVIOUS
<1>2. Top(w2) = Top(w) BY <1>1 DEF Top
<1>3. w2 \in [0 .. Top(w) -> RoomType] BY DEF WorldTyped
<1> QED BY <1>2, <1>3 DEF SameRooms, WorldTyped

LEMMA HereSame ==
  ASSUME NEW w, WorldTyped(w), NEW r, NEW S \in SUBSET Body
  PROVE  /\ SameRooms([w EXCEPT ![r].here = S], w)
         /\ S \in SUBSET Thing => SameRooms([w EXCEPT ![r].vehs = S], w)
<1>1. \A q \in DOMAIN w : w[q] \in RoomType BY DEF WorldTyped
<1>2. SameRooms([w EXCEPT ![r].here = S], w)
  <2> DEFINE w2 == [w EXCEPT ![r].here = S]
  <2>1. w2 = [q \in DOMAIN w |-> IF q = r THEN [w[r] EXCEPT !.here = S] ELSE w[q]]
    OBVIOUS
  <2>2. ASSUME NEW q \in DOMAIN w PROVE w2[q] \in RoomType /\ w2[q].number = w[q].number
    BY <1>1, <2>1 DEF RoomType
  <2>3. w2 = [q \in DOMAIN w |-> w2[q]] BY <2>1
  <2> HIDE DEF w2
  <2>4. SameRooms(w2, w) BY <2>2, <2>3, SameByRoom
  <2> QED BY <2>4 DEF w2
<1>3. ASSUME S \in SUBSET Thing PROVE SameRooms([w EXCEPT ![r].vehs = S], w)
  <2> DEFINE w2 == [w EXCEPT ![r].vehs = S]
  <2>1. w2 = [q \in DOMAIN w |-> IF q = r THEN [w[r] EXCEPT !.vehs = S] ELSE w[q]]
    OBVIOUS
  <2>2. ASSUME NEW q \in DOMAIN w PROVE w2[q] \in RoomType /\ w2[q].number = w[q].number
    BY <1>1, <1>3, <2>1 DEF RoomType
  <2>3. w2 = [q \in DOMAIN w |-> w2[q]] BY <2>1
  <2> HIDE DEF w2
  <2>4. SameRooms(w2, w) BY <2>2, <2>3, SameByRoom
  <2> QED BY <2>4 DEF w2
<1> QED BY <1>2, <1>3

LEMMA DoorSame ==
  ASSUME NEW w, WorldTyped(w), NEW r,
         NEW D \in [Dir -> {None} \cup [to : Int, vnum : Nat]]
  PROVE  SameRooms([w EXCEPT ![r].door = D], w)
<1>1. \A q \in DOMAIN w : w[q] \in RoomType BY DEF WorldTyped
<1> DEFINE w2 == [w EXCEPT ![r].door = D]
<1>2. w2 = [q \in DOMAIN w |-> IF q = r THEN [w[r] EXCEPT !.door = D] ELSE w[q]]
  OBVIOUS
<1>3. ASSUME NEW q \in DOMAIN w PROVE w2[q] \in RoomType /\ w2[q].number = w[q].number
  BY <1>1, <1>2 DEF RoomType
<1>4. w2 = [q \in DOMAIN w |-> w2[q]] BY <1>2
<1> HIDE DEF w2
<1>5. SameRooms(w2, w) BY <1>3, <1>4, SameByRoom
<1> QED BY <1>5 DEF w2

LEMMA FromRoomSame ==
  ASSUME NEW w, WorldTyped(w), NEW x \in Body, NEW r
  PROVE  SameRooms(FromRoom(w, x, r), w)
<1>1. CASE r \in DOMAIN w
  <2>1. /\ w[r].here \ {x} \in SUBSET Body
        /\ w[r].vehs \ {x} \in SUBSET Thing /\ w[r].vehs \ {x} \in SUBSET Body
    BY <1>1 DEF WorldTyped, RoomType, Body
  <2>2. SameRooms([w EXCEPT ![r].here = w[r].here \ {x}], w) BY <2>1, HereSame
  <2>3. SameRooms([w EXCEPT ![r].vehs = w[r].vehs \ {x}], w) BY <2>1, HereSame
  <2> QED BY <2>2, <2>3 DEF FromRoom
<1>2. CASE r \notin DOMAIN w
  <2>1. FromRoom(w, x, r) = w BY <1>2 DEF FromRoom, WorldTyped
  <2>2. SameRooms(w, w) BY DEF SameRooms
  <2> QED BY <2>1, <2>2
<1> QED BY <1>1, <1>2

LEMMA EnterSame ==
  ASSUME NEW w, WorldTyped(w), NEW r \in DOMAIN w, NEW x \in Body
  PROVE  /\ SameRooms([w EXCEPT ![r].here = @ \cup {x}], w)
         /\ x \in Thing => SameRooms([w EXCEPT ![r].vehs = @ \cup {x}], w)
<1>1. w[r].here \cup {x} \in SUBSET Body /\ w[r].vehs \in SUBSET Thing
  BY DEF WorldTyped, RoomType
<1>2. SameRooms([w EXCEPT ![r].here = w[r].here \cup {x}], w) BY <1>1, HereSame
<1>3. ASSUME x \in Thing PROVE SameRooms([w EXCEPT ![r].vehs = w[r].vehs \cup {x}], w)
  <2>1. w[r].vehs \cup {x} \in SUBSET Thing /\ w[r].vehs \cup {x} \in SUBSET Body
    BY <1>1, <1>3 DEF Body
  <2> QED BY <2>1, HereSame
<1> QED BY <1>2, <1>3

LEMMA ResolvedSame ==
  ASSUME NEW w, WorldTyped(w), NEW n \in DOMAIN w
  PROVE  SameRooms(Resolved(w, n), w)
<1> DEFINE D == [k \in Dir |-> IF w[n].door[k] = None THEN None
                               ELSE [to |-> RealIn(Numbers(w), w[n].door[k].vnum),
                                     vnum |-> w[n].door[k].vnum]]
<1>1. \A v : RealIn(Numbers(w), v) \in Int
  BY NumbersTyped, RealInOf DEF TableTyped, Nowhere
<1>2. w[n].door \in [Dir -> {None} \cup [to : Int, vnum : Nat]]
  BY DEF WorldTyped, RoomType
<1>3. D \in [Dir -> {None} \cup [to : Int, vnum : Nat]] BY <1>1, <1>2
<1>4. Resolved(w, n) = [w EXCEPT ![n].door = D] BY DEF Resolved
<1> HIDE DEF D
<1>5. SameRooms([w EXCEPT ![n].door = D], w) BY <1>3, DoorSame, Zenon
<1> QED BY <1>4, <1>5

LEMMA BumpDoorsSame ==
  ASSUME NEW w, WorldTyped(w), NEW n \in Nat
  PROVE  SameRooms(BumpDoors(w, n), w)
<1> DEFINE D(r) == [k \in Dir |-> IF w[r].door[k] = None THEN None
              ELSE [to |-> IF w[r].door[k].vnum = w[n].number THEN n ELSE Bump(w[r].door[k].to, n),
                    vnum |-> w[r].door[k].vnum]]
           w2 == BumpDoors(w, n)
<1>1. w2 = [r \in DOMAIN w |-> [w[r] EXCEPT !.door = D(r)]] BY DEF BumpDoors
<1>2. ASSUME NEW r \in DOMAIN w
      PROVE  D(r) \in [Dir -> {None} \cup [to : Int, vnum : Nat]]
  <2>1. w[r].door \in [Dir -> {None} \cup [to : Int, vnum : Nat]]
    BY DEF WorldTyped, RoomType
  <2>2. \A i \in Int : Bump(i, n) \in Int BY DEF Bump
  <2> QED BY <2>1, <2>2
<1>3. ASSUME NEW r \in DOMAIN w PROVE w2[r] \in RoomType /\ w2[r].number = w[r].number
  <2>1. w[r] \in RoomType BY DEF WorldTyped
  <2>2. w2[r] = [w[r] EXCEPT !.door = D(r)] BY <1>1
  <2> HIDE DEF w2, D
  <2> QED BY <2>1, <2>2, <1>2 DEF RoomType
<1>4. w2 = [r \in DOMAIN w |-> w2[r]]
  <2> DEFINE R(r) == [w[r] EXCEPT !.door = D(r)]
  <2>1. w2 = [r \in DOMAIN w |-> R(r)] BY <1>1
  <2> HIDE DEF R, w2, D
  <2> QED BY <2>1
<1> HIDE DEF w2
<1>5. SameRooms(w2, w) BY <1>3, <1>4, SameByRoom
<1> QED BY <1>5 DEF w2

\* A room more.
LEMMA InsertRoomTyped ==
  ASSUME NEW w, WorldTyped(w), NEW p \in 0 .. Top(w) + 1, NEW e \in RoomType
  PROVE  /\ WorldTyped(InsertAt(w, p, e))
         /\ Numbers(InsertAt(w, p, e)) = InsertAt(Numbers(w), p, e.number)
         /\ Inserted(InsertAt(w, p, e), w, Top(w), p, e)
<1> DEFINE n == Top(w)
           g == InsertAt(w, p, e)
<1>1. n \in Nat /\ DOMAIN w = 0 .. n /\ \A r \in 0 .. n : w[r] \in RoomType BY DEF WorldTyped
<1>2. Inserted(g, w, n, p, e)
  <2> HIDE DEF n
  <2>1. n \in Nat \cup {-1} /\ p \in 0 .. n + 1 BY <1>1 DEF n
  <2> QED BY <1>1, <2>1, InsertShape, Zenon
<1>3. g = [r \in 0 .. n + 1 |-> IF r < p THEN w[r] ELSE IF r = p THEN e ELSE w[r - 1]]
  BY DEF InsertAt
<1>4. Top(g) = n + 1 BY <1>2 DEF Inserted
<1>5. \A r \in 0 .. n + 1 : g[r] \in RoomType BY <1>1, <1>3
<1>6. WorldTyped(g)
  <2>1. g \in [0 .. n + 1 -> RoomType]
    <3> DEFINE d(r) == IF r < p THEN w[r] ELSE IF r = p THEN e ELSE w[r - 1]
    <3>1. g = [r \in 0 .. n + 1 |-> d(r)] BY <1>3
    <3> HIDE DEF d, g, n
    <3> QED BY <3>1, <1>5
  <2>2. n + 1 \in Nat BY <1>1
  <2> HIDE DEF g, n
  <2> QED BY <1>4, <2>1, <2>2 DEF WorldTyped
<1>7. Numbers(g) = InsertAt(Numbers(w), p, e.number)
  <2>1. Numbers(g) = [r \in 0 .. n + 1 |-> g[r].number] BY <1>3 DEF Numbers
  <2>2. Top(Numbers(w)) = n /\ DOMAIN Numbers(w) = 0 .. n
        /\ \A r \in 0 .. n : Numbers(w)[r] = w[r].number
    BY NumbersTyped
  <2>3. InsertAt(Numbers(w), p, e.number) =
          [r \in 0 .. n + 1 |-> IF r < p THEN Numbers(w)[r] ELSE IF r = p THEN e.number
                                ELSE Numbers(w)[r - 1]]
    BY <2>2 DEF InsertAt
  <2>4. ASSUME NEW r \in 0 .. n + 1
        PROVE  g[r].number = IF r < p THEN Numbers(w)[r] ELSE IF r = p THEN e.number
                             ELSE Numbers(w)[r - 1]
    BY <1>1, <1>3, <2>2
  <2> HIDE DEF g, n
  <2> QED BY <2>1, <2>3, <2>4
<1> QED BY <1>2, <1>6, <1>7

\* A room less.
LEMMA RemoveRoomTyped ==
  ASSUME NEW w, WorldTyped(w), NEW p \in 0 .. Top(w), Top(w) > 0
  PROVE  /\ WorldTyped(RemoveAt(w, p)) /\ Top(RemoveAt(w, p)) = Top(w) - 1
         /\ Numbers(RemoveAt(w, p)) = RemoveAt(Numbers(w), p)
<1> DEFINE n == Top(w)
           g == RemoveAt(w, p)
<1>1. n \in Nat /\ DOMAIN w = 0 .. n /\ \A r \in 0 .. n : w[r] \in RoomType BY DEF WorldTyped
<1>2. g = [r \in 0 .. n - 1 |-> IF r < p THEN w[r] ELSE w[r + 1]] BY DEF RemoveAt
<1>3. Top(g) = n - 1
  <2>1. n - 1 \in Nat \cup {-1} /\ DOMAIN g = 0 .. n - 1 BY <1>1, <1>2
  <2> HIDE DEF g, n
  <2> QED BY <2>1, TopOf
<1>4. \A r \in 0 .. n - 1 : g[r] \in RoomType BY <1>1, <1>2
<1>5. WorldTyped(g)
  <2>1. g \in [0 .. n - 1 -> RoomType]
    <3> DEFINE e(r) == IF r < p THEN w[r] ELSE w[r + 1]
    <3>1. g = [r \in 0 .. n - 1 |-> e(r)] BY <1>2
    <3> HIDE DEF e, g, n
    <3> QED BY <3>1, <1>4
  <2>2. n - 1 \in Nat BY <1>1
  <2> HIDE DEF g, n
  <2> QED BY <1>3, <2>1, <2>2 DEF WorldTyped
<1>6. Numbers(g) = RemoveAt(Numbers(w), p)
  <2>1. Numbers(g) = [r \in 0 .. n - 1 |-> g[r].number] BY <1>2 DEF Numbers
  <2>2. Top(Numbers(w)) = n /\ DOMAIN Numbers(w) = 0 .. n
        /\ \A r \in 0 .. n : Numbers(w)[r] = w[r].number
    BY NumbersTyped
  <2>3. RemoveAt(Numbers(w), p) =
          [r \in 0 .. n - 1 |-> IF r < p THEN Numbers(w)[r] ELSE Numbers(w)[r + 1]]
    BY <2>2 DEF RemoveAt
  <2>4. ASSUME NEW r \in 0 .. n - 1
        PROVE  g[r].number = IF r < p THEN Numbers(w)[r] ELSE Numbers(w)[r + 1]
    BY <1>1, <1>2, <2>2
  <2> HIDE DEF g, n
  <2> QED BY <2>1, <2>3, <2>4
<1> QED BY <1>3, <1>5, <1>6

-----------------------------------------------------------------------------
(* The tables stay in order.                                               *)

LEMMA TableFacts ==
  ASSUME TablesInv, NEW k \in Table
  PROVE  TableTyped(TableOf(k)) /\ Ascending(TableOf(k))
<1>1. CASE k = "room"
  <2>1. TableOf(k) = Numbers(world) /\ WorldTyped(world) BY <1>1 DEF TableOf, TablesInv, Typed
  <2> QED BY <2>1, NumbersTyped DEF TablesInv
<1>2. CASE k \in Proto
  <2>1. TableOf(k) = index[k] BY <1>2 DEF TableOf, Proto
  <2> QED BY <2>1, <1>2 DEF TablesInv, Typed
<1> QED BY <1>1, <1>2 DEF Table

\* What is edited is behind the first entry; if it is missing, it is made.
LEMMA BehindFirst ==
  ASSUME TablesInv, NEW b \in Builder, NEW k \in Table, NEW v \in Nat,
         <<k, v>> \in scene.edit[b]
  PROVE  /\ \E r \in DOMAIN TableOf(k) : TableOf(k)[r] < v
         /\ Real(k, v) # 0
         /\ Real(k, v) <= 0 => \A r \in DOMAIN TableOf(k) : TableOf(k)[r] # v
         /\ Real(k, v) > 0 => Real(k, v) \in DOMAIN TableOf(k) /\ TableOf(k)[Real(k, v)] = v
         /\ Place(TableOf(k), v) > 0
<1> DEFINE f == TableOf(k)
<1>1. TableTyped(f) /\ Ascending(f) BY TableFacts
<1>2. PICK u \in Lasting(scene, k) : u < v
  BY DEF TablesInv, FirstKept
<1>3. PICK r \in DOMAIN f : f[r] = u BY DEF TablesInv
<1>4. DOMAIN f = 0 .. Top(f) /\ Top(f) \in Nat \cup {-1} /\ \A q \in DOMAIN f : f[q] \in Nat
  BY <1>1 DEF TableTyped
<1>5. Real(k, v) = RealIn(f, v) BY DEF Real
<1> HIDE DEF f
<1>6. \/ Real(k, v) = Nowhere /\ \A q \in DOMAIN f : f[q] # v
      \/ Real(k, v) \in DOMAIN f /\ f[Real(k, v)] = v
  BY <1>1, <1>5, RealInOf
<1>7. Real(k, v) # 0
  <2> SUFFICES ASSUME Real(k, v) = 0 PROVE FALSE OBVIOUS
  <2>1. 0 \in DOMAIN f /\ f[0] = v BY <1>6 DEF Nowhere
  <2>2. r = 0 \/ f[0] < f[r] BY <2>1, <1>1, <1>4 DEF Ascending
  <2> QED BY <2>1, <2>2, <1>2, <1>3, <1>4
<1>8. Place(f, v) > 0
  <2>1. /\ Place(f, v) \in 0 .. Top(f) + 1
        /\ \A q \in DOMAIN f : q >= Place(f, v) => f[q] > v
    BY <1>1, PlaceIs
  <2> QED BY <2>1, <1>2, <1>3, <1>4
<1> QED BY <1>2, <1>3, <1>4, <1>6, <1>7, <1>8 DEF f, Nowhere

\* A step that leaves the numbers as they are.
LEMMA TablesSame ==
  ASSUME TablesInv, scene' = scene, index' = index, SameRooms(world', world),
         at' \in [Body -> Int],
         Top(zone') \in Nat \cup {-1}, zone' \in [0 .. Top(zone') -> CmdType],
         \A i \in DOMAIN zone' : Answerable(zone'[i].letter),
         DOMAIN desk' = Builder,
         \A b \in Builder : PageTyped(desk'[b]) /\ Allowed(b, desk'[b])
  PROVE  TablesInv' /\ \A k \in Table : TableOf(k)' = TableOf(k)
<1>1. WorldTyped(world) BY DEF TablesInv, Typed
<1>2. Numbers(world') = Numbers(world) /\ DOMAIN world' = DOMAIN world
  BY <1>1, SameNumbers
<1>3. \A k \in Table : TableOf(k)' = TableOf(k) BY <1>2 DEF TableOf
<1>4. Typed'
  <2>1. WorldTyped(world') BY DEF SameRooms
  <2> QED BY <2>1 DEF Typed, TablesInv, WorldTyped, TableTyped, PageTyped, Top
<1>5. \A l \in Letter, j \in 1..3 : RefTable(l, j) # "none" => RefTable(l, j) \in Table
  BY DEF RefTable, Table, Proto
<1>6. \A l : Answerable(l)' <=> Answerable(l) BY <1>2 DEF Answerable, TableOf
<1>7. ASSUME NEW b \in Builder PROVE Allowed(b, desk[b])'
  <2>1. \A r \in DOMAIN world : world'[r].number = world[r].number BY DEF SameRooms
  <2>2. Allowed(b, desk'[b]) OBVIOUS
  <2> QED BY <1>2, <1>6, <2>1, <2>2 DEF Allowed
<1> QED BY <1>3, <1>4, <1>6, <1>7 DEF TablesInv

LEMMA TablesQuiet ==
  ASSUME TablesInv, UNCHANGED <<scene, index, zone, desk>>,
         SameRooms(world', world), at' \in [Body -> Int]
  PROVE  TablesInv' /\ \A k \in Table : TableOf(k)' = TableOf(k)
<1>1. /\ Top(zone) \in Nat \cup {-1} /\ zone \in [0 .. Top(zone) -> CmdType]
      /\ \A i \in DOMAIN zone : Answerable(zone[i].letter)
      /\ DOMAIN desk = Builder
      /\ \A b \in Builder : PageTyped(desk[b]) /\ Allowed(b, desk[b])
  BY DEF TablesInv, Typed
<1> QED BY <1>1, TablesSame, Zenon

LEMMA WorldFacts ==
  ASSUME TablesInv
  PROVE  /\ WorldTyped(world) /\ DOMAIN world = 0 .. Top(world) /\ Top(world) \in Nat
         /\ 0 \in DOMAIN world /\ SameRooms(world, world)
         /\ at \in [Body -> Int]
  BY DEF TablesInv, Typed, WorldTyped, SameRooms

LEMMA TablesMove ==
  ASSUME TablesInv, NEW x \in Body, NEW r \in DOMAIN world, Move(x, r)
  PROVE  TablesInv' /\ \A k \in Table : TableOf(k)' = TableOf(k)
<1> DEFINE w == FromRoom(world, x, at[x])
<1>1. SameRooms(w, world) BY WorldFacts, FromRoomSame
<1>2. WorldTyped(w) /\ r \in DOMAIN w BY <1>1, WorldFacts, SameNumbers DEF SameRooms
<1>3. \/ x \in Thing /\ world' = [w EXCEPT ![r].vehs = @ \cup {x}]
      \/ world' = [w EXCEPT ![r].here = @ \cup {x}]
  BY DEF Move, IsVeh
<1> HIDE DEF w
<1>4. SameRooms(world', w)
  <2>1. SameRooms([w EXCEPT ![r].here = @ \cup {x}], w) BY <1>2, EnterSame
  <2>2. x \in Thing => SameRooms([w EXCEPT ![r].vehs = @ \cup {x}], w) BY <1>2, EnterSame
  <2> QED BY <1>3, <2>1, <2>2
<1>5. SameRooms(world', world) BY <1>1, <1>4, WorldFacts, SameRoomsTwice
<1>6. at' \in [Body -> Int] BY WorldFacts DEF Move
<1>7. UNCHANGED <<scene, index, zone, desk>> BY DEF Move
<1> QED BY <1>5, <1>6, <1>7, TablesQuiet

LEMMA TablesLoad ==
  ASSUME TablesInv, NEW x \in Thing, NEW i \in DOMAIN zone, Load(x, i)
  PROVE  TablesInv' /\ \A k \in Table : TableOf(k)' = TableOf(k)
<1> DEFINE c == zone[i]
           k == RefTable(c.letter, 1)
           r == CASE c.letter = "M"                                 -> CharRoom(world, c.arg[3])
             [] c.letter \in {"O", "V"} /\ c.arg[3] \in DOMAIN world -> c.arg[3]
             [] OTHER                                          -> Nowhere
<1>1. r = Nowhere \/ r \in DOMAIN world BY WorldFacts DEF CharRoom
<1>2. at' = [at EXCEPT ![x] = r] BY DEF Load
<1>3. \/ world' = world
      \/ r # Nowhere /\ world' = [world EXCEPT ![r].vehs = @ \cup {x}]
      \/ r # Nowhere /\ world' = [world EXCEPT ![r].here = @ \cup {x}]
  BY DEF Load
<1> HIDE DEF r
<1>4. SameRooms(world', world)
  <2>1. CASE r # Nowhere
    <3>1. r \in DOMAIN world /\ x \in Body BY <1>1, <2>1 DEF Body
    <3>2. WorldTyped(world) BY WorldFacts
    <3>3. SameRooms([world EXCEPT ![r].here = @ \cup {x}], world) BY <3>1, <3>2, EnterSame
    <3>4. SameRooms([world EXCEPT ![r].vehs = @ \cup {x}], world) BY <3>1, <3>2, EnterSame
    <3> QED BY <1>3, <3>3, <3>4, WorldFacts
  <2> QED BY <2>1, <1>3, WorldFacts
<1>5. r \in Int BY <1>1, WorldFacts DEF Nowhere
<1>6. at' \in [Body -> Int] BY <1>2, <1>5, WorldFacts
<1>7. UNCHANGED <<scene, index, zone, desk>> BY DEF Load
<1> QED BY <1>4, <1>6, <1>7, TablesQuiet

LEMMA TablesExtract ==
  ASSUME TablesInv, NEW x \in Thing, Extract(x)
  PROVE  TablesInv' /\ \A k \in Table : TableOf(k)' = TableOf(k)
<1>1. x \in Body BY DEF Body
<1>2. SameRooms(world', world) BY <1>1, WorldFacts, FromRoomSame DEF Extract
<1>3. at' = [at EXCEPT ![x] = Nowhere] /\ Nowhere \in Int BY DEF Extract, Nowhere
<1>5. at' \in [Body -> Int] BY <1>3, WorldFacts
<1>4. UNCHANGED <<scene, index, zone, desk>> BY DEF Extract
<1> QED BY <1>2, <1>4, <1>5, TablesQuiet

\* A step at one builder's desk.
LEMMA TablesDesk ==
  ASSUME TablesInv, UNCHANGED <<scene, index, zone>>, NEW b \in Builder, NEW page,
         SameRooms(world', world), at' \in [Body -> Int],
         desk' = [desk EXCEPT ![b] = page], PageTyped(page), Allowed(b, page)
  PROVE  TablesInv' /\ \A k \in Table : TableOf(k)' = TableOf(k)
<1>1. /\ Top(zone) \in Nat \cup {-1} /\ zone \in [0 .. Top(zone) -> CmdType]
      /\ \A i \in DOMAIN zone : Answerable(zone[i].letter)
      /\ DOMAIN desk = Builder
      /\ \A c \in Builder : PageTyped(desk[c]) /\ Allowed(c, desk[c])
  BY DEF TablesInv, Typed
<1>2. DOMAIN desk' = Builder BY <1>1
<1>3. \A c \in Builder : desk'[c] = IF c = b THEN page ELSE desk[c] BY <1>1
<1>4. \A c \in Builder : PageTyped(desk'[c]) /\ Allowed(c, desk'[c]) BY <1>1, <1>3
<1> QED BY <1>1, <1>2, <1>4, TablesSame, Zenon

LEMMA SceneFacts ==
  ASSUME TablesInv
  PROVE  /\ scene \in Scenes
         /\ \A b \in Builder : \A e \in scene.edit[b] : e[1] \in Table /\ e[2] \in Nat
         /\ \A b \in Builder : \A k, v : <<k, v>> \in scene.edit[b] => k \in Table /\ v \in Nat
         /\ scene.exits \subseteq Nat /\ scene.letters \subseteq Letter
         /\ scene.max \in Nat /\ scene.things \subseteq Thing
<1>1. scene \in Scenes BY DEF TablesInv, Typed
<1>2. \A b \in Builder : scene.edit[b] \subseteq (Proto \cup {"room"}) \X Nat
  BY <1>1, OlcAssumption
<1>3. /\ scene.exits \subseteq Nat /\ scene.letters \subseteq Letter
      /\ scene.max \in Nat /\ scene.things \subseteq Thing
  BY <1>1, OlcAssumption
<1>4. \A b \in Builder : \A e \in scene.edit[b] : e[1] \in Table /\ e[2] \in Nat
  BY <1>2 DEF Table
<1>5. \A b \in Builder : \A k, v : <<k, v>> \in scene.edit[b] => k \in Table /\ v \in Nat
  BY <1>2 DEF Table
<1> QED BY <1>1, <1>3, <1>4, <1>5

LEMMA PageFacts ==
  ASSUME TablesInv, NEW b \in Builder
  PROVE  PageTyped(desk[b]) /\ Allowed(b, desk[b]) /\ DOMAIN desk = Builder
  BY DEF TablesInv, Typed

LEMMA NewRoomTyped == NewRoom \in RoomType
<1>1. NoDoors \in [Dir -> {None} \cup [to : Int, vnum : Nat]] BY DEF NoDoors
<1> QED BY <1>1 DEF NewRoom, RoomType

LEMMA TablesWithdraw ==
  ASSUME TablesInv, NEW b \in Builder, NEW page, Withdraw(b, page),
         PageTyped(page), Allowed(b, page)
  PROVE  TablesInv' /\ \A k \in Table : TableOf(k)' = TableOf(k)
<1>1. b \in Body BY DEF Body
<1>2. SameRooms(world', world) BY <1>1, WorldFacts, FromRoomSame DEF Withdraw
<1>3. at' = [at EXCEPT ![b] = Nowhere] /\ Nowhere \in Int BY DEF Withdraw, Nowhere
<1>4. at' \in [Body -> Int] BY <1>3, WorldFacts
<1>5. UNCHANGED <<scene, index, zone>> /\ desk' = [desk EXCEPT ![b] = page] BY DEF Withdraw
<1> QED BY <1>2, <1>4, <1>5, TablesDesk

LEMMA TablesRedit ==
  ASSUME TablesInv, NEW b \in Builder, NEW v, Redit(b, v)
  PROVE  TablesInv' /\ \A k \in Table : TableOf(k)' = TableOf(k)
<1> DEFINE n == Real("room", v)
           w == FromRoom(world, b, at[b])
           R == IF n = Nowhere THEN NewRoom ELSE w[n]
           page == [mode |-> "room", vnum |-> v, room |-> R]
<1>1. <<"room", v>> \in scene.edit[b] /\ v \in Nat BY SceneFacts DEF Redit, May
<1>2. SameRooms(w, world) /\ DOMAIN w = DOMAIN world /\ WorldTyped(w)
  <2>1. b \in Body BY DEF Body
  <2>2. SameRooms(w, world) BY <2>1, WorldFacts, FromRoomSame
  <2> QED BY <2>2, WorldFacts, SameNumbers DEF SameRooms
<1>3. \/ n = Nowhere /\ \A r \in DOMAIN world : world[r].number # v
      \/ n \in DOMAIN world /\ world[n].number = v
  <2>1. n = RealIn(Numbers(world), v) BY DEF Real, TableOf
  <2> HIDE DEF n
  <2> QED BY <2>1, RealInOf, NumbersTyped, WorldFacts
<1>4. R \in RoomType /\ (R.number = v \/ \A r \in DOMAIN world : world[r].number # v)
  <2>1. CASE n = Nowhere
    <3>1. R = NewRoom BY <2>1
    <3>2. 0 \in DOMAIN world /\ Nowhere \notin DOMAIN world BY WorldFacts DEF Nowhere
    <3>3. \A r \in DOMAIN world : world[r].number # v BY <1>3, <2>1, <3>2
    <3> QED BY <3>1, <3>3, NewRoomTyped
  <2>2. CASE n # Nowhere
    <3>1. R = w[n] /\ n \in DOMAIN world /\ world[n].number = v BY <1>3, <2>2
    <3>2. w[n] \in RoomType /\ w[n].number = world[n].number
      BY <1>2, <3>1 DEF SameRooms, WorldTyped
    <3> QED BY <3>1, <3>2
  <2> QED BY <2>1, <2>2
<1>5. Withdraw(b, page) BY DEF Redit
<1> HIDE DEF R
<1>6. PageTyped(page) BY <1>1, <1>4 DEF PageTyped, Proto
<1>7. Allowed(b, page) BY <1>1, <1>4 DEF Allowed, Table, Proto
<1> QED BY <1>5, <1>6, <1>7, TablesWithdraw

LEMMA TablesRclone ==
  ASSUME TablesInv, NEW b \in Builder, NEW u, NEW v, Rclone(b, u, v)
  PROVE  TablesInv' /\ \A k \in Table : TableOf(k)' = TableOf(k)
<1> DEFINE n == Real("room", u)
           R == [world[n] EXCEPT !.here = {}]
           page == [mode |-> "room", vnum |-> v, room |-> R]
<1>1. <<"room", v>> \in scene.edit[b] /\ v \in Nat BY SceneFacts DEF Rclone, May
<1>2. n \in DOMAIN world
  <2>1. n = RealIn(Numbers(world), u) BY DEF Real, TableOf
  <2>2. n # Nowhere BY DEF Rclone
  <2> HIDE DEF n
  <2> QED BY <2>1, <2>2, RealInOf, NumbersTyped, WorldFacts
<1>3. \A r \in DOMAIN world : world[r].number # v
  <2>1. RealIn(Numbers(world), v) = Nowhere BY DEF Rclone, Real, TableOf
  <2>2. Nowhere \notin DOMAIN world BY WorldFacts DEF Nowhere
  <2> QED BY <2>1, <2>2, RealInOf, NumbersTyped, WorldFacts
<1>4. R \in RoomType
  <2>1. world[n] \in RoomType BY <1>2, WorldFacts DEF WorldTyped
  <2> QED BY <2>1 DEF RoomType
<1>5. Withdraw(b, page) BY DEF Rclone
<1> HIDE DEF R
<1>6. PageTyped(page) BY <1>1, <1>4 DEF PageTyped, Proto
<1>7. Allowed(b, page) BY <1>1, <1>3 DEF Allowed, Table, Proto
<1> QED BY <1>5, <1>6, <1>7, TablesWithdraw

LEMMA TablesOpen ==
  ASSUME TablesInv, NEW b \in Builder, NEW k, NEW v, Open(b, k, v)
  PROVE  TablesInv' /\ \A t \in Table : TableOf(t)' = TableOf(t)
<1> DEFINE page == [mode |-> k, vnum |-> v]
<1>1. k \in Proto /\ <<k, v>> \in scene.edit[b] /\ v \in Nat BY SceneFacts DEF Open, May
<1>2. PageTyped(page) BY <1>1 DEF PageTyped, Proto
<1>3. Allowed(b, page) BY <1>1 DEF Allowed, Table, Proto
<1>4. UNCHANGED <<scene, index, zone, world, at>> /\ desk' = [desk EXCEPT ![b] = page]
  BY DEF Open
<1>5. SameRooms(world', world) /\ at' \in [Body -> Int] BY <1>4, WorldFacts
<1> HIDE DEF page
<1> QED BY <1>2, <1>3, <1>4, <1>5, TablesDesk

LEMMA TablesExit ==
  ASSUME TablesInv, NEW b \in Builder, NEW k \in Dir, NEW d \in {None} \cup [to : Int, vnum : Nat],
         desk[b].mode = "room", desk' = [desk EXCEPT ![b].room.door[k] = d],
         UNCHANGED <<scene, world, index, at, zone>>
  PROVE  TablesInv' /\ \A t \in Table : TableOf(t)' = TableOf(t)
<1> DEFINE D == [desk[b].room.door EXCEPT ![k] = d]
           R == [desk[b].room EXCEPT !.door = D]
           page == [desk[b] EXCEPT !.room = R]
<1>1. desk[b] \in [mode : {"room"}, vnum : Nat, room : RoomType] /\ Allowed(b, desk[b])
  BY PageFacts DEF PageTyped
<1>2. desk[b].room \in RoomType BY <1>1
<1>3. desk[b].room.door \in [Dir -> {None} \cup [to : Int, vnum : Nat]] BY <1>2 DEF RoomType
<1>4. D \in [Dir -> {None} \cup [to : Int, vnum : Nat]] BY <1>3
<1> HIDE DEF D
<1>5. R \in RoomType /\ R.number = desk[b].room.number BY <1>2, <1>4 DEF RoomType
<1> HIDE DEF R
<1>6. /\ page \in [mode : {"room"}, vnum : Nat, room : RoomType]
      /\ page.mode = "room" /\ page.vnum = desk[b].vnum /\ page.room = R
  BY <1>1, <1>5
<1> HIDE DEF page
<1>7. PageTyped(page) BY <1>6 DEF PageTyped, Proto
<1>8. Allowed(b, page) BY <1>1, <1>5, <1>6 DEF Allowed, Table, Proto
<1>9. desk' = [desk EXCEPT ![b] = page] BY DEF page, R, D
<1>10. SameRooms(world', world) /\ at' \in [Body -> Int] BY WorldFacts
<1> QED BY <1>7, <1>8, <1>9, <1>10, TablesDesk

LEMMA TablesSetExit ==
  ASSUME TablesInv, NEW b \in Builder, NEW k \in Dir, NEW v \in scene.exits, SetExit(b, k, v)
  PROVE  TablesInv' /\ \A t \in Table : TableOf(t)' = TableOf(t)
<1> DEFINE old == desk[b].room.door[k]
           d == [to |-> IF old = None THEN 0 ELSE old.to, vnum |-> v]
<1>1. desk[b].mode = "room" BY DEF SetExit
<1>2. desk[b] \in [mode : {"room"}, vnum : Nat, room : RoomType]
  BY <1>1, PageFacts DEF PageTyped
<1>3. old \in {None} \cup [to : Int, vnum : Nat] BY <1>2 DEF RoomType
<1>4. v \in Nat BY SceneFacts
<1>5. d \in [to : Int, vnum : Nat]
  <2> HIDE DEF old
  <2> QED BY <1>3, <1>4
<1>6. desk' = [desk EXCEPT ![b].room.door[k] = d] /\ UNCHANGED <<scene, world, index, at, zone>>
  BY DEF SetExit
<1> HIDE DEF d
<1> QED BY <1>1, <1>5, <1>6, TablesExit

LEMMA TablesClearExit ==
  ASSUME TablesInv, NEW b \in Builder, NEW k \in Dir, ClearExit(b, k)
  PROVE  TablesInv' /\ \A t \in Table : TableOf(t)' = TableOf(t)
  BY TablesExit DEF ClearExit

LEMMA BlankTyped ==
  /\ Blank \in CmdType /\ Answerable(Blank.letter)
  /\ \A j \in 1..3 : RefTable(Blank.letter, j) = "none"
<1>1. Blank \in CmdType BY DEF Blank, CmdType, Letter
<1>2. \A j \in 1..3 : RefTable("*", j) = "none" BY DEF RefTable
<1> QED BY <1>1, <1>2 DEF Blank, Answerable

LEMMA RefTableIs ==
  \A l, j : RefTable(l, j) # "none" => RefTable(l, j) \in Table
  BY DEF RefTable, Table, Proto

LEMMA TablesZedit ==
  ASSUME TablesInv, NEW b \in Builder, NEW i \in 0 .. scene.max,
         NEW how \in {"edit", "insert", "add"}, Zedit(b, i, how)
  PROVE  TablesInv' /\ \A t \in Table : TableOf(t)' = TableOf(t)
<1> DEFINE c == IF how = "edit" THEN zone[i] ELSE Blank
           page == [mode |-> "cmd", nr |-> i, insert |-> how = "insert", cmd |-> c]
<1>1. c \in CmdType /\ Answerable(c.letter)
  <2>1. CASE how = "edit"
    <3>1. i \in DOMAIN zone BY <2>1 DEF Zedit
    <3> QED BY <2>1, <3>1 DEF TablesInv, Typed
  <2>2. CASE how # "edit" BY <2>2, BlankTyped
  <2> QED BY <2>1, <2>2
<1>2. "zedit" \in scene.cmds[b] BY DEF Zedit
<1>3. desk' = [desk EXCEPT ![b] = page] /\ UNCHANGED <<scene, world, index, at, zone>>
  BY DEF Zedit
<1> HIDE DEF c
<1>4. PageTyped(page)
  <2>1. i \in Nat /\ (how = "insert") \in BOOLEAN BY SceneFacts
  <2> QED BY <1>1, <2>1 DEF PageTyped, Proto
<1>5. Allowed(b, page) BY <1>1, <1>2 DEF Allowed, Table, Proto
<1> HIDE DEF page
<1>6. SameRooms(world', world) /\ at' \in [Body -> Int] BY <1>3, WorldFacts
<1> QED BY <1>3, <1>4, <1>5, <1>6, TablesDesk

\* The command at the desk is replaced.
LEMMA TablesCmd ==
  ASSUME TablesInv, NEW b \in Builder, NEW c \in CmdType, Answerable(c.letter),
         desk[b].mode = "cmd", desk' = [desk EXCEPT ![b].cmd = c],
         UNCHANGED <<scene, world, index, at, zone>>
  PROVE  TablesInv' /\ \A t \in Table : TableOf(t)' = TableOf(t)
<1> DEFINE page == [desk[b] EXCEPT !.cmd = c]
<1>1. /\ desk[b] \in [mode : {"cmd"}, nr : Nat, insert : BOOLEAN, cmd : CmdType]
      /\ Allowed(b, desk[b])
  BY PageFacts DEF PageTyped
<1>2. /\ page \in [mode : {"cmd"}, nr : Nat, insert : BOOLEAN, cmd : CmdType]
      /\ page.mode = "cmd" /\ page.cmd = c
  BY <1>1
<1>3. desk' = [desk EXCEPT ![b] = page] OBVIOUS
<1> HIDE DEF page
<1>4. PageTyped(page) BY <1>2 DEF PageTyped, Proto
<1>5. Allowed(b, page) BY <1>1, <1>2 DEF Allowed, Table, Proto
<1>6. SameRooms(world', world) /\ at' \in [Body -> Int] BY WorldFacts
<1> QED BY <1>3, <1>4, <1>5, <1>6, TablesDesk

LEMMA TablesZeditType ==
  ASSUME TablesInv, NEW b \in Builder, NEW l \in Letter, ZeditType(b, l)
  PROVE  TablesInv' /\ \A t \in Table : TableOf(t)' = TableOf(t)
<1> DEFINE M == [j \in 1..3 |-> IF RefTable(l, j) = "none" THEN 0 ELSE TableOf(RefTable(l, j))[0]]
           c == [Zblank(l) EXCEPT !.means = M]
<1>1. Answerable(l) BY DEF TablesInv, ZeditType
<1>2. M \in [1..3 -> Nat]
  <2>1. ASSUME NEW j \in 1..3, RefTable(l, j) # "none"
        PROVE  TableOf(RefTable(l, j))[0] \in Nat
    <3>1. RefTable(l, j) \in Table BY <2>1, RefTableIs
    <3>2. 0 \in DOMAIN TableOf(RefTable(l, j)) BY <1>1, <2>1 DEF Answerable
    <3> QED BY <3>1, <3>2, TableFacts DEF TableTyped
  <2> QED BY <2>1
<1> HIDE DEF M
<1>3. c \in CmdType /\ c.letter = l
  <2>1. c = [Blank EXCEPT !.letter = l, !.means = M] BY DEF Zblank
  <2> HIDE DEF c
  <2> QED BY <1>2, <2>1, BlankTyped DEF CmdType
<1>4. desk[b].mode = "cmd" BY DEF ZeditType
<1>5. desk' = [desk EXCEPT ![b].cmd = c] BY DEF ZeditType, M
<1>6. UNCHANGED <<scene, world, index, at, zone>> BY DEF ZeditType
<1> HIDE DEF c
<1> QED BY <1>1, <1>3, <1>4, <1>5, <1>6, TablesCmd

\* What ZeditArg makes of a typed number is an entry of the table.
LEMMA TypedNumber ==
  ASSUME TablesInv, NEW k \in Table, NEW v, 0 \in DOMAIN TableOf(k)
  PROVE  (IF Real(k, v) > 0 THEN Real(k, v) ELSE 0) \in DOMAIN TableOf(k)
<1>1. \/ Real(k, v) = Nowhere \/ Real(k, v) \in DOMAIN TableOf(k)
  BY TableFacts, RealInOf DEF Real
<1> QED BY <1>1 DEF Nowhere

LEMMA TablesZeditArg ==
  ASSUME TablesInv, NEW b \in Builder, NEW j \in 1..3, NEW v, ZeditArg(b, j, v)
  PROVE  TablesInv' /\ \A t \in Table : TableOf(t)' = TableOf(t)
<1> DEFINE k == RefTable(desk[b].cmd.letter, j)
           n == IF Real(k, v) > 0 THEN Real(k, v) ELSE 0
           c == [desk[b].cmd EXCEPT !.arg[j] = n, !.means[j] = TableOf(k)[n]]
<1>1. desk[b].mode = "cmd" /\ k # "none" BY DEF ZeditArg
<1>2. /\ desk[b] \in [mode : {"cmd"}, nr : Nat, insert : BOOLEAN, cmd : CmdType]
      /\ Allowed(b, desk[b])
  BY <1>1, PageFacts DEF PageTyped
<1>3. Answerable(desk[b].cmd.letter) /\ desk[b].cmd \in CmdType BY <1>1, <1>2 DEF Allowed
<1>4. k \in Table /\ 0 \in DOMAIN TableOf(k) BY <1>1, <1>3, RefTableIs DEF Answerable
<1>5. n \in DOMAIN TableOf(k)
  <2> HIDE DEF k
  <2> QED BY <1>4, TypedNumber
<1>6. n \in Int /\ TableOf(k)[n] \in Nat
  <2> HIDE DEF k, n
  <2> QED BY <1>4, <1>5, TableFacts DEF TableTyped
<1>7. desk' = [desk EXCEPT ![b].cmd = c] BY DEF ZeditArg
<1>8. UNCHANGED <<scene, world, index, at, zone>> BY DEF ZeditArg
<1>9. c \in CmdType /\ c.letter = desk[b].cmd.letter
  <2> DEFINE T == TableOf(k)[n]
  <2>2. c = [desk[b].cmd EXCEPT !.arg[j] = n, !.means[j] = T] OBVIOUS
  <2> HIDE DEF n, T, c
  <2>3. T \in Nat BY <1>6 DEF T
  <2> QED BY <1>3, <1>6, <2>2, <2>3 DEF CmdType
<1> HIDE DEF c
<1> QED BY <1>1, <1>3, <1>7, <1>8, <1>9, TablesCmd

LEMMA PlayingAllowed ==
  ASSUME NEW b PROVE PageTyped(Playing) /\ Allowed(b, Playing)
  BY DEF PageTyped, Allowed, Playing, Table, Proto

\* The zone with a command written or put in: each is the new one or an old one.
LEMMA ZoneSaved ==
  ASSUME TablesInv, NEW b \in Builder, ZeditSave(b)
  PROVE  /\ Top(zone') \in Nat \cup {-1} /\ zone' \in [0 .. Top(zone') -> CmdType]
         /\ \A i \in DOMAIN zone' : zone'[i] = desk[b].cmd \/ \E h \in DOMAIN zone : zone'[i] = zone[h]
         /\ desk[b].cmd \in CmdType /\ desk[b].mode = "cmd" /\ Answerable(desk[b].cmd.letter)
<1> DEFINE c == desk[b].cmd
           n == Top(zone)
           Good == /\ Top(zone') \in Nat \cup {-1} /\ zone' \in [0 .. Top(zone') -> CmdType]
                   /\ \A i \in DOMAIN zone' : zone'[i] = c \/ \E h \in DOMAIN zone : zone'[i] = zone[h]
<1>1. desk[b].mode = "cmd" BY DEF ZeditSave
<1>2. c \in CmdType /\ desk[b].nr \in Nat /\ Answerable(c.letter)
  <2>1. /\ desk[b] \in [mode : {"cmd"}, nr : Nat, insert : BOOLEAN, cmd : CmdType]
        /\ Allowed(b, desk[b])
    BY <1>1, PageFacts DEF PageTyped
  <2> QED BY <1>1, <2>1 DEF Allowed
<1>3. n \in Nat \cup {-1} /\ zone \in [0 .. n -> CmdType] BY DEF TablesInv, Typed
<1>4. ASSUME NEW p \in 0 .. n + 1, zone' = InsertAt(zone, p, c)
      PROVE  Good
  <2> HIDE DEF n, c
  <2>1. Inserted(zone', zone, n, p, c)
    <3>1. DOMAIN zone = 0 .. n BY <1>3
    <3>2. Inserted(InsertAt(zone, p, c), zone, n, p, c) BY <1>3, <3>1, InsertShape, Zenon
    <3> QED BY <1>4, <3>2
  <2>2. ASSUME NEW i \in DOMAIN zone'
        PROVE  zone'[i] = c \/ \E h \in DOMAIN zone : zone'[i] = zone[h]
    <3>1. CASE i = p BY <2>1, <3>1 DEF Inserted
    <3>2. CASE i # p
      <4>1. PICK h \in 0 .. n : i = Bump(h, p) BY <2>1, <3>2 DEF Inserted
      <4>2. zone'[i] = zone[h] /\ h \in DOMAIN zone BY <4>1, <2>1, <1>3 DEF Inserted
      <4> QED BY <4>2
    <3> QED BY <3>1, <3>2
  <2>3. \A i \in DOMAIN zone' : zone'[i] \in CmdType BY <2>2, <1>2, <1>3 DEF c
  <2>4. zone' = [i \in 0 .. n + 1 |-> zone'[i]]
    <3> DEFINE e(r) == IF r < p THEN zone[r] ELSE IF r = p THEN c ELSE zone[r - 1]
    <3>1. zone' = [i \in 0 .. n + 1 |-> e(i)] BY <1>4 DEF InsertAt, n
    <3> HIDE DEF e
    <3> QED BY <3>1
  <2>5. DOMAIN zone' = 0 .. n + 1 /\ Top(zone') = n + 1 BY <2>1 DEF Inserted
  <2>6. zone' \in [0 .. n + 1 -> CmdType] BY <2>3, <2>4, <2>5
  <2>7. n + 1 \in Nat \cup {-1} BY <1>3
  <2> QED BY <2>2, <2>5, <2>6, <2>7
<1>5. ASSUME zone' = [zone EXCEPT ![desk[b].nr] = c] PROVE Good
  <2>1. DOMAIN zone' = DOMAIN zone BY <1>5, <1>3
  <2>2. Top(zone') = n BY <2>1 DEF Top
  <2>3. zone' \in [0 .. n -> CmdType]
    <3> HIDE DEF c, n
    <3> QED BY <1>2, <1>3, <1>5 DEF c
  <2> HIDE DEF c, n
  <2>4. \A i \in DOMAIN zone' : zone'[i] = c \/ zone'[i] = zone[i] BY <1>5, <1>3
  <2> QED BY <1>3, <2>1, <2>2, <2>3, <2>4
<1>6. ASSUME zone' = InsertAt(zone, desk[b].nr, c), desk[b].nr \in DOMAIN zone PROVE Good
  <2>1. desk[b].nr \in 0 .. n + 1 BY <1>3, <1>6
  <2> HIDE DEF n, c, Good
  <2> QED BY <1>4, <1>6, <2>1
<1>7. ASSUME zone' = InsertAt(zone, n + 1, c) PROVE Good
  <2>1. n + 1 \in 0 .. n + 1 BY <1>3
  <2> HIDE DEF n, c, Good
  <2> QED BY <1>4, <1>7, <2>1
<1>8. \/ zone' = [zone EXCEPT ![desk[b].nr] = c]
      \/ zone' = InsertAt(zone, desk[b].nr, c) /\ desk[b].nr \in DOMAIN zone
      \/ zone' = InsertAt(zone, n + 1, c)
  BY DEF ZeditSave
<1>9. Good
  <2> HIDE DEF n, c, Good
  <2> QED BY <1>5, <1>6, <1>7, <1>8
<1> QED BY <1>1, <1>2, <1>9

LEMMA TablesZeditSave ==
  ASSUME TablesInv, NEW b \in Builder, ZeditSave(b)
  PROVE  TablesInv' /\ \A t \in Table : TableOf(t)' = TableOf(t)
<1>1. /\ Top(zone') \in Nat \cup {-1} /\ zone' \in [0 .. Top(zone') -> CmdType]
      /\ \A i \in DOMAIN zone' : zone'[i] = desk[b].cmd \/ \E h \in DOMAIN zone : zone'[i] = zone[h]
      /\ Answerable(desk[b].cmd.letter)
  BY ZoneSaved
<1>2. \A i \in DOMAIN zone' : Answerable(zone'[i].letter) BY <1>1 DEF TablesInv
<1>3. desk' = [desk EXCEPT ![b] = Playing] /\ UNCHANGED <<scene, world, index, at>>
  BY DEF ZeditSave
<1>4. DOMAIN desk' = Builder /\ \A d \in Builder : PageTyped(desk'[d]) /\ Allowed(d, desk'[d])
  <2>1. \A d \in Builder : desk'[d] = IF d = b THEN Playing ELSE desk[d] BY <1>3, PageFacts
  <2>2. \A d \in Builder : PageTyped(desk[d]) /\ Allowed(d, desk[d]) BY PageFacts
  <2>3. PageTyped(Playing) /\ Allowed(b, Playing) BY PlayingAllowed
  <2>4. DOMAIN desk' = Builder BY <1>3, PageFacts
  <2> QED BY <2>1, <2>2, <2>3, <2>4
<1>5. SameRooms(world', world) /\ at' \in [Body -> Int] BY <1>3, WorldFacts
<1> QED BY <1>1, <1>2, <1>3, <1>4, <1>5, TablesSame, Zenon

LEMMA ComeBackSame ==
  ASSUME NEW b \in Builder, NEW w, WorldTyped(w), NEW place \in [Body -> Int], NEW back,
         ComeBack(b, w, place, back)
  PROVE  /\ SameRooms(world', w) /\ at' \in [Body -> Int]
         /\ CharRoom(w, back[b]) \in DOMAIN w
<1>1. b \in Body BY DEF Body
<1>2. CharRoom(w, back[b]) \in DOMAIN w /\ CharRoom(w, back[b]) \in Int
  BY DEF CharRoom, WorldTyped
<1> DEFINE r == CharRoom(w, back[b])
<1>3. world' = [w EXCEPT ![r].here = @ \cup {b}] /\ at' = [place EXCEPT ![b] = r]
  BY DEF ComeBack
<1> HIDE DEF r
<1>4. r \in DOMAIN w /\ r \in Int BY <1>2 DEF r
<1>5. SameRooms([w EXCEPT ![r].here = @ \cup {b}], w) BY <1>1, <1>4, EnterSame
<1>6. at' \in [Body -> Int] BY <1>1, <1>3, <1>4
<1> QED BY <1>2, <1>3, <1>5, <1>6

LEMMA TablesAbort ==
  ASSUME TablesInv, NEW b \in Builder, Abort(b)
  PROVE  TablesInv' /\ \A t \in Table : TableOf(t)' = TableOf(t)
<1>1. desk' = [desk EXCEPT ![b] = Playing] /\ UNCHANGED <<scene, index, zone>>
  BY DEF Abort, ComeBack
<1>2. SameRooms(world', world) /\ at' \in [Body -> Int]
  <2>1. CASE desk[b].mode = "room"
    <3>1. ComeBack(b, world, at, was) BY <2>1 DEF Abort
    <3> QED BY <3>1, WorldFacts, ComeBackSame
  <2>2. CASE desk[b].mode # "room" BY <2>2, WorldFacts DEF Abort
  <2> QED BY <2>1, <2>2
<1> QED BY <1>1, <1>2, PlayingAllowed, TablesDesk

LEMMA RoomSame ==
  ASSUME NEW w, WorldTyped(w), NEW n \in DOMAIN w, NEW e \in RoomType, e.number = w[n].number
  PROVE  SameRooms([w EXCEPT ![n] = e], w)
<1> DEFINE w2 == [w EXCEPT ![n] = e]
<1>1. \A q \in DOMAIN w : w[q] \in RoomType BY DEF WorldTyped
<1>2. \A q \in DOMAIN w : w2[q] \in RoomType /\ w2[q].number = w[q].number BY <1>1
<1>3. w2 = [q \in DOMAIN w |-> w2[q]] OBVIOUS
<1> HIDE DEF w2
<1>4. SameRooms(w2, w) BY <1>2, <1>3, SameByRoom
<1> QED BY <1>4 DEF w2

\* What is edited in the editor of rooms.
LEMMA RoomPage ==
  ASSUME TablesInv, NEW b \in Builder, desk[b].mode = "room"
  PROVE  /\ desk[b].vnum \in Nat /\ desk[b].room \in RoomType
         /\ <<"room", desk[b].vnum>> \in scene.edit[b] /\ "room" \in Table
         /\ \A r \in DOMAIN world : world[r].number = desk[b].vnum =>
                 desk[b].room.number = desk[b].vnum
<1>1. /\ desk[b] \in [mode : {"room"}, vnum : Nat, room : RoomType]
      /\ Allowed(b, desk[b])
  BY PageFacts DEF PageTyped
<1> QED BY <1>1 DEF Allowed, Table

LEMMA ReplaceRoomSame ==
  ASSUME TablesInv, NEW b \in Builder, desk[b].mode = "room", ReplaceRoom(b)
  PROVE  LET n == Real("room", desk[b].vnum)
             w == [world EXCEPT ![n] = [desk[b].room EXCEPT !.here = world[n].here]]
         IN  /\ n \in DOMAIN world /\ n > 0
             /\ SameRooms(w, world) /\ SameRooms(Resolved(w, n), world)
             /\ WorldTyped(w) /\ WorldTyped(Resolved(w, n))
             /\ ComeBack(b, Resolved(w, n), at, was)
<1> DEFINE v == desk[b].vnum
           n == Real("room", v)
           e == [desk[b].room EXCEPT !.here = world[n].here]
           w == [world EXCEPT ![n] = e]
<1>1. v \in Nat /\ desk[b].room \in RoomType /\ <<"room", v>> \in scene.edit[b] /\ "room" \in Table
  BY RoomPage
<1>2. n > 0 BY DEF ReplaceRoom
<1>3. n \in DOMAIN world /\ world[n].number = v
  <2>1. n \in DOMAIN TableOf("room") /\ TableOf("room")[n] = v
    <3> HIDE DEF v
    <3> QED BY <1>1, <1>2, BehindFirst
  <2> QED BY <2>1, WorldFacts, NumbersTyped DEF TableOf
<1>4. desk[b].room.number = v BY <1>3, RoomPage
<1>5. world[n].here \in SUBSET Body
  <2> HIDE DEF n
  <2> QED BY <1>3, WorldFacts DEF WorldTyped, RoomType
<1>6. e \in RoomType /\ e.number = world[n].number
  <2> HIDE DEF n
  <2> QED BY <1>1, <1>3, <1>4, <1>5 DEF RoomType
<1>7. SameRooms(w, world)
  <2> HIDE DEF n, e
  <2> QED BY <1>3, <1>6, WorldFacts, RoomSame
<1>8. WorldTyped(w) /\ n \in DOMAIN w
  <2> HIDE DEF w, n
  <2> QED BY <1>3, <1>7, WorldFacts, SameNumbers DEF SameRooms
<1>9. ComeBack(b, Resolved(w, n), at, was) BY DEF ReplaceRoom
<1>10. SameRooms(Resolved(w, n), world) /\ WorldTyped(Resolved(w, n))
  <2> HIDE DEF w, n
  <2>1. SameRooms(Resolved(w, n), w) BY <1>8, ResolvedSame
  <2> QED BY <2>1, <1>7, WorldFacts, SameRoomsTwice, SMTT(30) DEF SameRooms
<1> QED BY <1>2, <1>3, <1>7, <1>8, <1>9, <1>10

LEMMA TablesReplaceRoom ==
  ASSUME TablesInv, NEW b \in Builder, desk[b].mode = "room", ReplaceRoom(b)
  PROVE  TablesInv' /\ \A t \in Table : TableOf(t)' = TableOf(t)
<1> DEFINE n == Real("room", desk[b].vnum)
           w0 == [world EXCEPT ![n] = [desk[b].room EXCEPT !.here = world[n].here]]
           w == Resolved(w0, n)
<1>1. SameRooms(w, world) /\ ComeBack(b, w, at, was) BY ReplaceRoomSame
<1>2. desk' = [desk EXCEPT ![b] = Playing] /\ UNCHANGED <<scene, index, zone>>
  BY DEF ReplaceRoom, ComeBack
<1> HIDE DEF w
<1>3. SameRooms(world', world) /\ at' \in [Body -> Int]
  <2>1. WorldTyped(w) BY <1>1 DEF SameRooms
  <2>2. SameRooms(world', w) /\ at' \in [Body -> Int] BY <1>1, <2>1, WorldFacts, ComeBackSame
  <2> QED BY <1>1, <2>2, WorldFacts, SameRoomsTwice
<1> QED BY <1>2, <1>3, PlayingAllowed, TablesDesk

LEMMA TablesDig ==
  ASSUME TablesInv, NEW b \in Builder, NEW k \in Dir, NEW v, Dig(b, k, v), at[b] \in DOMAIN world
  PROVE  TablesInv' /\ \A t \in Table : TableOf(t)' = TableOf(t)
<1> DEFINE h == at[b]
           n == Real("room", v)
           exit(r) == [to |-> r, vnum |-> world[r].number]
           there == [world EXCEPT ![h].door[k] = exit(n)]
<1>1. h \in DOMAIN world /\ h \in Int BY WorldFacts
<1>2. n \in DOMAIN world /\ n \in Int
  <2>1. n = RealIn(Numbers(world), v) /\ n # Nowhere BY DEF Real, TableOf, Dig
  <2> HIDE DEF n
  <2> QED BY <2>1, RealInOf, NumbersTyped, WorldFacts
<1>3. \A r \in DOMAIN world : world[r] \in RoomType BY WorldFacts DEF WorldTyped
<1>4. exit(n) \in [to : Int, vnum : Nat] /\ exit(h) \in [to : Int, vnum : Nat]
  BY <1>1, <1>2, <1>3 DEF RoomType
<1>5. world' = [there EXCEPT ![n].door[Rev(k)] = exit(h)] BY DEF Dig
<1> HIDE DEF n, h
<1>6. SameRooms(there, world)
  <2> DEFINE D == [world[h].door EXCEPT ![k] = exit(n)]
  <2>1. D \in [Dir -> {None} \cup [to : Int, vnum : Nat]] BY <1>1, <1>3, <1>4 DEF RoomType
  <2>2. there = [world EXCEPT ![h].door = D] OBVIOUS
  <2> HIDE DEF D, there
  <2> QED BY <2>1, <2>2, WorldFacts, DoorSame
<1>7. WorldTyped(there) /\ n \in DOMAIN there
  BY <1>2, <1>6, WorldFacts, SameNumbers DEF SameRooms
<1>8. SameRooms(world', there)
  <2> DEFINE D == [there[n].door EXCEPT ![Rev(k)] = exit(h)]
  <2> HIDE DEF there
  <2>1. D \in [Dir -> {None} \cup [to : Int, vnum : Nat]]
    BY <1>4, <1>7 DEF RoomType, WorldTyped
  <2>2. world' = [there EXCEPT ![n].door = D] BY <1>5
  <2> HIDE DEF D
  <2> QED BY <2>1, <2>2, <1>7, DoorSame
<1>9. SameRooms(world', world)
  <2> HIDE DEF there
  <2> QED BY <1>6, <1>8, WorldFacts, SameRoomsTwice
<1>10. UNCHANGED <<scene, index, zone, desk, at>> BY DEF Dig
<1> QED BY <1>9, <1>10, WorldFacts, TablesQuiet

\* A number more in one of the tables.
LEMMA TablesInserted ==
  ASSUME TablesInv, scene' = scene, NEW t \in Table, NEW v \in Nat,
         \A r \in DOMAIN TableOf(t) : TableOf(t)[r] # v,
         TableOf(t)' = InsertAt(TableOf(t), Place(TableOf(t), v), v),
         \A k \in Table \ {t} : TableOf(k)' = TableOf(k)
  PROVE  /\ TableTyped(TableOf(t)')
         /\ \A k \in Table : Ascending(TableOf(k)')
         /\ \A k \in Table : \A u \in Lasting(scene, k) :
              \E r \in DOMAIN TableOf(k)' : TableOf(k)'[r] = u
         /\ \A l : Answerable(l) => Answerable(l)'
<1> DEFINE f == TableOf(t)
           p == Place(f, v)
           g == InsertAt(f, p, v)
<1>1. TableTyped(f) /\ Ascending(f) BY TableFacts
<1>2. /\ TableTyped(g) /\ Ascending(g)
      /\ \A r \in DOMAIN f : Bump(r, p) \in DOMAIN g /\ g[Bump(r, p)] = f[r]
      /\ Top(g) = Top(f) + 1
  <2> HIDE DEF f
  <2>1. \A r \in DOMAIN f : f[r] # v BY DEF f
  <2> QED BY <1>1, <2>1, InsertNumber
<1>3. TableOf(t)' = g OBVIOUS
<1> HIDE DEF f, p, g
<1>4. \A k \in Table : Ascending(TableOf(k)') BY <1>2, <1>3, TableFacts
<1>5. ASSUME NEW k \in Table, NEW u \in Lasting(scene, k)
      PROVE  \E r \in DOMAIN TableOf(k)' : TableOf(k)'[r] = u
  <2>1. PICK r \in DOMAIN TableOf(k) : TableOf(k)[r] = u BY DEF TablesInv
  <2>2. CASE k = t
    <3>1. Bump(r, p) \in DOMAIN g /\ g[Bump(r, p)] = u BY <1>2, <2>1, <2>2 DEF f
    <3> QED BY <3>1, <1>3, <2>2
  <2>3. CASE k # t BY <2>1, <2>3
  <2> QED BY <2>2, <2>3
<1>6. ASSUME NEW l, Answerable(l) PROVE Answerable(l)'
  <2>1. ASSUME NEW j \in 1..3, RefTable(l, j) # "none"
        PROVE  0 \in DOMAIN TableOf(RefTable(l, j))'
    <3>1. RefTable(l, j) \in Table /\ 0 \in DOMAIN TableOf(RefTable(l, j))
      BY <1>6, <2>1, RefTableIs DEF Answerable
    <3>2. CASE RefTable(l, j) = t
      <4>1. 0 \in DOMAIN f BY <3>1, <3>2 DEF f
      <4>2. Top(f) \in Nat /\ DOMAIN g = 0 .. Top(f) + 1 BY <4>1, <1>1, <1>2 DEF TableTyped
      <4> QED BY <3>2, <4>2, <1>3
    <3>3. CASE RefTable(l, j) # t BY <3>1, <3>3
    <3> QED BY <3>2, <3>3
  <2> QED BY <2>1 DEF Answerable
<1> QED BY <1>2, <1>3, <1>4, <1>5, <1>6

\* The zone after an insertion.
LEMMA RenumberedZone ==
  ASSUME TablesInv, NEW k \in Table, NEW p \in Nat, zone' = RenumberZone(k, p)
  PROVE  /\ Top(zone') \in Nat \cup {-1} /\ zone' \in [0 .. Top(zone') -> CmdType]
         /\ DOMAIN zone' = DOMAIN zone
         /\ \A i \in DOMAIN zone :
              /\ zone'[i].letter = zone[i].letter /\ zone'[i].means = zone[i].means
              /\ \A j \in 1..3 : zone'[i].arg[j] =
                   IF <<zone[i].letter, j>> \in Renumbered(k) THEN Bump(zone[i].arg[j], p)
                   ELSE zone[i].arg[j]
<1> DEFINE A(i) == [j \in 1..3 |-> IF <<zone[i].letter, j>> \in Renumbered(k)
                                   THEN Bump(zone[i].arg[j], p) ELSE zone[i].arg[j]]
           C(i) == [zone[i] EXCEPT !.arg = A(i)]
<1>1. zone' = [i \in DOMAIN zone |-> C(i)] BY DEF RenumberZone
<1>2. Top(zone) \in Nat \cup {-1} /\ zone \in [0 .. Top(zone) -> CmdType]
  BY DEF TablesInv, Typed
<1>3. ASSUME NEW i \in DOMAIN zone
      PROVE  /\ C(i) \in CmdType /\ C(i).letter = zone[i].letter
             /\ C(i).means = zone[i].means /\ C(i).arg = A(i)
  <2>1. zone[i] \in CmdType BY <1>2
  <2>2. A(i) \in [1..3 -> Int]
    <3>1. \A j \in 1..3 : zone[i].arg[j] \in Int BY <2>1 DEF CmdType
    <3>2. \A n \in Int : Bump(n, p) \in Int BY DEF Bump
    <3> QED BY <3>1, <3>2
  <2> HIDE DEF A
  <2> QED BY <2>1, <2>2 DEF CmdType
<1>4. DOMAIN zone' = DOMAIN zone BY <1>1
<1>5. Top(zone') = Top(zone) BY <1>4 DEF Top
<1>6. zone' \in [0 .. Top(zone) -> CmdType]
  <2> HIDE DEF C
  <2> QED BY <1>1, <1>2, <1>3, ZenonT(40)
<1>7. ASSUME NEW i \in DOMAIN zone
      PROVE  /\ zone'[i].letter = zone[i].letter /\ zone'[i].means = zone[i].means
             /\ \A j \in 1..3 : zone'[i].arg[j] =
                   IF <<zone[i].letter, j>> \in Renumbered(k) THEN Bump(zone[i].arg[j], p)
                   ELSE zone[i].arg[j]
  <2>1. zone'[i] = C(i) BY <1>1
  <2>2. \A j \in 1..3 : A(i)[j] = IF <<zone[i].letter, j>> \in Renumbered(k)
                                 THEN Bump(zone[i].arg[j], p) ELSE zone[i].arg[j]
    OBVIOUS
  <2> HIDE DEF C, A
  <2> QED BY <2>1, <2>2, <1>3
<1> QED BY <1>2, <1>4, <1>5, <1>6, <1>7

\* What SaveRoom puts into the world when the room is new.
LEMMA InsertRoomWorld ==
  ASSUME TablesInv, NEW b \in Builder, desk[b].mode = "room", InsertRoom(b)
  PROVE  LET v == desk[b].vnum
             p == Place(Numbers(world), v)
             w == InsertAt(world, p, [desk[b].room EXCEPT !.number = v])
         IN  /\ v \in Nat /\ p \in 1 .. Top(world) + 1
             /\ \A r \in DOMAIN world : world[r].number # v
             /\ WorldTyped(w) /\ Numbers(w) = InsertAt(Numbers(world), p, v)
             /\ Inserted(w, world, Top(world), p, [desk[b].room EXCEPT !.number = v])
             /\ SameRooms(BumpDoors(w, p), w)
             /\ SameRooms(Resolved(BumpDoors(w, p), p), BumpDoors(w, p))
             /\ SameRooms(Resolved(BumpDoors(w, p), p), w)
             /\ SameRooms(world', w) /\ at' \in [Body -> Int]
             /\ Numbers(world') = InsertAt(Numbers(world), p, v)
<1> DEFINE v == desk[b].vnum
           f == Numbers(world)
           p == Place(f, v)
           e == [desk[b].room EXCEPT !.number = v]
           w == InsertAt(world, p, e)
           w1 == BumpDoors(w, p)
           w2 == Resolved(w1, p)
           place == [x \in Body |-> IF x \in Shifted(w, p) /\ at[x] # Nowhere THEN at[x] + 1 ELSE at[x]]
           back == [c \in Builder |-> Bump(was[c], p)]
<1>1. v \in Nat /\ desk[b].room \in RoomType /\ <<"room", v>> \in scene.edit[b] /\ "room" \in Table
  BY RoomPage
<1>2. /\ TableTyped(f) /\ Ascending(f) /\ DOMAIN f = DOMAIN world
      /\ Top(f) = Top(world) /\ \A r \in DOMAIN world : f[r] = world[r].number
  BY WorldFacts, NumbersTyped, TableFacts, <1>1 DEF TableOf
<1>3. p > 0 /\ \A r \in DOMAIN world : world[r].number # v
  <2>1. Real("room", v) <= 0 BY DEF InsertRoom
  <2>2. TableOf("room") = f BY DEF TableOf
  <2>3. Place(TableOf("room"), v) > 0 /\ \A r \in DOMAIN TableOf("room") : TableOf("room")[r] # v
    <3> HIDE DEF v, f
    <3> QED BY <1>1, <2>1, BehindFirst
  <2> QED BY <2>2, <2>3, <1>2
<1>4. p \in 1 .. Top(world) + 1
  <2>1. p \in 0 .. Top(f) + 1
    <3> HIDE DEF f, v
    <3> QED BY <1>1, <1>2, PlaceIs
  <2> QED BY <2>1, <1>2, <1>3, WorldFacts
<1>5. e \in RoomType /\ e.number = v BY <1>1 DEF RoomType
<1>6. WorldTyped(w) /\ Numbers(w) = InsertAt(f, p, v) /\ Inserted(w, world, Top(world), p, e)
  <2> HIDE DEF p, e, v
  <2>1. p \in 0 .. Top(world) + 1 BY <1>4, WorldFacts
  <2> QED BY <1>5, <2>1, WorldFacts, InsertRoomTyped
<1>7. p \in DOMAIN w /\ p \in Nat
  <2> HIDE DEF p, e, v, w
  <2> QED BY <1>4, <1>6, WorldFacts DEF Inserted
<1>8. SameRooms(w1, w) /\ WorldTyped(w1) /\ p \in DOMAIN w1
  <2> HIDE DEF w, p
  <2>1. SameRooms(w1, w) BY <1>6, <1>7, BumpDoorsSame
  <2> QED BY <2>1, <1>6, <1>7, SameNumbers DEF SameRooms
<1>9. SameRooms(w2, w1) /\ SameRooms(w2, w) /\ WorldTyped(w2)
  <2> HIDE DEF w, p, w1
  <2>1. SameRooms(w2, w1) BY <1>8, ResolvedSame
  <2> QED BY <2>1, <1>6, <1>8, SameRoomsTwice DEF SameRooms
<1>10. ComeBack(b, w2, place, back) BY DEF InsertRoom
<1>11. place \in [Body -> Int] BY WorldFacts
<1>12. SameRooms(world', w) /\ at' \in [Body -> Int]
  <2> HIDE DEF w2, place, back, w
  <2>1. SameRooms(world', w2) /\ at' \in [Body -> Int] BY <1>9, <1>10, <1>11, ComeBackSame
  <2> QED BY <2>1, <1>6, <1>9, SameRoomsTwice
<1>13. Numbers(world') = InsertAt(f, p, v)
  <2> HIDE DEF w, f, p, v
  <2> QED BY <1>6, <1>12, SameNumbers
<1> QED BY <1>1, <1>3, <1>4, <1>6, <1>8, <1>9, <1>12, <1>13

LEMMA TablesInsertRoom ==
  ASSUME TablesInv, NEW b \in Builder, desk[b].mode = "room", InsertRoom(b)
  PROVE  TablesInv'
<1> DEFINE v == desk[b].vnum
           p == Place(Numbers(world), v)
           w == InsertAt(world, p, [desk[b].room EXCEPT !.number = v])
<1>1. /\ v \in Nat /\ p \in 1 .. Top(world) + 1
      /\ \A r \in DOMAIN world : world[r].number # v
      /\ SameRooms(world', w) /\ at' \in [Body -> Int]
      /\ Numbers(world') = InsertAt(Numbers(world), p, v)
      /\ Inserted(w, world, Top(world), p, [desk[b].room EXCEPT !.number = v])
      /\ [desk[b].room EXCEPT !.number = v].number = v
  BY InsertRoomWorld, RoomPage DEF RoomType
<1>2. /\ UNCHANGED <<scene, index>> /\ zone' = RenumberZone("room", p)
      /\ desk' = [desk EXCEPT ![b] = Playing]
  BY DEF InsertRoom, ComeBack
<1>3. WorldTyped(world') BY <1>1 DEF SameRooms
<1>4. /\ \A k \in Table : Ascending(TableOf(k)')
      /\ \A k \in Table : \A u \in Lasting(scene, k) :
              \E r \in DOMAIN TableOf(k)' : TableOf(k)'[r] = u
      /\ \A l : Answerable(l) => Answerable(l)'
  <2>1. TableOf("room") = Numbers(world) /\ TableOf("room")' = Numbers(world') BY DEF TableOf
  <2>2. TableOf("room")' = InsertAt(TableOf("room"), Place(TableOf("room"), v), v)
    BY <1>1, <2>1
  <2>3. \A r \in DOMAIN TableOf("room") : TableOf("room")[r] # v
    <3>1. DOMAIN Numbers(world) = DOMAIN world /\ \A r \in DOMAIN world : Numbers(world)[r] = world[r].number
      BY WorldFacts, NumbersTyped
    <3> HIDE DEF v
    <3> QED BY <1>1, <2>1, <3>1
  <2>4. \A k \in Table \ {"room"} : TableOf(k)' = TableOf(k) BY <1>2 DEF TableOf
  <2>5. "room" \in Table /\ scene' = scene BY <1>2 DEF Table
  <2> HIDE DEF v, p
  <2> QED BY <1>1, <2>2, <2>3, <2>4, <2>5, TablesInserted
<1>5. /\ Top(zone') \in Nat \cup {-1} /\ zone' \in [0 .. Top(zone') -> CmdType]
      /\ DOMAIN zone' = DOMAIN zone
      /\ \A i \in DOMAIN zone : zone'[i].letter = zone[i].letter
  <2>1. p \in Nat /\ "room" \in Table BY <1>1, WorldFacts DEF Table
  <2> HIDE DEF p
  <2> QED BY <1>2, <2>1, RenumberedZone
<1>6. (\A i \in DOMAIN zone : Answerable(zone[i].letter))' BY <1>4, <1>5 DEF TablesInv
<1>7. (\A l \in scene.letters : Answerable(l))' BY <1>2, <1>4 DEF TablesInv
<1>8. ASSUME NEW c \in Builder, c # b PROVE Allowed(c, desk[c])'
  <2>0. desk'[c] = desk[c] /\ Allowed(c, desk[c]) BY <1>2, <1>8, PageFacts
  <2>1. desk[c].mode = "room" =>
          desk[c].room.number = desk[c].vnum \/ \A q \in DOMAIN world' : world'[q].number # desk[c].vnum
    <3> SUFFICES ASSUME desk[c].mode = "room", desk[c].room.number # desk[c].vnum,
                        NEW q \in DOMAIN world', world'[q].number = desk[c].vnum
                 PROVE  FALSE
      OBVIOUS
    <3>1. \A r \in DOMAIN world : world[r].number # desk[c].vnum BY <2>0 DEF Allowed
    <3>2. desk[c].vnum # v
      <4> SUFFICES ASSUME desk[c].vnum = v PROVE FALSE OBVIOUS
      <4>1. <<"room", v>> \in scene.edit[b] \cap scene.edit[c] BY RoomPage
      <4>2. v \in Lasting(scene, "room") BY <4>1, <1>8 DEF TablesInv, OneMaker
      <4>3. \E r \in DOMAIN TableOf("room") : TableOf("room")[r] = v
        BY <4>2 DEF TablesInv, Table
      <4> QED BY <4>3, <1>1, WorldFacts, NumbersTyped, SMTT(30) DEF TableOf
    <3>3. w[q].number = desk[c].vnum /\ q \in 0 .. Top(world) + 1
      <4>1. DOMAIN world' = 0 .. Top(world') /\ Top(world') = Top(w) /\ Top(w) = Top(world) + 1
            /\ DOMAIN w = 0 .. Top(world) + 1
        BY <1>1, <1>3 DEF SameRooms, WorldTyped, Inserted
      <4> HIDE DEF w
      <4> QED BY <4>1, <1>1 DEF SameRooms
    <3>4. CASE q = p
      <4> HIDE DEF w, p, v
      <4>1. w[q] = [desk[b].room EXCEPT !.number = v] BY <3>4, <1>1 DEF Inserted
      <4> QED BY <4>1, <3>2, <3>3, <1>1
    <3>5. CASE q # p
      <4> HIDE DEF w, p, v
      <4>1. PICK r \in 0 .. Top(world) : q = Bump(r, p) BY <3>3, <3>5, <1>1 DEF Inserted
      <4>2. w[q] = world[r] BY <4>1, <1>1 DEF Inserted
      <4> QED BY <4>1, <4>2, <3>1, <3>3, WorldFacts
    <3> QED BY <3>4, <3>5
  <2>2. desk[c].mode = "cmd" => "zedit" \in scene.cmds[c] /\ Answerable(desk[c].cmd.letter)'
    BY <2>0, <1>4 DEF Allowed
  <2> QED BY <2>0, <2>1, <2>2, <1>2 DEF Allowed
<1>9. ASSUME NEW c \in Builder PROVE Allowed(c, desk[c])' /\ PageTyped(desk'[c])
  <2>1. CASE c = b
    <3>1. desk'[c] = Playing BY <1>2, <2>1, PageFacts
    <3> QED BY <3>1 DEF Playing, Allowed, PageTyped, Table, Proto
  <2>2. CASE c # b
    <3>1. desk'[c] = desk[c] BY <1>2, <2>2, PageFacts
    <3> QED BY <3>1, <2>2, <1>8, PageFacts
  <2> QED BY <2>1, <2>2
<1>10. DOMAIN desk' = Builder BY <1>2, PageFacts
<1>11. Typed'
  <2>1. scene' \in Scenes BY <1>2, SceneFacts
  <2>2. DOMAIN index' = Proto /\ \A k \in Proto : TableTyped(index'[k])
    BY <1>2 DEF TablesInv, Typed
  <2> QED BY <1>1, <1>3, <1>5, <1>9, <1>10, <2>1, <2>2 DEF Typed, PageTyped, WorldTyped, TableTyped, Top
<1> HIDE DEF w, p, v
<1>12. \A c \in Builder : Allowed(c, desk[c])' BY <1>9
<1> QED BY <1>2, <1>4, <1>6, <1>7, <1>11, <1>12 DEF TablesInv

LEMMA ProtoPage ==
  ASSUME TablesInv, NEW b \in Builder, desk[b].mode \in Proto
  PROVE  /\ desk[b].vnum \in Nat /\ desk[b].mode \in Table
         /\ <<desk[b].mode, desk[b].vnum>> \in scene.edit[b]
<1>1. desk[b] \in [mode : Proto, vnum : Nat] /\ Allowed(b, desk[b])
  BY PageFacts DEF PageTyped
<1> QED BY <1>1 DEF Allowed, Table

LEMMA InsertProtoIndex ==
  ASSUME TablesInv, NEW b \in Builder, desk[b].mode \in Proto, InsertProto(b)
  PROVE  LET k == desk[b].mode
             v == desk[b].vnum
             p == Place(TableOf(k), v)
         IN  /\ v \in Nat /\ k \in Table /\ k # "room"
             /\ p \in 1 .. Top(TableOf(k)) + 1
             /\ \A r \in DOMAIN TableOf(k) : TableOf(k)[r] # v
             /\ TableOf(k) = index[k]
             /\ index' = [index EXCEPT ![k] = InsertAt(TableOf(k), p, v)]
             /\ zone' = RenumberZone(k, p)
<1> DEFINE k == desk[b].mode
           v == desk[b].vnum
           f == TableOf(k)
           p == Place(f, v)
<1>1. v \in Nat /\ k \in Table /\ <<k, v>> \in scene.edit[b] BY ProtoPage
<1>2. k # "room" BY DEF Proto
<1>3. f = index[k] BY <1>2 DEF TableOf
<1>4. Real(k, v) <= 0 BY DEF InsertProto
<1>5. p > 0 /\ \A r \in DOMAIN f : f[r] # v
  <2> HIDE DEF k, v
  <2> QED BY <1>1, <1>4, BehindFirst DEF f, p
<1>6. TableTyped(f) /\ Ascending(f) BY <1>1, TableFacts
<1>7. p \in 1 .. Top(f) + 1
  <2> HIDE DEF f, v
  <2>1. p \in 0 .. Top(f) + 1 BY <1>1, <1>6, PlaceIs
  <2> QED BY <2>1, <1>5, <1>6 DEF TableTyped
<1>8. index' = [index EXCEPT ![k] = InsertAt(f, p, v)] /\ zone' = RenumberZone(k, p)
  BY <1>3 DEF InsertProto
<1> QED BY <1>1, <1>2, <1>3, <1>5, <1>7, <1>8

LEMMA TablesSaveProto ==
  ASSUME TablesInv, NEW b \in Builder, SaveProto(b)
  PROVE  TablesInv'
<1>1. /\ desk[b].mode \in Proto /\ desk' = [desk EXCEPT ![b] = Playing]
      /\ UNCHANGED <<scene, world, at>>
  BY DEF SaveProto
<1>2. SameRooms(world', world) /\ at' \in [Body -> Int] BY <1>1, WorldFacts
<1>3. CASE ReplaceProto(b)
  <2>1. UNCHANGED <<scene, index, zone>> BY <1>1, <1>3 DEF ReplaceProto
  <2> QED BY <1>1, <1>2, <2>1, PlayingAllowed, TablesDesk
<1>4. CASE InsertProto(b)
  <2>a. PICK k \in Proto : k = desk[b].mode BY <1>1
  <2>b. PICK v : v = desk[b].vnum OBVIOUS
  <2> DEFINE p == Place(TableOf(k), v)
  <2>1. /\ v \in Nat /\ k \in Table /\ k # "room" /\ k \in Proto
        /\ p \in 1 .. Top(TableOf(k)) + 1
        /\ \A r \in DOMAIN TableOf(k) : TableOf(k)[r] # v
        /\ TableOf(k) = index[k]
        /\ index' = [index EXCEPT ![k] = InsertAt(TableOf(k), p, v)]
        /\ zone' = RenumberZone(k, p)
    BY <1>1, <1>4, <2>a, <2>b, InsertProtoIndex
  <2>2. TableOf(k)' = InsertAt(TableOf(k), Place(TableOf(k), v), v)
    <3>1. TableOf(k)' = index'[k] BY <2>1 DEF TableOf
    <3>2. k \in DOMAIN index BY <2>1 DEF TablesInv, Typed
    <3> QED BY <2>1, <3>1, <3>2
  <2>3. \A t \in Table \ {k} : TableOf(t)' = TableOf(t)
    <3>1. \A t \in Proto \ {k} : index'[t] = index[t] BY <2>1 DEF TablesInv, Typed
    <3>2. world' = world BY <1>1
    <3> QED BY <3>1, <3>2 DEF TableOf, Table
  <2>4. /\ TableTyped(TableOf(k)')
        /\ \A t \in Table : Ascending(TableOf(t)')
        /\ \A t \in Table : \A u \in Lasting(scene, t) :
              \E r \in DOMAIN TableOf(t)' : TableOf(t)'[r] = u
        /\ \A l : Answerable(l) => Answerable(l)'
    BY <1>1, <2>1, <2>2, <2>3, TablesInserted
  <2>5. /\ Top(zone') \in Nat \cup {-1} /\ zone' \in [0 .. Top(zone') -> CmdType]
        /\ DOMAIN zone' = DOMAIN zone
        /\ \A i \in DOMAIN zone : zone'[i].letter = zone[i].letter
    <3>1. p \in Nat
      <4>1. Top(TableOf(k)) \in Int BY <2>1, TableFacts DEF TableTyped
      <4> HIDE DEF p
      <4> QED BY <2>1, <4>1
    <3> HIDE DEF p
    <3> QED BY <2>1, <3>1, RenumberedZone
  <2>6. (\A i \in DOMAIN zone : Answerable(zone[i].letter))' BY <2>4, <2>5 DEF TablesInv
  <2>7. (\A l \in scene.letters : Answerable(l))' BY <1>1, <2>4 DEF TablesInv
  <2>8. \A c \in Builder : desk'[c] = IF c = b THEN Playing ELSE desk[c] BY <1>1, PageFacts
  <2>9. ASSUME NEW c \in Builder PROVE Allowed(c, desk[c])' /\ PageTyped(desk'[c])
    <3>1. CASE c = b BY <2>8, <3>1 DEF Playing, Allowed, PageTyped, Table, Proto
    <3>2. CASE c # b
      <4>1. desk'[c] = desk[c] /\ PageTyped(desk[c]) /\ Allowed(c, desk[c])
        BY <2>8, <3>2, PageFacts
      <4> QED BY <4>1, <1>1, <2>4 DEF Allowed
    <3> QED BY <3>1, <3>2
  <2>10. Typed'
    <3>1. scene' \in Scenes BY <1>1, SceneFacts
    <3>2. DOMAIN index' = Proto BY <2>1 DEF TablesInv, Typed
    <3>3. \A t \in Proto : TableTyped(index'[t])
      <4>1. TableTyped(index'[k]) BY <2>1, <2>4 DEF TableOf
      <4>2. \A t \in Proto \ {k} : index'[t] = index[t] /\ TableTyped(index[t])
        BY <2>1 DEF TablesInv, Typed
      <4> QED BY <4>1, <4>2
    <3>4. WorldTyped(world') BY <1>2 DEF SameRooms
    <3>5. DOMAIN desk' = Builder BY <1>1, PageFacts
    <3> QED BY <1>2, <2>5, <2>9, <3>1, <3>2, <3>3, <3>4, <3>5
        DEF Typed, PageTyped, WorldTyped, TableTyped, Top
  <2>11. \A c \in Builder : Allowed(c, desk[c])' BY <2>9
  <2> QED BY <1>1, <2>4, <2>6, <2>7, <2>10, <2>11 DEF TablesInv
<1> QED BY <1>3, <1>4 DEF SaveProto

LEMMA RdeleteWorld ==
  ASSUME TablesInv, NEW b \in Builder, NEW v \in scene.delete, Rdelete(b, v)
  PROVE  LET n == Real("room", v) IN
         /\ n \in DOMAIN world /\ Top(world) > 0 /\ world[n].here = {}
         /\ SameRooms(world', RemoveAt(world, n)) /\ WorldTyped(RemoveAt(world, n))
         /\ Numbers(world') = RemoveAt(Numbers(world), n)
         /\ Top(RemoveAt(world, n)) = Top(world) - 1
         /\ WorldTyped(world') /\ Top(world') = Top(world) - 1
         /\ v \notin Lasting(scene, "room") /\ Numbers(world)[n] = v
<1> DEFINE n == Real("room", v)
           w == RemoveAt(world, n)
           D(r) == [k \in Dir |-> IF w[r].door[k] # None /\ w[r].door[k].to >= n
                                  THEN [to |-> w[r].door[k].to - 1, vnum |-> w[r].door[k].vnum]
                                  ELSE w[r].door[k]]
<1>1. n \in DOMAIN world /\ Numbers(world)[n] = v
  <2>1. n = RealIn(Numbers(world), v) /\ n # Nowhere BY DEF Real, TableOf, Rdelete
  <2> HIDE DEF n
  <2> QED BY <2>1, RealInOf, NumbersTyped, WorldFacts
<1>2. v \in scene.delete /\ v # scene.start /\ world[n].here = {} BY DEF Rdelete
<1>3. v \notin Lasting(scene, "room") BY <1>2 DEF Lasting
<1>4. Top(world) > 0
  <2>1. scene.start \in scene.rooms BY SceneFacts, OlcAssumption
  <2>2. scene.start \in Lasting(scene, "room") BY <2>1 DEF Lasting
  <2>3. PICK r \in DOMAIN Numbers(world) : Numbers(world)[r] = scene.start
    BY <2>2 DEF TablesInv, Table, TableOf
  <2>4. r \in 0 .. Top(world) /\ n \in 0 .. Top(world) /\ r # n /\ Top(world) \in Nat
    BY <1>1, <1>2, <2>3, WorldFacts, NumbersTyped
  <2> QED BY <2>4
<1>5. /\ WorldTyped(w) /\ Numbers(w) = RemoveAt(Numbers(world), n)
      /\ Top(w) = Top(world) - 1
  <2> HIDE DEF n
  <2>1. n \in 0 .. Top(world) BY <1>1, WorldFacts
  <2> QED BY <1>4, <2>1, WorldFacts, RemoveRoomTyped
<1>6. world' = [r \in DOMAIN w |-> [w[r] EXCEPT !.door = D(r)]] BY DEF Rdelete
<1>7. n \in Int BY <1>1, WorldFacts
<1>8. SameRooms(world', w)
  <2> HIDE DEF w, n
  <2>1. ASSUME NEW r \in DOMAIN w
        PROVE  [w[r] EXCEPT !.door = D(r)] \in RoomType /\ [w[r] EXCEPT !.door = D(r)].number = w[r].number
    <3>1. w[r] \in RoomType BY <1>5 DEF WorldTyped
    <3>2. D(r) \in [Dir -> {None} \cup [to : Int, vnum : Nat]] BY <1>7, <3>1 DEF RoomType
    <3> HIDE DEF D
    <3> QED BY <3>1, <3>2 DEF RoomType
  <2> DEFINE R(r) == [w[r] EXCEPT !.door = D(r)]
  <2>2. world' = [r \in DOMAIN w |-> R(r)] BY <1>6
  <2>3. \A r \in DOMAIN w : R(r) \in RoomType /\ R(r).number = w[r].number BY <2>1
  <2> HIDE DEF R
  <2>4. world' = [r \in DOMAIN w |-> world'[r]] BY <2>2
  <2>5. \A r \in DOMAIN w : world'[r] \in RoomType /\ world'[r].number = w[r].number
    BY <2>2, <2>3
  <2> QED BY <1>5, <2>4, <2>5, SameByRoom
<1>9. Numbers(world') = Numbers(w)
  <2> HIDE DEF w
  <2> QED BY <1>5, <1>8, SameNumbers
<1>10. WorldTyped(world') /\ Top(world') = Top(w) BY <1>8 DEF SameRooms
<1> HIDE DEF w, n
<1> QED BY <1>1, <1>2, <1>3, <1>4, <1>5, <1>8, <1>9, <1>10 DEF w, n

LEMMA RdeleteZone ==
  ASSUME TablesInv, NEW b \in Builder, NEW v \in scene.delete, Rdelete(b, v)
  PROVE  /\ Top(zone') \in Nat \cup {-1} /\ zone' \in [0 .. Top(zone') -> CmdType]
         /\ DOMAIN zone' = DOMAIN zone
         /\ \A i \in DOMAIN zone :
              \/ /\ zone'[i] = Blank
                 /\ \E j \in 1..3 : /\ <<zone[i].letter, j>> \in Renumbered("room")
                                    /\ zone[i].arg[j] = Real("room", v)
              \/ /\ zone'[i].letter = zone[i].letter /\ zone'[i].means = zone[i].means
                 /\ \A j \in 1..3 :
                      IF <<zone[i].letter, j>> \in Renumbered("room")
                      THEN /\ zone[i].arg[j] # Real("room", v)
                           /\ zone'[i].arg[j] = IF zone[i].arg[j] > Real("room", v)
                                                THEN zone[i].arg[j] - 1 ELSE zone[i].arg[j]
                      ELSE zone'[i].arg[j] = zone[i].arg[j]
<1> DEFINE n == Real("room", v)
           down(c, j) == IF <<c.letter, j>> \in Renumbered("room") /\ c.arg[j] > n
                         THEN c.arg[j] - 1 ELSE c.arg[j]
           gone(c) == \E j \in 1..3 : <<c.letter, j>> \in Renumbered("room") /\ c.arg[j] = n
           A(i) == [j \in 1..3 |-> down(zone[i], j)]
           C(i) == IF gone(zone[i]) THEN Blank ELSE [zone[i] EXCEPT !.arg = A(i)]
<1>1. zone' = [i \in DOMAIN zone |-> C(i)] BY DEF Rdelete
<1>2. Top(zone) \in Nat \cup {-1} /\ zone \in [0 .. Top(zone) -> CmdType]
  BY DEF TablesInv, Typed
<1>3. n \in Int BY RdeleteWorld, WorldFacts
<1> HIDE DEF n
<1>4. ASSUME NEW i \in DOMAIN zone
      PROVE  /\ C(i) \in CmdType
             /\ ~gone(zone[i]) => /\ C(i).letter = zone[i].letter
                                  /\ C(i).means = zone[i].means /\ C(i).arg = A(i)
  <2>1. zone[i] \in CmdType BY <1>2
  <2>2. A(i) \in [1..3 -> Int]
    <3>1. \A j \in 1..3 : zone[i].arg[j] \in Int BY <2>1 DEF CmdType
    <3> QED BY <3>1
  <2> HIDE DEF A, gone
  <2> QED BY <2>1, <2>2, BlankTyped DEF CmdType
<1>5. DOMAIN zone' = DOMAIN zone BY <1>1
<1>6. Top(zone') = Top(zone) BY <1>5 DEF Top
<1>7. zone' \in [0 .. Top(zone) -> CmdType]
  <2> HIDE DEF C
  <2> QED BY <1>1, <1>2, <1>4
<1>8. ASSUME NEW i \in DOMAIN zone
      PROVE  IF gone(zone[i]) THEN zone'[i] = Blank
             ELSE /\ zone'[i].letter = zone[i].letter /\ zone'[i].means = zone[i].means
                  /\ \A j \in 1..3 : zone'[i].arg[j] = down(zone[i], j)
  <2>1. zone'[i] = C(i) BY <1>1
  <2>2. gone(zone[i]) => C(i) = Blank OBVIOUS
  <2>3. \A j \in 1..3 : A(i)[j] = down(zone[i], j) OBVIOUS
  <2> HIDE DEF C, A, gone, down
  <2> QED BY <1>4, <2>1, <2>2, <2>3
<1>9. ASSUME NEW i \in DOMAIN zone
      PROVE  \/ /\ zone'[i] = Blank
                /\ \E j \in 1..3 : /\ <<zone[i].letter, j>> \in Renumbered("room")
                                   /\ zone[i].arg[j] = n
             \/ /\ zone'[i].letter = zone[i].letter /\ zone'[i].means = zone[i].means
                /\ \A j \in 1..3 :
                      IF <<zone[i].letter, j>> \in Renumbered("room")
                      THEN /\ zone[i].arg[j] # n
                           /\ zone'[i].arg[j] = IF zone[i].arg[j] > n
                                                THEN zone[i].arg[j] - 1 ELSE zone[i].arg[j]
                      ELSE zone'[i].arg[j] = zone[i].arg[j]
  <2>1. CASE gone(zone[i]) BY <1>8, <2>1
  <2>2. CASE ~gone(zone[i]) BY <1>8, <2>2
  <2> QED BY <2>1, <2>2
<1> QED BY <1>2, <1>5, <1>6, <1>7, <1>9 DEF n

LEMMA TablesRdelete ==
  ASSUME TablesInv, NEW b \in Builder, NEW v \in scene.delete, Rdelete(b, v)
  PROVE  TablesInv'
<1> DEFINE n == Real("room", v)
           f == Numbers(world)
           w == RemoveAt(world, n)
<1>1. /\ n \in DOMAIN world /\ Top(world) > 0 /\ SameRooms(world', w)
      /\ Numbers(world') = RemoveAt(f, n) /\ WorldTyped(world') /\ Top(world') = Top(world) - 1
      /\ v \notin Lasting(scene, "room") /\ f[n] = v
      /\ Top(w) = Top(world) - 1
  BY RdeleteWorld
<1>2. UNCHANGED <<scene, index, desk>> BY DEF Rdelete
<1>3. /\ TableTyped(f) /\ Ascending(f) /\ DOMAIN f = 0 .. Top(world) /\ DOMAIN world = 0 .. Top(world)
      /\ \A r \in DOMAIN world : f[r] = world[r].number
  BY WorldFacts, NumbersTyped DEF TablesInv, Table, TableOf
<1>4. /\ DOMAIN Numbers(world') = 0 .. Top(world) - 1 /\ DOMAIN world' = 0 .. Top(world) - 1
      /\ \A r \in DOMAIN world' : Numbers(world')[r] = world'[r].number
  BY <1>1, NumbersTyped
<1> HIDE DEF f, n
<1>5. /\ Ascending(Numbers(world'))
      /\ \A r \in DOMAIN f : r # n => \E q \in DOMAIN Numbers(world') : Numbers(world')[q] = f[r]
      /\ \A q \in DOMAIN Numbers(world') : \E r \in DOMAIN f : Numbers(world')[q] = f[r]
  <2>1. n \in DOMAIN f BY <1>1, <1>3
  <2>2. /\ Ascending(RemoveAt(f, n))
        /\ \A r \in DOMAIN f : r # n => \E q \in DOMAIN RemoveAt(f, n) : RemoveAt(f, n)[q] = f[r]
        /\ \A q \in DOMAIN RemoveAt(f, n) : \E r \in DOMAIN f : RemoveAt(f, n)[q] = f[r]
    BY <1>3, <2>1, RemoveNumber
  <2> QED BY <1>1, <2>2
<1>6. \A k \in Table : Ascending(TableOf(k))'
  BY <1>2, <1>5 DEF TablesInv, TableOf, Ascending
<1>7. ASSUME NEW k \in Table, NEW u \in Lasting(scene, k)
      PROVE  \E r \in DOMAIN TableOf(k)' : TableOf(k)'[r] = u
  <2>1. PICK r \in DOMAIN TableOf(k) : TableOf(k)[r] = u BY DEF TablesInv
  <2>2. CASE k = "room"
    <3>1. r \in DOMAIN f /\ f[r] = u /\ r # n BY <1>1, <2>1, <2>2 DEF TableOf, f
    <3> QED BY <3>1, <1>5, <2>2 DEF TableOf
  <2>3. CASE k # "room" BY <1>2, <2>1, <2>3 DEF TableOf
  <2> QED BY <2>2, <2>3
<1>8. ASSUME NEW l, Answerable(l) PROVE Answerable(l)'
  <2>1. 0 \in DOMAIN Numbers(world') BY <1>1, <1>4, WorldFacts
  <2> QED BY <1>2, <1>8, <2>1 DEF Answerable, TableOf
<1>9. /\ Top(zone') \in Nat \cup {-1} /\ zone' \in [0 .. Top(zone') -> CmdType]
      /\ DOMAIN zone' = DOMAIN zone
      /\ \A i \in DOMAIN zone : zone'[i].letter = zone[i].letter \/ zone'[i] = Blank
  BY RdeleteZone
<1>10. (\A i \in DOMAIN zone : Answerable(zone[i].letter))'
  BY <1>8, <1>9, BlankTyped DEF TablesInv
<1>11. (\A l \in scene.letters : Answerable(l))' BY <1>2, <1>8 DEF TablesInv
<1>12. ASSUME NEW c \in Builder PROVE Allowed(c, desk[c])'
  <2>1. Allowed(c, desk[c]) BY PageFacts
  <2>2. (\A r \in DOMAIN world : world[r].number # desk[c].vnum)
          => \A q \in DOMAIN world' : world'[q].number # desk[c].vnum
    BY <1>3, <1>4, <1>5
  <2> QED BY <1>2, <1>8, <2>1, <2>2 DEF Allowed
<1>13. at' \in [Body -> Int]
  <2> DEFINE moved == {x \in Body : \E r \in n .. Top(w) : x \in w[r].here}
             go(x) == CHOOSE r \in n .. Top(w) : x \in w[r].here
  <2>1. at' = [x \in Body |-> IF x \in moved /\ at[x] # Nowhere THEN go(x) ELSE at[x]]
    BY DEF Rdelete, n
  <2>2. ASSUME NEW x \in moved PROVE go(x) \in Int
    <3> HIDE DEF w
    <3>1. n \in Int /\ Top(w) \in Int BY <1>1, <1>3, WorldFacts
    <3>2. \E r \in n .. Top(w) : x \in w[r].here OBVIOUS
    <3>3. go(x) \in n .. Top(w) BY <3>2
    <3> QED BY <3>1, <3>3
  <2> HIDE DEF moved, go
  <2> QED BY <2>1, <2>2, WorldFacts
<1>14. Typed'
  <2>1. scene' \in Scenes BY <1>2, SceneFacts
  <2>2. DOMAIN index' = Proto /\ \A k \in Proto : TableTyped(index'[k])
    BY <1>2 DEF TablesInv, Typed
  <2>3. DOMAIN desk' = Builder /\ \A c \in Builder : PageTyped(desk'[c]) BY <1>2, PageFacts
  <2> QED BY <1>1, <1>9, <1>13, <2>1, <2>2, <2>3 DEF Typed, PageTyped, WorldTyped, TableTyped, Top
<1>15. (\A k \in Table : \A u \in Lasting(scene, k) : \E r \in DOMAIN TableOf(k) : TableOf(k)[r] = u)'
  BY <1>2, <1>7
<1> QED BY <1>2, <1>6, <1>10, <1>11, <1>12, <1>14, <1>15 DEF TablesInv

-----------------------------------------------------------------------------
(* Builders are on the list of a room.                                     *)

\* Who is on a list stays on it.
Kept(w2, w, c) ==
  DOMAIN w2 = DOMAIN w /\ \A r \in DOMAIN w : c \in w[r].here => c \in w2[r].here

LEMMA KeptTwice ==
  ASSUME NEW w, NEW w2, NEW w3, NEW c, Kept(w2, w, c), Kept(w3, w2, c)
  PROVE  Kept(w3, w, c)
  BY DEF Kept

LEMMA EnterKept ==
  ASSUME NEW w, WorldTyped(w), NEW r \in DOMAIN w, NEW x
  PROVE  /\ \A c : Kept([w EXCEPT ![r].here = @ \cup {x}], w, c)
         /\ \A c : Kept([w EXCEPT ![r].vehs = @ \cup {x}], w, c)
         /\ x \in [w EXCEPT ![r].here = @ \cup {x}][r].here
<1>1. \A q \in DOMAIN w : w[q] \in RoomType BY DEF WorldTyped
<1> QED BY <1>1 DEF Kept, RoomType

LEMMA FromRoomKept ==
  ASSUME NEW w, WorldTyped(w), NEW x, NEW r, NEW c, c # x
  PROVE  Kept(FromRoom(w, x, r), w, c)
<1>1. \A q \in DOMAIN w : w[q] \in RoomType BY DEF WorldTyped
<1>2. Kept([w EXCEPT ![r].vehs = @ \ {x}], w, c) BY <1>1 DEF Kept, RoomType
<1>3. Kept([w EXCEPT ![r].here = @ \ {x}], w, c) BY <1>1 DEF Kept, RoomType
<1> QED BY <1>2, <1>3 DEF FromRoom

LEMMA ListedKept ==
  ASSUME ListedInv, NEW c \in Builder,
         \/ at'[c] = at[c] /\ Kept(world', world, c)
         \/ at'[c] = Nowhere
         \/ at'[c] \in Nat /\ at'[c] \in DOMAIN world' /\ c \in world'[at'[c]].here
  PROVE  Listed(c, world', at')
<1>1. CASE at'[c] = at[c] /\ Kept(world', world, c)
  BY <1>1 DEF ListedInv, Listed, Kept
<1>2. CASE at'[c] = Nowhere BY <1>2 DEF Listed
<1>3. CASE at'[c] \in Nat /\ at'[c] \in DOMAIN world' /\ c \in world'[at'[c]].here
  BY <1>3 DEF Listed
<1> QED BY <1>1, <1>2, <1>3

LEMMA ListedQuiet ==
  ASSUME ListedInv, UNCHANGED <<world, at>>
  PROVE  ListedInv'
  BY DEF ListedInv, Listed

\* A builder who is somewhere is in a room.
LEMMA BuilderRoom ==
  ASSUME TablesInv, ListedInv, NEW b \in Builder, at[b] # Nowhere
  PROVE  at[b] \in DOMAIN world
<1>1. at[b] \in Int /\ b \in Body BY WorldFacts DEF Body
<1>2. PICK r \in DOMAIN world : r >= at[b] /\ at[b] >= 0 BY DEF ListedInv, Listed
<1> QED BY <1>1, <1>2, WorldFacts

LEMMA ListedMove ==
  ASSUME TablesInv, ListedInv, NEW x \in Body, NEW r \in DOMAIN world, Move(x, r)
  PROVE  ListedInv'
<1> DEFINE w == FromRoom(world, x, at[x])
<1>1. SameRooms(w, world) BY WorldFacts, FromRoomSame
<1>2. WorldTyped(w) /\ r \in DOMAIN w BY <1>1, WorldFacts, SameNumbers DEF SameRooms
<1>3. /\ at' = [at EXCEPT ![x] = r]
      /\ IF IsVeh(x) THEN world' = [w EXCEPT ![r].vehs = @ \cup {x}]
                     ELSE world' = [w EXCEPT ![r].here = @ \cup {x}]
  BY DEF Move
<1>4. \A c : c # x => Kept(w, world, c) BY WorldFacts, FromRoomKept
<1>5. r \in Nat BY WorldFacts
<1> HIDE DEF w
<1>6. \A c : Kept(world', w, c)
  <2>1. /\ \A c : Kept([w EXCEPT ![r].here = @ \cup {x}], w, c)
        /\ \A c : Kept([w EXCEPT ![r].vehs = @ \cup {x}], w, c)
    BY <1>2, EnterKept
  <2> QED BY <1>3, <2>1
<1>7. ASSUME NEW c \in Builder PROVE Listed(c, world', at')
  <2>1. CASE c = x
    <3>1. ~IsVeh(x) BY <2>1, OlcAssumption DEF IsVeh
    <3>2. at'[c] = r /\ world' = [w EXCEPT ![r].here = @ \cup {x}]
      BY <1>3, <2>1, <3>1, WorldFacts
    <3>3. x \in world'[r].here BY <1>2, <3>2, EnterKept
    <3>4. DOMAIN world' = DOMAIN w BY <1>6 DEF Kept
    <3> QED BY <1>2, <1>5, <2>1, <3>2, <3>3, <3>4, ListedKept
  <2>2. CASE c # x
    <3>1. at'[c] = at[c] BY <1>3, <2>2
    <3>2. Kept(world', world, c) BY <1>4, <1>6, <2>2, KeptTwice
    <3> QED BY <3>1, <3>2, ListedKept
  <2> QED BY <2>1, <2>2
<1> QED BY <1>7 DEF ListedInv

LEMMA ListedLoad ==
  ASSUME TablesInv, ListedInv, NEW x \in Thing, NEW i \in DOMAIN zone, Load(x, i)
  PROVE  ListedInv'
<1>1. PICK r : /\ at' = [at EXCEPT ![x] = r]
               /\ \/ world' = world
                  \/ r \in DOMAIN world /\ world' = [world EXCEPT ![r].vehs = @ \cup {x}]
                  \/ r \in DOMAIN world /\ world' = [world EXCEPT ![r].here = @ \cup {x}]
  <2> DEFINE c == zone[i]
             k == RefTable(c.letter, 1)
             r == CASE c.letter = "M"                                 -> CharRoom(world, c.arg[3])
             [] c.letter \in {"O", "V"} /\ c.arg[3] \in DOMAIN world -> c.arg[3]
             [] OTHER                                          -> Nowhere
  <2>1. r = Nowhere \/ r \in DOMAIN world BY WorldFacts DEF CharRoom
  <2>2. at' = [at EXCEPT ![x] = r] BY DEF Load
  <2>3. \/ world' = world
        \/ r # Nowhere /\ world' = [world EXCEPT ![r].vehs = @ \cup {x}]
        \/ r # Nowhere /\ world' = [world EXCEPT ![r].here = @ \cup {x}]
    BY DEF Load
  <2> HIDE DEF r
  <2> QED BY <2>1, <2>2, <2>3
<1>2. \A c : Kept(world', world, c)
  <2>1. \A c : Kept(world, world, c) BY DEF Kept
  <2>2. CASE r \in DOMAIN world
    <3>1. /\ \A c : Kept([world EXCEPT ![r].here = @ \cup {x}], world, c)
          /\ \A c : Kept([world EXCEPT ![r].vehs = @ \cup {x}], world, c)
      BY <2>2, WorldFacts, EnterKept
    <3> QED BY <1>1, <2>1, <3>1
  <2> QED BY <1>1, <2>1, <2>2
<1>3. ASSUME NEW c \in Builder PROVE Listed(c, world', at')
  <2>1. at'[c] = at[c] BY <1>1, OlcAssumption
  <2> QED BY <1>2, <2>1, ListedKept
<1> QED BY <1>3 DEF ListedInv

LEMMA ListedExtract ==
  ASSUME TablesInv, ListedInv, NEW x \in Thing, Extract(x)
  PROVE  ListedInv'
<1>1. ASSUME NEW c \in Builder PROVE Listed(c, world', at')
  <2>1. c # x BY OlcAssumption
  <2>2. at'[c] = at[c] BY <2>1 DEF Extract
  <2>3. Kept(world, world, c) BY DEF Kept
  <2>4. Kept(FromRoom(world, x, at[x]), world, c) BY <2>1, WorldFacts, FromRoomKept
  <2>5. Kept(world', world, c) BY <2>3, <2>4 DEF Extract
  <2> QED BY <2>2, <2>5, ListedKept
<1> QED BY <1>1 DEF ListedInv

LEMMA ListedWithdraw ==
  ASSUME TablesInv, ListedInv, NEW b \in Builder, NEW page, Withdraw(b, page)
  PROVE  ListedInv'
<1>1. at' = [at EXCEPT ![b] = Nowhere] /\ world' = FromRoom(world, b, at[b]) BY DEF Withdraw
<1>2. ASSUME NEW c \in Builder PROVE Listed(c, world', at')
  <2>1. CASE c = b
    <3>1. at'[c] = Nowhere BY <1>1, <2>1, WorldFacts DEF Body
    <3> QED BY <3>1, ListedKept
  <2>2. CASE c # b
    <3>1. at'[c] = at[c] BY <1>1, <2>2
    <3>2. Kept(world', world, c) BY <1>1, <2>2, WorldFacts, FromRoomKept
    <3> QED BY <3>1, <3>2, ListedKept
  <2> QED BY <2>1, <2>2
<1> QED BY <1>2 DEF ListedInv

\* A builder comes back into a world that has everybody's lists.
LEMMA ListedBack ==
  ASSUME NEW b \in Builder, NEW w, WorldTyped(w), NEW place \in [Body -> Int], NEW back,
         ComeBack(b, w, place, back), \A c \in Builder : Listed(c, w, place)
  PROVE  ListedInv'
<1> DEFINE r == CharRoom(w, back[b])
<1>1. world' = [w EXCEPT ![r].here = @ \cup {b}] /\ at' = [place EXCEPT ![b] = r]
  BY DEF ComeBack
<1>2. r \in DOMAIN w /\ r \in Nat BY DEF CharRoom, WorldTyped
<1> HIDE DEF r
<1>3. \A c : Kept(world', w, c) BY <1>1, <1>2, EnterKept
<1>4. b \in world'[r].here BY <1>1, <1>2, EnterKept
<1>5. ASSUME NEW c \in Builder PROVE Listed(c, world', at')
  <2>1. CASE c = b
    <3>1. at'[c] = r BY <1>1, <2>1 DEF Body
    <3>2. r \in DOMAIN world' BY <1>2, <1>3 DEF Kept
    <3> QED BY <1>2, <1>4, <2>1, <3>1, <3>2 DEF Listed
  <2>2. CASE c # b
    <3>1. at'[c] = place[c] BY <1>1, <2>2
    <3> QED BY <1>3, <3>1 DEF Listed, Kept
  <2> QED BY <2>1, <2>2
<1> QED BY <1>5 DEF ListedInv

\* Nothing but exits differs.
OnlyDoors(w2, w) ==
  /\ DOMAIN w2 = DOMAIN w
  /\ \A r \in DOMAIN w : /\ w2[r].number = w[r].number
                         /\ w2[r].here = w[r].here /\ w2[r].vehs = w[r].vehs

LEMMA DoorsOnly ==
  ASSUME NEW w, WorldTyped(w), NEW n \in DOMAIN w, NEW D
  PROVE  OnlyDoors([w EXCEPT ![n].door = D], w)
<1>1. \A q \in DOMAIN w : w[q] \in RoomType BY DEF WorldTyped
<1> QED BY <1>1 DEF OnlyDoors, RoomType

LEMMA ResolvedOnly ==
  ASSUME NEW w, WorldTyped(w), NEW n \in DOMAIN w
  PROVE  OnlyDoors(Resolved(w, n), w)
<1> DEFINE D == [k \in Dir |->
     IF w[n].door[k] = None THEN None
     ELSE [to |-> RealIn(Numbers(w), w[n].door[k].vnum), vnum |-> w[n].door[k].vnum]]
<1>1. Resolved(w, n) = [w EXCEPT ![n].door = D] BY DEF Resolved
<1> HIDE DEF D
<1> QED BY <1>1, DoorsOnly, ZenonT(40)

LEMMA BumpDoorsOnly ==
  ASSUME NEW w, WorldTyped(w), NEW n
  PROVE  OnlyDoors(BumpDoors(w, n), w)
<1> DEFINE D(r) == [k \in Dir |->
     IF w[r].door[k] = None THEN None
     ELSE [to |-> IF w[r].door[k].vnum = w[n].number THEN n ELSE Bump(w[r].door[k].to, n),
           vnum |-> w[r].door[k].vnum]]
           R(r) == [w[r] EXCEPT !.door = D(r)]
<1>1. BumpDoors(w, n) = [r \in DOMAIN w |-> R(r)] BY DEF BumpDoors
<1>2. ASSUME NEW r \in DOMAIN w
      PROVE  R(r).number = w[r].number /\ R(r).here = w[r].here /\ R(r).vehs = w[r].vehs
  <2>1. w[r] \in RoomType BY DEF WorldTyped
  <2> HIDE DEF D
  <2> QED BY <2>1 DEF RoomType
<1> HIDE DEF R
<1> QED BY <1>1, <1>2 DEF OnlyDoors

LEMMA OnlyDoorsTwice ==
  ASSUME NEW w, NEW w2, NEW w3, OnlyDoors(w2, w), OnlyDoors(w3, w2)
  PROVE  OnlyDoors(w3, w)
  BY DEF OnlyDoors

LEMMA ListedReplaceRoom ==
  ASSUME TablesInv, ListedInv, NEW b \in Builder, desk[b].mode = "room", ReplaceRoom(b)
  PROVE  ListedInv'
<1> DEFINE n == Real("room", desk[b].vnum)
           e == [desk[b].room EXCEPT !.here = world[n].here]
           w == [world EXCEPT ![n] = e]
           w2 == Resolved(w, n)
<1>1. /\ n \in DOMAIN world /\ WorldTyped(w) /\ WorldTyped(w2)
      /\ ComeBack(b, w2, at, was)
  BY ReplaceRoomSame
<1>2. DOMAIN w = DOMAIN world /\ \A r \in DOMAIN world : w[r].here = world[r].here
  <2>1. desk[b].room \in RoomType BY RoomPage
  <2>2. e.here = world[n].here
    <3> HIDE DEF n
    <3> QED BY <2>1 DEF RoomType
  <2> HIDE DEF e
  <2> QED BY <2>2
<1> HIDE DEF w, n
<1>3. OnlyDoors(w2, w) BY <1>1, <1>2, ResolvedOnly
<1> HIDE DEF w2
<1>4. \A c \in Builder : Listed(c, w2, at)
  BY <1>2, <1>3 DEF ListedInv, Listed, OnlyDoors
<1>5. at \in [Body -> Int] BY WorldFacts
<1> QED BY <1>1, <1>4, <1>5, ListedBack

LEMMA InsertedListed ==
  ASSUME NEW w, NEW n \in Nat, DOMAIN world = 0 .. n, NEW p \in 0 .. n + 1, NEW e,
         Inserted(w, world, n, p, e), NEW c \in Builder, at \in [Body -> Int],
         WorldTyped(world), e.vehs \in SUBSET Thing,
         Listed(c, world, at), NEW place,
         place[c] = IF c \in Shifted(w, p) /\ at[c] # Nowhere THEN at[c] + 1 ELSE at[c]
  PROVE  Listed(c, w, place)
<1> SUFFICES ASSUME place[c] # Nowhere
             PROVE  place[c] >= 0 /\ \E r \in DOMAIN w : r >= place[c] /\ c \in w[r].here
  BY DEF Listed
<1>1. at[c] \in Int /\ (at[c] # Nowhere => at[c] >= 0)
  BY DEF Listed, Body
<1>2. at[c] # Nowhere BY DEF Nowhere
<1>3. PICK r \in 0 .. n : r >= at[c] /\ c \in world[r].here BY <1>2 DEF Listed
<1>4. DOMAIN w = 0 .. n + 1 /\ Top(w) = n + 1 BY DEF Inserted
<1>5. Bump(r, p) \in 0 .. n + 1 /\ c \in w[Bump(r, p)].here BY <1>3 DEF Inserted
<1>6. CASE place[c] = at[c]
  <2>1. Bump(r, p) >= at[c] BY <1>1, <1>3 DEF Bump
  <2> QED BY <1>1, <1>2, <1>4, <1>5, <1>6, <2>1
<1>7. CASE place[c] = at[c] + 1 /\ c \in Shifted(w, p)
  <2>1. CASE r >= p
    <3>1. Bump(r, p) >= at[c] + 1 BY <1>1, <1>3, <2>1 DEF Bump
    <3> QED BY <1>1, <1>2, <1>4, <1>5, <1>7, <3>1
  <2>2. CASE r < p
    <3>1. PICK q \in p + 1 .. n : c \in w[q].here \cup w[q].vehs BY <1>4, <1>7 DEF Shifted
    <3>2. c \notin Thing BY OlcAssumption
    <3>3. w[q].vehs \in SUBSET Thing
      <4>0. q \in 0 .. n + 1 BY <3>1
      <4>1. CASE q = p BY <4>1 DEF Inserted
      <4>2. CASE q # p
        <5>1. PICK k \in 0 .. n : q = Bump(k, p) BY <4>0, <4>2 DEF Inserted
        <5>2. w[q] = world[k] BY <5>1 DEF Inserted
        <5> QED BY <5>2 DEF WorldTyped, RoomType
      <4> QED BY <4>1, <4>2
    <3>4. q \in DOMAIN w /\ c \in w[q].here BY <3>1, <3>2, <3>3, <1>4
    <3>5. q >= at[c] + 1 BY <1>1, <1>3, <2>2
    <3> QED BY <1>1, <1>2, <1>7, <3>4, <3>5
  <2> QED BY <1>3, <2>1, <2>2
<1> QED BY <1>6, <1>7

LEMMA ListedInsertRoom ==
  ASSUME TablesInv, ListedInv, NEW b \in Builder, desk[b].mode = "room", InsertRoom(b)
  PROVE  ListedInv'
<1> DEFINE v == desk[b].vnum
           p == Place(Numbers(world), v)
           e == [desk[b].room EXCEPT !.number = v]
           w == InsertAt(world, p, e)
           w1 == BumpDoors(w, p)
           w2 == Resolved(w1, p)
           place == [x \in Body |-> IF x \in Shifted(w, p) /\ at[x] # Nowhere THEN at[x] + 1 ELSE at[x]]
           back == [c \in Builder |-> Bump(was[c], p)]
<1>1. /\ p \in 1 .. Top(world) + 1 /\ Inserted(w, world, Top(world), p, e)
      /\ WorldTyped(w) /\ WorldTyped(w1) /\ WorldTyped(w2)
  BY InsertRoomWorld DEF SameRooms
<1>2. ComeBack(b, w2, place, back) BY DEF InsertRoom
<1>3. place \in [Body -> Int] BY WorldFacts
<1>4. e.vehs \in SUBSET Thing BY RoomPage DEF RoomType
<1>5. \A c \in Builder : c \in Body
        /\ place[c] = IF c \in Shifted(w, p) /\ at[c] # Nowhere THEN at[c] + 1 ELSE at[c]
  BY DEF Body
<1> HIDE DEF w, e, p, place, back
<1>6. \A c \in Builder : Listed(c, w, place)
  <2>1. p \in 0 .. Top(world) + 1 BY <1>1, WorldFacts
  <2> QED BY <1>1, <1>4, <1>5, <2>1, WorldFacts, InsertedListed DEF ListedInv
<1>7. p \in DOMAIN w BY <1>1, WorldFacts DEF Inserted
<1>8. OnlyDoors(w1, w) BY <1>1, BumpDoorsOnly
<1> HIDE DEF w1
<1>9. OnlyDoors(w2, w1) BY <1>1, <1>7, <1>8, ResolvedOnly DEF OnlyDoors
<1> HIDE DEF w2
<1>10. \A c \in Builder : Listed(c, w2, place)
  <2>1. OnlyDoors(w2, w) BY <1>8, <1>9, OnlyDoorsTwice
  <2> QED BY <1>6, <2>1 DEF Listed, OnlyDoors
<1> QED BY <1>1, <1>2, <1>3, <1>10, ListedBack

LEMMA ListedAbort ==
  ASSUME TablesInv, ListedInv, NEW b \in Builder, Abort(b)
  PROVE  ListedInv'
<1>1. CASE desk[b].mode = "room"
  <2>1. ComeBack(b, world, at, was) BY <1>1 DEF Abort
  <2>2. at \in [Body -> Int] /\ WorldTyped(world) BY WorldFacts
  <2> QED BY <2>1, <2>2, ListedBack DEF ListedInv
<1>2. CASE desk[b].mode # "room" BY <1>2, ListedQuiet DEF Abort
<1> QED BY <1>1, <1>2

\* The exits that dig makes are two rooms' doors.
LEMMA DigWorld ==
  ASSUME TablesInv, NEW b \in Builder, NEW k \in Dir, NEW v, Dig(b, k, v), at[b] \in DOMAIN world
  PROVE  OnlyDoors(world', world)
<1> DEFINE h == at[b]
           n == Real("room", v)
           exit(r) == [to |-> r, vnum |-> world[r].number]
           D == [world[h].door EXCEPT ![k] = exit(n)]
           there == [world EXCEPT ![h].door = D]
           E == [there[n].door EXCEPT ![Rev(k)] = exit(h)]
<1>1. world' = [there EXCEPT ![n].door = E] BY DEF Dig
<1> HIDE DEF D, E
<1>2. OnlyDoors(there, world) BY WorldFacts, DoorsOnly
<1>3. \A q \in DOMAIN world : world[q] \in RoomType BY WorldFacts DEF WorldTyped
<1> QED BY <1>1, <1>3 DEF OnlyDoors, RoomType

LEMMA ListedDig ==
  ASSUME TablesInv, ListedInv, NEW b \in Builder, NEW k \in Dir, NEW v, Dig(b, k, v)
  PROVE  ListedInv'
<1>1. OnlyDoors(world', world) BY BuilderRoom, DigWorld DEF Dig
<1>2. at' = at BY DEF Dig
<1> QED BY <1>1, <1>2 DEF ListedInv, Listed, OnlyDoors

LEMMA ListedRdelete ==
  ASSUME TablesInv, ListedInv, NEW b \in Builder, NEW v \in scene.delete, Rdelete(b, v)
  PROVE  ListedInv'
<1>a. PICK n : n = Real("room", v) OBVIOUS
<1>b. PICK m \in Nat : m = Top(world) BY WorldFacts
<1> DEFINE w == RemoveAt(world, n)
           moved == {x \in Body : \E r \in n .. Top(w) : x \in w[r].here}
           go(x) == CHOOSE r \in n .. Top(w) : x \in w[r].here
           D(r) == [k \in Dir |-> IF w[r].door[k] # None /\ w[r].door[k].to >= n
                                  THEN [to |-> w[r].door[k].to - 1, vnum |-> w[r].door[k].vnum]
                                  ELSE w[r].door[k]]
           R(r) == [w[r] EXCEPT !.door = D(r)]
<1>1. /\ n \in 0 .. m /\ DOMAIN world = 0 .. m /\ world[n].here = {}
      /\ WorldTyped(w) /\ Top(w) = m - 1
  BY <1>a, <1>b, RdeleteWorld, WorldFacts
<1>2. /\ DOMAIN w = 0 .. m - 1
      /\ \A r \in 0 .. m : r < n => r \in 0 .. m - 1 /\ w[r] = world[r]
      /\ \A r \in 0 .. m : r > n => r - 1 \in 0 .. m - 1 /\ w[r - 1] = world[r]
  BY <1>1, RemoveShape
<1>3. world' = [r \in DOMAIN w |-> R(r)] BY <1>a DEF Rdelete
<1>4. at' = [x \in Body |-> IF x \in moved /\ at[x] # Nowhere THEN go(x) ELSE at[x]]
  BY <1>a DEF Rdelete
<1>5. DOMAIN world' = 0 .. m - 1 /\ \A r \in 0 .. m - 1 : world'[r].here = w[r].here
  <2>1. \A r \in DOMAIN w : R(r).here = w[r].here
    <3> HIDE DEF D, w
    <3> QED BY <1>1 DEF WorldTyped, RoomType
  <2> HIDE DEF R
  <2> QED BY <1>2, <1>3, <2>1
<1> HIDE DEF w, R
<1>6. ASSUME NEW x \in moved PROVE go(x) \in n .. m - 1 /\ x \in w[go(x)].here
  <2>1. \E r \in n .. Top(w) : x \in w[r].here OBVIOUS
  <2> QED BY <1>1, <2>1
<1>7. ASSUME NEW c \in Builder PROVE Listed(c, world', at')
  <2>0. c \in Body BY DEF Body
  <2>1. CASE at[c] = Nowhere
    <3>1. at'[c] = Nowhere BY <1>4, <2>0, <2>1
    <3> QED BY <3>1 DEF Listed
  <2>2. CASE at[c] # Nowhere /\ c \in moved
    <3>1. at'[c] = go(c) BY <1>4, <2>0, <2>2
    <3>2. go(c) \in n .. m - 1 /\ c \in w[go(c)].here BY <1>6, <2>2
    <3> HIDE DEF go
    <3> QED BY <1>1, <1>5, <3>1, <3>2 DEF Listed
  <2>3. CASE at[c] # Nowhere /\ c \notin moved
    <3>1. at'[c] = at[c] BY <1>4, <2>0, <2>3
    <3>2. PICK r \in 0 .. m : at[c] >= 0 /\ r >= at[c] /\ c \in world[r].here
      BY <1>1, <2>3 DEF ListedInv, Listed
    <3>3. r # n BY <1>1, <3>2
    <3>4. ~(r > n)
      <4> SUFFICES ASSUME r > n PROVE FALSE OBVIOUS
      <4>1. r - 1 \in n .. m - 1 /\ c \in w[r - 1].here BY <1>1, <1>2, <3>2
      <4> QED BY <1>1, <2>0, <2>3, <4>1
    <3>5. r \in 0 .. m - 1 /\ w[r] = world[r] BY <1>1, <1>2, <3>3, <3>4
    <3> QED BY <1>5, <3>1, <3>2, <3>5 DEF Listed
  <2> QED BY <2>1, <2>2, <2>3
<1> QED BY <1>7 DEF ListedInv

-----------------------------------------------------------------------------
(* The game boots.                                                         *)

LEMMA ZeroIn ==
  ASSUME NEW f, TableTyped(f), NEW r \in DOMAIN f
  PROVE  0 \in DOMAIN f
  BY DEF TableTyped

\* A command that keeps its letter has found all its numbers.
LEMMA BootedIs ==
  ASSUME \A k \in Table : TableTyped(TableOf(k)),
         NEW c, c.letter \in Letter, c.means \in [1..3 -> Nat]
  PROVE  /\ Booted(c) \in CmdType /\ Booted(c).means = c.means
         /\ \/ Booted(c).letter = "*"
            \/ /\ Booted(c).letter = c.letter
               /\ \A j \in 1..3 : LET k == RefTable(c.letter, j) IN
                    k # "none" => Names(k, Booted(c).arg[j], c.means[j])
<1> DEFINE A(j) == CASE RefTable(c.letter, j) = "none" -> 0
                     [] RefTable(c.letter, j) = "room" -> RealIn(Numbers(world), c.means[j])
                     [] OTHER -> RealIn(index[RefTable(c.letter, j)], c.means[j])
           arg == [j \in 1..3 |-> A(j)]
           l == IF \E j \in 1..3 : arg[j] = Nowhere THEN "*" ELSE c.letter
<1>1. Booted(c) = [letter |-> l, means |-> c.means, arg |-> arg] BY DEF Booted
<1>2. ASSUME NEW j \in 1..3
      PROVE  /\ A(j) \in Int
             /\ RefTable(c.letter, j) # "none" =>
                  A(j) = Nowhere \/ Names(RefTable(c.letter, j), A(j), c.means[j])
  <2> DEFINE k == RefTable(c.letter, j)
  <2>1. CASE k = "none" BY <2>1
  <2>2. CASE k # "none"
    <3>1. k \in Table BY <2>2, RefTableIs
    <3>2. A(j) = RealIn(TableOf(k), c.means[j])
      <4>1. k = "room" \/ k # "room" OBVIOUS
      <4> QED BY <2>2, <4>1 DEF TableOf
    <3> HIDE DEF k, A
    <3>3. \/ A(j) = Nowhere
          \/ A(j) \in DOMAIN TableOf(k) /\ TableOf(k)[A(j)] = c.means[j]
      BY <3>1, <3>2, RealInOf
    <3>4. A(j) = Nowhere \/ Names(k, A(j), c.means[j]) BY <3>3 DEF Names
    <3>5. A(j) \in Int BY <3>1, <3>3 DEF TableTyped, Nowhere
    <3> QED BY <3>4, <3>5 DEF k
  <2> QED BY <2>1, <2>2
<1> HIDE DEF A
<1>3. arg \in [1..3 -> Int] /\ \A j \in 1..3 : arg[j] = A(j) BY <1>2
<1>4. l \in Letter BY DEF Letter
<1>5. l = "*" \/ (l = c.letter /\ \A j \in 1..3 : arg[j] # Nowhere)
  <2> HIDE DEF arg
  <2> QED OBVIOUS
<1> HIDE DEF arg, l
<1>6. Booted(c) \in CmdType /\ Booted(c).means = c.means
      /\ Booted(c).letter = l /\ Booted(c).arg = arg
  BY <1>1, <1>3, <1>4 DEF CmdType
<1>7. CASE l = "*" BY <1>6, <1>7
<1>8. CASE l = c.letter /\ \A j \in 1..3 : arg[j] # Nowhere
  <2>1. ASSUME NEW j \in 1..3, RefTable(c.letter, j) # "none"
        PROVE  Names(RefTable(c.letter, j), arg[j], c.means[j])
    <3>1. A(j) = Nowhere \/ Names(RefTable(c.letter, j), A(j), c.means[j]) BY <1>2, <2>1
    <3>2. arg[j] = A(j) /\ arg[j] # Nowhere BY <1>3, <1>8
    <3> QED BY <3>1, <3>2
  <2> QED BY <1>6, <1>8, <2>1
<1> QED BY <1>5, <1>6, <1>7, <1>8

LEMMA BootWorld ==
  ASSUME Init
  PROVE  /\ scene \in Scenes
         /\ WorldTyped(world) /\ Numbers(world) = Sorted(scene.rooms)
         /\ start \in DOMAIN world /\ start \in Nat /\ world[start].number = scene.start
         /\ \A r \in DOMAIN world : /\ world[r].here = IF r = start THEN Builder ELSE {}
                                    /\ world[r].vehs = {} /\ world[r].door = NoDoors
<1> DEFINE f == Sorted(scene.rooms)
           H(r) == IF r = start THEN Builder ELSE {}
           R(r) == [NewRoom EXCEPT !.number = f[r], !.here = H(r)]
<1>1. /\ scene \in Scenes /\ start = CHOOSE r \in DOMAIN f : f[r] = scene.start
      /\ world = [r \in DOMAIN f |-> R(r)]
  BY DEF Init
<1>2. scene.rooms \in SUBSET Nat /\ IsFiniteSet(scene.rooms) /\ scene.start \in scene.rooms
  BY <1>1, OlcAssumption
<1>3. TableTyped(f) /\ \E r \in DOMAIN f : f[r] = scene.start BY <1>2, SortedIs
<1> HIDE DEF f
<1>4. start \in DOMAIN f /\ f[start] = scene.start BY <1>1, <1>3
<1>5. DOMAIN f = 0 .. Top(f) /\ Top(f) \in Nat /\ \A r \in DOMAIN f : f[r] \in Nat
  BY <1>3, <1>4 DEF TableTyped
<1>6. ASSUME NEW r \in DOMAIN f
      PROVE  /\ R(r) \in RoomType /\ R(r).number = f[r] /\ R(r).here = H(r)
             /\ R(r).vehs = {} /\ R(r).door = NoDoors
  <2>1. H(r) \in SUBSET Body BY DEF Body
  <2>2. NewRoom \in RoomType /\ f[r] \in Nat BY <1>5, NewRoomTyped
  <2> HIDE DEF H
  <2> QED BY <2>1, <2>2 DEF RoomType, NewRoom
<1> HIDE DEF R
<1>7. DOMAIN world = DOMAIN f /\ \A r \in DOMAIN f : world[r] = R(r) BY <1>1
<1>8. Top(world) = Top(f) BY <1>7 DEF Top
<1>9. world \in [0 .. Top(f) -> RoomType] BY <1>1, <1>5, <1>6
<1>10. Numbers(world) = f
  <2>1. f = [r \in DOMAIN f |-> f[r]] BY <1>3 DEF TableTyped
  <2> QED BY <1>6, <1>7, <2>1 DEF Numbers
<1>11. world[start].number = scene.start BY <1>4, <1>6, <1>7
<1>12. WorldTyped(world) BY <1>5, <1>8, <1>9 DEF WorldTyped
<1>13. \A r \in DOMAIN world : /\ world[r].here = IF r = start THEN Builder ELSE {}
                               /\ world[r].vehs = {} /\ world[r].door = NoDoors
  BY <1>6, <1>7
<1> QED BY <1>1, <1>4, <1>5, <1>7, <1>10, <1>11, <1>12, <1>13 DEF f

LEMMA BootTables ==
  ASSUME Init, NEW k \in Table
  PROVE  /\ TableTyped(TableOf(k)) /\ Ascending(TableOf(k))
         /\ \A u \in (IF k = "room" THEN scene.rooms ELSE scene.protos[k]) :
              \E r \in DOMAIN TableOf(k) : TableOf(k)[r] = u
<1> DEFINE S == IF k = "room" THEN scene.rooms ELSE scene.protos[k]
<1>1. TableOf(k) = Sorted(S)
  <2>1. CASE k = "room" BY <2>1, BootWorld DEF TableOf
  <2>2. CASE k # "room" BY <2>2 DEF TableOf, Table, Init
  <2> QED BY <2>1, <2>2
<1>2. S \in SUBSET Nat /\ IsFiniteSet(S)
  <2>1. scene \in Scenes BY DEF Init
  <2> QED BY <2>1, OlcAssumption DEF Table
<1> HIDE DEF S
<1>3. TableTyped(Sorted(S)) /\ Ascending(Sorted(S)) /\ \A u \in S : \E r \in DOMAIN Sorted(S) : Sorted(S)[r] = u
  BY <1>2, SortedIs
<1> QED BY <1>1, <1>3 DEF S

LEMMA BootZone ==
  ASSUME Init
  PROVE  /\ Top(zone) \in Nat \cup {-1} /\ zone \in [0 .. Top(zone) -> CmdType]
         /\ Top(zone) < scene.max /\ DOMAIN zone = DOMAIN scene.zone
         /\ \A i \in DOMAIN zone :
              /\ zone[i].means = scene.zone[i].means
              /\ \/ zone[i].letter = "*"
                 \/ /\ zone[i].letter = scene.zone[i].letter
                    /\ \A j \in 1..3 : LET k == RefTable(zone[i].letter, j) IN
                         k # "none" => Names(k, zone[i].arg[j], zone[i].means[j])
<1>1. scene \in Scenes /\ zone = [i \in DOMAIN scene.zone |-> Booted(scene.zone[i])]
  BY DEF Init
<1>2. PICK n \in 0 .. scene.max : DOMAIN scene.zone = 0 .. n - 1 BY <1>1, OlcAssumption
<1>3. scene.max \in Nat /\ \A i \in DOMAIN scene.zone :
         scene.zone[i].letter \in Letter /\ scene.zone[i].means \in [1..3 -> Nat]
  BY <1>1, OlcAssumption
<1>4. \A k \in Table : TableTyped(TableOf(k)) BY BootTables
<1>5. ASSUME NEW i \in DOMAIN scene.zone
      PROVE  /\ zone[i] \in CmdType /\ zone[i].means = scene.zone[i].means
             /\ \/ zone[i].letter = "*"
                \/ /\ zone[i].letter = scene.zone[i].letter
                   /\ \A j \in 1..3 : LET k == RefTable(zone[i].letter, j) IN
                        k # "none" => Names(k, zone[i].arg[j], zone[i].means[j])
  <2>1. PICK c : c = scene.zone[i] OBVIOUS
  <2>2. zone[i] = Booted(c) /\ c.letter \in Letter /\ c.means \in [1..3 -> Nat] BY <1>1, <1>3, <2>1
  <2>3. /\ Booted(c) \in CmdType /\ Booted(c).means = c.means
        /\ \/ Booted(c).letter = "*"
           \/ /\ Booted(c).letter = c.letter
              /\ \A j \in 1..3 : LET k == RefTable(c.letter, j) IN
                   k # "none" => Names(k, Booted(c).arg[j], c.means[j])
    BY <1>4, <2>2, BootedIs
  <2> QED BY <2>1, <2>2, <2>3
<1>6. DOMAIN zone = 0 .. n - 1 BY <1>1, <1>2
<1>7. n - 1 \in Nat \cup {-1} /\ Top(zone) = n - 1 BY <1>2, <1>3, <1>6, TopOf
<1>8. zone \in [0 .. n - 1 -> CmdType]
  <2> DEFINE B(i) == Booted(scene.zone[i])
  <2>1. zone = [i \in 0 .. n - 1 |-> B(i)] BY <1>1, <1>2
  <2> HIDE DEF B
  <2> QED BY <1>2, <1>5, <2>1
<1> QED BY <1>1, <1>2, <1>3, <1>5, <1>6, <1>7, <1>8, SMTT(30)

LEMMA TablesInit ==
  ASSUME Init, FirstKept(scene), OneMaker(scene)
  PROVE  TablesInv /\ ListedInv
<1>1. scene \in Scenes /\ WorldTyped(world) /\ start \in DOMAIN world /\ start \in Nat
  BY BootWorld
<1>2. \A k \in Table : /\ TableTyped(TableOf(k)) /\ Ascending(TableOf(k))
                       /\ \A u \in Lasting(scene, k) : \E r \in DOMAIN TableOf(k) : TableOf(k)[r] = u
  BY BootTables DEF Lasting
<1>3. /\ Top(zone) \in Nat \cup {-1} /\ zone \in [0 .. Top(zone) -> CmdType]
      /\ \A i \in DOMAIN zone :
           \/ zone[i].letter = "*"
           \/ \A j \in 1..3 : LET k == RefTable(zone[i].letter, j) IN
                k # "none" => Names(k, zone[i].arg[j], zone[i].means[j])
  BY BootZone
<1>4. ASSUME NEW l, NEW j \in 1..3, RefTable(l, j) # "none",
             \E r : r \in DOMAIN TableOf(RefTable(l, j))
      PROVE  0 \in DOMAIN TableOf(RefTable(l, j))
  BY <1>2, <1>4, RefTableIs, ZeroIn
<1>5. \A i \in DOMAIN zone : Answerable(zone[i].letter)
  <2> SUFFICES ASSUME NEW i \in DOMAIN zone PROVE Answerable(zone[i].letter) OBVIOUS
  <2>1. CASE zone[i].letter = "*" BY <2>1, BlankTyped DEF Blank
  <2>2. CASE zone[i].letter # "*" BY <1>3, <1>4, <2>2 DEF Answerable, Names
  <2> QED BY <2>1, <2>2
<1>6. ASSUME NEW l \in scene.letters PROVE Answerable(l)
  <2>1. ASSUME NEW j \in 1..3, RefTable(l, j) # "none"
        PROVE  \E r : r \in DOMAIN TableOf(RefTable(l, j))
    <3>1. CASE RefTable(l, j) = "room"
      <4>1. DOMAIN Numbers(world) = DOMAIN world BY DEF Numbers
      <4> QED BY <1>1, <3>1, <4>1 DEF TableOf
    <3>2. CASE RefTable(l, j) # "room"
      <4>1. RefTable(l, j) \in Proto BY <2>1, <3>2, RefTableIs DEF Table
      <4>2. PICK u : u \in scene.protos[RefTable(l, j)] BY <1>1, <4>1, OlcAssumption
      <4>3. \E r \in DOMAIN TableOf(RefTable(l, j)) : TableOf(RefTable(l, j))[r] = u
        BY <3>2, <4>1, <4>2, BootTables DEF Table
      <4> QED BY <4>3
    <3> QED BY <3>1, <3>2
  <2> QED BY <1>4, <2>1 DEF Answerable
<1>7. \A b \in Builder : PageTyped(desk[b]) /\ Allowed(b, desk[b])
  BY PlayingAllowed DEF Init
<1>8. Typed
  <2>1. DOMAIN index = Proto BY DEF Init
  <2>2. \A k \in Proto : TableTyped(index[k])
    <3>1. \A k \in Proto : TableOf(k) = index[k] BY DEF TableOf, Proto
    <3> QED BY <1>2, <3>1 DEF Table
  <2>3. at \in [Body -> Int]
    <3>1. at = [x \in Body |-> IF x \in Builder THEN start ELSE Nowhere] BY DEF Init
    <3> QED BY <1>1, <3>1 DEF Nowhere
  <2>4. DOMAIN desk = Builder BY DEF Init
  <2> QED BY <1>1, <1>3, <1>7, <2>1, <2>2, <2>3, <2>4 DEF Typed
<1>9. ListedInv
  <2> SUFFICES ASSUME NEW b \in Builder PROVE Listed(b, world, at) BY DEF ListedInv
  <2>1. at[b] = start BY DEF Init, Body
  <2>2. b \in world[start].here BY <1>1, BootWorld
  <2> QED BY <1>1, <2>1, <2>2 DEF Listed
<1> QED BY <1>2, <1>5, <1>6, <1>7, <1>8, <1>9 DEF TablesInv

LEMMA TablesEdit ==
  ASSUME TablesInv, ListedInv, NEW b \in Builder, Edit(b)
  PROVE  TablesInv' /\ ListedInv'
<1>1. CASE \E v \in Vnum : Redit(b, v)
  <2>1. PICK v \in Vnum : Redit(b, v) BY <1>1
  <2>2. \E page : Withdraw(b, page) BY <2>1 DEF Redit
  <2> QED BY <2>1, <2>2, TablesRedit, ListedWithdraw
<1>2. CASE \E u, v \in Vnum : "rclone" \in scene.cmds[b] /\ Rclone(b, u, v)
  <2>1. PICK u \in Vnum, v \in Vnum : Rclone(b, u, v) BY <1>2
  <2>2. \E page : Withdraw(b, page) BY <2>1 DEF Rclone
  <2> QED BY <2>1, <2>2, TablesRclone, ListedWithdraw
<1>3. CASE \E k \in Dir, v \in scene.exits : SetExit(b, k, v)
  <2>1. PICK k \in Dir, v \in scene.exits : SetExit(b, k, v) BY <1>3
  <2>2. UNCHANGED <<world, at>> BY <2>1 DEF SetExit
  <2> QED BY <2>1, <2>2, TablesSetExit, ListedQuiet
<1>4. CASE \E k \in Dir : ClearExit(b, k)
  <2>1. PICK k \in Dir : ClearExit(b, k) BY <1>4
  <2>2. UNCHANGED <<world, at>> BY <2>1 DEF ClearExit
  <2> QED BY <2>1, <2>2, TablesClearExit, ListedQuiet
<1>5. CASE SaveRoom(b)
  <2>1. CASE ReplaceRoom(b)
    BY <1>5, <2>1, TablesReplaceRoom, ListedReplaceRoom DEF SaveRoom
  <2>2. CASE InsertRoom(b) BY <1>5, <2>2, TablesInsertRoom, ListedInsertRoom DEF SaveRoom
  <2> QED BY <1>5, <2>1, <2>2 DEF SaveRoom
<1>6. CASE \E k \in Proto, v \in Vnum : Open(b, k, v)
  <2>1. PICK k \in Proto, v \in Vnum : Open(b, k, v) BY <1>6
  <2>2. UNCHANGED <<world, at>> BY <2>1 DEF Open
  <2> QED BY <2>1, <2>2, TablesOpen, ListedQuiet
<1>7. CASE SaveProto(b)
  <2>1. UNCHANGED <<world, at>> BY <1>7 DEF SaveProto
  <2> QED BY <1>7, <2>1, TablesSaveProto, ListedQuiet
<1>8. CASE Abort(b) BY <1>8, TablesAbort, ListedAbort
<1>9. CASE \E k \in Dir, v \in scene.exits : Dig(b, k, v)
  <2>1. PICK k \in Dir, v \in scene.exits : Dig(b, k, v) BY <1>9
  <2>2. at[b] \in DOMAIN world BY <2>1, BuilderRoom DEF Dig
  <2> QED BY <2>1, <2>2, TablesDig, ListedDig
<1>10. CASE \E v \in scene.delete : Rdelete(b, v) BY <1>10, TablesRdelete, ListedRdelete
<1>11. CASE \E i \in 0 .. scene.max, how \in {"edit", "insert", "add"} : Zedit(b, i, how)
  <2>1. PICK i \in 0 .. scene.max, how \in {"edit", "insert", "add"} : Zedit(b, i, how)
    BY <1>11
  <2>2. UNCHANGED <<world, at>> BY <2>1 DEF Zedit
  <2> QED BY <2>1, <2>2, TablesZedit, ListedQuiet
<1>12. CASE \E l \in Letter : ZeditType(b, l)
  <2>1. PICK l \in Letter : ZeditType(b, l) BY <1>12
  <2>2. UNCHANGED <<world, at>> BY <2>1 DEF ZeditType
  <2> QED BY <2>1, <2>2, TablesZeditType, ListedQuiet
<1>13. CASE \E j \in 1..3, v \in Vnum : ZeditArg(b, j, v)
  <2>1. PICK j \in 1..3, v \in Vnum : ZeditArg(b, j, v) BY <1>13
  <2>2. UNCHANGED <<world, at>> BY <2>1 DEF ZeditArg
  <2> QED BY <2>1, <2>2, TablesZeditArg, ListedQuiet
<1>14. CASE ZeditSave(b)
  <2>1. UNCHANGED <<world, at>> BY <1>14 DEF ZeditSave
  <2> QED BY <1>14, <2>1, TablesZeditSave, ListedQuiet
<1> QED BY <1>1, <1>2, <1>3, <1>4, <1>5, <1>6, <1>7, <1>8, <1>9, <1>10, <1>11, <1>12, <1>13, <1>14
    DEF Edit

\* The steps of Live, one by one.
LEMMA LiveSteps ==
  ASSUME TablesInv, NEW x \in scene.things, Live(x)
  PROVE  x \in Thing /\ ((\E i \in DOMAIN zone : Load(x, i)) \/ Extract(x))
  BY SceneFacts DEF Live, TakeAway

LEMMA TablesNext ==
  ASSUME TablesInv, ListedInv, [Next]_vars
  PROVE  TablesInv' /\ ListedInv'
<1>1. ASSUME NEW b \in Builder, Edit(b) PROVE TablesInv' /\ ListedInv' BY <1>1, TablesEdit
<1>2. ASSUME NEW x \in scene.things, Live(x) PROVE TablesInv' /\ ListedInv'
  BY <1>2, LiveSteps, TablesLoad, TablesExtract, ListedLoad, ListedExtract
<1>3. ASSUME NEW x \in Body, NEW r \in DOMAIN world, Move(x, r) PROVE TablesInv' /\ ListedInv'
  BY <1>3, TablesMove, ListedMove
<1>4. CASE UNCHANGED vars
  <2>1. UNCHANGED <<scene, world, index, at, zone, desk>> BY <1>4 DEF vars
  <2> QED BY <2>1, WorldFacts, TablesQuiet, ListedQuiet
<1> QED BY <1>1, <1>2, <1>3, <1>4 DEF Next

\* Where nothing is made in front of a table's first entry or in its place,
\* and no two builders make the same room, the tables of rooms and prototypes
\* stay sorted and without a number twice, whatever any number of builders
\* insert, delete, change and abort in whatever order (the shifts of
\* redit.cpp, medit.cpp, iedit.cpp, vedit.cpp and do_rdelete); a table loses
\* no number that nobody deletes; and whoever is in a room is on the list of
\* that one or of a later one.  Without the two conditions the code inserts a
\* number a second time: a save takes entry 0 for one that is not there
\* (redit.cpp:352), and the save of a room that another builder made meanwhile
\* writes the number 0 over it (redit.cpp:360).
THEOREM TablesAlways ==
  Spec /\ FirstKept(scene) /\ OneMaker(scene) => [](TablesInv /\ ListedInv)
<1>1. Init /\ FirstKept(scene) /\ OneMaker(scene) => TablesInv /\ ListedInv BY TablesInit
<1>2. TablesInv /\ ListedInv /\ [Next]_vars => (TablesInv /\ ListedInv)' BY TablesNext
<1> QED BY <1>1, <1>2, PTL DEF Spec

-----------------------------------------------------------------------------
(* Exits, the start room and the ways back from the editors.               *)

\* Only people and vehicles came or went.
OnlyPeople(w2, w) ==
  DOMAIN w2 = DOMAIN w /\ \A r \in DOMAIN w : w2[r].number = w[r].number /\ w2[r].door = w[r].door

LEMMA PeopleTwice ==
  ASSUME NEW w, NEW w2, NEW w3, OnlyPeople(w2, w), OnlyPeople(w3, w2)
  PROVE  OnlyPeople(w3, w)
  BY DEF OnlyPeople

LEMMA PeopleOnly ==
  ASSUME NEW w, WorldTyped(w), NEW r, NEW x
  PROVE  /\ OnlyPeople(w, w) /\ OnlyPeople(FromRoom(w, x, r), w)
         /\ OnlyPeople([w EXCEPT ![r].here = @ \cup {x}], w)
         /\ OnlyPeople([w EXCEPT ![r].vehs = @ \cup {x}], w)
<1>1. \A q \in DOMAIN w : w[q] \in RoomType BY DEF WorldTyped
<1>2. \A S : OnlyPeople([w EXCEPT ![r].here = S], w) BY <1>1 DEF OnlyPeople, RoomType
<1>3. \A S : OnlyPeople([w EXCEPT ![r].vehs = S], w) BY <1>1 DEF OnlyPeople, RoomType
<1>4. OnlyPeople(w, w) BY DEF OnlyPeople
<1>5. OnlyPeople(FromRoom(w, x, r), w) BY <1>2, <1>3 DEF FromRoom
<1> QED BY <1>2, <1>3, <1>4, <1>5

LEMMA ComeBackPeople ==
  ASSUME NEW b, NEW w, WorldTyped(w), NEW place, NEW back, ComeBack(b, w, place, back)
  PROVE  OnlyPeople(world', w)
  BY PeopleOnly DEF ComeBack

LEMMA PeopleNumbers ==
  ASSUME NEW w, NEW w2, OnlyPeople(w2, w)
  PROVE  Numbers(w2) = Numbers(w)
  BY DEF OnlyPeople, Numbers

\* A door that leads to its number's room, or nowhere.
Leads(d, f) == d # None => d.to = RealIn(f, d.vnum)

LEMMA WaysIs ==
  WaysInv <=> /\ NothingDeleted(scene) /\ was \in [Builder -> Int] /\ DOMAIN home = Builder
              /\ \A r \in DOMAIN world, k \in Dir : Leads(world[r].door[k], Numbers(world))
              /\ start \in DOMAIN Numbers(world) /\ Numbers(world)[start] = scene.start
              /\ \A b \in Builder : was[b] # Nowhere =>
                   was[b] \in DOMAIN Numbers(world) /\ Numbers(world)[was[b]] = home[b]
  BY DEF WaysInv, WaysTrue, Leads, Names, Real, TableOf

LEMMA WaysNextIs ==
  WaysInv' <=> /\ NothingDeleted(scene') /\ was' \in [Builder -> Int] /\ DOMAIN home' = Builder
               /\ \A r \in DOMAIN world', k \in Dir : Leads(world'[r].door[k], Numbers(world'))
               /\ start' \in DOMAIN Numbers(world') /\ Numbers(world')[start'] = scene'.start
               /\ \A b \in Builder : was'[b] # Nowhere =>
                    was'[b] \in DOMAIN Numbers(world') /\ Numbers(world')[was'[b]] = home'[b]
  BY DEF WaysInv, WaysTrue, Leads, Names, Real, TableOf

\* A step that leaves the numbers as they are.
LEMMA WaysSame ==
  ASSUME WaysInv, UNCHANGED <<scene, start>>,
         Numbers(world') = Numbers(world),
         \A r \in DOMAIN world', k \in Dir :
           \/ r \in DOMAIN world /\ world'[r].door[k] = world[r].door[k]
           \/ Leads(world'[r].door[k], Numbers(world)),
         was' \in [Builder -> Int], DOMAIN home' = Builder,
         \A b \in Builder : was'[b] # Nowhere =>
           \/ was'[b] = was[b] /\ home'[b] = home[b]
           \/ was'[b] \in DOMAIN Numbers(world) /\ Numbers(world)[was'[b]] = home'[b]
  PROVE  WaysInv'
<1>1. \A r \in DOMAIN world', k \in Dir : Leads(world'[r].door[k], Numbers(world')) BY WaysIs
<1>2. \A b \in Builder : was'[b] # Nowhere =>
        was'[b] \in DOMAIN Numbers(world') /\ Numbers(world')[was'[b]] = home'[b]
  BY WaysIs
<1> QED BY <1>1, <1>2, WaysIs, WaysNextIs

LEMMA WaysPeople ==
  ASSUME WaysInv, UNCHANGED <<scene, start, was, home>>, OnlyPeople(world', world)
  PROVE  WaysInv'
<1>1. Numbers(world') = Numbers(world) BY PeopleNumbers
<1>2. \A r \in DOMAIN world', k \in Dir : r \in DOMAIN world /\ world'[r].door[k] = world[r].door[k]
  BY DEF OnlyPeople
<1>3. was' \in [Builder -> Int] /\ DOMAIN home' = Builder BY WaysIs
<1> QED BY <1>1, <1>2, <1>3, WaysSame

LEMMA WaysMove ==
  ASSUME TablesInv, WaysInv, NEW x \in Body, NEW r \in DOMAIN world, Move(x, r)
  PROVE  WaysInv'
<1> DEFINE w == FromRoom(world, x, at[x])
<1>1. OnlyPeople(w, world) BY WorldFacts, PeopleOnly
<1>2. WorldTyped(w) BY WorldFacts, FromRoomSame DEF SameRooms
<1>3. world' = [w EXCEPT ![r].vehs = @ \cup {x}] \/ world' = [w EXCEPT ![r].here = @ \cup {x}]
  BY DEF Move
<1> HIDE DEF w
<1>4. OnlyPeople(world', w)
  <2>1. /\ OnlyPeople([w EXCEPT ![r].here = @ \cup {x}], w)
        /\ OnlyPeople([w EXCEPT ![r].vehs = @ \cup {x}], w)
    BY <1>2, PeopleOnly
  <2> QED BY <1>3, <2>1
<1>5. OnlyPeople(world', world) BY <1>1, <1>4, PeopleTwice
<1> QED BY <1>5, WaysPeople DEF Move

LEMMA WaysLoad ==
  ASSUME TablesInv, WaysInv, NEW x \in Thing, NEW i \in DOMAIN zone, Load(x, i)
  PROVE  WaysInv'
<1>1. PICK r : \/ world' = world
               \/ world' = [world EXCEPT ![r].vehs = @ \cup {x}]
               \/ world' = [world EXCEPT ![r].here = @ \cup {x}]
  BY DEF Load
<1>2. /\ OnlyPeople(world, world)
      /\ OnlyPeople([world EXCEPT ![r].here = @ \cup {x}], world)
      /\ OnlyPeople([world EXCEPT ![r].vehs = @ \cup {x}], world)
  BY WorldFacts, PeopleOnly
<1>3. OnlyPeople(world', world) BY <1>1, <1>2
<1> QED BY <1>3, WaysPeople DEF Load

LEMMA WaysExtract ==
  ASSUME TablesInv, WaysInv, NEW x, Extract(x)
  PROVE  WaysInv'
<1>1. OnlyPeople(world, world) /\ OnlyPeople(FromRoom(world, x, at[x]), world)
  BY WorldFacts, PeopleOnly
<1>2. OnlyPeople(world', world) BY <1>1 DEF Extract
<1> QED BY <1>2, WaysPeople DEF Extract

\* The room that a builder leaves is a room, and has the number he remembers.
LEMMA WaysWithdraw ==
  ASSUME TablesInv, ListedInv, WaysInv, NEW b \in Builder, NEW page, Withdraw(b, page)
  PROVE  WaysInv'
<1>1. at[b] \in DOMAIN world BY BuilderRoom DEF Withdraw
<1>2. at[b] \in Int BY WorldFacts, <1>1
<1>3. OnlyPeople(world', world) BY WorldFacts, PeopleOnly DEF Withdraw
<1>4. /\ was' = [was EXCEPT ![b] = at[b]] /\ home' = [home EXCEPT ![b] = world[at[b]].number]
      /\ UNCHANGED <<scene, start>>
  BY DEF Withdraw
<1>5. was' \in [Builder -> Int] /\ DOMAIN home' = Builder BY <1>2, <1>4, WaysIs
<1>6. Numbers(world') = Numbers(world) BY <1>3, PeopleNumbers
<1>7. \A r \in DOMAIN world', k \in Dir : r \in DOMAIN world /\ world'[r].door[k] = world[r].door[k]
  BY <1>3 DEF OnlyPeople
<1>8. ASSUME NEW c \in Builder, was'[c] # Nowhere
      PROVE  \/ was'[c] = was[c] /\ home'[c] = home[c]
             \/ was'[c] \in DOMAIN Numbers(world) /\ Numbers(world)[was'[c]] = home'[c]
  <2>1. CASE c = b
    <3>1. was'[b] = at[b] BY <1>4, WaysIs
    <3>2. home'[b] = world[at[b]].number BY <1>4, WaysIs
    <3>3. at[b] \in DOMAIN Numbers(world) /\ Numbers(world)[at[b]] = world[at[b]].number
      BY <1>1 DEF Numbers
    <3> QED BY <2>1, <3>1, <3>2, <3>3
  <2>2. CASE c # b BY <1>4, <2>2
  <2> QED BY <2>1, <2>2
<1> QED BY <1>4, <1>5, <1>6, <1>7, <1>8, WaysSame

LEMMA WaysAbort ==
  ASSUME TablesInv, WaysInv, NEW b \in Builder, Abort(b)
  PROVE  WaysInv'
<1>1. UNCHANGED <<scene, start, home>> BY DEF Abort
<1>2. CASE desk[b].mode = "room"
  <2>1. ComeBack(b, world, at, was) BY <1>2 DEF Abort
  <2>2. OnlyPeople(world', world) BY <2>1, WorldFacts, ComeBackPeople
  <2>3. was' = [was EXCEPT ![b] = Nowhere] BY <2>1 DEF ComeBack
  <2>4. was' \in [Builder -> Int] /\ DOMAIN home' = Builder BY <1>1, <2>3, WaysIs DEF Nowhere
  <2>5. \A c \in Builder : was'[c] # Nowhere => was'[c] = was[c] /\ home'[c] = home[c]
    BY <1>1, <2>3, WaysIs
  <2>6. Numbers(world') = Numbers(world) BY <2>2, PeopleNumbers
  <2>7. \A r \in DOMAIN world', k \in Dir :
          r \in DOMAIN world /\ world'[r].door[k] = world[r].door[k]
    BY <2>2 DEF OnlyPeople
  <2> QED BY <1>1, <2>4, <2>5, <2>6, <2>7, WaysSame
<1>3. CASE desk[b].mode # "room"
  <2>1. UNCHANGED <<world, was>> BY <1>3 DEF Abort
  <2>2. OnlyPeople(world', world) BY <2>1 DEF OnlyPeople
  <2> QED BY <1>1, <2>1, <2>2, WaysPeople
<1> QED BY <1>2, <1>3

\* The doors of the room that was saved are found by their numbers.
LEMMA ResolvedDoors ==
  ASSUME NEW w, WorldTyped(w), NEW n \in DOMAIN w
  PROVE  /\ DOMAIN Resolved(w, n) = DOMAIN w
         /\ \A r \in DOMAIN w : r # n => Resolved(w, n)[r].door = w[r].door
         /\ \A k \in Dir : Leads(Resolved(w, n)[n].door[k], Numbers(w))
<1> DEFINE D(k) == IF w[n].door[k] = None THEN None
                   ELSE [to |-> RealIn(Numbers(w), w[n].door[k].vnum), vnum |-> w[n].door[k].vnum]
           E == [k \in Dir |-> D(k)]
<1>1. Resolved(w, n) = [w EXCEPT ![n].door = E] BY DEF Resolved
<1>2. \A q \in DOMAIN w : w[q] \in RoomType BY DEF WorldTyped
<1>3. \A k \in Dir : Leads(D(k), Numbers(w)) BY DEF Leads
<1>4. \A k \in Dir : E[k] = D(k) OBVIOUS
<1> HIDE DEF D, E
<1>5. Resolved(w, n)[n].door = E BY <1>1, <1>2 DEF RoomType
<1> QED BY <1>1, <1>3, <1>4, <1>5

LEMMA WaysReplaceRoom ==
  ASSUME TablesInv, WaysInv, NEW b \in Builder, desk[b].mode = "room", ReplaceRoom(b)
  PROVE  WaysInv'
<1> DEFINE n == Real("room", desk[b].vnum)
           e == [desk[b].room EXCEPT !.here = world[n].here]
           w == [world EXCEPT ![n] = e]
           w2 == Resolved(w, n)
<1>1. /\ n \in DOMAIN world /\ WorldTyped(w) /\ WorldTyped(w2) /\ SameRooms(w, world)
      /\ SameRooms(w2, world) /\ ComeBack(b, w2, at, was)
  BY ReplaceRoomSame
<1>2. UNCHANGED <<scene, start, home>> BY DEF ReplaceRoom
<1> HIDE DEF n, e
<1>3. DOMAIN w = DOMAIN world /\ \A r \in DOMAIN world : r # n => w[r] = world[r] OBVIOUS
<1> HIDE DEF w
<1>4. Numbers(w) = Numbers(world) BY <1>1, WorldFacts, SameNumbers
<1>5. /\ DOMAIN w2 = DOMAIN w
      /\ \A r \in DOMAIN w : r # n => w2[r].door = w[r].door
      /\ \A k \in Dir : Leads(w2[n].door[k], Numbers(w))
  BY <1>1, <1>3, ResolvedDoors
<1>6. Numbers(w2) = Numbers(world) BY <1>1, WorldFacts, SameNumbers
<1> HIDE DEF w2
<1>7. OnlyPeople(world', w2) BY <1>1, ComeBackPeople
<1>8. Numbers(world') = Numbers(world) BY <1>6, <1>7, PeopleNumbers
<1>9. ASSUME NEW r \in DOMAIN world', NEW k \in Dir
      PROVE  \/ r \in DOMAIN world /\ world'[r].door[k] = world[r].door[k]
             \/ Leads(world'[r].door[k], Numbers(world))
  <2>1. r \in DOMAIN world /\ r \in DOMAIN w /\ world'[r].door = w2[r].door
    BY <1>3, <1>5, <1>7 DEF OnlyPeople
  <2>2. CASE r = n BY <1>4, <1>5, <2>1, <2>2
  <2>3. CASE r # n BY <1>3, <1>5, <2>1, <2>3
  <2> QED BY <2>2, <2>3
<1>10. was' = [was EXCEPT ![b] = Nowhere] BY <1>1 DEF ComeBack
<1>11. was' \in [Builder -> Int] /\ DOMAIN home' = Builder BY <1>2, <1>10, WaysIs DEF Nowhere
<1>12. \A c \in Builder : was'[c] # Nowhere => was'[c] = was[c] /\ home'[c] = home[c]
  BY <1>2, <1>10, WaysIs
<1> QED BY <1>2, <1>8, <1>9, <1>11, <1>12, WaysSame

\* The exits after room n was inserted: those to its number lead to it now.
LEMMA BumpedDoors ==
  ASSUME NEW w, WorldTyped(w), NEW n, NEW r \in DOMAIN w, NEW k \in Dir
  PROVE  BumpDoors(w, n)[r].door[k] =
           IF w[r].door[k] = None THEN None
           ELSE [to |-> IF w[r].door[k].vnum = w[n].number THEN n ELSE Bump(w[r].door[k].to, n),
                 vnum |-> w[r].door[k].vnum]
<1> DEFINE D(q) == [j \in Dir |->
     IF w[q].door[j] = None THEN None
     ELSE [to |-> IF w[q].door[j].vnum = w[n].number THEN n ELSE Bump(w[q].door[j].to, n),
           vnum |-> w[q].door[j].vnum]]
           R(q) == [w[q] EXCEPT !.door = D(q)]
<1>1. BumpDoors(w, n) = [q \in DOMAIN w |-> R(q)] BY DEF BumpDoors
<1>2. R(r).door = D(r)
  <2> HIDE DEF D
  <2>1. w[r] \in RoomType BY DEF WorldTyped
  <2> QED BY <2>1 DEF RoomType
<1> HIDE DEF R
<1>3. BumpDoors(w, n)[r].door = D(r) BY <1>1, <1>2
<1> QED BY <1>3

LEMMA WaysInsertRoom ==
  ASSUME TablesInv, WaysInv, NEW b \in Builder, desk[b].mode = "room", InsertRoom(b)
  PROVE  WaysInv'
<1> DEFINE v == desk[b].vnum
           f == Numbers(world)
           p == Place(f, v)
           e == [desk[b].room EXCEPT !.number = v]
           w == InsertAt(world, p, e)
           w1 == BumpDoors(w, p)
           w2 == Resolved(w1, p)
           g == InsertAt(f, p, v)
           place == [x \in Body |-> IF x \in Shifted(w, p) /\ at[x] # Nowhere THEN at[x] + 1 ELSE at[x]]
           back == [c \in Builder |-> Bump(was[c], p)]
<1>1. /\ v \in Nat /\ p \in 1 .. Top(world) + 1
      /\ \A r \in DOMAIN world : world[r].number # v
      /\ WorldTyped(w) /\ Numbers(w) = g
      /\ Inserted(w, world, Top(world), p, e)
      /\ SameRooms(w1, w) /\ SameRooms(w2, w1) /\ SameRooms(w2, w)
      /\ Numbers(world') = g
  BY InsertRoomWorld
<1>2. ComeBack(b, w2, place, back) /\ start' = Bump(start, p) /\ UNCHANGED <<scene, home>>
  BY DEF InsertRoom
<1>3. e.number = v BY RoomPage DEF RoomType
<1>4. /\ TableTyped(f) /\ Ascending(f) /\ DOMAIN f = 0 .. Top(world)
      /\ DOMAIN f = DOMAIN world /\ \A r \in DOMAIN world : f[r] = world[r].number
  BY WorldFacts, NumbersTyped, TableFacts DEF TableOf, Table
<1>5. /\ \A r \in DOMAIN f : Bump(r, p) \in DOMAIN g /\ g[Bump(r, p)] = f[r]
      /\ RealIn(g, v) = p
      /\ \A u \in Nat : u # v => RealIn(g, u) = Bump(RealIn(f, u), p)
  <2> HIDE DEF f, v
  <2>1. \A r \in DOMAIN f : f[r] # v BY <1>1, <1>4
  <2> QED BY <1>1, <1>4, <2>1, InsertNumber
<1>6. was' = [back EXCEPT ![b] = Nowhere] BY <1>2 DEF ComeBack
<1>7. p \in Nat /\ p > 0 BY <1>1, WorldFacts
<1> HIDE DEF w, g, e, v, place, p, f
<1>8. WorldTyped(w1) /\ WorldTyped(w2) /\ p \in DOMAIN w /\ DOMAIN w = 0 .. Top(world) + 1
  BY <1>1, WorldFacts DEF SameRooms, Inserted
<1>9. \A r \in DOMAIN w, k \in Dir : w1[r].door[k] =
           IF w[r].door[k] = None THEN None
           ELSE [to |-> IF w[r].door[k].vnum = w[p].number THEN p ELSE Bump(w[r].door[k].to, p),
                 vnum |-> w[r].door[k].vnum]
  BY <1>1, BumpedDoors
<1>10. Numbers(w1) = g /\ DOMAIN w1 = DOMAIN w BY <1>1, SameNumbers
<1> HIDE DEF w1
<1>11. /\ DOMAIN w2 = DOMAIN w1
       /\ \A r \in DOMAIN w1 : r # p => w2[r].door = w1[r].door
       /\ \A k \in Dir : Leads(w2[p].door[k], g)
  <2>1. p \in DOMAIN w1 BY <1>8, <1>10
  <2> QED BY <1>8, <1>10, <2>1, ResolvedDoors
<1> HIDE DEF w2
<1>12. OnlyPeople(world', w2) BY <1>2, <1>8, ComeBackPeople
<1>13. ASSUME NEW q \in DOMAIN world', NEW k \in Dir
       PROVE  Leads(world'[q].door[k], g)
  <2>1. q \in DOMAIN w /\ q \in DOMAIN w1 /\ world'[q].door = w2[q].door
    BY <1>10, <1>11, <1>12 DEF OnlyPeople
  <2>2. CASE q = p BY <1>11, <2>1, <2>2
  <2>3. CASE q # p
    <3>1. PICK r \in 0 .. Top(world) : q = Bump(r, p)
      <4>1. q \in 0 .. Top(world) + 1 BY <1>8, <2>1
      <4> QED BY <1>1, <2>3, <4>1 DEF Inserted
    <3>2. w[q] = world[r] /\ r \in DOMAIN world BY <1>1, <1>4, <3>1 DEF Inserted
    <3>3. Leads(world[r].door[k], f) BY <3>2, WaysIs DEF f
    <3>4. world[r].door[k] \in {None} \cup [to : Int, vnum : Nat]
      BY <3>2, WorldFacts DEF WorldTyped, RoomType
    <3>5. w[p].number = v BY <1>1, <1>3 DEF Inserted
    <3>6. world'[q].door[k] = w1[q].door[k] BY <1>11, <2>1, <2>3
    <3>7. CASE world[r].door[k] = None BY <1>9, <2>1, <3>2, <3>6, <3>7 DEF Leads
    <3>8. CASE world[r].door[k] # None
      <4> DEFINE d == world[r].door[k]
      <4>1. world'[q].door[k] = [to |-> IF d.vnum = v THEN p ELSE Bump(d.to, p), vnum |-> d.vnum]
        BY <1>9, <2>1, <3>2, <3>5, <3>6, <3>8
      <4>2. d.vnum \in Nat /\ d.to = RealIn(f, d.vnum) BY <3>3, <3>4, <3>8 DEF Leads
      <4> HIDE DEF d
      <4> QED BY <1>5, <4>1, <4>2 DEF Leads
    <3> QED BY <3>7, <3>8
  <2> QED BY <2>2, <2>3
<1>14. NothingDeleted(scene') /\ DOMAIN home' = Builder BY <1>2, WaysIs
<1>15. start' \in DOMAIN g /\ g[start'] = scene'.start
  <2>1. start \in DOMAIN f /\ f[start] = scene.start BY WaysIs DEF f
  <2> QED BY <1>2, <1>5, <2>1
<1>16. was' \in [Builder -> Int]
  <2>1. \A c \in Builder : Bump(was[c], p) \in Int BY <1>7, WaysIs DEF Bump
  <2>2. back \in [Builder -> Int] BY <2>1
  <2> HIDE DEF back
  <2> QED BY <1>6, <2>2 DEF Nowhere
<1>17. ASSUME NEW c \in Builder, was'[c] # Nowhere
       PROVE  was'[c] \in DOMAIN g /\ g[was'[c]] = home'[c]
  <2>1. c # b /\ was'[c] = Bump(was[c], p) BY <1>6, <1>17
  <2>2. was[c] # Nowhere BY <1>7, <1>17, <2>1 DEF Bump, Nowhere
  <2>3. was[c] \in DOMAIN f /\ f[was[c]] = home[c] BY <2>2, WaysIs DEF f
  <2> QED BY <1>2, <1>5, <2>1, <2>3
<1> QED BY <1>1, <1>13, <1>14, <1>15, <1>16, <1>17, WaysNextIs

LEMMA WaysDig ==
  ASSUME TablesInv, WaysInv, NEW b \in Builder, NEW k \in Dir, NEW v, Dig(b, k, v), at[b] \in DOMAIN world
  PROVE  WaysInv'
<1> DEFINE h == at[b]
           n == Real("room", v)
           f == Numbers(world)
           exit(r) == [to |-> r, vnum |-> world[r].number]
           D == [world[h].door EXCEPT ![k] = exit(n)]
           there == [world EXCEPT ![h].door = D]
           E == [there[n].door EXCEPT ![Rev(k)] = exit(h)]
<1>1. world' = [there EXCEPT ![n].door = E] /\ UNCHANGED <<scene, start, was, home>>
      /\ n # Nowhere
  BY DEF Dig
<1>2. Numbers(world') = f
  <2>1. OnlyDoors(world', world) BY DigWorld
  <2> QED BY <2>1 DEF OnlyDoors, Numbers
<1>3. TableTyped(f) /\ Ascending(f) /\ DOMAIN f = DOMAIN world /\ \A r \in DOMAIN world : f[r] = world[r].number
  BY WorldFacts, NumbersTyped, TableFacts DEF TableOf, Table
<1>4. n \in DOMAIN world
  <2>1. n = RealIn(f, v) BY DEF Real, TableOf
  <2> HIDE DEF n, f
  <2> QED BY <1>1, <1>3, <2>1, RealInOf
<1>5. ASSUME NEW r \in DOMAIN world PROVE Leads(exit(r), f)
  <2> HIDE DEF f
  <2>1. RealIn(f, f[r]) = r BY <1>3, RealInIs
  <2> QED BY <1>3, <2>1 DEF Leads
<1>6. Leads(exit(n), f) /\ Leads(exit(h), f)
  <2> HIDE DEF n, f
  <2> QED BY <1>4, <1>5
<1> DEFINE en == exit(n)
           eh == exit(h)
<1>7. \A r \in DOMAIN world : world[r] \in RoomType BY WorldFacts DEF WorldTyped
<1> HIDE DEF n, h, f, exit
<1>8. \A r \in DOMAIN world, j \in Dir :
        world'[r].door[j] = world[r].door[j] \/ world'[r].door[j] = en \/ world'[r].door[j] = eh
  <2> HIDE DEF en, eh
  <2>1. D = [world[h].door EXCEPT ![k] = en] /\ E = [there[n].door EXCEPT ![Rev(k)] = eh]
    BY DEF en, eh
  <2>2. \A r \in DOMAIN world : there[r].door = IF r = h THEN D ELSE world[r].door
    <3> HIDE DEF D
    <3> QED BY <1>7 DEF RoomType
  <2>3. \A r \in DOMAIN world : world'[r].door = IF r = n THEN E ELSE there[r].door
    <3> HIDE DEF D, E
    <3> QED BY <1>1, <1>7 DEF RoomType
  <2>4. \A r \in DOMAIN world : DOMAIN world[r].door = Dir BY <1>7 DEF RoomType
  <2> HIDE DEF there
  <2>5. \A r \in DOMAIN world : DOMAIN there[r].door = Dir /\
          \A j \in Dir : there[r].door[j] = world[r].door[j] \/ there[r].door[j] = en
    BY <2>1, <2>2, <2>4
  <2>6. \A r \in DOMAIN world, j \in Dir : world'[r].door[j] = there[r].door[j] \/ world'[r].door[j] = eh
    BY <2>1, <2>3, <2>5
  <2> QED BY <2>5, <2>6
<1>9. DOMAIN world' = DOMAIN world BY <1>1
<1>10. was' \in [Builder -> Int] /\ DOMAIN home' = Builder BY <1>1, WaysIs
<1> QED BY <1>1, <1>2, <1>6, <1>8, <1>9, <1>10, WaysSame DEF f, en, eh

LEMMA WaysInit ==
  ASSUME Init, NothingDeleted(scene)
  PROVE  WaysInv
<1>1. /\ WorldTyped(world) /\ start \in DOMAIN world /\ world[start].number = scene.start
      /\ \A r \in DOMAIN world : world[r].door = NoDoors
  BY BootWorld
<1>2. was = [b \in Builder |-> Nowhere] /\ home = [b \in Builder |-> 0] BY DEF Init
<1>3. was \in [Builder -> Int] /\ DOMAIN home = Builder BY <1>2 DEF Nowhere
<1>4. start \in DOMAIN Numbers(world) /\ Numbers(world)[start] = scene.start
  BY <1>1 DEF Numbers
<1>5. \A r \in DOMAIN world, k \in Dir : Leads(world[r].door[k], Numbers(world))
  BY <1>1 DEF NoDoors, Leads
<1>6. \A b \in Builder : was[b] = Nowhere BY <1>2
<1> QED BY <1>3, <1>4, <1>5, <1>6, WaysIs

LEMMA WaysQuiet ==
  ASSUME WaysInv, UNCHANGED <<scene, world, start, was, home>>
  PROVE  WaysInv'
  BY WaysPeople DEF OnlyPeople

LEMMA WaysEdit ==
  ASSUME TablesInv, ListedInv, WaysInv, NEW b \in Builder, Edit(b)
  PROVE  WaysInv'
<1>1. CASE \E v \in Vnum : Redit(b, v)
  <2>1. \E page : Withdraw(b, page) BY <1>1 DEF Redit
  <2> QED BY <2>1, WaysWithdraw
<1>2. CASE \E u, v \in Vnum : "rclone" \in scene.cmds[b] /\ Rclone(b, u, v)
  <2>1. \E page : Withdraw(b, page) BY <1>2 DEF Rclone
  <2> QED BY <2>1, WaysWithdraw
<1>3. CASE \E k \in Dir, v \in scene.exits : SetExit(b, k, v) BY <1>3, WaysQuiet DEF SetExit
<1>4. CASE \E k \in Dir : ClearExit(b, k) BY <1>4, WaysQuiet DEF ClearExit
<1>5. CASE SaveRoom(b) BY <1>5, WaysReplaceRoom, WaysInsertRoom DEF SaveRoom
<1>6. CASE \E k \in Proto, v \in Vnum : Open(b, k, v) BY <1>6, WaysQuiet DEF Open
<1>7. CASE SaveProto(b) BY <1>7, WaysQuiet DEF SaveProto
<1>8. CASE Abort(b) BY <1>8, WaysAbort
<1>9. CASE \E k \in Dir, v \in scene.exits : Dig(b, k, v)
  <2>1. PICK k \in Dir, v \in scene.exits : Dig(b, k, v) BY <1>9
  <2>2. at[b] \in DOMAIN world BY <2>1, BuilderRoom DEF Dig
  <2> QED BY <2>1, <2>2, WaysDig
<1>10. CASE \E v \in scene.delete : Rdelete(b, v) BY <1>10 DEF WaysInv, NothingDeleted
<1>11. CASE \E i \in 0 .. scene.max, how \in {"edit", "insert", "add"} : Zedit(b, i, how)
  BY <1>11, WaysQuiet DEF Zedit
<1>12. CASE \E l \in Letter : ZeditType(b, l) BY <1>12, WaysQuiet DEF ZeditType
<1>13. CASE \E j \in 1..3, v \in Vnum : ZeditArg(b, j, v) BY <1>13, WaysQuiet DEF ZeditArg
<1>14. CASE ZeditSave(b) BY <1>14, WaysQuiet DEF ZeditSave
<1> QED BY <1>1, <1>2, <1>3, <1>4, <1>5, <1>6, <1>7, <1>8, <1>9, <1>10, <1>11, <1>12, <1>13, <1>14
    DEF Edit

LEMMA WaysNext ==
  ASSUME TablesInv, ListedInv, WaysInv, [Next]_vars
  PROVE  WaysInv'
<1>1. ASSUME NEW b \in Builder, Edit(b) PROVE WaysInv' BY <1>1, WaysEdit
<1>2. ASSUME NEW x \in scene.things, Live(x) PROVE WaysInv'
  BY <1>2, LiveSteps, WaysLoad, WaysExtract
<1>3. ASSUME NEW x \in Body, NEW r \in DOMAIN world, Move(x, r) PROVE WaysInv'
  BY <1>3, WaysMove
<1>4. CASE UNCHANGED vars BY <1>4, WaysQuiet DEF vars
<1> QED BY <1>1, <1>2, <1>3, <1>4 DEF Next

\* Under the conditions of TablesAlways, and as long as no room is deleted,
\* every exit leads to the room of its number
\* (or nowhere while there is none), the start room stays the start room, and
\* a builder comes back from his editor to the room he left, whatever rooms
\* were inserted meanwhile (redit.cpp).
THEOREM WaysTrueAlways ==
  Spec /\ FirstKept(scene) /\ OneMaker(scene) /\ NothingDeleted(scene) => []WaysTrue
<1> DEFINE I == TablesInv /\ ListedInv /\ WaysInv
<1>1. Init /\ FirstKept(scene) /\ OneMaker(scene) /\ NothingDeleted(scene) => I
  BY TablesInit, WaysInit
<1>2. I /\ [Next]_vars => I' BY TablesNext, WaysNext
<1>3. I => WaysTrue BY DEF WaysInv
<1> QED BY <1>1, <1>2, <1>3, PTL DEF Spec

-----------------------------------------------------------------------------
(* What instances and commands name.                                       *)

LEMMA TablesAre ==
  /\ \A k \in Table : Tables[k] = TableOf(k)
  /\ \A k \in Table : Tables'[k] = TableOf(k)'
  /\ \A k \in Proto : Tables[k] = index[k] /\ Tables'[k] = index'[k]
  /\ Tables["room"] = Numbers(world) /\ Tables'["room"] = Numbers(world')
  /\ Proto \subseteq Table /\ "room" \in Table
<1>1. /\ \A k \in Table : Tables[k] = TableOf(k)
      /\ \A k \in Table : Tables'[k] = TableOf(k)'
  BY DEF Tables
<1>2. Proto \subseteq Table /\ "room" \in Table BY DEF Table
<1> QED BY <1>1, <1>2 DEF TableOf, Proto

LEMMA NamesHold ==
  ASSUME NamesInv PROVE NamesTrue
<1>1. ASSUME NEW x \in Thing, inst[x] # None
      PROVE  Names(inst[x].kind, inst[x].nr, inst[x].isa)
  <2>1. /\ inst[x] \in [kind : {"mob", "obj"}, nr : Int, isa : Nat]
        /\ inst[x].nr \in DOMAIN Tables[inst[x].kind]
        /\ Tables[inst[x].kind][inst[x].nr] = inst[x].isa
    BY <1>1 DEF NamesInv, InstanceOf
  <2>2. inst[x].kind \in Table BY <2>1 DEF Table, Proto
  <2> QED BY <2>1, <2>2, TablesAre DEF Names
<1>2. ASSUME NEW i \in DOMAIN zone, NEW j \in 1..3,
             RefTable(zone[i].letter, j) # "none", zone[i].letter \notin {"S", "V", "U"}
      PROVE  Names(RefTable(zone[i].letter, j), zone[i].arg[j], zone[i].means[j])
  <2> DEFINE k == RefTable(zone[i].letter, j)
  <2>1. zone[i].arg[j] \in DOMAIN Tables[k] /\ Tables[k][zone[i].arg[j]] = zone[i].means[j]
    BY <1>2 DEF NamesInv, FaithfulTo
  <2>2. k \in Table BY <1>2, RefTableIs
  <2> HIDE DEF k
  <2>3. Tables[k] = TableOf(k) BY <2>2, TablesAre
  <2> QED BY <2>1, <2>3 DEF Names, k
<1> QED BY <1>1, <1>2 DEF NamesTrue, InstancesNamed, CommandsTrue

\* A step that leaves the numbers as they are.
LEMMA NamesSame ==
  ASSUME NamesInv, scene' = scene, \A k \in Table : TableOf(k)' = TableOf(k),
         DOMAIN inst' = Thing, \A x \in Thing : InstanceOf(Tables, inst'[x]),
         \A i \in DOMAIN zone' : FaithfulTo(Tables, zone'[i]),
         \A b \in Builder : desk'[b].mode = "cmd" => FaithfulTo(Tables, desk'[b].cmd)
  PROVE  NamesInv'
<1>1. Tables' = Tables BY DEF Tables
<1>2. WritesAlone(scene') /\ NoVehicles(scene') BY DEF NamesInv
<1> QED BY <1>1, <1>2 DEF NamesInv

LEMMA NamesQuiet ==
  ASSUME NamesInv, UNCHANGED <<scene, inst, zone>>, \A k \in Table : TableOf(k)' = TableOf(k),
         \A b \in Builder : desk'[b].mode = "cmd" =>
            desk'[b] = desk[b] \/ FaithfulTo(Tables, desk'[b].cmd)
  PROVE  NamesInv'
<1>1. /\ DOMAIN inst = Thing /\ \A x \in Thing : InstanceOf(Tables, inst[x])
      /\ \A i \in DOMAIN zone : FaithfulTo(Tables, zone[i])
      /\ \A b \in Builder : desk[b].mode = "cmd" => FaithfulTo(Tables, desk[b].cmd)
  BY DEF NamesInv
<1>2. \A b \in Builder : desk'[b].mode = "cmd" => FaithfulTo(Tables, desk'[b].cmd) BY <1>1
<1> QED BY <1>1, <1>2, NamesSame

\* A step at a desk that ends with no command on it.
LEMMA NamesDesk ==
  ASSUME TablesInv, NamesInv, UNCHANGED <<scene, inst, zone>>, \A k \in Table : TableOf(k)' = TableOf(k),
         NEW b \in Builder, NEW page, desk' = [desk EXCEPT ![b] = page],
         page.mode = "cmd" => FaithfulTo(Tables, page.cmd)
  PROVE  NamesInv'
<1>1. \A c \in Builder : desk'[c] = IF c = b THEN page ELSE desk[c] BY PageFacts
<1>2. \A c \in Builder : desk'[c].mode = "cmd" =>
            desk'[c] = desk[c] \/ FaithfulTo(Tables, desk'[c].cmd)
  BY <1>1
<1> QED BY <1>2, NamesQuiet

LEMMA NamesLoad ==
  ASSUME TablesInv, NamesInv, NEW x \in Thing, NEW i \in DOMAIN zone, Load(x, i)
  PROVE  NamesInv'
<1>1. \A k \in Table : TableOf(k)' = TableOf(k) BY TablesLoad
<1>2. UNCHANGED <<scene, zone, desk>> BY DEF Load
<1> DEFINE c == zone[i]
           k == RefTable(c.letter, 1)
           e == [kind |-> k, nr |-> c.arg[1], isa |-> index[k][c.arg[1]]]
<1>3. k \in Proto /\ inst' = [inst EXCEPT ![x] = e] BY DEF Load
<1>4. c.letter # "V" /\ c.arg[1] \in DOMAIN Tables[k]
  BY <1>3 DEF NamesInv, FaithfulTo
<1>5. k \in {"mob", "obj"} BY <1>3, <1>4 DEF RefTable, Proto
<1> HIDE DEF c, k
<1>6. Tables[k] = index[k] /\ TableTyped(index[k]) BY <1>3, TablesAre DEF TablesInv, Typed
<1>7. c.arg[1] \in Int /\ index[k][c.arg[1]] \in Nat BY <1>4, <1>6 DEF TableTyped
<1>8. InstanceOf(Tables, e) BY <1>4, <1>5, <1>6, <1>7 DEF InstanceOf
<1> HIDE DEF e
<1>9. DOMAIN inst' = Thing /\ \A y \in Thing : InstanceOf(Tables, inst'[y])
  BY <1>3, <1>8 DEF NamesInv
<1> QED BY <1>1, <1>2, <1>9, NamesSame DEF NamesInv

LEMMA NamesExtract ==
  ASSUME TablesInv, NamesInv, NEW x \in Thing, Extract(x)
  PROVE  NamesInv'
<1>1. \A k \in Table : TableOf(k)' = TableOf(k) BY TablesExtract
<1>2. UNCHANGED <<scene, zone, desk>> /\ inst' = [inst EXCEPT ![x] = None] BY DEF Extract
<1>3. InstanceOf(Tables, None) BY DEF InstanceOf
<1>4. DOMAIN inst' = Thing /\ \A y \in Thing : InstanceOf(Tables, inst'[y])
  BY <1>2, <1>3 DEF NamesInv
<1> QED BY <1>1, <1>2, <1>4, NamesSame DEF NamesInv

LEMMA BlankFaithful == FaithfulTo(Tables, Blank)
  BY BlankTyped DEF FaithfulTo, Blank, Proto

LEMMA NamesZedit ==
  ASSUME TablesInv, NamesInv, NEW b \in Builder, NEW i \in 0 .. scene.max,
         NEW how \in {"edit", "insert", "add"}, Zedit(b, i, how)
  PROVE  NamesInv'
<1> DEFINE c == IF how = "edit" THEN zone[i] ELSE Blank
           page == [mode |-> "cmd", nr |-> i, insert |-> how = "insert", cmd |-> c]
<1>1. FaithfulTo(Tables, c)
  <2>1. how = "edit" => i \in DOMAIN zone BY DEF Zedit
  <2> QED BY <2>1, BlankFaithful DEF NamesInv
<1>2. \A k \in Table : TableOf(k)' = TableOf(k) BY TablesZedit
<1>3. UNCHANGED <<scene, inst, zone>> /\ desk' = [desk EXCEPT ![b] = page] BY DEF Zedit
<1> HIDE DEF c
<1>4. page.cmd = c OBVIOUS
<1> HIDE DEF page
<1> QED BY <1>1, <1>2, <1>3, <1>4, NamesDesk

\* The command on the desk is replaced by a faithful one.
LEMMA NamesCmd ==
  ASSUME TablesInv, NamesInv, NEW b \in Builder, NEW c, FaithfulTo(Tables, c),
         desk[b].mode = "cmd", desk' = [desk EXCEPT ![b].cmd = c],
         UNCHANGED <<scene, inst, zone>>, \A k \in Table : TableOf(k)' = TableOf(k)
  PROVE  NamesInv'
<1> DEFINE page == [desk[b] EXCEPT !.cmd = c]
<1>1. desk[b] \in [mode : {"cmd"}, nr : Nat, insert : BOOLEAN, cmd : CmdType]
  BY PageFacts DEF PageTyped
<1>2. page.cmd = c BY <1>1
<1>3. desk' = [desk EXCEPT ![b] = page] OBVIOUS
<1> HIDE DEF page
<1> QED BY <1>2, <1>3, NamesDesk

LEMMA NamesZeditType ==
  ASSUME TablesInv, NamesInv, NEW b \in Builder, NEW l \in Letter, ZeditType(b, l)
  PROVE  NamesInv'
<1> DEFINE M == [j \in 1..3 |-> IF RefTable(l, j) = "none" THEN 0 ELSE TableOf(RefTable(l, j))[0]]
           c == [Zblank(l) EXCEPT !.means = M]
<1>1. Answerable(l) /\ l # "V" BY DEF TablesInv, ZeditType, NamesInv, NoVehicles
<1>2. c.letter = l /\ c.means = M /\ \A j \in 1..3 : c.arg[j] = 0
  <2> HIDE DEF M
  <2> QED BY DEF Zblank, Blank
<1>3. ASSUME NEW j \in 1..3, RefTable(l, j) # "none"
      PROVE  0 \in DOMAIN Tables[RefTable(l, j)] /\ Tables[RefTable(l, j)][0] = M[j]
  <2>1. 0 \in DOMAIN TableOf(RefTable(l, j)) BY <1>1, <1>3 DEF Answerable
  <2>2. Tables[RefTable(l, j)] = TableOf(RefTable(l, j)) BY <1>3, RefTableIs, TablesAre
  <2> QED BY <1>3, <2>1, <2>2
<1>4. desk[b].mode = "cmd" BY DEF ZeditType
<1>5. desk' = [desk EXCEPT ![b].cmd = c] BY DEF ZeditType, M
<1> HIDE DEF c, M
<1>6. FaithfulTo(Tables, c)
  <2>1. "none" \notin Proto BY DEF Proto
  <2> QED BY <1>1, <1>2, <1>3, <2>1 DEF FaithfulTo
<1>7. \A k \in Table : TableOf(k)' = TableOf(k) BY TablesZeditType
<1>8. UNCHANGED <<scene, inst, zone>> BY DEF ZeditType
<1> QED BY <1>4, <1>5, <1>6, <1>7, <1>8, NamesCmd

LEMMA NamesZeditArg ==
  ASSUME TablesInv, NamesInv, NEW b \in Builder, NEW j \in 1..3, NEW v, ZeditArg(b, j, v)
  PROVE  NamesInv'
<1> DEFINE k == RefTable(desk[b].cmd.letter, j)
           n == IF Real(k, v) > 0 THEN Real(k, v) ELSE 0
           T == TableOf(k)[n]
           c == [desk[b].cmd EXCEPT !.arg[j] = n, !.means[j] = T]
<1>1. desk[b].mode = "cmd" /\ k # "none" BY DEF ZeditArg
<1>2. /\ desk[b] \in [mode : {"cmd"}, nr : Nat, insert : BOOLEAN, cmd : CmdType]
      /\ Allowed(b, desk[b])
  BY <1>1, PageFacts DEF PageTyped
<1>3. /\ Answerable(desk[b].cmd.letter) /\ desk[b].cmd \in CmdType
      /\ FaithfulTo(Tables, desk[b].cmd)
  BY <1>1, <1>2 DEF Allowed, NamesInv
<1>4. k \in Table /\ 0 \in DOMAIN TableOf(k) BY <1>1, <1>3, RefTableIs DEF Answerable
<1>5. n \in DOMAIN TableOf(k)
  <2> HIDE DEF k
  <2> QED BY <1>4, TypedNumber
<1>6. Tables[k] = TableOf(k)
  <2> HIDE DEF k
  <2> QED BY <1>4, TablesAre
<1>7. desk' = [desk EXCEPT ![b].cmd = c] BY DEF ZeditArg
<1>8. UNCHANGED <<scene, inst, zone>> BY DEF ZeditArg
<1>9. \A t \in Table : TableOf(t)' = TableOf(t) BY TablesZeditArg
<1>10. /\ c.letter = desk[b].cmd.letter
       /\ \A h \in 1..3 : c.arg[h] = IF h = j THEN n ELSE desk[b].cmd.arg[h]
       /\ \A h \in 1..3 : c.means[h] = IF h = j THEN T ELSE desk[b].cmd.means[h]
  <2> HIDE DEF n, T
  <2> QED BY <1>3 DEF CmdType
<1> HIDE DEF c
<1>11. FaithfulTo(Tables, c)
  <2>1. n \in DOMAIN Tables[k] /\ Tables[k][n] = T BY <1>5, <1>6
  <2> HIDE DEF n, T
  <2> QED BY <1>3, <1>10, <2>1, SMTT(30) DEF FaithfulTo
<1> QED BY <1>1, <1>7, <1>8, <1>9, <1>11, NamesCmd

LEMMA NamesZeditSave ==
  ASSUME TablesInv, NamesInv, NEW b \in Builder, ZeditSave(b)
  PROVE  NamesInv'
<1>1. \A t \in Table : TableOf(t)' = TableOf(t) BY TablesZeditSave
<1>2. /\ \A i \in DOMAIN zone' : zone'[i] = desk[b].cmd \/ \E h \in DOMAIN zone : zone'[i] = zone[h]
      /\ desk[b].mode = "cmd"
  BY ZoneSaved
<1>3. \A i \in DOMAIN zone' : FaithfulTo(Tables, zone'[i]) BY <1>2 DEF NamesInv
<1>4. UNCHANGED <<scene, inst>> /\ desk' = [desk EXCEPT ![b] = Playing] BY DEF ZeditSave
<1>5. \A c \in Builder : desk'[c].mode = "cmd" => desk'[c] = desk[c]
  BY <1>4, PageFacts DEF Playing
<1>6. \A c \in Builder : desk'[c].mode = "cmd" => FaithfulTo(Tables, desk'[c].cmd)
  BY <1>5 DEF NamesInv
<1> QED BY <1>1, <1>3, <1>4, <1>6, NamesSame DEF NamesInv

\* What the editors renumber is what the letters that they know refer to.
LEMMA RenumberedIs ==
  /\ \A t \in Table, l \in Letter \ {"S", "U", "V"}, j \in 1..3 :
       <<l, j>> \in Renumbered(t) <=> RefTable(l, j) = t
  /\ \A t \in Table, l \in {"S", "U"}, j \in 1..3 : <<l, j>> \notin Renumbered(t)
<1>1. ASSUME NEW l \in Letter \ {"S", "U", "V"}, NEW j \in 1..3
      PROVE  /\ <<l, j>> \in Renumbered("room") <=> RefTable(l, j) = "room"
             /\ <<l, j>> \in Renumbered("mob") <=> RefTable(l, j) = "mob"
             /\ <<l, j>> \in Renumbered("obj") <=> RefTable(l, j) = "obj"
             /\ <<l, j>> \in Renumbered("veh") <=> RefTable(l, j) = "veh"
  BY DEF Letter, Renumbered, RefTable
<1>2. ASSUME NEW l \in {"S", "U"}, NEW j \in 1..3
      PROVE  /\ <<l, j>> \notin Renumbered("room") /\ <<l, j>> \notin Renumbered("mob")
             /\ <<l, j>> \notin Renumbered("obj") /\ <<l, j>> \notin Renumbered("veh")
  BY DEF Renumbered
<1> QED BY <1>1, <1>2 DEF Table, Proto

\* An instance or a command that was faithful is, once it is renumbered,
\* faithful to the table with an entry more.
LEMMA FaithfulInserted ==
  ASSUME NEW t \in Table, NEW p \in Nat, NEW T, NEW U,
         \A k \in Table \ {t} : U[k] = T[k],
         DOMAIN T[t] \subseteq DOMAIN U[t],
         \A r \in DOMAIN T[t] : Bump(r, p) \in DOMAIN U[t] /\ U[t][Bump(r, p)] = T[t][r],
         NEW c, c.letter \in Letter, FaithfulTo(T, c),
         NEW d, d.letter = c.letter, d.means = c.means,
         \A j \in 1..3 : d.arg[j] =
            IF <<c.letter, j>> \in Renumbered(t) THEN Bump(c.arg[j], p) ELSE c.arg[j]
  PROVE  FaithfulTo(U, d)
<1>1. d.letter # "V" BY DEF FaithfulTo
<1>2. ASSUME NEW j \in 1..3, RefTable(c.letter, j) # "none", c.letter \notin {"S", "U"}
      PROVE  LET k == RefTable(c.letter, j) IN
             d.arg[j] \in DOMAIN U[k] /\ U[k][d.arg[j]] = d.means[j]
  <2>1. PICK k \in Table : k = RefTable(c.letter, j) BY <1>2, RefTableIs
  <2>2. c.arg[j] \in DOMAIN T[k] /\ T[k][c.arg[j]] = c.means[j] BY <1>2, <2>1 DEF FaithfulTo
  <2>3. <<c.letter, j>> \in Renumbered(t) <=> k = t
    <3>1. c.letter \in Letter \ {"S", "U", "V"} BY <1>1, <1>2
    <3> QED BY <2>1, <3>1, RenumberedIs
  <2>4. CASE k = t BY <2>1, <2>2, <2>3, <2>4
  <2>5. CASE k # t BY <2>1, <2>2, <2>3, <2>5
  <2> QED BY <2>4, <2>5
<1>3. ASSUME RefTable(c.letter, 1) \in Proto
      PROVE  d.arg[1] \in DOMAIN U[RefTable(c.letter, 1)]
  <2>1. PICK k \in Proto : k = RefTable(c.letter, 1) BY <1>3
  <2>2. c.arg[1] \in DOMAIN T[k] BY <2>1 DEF FaithfulTo
  <2>3. k \in Table BY DEF Table
  <2>4. CASE k = t BY <2>1, <2>2, <2>4
  <2>5. CASE k # t
    <3>1. <<c.letter, 1>> \notin Renumbered(t)
      <4>1. CASE c.letter \in {"S", "U"} BY <4>1, RenumberedIs
      <4>2. CASE c.letter \notin {"S", "U"}
        <5>1. c.letter \in Letter \ {"S", "U", "V"} BY <1>1, <4>2
        <5> QED BY <2>1, <2>5, <5>1, RenumberedIs
      <4> QED BY <4>1, <4>2
    <3> QED BY <2>1, <2>2, <2>3, <2>5, <3>1
  <2> QED BY <2>4, <2>5
<1> QED BY <1>1, <1>2, <1>3 DEF FaithfulTo

\* Nobody is writing a command while somebody inserts or deletes.
LEMMA NobodyWrites ==
  ASSUME TablesInv, NamesInv, NEW b \in Builder, desk[b].mode # "cmd",
         scene.edit[b] # {} \/ scene.cmds[b] # {}, NEW c \in Builder
  PROVE  desk[c].mode # "cmd"
<1>1. Allowed(c, desk[c]) BY PageFacts
<1> QED BY <1>1 DEF Allowed, NamesInv, WritesAlone

LEMMA NamesInserted ==
  ASSUME TablesInv, NamesInv, scene' = scene, NEW t \in Table, NEW v \in Nat, NEW p \in Nat,
         p = Place(TableOf(t), v),
         \A r \in DOMAIN TableOf(t) : TableOf(t)[r] # v,
         TableOf(t)' = InsertAt(TableOf(t), p, v),
         \A k \in Table \ {t} : TableOf(k)' = TableOf(k),
         zone' = RenumberZone(t, p),
         DOMAIN inst' = Thing,
         \A x \in Thing : inst'[x] = IF inst[x] # None /\ inst[x].kind = t
                                     THEN [inst[x] EXCEPT !.nr = Bump(@, p)] ELSE inst[x],
         \A b \in Builder : desk'[b].mode # "cmd"
  PROVE  NamesInv'
<1> DEFINE f == TableOf(t)
           g == InsertAt(f, p, v)
<1>1. TableTyped(f) /\ Ascending(f) BY TableFacts
<1>2. /\ TableTyped(g) /\ Top(g) = Top(f) + 1
      /\ \A r \in DOMAIN f : Bump(r, p) \in DOMAIN g /\ g[Bump(r, p)] = f[r]
  <2> HIDE DEF f
  <2>1. \A r \in DOMAIN f : f[r] # v /\ p = Place(f, v) BY DEF f
  <2> QED BY <1>1, <2>1, InsertNumber DEF f
<1>3. Tables[t] = f /\ Tables'[t] = g /\ \A k \in Table \ {t} : Tables'[k] = Tables[k]
  BY TablesAre
<1> HIDE DEF f, g
<1>4. DOMAIN f \subseteq DOMAIN g /\ \A r \in DOMAIN f : r \in Nat BY <1>1, <1>2 DEF TableTyped
<1>5. /\ DOMAIN Tables[t] \subseteq DOMAIN Tables'[t]
      /\ \A r \in DOMAIN Tables[t] : /\ Bump(r, p) \in DOMAIN Tables'[t]
                                     /\ Tables'[t][Bump(r, p)] = Tables[t][r]
  BY <1>2, <1>3, <1>4
<1>6. /\ DOMAIN zone' = DOMAIN zone
      /\ \A i \in DOMAIN zone :
           /\ zone'[i].letter = zone[i].letter /\ zone'[i].means = zone[i].means
           /\ \A j \in 1..3 : zone'[i].arg[j] =
                IF <<zone[i].letter, j>> \in Renumbered(t) THEN Bump(zone[i].arg[j], p)
                ELSE zone[i].arg[j]
  BY RenumberedZone
<1>7. ASSUME NEW i \in DOMAIN zone' PROVE FaithfulTo(Tables', zone'[i])
  <2>1. zone[i] \in CmdType /\ FaithfulTo(Tables, zone[i])
    BY <1>6 DEF TablesInv, Typed, NamesInv
  <2>2. zone[i].letter \in Letter BY <2>1 DEF CmdType
  <2>3. PICK T, U, c, d : T = Tables /\ U = Tables' /\ c = zone[i] /\ d = zone'[i] OBVIOUS
  <2>4. /\ \A k \in Table \ {t} : U[k] = T[k]
        /\ DOMAIN T[t] \subseteq DOMAIN U[t]
        /\ \A r \in DOMAIN T[t] : Bump(r, p) \in DOMAIN U[t] /\ U[t][Bump(r, p)] = T[t][r]
    BY <1>3, <1>5, <2>3
  <2>5. c.letter \in Letter /\ FaithfulTo(T, c) BY <2>1, <2>2, <2>3
  <2>6. i \in DOMAIN zone BY <1>6
  <2>7. /\ d.letter = c.letter /\ d.means = c.means
        /\ \A j \in 1..3 : d.arg[j] =
             IF <<c.letter, j>> \in Renumbered(t) THEN Bump(c.arg[j], p) ELSE c.arg[j]
    BY <1>6, <2>3, <2>6
  <2>8. FaithfulTo(U, d) BY <2>4, <2>5, <2>7, FaithfulInserted
  <2> QED BY <2>3, <2>8
<1>8. ASSUME NEW x \in Thing PROVE InstanceOf(Tables', inst'[x])
  <2>0. InstanceOf(Tables, inst[x]) BY DEF NamesInv
  <2> SUFFICES ASSUME inst'[x] # None
               PROVE  /\ inst'[x] \in [kind : {"mob", "obj"}, nr : Int, isa : Nat]
                      /\ inst'[x].nr \in DOMAIN Tables'[inst'[x].kind]
                      /\ Tables'[inst'[x].kind][inst'[x].nr] = inst'[x].isa
    BY DEF InstanceOf
  <2>1. inst[x] # None OBVIOUS
  <2>2. /\ inst[x] \in [kind : {"mob", "obj"}, nr : Int, isa : Nat]
        /\ inst[x].nr \in DOMAIN Tables[inst[x].kind]
        /\ Tables[inst[x].kind][inst[x].nr] = inst[x].isa
    BY <2>0, <2>1 DEF InstanceOf
  <2>3. CASE inst[x].kind = t
    <3>1. Bump(inst[x].nr, p) \in Int BY <2>2 DEF Bump
    <3>2. PICK m \in Int : m = Bump(inst[x].nr, p) BY <3>1
    <3>3. inst'[x] = [inst[x] EXCEPT !.nr = m] BY <2>1, <2>3, <3>2
    <3>4. /\ inst'[x] \in [kind : {"mob", "obj"}, nr : Int, isa : Nat]
          /\ inst'[x].kind = t /\ inst'[x].nr = m /\ inst'[x].isa = inst[x].isa
      BY <2>2, <2>3, <3>3
    <3>5. m \in DOMAIN Tables'[t] /\ Tables'[t][m] = inst[x].isa
      BY <1>5, <2>2, <2>3, <3>2
    <3> QED BY <3>4, <3>5
  <2>4. CASE inst[x].kind # t
    <3>1. inst'[x] = inst[x] /\ inst[x].kind \in Table BY <2>2, <2>4 DEF Table, Proto
    <3> QED BY <1>3, <2>2, <2>4, <3>1
  <2> QED BY <2>3, <2>4
<1>9. WritesAlone(scene') /\ NoVehicles(scene') BY DEF NamesInv
<1> QED BY <1>7, <1>8, <1>9 DEF NamesInv

LEMMA NamesInsertRoom ==
  ASSUME TablesInv, NamesInv, NEW b \in Builder, desk[b].mode = "room", InsertRoom(b)
  PROVE  NamesInv'
<1>a. PICK v : v = desk[b].vnum OBVIOUS
<1>b. PICK p : p = Place(Numbers(world), v) OBVIOUS
<1>1. /\ v \in Nat /\ p \in 1 .. Top(world) + 1 /\ \A r \in DOMAIN world : world[r].number # v
      /\ Numbers(world') = InsertAt(Numbers(world), p, v)
  BY <1>a, <1>b, InsertRoomWorld
<1>2. p \in Nat BY <1>1, WorldFacts
<1>3. /\ UNCHANGED <<scene, index, inst>> /\ desk' = [desk EXCEPT ![b] = Playing]
      /\ zone' = RenumberZone("room", p)
  BY <1>a, <1>b DEF InsertRoom, ComeBack
<1>4. TableOf("room") = Numbers(world) /\ TableOf("room")' = Numbers(world') BY DEF TableOf
<1>5. \A k \in Table \ {"room"} : TableOf(k)' = TableOf(k) BY <1>3 DEF TableOf
<1>6. \A r \in DOMAIN TableOf("room") : TableOf("room")[r] # v BY <1>1, <1>4, WorldFacts, NumbersTyped
<1>7. \A c \in Builder : desk'[c].mode # "cmd"
  <2>1. scene.edit[b] # {} BY RoomPage
  <2>2. \A c \in Builder : desk[c].mode # "cmd" BY <2>1, NobodyWrites
  <2> QED BY <1>3, <2>2, PageFacts DEF Playing
<1>8. /\ DOMAIN inst' = Thing
      /\ \A x \in Thing : inst'[x] = IF inst[x] # None /\ inst[x].kind = "room"
                                     THEN [inst[x] EXCEPT !.nr = Bump(@, p)] ELSE inst[x]
  BY <1>3 DEF NamesInv, InstanceOf
<1> QED BY <1>1, <1>2, <1>3, <1>4, <1>5, <1>6, <1>7, <1>8, <1>b, NamesInserted DEF Table

LEMMA NamesSaveProto ==
  ASSUME TablesInv, NamesInv, NEW b \in Builder, SaveProto(b)
  PROVE  NamesInv'
<1>1. /\ desk[b].mode \in Proto /\ desk' = [desk EXCEPT ![b] = Playing]
      /\ UNCHANGED <<scene, world, at>>
  BY DEF SaveProto
<1>2. CASE ReplaceProto(b)
  <2>1. UNCHANGED <<index, inst, zone>> BY <1>2 DEF ReplaceProto
  <2>2. \A k \in Table : TableOf(k)' = TableOf(k) BY <1>1, <2>1 DEF TableOf
  <2>3. Playing.mode # "cmd" BY DEF Playing
  <2> QED BY <1>1, <2>1, <2>2, <2>3, NamesDesk
<1>3. CASE InsertProto(b)
  <2>a. PICK k \in Proto : k = desk[b].mode BY <1>1
  <2>b. PICK v : v = desk[b].vnum OBVIOUS
  <2>c. PICK p : p = Place(TableOf(k), v) OBVIOUS
  <2>1. /\ v \in Nat /\ k \in Table /\ k # "room"
        /\ p \in 1 .. Top(TableOf(k)) + 1
        /\ \A r \in DOMAIN TableOf(k) : TableOf(k)[r] # v
        /\ TableOf(k) = index[k]
        /\ index' = [index EXCEPT ![k] = InsertAt(TableOf(k), p, v)]
        /\ zone' = RenumberZone(k, p)
    BY <1>1, <1>3, <2>a, <2>b, <2>c, InsertProtoIndex
  <2>2. p \in Nat
    <3>1. Top(TableOf(k)) \in Int BY <2>1, TableFacts DEF TableTyped
    <3> QED BY <2>1, <3>1
  <2>3. TableOf(k)' = InsertAt(TableOf(k), p, v)
    <3>1. TableOf(k)' = index'[k] BY <2>1 DEF TableOf
    <3>2. k \in DOMAIN index BY <2>1 DEF TablesInv, Typed
    <3> QED BY <2>1, <3>1, <3>2
  <2>4. \A t \in Table \ {k} : TableOf(t)' = TableOf(t)
    <3>1. \A t \in Proto \ {k} : index'[t] = index[t] BY <2>1 DEF TablesInv, Typed
    <3> QED BY <1>1, <3>1 DEF TableOf, Table
  <2>5. inst' = [x \in Thing |-> IF x \in Known(k) THEN [inst[x] EXCEPT !.nr = Bump(@, p)] ELSE inst[x]]
    BY <1>3, <2>1, <2>a, <2>b, <2>c DEF InsertProto
  <2>6. \A x \in Thing : x \in Known(k) <=> inst[x] # None /\ inst[x].kind = k
    BY DEF Known, NamesInv, InstanceOf
  <2>7. /\ DOMAIN inst' = Thing
        /\ \A x \in Thing : inst'[x] = IF inst[x] # None /\ inst[x].kind = k
                                     THEN [inst[x] EXCEPT !.nr = Bump(@, p)] ELSE inst[x]
    BY <2>5, <2>6
  <2>8. \A c \in Builder : desk'[c].mode # "cmd"
    <3>1. scene.edit[b] # {} BY <1>1, ProtoPage
    <3>2. desk[b].mode # "cmd" BY <1>1 DEF Proto
    <3>3. \A c \in Builder : desk[c].mode # "cmd" BY <3>1, <3>2, NobodyWrites
    <3> QED BY <1>1, <3>3, PageFacts DEF Playing
  <2> QED BY <1>1, <2>1, <2>2, <2>3, <2>4, <2>7, <2>8, <2>c, NamesInserted
<1> QED BY <1>2, <1>3 DEF SaveProto

LEMMA NamesRdelete ==
  ASSUME TablesInv, NamesInv, NEW b \in Builder, NEW v \in scene.delete, Rdelete(b, v)
  PROVE  NamesInv'
<1>a. PICK n : n = Real("room", v) OBVIOUS
<1>b. PICK m \in Nat : m = Top(world) BY WorldFacts
<1> DEFINE f == Numbers(world)
           g == RemoveAt(f, n)
<1>1. n \in 0 .. m /\ DOMAIN world = 0 .. m /\ Numbers(world') = g
  BY <1>a, <1>b, RdeleteWorld, WorldFacts
<1>2. TableTyped(f) /\ DOMAIN f = 0 .. m BY <1>b, WorldFacts, NumbersTyped
<1>3. /\ DOMAIN g = 0 .. m - 1
      /\ \A r \in 0 .. m : r < n => r \in 0 .. m - 1 /\ g[r] = f[r]
      /\ \A r \in 0 .. m : r > n => r - 1 \in 0 .. m - 1 /\ g[r - 1] = f[r]
  <2> HIDE DEF f
  <2> QED BY <1>1, <1>2, RemoveShape, SMTT(30)
<1>4. UNCHANGED <<scene, index, inst, desk>> BY DEF Rdelete
<1>5. /\ Tables["room"] = f /\ Tables'["room"] = g
      /\ \A k \in Proto : Tables'[k] = Tables[k]
  BY <1>1, <1>4, TablesAre
<1> HIDE DEF f, g
<1>6. /\ DOMAIN zone' = DOMAIN zone
      /\ \A i \in DOMAIN zone :
              \/ zone'[i] = Blank
              \/ /\ zone'[i].letter = zone[i].letter /\ zone'[i].means = zone[i].means
                 /\ \A j \in 1..3 :
                      IF <<zone[i].letter, j>> \in Renumbered("room")
                      THEN /\ zone[i].arg[j] # n
                           /\ zone'[i].arg[j] = IF zone[i].arg[j] > n
                                                THEN zone[i].arg[j] - 1 ELSE zone[i].arg[j]
                      ELSE zone'[i].arg[j] = zone[i].arg[j]
  BY <1>a, RdeleteZone
<1>7. ASSUME NEW i \in DOMAIN zone' PROVE FaithfulTo(Tables', zone'[i])
  <2>1. CASE zone'[i] = Blank BY <2>1, BlankTyped DEF FaithfulTo, Blank, Proto
  <2>2. CASE zone'[i] # Blank
    <3> DEFINE c == zone[i]
               d == zone'[i]
    <3>1. c \in CmdType /\ FaithfulTo(Tables, c) BY <1>6 DEF TablesInv, Typed, NamesInv
    <3>2. c.letter \in Letter /\ c.letter # "V" /\ \A j \in 1..3 : c.arg[j] \in Int
      BY <3>1 DEF CmdType, FaithfulTo
    <3>3. /\ d.letter = c.letter /\ d.means = c.means
          /\ \A j \in 1..3 :
               IF <<c.letter, j>> \in Renumbered("room")
               THEN /\ c.arg[j] # n
                    /\ d.arg[j] = IF c.arg[j] > n THEN c.arg[j] - 1 ELSE c.arg[j]
               ELSE d.arg[j] = c.arg[j]
      BY <1>6, <2>2
    <3> HIDE DEF c, d
    <3>4. ASSUME NEW j \in 1..3, RefTable(c.letter, j) # "none", c.letter \notin {"S", "U"}
          PROVE  LET k == RefTable(c.letter, j) IN
                 d.arg[j] \in DOMAIN Tables'[k] /\ Tables'[k][d.arg[j]] = d.means[j]
      <4>1. PICK k \in Table : k = RefTable(c.letter, j) BY <3>4, RefTableIs
      <4>2. c.arg[j] \in DOMAIN Tables[k] /\ Tables[k][c.arg[j]] = c.means[j]
        BY <3>1, <3>4, <4>1 DEF FaithfulTo
      <4>3. <<c.letter, j>> \in Renumbered("room") <=> k = "room"
        <5>1. c.letter \in Letter \ {"S", "U", "V"} /\ "room" \in Table BY <3>2, <3>4 DEF Table
        <5> QED BY <4>1, <5>1, RenumberedIs
      <4>4. ASSUME k = "room" PROVE d.arg[j] \in DOMAIN Tables'[k] /\ Tables'[k][d.arg[j]] = d.means[j]
        <5>1. c.arg[j] \in 0 .. m /\ c.arg[j] # n /\ f[c.arg[j]] = c.means[j]
          BY <1>2, <1>5, <3>3, <4>2, <4>3, <4>4
        <5>2. CASE c.arg[j] > n BY <1>3, <1>5, <3>3, <4>1, <4>3, <4>4, <5>1, <5>2, SMTT(30)
        <5>3. CASE ~(c.arg[j] > n)
          <6>1. c.arg[j] < n BY <1>1, <5>1, <5>3
          <6> QED BY <1>3, <1>5, <3>3, <4>1, <4>3, <4>4, <5>1, <5>3, <6>1
        <5> QED BY <5>2, <5>3
      <4>5. ASSUME k # "room" PROVE d.arg[j] \in DOMAIN Tables'[k] /\ Tables'[k][d.arg[j]] = d.means[j]
        BY <1>5, <3>3, <4>1, <4>2, <4>3, <4>5 DEF Table
      <4>6. d.arg[j] \in DOMAIN Tables'[k] /\ Tables'[k][d.arg[j]] = d.means[j]
        <5>1. k = "room" \/ k # "room" OBVIOUS
        <5> QED BY <4>4, <4>5, <5>1, Zenon
      <4> QED BY <4>1, <4>6
    <3>5. ASSUME RefTable(c.letter, 1) \in Proto
          PROVE  d.arg[1] \in DOMAIN Tables'[RefTable(c.letter, 1)]
      <4>1. <<c.letter, 1>> \notin Renumbered("room")
        <5>1. CASE c.letter \in {"S", "U"} BY <5>1, RenumberedIs DEF Table
        <5>2. CASE c.letter \notin {"S", "U"}
          <6>1. c.letter \in Letter \ {"S", "U", "V"} /\ "room" \in Table /\ "room" \notin Proto
            BY <3>2, <5>2 DEF Table, Proto
          <6>2. RefTable(c.letter, 1) # "room" BY <3>5, <6>1
          <6>3. 1 \in 1..3 OBVIOUS
          <6>4. <<c.letter, 1>> \in Renumbered("room") <=> RefTable(c.letter, 1) = "room"
            BY <6>1, <6>3, RenumberedIs, Zenon
          <6> QED BY <6>2, <6>4
        <5> QED BY <5>1, <5>2
      <4> QED BY <1>5, <3>1, <3>3, <3>5, <4>1 DEF FaithfulTo
    <3>6. FaithfulTo(Tables', d) BY <3>2, <3>3, <3>4, <3>5 DEF FaithfulTo
    <3> QED BY <3>6 DEF d
  <2> QED BY <2>1, <2>2
<1>8. ASSUME NEW x \in Thing PROVE InstanceOf(Tables', inst'[x])
  <2>1. InstanceOf(Tables, inst[x]) BY DEF NamesInv
  <2>2. inst[x] # None => inst[x].kind \in Proto BY <2>1 DEF InstanceOf, Proto
  <2> QED BY <1>4, <1>5, <2>1, <2>2 DEF InstanceOf
<1>9. \A c \in Builder : desk'[c].mode # "cmd"
  <2>1. desk[b].mode # "cmd" /\ scene.cmds[b] # {} BY DEF Rdelete
  <2> QED BY <1>4, <2>1, NobodyWrites
<1>10. WritesAlone(scene') /\ NoVehicles(scene') /\ DOMAIN inst' = Thing BY <1>4 DEF NamesInv
<1> QED BY <1>7, <1>8, <1>9, <1>10 DEF NamesInv

LEMMA NamesInit ==
  ASSUME Init, WritesAlone(scene), NoVehicles(scene)
  PROVE  NamesInv
<1>1. DOMAIN inst = Thing /\ \A x \in Thing : InstanceOf(Tables, inst[x])
  BY DEF Init, InstanceOf
<1>2. \A b \in Builder : desk[b].mode # "cmd" BY DEF Init, Playing
<1>3. ASSUME NEW i \in DOMAIN zone PROVE FaithfulTo(Tables, zone[i])
  <2>1. /\ i \in DOMAIN scene.zone
        /\ \/ zone[i].letter = "*"
           \/ /\ zone[i].letter = scene.zone[i].letter
              /\ \A j \in 1..3 : LET k == RefTable(zone[i].letter, j) IN
                   k # "none" => Names(k, zone[i].arg[j], zone[i].means[j])
    BY BootZone
  <2>2. CASE zone[i].letter = "*" BY <2>2, BlankTyped DEF FaithfulTo, Blank, Proto
  <2>3. CASE zone[i].letter # "*"
    <3>1. zone[i].letter # "V" BY <2>1, <2>3 DEF NoVehicles
    <3>2. ASSUME NEW j \in 1..3, RefTable(zone[i].letter, j) # "none"
          PROVE  LET k == RefTable(zone[i].letter, j) IN
                 zone[i].arg[j] \in DOMAIN Tables[k] /\ Tables[k][zone[i].arg[j]] = zone[i].means[j]
      <4>1. PICK k \in Table : k = RefTable(zone[i].letter, j) BY <3>2, RefTableIs
      <4>2. Names(k, zone[i].arg[j], zone[i].means[j]) BY <2>1, <2>3, <3>2, <4>1
      <4> QED BY <4>1, <4>2, TablesAre DEF Names
    <3>3. "none" \notin Proto BY DEF Proto
    <3> QED BY <3>1, <3>2, <3>3 DEF FaithfulTo
  <2> QED BY <2>2, <2>3
<1> QED BY <1>1, <1>2, <1>3 DEF NamesInv

\* An exit of the room on a desk.
LEMMA NamesExit ==
  ASSUME TablesInv, NamesInv, NEW b \in Builder, NEW k \in Dir, NEW d,
         desk[b].mode = "room", desk' = [desk EXCEPT ![b].room.door[k] = d],
         UNCHANGED <<scene, inst, zone>>, \A t \in Table : TableOf(t)' = TableOf(t)
  PROVE  NamesInv'
<1> DEFINE D == [desk[b].room.door EXCEPT ![k] = d]
           R == [desk[b].room EXCEPT !.door = D]
           page == [desk[b] EXCEPT !.room = R]
<1>1. desk[b] \in [mode : {"room"}, vnum : Nat, room : RoomType] BY PageFacts DEF PageTyped
<1>2. page.mode = "room"
  <2> HIDE DEF R
  <2> QED BY <1>1
<1>3. desk' = [desk EXCEPT ![b] = page] OBVIOUS
<1> HIDE DEF page
<1> QED BY <1>2, <1>3, NamesDesk

LEMMA NamesReplaceRoom ==
  ASSUME TablesInv, NamesInv, NEW b \in Builder, desk[b].mode = "room", ReplaceRoom(b)
  PROVE  NamesInv'
<1>1. \A k \in Table : TableOf(k)' = TableOf(k) BY TablesReplaceRoom
<1>2. UNCHANGED <<scene, inst, zone>> /\ desk' = [desk EXCEPT ![b] = Playing]
  BY DEF ReplaceRoom, ComeBack
<1>3. Playing.mode # "cmd" BY DEF Playing
<1> QED BY <1>1, <1>2, <1>3, NamesDesk

LEMMA NamesAbort ==
  ASSUME TablesInv, NamesInv, NEW b \in Builder, Abort(b)
  PROVE  NamesInv'
<1>1. \A k \in Table : TableOf(k)' = TableOf(k) BY TablesAbort
<1>2. UNCHANGED <<scene, inst, zone>> /\ desk' = [desk EXCEPT ![b] = Playing]
  BY DEF Abort, ComeBack
<1>3. Playing.mode # "cmd" BY DEF Playing
<1> QED BY <1>1, <1>2, <1>3, NamesDesk

LEMMA NamesOpen ==
  ASSUME TablesInv, NamesInv, NEW b \in Builder, NEW k \in Proto, NEW v, Open(b, k, v)
  PROVE  NamesInv'
<1> DEFINE page == [mode |-> k, vnum |-> v]
<1>1. \A t \in Table : TableOf(t)' = TableOf(t) BY TablesOpen
<1>2. UNCHANGED <<scene, inst, zone>> /\ desk' = [desk EXCEPT ![b] = page] BY DEF Open
<1>3. page.mode # "cmd" BY DEF Proto
<1> HIDE DEF page
<1> QED BY <1>1, <1>2, <1>3, NamesDesk

LEMMA NamesEdit ==
  ASSUME TablesInv, ListedInv, NamesInv, NEW b \in Builder, Edit(b)
  PROVE  NamesInv'
<1>1. CASE \E v \in Vnum : Redit(b, v)
  <2>1. PICK v \in Vnum : Redit(b, v) BY <1>1
  <2>2. \A k \in Table : TableOf(k)' = TableOf(k) BY <2>1, TablesRedit
  <2>3. \E page : page.mode # "cmd" /\ Withdraw(b, page) BY <2>1 DEF Redit
  <2> QED BY <2>2, <2>3, NamesDesk DEF Withdraw
<1>2. CASE \E u, v \in Vnum : "rclone" \in scene.cmds[b] /\ Rclone(b, u, v)
  <2>1. PICK u \in Vnum, v \in Vnum : Rclone(b, u, v) BY <1>2
  <2>2. \A k \in Table : TableOf(k)' = TableOf(k) BY <2>1, TablesRclone
  <2>3. \E page : page.mode # "cmd" /\ Withdraw(b, page) BY <2>1 DEF Rclone
  <2> QED BY <2>2, <2>3, NamesDesk DEF Withdraw
<1>3. CASE \E k \in Dir, v \in scene.exits : SetExit(b, k, v)
  <2>1. PICK k \in Dir, v \in scene.exits : SetExit(b, k, v) BY <1>3
  <2>2. \A t \in Table : TableOf(t)' = TableOf(t) BY <2>1, TablesSetExit
  <2>3. \E d : desk' = [desk EXCEPT ![b].room.door[k] = d] BY <2>1 DEF SetExit
  <2>4. UNCHANGED <<scene, inst, zone>> /\ desk[b].mode = "room" BY <2>1 DEF SetExit
  <2> QED BY <2>2, <2>3, <2>4, NamesExit
<1>4. CASE \E k \in Dir : ClearExit(b, k)
  <2>1. PICK k \in Dir : ClearExit(b, k) BY <1>4
  <2>2. \A t \in Table : TableOf(t)' = TableOf(t) BY <2>1, TablesClearExit
  <2>3. /\ desk' = [desk EXCEPT ![b].room.door[k] = None]
        /\ UNCHANGED <<scene, inst, zone>> /\ desk[b].mode = "room"
    BY <2>1 DEF ClearExit
  <2> QED BY <2>2, <2>3, NamesExit
<1>5. CASE SaveRoom(b) BY <1>5, NamesReplaceRoom, NamesInsertRoom DEF SaveRoom
<1>6. CASE \E k \in Proto, v \in Vnum : Open(b, k, v) BY <1>6, NamesOpen
<1>7. CASE SaveProto(b) BY <1>7, NamesSaveProto
<1>8. CASE Abort(b) BY <1>8, NamesAbort
<1>9. CASE \E k \in Dir, v \in scene.exits : Dig(b, k, v)
  <2>1. PICK k \in Dir, v \in scene.exits : Dig(b, k, v) BY <1>9
  <2>2. at[b] \in DOMAIN world BY <2>1, BuilderRoom DEF Dig
  <2>3. \A t \in Table : TableOf(t)' = TableOf(t) BY <2>1, <2>2, TablesDig
  <2>4. UNCHANGED <<scene, inst, zone, desk>> BY <2>1 DEF Dig
  <2> QED BY <2>3, <2>4, NamesQuiet
<1>10. CASE \E v \in scene.delete : Rdelete(b, v) BY <1>10, NamesRdelete
<1>11. CASE \E i \in 0 .. scene.max, how \in {"edit", "insert", "add"} : Zedit(b, i, how)
  BY <1>11, NamesZedit
<1>12. CASE \E l \in Letter : ZeditType(b, l) BY <1>12, NamesZeditType
<1>13. CASE \E j \in 1..3, v \in Vnum : ZeditArg(b, j, v) BY <1>13, NamesZeditArg
<1>14. CASE ZeditSave(b) BY <1>14, NamesZeditSave
<1> QED BY <1>1, <1>2, <1>3, <1>4, <1>5, <1>6, <1>7, <1>8, <1>9, <1>10, <1>11, <1>12, <1>13, <1>14
    DEF Edit

LEMMA NamesNext ==
  ASSUME TablesInv, ListedInv, NamesInv, [Next]_vars
  PROVE  NamesInv'
<1>1. ASSUME NEW b \in Builder, Edit(b) PROVE NamesInv' BY <1>1, NamesEdit
<1>2. ASSUME NEW x \in scene.things, Live(x) PROVE NamesInv'
  BY <1>2, LiveSteps, NamesLoad, NamesExtract
<1>3. ASSUME NEW x \in Body, NEW r \in DOMAIN world, Move(x, r) PROVE NamesInv'
  <2>1. \A k \in Table : TableOf(k)' = TableOf(k) BY <1>3, TablesMove
  <2>2. UNCHANGED <<scene, inst, zone, desk>> BY <1>3 DEF Move
  <2> QED BY <2>1, <2>2, NamesQuiet
<1>4. CASE UNCHANGED vars
  <2>1. \A k \in Table : TableOf(k)' = TableOf(k) BY <1>4 DEF vars, TableOf
  <2> QED BY <1>4, <2>1, NamesQuiet DEF vars
<1> QED BY <1>1, <1>2, <1>3, <1>4 DEF Next

\* Under the conditions of TablesAlways, where in addition whoever writes a
\* command of the zone is the only one to insert or delete meanwhile and no
\* vehicle is in the game or in a command, every mobile and every object in
\* the game names the prototype it was made from, and every command of the
\* zone but S and U, which no editor renumbers, what it named when it was
\* written (renum_zone_table and the shifts of redit.cpp, medit.cpp,
\* iedit.cpp, zedit.cpp and do_rdelete).
THEOREM NamesTrueAlways ==
  Spec /\ FirstKept(scene) /\ OneMaker(scene) /\ WritesAlone(scene) /\ NoVehicles(scene)
    => []NamesTrue
<1> DEFINE I == TablesInv /\ ListedInv /\ NamesInv
<1>1. Init /\ FirstKept(scene) /\ OneMaker(scene) /\ WritesAlone(scene) /\ NoVehicles(scene) => I
  BY TablesInit, NamesInit
<1>2. I /\ [Next]_vars => I' BY TablesNext, NamesNext
<1>3. I => NamesTrue BY NamesHold
<1> QED BY <1>1, <1>2, <1>3, PTL DEF Spec

-----------------------------------------------------------------------------
(* The last room, the commands, and the place for one more.                *)

LEMMA LastFacts ==
  ASSUME TablesInv, NEW z \in scene.rooms, LastRoom(scene, z), world[Top(world)].number = z
  PROVE  /\ Top(world) > 0
         /\ \A r \in DOMAIN world : r # Top(world) => world[r].number < z
<1>1. /\ TableTyped(Numbers(world)) /\ Ascending(Numbers(world))
      /\ DOMAIN Numbers(world) = 0 .. Top(world)
      /\ \A r \in DOMAIN world : Numbers(world)[r] = world[r].number
  BY WorldFacts, NumbersTyped, TableFacts DEF TableOf, Table
<1>2. DOMAIN world = 0 .. Top(world) /\ Top(world) \in Nat BY WorldFacts
<1>3. ASSUME NEW r \in DOMAIN world, r # Top(world) PROVE world[r].number < z
  <2>1. r < Top(world) /\ Top(world) \in DOMAIN world BY <1>2, <1>3
  <2> QED BY <1>1, <1>2, <2>1 DEF Ascending
<1>4. Top(world) > 0
  <2>1. scene.start \in Lasting(scene, "room")
    <3>1. scene.start \in scene.rooms BY SceneFacts, OlcAssumption
    <3> QED BY <3>1 DEF Lasting
  <2>2. PICK r \in DOMAIN Numbers(world) : Numbers(world)[r] = scene.start
    BY <2>1 DEF TablesInv, Table, TableOf
  <2>3. r \in DOMAIN world /\ world[r].number # z BY <1>1, <1>2, <2>2 DEF LastRoom
  <2> QED BY <1>2, <2>3
<1> QED BY <1>3, <1>4

\* A step that writes no command.
CmdsKept ==
  /\ \A b \in Builder : desk'[b].mode = "cmd" => desk'[b] = desk[b]
  /\ DOMAIN zone' = DOMAIN zone
  /\ \A i \in DOMAIN zone : zone'[i].letter = zone[i].letter /\ zone'[i].means = zone[i].means

LEMMA LastKept ==
  ASSUME LastInv, scene' = scene, CmdsKept,
         world'[Top(world')].number = world[Top(world)].number
  PROVE  LastInv'
<1>1. PICK z \in scene.rooms :
         /\ LastRoom(scene, z) /\ world[Top(world)].number = z
         /\ \A i \in DOMAIN zone : Elsewhere(zone[i], z)
         /\ \A b \in Builder : desk[b].mode = "cmd" => Elsewhere(desk[b].cmd, z)
  BY DEF LastInv
<1>2. \A i \in DOMAIN zone' : Elsewhere(zone'[i], z) BY <1>1 DEF CmdsKept, Elsewhere
<1>3. \A b \in Builder : desk'[b].mode = "cmd" => Elsewhere(desk'[b].cmd, z)
  BY <1>1 DEF CmdsKept
<1>4. z \in scene'.rooms /\ LastRoom(scene', z) BY <1>1
<1> QED BY <1>1, <1>2, <1>3, <1>4 DEF LastInv

LEMMA SpaceKept ==
  ASSUME SpaceInv, scene' = scene, CmdsKept
  PROVE  SpaceInv'
<1>1. Top(zone') = Top(zone) /\ DOMAIN zone' = DOMAIN zone BY DEF Top, CmdsKept
<1>2. \A b \in Builder : desk'[b].mode = "cmd" => desk'[b] = desk[b] BY DEF CmdsKept
<1> QED BY <1>1, <1>2 DEF SpaceInv, Space

LEMMA TopKept ==
  ASSUME TablesInv, TableOf("room")' = TableOf("room")
  PROVE  /\ DOMAIN world' = DOMAIN world /\ Top(world') = Top(world)
         /\ \A r \in DOMAIN world : world'[r].number = world[r].number
         /\ world'[Top(world')].number = world[Top(world)].number
<1>1. Numbers(world') = Numbers(world) BY DEF TableOf
<1>2. DOMAIN world' = DOMAIN world /\ \A r \in DOMAIN world : world'[r].number = world[r].number
  <2>1. DOMAIN world' = DOMAIN Numbers(world') /\ DOMAIN world = DOMAIN Numbers(world)
    BY DEF Numbers
  <2>2. \A r \in DOMAIN world : Numbers(world)[r] = world[r].number BY DEF Numbers
  <2>3. \A r \in DOMAIN world' : Numbers(world')[r] = world'[r].number BY DEF Numbers
  <2> QED BY <1>1, <2>1, <2>2, <2>3
<1>3. Top(world') = Top(world) BY <1>2 DEF Top
<1> QED BY <1>2, <1>3, WorldFacts

\* A step at a desk that ends with no command on it.
LEMMA CmdsDesk ==
  ASSUME TablesInv, NEW b \in Builder, NEW page, desk' = [desk EXCEPT ![b] = page],
         page.mode # "cmd", zone' = zone
  PROVE  CmdsKept
<1>1. \A c \in Builder : desk'[c] = IF c = b THEN page ELSE desk[c] BY PageFacts
<1> QED BY <1>1 DEF CmdsKept

\* The steps of a builder who does not write commands.
Building(b) ==
  \/ \E v \in Vnum : Redit(b, v)
  \/ \E u, v \in Vnum : Rclone(b, u, v)
  \/ \E k \in Dir, v \in scene.exits : SetExit(b, k, v)
  \/ \E k \in Dir : ClearExit(b, k)
  \/ SaveRoom(b)
  \/ \E k \in Proto, v \in Vnum : Open(b, k, v)
  \/ SaveProto(b)
  \/ Abort(b)
  \/ \E k \in Dir, v \in scene.exits : Dig(b, k, v)

LEMMA EditIs ==
  ASSUME NothingDeleted(scene), NEW b \in Builder, Edit(b)
  PROVE  \/ Building(b)
         \/ \E i \in 0 .. scene.max, how \in {"edit", "insert", "add"} : Zedit(b, i, how)
         \/ \E l \in Letter : ZeditType(b, l)
         \/ \E j \in 1..3, v \in Vnum : ZeditArg(b, j, v)
         \/ ZeditSave(b)
  BY DEF Edit, Building, NothingDeleted

\* The room of the page with another exit.
LEMMA ExitPage ==
  ASSUME TablesInv, NEW b \in Builder, NEW k \in Dir, NEW d,
         desk[b].mode = "room", desk' = [desk EXCEPT ![b].room.door[k] = d]
  PROVE  \E page : /\ page.mode = "room" /\ page.vnum = desk[b].vnum
                   /\ page.room.here = desk[b].room.here /\ page.room.vehs = desk[b].room.vehs
                   /\ desk' = [desk EXCEPT ![b] = page]
<1> DEFINE D == [desk[b].room.door EXCEPT ![k] = d]
           R == [desk[b].room EXCEPT !.door = D]
           page == [desk[b] EXCEPT !.room = R]
<1>1. desk[b] \in [mode : {"room"}, vnum : Nat, room : RoomType] BY PageFacts DEF PageTyped
<1>2. R.here = desk[b].room.here /\ R.vehs = desk[b].room.vehs
  <2> HIDE DEF D
  <2> QED BY <1>1 DEF RoomType
<1>3. page.mode = "room" /\ page.vnum = desk[b].vnum /\ page.room = R
  <2> HIDE DEF R
  <2> QED BY <1>1
<1>4. desk' = [desk EXCEPT ![b] = page] OBVIOUS
<1> HIDE DEF page, R
<1> QED BY <1>2, <1>3, <1>4

LEMMA CmdsBuilding ==
  ASSUME TablesInv, NEW b \in Builder, Building(b)
  PROVE  CmdsKept /\ scene' = scene
<1>0. Playing.mode # "cmd" BY DEF Playing
<1>1. CASE \E v \in Vnum : Redit(b, v)
  <2>1. \E page : page.mode # "cmd" /\ Withdraw(b, page) BY <1>1 DEF Redit
  <2> QED BY <2>1, CmdsDesk DEF Withdraw
<1>2. CASE \E u, v \in Vnum : Rclone(b, u, v)
  <2>1. \E page : page.mode # "cmd" /\ Withdraw(b, page) BY <1>2 DEF Rclone
  <2> QED BY <2>1, CmdsDesk DEF Withdraw
<1>3. CASE \E k \in Dir, v \in scene.exits : SetExit(b, k, v)
  <2>1. PICK k \in Dir, v \in scene.exits : SetExit(b, k, v) BY <1>3
  <2>2. \E d : desk' = [desk EXCEPT ![b].room.door[k] = d] BY <2>1 DEF SetExit
  <2>3. zone' = zone /\ scene' = scene /\ desk[b].mode = "room" BY <2>1 DEF SetExit
  <2>4. \E page : page.mode = "room" /\ desk' = [desk EXCEPT ![b] = page]
    BY <2>2, <2>3, ExitPage
  <2> QED BY <2>3, <2>4, CmdsDesk
<1>4. CASE \E k \in Dir : ClearExit(b, k)
  <2>1. PICK k \in Dir : ClearExit(b, k) BY <1>4
  <2>2. \E d : desk' = [desk EXCEPT ![b].room.door[k] = d] BY <2>1 DEF ClearExit
  <2>3. zone' = zone /\ scene' = scene /\ desk[b].mode = "room" BY <2>1 DEF ClearExit
  <2>4. \E page : page.mode = "room" /\ desk' = [desk EXCEPT ![b] = page]
    BY <2>2, <2>3, ExitPage
  <2> QED BY <2>3, <2>4, CmdsDesk
<1>5. CASE SaveRoom(b)
  <2>1. CASE ReplaceRoom(b)
    <3>1. zone' = zone /\ scene' = scene /\ desk' = [desk EXCEPT ![b] = Playing]
      BY <2>1 DEF ReplaceRoom, ComeBack
    <3> QED BY <1>0, <3>1, CmdsDesk
  <2>2. CASE InsertRoom(b)
    <3>a. PICK p : p = Place(Numbers(world), desk[b].vnum) OBVIOUS
    <3>1. desk[b].mode = "room" BY <1>5 DEF SaveRoom
    <3>2. p \in 1 .. Top(world) + 1 BY <2>2, <3>a, <3>1, InsertRoomWorld
    <3>3. p \in Nat /\ "room" \in Table BY <3>2, WorldFacts DEF Table
    <3>4. scene' = scene /\ desk' = [desk EXCEPT ![b] = Playing] /\ zone' = RenumberZone("room", p)
      BY <2>2, <3>a DEF InsertRoom, ComeBack
    <3>5. /\ DOMAIN zone' = DOMAIN zone
          /\ \A i \in DOMAIN zone :
               zone'[i].letter = zone[i].letter /\ zone'[i].means = zone[i].means
      BY <3>3, <3>4, RenumberedZone
    <3>6. \A c \in Builder : desk'[c].mode = "cmd" => desk'[c] = desk[c]
      BY <1>0, <3>4, PageFacts
    <3> QED BY <3>4, <3>5, <3>6 DEF CmdsKept
  <2> QED BY <1>5, <2>1, <2>2 DEF SaveRoom
<1>6. CASE \E k \in Proto, v \in Vnum : Open(b, k, v)
  <2>1. PICK k \in Proto, v \in Vnum : Open(b, k, v) BY <1>6
  <2> DEFINE page == [mode |-> k, vnum |-> v]
  <2>2. page.mode # "cmd" BY DEF Proto
  <2>3. zone' = zone /\ scene' = scene /\ desk' = [desk EXCEPT ![b] = page] BY <2>1 DEF Open
  <2> HIDE DEF page
  <2> QED BY <2>2, <2>3, CmdsDesk
<1>7. CASE SaveProto(b)
  <2>1. desk[b].mode \in Proto /\ desk' = [desk EXCEPT ![b] = Playing] /\ scene' = scene
    BY <1>7 DEF SaveProto
  <2>2. CASE ReplaceProto(b) BY <1>0, <2>1, <2>2, CmdsDesk DEF ReplaceProto
  <2>3. CASE InsertProto(b)
    <3>a. PICK k \in Proto : k = desk[b].mode BY <2>1
    <3>b. PICK p : p = Place(TableOf(k), desk[b].vnum) OBVIOUS
    <3>1. k \in Table /\ p \in 1 .. Top(TableOf(k)) + 1 /\ zone' = RenumberZone(k, p)
      BY <2>1, <2>3, <3>a, <3>b, InsertProtoIndex
    <3>2. p \in Nat
      <4>1. Top(TableOf(k)) \in Int BY <3>1, TableFacts DEF TableTyped
      <4> QED BY <3>1, <4>1
    <3>3. /\ DOMAIN zone' = DOMAIN zone
          /\ \A i \in DOMAIN zone :
               zone'[i].letter = zone[i].letter /\ zone'[i].means = zone[i].means
      BY <3>1, <3>2, RenumberedZone
    <3>4. \A c \in Builder : desk'[c].mode = "cmd" => desk'[c] = desk[c]
      BY <1>0, <2>1, PageFacts
    <3> QED BY <2>1, <3>3, <3>4 DEF CmdsKept
  <2> QED BY <1>7, <2>2, <2>3 DEF SaveProto
<1>8. CASE Abort(b)
  <2>1. zone' = zone /\ scene' = scene /\ desk' = [desk EXCEPT ![b] = Playing]
    BY <1>8 DEF Abort, ComeBack
  <2> QED BY <1>0, <2>1, CmdsDesk
<1>9. CASE \E k \in Dir, v \in scene.exits : Dig(b, k, v) BY <1>9 DEF Dig, CmdsKept
<1> QED BY <1>1, <1>2, <1>3, <1>4, <1>5, <1>6, <1>7, <1>8, <1>9 DEF Building

\* One command on a desk is replaced.
LEMMA CmdPage ==
  ASSUME TablesInv, NEW b \in Builder, NEW c, desk[b].mode = "cmd", desk' = [desk EXCEPT ![b].cmd = c]
  PROVE  /\ desk'[b].mode = "cmd" /\ desk'[b].cmd = c
         /\ desk'[b].nr = desk[b].nr /\ desk'[b].insert = desk[b].insert
         /\ \A a \in Builder : a # b => desk'[a] = desk[a]
<1>1. desk[b] \in [mode : {"cmd"}, nr : Nat, insert : BOOLEAN, cmd : CmdType] /\ DOMAIN desk = Builder
  BY PageFacts DEF PageTyped
<1>2. desk'[b] = [desk[b] EXCEPT !.cmd = c] BY <1>1
<1> QED BY <1>1, <1>2

LEMMA SpaceWrite ==
  ASSUME SpaceInv, NEW b \in Builder, scene' = scene, zone' = zone,
         \A a \in Builder : a # b => desk'[a] = desk[a], Space(desk'[b])
  PROVE  SpaceInv'
<1>1. \A a \in Builder : Space(desk'[a]) BY DEF SpaceInv
<1> QED BY <1>1 DEF SpaceInv, Space

LEMMA SpaceZeditSave ==
  ASSUME TablesInv, NamesInv, SpaceInv, NEW b \in Builder, ZeditSave(b)
  PROVE  SpaceInv'
<1> DEFINE d == desk[b]
           c == d.cmd
           n == Top(zone)
<1>1. d.mode = "cmd" /\ desk' = [desk EXCEPT ![b] = Playing] /\ scene' = scene
  BY DEF ZeditSave
<1>2. n \in Nat \cup {-1} /\ DOMAIN zone = 0 .. n BY DEF TablesInv, Typed
<1>3. \A p \in 0 .. n + 1 : Top(InsertAt(zone, p, c)) = n + 1
  <2> HIDE DEF n, c
  <2>1. \A p \in 0 .. n + 1 : Inserted(InsertAt(zone, p, c), zone, n, p, c)
    BY <1>2, InsertShape, Zenon
  <2> QED BY <2>1 DEF Inserted
<1>4. Space(d) /\ n < scene.max BY DEF SpaceInv
<1>5. Top(zone') < scene.max
  <2>1. CASE d.nr \in DOMAIN zone /\ ~d.insert
    <3>1. zone' = [zone EXCEPT ![d.nr] = d.cmd] BY <2>1 DEF ZeditSave
    <3>2. DOMAIN zone' = DOMAIN zone BY <3>1
    <3> QED BY <1>4, <3>2 DEF Top
  <2>2. CASE d.nr \in DOMAIN zone /\ d.insert
    <3>1. zone' = InsertAt(zone, d.nr, c) BY <2>2 DEF ZeditSave
    <3>2. d.nr \in 0 .. n + 1 BY <1>2, <2>2
    <3>3. n + 1 < scene.max BY <1>1, <1>4, <2>2 DEF Space
    <3> HIDE DEF c, n
    <3> QED BY <1>3, <3>1, <3>2, <3>3
  <2>3. CASE d.nr \notin DOMAIN zone
    <3>1. zone' = InsertAt(zone, n + 1, c) BY <2>3 DEF ZeditSave
    <3>2. n + 1 \in 0 .. n + 1 BY <1>2
    <3>3. n + 1 < scene.max BY <1>1, <1>4, <2>3 DEF Space
    <3> HIDE DEF c, n
    <3> QED BY <1>3, <3>1, <3>2, <3>3
  <2> QED BY <2>1, <2>2, <2>3
<1>6. \A a \in Builder : desk'[a].mode # "cmd"
  <2>1. ASSUME NEW a \in Builder, a # b PROVE desk[a].mode # "cmd"
    <3>1. Allowed(a, desk[a]) /\ Allowed(b, desk[b]) BY PageFacts
    <3> QED BY <1>1, <2>1, <3>1 DEF Allowed, NamesInv, WritesAlone
  <2>2. \A a \in Builder : desk'[a] = IF a = b THEN Playing ELSE desk[a] BY <1>1, PageFacts
  <2> QED BY <2>1, <2>2 DEF Playing
<1> QED BY <1>1, <1>5, <1>6 DEF SpaceInv, Space

LEMMA SpaceNext ==
  ASSUME TablesInv, WaysInv, NamesInv, SpaceInv, [Next]_vars
  PROVE  SpaceInv'
<1>1. ASSUME NEW b \in Builder, Edit(b) PROVE SpaceInv'
  <2>1. CASE Building(b) BY <2>1, CmdsBuilding, SpaceKept
  <2>2. ASSUME NEW i \in 0 .. scene.max, NEW how \in {"edit", "insert", "add"}, Zedit(b, i, how)
        PROVE  SpaceInv'
    <3> DEFINE page == [mode |-> "cmd", nr |-> i, insert |-> how = "insert",
                        cmd |-> IF how = "edit" THEN zone[i] ELSE Blank]
    <3>1. /\ how = "edit" => i \in DOMAIN zone
          /\ how = "insert" => Top(zone) + 1 < scene.max
          /\ how = "add" => i = Top(zone) + 1 /\ i < scene.max
          /\ desk' = [desk EXCEPT ![b] = page] /\ scene' = scene /\ zone' = zone
      BY <2>2 DEF Zedit
    <3>2. Space(page) BY <3>1 DEF Space
    <3> HIDE DEF page
    <3>3. \A a \in Builder : desk'[a] = IF a = b THEN page ELSE desk[a] BY <3>1, PageFacts
    <3> QED BY <3>1, <3>2, <3>3, SpaceWrite
  <2>3. ASSUME NEW c, desk[b].mode = "cmd", desk' = [desk EXCEPT ![b].cmd = c],
               scene' = scene, zone' = zone
        PROVE  SpaceInv'
    <3>1. Space(desk'[b]) BY <2>3, CmdPage DEF SpaceInv, Space
    <3>2. \A a \in Builder : a # b => desk'[a] = desk[a] BY <2>3, CmdPage
    <3> QED BY <2>3, <3>1, <3>2, SpaceWrite
  <2>4. CASE \E l \in Letter : ZeditType(b, l)
    <3>1. \E c : desk' = [desk EXCEPT ![b].cmd = c] BY <2>4 DEF ZeditType
    <3>2. desk[b].mode = "cmd" /\ scene' = scene /\ zone' = zone BY <2>4 DEF ZeditType
    <3> QED BY <2>3, <3>1, <3>2
  <2>5. CASE \E j \in 1..3, v \in Vnum : ZeditArg(b, j, v)
    <3>1. PICK j \in 1..3, v \in Vnum : ZeditArg(b, j, v) BY <2>5
    <3> DEFINE k == RefTable(desk[b].cmd.letter, j)
               n == IF Real(k, v) > 0 THEN Real(k, v) ELSE 0
               c == [desk[b].cmd EXCEPT !.arg[j] = n, !.means[j] = TableOf(k)[n]]
    <3>2. desk' = [desk EXCEPT ![b].cmd = c] BY <3>1 DEF ZeditArg
    <3>3. desk[b].mode = "cmd" /\ scene' = scene /\ zone' = zone BY <3>1 DEF ZeditArg
    <3> HIDE DEF c
    <3> QED BY <2>3, <3>2, <3>3
  <2>6. CASE ZeditSave(b) BY <2>6, SpaceZeditSave
  <2>7. NothingDeleted(scene) BY DEF WaysInv
  <2> QED BY <1>1, <2>1, <2>2, <2>4, <2>5, <2>6, <2>7, EditIs
<1>2. ASSUME NEW x \in scene.things, Live(x) PROVE SpaceInv'
  <2>1. UNCHANGED <<scene, zone, desk>> BY <1>2, LiveSteps DEF Load, Extract
  <2> QED BY <2>1, SpaceKept DEF CmdsKept
<1>3. ASSUME NEW x \in Body, NEW r \in DOMAIN world, Move(x, r) PROVE SpaceInv'
  <2>1. UNCHANGED <<scene, zone, desk>> BY <1>3 DEF Move
  <2> QED BY <2>1, SpaceKept DEF CmdsKept
<1>4. CASE UNCHANGED vars
  <2>1. UNCHANGED <<scene, zone, desk>> BY <1>4 DEF vars
  <2> QED BY <2>1, SpaceKept DEF CmdsKept
<1> QED BY <1>1, <1>2, <1>3, <1>4 DEF Next

\* A command is written on a desk, or into the zone.
LEMMA LastWrite ==
  ASSUME TablesInv, NEW z \in scene.rooms, LastRoom(scene, z), world[Top(world)].number = z,
         \A b \in Builder : desk[b].mode = "cmd" => Elsewhere(desk[b].cmd, z),
         UNCHANGED <<scene, world>>,
         \A i \in DOMAIN zone' : Elsewhere(zone'[i], z),
         NEW b \in Builder, \A a \in Builder : a # b => desk'[a] = desk[a],
         desk'[b].mode = "cmd" => Elsewhere(desk'[b].cmd, z)
  PROVE  LastInv'
<1>1. z \in scene'.rooms /\ LastRoom(scene', z) /\ world'[Top(world')].number = z OBVIOUS
<1>2. \A a \in Builder : desk'[a].mode = "cmd" => Elsewhere(desk'[a].cmd, z) OBVIOUS
<1> QED BY <1>1, <1>2 DEF LastInv

LEMMA LastZedit ==
  ASSUME TablesInv, LastInv, NEW b \in Builder,
         \/ \E i \in 0 .. scene.max, how \in {"edit", "insert", "add"} : Zedit(b, i, how)
         \/ \E l \in Letter : ZeditType(b, l)
         \/ \E j \in 1..3, v \in Vnum : ZeditArg(b, j, v)
         \/ ZeditSave(b)
  PROVE  LastInv'
<1>1. PICK z \in scene.rooms :
         /\ LastRoom(scene, z) /\ world[Top(world)].number = z
         /\ \A i \in DOMAIN zone : Elsewhere(zone[i], z)
         /\ \A a \in Builder : desk[a].mode = "cmd" => Elsewhere(desk[a].cmd, z)
  BY DEF LastInv
<1>2. /\ 0 \in DOMAIN TableOf("room") /\ TableOf("room")[0] # z
      /\ \A r \in DOMAIN TableOf("room") : TableOf("room")[r] = world[r].number
  <2>1. 0 \in DOMAIN world /\ Top(world) > 0 /\ world[0].number < z
    <3>1. 0 \in DOMAIN world /\ Top(world) > 0 BY <1>1, WorldFacts, LastFacts
    <3>2. \A r \in DOMAIN world : r # Top(world) => world[r].number < z BY <1>1, LastFacts
    <3> QED BY <3>1, <3>2
  <2>2. z \in Nat /\ world[0].number \in Nat
    BY <1>1, <2>1, WorldFacts DEF WorldTyped, RoomType
  <2> QED BY <2>1, <2>2, WorldFacts, NumbersTyped DEF TableOf
<1>3. ASSUME NEW i \in 0 .. scene.max, NEW how \in {"edit", "insert", "add"}, Zedit(b, i, how)
      PROVE  LastInv'
  <2> DEFINE c == IF how = "edit" THEN zone[i] ELSE Blank
             page == [mode |-> "cmd", nr |-> i, insert |-> how = "insert", cmd |-> c]
  <2>1. /\ how = "edit" => i \in DOMAIN zone
        /\ desk' = [desk EXCEPT ![b] = page] /\ UNCHANGED <<scene, world, zone>>
    BY <1>3 DEF Zedit
  <2>2. Elsewhere(c, z) BY <1>1, <2>1 DEF Elsewhere, Blank
  <2>3. page.cmd = c OBVIOUS
  <2> HIDE DEF page, c
  <2>4. \A a \in Builder : desk'[a] = IF a = b THEN page ELSE desk[a] BY <2>1, PageFacts
  <2> QED BY <1>1, <2>1, <2>2, <2>3, <2>4, LastWrite
<1>4. ASSUME NEW c, Elsewhere(c, z), desk[b].mode = "cmd", desk' = [desk EXCEPT ![b].cmd = c],
             UNCHANGED <<scene, world, zone>>
      PROVE  LastInv'
  <2>1. desk'[b].cmd = c /\ \A a \in Builder : a # b => desk'[a] = desk[a] BY <1>4, CmdPage
  <2> QED BY <1>1, <1>4, <2>1, LastWrite
<1>5. ASSUME NEW l \in Letter, ZeditType(b, l) PROVE LastInv'
  <2> DEFINE M == [j \in 1..3 |-> IF RefTable(l, j) = "none" THEN 0 ELSE TableOf(RefTable(l, j))[0]]
             c == [Zblank(l) EXCEPT !.means = M]
  <2>1. /\ desk[b].mode = "cmd" /\ desk' = [desk EXCEPT ![b].cmd = c]
        /\ UNCHANGED <<scene, world, zone>>
    BY <1>5 DEF ZeditType
  <2>2. c.letter = l /\ c.means = M
    <3> HIDE DEF M
    <3> QED BY DEF Zblank, Blank
  <2>3. l \in {"M", "O"} => M[3] = TableOf("room")[0]
    <3>1. l \in {"M", "O"} => RefTable(l, 3) = "room" BY DEF RefTable
    <3> QED BY <3>1
  <2> HIDE DEF c, M
  <2>4. Elsewhere(c, z) BY <1>2, <2>2, <2>3 DEF Elsewhere
  <2> QED BY <1>4, <2>1, <2>4
<1>6. ASSUME NEW j \in 1..3, NEW v \in Vnum, ZeditArg(b, j, v) PROVE LastInv'
  <2> DEFINE k == RefTable(desk[b].cmd.letter, j)
             n == IF Real(k, v) > 0 THEN Real(k, v) ELSE 0
             T == TableOf(k)[n]
             c == [desk[b].cmd EXCEPT !.arg[j] = n, !.means[j] = T]
  <2>1. /\ desk[b].mode = "cmd" /\ desk' = [desk EXCEPT ![b].cmd = c]
        /\ UNCHANGED <<scene, world, zone>> /\ <<k, v>> \in scene.types
    BY <1>6 DEF ZeditArg
  <2>2. desk[b] \in [mode : {"cmd"}, nr : Nat, insert : BOOLEAN, cmd : CmdType]
    BY <2>1, PageFacts DEF PageTyped
  <2>3. /\ c.letter = desk[b].cmd.letter
        /\ c.means[3] = IF j = 3 THEN T ELSE desk[b].cmd.means[3]
    <3> HIDE DEF n, T
    <3> QED BY <2>2 DEF CmdType
  <2>4. ASSUME c.letter \in {"M", "O"}, j = 3 PROVE T # z
    <3>1. k = "room" BY <2>3, <2>4 DEF RefTable
    <3>2. v # z BY <1>1, <2>1, <3>1 DEF LastRoom
    <3>3. \/ Real("room", v) = Nowhere
          \/ Real("room", v) \in DOMAIN TableOf("room") /\ TableOf("room")[Real("room", v)] = v
      <4>1. "room" \in Table BY DEF Table
      <4> QED BY <4>1, TableFacts, RealInOf DEF Real
    <3>4. T = v \/ T = TableOf("room")[0] BY <3>1, <3>3 DEF Nowhere
    <3> QED BY <1>2, <3>2, <3>4
  <2>5. Elsewhere(desk[b].cmd, z) BY <1>1, <2>1
  <2> HIDE DEF c, T
  <2>6. Elsewhere(c, z) BY <2>3, <2>4, <2>5 DEF Elsewhere
  <2> QED BY <1>4, <2>1, <2>6
<1>7. ASSUME ZeditSave(b) PROVE LastInv'
  <2>1. /\ \A i \in DOMAIN zone' : zone'[i] = desk[b].cmd \/ \E h \in DOMAIN zone : zone'[i] = zone[h]
        /\ desk[b].mode = "cmd"
    BY <1>7, ZoneSaved
  <2>2. \A i \in DOMAIN zone' : Elsewhere(zone'[i], z) BY <1>1, <2>1
  <2>3. desk' = [desk EXCEPT ![b] = Playing] /\ UNCHANGED <<scene, world>> BY <1>7 DEF ZeditSave
  <2>4. \A a \in Builder : desk'[a] = IF a = b THEN Playing ELSE desk[a] BY <2>3, PageFacts
  <2>5. Playing.mode # "cmd" BY DEF Playing
  <2> QED BY <1>1, <2>2, <2>3, <2>4, <2>5, LastWrite
<1> QED BY <1>3, <1>5, <1>6, <1>7

\* A new room comes before the last one.
LEMMA InsertRoomBefore ==
  ASSUME TablesInv, LastInv, NEW b \in Builder, desk[b].mode = "room", InsertRoom(b)
  PROVE  LET v == desk[b].vnum
             p == Place(Numbers(world), v)
             w == InsertAt(world, p, [desk[b].room EXCEPT !.number = v])
         IN  /\ p \in 1 .. Top(world)
             /\ Inserted(w, world, Top(world), p, [desk[b].room EXCEPT !.number = v])
             /\ WorldTyped(w)
             /\ DOMAIN world' = DOMAIN w /\ Top(world') = Top(world) + 1
             /\ \A r \in DOMAIN w : world'[r].number = w[r].number
             /\ world'[Top(world')].number = world[Top(world)].number
<1> DEFINE v == desk[b].vnum
           f == Numbers(world)
           p == Place(f, v)
           e == [desk[b].room EXCEPT !.number = v]
           w == InsertAt(world, p, e)
           n == Top(world)
<1>1. /\ v \in Nat /\ p \in 1 .. n + 1
      /\ Inserted(w, world, n, p, e) /\ SameRooms(world', w) /\ WorldTyped(w)
  BY InsertRoomWorld
<1>2. PICK z \in scene.rooms : LastRoom(scene, z) /\ world[n].number = z BY DEF LastInv
<1>3. /\ TableTyped(f) /\ Ascending(f) /\ DOMAIN f = 0 .. n
      /\ Top(f) = n /\ \A r \in DOMAIN world : f[r] = world[r].number
  BY WorldFacts, NumbersTyped, TableFacts DEF TableOf, Table
<1>4. n \in Nat /\ n \in DOMAIN world /\ z \in Nat
  <2>1. n \in Nat /\ n \in DOMAIN world BY WorldFacts
  <2> HIDE DEF n
  <2> QED BY <1>2, <2>1, WorldFacts DEF WorldTyped, RoomType
<1>5. p <= n
  <2>1. v < z BY <1>2, RoomPage DEF LastRoom
  <2>2. \A q \in DOMAIN f : q < Place(f, v) => f[q] <= v
    <3> HIDE DEF f, v
    <3> QED BY <1>1, <1>3, PlaceIs
  <2>3. f[n] = z BY <1>2, <1>3, <1>4
  <2> HIDE DEF f, v, n
  <2>4. n \in DOMAIN f BY <1>3, <1>4
  <2>5. ~(n < p) BY <1>1, <1>4, <2>1, <2>2, <2>3, <2>4 DEF p
  <2> HIDE DEF p
  <2> QED BY <1>1, <1>4, <2>5
<1> HIDE DEF f, v, n, p, e, w
<1>6. DOMAIN world' = DOMAIN w /\ \A r \in DOMAIN w : world'[r].number = w[r].number
  BY <1>1, SameNumbers DEF SameRooms
<1>7. Top(w) = n + 1 /\ DOMAIN w = 0 .. n + 1 BY <1>1 DEF Inserted
<1>8. Top(world') = n + 1 BY <1>1, <1>7 DEF SameRooms
<1>9. world'[n + 1].number = world[n].number
  <2>1. Bump(n, p) = n + 1 BY <1>5 DEF Bump
  <2>2. n \in 0 .. n BY <1>4
  <2>3. w[n + 1] = world[n] BY <1>1, <2>1, <2>2 DEF Inserted
  <2>4. n + 1 \in DOMAIN w BY <1>4, <1>7
  <2> QED BY <1>6, <2>3, <2>4
<1>10. p \in 1 .. n BY <1>1, <1>4, <1>5
<1> QED BY <1>1, <1>6, <1>8, <1>9, <1>10 DEF f, v, n, p, e, w

LEMMA LastBuilding ==
  ASSUME TablesInv, ListedInv, LastInv, NEW b \in Builder, Building(b)
  PROVE  LastInv'
<1>1. CmdsKept /\ scene' = scene BY CmdsBuilding
<1>2. world'[Top(world')].number = world[Top(world)].number
  <2>0. "room" \in Table BY DEF Table
  <2>1. CASE SaveRoom(b)
    <3>1. desk[b].mode = "room" BY <2>1 DEF SaveRoom
    <3>2. CASE ReplaceRoom(b)
      <4>1. TableOf("room")' = TableOf("room") BY <2>0, <3>1, <3>2, TablesReplaceRoom
      <4> QED BY <4>1, TopKept
    <3>3. CASE InsertRoom(b) BY <3>1, <3>3, InsertRoomBefore
    <3> QED BY <2>1, <3>2, <3>3 DEF SaveRoom
  <2>2. CASE ~SaveRoom(b)
    <3>1. CASE \E v \in Vnum : Redit(b, v) BY <2>0, <3>1, TablesRedit, TopKept
    <3>2. CASE \E u, v \in Vnum : Rclone(b, u, v) BY <2>0, <3>2, TablesRclone, TopKept
    <3>3. CASE \E k \in Dir, v \in scene.exits : Dig(b, k, v)
      <4>1. PICK k \in Dir, v \in scene.exits : Dig(b, k, v) BY <3>3
      <4>2. at[b] \in DOMAIN world BY <4>1, BuilderRoom DEF Dig
      <4> QED BY <2>0, <4>1, <4>2, TablesDig, TopKept
    <3>4. CASE Abort(b) BY <2>0, <3>4, TablesAbort, TopKept
    <3>5. CASE \/ \E k \in Dir, v \in scene.exits : SetExit(b, k, v)
               \/ \E k \in Dir : ClearExit(b, k)
               \/ \E k \in Proto, v \in Vnum : Open(b, k, v)
               \/ SaveProto(b)
      <4>1. world' = world BY <3>5 DEF SetExit, ClearExit, Open, SaveProto
      <4> QED BY <4>1
    <3> QED BY <2>2, <3>1, <3>2, <3>3, <3>4, <3>5 DEF Building
  <2> QED BY <2>1, <2>2
<1> QED BY <1>1, <1>2, LastKept

LEMMA LastNext ==
  ASSUME TablesInv, ListedInv, WaysInv, LastInv, [Next]_vars
  PROVE  LastInv'
<1>0. "room" \in Table BY DEF Table
<1>1. ASSUME NEW b \in Builder, Edit(b) PROVE LastInv'
  <2>1. NothingDeleted(scene) BY DEF WaysInv
  <2> QED BY <1>1, <2>1, EditIs, LastBuilding, LastZedit
<1>2. ASSUME NEW x \in scene.things, Live(x) PROVE LastInv'
  <2>1. UNCHANGED <<scene, zone, desk>> BY <1>2, LiveSteps DEF Load, Extract
  <2>2. TableOf("room")' = TableOf("room") BY <1>0, <1>2, LiveSteps, TablesLoad, TablesExtract
  <2> QED BY <2>1, <2>2, TopKept, LastKept DEF CmdsKept
<1>3. ASSUME NEW x \in Body, NEW r \in DOMAIN world, Move(x, r) PROVE LastInv'
  <2>1. UNCHANGED <<scene, zone, desk>> BY <1>3 DEF Move
  <2>2. TableOf("room")' = TableOf("room") BY <1>0, <1>3, TablesMove
  <2> QED BY <2>1, <2>2, TopKept, LastKept DEF CmdsKept
<1>4. CASE UNCHANGED vars
  <2>1. UNCHANGED <<scene, zone, desk, world>> BY <1>4 DEF vars
  <2> QED BY <2>1, LastKept DEF CmdsKept
<1> QED BY <1>1, <1>2, <1>3, <1>4 DEF Next

-----------------------------------------------------------------------------
(* In_room and the lists of the rooms.                                     *)

LEMMA DoorsHoused ==
  ASSUME NEW w, WorldTyped(w), NEW w2, NEW place, Housed(w, place), OnlyDoors(w2, w)
  PROVE  Housed(w2, place)
<1>1. DOMAIN w2 = DOMAIN w /\ Top(w2) = Top(w) BY DEF OnlyDoors, Top
<1>2. \A r \in DOMAIN w : w2[r].here = w[r].here /\ w2[r].vehs = w[r].vehs BY DEF OnlyDoors
<1>3. w2[Top(w)].here = {}
  <2>1. Top(w) \in DOMAIN w BY DEF WorldTyped
  <2> QED BY <1>2, <2>1 DEF Housed
<1> QED BY <1>1, <1>2, <1>3 DEF Housed

\* Somebody, not a vehicle, leaves the room he is in.
LEMMA LeaveHoused ==
  ASSUME NEW w, WorldTyped(w), NEW place \in [Body -> Int], Housed(w, place), NEW x \in Body
  PROVE  Housed([w EXCEPT ![place[x]].here = @ \ {x}], [place EXCEPT ![x] = Nowhere])
<1> DEFINE w2 == [w EXCEPT ![place[x]].here = @ \ {x}]
           place2 == [place EXCEPT ![x] = Nowhere]
<1>1. \A q \in DOMAIN w : w[q] \in RoomType BY DEF WorldTyped
<1>2. DOMAIN w = 0 .. Top(w) /\ Top(w) \in Nat BY DEF WorldTyped
<1>3. /\ DOMAIN w2 = DOMAIN w
      /\ \A r \in DOMAIN w : w2[r].here = IF r = place[x] THEN w[r].here \ {x} ELSE w[r].here
      /\ \A r \in DOMAIN w : w2[r].vehs = w[r].vehs
  BY <1>1 DEF RoomType
<1>4. \A y \in Body : place2[y] = IF y = x THEN Nowhere ELSE place[y] OBVIOUS
<1>5. Top(w2) = Top(w) BY <1>3 DEF Top
<1> HIDE DEF w2, place2
<1>6. Nowhere \notin DOMAIN w BY <1>2 DEF Nowhere
<1>7. \A y \in Body : place2[y] \in DOMAIN w2 \cup {Nowhere} BY <1>3, <1>4 DEF Housed
<1>8. ASSUME NEW y \in Body, NEW r \in DOMAIN w2 PROVE y \in w2[r].here <=> place2[y] = r
  <2>1. r \in DOMAIN w /\ (y \in w[r].here <=> place[y] = r) BY <1>3 DEF Housed
  <2>2. CASE y = x BY <1>3, <1>4, <1>6, <2>1, <2>2
  <2>3. CASE y # x BY <1>3, <1>4, <2>1, <2>3
  <2> QED BY <2>2, <2>3
<1>9. w2[Top(w2)].here = {}
  <2>1. Top(w) \in DOMAIN w /\ w[Top(w)].here = {} BY <1>2 DEF Housed
  <2>2. w2[Top(w)].here = {} BY <1>3, <2>1
  <2> QED BY <1>5, <2>2
<1>10. \A r \in DOMAIN w2 : w2[r].vehs = {} BY <1>3 DEF Housed
<1> QED BY <1>7, <1>8, <1>9, <1>10 DEF Housed, w2, place2

\* Somebody, not a vehicle, who is nowhere comes into a room that is not the
\* last.
LEMMA EnterHoused ==
  ASSUME NEW w, WorldTyped(w), NEW place \in [Body -> Int], Housed(w, place), NEW x \in Body,
         place[x] = Nowhere, NEW r \in DOMAIN w, r # Top(w)
  PROVE  Housed([w EXCEPT ![r].here = @ \cup {x}], [place EXCEPT ![x] = r])
<1> DEFINE w2 == [w EXCEPT ![r].here = @ \cup {x}]
           place2 == [place EXCEPT ![x] = r]
<1>1. \A q \in DOMAIN w : w[q] \in RoomType BY DEF WorldTyped
<1>2. DOMAIN w = 0 .. Top(w) /\ Top(w) \in Nat BY DEF WorldTyped
<1>3. /\ DOMAIN w2 = DOMAIN w
      /\ \A q \in DOMAIN w : w2[q].here = IF q = r THEN w[q].here \cup {x} ELSE w[q].here
      /\ \A q \in DOMAIN w : w2[q].vehs = w[q].vehs
  BY <1>1 DEF RoomType
<1>4. \A y \in Body : place2[y] = IF y = x THEN r ELSE place[y] OBVIOUS
<1>5. Top(w2) = Top(w) BY <1>3 DEF Top
<1> HIDE DEF w2, place2
<1>6. Nowhere \notin DOMAIN w BY <1>2 DEF Nowhere
<1>7. \A y \in Body : place2[y] \in DOMAIN w2 \cup {Nowhere} BY <1>3, <1>4 DEF Housed
<1>8. ASSUME NEW y \in Body, NEW q \in DOMAIN w2 PROVE y \in w2[q].here <=> place2[y] = q
  <2>1. q \in DOMAIN w /\ (y \in w[q].here <=> place[y] = q) BY <1>3 DEF Housed
  <2>2. CASE y = x BY <1>3, <1>4, <1>6, <2>1, <2>2
  <2>3. CASE y # x BY <1>3, <1>4, <2>1, <2>3
  <2> QED BY <2>2, <2>3
<1>9. w2[Top(w2)].here = {}
  <2>1. Top(w) \in DOMAIN w /\ w[Top(w)].here = {} BY <1>2 DEF Housed
  <2>2. w2[Top(w)].here = {} BY <1>3, <2>1
  <2> QED BY <1>5, <2>2
<1>10. \A q \in DOMAIN w2 : w2[q].vehs = {} BY <1>3 DEF Housed
<1> QED BY <1>7, <1>8, <1>9, <1>10 DEF Housed, w2, place2

\* An empty room is inserted before the last one: who is renumbered is who is
\* in a later room.
LEMMA InsertHoused ==
  ASSUME NEW n \in Nat, DOMAIN world = 0 .. n, Top(world) = n, Housed(world, at),
         at \in [Body -> Int],
         NEW p \in 1 .. n, NEW e, e.here = {}, e.vehs = {}, NEW w, Inserted(w, world, n, p, e),
         NEW place,
         \A x \in Body : place[x] = IF x \in Shifted(w, p) /\ at[x] # Nowhere
                                    THEN at[x] + 1 ELSE at[x]
  PROVE  /\ Housed(w, place)
         /\ \A x \in Body : place[x] = IF at[x] = Nowhere THEN Nowhere ELSE Bump(at[x], p)
<1>1. /\ DOMAIN w = 0 .. n + 1 /\ Top(w) = n + 1 /\ w[p] = e
      /\ \A r \in 0 .. n : /\ Bump(r, p) \in 0 .. n + 1 /\ Bump(r, p) # p
                           /\ w[Bump(r, p)] = world[r]
      /\ \A q \in 0 .. n + 1 : q # p => \E r \in 0 .. n : q = Bump(r, p)
  BY DEF Inserted
<1>2. \A x \in Body : at[x] # Nowhere => at[x] \in 0 .. n /\ at[x] # n
  BY DEF Housed
<1>3. ASSUME NEW q \in p + 1 .. n
      PROVE  w[q] = world[q - 1] /\ q - 1 \in 0 .. n
  <2>1. q - 1 \in 0 .. n /\ Bump(q - 1, p) = q BY DEF Bump
  <2> QED BY <1>1, <2>1
<1>4. ASSUME NEW x \in Body, at[x] # Nowhere
      PROVE  x \in Shifted(w, p) <=> at[x] >= p
  <2>1. at[x] \in 0 .. n /\ at[x] # n BY <1>2, <1>4
  <2>2. x \in Shifted(w, p) <=> \E q \in p + 1 .. n : x \in w[q].here \cup w[q].vehs
    BY <1>1, SMTT(30) DEF Shifted
  <2>3. \A q \in p + 1 .. n : x \in w[q].here \cup w[q].vehs <=> at[x] = q - 1
    BY <1>3 DEF Housed
  <2>4. at[x] >= p => at[x] + 1 \in p + 1 .. n BY <2>1
  <2>5. ASSUME at[x] >= p PROVE \E q \in p + 1 .. n : at[x] = q - 1
    <3>1. at[x] + 1 \in p + 1 .. n /\ at[x] = (at[x] + 1) - 1 BY <2>1, <2>4, <2>5
    <3> QED BY <3>1
  <2>6. ASSUME NEW q \in p + 1 .. n, at[x] = q - 1 PROVE at[x] >= p BY <2>6
  <2> QED BY <2>2, <2>3, <2>5, <2>6
<1>5. \A x \in Body : place[x] = IF at[x] = Nowhere THEN Nowhere ELSE Bump(at[x], p)
  BY <1>4 DEF Bump
<1>6. ASSUME NEW x \in Body PROVE place[x] \in DOMAIN w \cup {Nowhere}
  <2>1. at[x] # Nowhere => at[x] \in 0 .. n BY <1>2
  <2> QED BY <1>1, <1>5, <2>1
<1>7. ASSUME NEW x \in Body, NEW q \in DOMAIN w PROVE x \in w[q].here <=> place[x] = q
  <2>0. q # Nowhere /\ q \in 0 .. n + 1 BY <1>1 DEF Nowhere
  <2>1. at[x] # Nowhere => at[x] \in 0 .. n BY <1>2
  <2>2. CASE q = p BY <1>1, <1>5, <2>0, <2>1, <2>2
  <2>3. CASE q # p
    <3>1. PICK k \in 0 .. n : q = Bump(k, p) BY <1>1, <2>0, <2>3
    <3>2. w[q] = world[k] /\ (x \in world[k].here <=> at[x] = k) BY <1>1, <3>1, ZenonT(40) DEF Housed
    <3>3. ASSUME at[x] # Nowhere PROVE at[x] = k <=> Bump(at[x], p) = q
      <4>1. at[x] \in Int /\ k \in Int /\ p \in Int OBVIOUS
      <4> QED BY <3>1, <4>1 DEF Bump
    <3>4. k # Nowhere BY DEF Nowhere
    <3> QED BY <1>5, <2>0, <3>2, <3>3, <3>4
  <2> QED BY <2>2, <2>3
<1>8. ASSUME NEW q \in DOMAIN w PROVE w[q].vehs = {}
  <2>1. CASE q = p BY <1>1, <2>1
  <2>2. CASE q # p
    <3>1. PICK k \in 0 .. n : q = Bump(k, p) BY <1>1, <2>2
    <3> QED BY <1>1, <3>1, SMTT(30) DEF Housed
  <2> QED BY <2>1, <2>2
<1>9. w[Top(w)].here = {}
  <2>1. Bump(n, p) = n + 1 /\ n \in 0 .. n BY DEF Bump
  <2>2. w[n + 1] = world[n] BY <1>1, <2>1
  <2> QED BY <1>1, <2>2 DEF Housed
<1> QED BY <1>5, <1>6, <1>7, <1>8, <1>9 DEF Housed

\* A builder comes back into a world in which all but he are housed.
LEMMA BackHoused ==
  ASSUME NEW b \in Builder, NEW w, WorldTyped(w), NEW place \in [Body -> Int],
         Housed(w, place), place[b] = Nowhere, NEW back, back[b] # Top(w), Top(w) > 0,
         ComeBack(b, w, place, back)
  PROVE  Housed(world', at')
<1> DEFINE r == CharRoom(w, back[b])
<1>1. world' = [w EXCEPT ![r].here = @ \cup {b}] /\ at' = [place EXCEPT ![b] = r]
  BY DEF ComeBack
<1>2. r \in DOMAIN w /\ r # Top(w) BY DEF CharRoom, WorldTyped
<1>3. b \in Body BY DEF Body
<1> HIDE DEF r
<1> QED BY <1>1, <1>2, <1>3, EnterHoused

\* A step after which everybody who was nowhere is nowhere, and no number of a
\* room is lost.
LEMMA AwayKept ==
  ASSUME NEW c \in Builder, Away(c), desk'[c] = desk[c], was'[c] # Top(world'),
         at[c] = Nowhere => at'[c] = Nowhere,
         \A r \in DOMAIN world : \E q \in DOMAIN world' : world'[q].number = world[r].number
  PROVE  Away(c)'
<1>1. desk'[c].mode = "room" => at'[c] = Nowhere BY DEF Away
<1>2. EmptyCopy(desk'[c], world') BY DEF Away, EmptyCopy
<1> QED BY <1>1, <1>2 DEF Away

\* Steps at the desks.
LEMMA SettledDesks ==
  ASSUME Settled, UNCHANGED <<world, at, was, inst, vlist>>,
         \A c \in Builder : desk'[c].mode = "room" =>
           /\ desk[c].mode = "room" /\ desk'[c].vnum = desk[c].vnum
           /\ desk'[c].room.here = desk[c].room.here /\ desk'[c].room.vehs = desk[c].room.vehs
  PROVE  Settled'
<1>1. ASSUME NEW c \in Builder PROVE Away(c)'
  <2>1. Away(c) BY DEF Settled
  <2>2. desk'[c].mode = "room" => at'[c] = Nowhere BY <2>1 DEF Away
  <2>3. EmptyCopy(desk'[c], world') BY <2>1 DEF Away, EmptyCopy
  <2>4. was'[c] # Top(world') BY <2>1 DEF Away
  <2> QED BY <2>2, <2>3, <2>4 DEF Away
<1> QED BY <1>1 DEF Settled

\* The same for a page at one of them.
LEMMA SettledDesk ==
  ASSUME TablesInv, Settled, UNCHANGED <<world, at, was, inst, vlist>>,
         NEW b \in Builder, NEW page, desk' = [desk EXCEPT ![b] = page],
         page.mode = "room" =>
           /\ desk[b].mode = "room" /\ page.vnum = desk[b].vnum
           /\ page.room.here = desk[b].room.here /\ page.room.vehs = desk[b].room.vehs
  PROVE  Settled'
<1>1. \A c \in Builder : desk'[c] = IF c = b THEN page ELSE desk[c] BY PageFacts
<1> QED BY <1>1, SettledDesks

\* People and things move, and the rooms keep their numbers.
LEMMA SettledMoves ==
  ASSUME Settled, UNCHANGED <<was, desk, vlist>>, Housed(world', at'), OnlyPeople(world', world),
         \A c \in Builder : at[c] = Nowhere => at'[c] = Nowhere,
         \A x \in Thing : inst'[x] = None => at'[x] = Nowhere
  PROVE  Settled'
<1>1. Top(world') = Top(world) BY DEF OnlyPeople, Top
<1>2. \A r \in DOMAIN world : \E q \in DOMAIN world' : world'[q].number = world[r].number
  BY DEF OnlyPeople
<1>3. ASSUME NEW c \in Builder PROVE Away(c)'
  <2>1. Away(c) BY DEF Settled
  <2>2. was'[c] # Top(world') BY <1>1, <2>1 DEF Away
  <2> QED BY <1>2, <2>1, <2>2, AwayKept
<1> QED BY <1>3 DEF Settled

\* A builder comes back to a world in which all but he are housed.
LEMMA SettledBack ==
  ASSUME TablesInv, NEW b \in Builder, NEW w, WorldTyped(w), NEW place \in [Body -> Int],
         Housed(w, place), place[b] = Nowhere, NEW back \in [Builder -> Int],
         ComeBack(b, w, place, back), Top(w) > 0, vlist' = <<>>,
         \A c \in Builder : /\ back[c] # Top(w)
                            /\ desk[c].mode = "room" => place[c] = Nowhere
                            /\ EmptyCopy(desk[c], w),
         \A x \in Thing : inst'[x] = None => place[x] = Nowhere
  PROVE  Settled'
<1>1. Housed(world', at') BY BackHoused
<1>2. OnlyPeople(world', w) BY ComeBackPeople
<1>3. Top(world') = Top(w) BY <1>2 DEF OnlyPeople, Top
<1>4. /\ at' = [place EXCEPT ![b] = CharRoom(w, back[b])]
      /\ was' = [back EXCEPT ![b] = Nowhere] /\ desk' = [desk EXCEPT ![b] = Playing]
  BY DEF ComeBack
<1>5. \A c \in Builder : c # b => at'[c] = place[c] BY <1>4
<1>6. \A x \in Thing : at'[x] = place[x] BY <1>4, OlcAssumption
<1>7. ASSUME NEW c \in Builder PROVE Away(c)'
  <2>1. CASE c = b
    <3>1. was'[c] = Nowhere /\ desk'[c] = Playing BY <1>4, <2>1, PageFacts
    <3>2. Playing.mode # "room" BY DEF Playing
    <3>3. was'[c] # Top(world') BY <1>3, <3>1 DEF Nowhere
    <3> QED BY <3>1, <3>2, <3>3 DEF Away, EmptyCopy
  <2>2. CASE c # b
    <3>1. was'[c] = back[c] /\ desk'[c] = desk[c] BY <1>4, <2>2
    <3>2. desk'[c].mode = "room" => at'[c] = Nowhere BY <1>5, <2>2, <3>1
    <3>3. EmptyCopy(desk'[c], world') BY <1>2, <3>1 DEF EmptyCopy, OnlyPeople
    <3> QED BY <1>3, <3>1, <3>2, <3>3 DEF Away
  <2> QED BY <2>1, <2>2
<1> QED BY <1>1, <1>6, <1>7 DEF Settled

-----------------------------------------------------------------------------

\* Nothing in the game is a vehicle.
LEMMA NotVeh ==
  ASSUME NamesInv
  PROVE  \A x : ~IsVeh(x)
  BY DEF NamesInv, InstanceOf, IsVeh

LEMMA SettledMove ==
  ASSUME TablesInv, NamesInv, LastInv, Settled, NEW x \in Body, NEW r \in DOMAIN world, Move(x, r)
  PROVE  Settled'
<1> DEFINE w == [world EXCEPT ![at[x]].here = @ \ {x}]
           place == [at EXCEPT ![x] = Nowhere]
<1>1. /\ at[x] # Nowhere /\ world[r].number \in scene.roam /\ at' = [at EXCEPT ![x] = r]
      /\ world' = [w EXCEPT ![r].here = @ \cup {x}]
      /\ UNCHANGED <<was, desk, inst, vlist>>
  BY NotVeh DEF Move, FromRoom
<1>2. r # Top(world)
  <2>1. PICK z \in scene.rooms : LastRoom(scene, z) /\ world[Top(world)].number = z
    BY DEF LastInv
  <2> QED BY <1>1, <2>1 DEF LastRoom
<1>3. Housed(w, place) BY WorldFacts, LeaveHoused DEF Settled
<1>4. OnlyPeople(w, world) /\ SameRooms(w, world)
  <2>1. w = FromRoom(world, x, at[x]) BY NotVeh DEF FromRoom
  <2> HIDE DEF w
  <2> QED BY <2>1, WorldFacts, PeopleOnly, FromRoomSame
<1>5. place \in [Body -> Int] /\ place[x] = Nowhere BY WorldFacts DEF Nowhere
<1>6. at' = [place EXCEPT ![x] = r] BY <1>1
<1> HIDE DEF w, place
<1>7. WorldTyped(w) /\ DOMAIN w = DOMAIN world /\ Top(w) = Top(world)
  BY <1>4 DEF SameRooms, OnlyPeople
<1>8. Housed(world', at')
  <2>1. r \in DOMAIN w /\ r # Top(w) BY <1>2, <1>7
  <2>2. Housed([w EXCEPT ![r].here = @ \cup {x}], [place EXCEPT ![x] = r])
    BY <1>3, <1>5, <1>7, <2>1, EnterHoused
  <2> QED BY <1>1, <1>6, <2>2
<1>9. OnlyPeople(world', world)
  <2>1. OnlyPeople(world', w) BY <1>1, <1>7, PeopleOnly
  <2> QED BY <1>4, <2>1, PeopleTwice
<1>10. \A y \in Body : y # x => at'[y] = at[y] BY <1>1, WorldFacts
<1>11. \A c \in Builder : at[c] = Nowhere => at'[c] = Nowhere BY <1>1, <1>10 DEF Body
<1>12. \A y \in Thing : inst'[y] = None => at'[y] = Nowhere
  BY <1>1, <1>10 DEF Settled, Body
<1> QED BY <1>1, <1>8, <1>9, <1>11, <1>12, SettledMoves

LEMMA SettledLoad ==
  ASSUME TablesInv, NamesInv, LastInv, Settled, NEW x \in Thing, NEW i \in DOMAIN zone, Load(x, i)
  PROVE  Settled'
<1> DEFINE c == zone[i]
           k == RefTable(c.letter, 1)
           r == CASE c.letter = "M"                                 -> CharRoom(world, c.arg[3])
             [] c.letter \in {"O", "V"} /\ c.arg[3] \in DOMAIN world -> c.arg[3]
             [] OTHER                                          -> Nowhere
           n == [kind |-> k, nr |-> c.arg[1], isa |-> index[k][c.arg[1]]]
<1>1. /\ k \in Proto /\ inst[x] = None /\ inst' = [inst EXCEPT ![x] = n]
      /\ at' = [at EXCEPT ![x] = r]
      /\ world' = IF r = Nowhere THEN world
                  ELSE IF k = "veh" THEN [world EXCEPT ![r].vehs = @ \cup {x}]
                  ELSE [world EXCEPT ![r].here = @ \cup {x}]
      /\ vlist' = IF k = "veh" THEN <<x>> \o vlist ELSE vlist
      /\ UNCHANGED <<was, desk>>
  BY DEF Load
<1>2. FaithfulTo(Tables, c) /\ c.letter # "V" BY DEF NamesInv, FaithfulTo
<1>3. k # "veh"
  <2> HIDE DEF c
  <2> QED BY <1>2 DEF RefTable
<1>4. n # None
  <2>0. k \in Table /\ k # "room" BY <1>1 DEF Table, Proto
  <2>1. c.arg[1] \in DOMAIN Tables[k] BY <1>1, <1>2 DEF FaithfulTo
  <2>2. Tables[k] = index[k] BY <2>0 DEF Tables, TableOf
  <2>3. c \in CmdType BY DEF TablesInv, Typed
  <2>4. TableTyped(index[k]) BY <1>1 DEF TablesInv, Typed
  <2> HIDE DEF k, c
  <2>5. c.arg[1] \in Int /\ index[k][c.arg[1]] \in Nat
    BY <2>1, <2>2, <2>3, <2>4 DEF TableTyped, CmdType
  <2>6. n \in [kind : Proto, nr : Int, isa : Nat] BY <1>1, <2>5
  <2> HIDE DEF n
  <2> QED BY <2>6, OlcAssumption
<1>5. r = Nowhere \/ (r \in DOMAIN world /\ r # Top(world))
  <2>1. PICK z \in scene.rooms : /\ world[Top(world)].number = z
                                 /\ \A j \in DOMAIN zone : Elsewhere(zone[j], z)
    BY DEF LastInv
  <2>2. ASSUME c.letter \in {"M", "O"}
        PROVE  c.arg[3] \in DOMAIN world /\ c.arg[3] # Top(world)
    <3>1. RefTable(c.letter, 3) = "room" BY <2>2 DEF RefTable
    <3>2. c.arg[3] \in DOMAIN Tables["room"] /\ Tables["room"][c.arg[3]] = c.means[3]
      BY <1>2, <2>2, <3>1 DEF FaithfulTo
    <3>3. Tables["room"] = Numbers(world) BY DEF Tables, Table, TableOf
    <3>4. c.means[3] # z BY <2>1, <2>2 DEF Elsewhere
    <3> QED BY <2>1, <3>2, <3>3, <3>4 DEF Numbers
  <2> HIDE DEF c
  <2> QED BY <1>2, <2>2 DEF CharRoom
<1> HIDE DEF r, n, k
<1>6. Housed(world', at') /\ OnlyPeople(world', world)
  <2>1. x \in Body /\ at[x] = Nowhere BY <1>1 DEF Body, Settled
  <2>2. CASE r = Nowhere
    <3>1. at' = at /\ world' = world BY <1>1, <2>1, <2>2, WorldFacts
    <3>2. OnlyPeople(world, world) BY DEF OnlyPeople
    <3> QED BY <3>1, <3>2 DEF Settled
  <2>3. CASE r # Nowhere
    <3>1. world' = [world EXCEPT ![r].here = @ \cup {x}] BY <1>1, <1>3, <2>3
    <3>2. OnlyPeople(world', world) BY <3>1, WorldFacts, PeopleOnly
    <3>3. r \in DOMAIN world /\ r # Top(world) BY <1>5, <2>3
    <3>4. Housed([world EXCEPT ![r].here = @ \cup {x}], [at EXCEPT ![x] = r])
      BY <2>1, <3>3, WorldFacts, EnterHoused DEF Settled
    <3> QED BY <1>1, <3>1, <3>2, <3>4
  <2> QED BY <2>2, <2>3
<1>7. \A y \in Body : y # x => at'[y] = at[y] BY <1>1, WorldFacts
<1>8. \A b \in Builder : at[b] = Nowhere => at'[b] = Nowhere BY <1>7, OlcAssumption DEF Body
<1>9. \A y \in Thing : inst'[y] = None => at'[y] = Nowhere
  BY <1>1, <1>4, <1>7 DEF Settled, Body, NamesInv
<1>10. vlist' = vlist BY <1>1, <1>3
<1> QED BY <1>1, <1>6, <1>8, <1>9, <1>10, SettledMoves

LEMMA SettledExtract ==
  ASSUME TablesInv, NamesInv, Settled, NEW x \in Thing, Extract(x)
  PROVE  Settled'
<1>1. /\ at' = [at EXCEPT ![x] = Nowhere] /\ inst' = [inst EXCEPT ![x] = None]
      /\ world' = IF at[x] = Nowhere THEN world ELSE [world EXCEPT ![at[x]].here = @ \ {x}]
      /\ UNCHANGED <<was, desk, vlist>>
  BY NotVeh DEF Extract, FromRoom
<1>2. x \in Body BY DEF Body
<1>3. Housed(world', at') /\ OnlyPeople(world', world)
  <2>1. CASE at[x] = Nowhere
    <3>1. at' = at /\ world' = world BY <1>1, <1>2, <2>1, WorldFacts
    <3>2. OnlyPeople(world, world) BY DEF OnlyPeople
    <3> QED BY <3>1, <3>2 DEF Settled
  <2>2. CASE at[x] # Nowhere
    <3>1. world' = [world EXCEPT ![at[x]].here = @ \ {x}] BY <1>1, <2>2
    <3>2. Housed([world EXCEPT ![at[x]].here = @ \ {x}], [at EXCEPT ![x] = Nowhere])
      BY <1>2, WorldFacts, LeaveHoused DEF Settled
    <3>3. world' = FromRoom(world, x, at[x]) BY <3>1, NotVeh DEF FromRoom
    <3>4. OnlyPeople(world', world) BY <3>3, WorldFacts, PeopleOnly
    <3> QED BY <1>1, <3>1, <3>2, <3>4
  <2> QED BY <2>1, <2>2
<1>4. \A y \in Body : at'[y] = IF y = x THEN Nowhere ELSE at[y] BY <1>1, WorldFacts
<1>5. \A b \in Builder : at[b] = Nowhere => at'[b] = Nowhere BY <1>4 DEF Body
<1>6. \A y \in Thing : inst'[y] = None => at'[y] = Nowhere
  BY <1>1, <1>4 DEF Settled, Body
<1> QED BY <1>1, <1>3, <1>5, <1>6, SettledMoves

\* A builder goes to the editor of rooms; what he takes along is in no room.
LEMMA SettledWithdraw ==
  ASSUME TablesInv, Settled, NEW b \in Builder, NEW page, Withdraw(b, page),
         EmptyCopy(page, world)
  PROVE  Settled'
<1>1. b \in Body /\ ~IsVeh(b) BY OlcAssumption DEF Body, IsVeh
<1>2. /\ at[b] # Nowhere /\ desk' = [desk EXCEPT ![b] = page]
      /\ was' = [was EXCEPT ![b] = at[b]] /\ at' = [at EXCEPT ![b] = Nowhere]
      /\ world' = FromRoom(world, b, at[b]) /\ UNCHANGED <<inst, vlist>>
  BY DEF Withdraw
<1>3. Housed(world', at')
  <2>1. world' = [world EXCEPT ![at[b]].here = @ \ {b}] BY <1>1, <1>2 DEF FromRoom
  <2>2. Housed([world EXCEPT ![at[b]].here = @ \ {b}], [at EXCEPT ![b] = Nowhere])
    BY <1>1, WorldFacts, LeaveHoused DEF Settled
  <2> QED BY <1>2, <2>1, <2>2
<1>4. OnlyPeople(world', world) BY <1>2, WorldFacts, PeopleOnly
<1>5. Top(world') = Top(world) BY <1>4 DEF OnlyPeople, Top
<1>6. \A y \in Body : at'[y] = IF y = b THEN Nowhere ELSE at[y] BY <1>2, WorldFacts
<1>7. at[b] # Top(world)
  <2>1. Top(world) \in DOMAIN world BY WorldFacts
  <2> QED BY <1>1, <2>1 DEF Settled, Housed
<1>8. \A r \in DOMAIN world : \E q \in DOMAIN world' : world'[q].number = world[r].number
  BY <1>4 DEF OnlyPeople
<1>9. ASSUME NEW c \in Builder PROVE Away(c)'
  <2>0. Away(c) BY DEF Settled
  <2>1. CASE c = b
    <3>1. desk'[c] = page /\ at'[c] = Nowhere BY <1>1, <1>2, <1>6, <2>1, PageFacts
    <3>2. was'[c] = was[c] \/ was'[c] = at[b] BY <1>2
    <3>3. was'[c] # Top(world') BY <1>5, <1>7, <2>0, <3>2 DEF Away
    <3>4. EmptyCopy(desk'[c], world') BY <1>8, <3>1 DEF EmptyCopy
    <3> QED BY <3>1, <3>3, <3>4 DEF Away
  <2>2. CASE c # b
    <3>1. desk'[c] = desk[c] /\ was'[c] = was[c] BY <1>2, <2>2
    <3>2. at'[c] = at[c] BY <1>6, <2>2 DEF Body
    <3>3. was'[c] # Top(world') BY <1>5, <2>0, <3>1 DEF Away
    <3> QED BY <1>8, <2>0, <3>1, <3>2, <3>3, AwayKept
  <2> QED BY <2>1, <2>2
<1>10. \A y \in Thing : inst'[y] = None => at'[y] = Nowhere
  BY <1>2, <1>6 DEF Settled, Body
<1> QED BY <1>2, <1>3, <1>9, <1>10 DEF Settled

LEMMA SettledRedit ==
  ASSUME TablesInv, Settled, NEW b \in Builder, NEW v, Redit(b, v)
  PROVE  Settled'
<1> DEFINE n == Real("room", v)
           w == FromRoom(world, b, at[b])
           R == IF n = Nowhere THEN NewRoom ELSE w[n]
           page == [mode |-> "room", vnum |-> v, room |-> R]
<1>1. Withdraw(b, page) BY DEF Redit
<1>2. \/ n = Nowhere
      \/ n \in DOMAIN world /\ world[n].number = v
  <2>1. n = RealIn(Numbers(world), v) BY DEF Real, TableOf
  <2> HIDE DEF n
  <2> QED BY <2>1, RealInOf, NumbersTyped, WorldFacts
<1>3. R.vehs = {} /\ (R.here = {} \/ \E r \in DOMAIN world : world[r].number = v)
  <2>1. CASE n = Nowhere BY <2>1 DEF NewRoom
  <2>2. CASE n # Nowhere
    <3>1. n \in DOMAIN world /\ world[n].number = v BY <1>2, <2>2
    <3>2. w = [world EXCEPT ![at[b]].here = @ \ {b}] BY OlcAssumption DEF FromRoom, IsVeh
    <3>3. \A r \in DOMAIN world : world[r] \in RoomType BY WorldFacts DEF WorldTyped
    <3>4. \A r \in DOMAIN world : w[r].vehs = world[r].vehs
      <4> HIDE DEF w
      <4> QED BY <3>2, <3>3 DEF RoomType
    <3>5. R = w[n] BY <2>2
    <3> HIDE DEF n, w, R
    <3> QED BY <3>1, <3>4, <3>5 DEF Settled, Housed
  <2> QED BY <2>1, <2>2
<1> HIDE DEF R
<1>4. EmptyCopy(page, world) BY <1>3 DEF EmptyCopy
<1> HIDE DEF page
<1> QED BY <1>1, <1>4, SettledWithdraw

LEMMA SettledRclone ==
  ASSUME TablesInv, Settled, NEW b \in Builder, NEW u, NEW v, Rclone(b, u, v)
  PROVE  Settled'
<1> DEFINE n == Real("room", u)
           R == [world[n] EXCEPT !.here = {}]
           page == [mode |-> "room", vnum |-> v, room |-> R]
<1>1. Withdraw(b, page) /\ n # Nowhere BY DEF Rclone
<1>2. n \in DOMAIN world
  <2>1. n = RealIn(Numbers(world), u) BY DEF Real, TableOf
  <2> HIDE DEF n
  <2> QED BY <1>1, <2>1, RealInOf, NumbersTyped, WorldFacts
<1>3. R.vehs = {} /\ R.here = {}
  <2>1. world[n] \in RoomType /\ world[n].vehs = {}
    <3> HIDE DEF n
    <3> QED BY <1>2, WorldFacts DEF WorldTyped, Settled, Housed
  <2> HIDE DEF n
  <2> QED BY <2>1 DEF RoomType
<1> HIDE DEF R
<1>4. EmptyCopy(page, world) BY <1>3 DEF EmptyCopy
<1> HIDE DEF page
<1> QED BY <1>1, <1>4, SettledWithdraw

LEMMA SettledExit ==
  ASSUME TablesInv, Settled, NEW b \in Builder, NEW k \in Dir, NEW d,
         desk[b].mode = "room", desk' = [desk EXCEPT ![b].room.door[k] = d],
         UNCHANGED <<world, at, was, inst, vlist>>
  PROVE  Settled'
<1>1. PICK page : /\ page.mode = "room" /\ page.vnum = desk[b].vnum
                  /\ page.room.here = desk[b].room.here /\ page.room.vehs = desk[b].room.vehs
                  /\ desk' = [desk EXCEPT ![b] = page]
  BY ExitPage
<1> QED BY <1>1, SettledDesk

LEMMA SettledSaveProto ==
  ASSUME TablesInv, NamesInv, Settled, NEW b \in Builder, SaveProto(b)
  PROVE  Settled'
<1>1. /\ desk[b].mode \in Proto /\ desk' = [desk EXCEPT ![b] = Playing]
      /\ UNCHANGED <<world, at, was>>
  BY DEF SaveProto
<1>2. vlist' = vlist
  <2>1. CASE ReplaceProto(b)
    <3>1. vlist = <<>> BY DEF Settled
    <3> QED BY <2>1, <3>1 DEF ReplaceProto
  <2>2. CASE InsertProto(b) BY <2>2 DEF InsertProto
  <2> QED BY <2>1, <2>2 DEF SaveProto
<1>3. \A x \in Thing : inst'[x] = None => inst[x] = None
  <2>1. CASE ReplaceProto(b) BY <2>1 DEF ReplaceProto
  <2>2. CASE InsertProto(b)
    <3>a. PICK k : k = desk[b].mode OBVIOUS
    <3>b. PICK p : p = Place(TableOf(k), desk[b].vnum) OBVIOUS
    <3>1. p \in Int
      <4>1. /\ k \in Table /\ p \in 1 .. Top(TableOf(k)) + 1
        BY <1>1, <2>2, <3>a, <3>b, InsertProtoIndex
      <4> QED BY <4>1
    <3>2. inst' = [x \in Thing |-> IF x \in Known(k) THEN [inst[x] EXCEPT !.nr = Bump(@, p)]
                                   ELSE inst[x]]
      <4>1. TableOf(k) = index[k] BY <1>1, <3>a DEF TableOf, Proto
      <4> QED BY <2>2, <3>a, <3>b, <4>1 DEF InsertProto
    <3>3. ASSUME NEW x \in Thing, inst[x] # None PROVE inst'[x] # None
      <4>1. inst[x] \in [kind : {"mob", "obj"}, nr : Int, isa : Nat]
        BY <3>3 DEF NamesInv, InstanceOf
      <4>2. \A i \in Int : Bump(i, p) \in Int BY <3>1 DEF Bump
      <4>3. [inst[x] EXCEPT !.nr = Bump(@, p)] \in [kind : {"mob", "obj"}, nr : Int, isa : Nat]
        BY <4>1, <4>2
      <4>4. inst'[x] \in [kind : {"mob", "obj"}, nr : Int, isa : Nat] BY <3>2, <4>1, <4>3
      <4>5. inst'[x] \in [kind : Proto, nr : Int, isa : Nat] BY <4>4 DEF Proto
      <4> QED BY <4>5, OlcAssumption
    <3> QED BY <3>3
  <2> QED BY <2>1, <2>2 DEF SaveProto
<1>4. \A c \in Builder : desk'[c] = IF c = b THEN Playing ELSE desk[c] BY <1>1, PageFacts
<1>5. Playing.mode # "room" BY DEF Playing
<1>6. OnlyPeople(world', world) BY <1>1 DEF OnlyPeople
<1>7. \A r \in DOMAIN world : \E q \in DOMAIN world' : world'[q].number = world[r].number
  BY <1>1
<1>8. ASSUME NEW c \in Builder PROVE Away(c)'
  <2>0. Away(c) BY DEF Settled
  <2>1. was'[c] # Top(world') BY <1>1, <2>0 DEF Away
  <2>2. CASE c = b
    <3>1. desk'[c].mode # "room" BY <1>4, <1>5, <2>2
    <3> QED BY <2>1, <3>1 DEF Away, EmptyCopy
  <2>3. CASE c # b
    <3>1. desk'[c] = desk[c] BY <1>4, <2>3
    <3> QED BY <1>1, <1>7, <2>0, <2>1, <3>1, AwayKept
  <2> QED BY <2>2, <2>3
<1> QED BY <1>1, <1>2, <1>3, <1>8 DEF Settled

LEMMA SettledAbort ==
  ASSUME TablesInv, WaysInv, LastInv, Settled, NEW b \in Builder, Abort(b)
  PROVE  Settled'
<1>1. UNCHANGED <<inst, vlist>> BY DEF Abort
<1>2. CASE desk[b].mode = "room"
  <2>1. ComeBack(b, world, at, was) BY <1>2 DEF Abort
  <2>2. at[b] = Nowhere BY <1>2 DEF Settled, Away
  <2>3. Top(world) > 0 BY LastFacts DEF LastInv
  <2>4. was \in [Builder -> Int] BY WaysIs
  <2>5. \A c \in Builder : /\ was[c] # Top(world)
                           /\ desk[c].mode = "room" => at[c] = Nowhere
                           /\ EmptyCopy(desk[c], world)
    BY DEF Settled, Away
  <2>6. Housed(world, at) /\ vlist' = <<>> /\ \A x \in Thing : inst'[x] = None => at[x] = Nowhere
    BY <1>1 DEF Settled
  <2> QED BY <2>1, <2>2, <2>3, <2>4, <2>5, <2>6, WorldFacts, SettledBack
<1>3. CASE desk[b].mode # "room"
  <2>1. UNCHANGED <<world, at, was>> /\ desk' = [desk EXCEPT ![b] = Playing]
    BY <1>3 DEF Abort, ComeBack
  <2>2. Playing.mode # "room" BY DEF Playing
  <2> QED BY <1>1, <2>1, <2>2, SettledDesk
<1> QED BY <1>2, <1>3

LEMMA SettledDig ==
  ASSUME TablesInv, ListedInv, Settled, NEW b \in Builder, NEW k \in Dir, NEW v, Dig(b, k, v)
  PROVE  Settled'
<1>1. OnlyDoors(world', world) BY BuilderRoom, DigWorld DEF Dig
<1>2. UNCHANGED <<at, was, inst, vlist, desk>> BY DEF Dig
<1>3. Housed(world', at') BY <1>1, <1>2, WorldFacts, DoorsHoused DEF Settled
<1>4. Top(world') = Top(world) BY <1>1 DEF OnlyDoors, Top
<1>5. \A r \in DOMAIN world : \E q \in DOMAIN world' : world'[q].number = world[r].number
  BY <1>1 DEF OnlyDoors
<1>6. ASSUME NEW c \in Builder PROVE Away(c)'
  <2>1. Away(c) BY DEF Settled
  <2>2. was'[c] # Top(world') BY <1>2, <1>4, <2>1 DEF Away
  <2> QED BY <1>2, <1>5, <2>1, <2>2, AwayKept
<1> QED BY <1>2, <1>3, <1>6 DEF Settled

LEMMA SettledReplaceRoom ==
  ASSUME TablesInv, WaysInv, LastInv, Settled, NEW b \in Builder, desk[b].mode = "room",
         ReplaceRoom(b)
  PROVE  Settled'
<1> DEFINE n == Real("room", desk[b].vnum)
           e == [desk[b].room EXCEPT !.here = world[n].here]
           w == [world EXCEPT ![n] = e]
           w2 == Resolved(w, n)
<1>1. /\ n \in DOMAIN world /\ WorldTyped(w) /\ WorldTyped(w2) /\ SameRooms(w, world)
      /\ ComeBack(b, w2, at, was)
  BY ReplaceRoomSame
<1>2. e.here = world[n].here /\ e.vehs = {}
  <2>1. desk[b].room \in RoomType BY RoomPage
  <2>2. desk[b].room.vehs = {} BY DEF Settled, Away, EmptyCopy
  <2> HIDE DEF n
  <2> QED BY <2>1, <2>2 DEF RoomType
<1> HIDE DEF n, e
<1>3. OnlyDoors(w, world)
  <2>1. DOMAIN w = DOMAIN world /\ \A r \in DOMAIN world : w[r] = IF r = n THEN e ELSE world[r]
    OBVIOUS
  <2>2. \A r \in DOMAIN world : w[r].number = world[r].number BY <1>1 DEF SameRooms
  <2>3. world[n].vehs = {} BY <1>1 DEF Settled, Housed
  <2> HIDE DEF w
  <2> QED BY <1>2, <2>1, <2>2, <2>3 DEF OnlyDoors
<1> HIDE DEF w
<1>4. OnlyDoors(w2, w) BY <1>1, <1>3, ResolvedOnly DEF OnlyDoors
<1> HIDE DEF w2
<1>5. OnlyDoors(w2, world) BY <1>3, <1>4, OnlyDoorsTwice
<1>6. Housed(w2, at) BY <1>5, WorldFacts, DoorsHoused DEF Settled
<1>7. Top(w2) = Top(world) BY <1>5 DEF OnlyDoors, Top
<1>8. Top(w2) > 0 BY <1>7, LastFacts DEF LastInv
<1>9. \A c \in Builder : /\ was[c] # Top(w2)
                         /\ desk[c].mode = "room" => at[c] = Nowhere
                         /\ EmptyCopy(desk[c], w2)
  BY <1>5, <1>7 DEF Settled, Away, EmptyCopy, OnlyDoors
<1>10. was \in [Builder -> Int] /\ at[b] = Nowhere BY <1>9, WaysIs
<1>11. vlist' = <<>> /\ \A x \in Thing : inst'[x] = None => at[x] = Nowhere
  BY DEF Settled, ReplaceRoom
<1> QED BY <1>1, <1>6, <1>8, <1>9, <1>10, <1>11, WorldFacts, SettledBack

LEMMA SettledInsertRoom ==
  ASSUME TablesInv, WaysInv, LastInv, Settled, NEW b \in Builder, desk[b].mode = "room",
         InsertRoom(b)
  PROVE  Settled'
<1> DEFINE v == desk[b].vnum
           n == Top(world)
           p == Place(Numbers(world), v)
           e == [desk[b].room EXCEPT !.number = v]
           w == InsertAt(world, p, e)
           w1 == BumpDoors(w, p)
           w2 == Resolved(w1, p)
           place == [x \in Body |-> IF x \in Shifted(w, p) /\ at[x] # Nowhere THEN at[x] + 1 ELSE at[x]]
           back == [c \in Builder |-> Bump(was[c], p)]
<1>1. /\ p \in 1 .. n /\ Inserted(w, world, n, p, e) /\ WorldTyped(w)
  BY InsertRoomBefore
<1>2. /\ \A r \in DOMAIN world : world[r].number # v
      /\ WorldTyped(w1) /\ WorldTyped(w2)
  BY InsertRoomWorld DEF SameRooms
<1>3. ComeBack(b, w2, place, back) /\ UNCHANGED <<inst, vlist>> BY DEF InsertRoom
<1>4. e.here = {} /\ e.vehs = {}
  <2>1. desk[b].room \in RoomType BY RoomPage
  <2>2. desk[b].room.vehs = {} /\ desk[b].room.here = {}
    BY <1>2 DEF Settled, Away, EmptyCopy
  <2> HIDE DEF v
  <2> QED BY <2>1, <2>2 DEF RoomType
<1>5. n \in Nat /\ DOMAIN world = 0 .. n /\ at \in [Body -> Int] BY WorldFacts
<1>6. \A x \in Body : place[x] = IF x \in Shifted(w, p) /\ at[x] # Nowhere THEN at[x] + 1 ELSE at[x]
  OBVIOUS
<1>7. place \in [Body -> Int] BY <1>5
<1>8. \A c \in Builder : back[c] = Bump(was[c], p) OBVIOUS
<1>9. back \in [Builder -> Int]
  <2>1. p \in Int BY <1>1
  <2> HIDE DEF p
  <2>2. \A c \in Builder : Bump(was[c], p) \in Int BY <2>1, WaysIs DEF Bump
  <2> QED BY <2>2
<1> HIDE DEF e, w, p, place, back, v
<1>10. /\ Housed(w, place)
       /\ \A x \in Body : place[x] = IF at[x] = Nowhere THEN Nowhere ELSE Bump(at[x], p)
  <2>1. Top(world) = n /\ Housed(world, at) BY DEF Settled
  <2> HIDE DEF n
  <2> QED BY <1>1, <1>4, <1>5, <1>6, <2>1, InsertHoused
<1>11. p \in DOMAIN w /\ Top(w) = n + 1 BY <1>1, <1>5 DEF Inserted
<1>12. OnlyDoors(w1, w) BY <1>1, BumpDoorsOnly
<1> HIDE DEF w1
<1>13. OnlyDoors(w2, w1) BY <1>2, <1>11, <1>12, ResolvedOnly DEF OnlyDoors
<1> HIDE DEF w2
<1>14. OnlyDoors(w2, w) BY <1>12, <1>13, OnlyDoorsTwice
<1>15. Housed(w2, place) BY <1>1, <1>10, <1>14, DoorsHoused
<1>16. Top(w2) = n + 1
  <2>1. Top(w2) = Top(w) BY <1>14 DEF OnlyDoors, Top
  <2> QED BY <1>11, <2>1
<1>17. ASSUME NEW c \in Builder
       PROVE  /\ back[c] # Top(w2)
              /\ desk[c].mode = "room" => place[c] = Nowhere
              /\ EmptyCopy(desk[c], w2)
  <2>0. Away(c) /\ c \in Body BY DEF Settled, Body
  <2>1. back[c] # n + 1
    <3>1. was[c] # n /\ was[c] \in Int BY <2>0, WaysIs DEF Away
    <3> HIDE DEF n
    <3> QED BY <1>1, <1>5, <1>8, <3>1 DEF Bump
  <2>2. desk[c].mode = "room" => place[c] = Nowhere BY <1>10, <2>0 DEF Away
  <2>3. \A r \in DOMAIN world : \E q \in DOMAIN w2 : w2[q].number = world[r].number
    <3>1. \A r \in 0 .. n : Bump(r, p) \in DOMAIN w /\ w[Bump(r, p)] = world[r]
      BY <1>1 DEF Inserted
    <3> QED BY <1>5, <1>14, <3>1 DEF OnlyDoors
  <2>4. EmptyCopy(desk[c], w2) BY <2>0, <2>3 DEF Away, EmptyCopy
  <2> QED BY <1>16, <2>1, <2>2, <2>4
<1>18. place[b] = Nowhere BY <1>17
<1>19. vlist' = <<>> /\ \A x \in Thing : inst'[x] = None => place[x] = Nowhere
  BY <1>3, <1>10 DEF Settled, Body
<1>20. Top(w2) > 0
  <2> HIDE DEF n
  <2> QED BY <1>5, <1>16
<1> QED BY <1>2, <1>3, <1>7, <1>9, <1>15, <1>17, <1>18, <1>19, <1>20, SettledBack

LEMMA SettledBuilding ==
  ASSUME TablesInv, ListedInv, WaysInv, NamesInv, LastInv, Settled, NEW b \in Builder, Building(b)
  PROVE  Settled'
<1>1. CASE \E v \in Vnum : Redit(b, v) BY <1>1, SettledRedit
<1>2. CASE \E u, v \in Vnum : Rclone(b, u, v) BY <1>2, SettledRclone
<1>3. CASE \E k \in Dir, v \in scene.exits : SetExit(b, k, v)
  <2>1. PICK k \in Dir, v \in scene.exits : SetExit(b, k, v) BY <1>3
  <2>2. \E d : desk' = [desk EXCEPT ![b].room.door[k] = d] BY <2>1 DEF SetExit
  <2>3. desk[b].mode = "room" /\ UNCHANGED <<world, at, was, inst, vlist>> BY <2>1 DEF SetExit
  <2> QED BY <2>2, <2>3, SettledExit
<1>4. CASE \E k \in Dir : ClearExit(b, k)
  <2>1. PICK k \in Dir : ClearExit(b, k) BY <1>4
  <2>2. \E d : desk' = [desk EXCEPT ![b].room.door[k] = d] BY <2>1 DEF ClearExit
  <2>3. desk[b].mode = "room" /\ UNCHANGED <<world, at, was, inst, vlist>> BY <2>1 DEF ClearExit
  <2> QED BY <2>2, <2>3, SettledExit
<1>5. CASE SaveRoom(b) BY <1>5, SettledReplaceRoom, SettledInsertRoom DEF SaveRoom
<1>6. CASE \E k \in Proto, v \in Vnum : Open(b, k, v)
  <2>1. PICK k \in Proto, v \in Vnum : Open(b, k, v) BY <1>6
  <2> DEFINE page == [mode |-> k, vnum |-> v]
  <2>2. page.mode # "room" BY DEF Proto
  <2>3. desk' = [desk EXCEPT ![b] = page] /\ UNCHANGED <<world, at, was, inst, vlist>>
    BY <2>1 DEF Open
  <2> HIDE DEF page
  <2> QED BY <2>2, <2>3, SettledDesk
<1>7. CASE SaveProto(b) BY <1>7, SettledSaveProto
<1>8. CASE Abort(b) BY <1>8, SettledAbort
<1>9. CASE \E k \in Dir, v \in scene.exits : Dig(b, k, v) BY <1>9, SettledDig
<1> QED BY <1>1, <1>2, <1>3, <1>4, <1>5, <1>6, <1>7, <1>8, <1>9 DEF Building

LEMMA SettledZedit ==
  ASSUME TablesInv, Settled, NEW b \in Builder,
         \/ \E i \in 0 .. scene.max, how \in {"edit", "insert", "add"} : Zedit(b, i, how)
         \/ \E l \in Letter : ZeditType(b, l)
         \/ \E j \in 1..3, v \in Vnum : ZeditArg(b, j, v)
         \/ ZeditSave(b)
  PROVE  Settled'
<1>1. UNCHANGED <<world, at, was, inst, vlist>> BY DEF Zedit, ZeditType, ZeditArg, ZeditSave
<1>2. CASE \E i \in 0 .. scene.max, how \in {"edit", "insert", "add"} : Zedit(b, i, how)
  <2>1. \E page : page.mode # "room" /\ desk' = [desk EXCEPT ![b] = page] BY <1>2 DEF Zedit
  <2> QED BY <1>1, <2>1, SettledDesk
<1>3. ASSUME desk[b].mode = "cmd", NEW c, desk' = [desk EXCEPT ![b].cmd = c] PROVE Settled'
  <2>1. desk'[b].mode = "cmd" /\ \A a \in Builder : a # b => desk'[a] = desk[a]
    BY <1>3, CmdPage
  <2> QED BY <1>1, <2>1, SettledDesks
<1>4. CASE \E l \in Letter : ZeditType(b, l)
  <2>1. desk[b].mode = "cmd" /\ \E c : desk' = [desk EXCEPT ![b].cmd = c] BY <1>4 DEF ZeditType
  <2> QED BY <1>3, <2>1
<1>5. CASE \E j \in 1..3, v \in Vnum : ZeditArg(b, j, v)
  <2>1. PICK j \in 1..3, v \in Vnum : ZeditArg(b, j, v) BY <1>5
  <2> DEFINE k == RefTable(desk[b].cmd.letter, j)
             n == IF Real(k, v) > 0 THEN Real(k, v) ELSE 0
             c == [desk[b].cmd EXCEPT !.arg[j] = n, !.means[j] = TableOf(k)[n]]
  <2>2. desk[b].mode = "cmd" /\ desk' = [desk EXCEPT ![b].cmd = c] BY <2>1 DEF ZeditArg
  <2> HIDE DEF c
  <2> QED BY <1>3, <2>2
<1>6. CASE ZeditSave(b)
  <2>1. desk' = [desk EXCEPT ![b] = Playing] /\ Playing.mode # "room"
    BY <1>6 DEF ZeditSave, Playing
  <2> QED BY <1>1, <2>1, SettledDesk
<1> QED BY <1>2, <1>4, <1>5, <1>6

LEMMA SettledNext ==
  ASSUME TablesInv, ListedInv, WaysInv, NamesInv, LastInv, Settled, [Next]_vars
  PROVE  Settled'
<1>1. ASSUME NEW b \in Builder, Edit(b) PROVE Settled'
  <2>1. NothingDeleted(scene) BY DEF WaysInv
  <2> QED BY <1>1, <2>1, EditIs, SettledBuilding, SettledZedit
<1>2. ASSUME NEW x \in scene.things, Live(x) PROVE Settled'
  BY <1>2, LiveSteps, SettledLoad, SettledExtract
<1>3. ASSUME NEW x \in Body, NEW r \in DOMAIN world, Move(x, r) PROVE Settled'
  BY <1>3, SettledMove
<1>4. CASE UNCHANGED vars
  <2>1. UNCHANGED <<world, at, was, inst, vlist, desk>> BY <1>4 DEF vars
  <2> QED BY <2>1, SettledDesks
<1> QED BY <1>1, <1>2, <1>3, <1>4 DEF Next

LEMMA LastInit ==
  ASSUME Init, NEW z \in scene.rooms, LastRoom(scene, z)
  PROVE  world[Top(world)].number = z /\ LastInv
<1>1. /\ WorldTyped(world) /\ Numbers(world) = Sorted(scene.rooms) BY BootWorld
<1>2. scene.rooms \in SUBSET Nat /\ IsFiniteSet(scene.rooms)
  <2>1. scene \in Scenes BY DEF Init
  <2> QED BY <2>1, OlcAssumption
<1>3. /\ Ascending(Numbers(world)) /\ TableTyped(Numbers(world))
      /\ \A r \in DOMAIN Numbers(world) : Numbers(world)[r] \in scene.rooms
      /\ \E r \in DOMAIN Numbers(world) : Numbers(world)[r] = z
  BY <1>1, <1>2, SortedIs
<1>4. world[Top(world)].number = z
  <2>1. /\ DOMAIN Numbers(world) = 0 .. Top(world) /\ DOMAIN world = 0 .. Top(world)
        /\ \A r \in DOMAIN world : Numbers(world)[r] = world[r].number
    BY <1>1, NumbersTyped
  <2>2. PICK r \in DOMAIN Numbers(world) : Numbers(world)[r] = z BY <1>3
  <2>3. PICK n \in Nat : n = Top(world) BY <1>1 DEF WorldTyped
  <2>4. r \in 0 .. n /\ n \in DOMAIN Numbers(world) BY <2>1, <2>2, <2>3
  <2>5. Numbers(world)[n] <= z /\ z \in Nat BY <1>2, <1>3, <2>4 DEF LastRoom
  <2>6. Numbers(world)[n] \in Nat BY <1>2, <1>3, <2>4
  <2>7. r = n
    <3>1. r < n => z < Numbers(world)[n] BY <1>3, <2>2, <2>4 DEF Ascending
    <3> QED BY <2>4, <2>5, <2>6, <3>1
  <2> QED BY <2>1, <2>2, <2>3, <2>7
<1>5. \A i \in DOMAIN zone : Elsewhere(zone[i], z)
  <2>1. \A i \in DOMAIN zone : /\ i \in DOMAIN scene.zone /\ zone[i].means = scene.zone[i].means
                               /\ zone[i].letter = "*" \/ zone[i].letter = scene.zone[i].letter
    BY BootZone
  <2> QED BY <2>1 DEF Elsewhere, LastRoom
<1>6. \A b \in Builder : desk[b].mode # "cmd" BY DEF Init, Playing
<1> QED BY <1>4, <1>5, <1>6 DEF LastInv

LEMMA RoomsInit ==
  ASSUME Init, LastEmpty(scene)
  PROVE  RoomsInv /\ SpaceInv
<1>1. PICK z \in scene.rooms : LastRoom(scene, z) BY DEF LastEmpty
<1>2. LastInv /\ world[Top(world)].number = z BY <1>1, LastInit
<1>3. /\ WorldTyped(world) /\ start \in DOMAIN world /\ start \in Nat
      /\ world[start].number = scene.start
      /\ \A r \in DOMAIN world : /\ world[r].here = IF r = start THEN Builder ELSE {}
                                 /\ world[r].vehs = {}
  BY BootWorld
<1>4. /\ DOMAIN world = 0 .. Top(world) /\ Top(world) \in Nat /\ Top(world) \in DOMAIN world
  BY <1>3 DEF WorldTyped
<1>5. \A x \in Body : at[x] = IF x \in Builder THEN start ELSE Nowhere BY DEF Init
<1>6. Housed(world, at)
  <2>1. \A x \in Body : at[x] \in DOMAIN world \cup {Nowhere} BY <1>3, <1>5
  <2>2. ASSUME NEW x \in Body, NEW r \in DOMAIN world PROVE x \in world[r].here <=> at[x] = r
    <3>1. r # Nowhere BY <1>4 DEF Nowhere
    <3> QED BY <1>3, <1>5, <3>1
  <2>3. world[Top(world)].here = {}
    <3>1. Top(world) # start BY <1>1, <1>2, <1>3 DEF LastRoom
    <3> QED BY <1>3, <1>4, <3>1
  <2> QED BY <1>3, <2>1, <2>2, <2>3 DEF Housed
<1>7. \A x \in Thing : at[x] = Nowhere BY <1>5, OlcAssumption DEF Body
<1>8. \A b \in Builder : Away(b)
  <2>1. \A b \in Builder : was[b] = Nowhere /\ desk[b] = Playing BY DEF Init
  <2>2. Playing.mode # "room" BY DEF Playing
  <2>3. Nowhere # Top(world) BY <1>4 DEF Nowhere
  <2> QED BY <2>1, <2>2, <2>3 DEF Away, EmptyCopy
<1>9. vlist = <<>> BY DEF Init
<1>10. SpaceInv
  <2>1. Top(zone) < scene.max BY BootZone
  <2>2. \A b \in Builder : desk[b].mode # "cmd" BY DEF Init, Playing
  <2> QED BY <2>1, <2>2 DEF SpaceInv, Space
<1> QED BY <1>2, <1>6, <1>7, <1>8, <1>9, <1>10 DEF RoomsInv, Settled

LEMMA RoomsHold ==
  ASSUME TablesInv, RoomsInv, SpaceInv
  PROVE  InRoomTrue
<1>1. \A k \in Proto \cup {"room"} : IsTable(TableOf(k))
  BY TableFacts DEF Table, TableTyped, Ascending, IsTable
<1>2. \A b \in Builder : desk[b].mode \in {"play", "room", "cmd"} \cup Proto
  BY PageFacts DEF PageTyped
<1>3. \A x \in Body, r \in DOMAIN world : x \in world[r].here \cup world[r].vehs <=> at[x] = r
  BY DEF RoomsInv, Settled, Housed
<1>4. \A r, s \in DOMAIN world :
        r # s => (world[r].here \cup world[r].vehs) \cap (world[s].here \cup world[s].vehs) = {}
  <2>1. \A r \in DOMAIN world : world[r].here \cup world[r].vehs \in SUBSET Body
    BY WorldFacts DEF WorldTyped, RoomType, Body
  <2> QED BY <1>3, <2>1
<1>5. DOMAIN zone = 0 .. Top(zone) /\ Top(zone) < scene.max
  BY DEF TablesInv, Typed, SpaceInv
<1>6. vlist = <<>> BY DEF RoomsInv, Settled
<1> QED BY <1>1, <1>2, <1>3, <1>4, <1>5, <1>6 DEF InRoomTrue, TypeOK

\* Where rooms are inserted and none is deleted, no vehicle is in the game,
\* the last room of the table stays empty, nothing is made in front of the
\* first entry, no two builders make the same room and whoever writes commands
\* builds alone, in_room of every mobile, player and object names the room on
\* whose list he or it is and no other list has him, however the saves move
\* the rooms (redit.cpp); the tables stay sorted, and the zone's commands stay
\* within their room.  That is what the loops of a save are good for, and
\* where they fail is what the conditions name: they end at the slot that was
\* the last one before the table grew, so that who is in the last room is
\* forgotten.
THEOREM InRoomTrueAlways ==
  Spec /\ FirstKept(scene) /\ OneMaker(scene) /\ WritesAlone(scene) /\ NoVehicles(scene)
       /\ NothingDeleted(scene) /\ LastEmpty(scene)
    => []InRoomTrue
<1> DEFINE I == TablesInv /\ ListedInv /\ WaysInv /\ NamesInv /\ RoomsInv /\ SpaceInv
<1>1. Init /\ FirstKept(scene) /\ OneMaker(scene) /\ WritesAlone(scene) /\ NoVehicles(scene)
        /\ NothingDeleted(scene) /\ LastEmpty(scene) => I
  BY TablesInit, WaysInit, NamesInit, RoomsInit
<1>2. I /\ [Next]_vars => I'
  BY TablesNext, WaysNext, NamesNext, LastNext, SettledNext, SpaceNext DEF RoomsInv
<1>3. I => InRoomTrue BY RoomsHold
<1> QED BY <1>1, <1>2, <1>3, PTL DEF Spec

=============================================================================
