--------------------------- MODULE VehiclesProofs ---------------------------
(***************************************************************************)
(* What Vehicles keeps whatever the players, vehicles and rooms: its types, *)
(* the link between a rigger and the vehicle, the subscriber lists, the    *)
(* lists of the chasers, and the seats.                                    *)
(*                                                                         *)
(* Every handler is a composition of a few changes (a chase ended, people  *)
(* thrown out, bodies extracted, a rigger released), so there is a lemma   *)
(* for each of these about any record that is in order, and the proof of   *)
(* an action follows the handler.  The lists are proved about through one  *)
(* operator, Without, which takes a set of elements out.                   *)
(***************************************************************************)
EXTENDS Vehicles, FiniteSetTheorems, FunctionTheorems, TLAPS

-----------------------------------------------------------------------------
(* The inductive invariant. *)

\* A rigger's flag, its pointer and the pointer back agree, and what it rigs is its own: with
\* this do_control cannot take a vehicle from another rigger.
Linked(x) ==
  /\ \A c \in Char : c \in x.remote <=> x.rigging[c] # None
  /\ \A c \in Char : \A v \in Veh : x.rigger[v] = c <=> x.rigging[c] = v
  /\ \A c \in Char : x.rigging[c] # None => Owner[x.rigging[c]] = c

Listed(x) ==
  \A c \in Char :
    /\ IsInjective(x.subscribe[c])
    /\ \A v \in ToSet(x.subscribe[c]) : v \in x.sub /\ Owner[v] = c

\* A purged vehicle may stay on a list, and may be chased.
Chased(x) ==
  \A w \in Veh : Live(x, w) =>
    /\ IsInjective(x.followers[w])
    /\ \A v \in Veh : Live(x, v) => (v \in ToSet(x.followers[w]) <=> x.following[v] = w)

Seated(x) ==
  \A v \in Veh :
    /\ IsInjective(x.people[v])
    /\ x.seating[v] >= 0 /\ Len(x.people[v]) + x.seating[v] <= Capacity[v]

Placed(x) ==
  /\ IsInjective(x.list)
  /\ \A c \in Char : x.room[c] # None => c \in ToSet(x.list)
  /\ \A c \in Char : \A v \in Veh : c \in In(x, v) =>
       /\ c \in ToSet(x.list) /\ x.room[c] = None
       /\ \A w \in Veh : c \in In(x, w) => w = v
  /\ \A c \in ToSet(x.list) : x.room[c] # None \/ \E v \in Veh : c \in In(x, v)

Sound(x) ==
  x \in VehiclesType /\ Linked(x) /\ Listed(x) /\ Chased(x) /\ Seated(x) /\ Placed(x)

\* A call that has moves or a test to do has the pilot and the chaser that do them.
Called ==
  \A i \in DOMAIN stack :
    stack[i].moves > 0 \/ stack[i].test => stack[i].pilot # None /\ stack[i].chaser # None

VInv == Sound(g) /\ stack \in Seq(FrameType) /\ Called

-----------------------------------------------------------------------------
(* Lists. *)

\* A list that holds nothing twice is as long as its elements are many.
LEMMA LengthOfInjective ==
  ASSUME NEW T, NEW s \in Seq(T), IsInjective(s)
  PROVE  IsFiniteSet(ToSet(s)) /\ Cardinality(ToSet(s)) = Len(s)
<1> DEFINE D == 1 .. Len(s)
<1>1. Len(s) \in Nat /\ DOMAIN s = D /\ s \in [D -> T] OBVIOUS
<1>2. s \in Surjection(D, ToSet(s)) BY <1>1 DEF Surjection, ToSet
<1>3. s \in Injection(D, ToSet(s)) BY <1>1 DEF Injection, IsInjective, ToSet
<1>4. IsFiniteSet(D) /\ Cardinality(D) = Len(s) BY <1>1, FS_Interval
<1> HIDE DEF D
<1> QED BY <1>2, <1>3, <1>4, FS_Surjection

\* The elements kept have the ranks 1, 2, ... up to their number.
LEMMA RanksReached ==
  ASSUME NEW L \in Nat, NEW K \in SUBSET (1 .. L)
  PROVE  /\ IsFiniteSet(K) /\ Cardinality(K) \in Nat /\ Cardinality(K) <= L
         /\ \A i \in K : Cardinality({k \in K : k <= i}) \in 1 .. Cardinality(K)
         /\ \A i, j \in K : Cardinality({k \in K : k <= i}) = Cardinality({k \in K : k <= j}) => i = j
         /\ \A n \in 1 .. Cardinality(K) : \E i \in K : Cardinality({k \in K : k <= i}) = n
<1> DEFINE Upto(i) == {k \in K : k <= i}
           rank == [i \in K |-> Cardinality(Upto(i))]
<1>1. IsFiniteSet(1 .. L) /\ Cardinality(1 .. L) = L BY FS_Interval
<1>2. IsFiniteSet(K) /\ Cardinality(K) \in Nat /\ Cardinality(K) <= L
  BY <1>1, FS_Subset, FS_CardinalityType
<1>3. ASSUME NEW i \in K
      PROVE  IsFiniteSet(Upto(i)) /\ Cardinality(Upto(i)) \in 1 .. Cardinality(K)
  <2>1. Upto(i) \in SUBSET K /\ Upto(i) # {} OBVIOUS
  <2> HIDE DEF Upto
  <2>2. IsFiniteSet(Upto(i)) /\ Cardinality(Upto(i)) <= Cardinality(K) BY <1>2, <2>1, FS_Subset
  <2>3. Cardinality(Upto(i)) \in Nat /\ Cardinality(Upto(i)) # 0
    BY <2>1, <2>2, FS_CardinalityType, FS_EmptySet
  <2> QED BY <1>2, <2>2, <2>3
<1>4. ASSUME NEW i \in K, NEW j \in K, i < j PROVE Cardinality(Upto(i)) < Cardinality(Upto(j))
  <2>0. K \subseteq Int /\ j <= j /\ ~(j <= i) /\ \A k \in K : k <= i => k <= j BY <1>4
  <2>1. Upto(i) \in SUBSET Upto(j) /\ j \in Upto(j) /\ j \notin Upto(i) BY <2>0
  <2> HIDE DEF Upto
  <2>2. Cardinality(Upto(i)) <= Cardinality(Upto(j)) /\ Cardinality(Upto(i)) # Cardinality(Upto(j))
    BY <1>3, <2>1, FS_Subset
  <2> QED BY <1>3, <2>2
<1>5. \A i, j \in K : Cardinality(Upto(i)) = Cardinality(Upto(j)) => i = j
  <2>1. SUFFICES ASSUME NEW i \in K, NEW j \in K, Cardinality(Upto(i)) = Cardinality(Upto(j)), i # j
                 PROVE FALSE OBVIOUS
  <2>2. i < j \/ j < i BY <2>1
  <2>3. Cardinality(Upto(i)) \in Nat BY <1>2, <1>3
  <2> HIDE DEF Upto
  <2> QED BY <1>4, <2>1, <2>2, <2>3
<1>6. rank \in Injection(K, 1 .. Cardinality(K))
  <2> HIDE DEF Upto
  <2> QED BY <1>3, <1>5 DEF Injection, IsInjective
<1>7. IsFiniteSet(1 .. Cardinality(K)) /\ Cardinality(1 .. Cardinality(K)) = Cardinality(K)
  BY <1>2, FS_Interval
<1>8. rank \in Surjection(K, 1 .. Cardinality(K))
  <2> HIDE DEF rank
  <2> QED BY <1>6, <1>7, FS_Injection
<1>9. \A n \in 1 .. Cardinality(K) : \E i \in K : Cardinality(Upto(i)) = n
  BY <1>8 DEF Surjection
<1> QED BY <1>2, <1>3, <1>5, <1>9

\* Without takes the elements of D out of a list that holds nothing twice, and nothing else.
LEMMA WithoutFacts ==
  ASSUME NEW T, NEW s \in Seq(T), IsInjective(s), NEW D
  PROVE  /\ Without(s, D) \in Seq(T) /\ IsInjective(Without(s, D))
         /\ ToSet(Without(s, D)) = ToSet(s) \ D
         /\ Len(Without(s, D)) <= Len(s)
<1> DEFINE L == Len(s)
           K == {i \in DOMAIN s : s[i] \notin D}
           rank(i) == Cardinality({k \in K : k <= i})
           nth(n) == CHOOSE i \in K : rank(i) = n
           t == [n \in 1 .. Cardinality(K) |-> s[nth(n)]]
<1>1. L \in Nat /\ DOMAIN s = 1 .. L /\ \A i \in 1 .. L : s[i] \in T OBVIOUS
<1>2. K \in SUBSET (1 .. L) BY <1>1
<1>3. /\ Cardinality(K) \in Nat /\ Cardinality(K) <= L
      /\ \A i \in K : rank(i) \in 1 .. Cardinality(K)
      /\ \A i, j \in K : rank(i) = rank(j) => i = j
      /\ \A n \in 1 .. Cardinality(K) : \E i \in K : rank(i) = n
  <2> HIDE DEF K
  <2> QED BY <1>1, <1>2, RanksReached
<1>4. Without(s, D) = t BY Zenon DEF Without
<1>5. \A i \in K : i \in 1 .. L /\ s[i] \in ToSet(s) \ D /\ s[i] \in T BY <1>1 DEF ToSet
<1>6. \A e \in ToSet(s) \ D : \E i \in K : s[i] = e BY DEF ToSet
<1>7. \A i, j \in K : s[i] = s[j] => i = j BY DEF IsInjective
<1> HIDE DEF K, rank, L
<1>8. \A n \in 1 .. Cardinality(K) : nth(n) \in K /\ rank(nth(n)) = n BY <1>3
<1>9. \A i \in K : nth(rank(i)) = i BY <1>3, <1>8
<1> HIDE DEF nth
<1>10. t \in Seq(T) /\ Len(t) = Cardinality(K) /\ DOMAIN t = 1 .. Cardinality(K)
  BY <1>3, <1>5, <1>8
<1>11. IsInjective(t)
  <2>1. ASSUME NEW m \in 1 .. Cardinality(K), NEW n \in 1 .. Cardinality(K), t[m] = t[n] PROVE m = n
    <3>1. nth(m) = nth(n) BY <1>7, <1>8, <2>1
    <3> QED BY <1>8, <3>1
  <2> QED BY <1>10, <2>1 DEF IsInjective
<1>12. ToSet(t) = ToSet(s) \ D
  <2>1. ASSUME NEW n \in 1 .. Cardinality(K) PROVE t[n] \in ToSet(s) \ D BY <1>5, <1>8
  <2>2. ASSUME NEW e \in ToSet(s) \ D PROVE \E n \in 1 .. Cardinality(K) : t[n] = e
    <3>1. PICK i \in K : s[i] = e BY <1>6
    <3>2. rank(i) \in 1 .. Cardinality(K) /\ nth(rank(i)) = i BY <1>3, <1>9
    <3> QED BY <3>1, <3>2
  <2>3. ToSet(t) = {t[n] : n \in 1 .. Cardinality(K)} BY <1>10 DEF ToSet
  <2> HIDE DEF t
  <2> QED BY <2>1, <2>2, <2>3
<1> QED BY <1>3, <1>4, <1>10, <1>11, <1>12 DEF L

\* With something to take out the list gets shorter, and without all of its elements it is empty.
LEMMA WithoutShorter ==
  ASSUME NEW T, NEW s \in Seq(T), IsInjective(s), NEW D
  PROVE  /\ D \cap ToSet(s) # {} => Len(Without(s, D)) + 1 <= Len(s)
         /\ ToSet(s) \subseteq D => Len(Without(s, D)) = 0
         /\ D \cap ToSet(s) = {} => Len(Without(s, D)) = Len(s)
<1> DEFINE t == Without(s, D)
<1>1. t \in Seq(T) /\ IsInjective(t) /\ ToSet(t) = ToSet(s) \ D BY WithoutFacts
<1>2. IsFiniteSet(ToSet(s)) /\ Cardinality(ToSet(s)) = Len(s) /\ Len(s) \in Nat BY LengthOfInjective
<1> HIDE DEF t
<1>3. Cardinality(ToSet(t)) = Len(t) /\ Len(t) \in Nat
  <2>1. Cardinality(ToSet(t)) = Len(t) BY <1>1, LengthOfInjective, Zenon
  <2>2. Len(t) \in Nat BY <1>1
  <2> QED BY <2>1, <2>2
<1>4. ToSet(t) \in SUBSET ToSet(s) BY <1>1
<1>5. Len(t) <= Len(s) /\ (Len(t) = Len(s) => ToSet(t) = ToSet(s)) BY <1>2, <1>3, <1>4, FS_Subset
<1>6. D \cap ToSet(s) # {} => Len(t) + 1 <= Len(s) BY <1>1, <1>2, <1>3, <1>5
<1>7. ToSet(s) \subseteq D => Len(t) = 0 BY <1>1, <1>3, FS_EmptySet
<1>8. D \cap ToSet(s) = {} => Len(t) = Len(s)
  <2>1. D \cap ToSet(s) = {} => ToSet(t) = ToSet(s) BY <1>1
  <2> QED BY <1>2, <1>3, <2>1
<1> QED BY <1>6, <1>7, <1>8 DEF t

\* A new element in front of a list.
LEMMA Prepended ==
  ASSUME NEW T, NEW s \in Seq(T), NEW e \in T
  PROVE  /\ <<e>> \o s \in Seq(T) /\ Len(<<e>> \o s) = Len(s) + 1
         /\ ToSet(<<e>> \o s) = ToSet(s) \cup {e}
         /\ IsInjective(s) /\ e \notin ToSet(s) => IsInjective(<<e>> \o s)
<1> DEFINE t == <<e>> \o s
<1>1. t \in Seq(T) /\ Len(t) = Len(s) + 1 /\ DOMAIN t = 1 .. Len(s) + 1 OBVIOUS
<1>2. t[1] = e /\ \A i \in 1 .. Len(s) : t[i + 1] = s[i] OBVIOUS
<1>3. \A i \in 2 .. Len(s) + 1 : i - 1 \in 1 .. Len(s) /\ t[i] = s[i - 1] OBVIOUS
<1>4. DOMAIN s = 1 .. Len(s) /\ Len(s) \in Nat OBVIOUS
<1> HIDE DEF t
<1>5. ToSet(t) = ToSet(s) \cup {e}
  <2>1. ASSUME NEW i \in DOMAIN t PROVE t[i] \in ToSet(s) \cup {e}
    BY <1>1, <1>2, <1>3, <1>4 DEF ToSet
  <2>2. ASSUME NEW i \in DOMAIN s PROVE s[i] \in ToSet(t)
    <3>1. i + 1 \in DOMAIN t /\ t[i + 1] = s[i] BY <1>1, <1>2, <1>4
    <3> QED BY <3>1 DEF ToSet
  <2>3. e \in ToSet(t) BY <1>1, <1>2, <1>4 DEF ToSet
  <2> QED BY <2>1, <2>2, <2>3 DEF ToSet
<1>6. ASSUME IsInjective(s), e \notin ToSet(s), NEW i \in DOMAIN t, NEW j \in DOMAIN t, t[i] = t[j]
      PROVE  i = j
  <2>1. \A k \in 1 .. Len(s) : s[k] # e BY <1>4, <1>6 DEF ToSet
  <2>2. i \in 1 .. Len(s) + 1 /\ j \in 1 .. Len(s) + 1 BY <1>1, <1>6
  <2>3. CASE i = 1 \/ j = 1 BY <1>2, <1>3, <1>4, <1>6, <2>1, <2>2, <2>3
  <2>4. CASE i # 1 /\ j # 1
    <3>1. i - 1 \in 1 .. Len(s) /\ j - 1 \in 1 .. Len(s) /\ s[i - 1] = s[j - 1]
      BY <1>3, <1>4, <1>6, <2>2, <2>4
    <3>2. i - 1 = j - 1 BY <1>4, <1>6, <3>1 DEF IsInjective
    <3> QED BY <2>2, <3>2
  <2> QED BY <2>3, <2>4
<1> QED BY <1>1, <1>5, <1>6 DEF t, IsInjective

\* A list in the other direction.
LEMMA Reversed ==
  ASSUME NEW T, NEW s \in Seq(T), IsInjective(s)
  PROVE  Reverse(s) \in Seq(T) /\ IsInjective(Reverse(s)) /\ ToSet(Reverse(s)) \subseteq ToSet(s)
<1> DEFINE t == Reverse(s)
<1>1. Len(s) \in Nat /\ DOMAIN s = 1 .. Len(s) /\ \A i \in 1 .. Len(s) : s[i] \in T OBVIOUS
<1>2. t = [i \in 1 .. Len(s) |-> s[(Len(s) - i) + 1]] BY DEF Reverse
<1>3. \A i \in 1 .. Len(s) : (Len(s) - i) + 1 \in 1 .. Len(s) BY <1>1
<1>4. t \in Seq(T) /\ DOMAIN t = 1 .. Len(s) BY <1>1, <1>2, <1>3
<1>5. \A i \in 1 .. Len(s) : t[i] \in ToSet(s) BY <1>1, <1>2, <1>3 DEF ToSet
<1>6. ASSUME NEW i \in 1 .. Len(s), NEW j \in 1 .. Len(s), t[i] = t[j] PROVE i = j
  <2>1. (Len(s) - i) + 1 = (Len(s) - j) + 1 BY <1>1, <1>2, <1>3, <1>6 DEF IsInjective
  <2> QED BY <1>1, <2>1
<1> HIDE DEF t
<1>7. ToSet(t) \subseteq ToSet(s) BY <1>4, <1>5 DEF ToSet
<1>8. IsInjective(t) BY <1>4, <1>6 DEF IsInjective
<1> QED BY <1>4, <1>7, <1>8 DEF t

-----------------------------------------------------------------------------
(* What a change of other fields leaves alone. *)

LEMMA SpeedTypes == {OFF, IDLE, CRUISING, SPEEDING} \subseteq Speeds
BY DEF OFF, IDLE, CRUISING, SPEEDING, Speeds

LEMMA LinkedSame ==
  ASSUME NEW x, NEW y, Linked(x),
         y.remote = x.remote, y.rigging = x.rigging, y.rigger = x.rigger
  PROVE  Linked(y)
BY DEF Linked

LEMMA ListedSame ==
  ASSUME NEW x, NEW y, Listed(x), y.sub = x.sub, y.subscribe = x.subscribe
  PROVE  Listed(y)
BY DEF Listed

LEMMA ChasedSame ==
  ASSUME NEW x, NEW y, Chased(x),
         y.at = x.at, y.following = x.following, y.followers = x.followers
  PROVE  Chased(y)
BY DEF Chased, Live

LEMMA SeatedSame ==
  ASSUME NEW x, NEW y, Seated(x), y.people = x.people, y.seating = x.seating
  PROVE  Seated(y)
BY DEF Seated

LEMMA PlacedSame ==
  ASSUME NEW x, NEW y, Placed(x), y.list = x.list, y.room = x.room, y.people = x.people
  PROVE  Placed(y)
BY DEF Placed, In

\* Nothing the invariant reads has changed, apart from the types.
SameState(x, y) ==
  /\ y.remote = x.remote /\ y.rigging = x.rigging /\ y.rigger = x.rigger
  /\ y.sub = x.sub /\ y.subscribe = x.subscribe
  /\ y.at = x.at /\ y.following = x.following /\ y.followers = x.followers
  /\ y.list = x.list /\ y.room = x.room /\ y.people = x.people /\ y.seating = x.seating

LEMMA SoundSame ==
  ASSUME NEW x, NEW y \in VehiclesType, Sound(x), SameState(x, y)
  PROVE  Sound(y)
<1> USE DEF Sound, SameState
<1>1. Linked(y) BY LinkedSame, Zenon
<1>2. Listed(y) BY ListedSame, Zenon
<1>3. Chased(y) BY ChasedSame, Zenon
<1>4. Seated(y) BY SeatedSame, Zenon
<1>5. Placed(y) BY PlacedSame, Zenon
<1> QED BY <1>1, <1>2, <1>3, <1>4, <1>5

\* After a handler: in order, with every vehicle where it was.
Settles(x, y) == Sound(y) /\ y.at = x.at /\ y.k = x.k

LEMMA CrashSound ==
  ASSUME NEW x, Sound(x) PROVE Settles(x, Crash(x))
<1> DEFINE y == Crash(x)
<1>1. y \in VehiclesType /\ SameState(x, y) /\ y.at = x.at /\ y.k = x.k
  BY DEF Sound, VehiclesType, Crash, SameState
<1> HIDE DEF y
<1>2. Sound(y) BY <1>1, SoundSame
<1> QED BY <1>1, <1>2 DEF Settles, y

LEMMA SeatTypes ==
  ASSUME NEW x \in VehiclesType, NEW v \in Veh
  PROVE  /\ x.people[v] \in Seq(Char) /\ Len(x.people[v]) \in Nat
         /\ x.seating[v] \in Int /\ Capacity[v] \in Nat
<1>1. x.people \in [Veh -> Seq(Char)] /\ x.seating \in [Veh -> Int] BY DEF VehiclesType
<1>2. Capacity \in [Veh -> Nat] BY VehiclesAssumption
<1> QED BY <1>1, <1>2

-----------------------------------------------------------------------------
(* stop_chase *)

LEMMA StopChaseSound ==
  ASSUME NEW x, Sound(x), NEW v \in Veh, Live(x, v)
  PROVE  Settles(x, StopChase(x, v))
<1> DEFINE w == x.following[v]
           y == Unchased(x, v)
<1>1. x \in VehiclesType BY DEF Sound
<1>2. w \in Veh \cup {None} BY <1>1 DEF VehiclesType
<1>3. CASE w = None BY <1>3 DEF StopChase, Settles
<1>4. CASE w # None /\ ~Live(x, w) BY <1>4, CrashSound DEF StopChase
<1>5. CASE w # None /\ Live(x, w)
  <2>1. w \in Veh /\ v \in Veh BY <1>2, <1>5
  <2>2. x.followers[w] \in Seq(Veh) /\ IsInjective(x.followers[w])
    BY <1>1, <1>5, <2>1 DEF Sound, Chased, VehiclesType
  <2> DEFINE f == Without(x.followers[w], {v})
  <2>3. f \in Seq(Veh) /\ IsInjective(f) /\ ToSet(f) = ToSet(x.followers[w]) \ {v}
    BY <2>2, WithoutFacts
  <2> HIDE DEF f
  <2>4. y = [x EXCEPT !.followers[w] = f, !.following[v] = None] BY DEF Unchased, f
  <2> HIDE DEF w, y
  <2>5. y \in VehiclesType BY <1>1, <2>1, <2>3, <2>4 DEF VehiclesType
  <2>6. /\ y.remote = x.remote /\ y.rigging = x.rigging /\ y.rigger = x.rigger
        /\ y.sub = x.sub /\ y.subscribe = x.subscribe /\ y.at = x.at /\ y.k = x.k
        /\ y.list = x.list /\ y.room = x.room /\ y.people = x.people /\ y.seating = x.seating
        /\ y.followers = [x.followers EXCEPT ![w] = f]
        /\ y.following = [x.following EXCEPT ![v] = None]
    BY <1>1, <2>4 DEF VehiclesType
  <2>7. Linked(y) /\ Listed(y) /\ Seated(y) /\ Placed(y)
    BY <2>6, LinkedSame, ListedSame, SeatedSame, PlacedSame, Zenon DEF Sound
  <2>8. Chased(y)
    <3>1. \A u \in Veh : Live(y, u) <=> Live(x, u) BY <2>6 DEF Live
    <3>2. x.following \in [Veh -> Veh \cup {None}] /\ x.followers \in [Veh -> Seq(Veh)]
      BY <1>1 DEF VehiclesType
    <3>3. x.following[v] = w BY DEF w
    <3>4. None \notin Veh BY VehiclesAssumption
    <3>5. ASSUME NEW u \in Veh, Live(x, u)
          PROVE  /\ IsInjective(y.followers[u])
                 /\ \A z \in Veh : Live(x, z) => (z \in ToSet(y.followers[u]) <=> y.following[z] = u)
      <4>1. IsInjective(x.followers[u])
            /\ \A z \in Veh : Live(x, z) => (z \in ToSet(x.followers[u]) <=> x.following[z] = u)
        BY <3>5 DEF Sound, Chased
      <4>2. CASE u = w
        <5>1. y.followers[u] = f BY <2>1, <2>6, <3>2, <4>2
        <5> QED BY <2>1, <2>3, <2>6, <3>2, <3>4, <4>1, <4>2, <5>1
      <4>3. CASE u # w
        <5>1. y.followers[u] = x.followers[u] BY <2>1, <2>6, <3>2, <4>3
        <5> QED BY <2>1, <2>6, <3>2, <3>3, <3>4, <4>1, <4>3, <5>1
      <4> QED BY <4>2, <4>3
    <3> QED BY <3>1, <3>5 DEF Chased
  <2>9. StopChase(x, v) = y BY <1>5 DEF StopChase, w, y
  <2> QED BY <2>5, <2>6, <2>7, <2>8, <2>9 DEF Settles, Sound
<1> QED BY <1>3, <1>4, <1>5

\* What a chase that ends leaves alone.
LEMMA StopChaseKeeps ==
  ASSUME NEW x \in VehiclesType, NEW v \in Veh
  PROVE  LET y == StopChase(x, v)
         IN  /\ y.remote = x.remote /\ y.rigging = x.rigging /\ y.rigger = x.rigger
             /\ y.sub = x.sub /\ y.subscribe = x.subscribe /\ y.at = x.at
             /\ y.list = x.list /\ y.room = x.room /\ y.people = x.people /\ y.seating = x.seating
BY DEF StopChase, Unchased, Crash, VehiclesType

-----------------------------------------------------------------------------
(* char_from_room and char_to_room, extract_char *)

\* Who is put in a room leaves the lists of all vehicles.
PutInRoom(x, C, r, y) ==
  /\ y \in VehiclesType
  /\ y.remote = x.remote /\ y.rigging = x.rigging /\ y.rigger = x.rigger
  /\ y.sub = x.sub /\ y.subscribe = x.subscribe /\ y.k = x.k
  /\ y.at = x.at /\ y.following = x.following /\ y.followers = x.followers
  /\ y.list = x.list /\ y.seating = x.seating
  /\ y.room = [c \in Char |-> IF c \in C THEN r ELSE x.room[c]]
  /\ \A v \in Veh :
       /\ y.people[v] = Without(x.people[v], C)
       /\ IsInjective(y.people[v]) /\ In(y, v) = In(x, v) \ C
       /\ Len(y.people[v]) <= Len(x.people[v])

LEMMA ToRoomFacts ==
  ASSUME NEW x \in VehiclesType, \A v \in Veh : IsInjective(x.people[v]),
         NEW C \in SUBSET Char, NEW r \in Room \cup {None}
  PROVE  PutInRoom(x, C, r, CharsToRoom(x, C, r))
<1> DEFINE room == [c \in Char |-> IF c \in C THEN r ELSE x.room[c]]
           people == [v \in Veh |-> Without(x.people[v], C)]
           y == CharsToRoom(x, C, r)
<1>1. ASSUME NEW v \in Veh
      PROVE  /\ people[v] \in Seq(Char) /\ IsInjective(people[v])
             /\ ToSet(people[v]) = ToSet(x.people[v]) \ C
             /\ Len(people[v]) <= Len(x.people[v])
  <2>1. x.people[v] \in Seq(Char) /\ IsInjective(x.people[v]) BY DEF VehiclesType
  <2> QED BY <2>1, WithoutFacts
<1>2. people \in [Veh -> Seq(Char)]
  <2>1. \A v \in Veh : people[v] \in Seq(Char) BY <1>1
  <2> QED BY <2>1
<1>3. room \in [Char -> Room \cup {None}] BY DEF VehiclesType
<1>4. y = [x EXCEPT !.room = room, !.people = people] BY DEF CharsToRoom
<1>5. \A v \in Veh : people[v] = Without(x.people[v], C) OBVIOUS
<1> HIDE DEF room, people, y
<1>6. y \in VehiclesType BY <1>2, <1>3, <1>4 DEF VehiclesType
<1>7. /\ y.remote = x.remote /\ y.rigging = x.rigging /\ y.rigger = x.rigger
      /\ y.sub = x.sub /\ y.subscribe = x.subscribe /\ y.k = x.k
      /\ y.at = x.at /\ y.following = x.following /\ y.followers = x.followers
      /\ y.list = x.list /\ y.seating = x.seating /\ y.room = room /\ y.people = people
  BY <1>4 DEF VehiclesType
<1>8. \A v \in Veh :
        /\ y.people[v] = Without(x.people[v], C)
        /\ IsInjective(y.people[v]) /\ In(y, v) = In(x, v) \ C
        /\ Len(y.people[v]) <= Len(x.people[v])
  BY <1>1, <1>5, <1>7 DEF In
<1> QED BY <1>6, <1>7, <1>8 DEF room, y, PutInRoom

\* Everything but the seats is in order after it, whoever of those that play it is.
LEMMA ToRoomPlaced ==
  ASSUME NEW x \in VehiclesType, \A v \in Veh : IsInjective(x.people[v]), Placed(x),
         NEW C \in SUBSET ToSet(x.list), NEW r \in Room
  PROVE  Placed(CharsToRoom(x, C, r))
<1> DEFINE y == CharsToRoom(x, C, r)
<1>1. x.list \in Seq(Char) /\ x.room \in [Char -> Room \cup {None}] BY DEF VehiclesType
<1>2. ToSet(x.list) \subseteq Char BY <1>1 DEF ToSet
<1>3. C \in SUBSET Char BY <1>2
<1>4. /\ y.list = x.list
      /\ y.room = [c \in Char |-> IF c \in C THEN r ELSE x.room[c]]
      /\ \A v \in Veh : In(y, v) = In(x, v) \ C
  <2>1. PutInRoom(x, C, r, y) BY <1>3, ToRoomFacts
  <2> HIDE DEF y
  <2> QED BY <2>1 DEF PutInRoom
<1> HIDE DEF y
<1>5. None \notin Room BY VehiclesAssumption
<1>6. IsInjective(y.list) BY <1>4 DEF Placed
<1>7. \A c \in Char : y.room[c] # None => c \in ToSet(y.list) BY <1>1, <1>3, <1>4 DEF Placed
<1>8. ASSUME NEW c \in Char, NEW v \in Veh, c \in In(y, v)
      PROVE  /\ c \in ToSet(y.list) /\ y.room[c] = None
             /\ \A w \in Veh : c \in In(y, w) => w = v
  <2>1. c \in In(x, v) /\ c \notin C BY <1>4, <1>8
  <2> QED BY <1>4, <2>1 DEF Placed
<1>9. ASSUME NEW c \in ToSet(y.list) PROVE y.room[c] # None \/ \E v \in Veh : c \in In(y, v)
  <2>1. c \in Char BY <1>2, <1>4
  <2>2. CASE c \in C BY <1>4, <1>5, <2>1, <2>2
  <2>3. CASE c \notin C BY <1>4, <2>1, <2>3 DEF Placed
  <2> QED BY <2>2, <2>3
<1> QED BY <1>6, <1>7, <1>8, <1>9 DEF Placed, y

LEMMA ToRoomSound ==
  ASSUME NEW x, Sound(x), NEW C \in SUBSET ToSet(x.list), NEW r \in Room
  PROVE  Settles(x, CharsToRoom(x, C, r))
<1> DEFINE y == CharsToRoom(x, C, r)
<1>1. /\ x \in VehiclesType /\ Linked(x) /\ Listed(x) /\ Chased(x) /\ Placed(x)
      /\ \A v \in Veh : IsInjective(x.people[v])
  BY DEF Sound, Seated
<1>2. C \in SUBSET Char BY <1>1 DEF VehiclesType, ToSet
<1>3. r \in Room \cup {None} OBVIOUS
<1>4. /\ y \in VehiclesType
      /\ y.remote = x.remote /\ y.rigging = x.rigging /\ y.rigger = x.rigger
      /\ y.sub = x.sub /\ y.subscribe = x.subscribe /\ y.k = x.k
      /\ y.at = x.at /\ y.following = x.following /\ y.followers = x.followers
      /\ y.seating = x.seating
      /\ \A v \in Veh : IsInjective(y.people[v]) /\ Len(y.people[v]) <= Len(x.people[v])
  <2>1. PutInRoom(x, C, r, y) BY <1>1, <1>2, <1>3, ToRoomFacts
  <2> HIDE DEF y
  <2> QED BY <2>1 DEF PutInRoom
<1>5. Placed(y) BY <1>1, ToRoomPlaced
<1> HIDE DEF y
<1>6. Linked(y) /\ Listed(y) /\ Chased(y)
  BY <1>1, <1>4, LinkedSame, ListedSame, ChasedSame, Zenon
<1>7. Seated(y)
  <2>1. ASSUME NEW v \in Veh PROVE Len(y.people[v]) + x.seating[v] <= Capacity[v]
    <3>1. /\ Len(y.people[v]) \in Nat /\ Len(x.people[v]) \in Nat /\ x.seating[v] \in Int
          /\ Capacity[v] \in Nat
      BY <1>1, <1>4, VehiclesAssumption DEF VehiclesType
    <3>2. Len(y.people[v]) <= Len(x.people[v]) /\ Len(x.people[v]) + x.seating[v] <= Capacity[v]
      BY <1>4 DEF Sound, Seated
    <3> QED BY <3>1, <3>2
  <2> QED BY <1>4, <2>1 DEF Sound, Seated
<1> QED BY <1>4, <1>5, <1>6, <1>7 DEF Sound, Settles, y

\* In order but for seats that were given back already by those in D.
SoundBut(x, D) ==
  /\ x \in VehiclesType /\ Linked(x) /\ Listed(x) /\ Chased(x) /\ Placed(x)
  /\ \A v \in Veh :
       /\ IsInjective(x.people[v]) /\ x.seating[v] >= 0
       /\ Len(Without(x.people[v], D)) + x.seating[v] <= Capacity[v]

LEMMA SoundIsSoundBut ==
  ASSUME NEW x, Sound(x), NEW D
  PROVE  SoundBut(x, D)
<1>1. x \in VehiclesType /\ Linked(x) /\ Listed(x) /\ Chased(x) /\ Placed(x) /\ Seated(x)
  BY DEF Sound
<1>2. ASSUME NEW v \in Veh
      PROVE  /\ IsInjective(x.people[v]) /\ x.seating[v] >= 0
             /\ Len(Without(x.people[v], D)) + x.seating[v] <= Capacity[v]
  <2>1. /\ IsInjective(x.people[v]) /\ x.seating[v] >= 0
        /\ Len(x.people[v]) + x.seating[v] <= Capacity[v]
    BY <1>1 DEF Seated
  <2>2. x.people[v] \in Seq(Char) /\ x.seating[v] \in Int /\ Capacity[v] \in Nat
    BY <1>1, VehiclesAssumption DEF VehiclesType
  <2>3. /\ Len(Without(x.people[v], D)) <= Len(x.people[v])
        /\ Without(x.people[v], D) \in Seq(Char)
    BY <2>1, <2>2, WithoutFacts
  <2>4. Len(Without(x.people[v], D)) \in Nat /\ Len(x.people[v]) \in Nat BY <2>2, <2>3
  <2> QED BY <2>1, <2>2, <2>3, <2>4
<1> QED BY <1>1, <1>2 DEF SoundBut

\* The bodies of D go, from wherever they are.
LEMMA ExtractOrder ==
  ASSUME NEW x, NEW D \in SUBSET Char, SoundBut(x, D)
  PROVE  Settles(x, ExtractChars(x, D))
<1> DEFINE z == CharsToRoom(x, D, None)
           list == Without(x.list, D)
           rigging == [c \in Char |-> IF c \in D THEN None ELSE x.rigging[c]]
           subscribe == [c \in Char |-> IF c \in D THEN <<>> ELSE x.subscribe[c]]
           rigger == [v \in Veh |-> IF x.rigger[v] \in D THEN Ghost ELSE x.rigger[v]]
           y == ExtractChars(x, D)
<1>1. /\ x \in VehiclesType /\ Linked(x) /\ Listed(x) /\ Chased(x) /\ Placed(x)
      /\ \A v \in Veh : IsInjective(x.people[v])
  BY DEF SoundBut
<1>2. None \in Room \cup {None} OBVIOUS
<1>3. /\ z \in VehiclesType
      /\ z.remote = x.remote /\ z.rigging = x.rigging /\ z.rigger = x.rigger
      /\ z.sub = x.sub /\ z.subscribe = x.subscribe /\ z.k = x.k
      /\ z.at = x.at /\ z.following = x.following /\ z.followers = x.followers
      /\ z.list = x.list /\ z.seating = x.seating
      /\ z.room = [c \in Char |-> IF c \in D THEN None ELSE x.room[c]]
      /\ \A v \in Veh :
           /\ IsInjective(z.people[v]) /\ In(z, v) = In(x, v) \ D
           /\ z.people[v] = Without(x.people[v], D)
  <2>1. PutInRoom(x, D, None, z) BY <1>1, <1>2, ToRoomFacts
  <2> HIDE DEF z
  <2> QED BY <2>1 DEF PutInRoom
<1>4. x.list \in Seq(Char) /\ IsInjective(x.list) BY <1>1 DEF VehiclesType, Placed
<1>5. list \in Seq(Char) /\ IsInjective(list) /\ ToSet(list) = ToSet(x.list) \ D
  BY <1>4, WithoutFacts
<1> HIDE DEF z, list
<1>6. y = [z EXCEPT !.list = list, !.pilot = @ \ D, !.rig = @ \ D, !.remote = @ \ D,
                    !.rigging = rigging, !.subscribe = subscribe, !.rigger = rigger]
  <2> HIDE DEF rigging, subscribe, rigger
  <2>1. /\ rigging = [c \in Char |-> IF c \in D THEN None ELSE z.rigging[c]]
        /\ subscribe = [c \in Char |-> IF c \in D THEN <<>> ELSE z.subscribe[c]]
        /\ rigger = [v \in Veh |-> IF z.rigger[v] \in D THEN Ghost ELSE z.rigger[v]]
        /\ list = Without(z.list, D)
    BY <1>3, Zenon DEF rigging, subscribe, rigger, list
  <2> QED BY <2>1, Zenon DEF ExtractChars, z
<1>7. rigging \in [Char -> Veh \cup {None}] BY <1>1 DEF VehiclesType
<1>8. rigger \in [Veh -> Char \cup {None, Ghost}] BY <1>1 DEF VehiclesType
<1>9. subscribe \in [Char -> Seq(Veh)]
  <2>1. ASSUME NEW c \in Char PROVE subscribe[c] \in Seq(Veh)
    <3>1. x.subscribe[c] \in Seq(Veh) BY <1>1 DEF VehiclesType
    <3>2. <<>> \in Seq(Veh) OBVIOUS
    <3> QED BY <3>1, <3>2
  <2> QED BY <2>1
<1> HIDE DEF rigging, subscribe, rigger, y
<1>10. y \in VehiclesType BY <1>3, <1>5, <1>6, <1>7, <1>8, <1>9 DEF VehiclesType
<1>11. /\ y.remote = x.remote \ D /\ y.rigging = rigging /\ y.rigger = rigger
       /\ y.sub = x.sub /\ y.subscribe = subscribe /\ y.k = x.k
       /\ y.at = x.at /\ y.following = x.following /\ y.followers = x.followers
       /\ y.list = list /\ y.seating = x.seating /\ y.room = z.room /\ y.people = z.people
  BY <1>3, <1>6 DEF VehiclesType
<1>12. Linked(y)
  <2>1. None \notin Char \cup Veh /\ Ghost \notin Char BY VehiclesAssumption
  <2>2. \A c \in Char : c \in y.remote <=> y.rigging[c] # None
    BY <1>1, <1>11 DEF Linked, rigging
  <2>3. \A c \in Char : \A v \in Veh : y.rigger[v] = c <=> y.rigging[c] = v
    BY <1>1, <1>11, <2>1 DEF Linked, rigging, rigger
  <2>4. \A c \in Char : y.rigging[c] # None => Owner[y.rigging[c]] = c
    BY <1>1, <1>11 DEF Linked, rigging
  <2> QED BY <2>2, <2>3, <2>4 DEF Linked
<1>13. Listed(y)
  <2>1. ASSUME NEW c \in Char
        PROVE  /\ IsInjective(subscribe[c])
               /\ \A v \in ToSet(subscribe[c]) : v \in y.sub /\ Owner[v] = c
    <3>1. CASE c \in D
      <4>1. subscribe[c] = <<>> BY <3>1 DEF subscribe
      <4> QED BY <4>1 DEF IsInjective, ToSet
    <3>2. CASE c \notin D
      <4>1. subscribe[c] = x.subscribe[c] BY <3>2 DEF subscribe
      <4> QED BY <1>1, <1>11, <4>1 DEF Listed
    <3> QED BY <3>1, <3>2
  <2> QED BY <1>11, <2>1 DEF Listed
<1>14. Chased(y) BY <1>1, <1>11, ChasedSame
<1>15. Seated(y) BY <1>3, <1>11 DEF SoundBut, Seated
<1>16. Placed(y)
  <2>0. x.room \in [Char -> Room \cup {None}] BY <1>1 DEF VehiclesType
  <2>1. \A v \in Veh : In(y, v) = In(x, v) \ D BY <1>3, <1>11 DEF In
  <2>2. \A c \in Char : y.room[c] = IF c \in D THEN None ELSE x.room[c] BY <1>3, <1>11
  <2>3. ToSet(x.list) \subseteq Char BY <1>4 DEF ToSet
  <2>4. \A c \in Char : y.room[c] # None => c \in ToSet(y.list)
    BY <1>1, <1>5, <1>11, <2>2 DEF Placed
  <2>5. ASSUME NEW c \in Char, NEW v \in Veh, c \in In(y, v)
        PROVE  /\ c \in ToSet(y.list) /\ y.room[c] = None
               /\ \A w \in Veh : c \in In(y, w) => w = v
    <3>1. c \in In(x, v) /\ c \notin D BY <2>1, <2>5
    <3> QED BY <1>1, <1>5, <1>11, <2>1, <2>2, <3>1 DEF Placed
  <2>6. \A c \in ToSet(y.list) : y.room[c] # None \/ \E v \in Veh : c \in In(y, v)
    BY <1>1, <1>5, <1>11, <2>1, <2>2, <2>3 DEF Placed
  <2> QED BY <1>5, <1>11, <2>4, <2>5, <2>6 DEF Placed
<1> QED BY <1>10, <1>11, <1>12, <1>13, <1>14, <1>15, <1>16 DEF Sound, Settles, y

LEMMA ExtractSound ==
  ASSUME NEW x, Sound(x), NEW D \in SUBSET Char
  PROVE  Settles(x, ExtractChars(x, D))
<1>1. SoundBut(x, D) BY SoundIsSoundBut
<1> QED BY <1>1, ExtractOrder

LEMMA SettlesTrans ==
  ASSUME NEW x, NEW y, NEW z, Settles(x, y), Settles(y, z) PROVE Settles(x, z)
BY DEF Settles

\* Thrown out, and whoever did not survive it.
LEMMA HurledSound ==
  ASSUME NEW x, NEW C \in SUBSET Char, NEW r, Sound(CharsToRoom(x, C, r)),
         CharsToRoom(x, C, r).at = x.at, CharsToRoom(x, C, r).k = x.k,
         NEW y \in Hurled(x, C, r)
  PROVE  Settles(x, y)
<1> DEFINE z == CharsToRoom(x, C, r)
<1>1. PICK D \in SUBSET C : y = ExtractChars(z, D) BY Zenon DEF Hurled
<1>2. D \in SUBSET Char OBVIOUS
<1>3. Sound(z) /\ z.at = x.at /\ z.k = x.k OBVIOUS
<1> HIDE DEF z
<1>4. Settles(z, ExtractChars(z, D)) BY <1>2, <1>3, ExtractSound
<1> QED BY <1>1, <1>3, <1>4 DEF Settles

-----------------------------------------------------------------------------
(* crash_test *)

LEMMA RidersPlay ==
  ASSUME NEW x, Sound(x), NEW v \in Veh
  PROVE  In(x, v) \in SUBSET ToSet(x.list) /\ In(x, v) \in SUBSET Char /\ ToSet(x.list) \subseteq Char
<1>1. x.people[v] \in Seq(Char) /\ x.list \in Seq(Char) BY DEF Sound, VehiclesType
<1>2. In(x, v) \subseteq Char /\ ToSet(x.list) \subseteq Char BY <1>1 DEF In, ToSet
<1>3. \A c \in Char : c \in In(x, v) => c \in ToSet(x.list) BY DEF Sound, Placed
<1> QED BY <1>2, <1>3

\* A bike throws all its riders: the seats it gets back are those they leave.
LEMMA ThrownSound ==
  ASSUME NEW x, Sound(x), NEW v \in Veh, Live(x, v),
         NEW y \in Hurled(Unflagged([x EXCEPT !.cspeed[v] = OFF,
                                              !.seating[v] = @ + Cardinality(In(x, v))], In(x, v)),
                          In(x, v), x.at[v])
  PROVE  Settles(x, y)
<1> DEFINE C == In(x, v)
           n == Cardinality(C)
           r == x.at[v]
           w == Unflagged([x EXCEPT !.cspeed[v] = OFF, !.seating[v] = @ + n], C)
           z == CharsToRoom(w, C, r)
<1>1. /\ x \in VehiclesType /\ Linked(x) /\ Listed(x) /\ Chased(x) /\ Placed(x)
      /\ \A u \in Veh : IsInjective(x.people[u])
  BY DEF Sound, Seated
<1>2. C \in SUBSET ToSet(x.list) /\ C \in SUBSET Char BY RidersPlay
<1>3. r \in Room BY <1>1 DEF Live, VehiclesType
<1>4. n = Len(x.people[v]) /\ n \in Nat
  <2>1. x.people[v] \in Seq(Char) /\ IsInjective(x.people[v]) BY <1>1 DEF VehiclesType
  <2> QED BY <2>1, LengthOfInjective DEF In
<1> HIDE DEF C, n, r
<1>5. w \in VehiclesType
  <2> DEFINE seating == [x.seating EXCEPT ![v] = @ + n]
             cspeed == [x.cspeed EXCEPT ![v] = OFF]
  <2>1. seating \in [Veh -> Int] BY <1>1, <1>4 DEF VehiclesType
  <2>2. cspeed \in [Veh -> Speeds] BY <1>1, SpeedTypes DEF VehiclesType
  <2>3. w = [x EXCEPT !.cspeed = cspeed, !.seating = seating, !.pilot = @ \ C, !.rig = @ \ C]
    BY <1>1 DEF VehiclesType, Unflagged
  <2> HIDE DEF w, seating, cspeed
  <2> QED BY <1>1, <2>1, <2>2, <2>3 DEF VehiclesType
<1>6. /\ w.remote = x.remote /\ w.rigging = x.rigging /\ w.rigger = x.rigger
      /\ w.sub = x.sub /\ w.subscribe = x.subscribe /\ w.k = x.k
      /\ w.at = x.at /\ w.following = x.following /\ w.followers = x.followers
      /\ w.list = x.list /\ w.room = x.room /\ w.people = x.people
      /\ w.seating = [x.seating EXCEPT ![v] = @ + n]
  BY <1>1 DEF VehiclesType, Unflagged
<1> HIDE DEF w
<1>7. PutInRoom(w, C, r, z)
  <2>1. \A u \in Veh : IsInjective(w.people[u]) BY <1>1, <1>6
  <2>2. r \in Room \cup {None} BY <1>3
  <2> QED BY <1>2, <1>5, <2>1, <2>2, ToRoomFacts
<1>8. Placed(z)
  <2>1. \A u \in Veh : IsInjective(w.people[u]) BY <1>1, <1>6
  <2>2. Placed(w) BY <1>1, <1>6, PlacedSame
  <2>3. C \in SUBSET ToSet(w.list) BY <1>2, <1>6
  <2> QED BY <1>3, <1>5, <2>1, <2>2, <2>3, ToRoomPlaced
<1> HIDE DEF z
<1>9. /\ z.remote = x.remote /\ z.rigging = x.rigging /\ z.rigger = x.rigger
      /\ z.sub = x.sub /\ z.subscribe = x.subscribe /\ z.k = x.k
      /\ z.at = x.at /\ z.following = x.following /\ z.followers = x.followers
      /\ z.seating = [x.seating EXCEPT ![v] = @ + n] /\ z \in VehiclesType
      /\ \A u \in Veh :
           /\ z.people[u] = Without(x.people[u], C)
           /\ IsInjective(z.people[u]) /\ Len(z.people[u]) <= Len(x.people[u])
  BY <1>6, <1>7 DEF PutInRoom
<1>10. Linked(z) /\ Listed(z) /\ Chased(z)
  BY <1>1, <1>9, LinkedSame, ListedSame, ChasedSame, Zenon
<1>11. Seated(z)
  <2>1. ASSUME NEW u \in Veh
        PROVE  z.seating[u] >= 0 /\ Len(z.people[u]) + z.seating[u] <= Capacity[u]
    <3>1. /\ Len(z.people[u]) \in Nat /\ Len(x.people[u]) \in Nat /\ x.seating[u] \in Int
          /\ Capacity[u] \in Nat
      BY <1>1, <1>9, SeatTypes
    <3>2. /\ Len(z.people[u]) <= Len(x.people[u])
          /\ Len(x.people[u]) + x.seating[u] <= Capacity[u] /\ x.seating[u] >= 0
      BY <1>9 DEF Sound, Seated
    <3>3. CASE u # v
      <4>1. z.seating[u] = x.seating[u]
        <5>1. z.seating = [x.seating EXCEPT ![v] = @ + n] BY <1>9
        <5>2. x.seating \in [Veh -> Int] /\ u # v BY <1>1, <3>3 DEF VehiclesType
        <5> QED BY <5>1, <5>2
      <4> DEFINE l == Len(z.people[u])
                 old == Len(x.people[u])
                 m == x.seating[u]
      <4>2. l \in Nat /\ old \in Nat /\ m \in Int /\ Capacity[u] \in Nat BY <3>1
      <4>3. l <= old /\ old + m <= Capacity[u] /\ m >= 0 BY <3>2
      <4> HIDE DEF l, old, m
      <4>4. l + m <= Capacity[u] BY <4>2, <4>3
      <4> QED BY <4>1, <4>3, <4>4 DEF l, m
    <3>4. CASE u = v
      <4>1. z.seating[u] = x.seating[u] + n
        <5>1. z.seating = [x.seating EXCEPT ![v] = @ + n] BY <1>9
        <5>2. x.seating \in [Veh -> Int] /\ u = v BY <1>1, <3>4 DEF VehiclesType
        <5> QED BY <5>1, <5>2
      <4>2. x.people[v] \in Seq(Char) /\ IsInjective(x.people[v]) BY <1>1 DEF VehiclesType
      <4>3. ToSet(x.people[v]) \subseteq C BY DEF C, In
      <4>4. Len(z.people[v]) = 0 BY <1>9, <4>2, <4>3, WithoutShorter
      <4> QED BY <1>4, <3>1, <3>2, <3>4, <4>1, <4>4
    <3> QED BY <3>3, <3>4
  <2> QED BY <1>9, <2>1 DEF Seated
<1>12. Sound(z) BY <1>8, <1>9, <1>10, <1>11 DEF Sound
<1>13. Settles(w, y)
  <2>1. y \in Hurled(w, C, r) BY Zenon DEF w, C, r, n
  <2>2. CharsToRoom(w, C, r).at = w.at /\ CharsToRoom(w, C, r).k = w.k
    BY <1>6, <1>9 DEF z
  <2>3. Sound(CharsToRoom(w, C, r)) BY <1>12 DEF z
  <2> QED BY <1>2, <2>1, <2>2, <2>3, HurledSound
<1> QED BY <1>6, <1>13 DEF Settles

LEMMA CareenSound ==
  ASSUME NEW x, Sound(x), NEW v \in Veh, Live(x, v), NEW y \in Careen(x, v)
  PROVE  Settles(x, y)
<1> DEFINE z == StopChase(x, v)
<1>1. Settles(x, z) BY StopChaseSound
<1>2. \/ y = z
      \/ y \in Hurled(Unflagged([z EXCEPT !.cspeed[v] = OFF,
                                          !.seating[v] = @ + Cardinality(In(z, v))], In(z, v)),
                      In(z, v), x.at[v])
  BY Zenon DEF Careen
<1> HIDE DEF z
<1>3. CASE y = z BY <1>1, <1>3
<1>4. CASE y \in Hurled(Unflagged([z EXCEPT !.cspeed[v] = OFF,
                                            !.seating[v] = @ + Cardinality(In(z, v))], In(z, v)),
                        In(z, v), x.at[v])
  <2>1. Sound(z) /\ Live(z, v) /\ z.at[v] = x.at[v] BY <1>1 DEF Settles, Live
  <2>2. Settles(z, y) BY <1>4, <2>1, ThrownSound
  <2> QED BY <1>1, <2>2, SettlesTrans
<1> QED BY <1>2, <1>3, <1>4

\* A wreck is one from the moment it is damaged, also before anything comes of it.
LEMMA WreckedSound ==
  ASSUME NEW x, Sound(x), NEW v \in Veh
  PROVE  Settles(x, [x EXCEPT !.wreck = @ \cup {v}])
<1> DEFINE y == [x EXCEPT !.wreck = @ \cup {v}]
<1>1. y \in VehiclesType /\ SameState(x, y) /\ y.at = x.at /\ y.k = x.k
  BY DEF Sound, VehiclesType, SameState
<1> HIDE DEF y
<1>2. Sound(y) BY <1>1, SoundSame
<1> QED BY <1>1, <1>2 DEF Settles, y

LEMMA CrashTestSound ==
  ASSUME NEW x, Sound(x), NEW c, NEW v \in Veh \cup {None}, NEW y \in CrashTest(x, c, v)
  PROVE  Settles(x, y)
<1>1. CASE ~Live(x, v)
  <2>1. y = Crash(x) BY <1>1 DEF CrashTest
  <2> QED BY <2>1, CrashSound
<1>2. CASE Live(x, v)
  <2>1. v \in Veh BY <1>2 DEF Live
  <2> DEFINE z == [x EXCEPT !.wreck = @ \cup {v}]
  <2>2. y = x \/ y \in Careen(x, v) \/ y \in Careen(z, v) BY <1>2, Zenon DEF CrashTest
  <2>3. Settles(x, x) BY DEF Settles
  <2>4. Settles(x, z) BY <2>1, WreckedSound
  <2> HIDE DEF z
  <2>5. Sound(z) /\ Live(z, v) BY <1>2, <2>4 DEF Settles, Live
  <2>6. y \in Careen(z, v) => Settles(z, y) BY <2>1, <2>5, CareenSound
  <2>7. y \in Careen(x, v) => Settles(x, y) BY <1>2, <2>1, CareenSound
  <2> QED BY <2>2, <2>3, <2>4, <2>6, <2>7, SettlesTrans
<1> QED BY <1>1, <1>2

-----------------------------------------------------------------------------
(* chkdmg *)

\* The rigger of a wreck is thrown out of the net, and may die of it.
LEMMA ReleaseRiggerSound ==
  ASSUME NEW x, Sound(x), NEW v \in Veh, NEW y \in ReleaseRigger(x, v)
  PROVE  Settles(x, y)
<1> DEFINE d == x.rigger[v]
           z == IF d \in Char
                THEN [x EXCEPT !.rigging[d] = None, !.remote = @ \ {d}, !.rigger[v] = None]
                ELSE [x EXCEPT !.rigger[v] = None]
<1>1. x \in VehiclesType BY DEF Sound
<1>2. y = z \/ (d \in Char /\ y = ExtractChars(z, {d})) BY DEF ReleaseRigger
<1>3. /\ z \in VehiclesType
      /\ z.sub = x.sub /\ z.subscribe = x.subscribe /\ z.k = x.k
      /\ z.at = x.at /\ z.following = x.following /\ z.followers = x.followers
      /\ z.list = x.list /\ z.room = x.room /\ z.people = x.people /\ z.seating = x.seating
      /\ z.rigger = [x.rigger EXCEPT ![v] = None]
      /\ z.remote = x.remote \ {d}
      /\ d \in Char => z.rigging = [x.rigging EXCEPT ![d] = None]
      /\ d \notin Char => z.rigging = x.rigging
  <2>1. CASE d \in Char
    <3> DEFINE rigging == [x.rigging EXCEPT ![d] = None]
               rigger == [x.rigger EXCEPT ![v] = None]
    <3>1. rigging \in [Char -> Veh \cup {None}] /\ rigger \in [Veh -> Char \cup {None, Ghost}]
      BY <1>1 DEF VehiclesType
    <3>2. z = [x EXCEPT !.rigging = rigging, !.remote = x.remote \ {d}, !.rigger = rigger]
      BY <1>1, <2>1 DEF VehiclesType
    <3>3. x.remote \ {d} \in SUBSET Char BY <1>1 DEF VehiclesType
    <3> HIDE DEF z, rigging, rigger
    <3>4. /\ z \in VehiclesType
          /\ z.sub = x.sub /\ z.subscribe = x.subscribe /\ z.k = x.k
          /\ z.at = x.at /\ z.following = x.following /\ z.followers = x.followers
          /\ z.list = x.list /\ z.room = x.room /\ z.people = x.people /\ z.seating = x.seating
          /\ z.rigger = rigger /\ z.remote = x.remote \ {d} /\ z.rigging = rigging
      BY <1>1, <3>1, <3>2, <3>3 DEF VehiclesType
    <3> QED BY <2>1, <3>4 DEF rigging, rigger
  <2>2. CASE d \notin Char
    <3> DEFINE rigger == [x.rigger EXCEPT ![v] = None]
    <3>1. rigger \in [Veh -> Char \cup {None, Ghost}] BY <1>1 DEF VehiclesType
    <3>2. z = [x EXCEPT !.rigger = rigger] BY <1>1, <2>2 DEF VehiclesType
    <3>3. x.remote \ {d} = x.remote BY <1>1, <2>2 DEF VehiclesType
    <3> HIDE DEF z, rigger
    <3>4. /\ z \in VehiclesType
          /\ z.sub = x.sub /\ z.subscribe = x.subscribe /\ z.k = x.k
          /\ z.at = x.at /\ z.following = x.following /\ z.followers = x.followers
          /\ z.list = x.list /\ z.room = x.room /\ z.people = x.people /\ z.seating = x.seating
          /\ z.rigger = rigger /\ z.remote = x.remote /\ z.rigging = x.rigging
      BY <1>1, <3>1, <3>2 DEF VehiclesType
    <3> QED BY <2>2, <3>3, <3>4 DEF rigger
  <2> QED BY <2>1, <2>2
<1> HIDE DEF z
<1>4. Linked(z)
  <2>1. /\ x.rigger \in [Veh -> Char \cup {None, Ghost}]
        /\ x.rigging \in [Char -> Veh \cup {None}]
    BY <1>1 DEF VehiclesType
  <2>2. None \notin Char \cup Veh BY VehiclesAssumption
  <2>3. Linked(x) BY DEF Sound
  <2>4. \A c \in Char : z.rigging[c] = IF c = d THEN None ELSE x.rigging[c] BY <1>3, <2>1
  <2>5. \A u \in Veh : z.rigger[u] = IF u = v THEN None ELSE x.rigger[u] BY <1>3, <2>1
  <2>6. d \in Char => x.rigging[d] = v BY <2>3 DEF Linked
  <2>7. \A c \in Char : c \in z.remote <=> z.rigging[c] # None BY <1>3, <2>3, <2>4 DEF Linked
  <2>8. \A c \in Char : \A u \in Veh : z.rigger[u] = c <=> z.rigging[c] = u
    BY <2>2, <2>3, <2>4, <2>5, <2>6 DEF Linked
  <2>9. \A c \in Char : z.rigging[c] # None => Owner[z.rigging[c]] = c
    BY <2>3, <2>4 DEF Linked
  <2> QED BY <2>7, <2>8, <2>9 DEF Linked
<1>5. Listed(z) /\ Chased(z) /\ Seated(z) /\ Placed(z)
  BY <1>3, ListedSame, ChasedSame, SeatedSame, PlacedSame, Zenon DEF Sound
<1>6. Sound(z) BY <1>3, <1>4, <1>5 DEF Sound
<1>7. Settles(x, z) BY <1>3, <1>6 DEF Settles
<1>8. CASE y = z BY <1>7, <1>8
<1>9. CASE d \in Char /\ y = ExtractChars(z, {d})
  <2>1. Settles(z, y) BY <1>6, <1>9, ExtractSound
  <2> QED BY <1>7, <2>1, SettlesTrans
<1> QED BY <1>2, <1>8, <1>9

LEMMA FastWreckSound ==
  ASSUME NEW x, Sound(x), NEW v \in Veh, Live(x, v), NEW y \in FastWreck(x, v)
  PROVE  Settles(x, y)
<1> DEFINE a == StopChase(x, v)
           b == [a EXCEPT !.cspeed[v] = OFF, !.dest[v] = None]
<1>1. Settles(x, a) BY StopChaseSound
<1>2. PICK z \in ReleaseRigger(b, v) : y \in Hurled(Unflagged(z, In(z, v)), In(z, v), z.at[v])
  BY Zenon DEF FastWreck
<1> HIDE DEF a
<1>3. Settles(a, b)
  <2>1. b \in VehiclesType /\ SameState(a, b) /\ b.at = a.at /\ b.k = a.k
    BY <1>1, SpeedTypes DEF Settles, Sound, VehiclesType, SameState
  <2> HIDE DEF b
  <2> QED BY <1>1, <2>1, SoundSame DEF Settles
<1> HIDE DEF b
<1>4. Settles(b, z) BY <1>2, <1>3, ReleaseRiggerSound DEF Settles
<1>5. Settles(x, z) BY <1>1, <1>3, <1>4, SettlesTrans
<1> DEFINE C == In(z, v)
           w == Unflagged(z, C)
<1>6. Sound(z) /\ z.at[v] = x.at[v] /\ x.at[v] \in Room
  BY <1>5 DEF Settles, Sound, Live, VehiclesType
<1>7. C \in SUBSET ToSet(z.list) /\ C \in SUBSET Char BY <1>6, RidersPlay
<1> HIDE DEF C
<1>8. w \in VehiclesType /\ SameState(z, w) /\ w.at = z.at /\ w.k = z.k
  BY <1>6, <1>7 DEF Sound, VehiclesType, Unflagged, SameState
<1>9. y \in Hurled(w, C, z.at[v]) BY <1>2 DEF C
<1> HIDE DEF w
<1>10. Sound(w) BY <1>6, <1>8, SoundSame
<1>11. C \in SUBSET ToSet(w.list) BY <1>7, <1>8 DEF SameState
<1>12. Settles(w, CharsToRoom(w, C, z.at[v])) BY <1>6, <1>10, <1>11, ToRoomSound
<1>13. Settles(w, y) BY <1>7, <1>9, <1>12, HurledSound DEF Settles
<1> QED BY <1>5, <1>8, <1>13 DEF Settles

LEMMA ChkDmgSound ==
  ASSUME NEW x, Sound(x), NEW v \in Veh, Live(x, v), NEW y \in ChkDmg(x, v)
  PROVE  Settles(x, y)
<1> DEFINE C == Scrambled(x, v)
<1>1. y = x \/ y \in FastWreck(x, v) \/ y \in Hurled(x, C, x.at[v]) BY DEF ChkDmg
<1>2. CASE y = x BY <1>2 DEF Settles
<1>3. CASE y \in FastWreck(x, v) BY <1>3, FastWreckSound
<1>4. CASE y \in Hurled(x, C, x.at[v])
  <2>1. x.at[v] \in Room BY DEF Sound, Live, VehiclesType
  <2>2. x.list \in Seq(Char) BY DEF Sound, VehiclesType
  <2>3. C \in SUBSET ToSet(x.list) /\ ToSet(x.list) \subseteq Char
    <3>1. CASE x.people[v] = <<>> BY <2>2, <3>1 DEF Scrambled, ToSet
    <3>2. CASE x.people[v] # <<>>
      <4> DEFINE i == Place(x.list, Head(x.people[v]))
      <4>1. x.people[v] \in Seq(Char) BY DEF Sound, VehiclesType
      <4>2. Head(x.people[v]) \in In(x, v)
        <5>1. x.people[v][1] = Head(x.people[v]) /\ 1 \in DOMAIN x.people[v] BY <3>2, <4>1
        <5> QED BY <5>1 DEF In, ToSet
      <4>3. Head(x.people[v]) \in ToSet(x.list) BY <4>2, RidersPlay
      <4>4. i \in DOMAIN x.list BY <4>3 DEF Place, ToSet
      <4> HIDE DEF i
      <4>5. \A j \in i .. Len(x.list) : j \in DOMAIN x.list BY <2>2, <4>4
      <4>6. C = {x.list[j] : j \in i .. Len(x.list)} BY <3>2 DEF Scrambled, i
      <4> QED BY <2>2, <4>5, <4>6 DEF ToSet
    <3> QED BY <3>1, <3>2
  <2> HIDE DEF C
  <2>4. Settles(x, CharsToRoom(x, C, x.at[v])) BY <2>1, <2>3, ToRoomSound
  <2>5. C \in SUBSET Char BY <2>3
  <2> QED BY <1>4, <2>4, <2>5, HurledSound DEF Settles
<1> QED BY <1>1, <1>2, <1>3, <1>4

LEMMA HitSound ==
  ASSUME NEW x, Sound(x), NEW v \in Veh, Live(x, v), NEW y \in Hit(x, v)
  PROVE  Settles(x, y)
<1> DEFINE z == [x EXCEPT !.wreck = @ \cup {v}]
<1>1. y = x \/ y \in ChkDmg(z, v) BY Zenon DEF Hit
<1>2. Settles(x, z) BY WreckedSound
<1> HIDE DEF z
<1>3. Sound(z) /\ Live(z, v) BY <1>2 DEF Settles, Live
<1>4. y \in ChkDmg(z, v) => Settles(z, y) BY <1>3, ChkDmgSound
<1>5. Settles(x, x) BY DEF Settles
<1> QED BY <1>1, <1>2, <1>4, <1>5, SettlesTrans

LEMMA RamDamageSound ==
  ASSUME NEW x, Sound(x), NEW v \in Veh, Live(x, v), NEW y \in RamDamage(x, v)
  PROVE  Settles(x, y)
<1>1. PICK a \in Shaken(x, v) :
        \E z \in {a, [a EXCEPT !.wreck = @ \cup {v}]} : y \in ChkDmg(z, v)
  BY Zenon DEF RamDamage
<1>2. PICK z \in {a, [a EXCEPT !.wreck = @ \cup {v}]} : y \in ChkDmg(z, v) BY <1>1
<1>3. Settles(x, a)
  <2> DEFINE slow == IF x.cspeed[v] > IDLE THEN [x EXCEPT !.cspeed[v] = CRUISING] ELSE x
  <2>1. Settles(x, slow)
    <3>1. slow \in VehiclesType /\ SameState(x, slow) /\ slow.at = x.at /\ slow.k = x.k
      BY SpeedTypes DEF Sound, VehiclesType, SameState
    <3> HIDE DEF slow
    <3> QED BY <3>1, SoundSame DEF Settles
  <2>2. a = x \/ a = slow \/ a \in CrashTest(slow, None, v) BY <1>1, Zenon DEF Shaken
  <2> HIDE DEF slow
  <2>3. v \in Veh \cup {None} OBVIOUS
  <2>4. a \in CrashTest(slow, None, v) => Settles(slow, a)
    BY <2>1, <2>3, CrashTestSound DEF Settles
  <2>5. Settles(x, x) BY DEF Settles
  <2> QED BY <2>1, <2>2, <2>4, <2>5, SettlesTrans
<1>4. Settles(a, z)
  <2>1. Sound(a) BY <1>3 DEF Settles
  <2>2. Settles(a, a) BY <2>1 DEF Settles
  <2>3. Settles(a, [a EXCEPT !.wreck = @ \cup {v}]) BY <2>1, WreckedSound
  <2> QED BY <1>2, <2>2, <2>3
<1>5. Settles(x, z) BY <1>3, <1>4, SettlesTrans
<1>6. Sound(z) /\ Live(z, v) BY <1>5 DEF Settles, Live
<1>7. Settles(z, y) BY <1>2, <1>6, ChkDmgSound
<1> QED BY <1>5, <1>7, SettlesTrans

-----------------------------------------------------------------------------
(* What the guards of the commands say. *)

LEMMA WhereFacts ==
  ASSUME NEW x \in VehiclesType, NEW c \in Char
  PROVE  /\ InVeh(x, c) \in Veh \cup {None} /\ RigVeh(x, c) \in Veh \cup {None}
         /\ \A v \in Veh : InVeh(x, c) = v => c \in In(x, v)
         /\ InVeh(x, c) = None => \A v \in Veh : c \notin In(x, v)
<1>1. None \notin Veh BY VehiclesAssumption
<1>2. x.rigging[c] \in Veh \cup {None} BY DEF VehiclesType
<1>3. CASE \E v \in Veh : c \in In(x, v)
  <2>1. InVeh(x, c) \in Veh /\ c \in In(x, InVeh(x, c)) BY <1>3 DEF InVeh
  <2> QED BY <1>1, <1>2, <2>1 DEF RigVeh
<1>4. CASE ~\E v \in Veh : c \in In(x, v)
  <2>1. InVeh(x, c) = None BY <1>4 DEF InVeh
  <2> QED BY <1>1, <1>2, <1>4, <2>1 DEF RigVeh
<1> QED BY <1>3, <1>4

LEMMA LiveFacts ==
  ASSUME NEW x \in VehiclesType, NEW v \in Veh \cup {None}, Live(x, v)
  PROVE  v \in Veh /\ x.at[v] \in Room
BY VehiclesAssumption DEF Live, VehiclesType

LEMMA RoomsOfScene ==
  ASSUME NEW x \in VehiclesType
  PROVE  /\ x.k.rooms \subseteq Room /\ x.k.who \subseteq Char /\ x.k \in Scenes
         /\ None \notin x.k.rooms
BY ScenesAssumption, VehiclesAssumption DEF VehiclesType

LEMMA ContainsFacts ==
  ASSUME NEW T, NEW s \in Seq(T), NEW e
  PROVE  Contains(s, e) <=> e \in ToSet(s)
BY DEF Contains, ToSet

LEMMA PlayingFacts ==
  ASSUME NEW x \in VehiclesType, NEW c
  PROVE  Playing(x, c) <=> c \in ToSet(x.list)
BY DEF Playing, Contains, ToSet, VehiclesType

-----------------------------------------------------------------------------
(* The commands, one lemma each. *)

\* What remains to be shown of a handler that is one step: g is in order after it.
Next1Sound == Sound(g') /\ UNCHANGED stack

LEMMA EnterSound ==
  ASSUME Sound(g), NEW c \in Char, NEW v \in Veh, Enter(c, v)
  PROVE  Next1Sound
<1> DEFINE p == <<c>> \o g.people[v]
           room == [g.room EXCEPT ![c] = None]
           people == [g.people EXCEPT ![v] = p]
           seating == [g.seating EXCEPT ![v] = @ - 1]
<1>1. g \in VehiclesType /\ Linked(g) /\ Listed(g) /\ Chased(g) /\ Placed(g) /\ Seated(g)
  BY DEF Sound
<1>2. /\ Playing(g, c) /\ InVeh(g, c) = None /\ Live(g, v) /\ g.at[v] = g.room[c]
      /\ g.seating[v] # 0 /\ UNCHANGED stack
      /\ g' = [g EXCEPT !.room[c] = None, !.people[v] = <<c>> \o @, !.seating[v] = @ - 1]
  BY DEF Enter, Free, Given, Outcome
<1>3. /\ g.room \in [Char -> Room \cup {None}] /\ g.people \in [Veh -> Seq(Char)]
      /\ g.seating \in [Veh -> Int] /\ g.people[v] \in Seq(Char) /\ Capacity \in [Veh -> Nat]
  BY <1>1, VehiclesAssumption DEF VehiclesType
<1>4. \A u \in Veh : c \notin In(g, u) BY <1>1, <1>2, WhereFacts
<1>5. IsInjective(g.people[v]) /\ c \notin ToSet(g.people[v]) BY <1>1, <1>4 DEF Seated, In
<1>6. p \in Seq(Char) /\ Len(p) = Len(g.people[v]) + 1 /\ ToSet(p) = In(g, v) \cup {c} /\ IsInjective(p)
  BY <1>3, <1>5, Prepended DEF In
<1>7. g' = [g EXCEPT !.room = room, !.people = people, !.seating = seating]
  BY <1>1, <1>2 DEF VehiclesType
<1> HIDE DEF p
<1>8. /\ room \in [Char -> Room \cup {None}] /\ people \in [Veh -> Seq(Char)]
      /\ seating \in [Veh -> Int]
  BY <1>3, <1>6
<1>9. /\ \A d \in Char : room[d] = IF d = c THEN None ELSE g.room[d]
      /\ \A u \in Veh : people[u] = IF u = v THEN p ELSE g.people[u]
      /\ \A u \in Veh : seating[u] = IF u = v THEN g.seating[u] - 1 ELSE g.seating[u]
  BY <1>3
<1> HIDE DEF room, people, seating
<1>10. g' \in VehiclesType BY <1>1, <1>7, <1>8 DEF VehiclesType
<1>11. /\ g'.remote = g.remote /\ g'.rigging = g.rigging /\ g'.rigger = g.rigger
       /\ g'.sub = g.sub /\ g'.subscribe = g.subscribe
       /\ g'.at = g.at /\ g'.following = g.following /\ g'.followers = g.followers
       /\ g'.list = g.list /\ g'.room = room /\ g'.people = people /\ g'.seating = seating
  BY <1>1, <1>7 DEF VehiclesType
<1>12. Linked(g') /\ Listed(g') /\ Chased(g')
  BY <1>1, <1>11, LinkedSame, ListedSame, ChasedSame, Zenon
<1>13. Seated(g')
  <2>1. ASSUME NEW u \in Veh
        PROVE  /\ IsInjective(people[u]) /\ seating[u] >= 0
               /\ Len(people[u]) + seating[u] <= Capacity[u]
    <3>1. /\ IsInjective(g.people[u]) /\ g.seating[u] >= 0
          /\ Len(g.people[u]) + g.seating[u] <= Capacity[u]
      BY <1>1 DEF Seated
    <3>2. Len(g.people[u]) \in Nat /\ g.seating[u] \in Int /\ Capacity[u] \in Nat BY <1>3
    <3>3. CASE u # v
      <4>1. people[u] = g.people[u] /\ seating[u] = g.seating[u] BY <1>9, <3>3
      <4> QED BY <3>1, <4>1
    <3>4. CASE u = v
      <4>1. people[u] = p /\ seating[u] = g.seating[u] - 1 BY <1>9, <3>4
      <4>2. Len(p) = Len(g.people[u]) + 1 /\ IsInjective(p) BY <1>6, <3>4
      <4>3. g.seating[u] # 0 BY <1>2, <3>4
      <4>4. seating[u] >= 0 BY <3>1, <3>2, <4>1, <4>3
      <4>5. Len(people[u]) + seating[u] = Len(g.people[u]) + g.seating[u]
        <5> DEFINE n == Len(g.people[u])
                   m == g.seating[u]
        <5>1. n \in Nat /\ m \in Int BY <3>2
        <5>2. Len(people[u]) = n + 1 /\ seating[u] = m - 1 BY <4>1, <4>2
        <5> HIDE DEF n, m
        <5>3. (n + 1) + (m - 1) = n + m BY <5>1
        <5> QED BY <5>2, <5>3 DEF n, m
      <4> QED BY <3>1, <4>1, <4>2, <4>4, <4>5
    <3> QED BY <3>3, <3>4
  <2> QED BY <1>11, <2>1 DEF Seated
<1>14. Placed(g')
  <2>1. \A u \in Veh : In(g', u) = IF u = v THEN In(g, u) \cup {c} ELSE In(g, u)
    BY <1>6, <1>9, <1>11 DEF In
  <2>2. c \in ToSet(g.list) BY <1>1, <1>2, PlayingFacts
  <2>3. ASSUME NEW d \in Char, NEW u \in Veh, d \in In(g', u)
        PROVE  /\ d \in ToSet(g.list) /\ room[d] = None
               /\ \A w \in Veh : d \in In(g', w) => w = u
    <3>1. CASE d = c BY <1>4, <1>9, <2>1, <2>2, <2>3, <3>1
    <3>2. CASE d # c BY <1>1, <1>9, <2>1, <2>3, <3>2 DEF Placed
    <3> QED BY <3>1, <3>2
  <2>4. \A d \in Char : room[d] # None => d \in ToSet(g.list) BY <1>1, <1>9 DEF Placed
  <2>5. ToSet(g.list) \subseteq Char BY <1>1 DEF VehiclesType, ToSet
  <2>6. ASSUME NEW d \in ToSet(g.list) PROVE room[d] # None \/ \E u \in Veh : d \in In(g', u)
    <3>1. CASE d = c BY <2>1, <3>1
    <3>2. CASE d # c BY <1>1, <1>9, <2>1, <2>5, <3>2 DEF Placed
    <3> QED BY <3>1, <3>2
  <2> QED BY <1>1, <1>11, <2>3, <2>4, <2>6 DEF Placed
<1> QED BY <1>2, <1>10, <1>12, <1>13, <1>14 DEF Sound, Next1Sound

\* One body out of a vehicle and its seat given back: what leave_veh and do_quit share.
LEMMA GetOutFacts ==
  ASSUME NEW x, Sound(x), NEW c \in Char, NEW v \in Veh, c \in In(x, v)
  PROVE  LET z == [x EXCEPT !.seating[v] = @ + 1]
         IN  SoundBut(z, {c}) /\ z.at = x.at /\ z.k = x.k /\ z.list = x.list
<1> DEFINE seating == [x.seating EXCEPT ![v] = @ + 1]
           z == [x EXCEPT !.seating[v] = @ + 1]
<1>1. x \in VehiclesType /\ Linked(x) /\ Listed(x) /\ Chased(x) /\ Placed(x) /\ Seated(x)
  BY DEF Sound
<1>2. x.seating \in [Veh -> Int] /\ x.people \in [Veh -> Seq(Char)] /\ Capacity \in [Veh -> Nat]
  BY <1>1, VehiclesAssumption DEF VehiclesType
<1>3. seating \in [Veh -> Int]
      /\ \A u \in Veh : seating[u] = IF u = v THEN x.seating[u] + 1 ELSE x.seating[u]
  BY <1>2
<1>4. z = [x EXCEPT !.seating = seating] BY <1>1 DEF VehiclesType
<1> HIDE DEF seating, z
<1>5. z \in VehiclesType BY <1>1, <1>3, <1>4 DEF VehiclesType
<1>6. /\ z.remote = x.remote /\ z.rigging = x.rigging /\ z.rigger = x.rigger
      /\ z.sub = x.sub /\ z.subscribe = x.subscribe
      /\ z.at = x.at /\ z.following = x.following /\ z.followers = x.followers /\ z.k = x.k
      /\ z.list = x.list /\ z.room = x.room /\ z.people = x.people /\ z.seating = seating
  BY <1>1, <1>4 DEF VehiclesType
<1>7. Linked(z) /\ Listed(z) /\ Chased(z) /\ Placed(z)
  BY <1>1, <1>6, LinkedSame, ListedSame, ChasedSame, PlacedSame, Zenon
<1>8. ASSUME NEW u \in Veh
      PROVE  /\ IsInjective(z.people[u]) /\ z.seating[u] >= 0
             /\ Len(Without(z.people[u], {c})) + z.seating[u] <= Capacity[u]
  <2>1. /\ IsInjective(x.people[u]) /\ x.seating[u] >= 0
        /\ Len(x.people[u]) + x.seating[u] <= Capacity[u]
    BY <1>1 DEF Seated
  <2>2. x.people[u] \in Seq(Char) /\ x.seating[u] \in Int /\ Capacity[u] \in Nat BY <1>2
  <2>3. /\ Len(Without(x.people[u], {c})) <= Len(x.people[u])
        /\ Without(x.people[u], {c}) \in Seq(Char)
    BY <2>1, <2>2, WithoutFacts
  <2>4. Len(Without(x.people[u], {c})) \in Nat /\ Len(x.people[u]) \in Nat BY <2>2, <2>3
  <2>5. CASE u # v
    <3>1. z.seating[u] = x.seating[u] /\ z.people[u] = x.people[u] BY <1>3, <1>6, <2>5
    <3> QED BY <2>1, <2>2, <2>3, <2>4, <3>1
  <2>6. CASE u = v
    <3>1. {c} \cap ToSet(x.people[u]) # {} BY <2>6 DEF In
    <3>2. Len(Without(x.people[u], {c})) + 1 <= Len(x.people[u])
      BY <2>1, <2>2, <3>1, WithoutShorter
    <3>3. z.seating[u] = x.seating[u] + 1 /\ z.people[u] = x.people[u] BY <1>3, <1>6, <2>6
    <3> QED BY <2>1, <2>2, <2>4, <3>2, <3>3
  <2> QED BY <2>5, <2>6
<1> QED BY <1>5, <1>6, <1>7, <1>8 DEF z, SoundBut

LEMMA LeaveSound ==
  ASSUME Sound(g), NEW c \in Char, NEW v \in Veh, Leave(c, v)
  PROVE  Next1Sound
<1> DEFINE a == [g EXCEPT !.pilot = @ \ {c}, !.cspeed[v] = OFF]
           x == IF c \in g.pilot THEN StopChase(a, v) ELSE g
           z == [x EXCEPT !.seating[v] = @ + 1]
           y == CharsToRoom(z, {c}, g.at[v])
<1>1. /\ Playing(g, c) /\ v = InVeh(g, c) /\ Live(g, v) /\ UNCHANGED stack /\ g' = y
  BY Zenon DEF Leave, Free, Given, Aboard, Outcome
<1>2. g \in VehiclesType BY DEF Sound
<1>3. c \in In(g, v) /\ g.at[v] \in Room BY <1>1, <1>2, WhereFacts, LiveFacts
<1>4. Settles(g, a)
  <2>1. a \in VehiclesType /\ SameState(g, a) /\ a.at = g.at /\ a.k = g.k
    BY <1>2, SpeedTypes DEF VehiclesType, SameState
  <2> HIDE DEF a
  <2> QED BY <2>1, SoundSame DEF Settles
<1>5. a.people = g.people /\ a.list = g.list BY <1>2 DEF VehiclesType
<1> HIDE DEF a
<1>6. Sound(x) /\ x.at = g.at /\ x.people = g.people /\ x.list = g.list
  <2>1. CASE c \notin g.pilot BY <2>1
  <2>2. CASE c \in g.pilot
    <3>1. Sound(a) /\ Live(a, v) /\ a \in VehiclesType BY <1>1, <1>4 DEF Settles, Live, Sound
    <3>2. Settles(a, StopChase(a, v)) BY <3>1, StopChaseSound
    <3>3. StopChase(a, v).people = a.people /\ StopChase(a, v).list = a.list
      BY <3>1, StopChaseKeeps
    <3> QED BY <1>4, <1>5, <2>2, <3>2, <3>3 DEF Settles
  <2> QED BY <2>1, <2>2
<1> HIDE DEF x
<1>7. c \in In(x, v) BY <1>3, <1>6 DEF In
<1>8. /\ z \in VehiclesType /\ Placed(z) /\ Linked(z) /\ Listed(z) /\ Chased(z)
      /\ z.at = x.at /\ z.k = x.k /\ z.list = x.list
      /\ \A u \in Veh :
           /\ IsInjective(z.people[u]) /\ z.seating[u] >= 0
           /\ Len(Without(z.people[u], {c})) + z.seating[u] <= Capacity[u]
  BY <1>6, <1>7, GetOutFacts DEF SoundBut
<1> HIDE DEF z
<1>9. PutInRoom(z, {c}, g.at[v], y)
  <2>1. {c} \in SUBSET Char /\ g.at[v] \in Room \cup {None} BY <1>3
  <2>2. \A u \in Veh : IsInjective(z.people[u]) BY <1>8
  <2> QED BY <1>8, <2>1, <2>2, ToRoomFacts
<1>10. Placed(y)
  <2>1. {c} \in SUBSET ToSet(z.list) BY <1>1, <1>2, <1>6, <1>8, PlayingFacts
  <2>2. \A u \in Veh : IsInjective(z.people[u]) BY <1>8
  <2> QED BY <1>3, <1>8, <2>1, <2>2, ToRoomPlaced
<1> HIDE DEF y
<1>11. Linked(y) /\ Listed(y) /\ Chased(y)
  BY <1>8, <1>9, LinkedSame, ListedSame, ChasedSame DEF PutInRoom
<1>12. Seated(y) BY <1>8, <1>9 DEF PutInRoom, Seated
<1> QED BY <1>1, <1>9, <1>10, <1>11, <1>12 DEF Sound, Next1Sound, PutInRoom

LEMMA QuitSound ==
  ASSUME Sound(g), NEW c \in Char, Quit(c)
  PROVE  Next1Sound
<1>1. g \in VehiclesType BY DEF Sound
<1>2. CASE InVeh(g, c) = None
  <2>1. g' = ExtractChars(g, {c}) /\ UNCHANGED stack BY <1>2 DEF Quit, Outcome
  <2>2. Settles(g, ExtractChars(g, {c})) BY ExtractSound
  <2> QED BY <2>1, <2>2 DEF Settles, Next1Sound
<1>3. CASE InVeh(g, c) # None
  <2> DEFINE v == InVeh(g, c)
             x == [g EXCEPT !.seating[v] = @ + 1]
             e == [x EXCEPT !.cspeed[v] = OFF]
             f == [g EXCEPT !.cspeed[v] = OFF]
             a == IF c \in g.pilot THEN StopChase(e, v) ELSE x
             b == IF c \in g.pilot THEN StopChase(f, v) ELSE g
  <2>1. v \in Veh /\ c \in In(g, v) BY <1>1, <1>3, WhereFacts
  <2>2. Live(g, v) /\ g' = ExtractChars(a, {c}) /\ UNCHANGED stack
    BY <1>3, Zenon DEF Quit, Outcome
  <2> HIDE DEF v
  \* The seat is given back first: as if the chase had ended before it.
  <2>3. Sound(b) /\ b.people = g.people
    <3>1. CASE c \notin g.pilot BY <3>1
    <3>2. CASE c \in g.pilot
      <4>1. f \in VehiclesType /\ SameState(g, f) /\ f.people = g.people /\ f.at = g.at
        BY <1>1, <2>1, SpeedTypes DEF VehiclesType, SameState
      <4>5. b = StopChase(f, v) BY <3>2
      <4> HIDE DEF f, b
      <4>2. Sound(f) /\ Live(f, v) BY <2>2, <4>1, SoundSame DEF Live
      <4>3. Settles(f, StopChase(f, v)) BY <2>1, <4>2, StopChaseSound
      <4>4. StopChase(f, v).people = f.people BY <2>1, <4>1, StopChaseKeeps
      <4> QED BY <4>1, <4>3, <4>4, <4>5 DEF Settles
    <3> QED BY <3>1, <3>2
  <2>4. a = [b EXCEPT !.seating[v] = @ + 1]
    <3>1. CASE c \notin g.pilot BY <3>1
    <3>2. CASE c \in g.pilot
      <4>1. e.following = f.following /\ e.at = f.at /\ e.followers = f.followers
        BY <1>1, <2>1 DEF VehiclesType
      <4>2. f.seating = g.seating /\ e = [f EXCEPT !.seating[v] = @ + 1]
            /\ f \in VehiclesType
        BY <1>1, <2>1, SpeedTypes DEF VehiclesType
      <4>3. a = StopChase(e, v) /\ b = StopChase(f, v) BY <3>2
      <4> HIDE DEF e, f, a, b
      <4>4. StopChase(e, v) = [StopChase(f, v) EXCEPT !.seating[v] = @ + 1]
        <5>1. CASE f.following[v] = None BY <4>1, <4>2, <5>1 DEF StopChase
        <5>2. CASE f.following[v] # None /\ ~Live(f, f.following[v])
          <6>1. StopChase(e, v) = Crash(e) /\ StopChase(f, v) = Crash(f)
            BY <4>1, <5>2 DEF StopChase, Live
          <6> QED BY <4>2, <6>1 DEF Crash, VehiclesType
        <5>3. CASE f.following[v] # None /\ Live(f, f.following[v])
          <6>1. StopChase(e, v) = Unchased(e, v) /\ StopChase(f, v) = Unchased(f, v)
            BY <4>1, <5>3 DEF StopChase, Live
          <6> DEFINE fs == [f.followers EXCEPT ![f.following[v]] = Without(@, {v})]
                     fg == [f.following EXCEPT ![v] = None]
                     st == [f.seating EXCEPT ![v] = @ + 1]
                     u == [f EXCEPT !.followers = fs, !.following = fg]
          <6>2. Unchased(f, v) = u BY <4>2 DEF Unchased, VehiclesType
          <6>3. Unchased(e, v) = [e EXCEPT !.followers = fs, !.following = fg]
            BY <4>1, <4>2 DEF Unchased, VehiclesType
          <6>4. e = [f EXCEPT !.seating = st] BY <4>2 DEF VehiclesType
          <6>5. u.seating = f.seating BY <4>2 DEF VehiclesType
          <6>6. [u EXCEPT !.seating[v] = @ + 1] = [u EXCEPT !.seating = st]
            <7> HIDE DEF fs, fg
            <7> QED BY <4>2, <6>5 DEF VehiclesType
          <6> HIDE DEF fs, fg, st
          <6>7. [e EXCEPT !.followers = fs, !.following = fg] = [u EXCEPT !.seating = st]
            BY <4>2, <6>4 DEF VehiclesType
          <6> HIDE DEF u
          <6> QED BY <6>1, <6>2, <6>3, <6>6, <6>7
        <5> QED BY <5>1, <5>2, <5>3
      <4> QED BY <4>3, <4>4
    <3> QED BY <3>1, <3>2
  <2> HIDE DEF a, b, x, e, f
  <2>5. c \in In(b, v) BY <2>1, <2>3 DEF In
  <2>6. SoundBut(a, {c}) BY <2>1, <2>3, <2>4, <2>5, GetOutFacts
  <2>7. {c} \in SUBSET Char OBVIOUS
  <2>8. Settles(a, ExtractChars(a, {c})) BY <2>6, <2>7, ExtractOrder
  <2> QED BY <2>2, <2>8 DEF Settles, Next1Sound
<1> QED BY <1>2, <1>3

LEMMA FlipType ==
  ASSUME NEW S \in SUBSET Char, NEW c \in Char
  PROVE  Flip(S, c) \in SUBSET Char
BY DEF Flip

LEMMA SpeedSound ==
  ASSUME NEW x, Sound(x), NEW v \in Veh, NEW n \in Speeds
  PROVE  Settles(x, [x EXCEPT !.cspeed[v] = n])
<1> DEFINE y == [x EXCEPT !.cspeed[v] = n]
<1>1. y \in VehiclesType /\ SameState(x, y) /\ y.at = x.at /\ y.k = x.k
  BY DEF Sound, VehiclesType, SameState
<1> HIDE DEF y
<1>2. Sound(y) BY <1>1, SoundSame
<1> QED BY <1>1, <1>2 DEF Settles, y

LEMMA FlagsSound ==
  ASSUME NEW x, Sound(x), NEW P \in SUBSET Char, NEW R \in SUBSET Char
  PROVE  Settles(x, [x EXCEPT !.pilot = P, !.rig = R])
<1> DEFINE y == [x EXCEPT !.pilot = P, !.rig = R]
<1>1. y \in VehiclesType /\ SameState(x, y) /\ y.at = x.at /\ y.k = x.k
  BY DEF Sound, VehiclesType, SameState
<1> HIDE DEF y
<1>2. Sound(y) BY <1>1, SoundSame
<1> QED BY <1>1, <1>2 DEF Settles, y

LEMMA DriveSound ==
  ASSUME Sound(g), NEW c \in Char, NEW v \in Veh, Drive(c, v)
  PROVE  Next1Sound
<1> DEFINE x == [g EXCEPT !.pilot = Flip(@, c)]
<1>1. /\ Live(g, v) /\ UNCHANGED stack
      /\ g' = IF g.cspeed[v] = OFF THEN [x EXCEPT !.cspeed[v] = IDLE]
              ELSE [StopChase(x, v) EXCEPT !.cspeed[v] = OFF]
  BY Zenon DEF Drive, Aboard, Outcome
<1>2. Settles(g, x)
  <2>1. g \in VehiclesType BY DEF Sound
  <2>2. Flip(g.pilot, c) \in SUBSET Char BY <2>1, FlipType DEF VehiclesType
  <2>3. x = [g EXCEPT !.pilot = Flip(g.pilot, c), !.rig = g.rig] BY <2>1 DEF VehiclesType
  <2>4. g.rig \in SUBSET Char BY <2>1 DEF VehiclesType
  <2> HIDE DEF x
  <2> QED BY <2>2, <2>3, <2>4, FlagsSound
<1> HIDE DEF x
<1>3. Sound(x) /\ Live(x, v) BY <1>1, <1>2 DEF Settles, Live
<1>4. Settles(x, [x EXCEPT !.cspeed[v] = IDLE]) BY <1>3, SpeedTypes, SpeedSound
<1>5. Settles(x, StopChase(x, v)) BY <1>3, StopChaseSound
<1>6. Sound([StopChase(x, v) EXCEPT !.cspeed[v] = OFF])
  BY <1>5, SpeedTypes, SpeedSound DEF Settles
<1> QED BY <1>1, <1>4, <1>6 DEF Settles, Next1Sound

LEMMA RigSound ==
  ASSUME Sound(g), NEW c \in Char, NEW v \in Veh, Rig(c, v)
  PROVE  Next1Sound
<1> DEFINE x == [g EXCEPT !.pilot = Flip(@, c), !.rig = Flip(@, c)]
           y == [x EXCEPT !.cspeed[v] = OFF]
<1>1. /\ Live(g, v) /\ UNCHANGED stack
      /\ g' = [x EXCEPT !.cspeed[v] = IDLE] \/ g' = StopChase(y, v)
  BY Zenon DEF Rig, Aboard, Outcome
<1>2. Settles(g, x)
  <2>1. g \in VehiclesType BY DEF Sound
  <2>2. Flip(g.pilot, c) \in SUBSET Char /\ Flip(g.rig, c) \in SUBSET Char
    BY <2>1, FlipType DEF VehiclesType
  <2> QED BY <2>2, FlagsSound
<1> HIDE DEF x
<1>3. Settles(x, [x EXCEPT !.cspeed[v] = IDLE]) /\ Settles(x, y)
  BY <1>2, SpeedTypes, SpeedSound DEF Settles
<1> HIDE DEF y
<1>4. Sound(y) /\ Live(y, v) BY <1>1, <1>2, <1>3 DEF Settles, Live
<1>5. Settles(y, StopChase(y, v)) BY <1>4, StopChaseSound
<1> QED BY <1>1, <1>3, <1>5 DEF Settles, Next1Sound

\* The vehicle cannot have another rigger: it would be that one's, and not on this list.
LEMMA ControlSound ==
  ASSUME Sound(g), NEW c \in Char, NEW v \in Veh, Control(c, v)
  PROVE  Next1Sound
<1> DEFINE jacked == In(g, v) \cap g.rig
           y == [g EXCEPT !.rigging[c] = v, !.rigger[v] = c, !.remote = @ \cup {c},
                          !.rig = @ \ jacked,
                          !.pilot = (@ \ In(g, v)) \cup (jacked \ @)]
<1>1. /\ c \notin g.remote /\ Contains(g.subscribe[c], v) /\ UNCHANGED stack
      /\ g' = Crash(g) \/ g' = y
  BY Zenon DEF Control, Free, Jacked, Outcome
<1>2. g \in VehiclesType BY DEF Sound
<1>3. jacked \subseteq Char BY <1>2 DEF VehiclesType
<1> HIDE DEF jacked
<1>4. y \in VehiclesType
  <2> DEFINE rigging == [g.rigging EXCEPT ![c] = v]
             rigger == [g.rigger EXCEPT ![v] = c]
             pilot == (g.pilot \ In(g, v)) \cup (jacked \ g.pilot)
  <2>1. rigging \in [Char -> Veh \cup {None}] /\ rigger \in [Veh -> Char \cup {None, Ghost}]
    BY <1>2 DEF VehiclesType
  <2>2. /\ pilot \in SUBSET Char /\ g.rig \ jacked \in SUBSET Char
        /\ g.remote \cup {c} \in SUBSET Char
    BY <1>2, <1>3 DEF VehiclesType
  <2>3. y = [g EXCEPT !.rigging = rigging, !.rigger = rigger, !.remote = g.remote \cup {c},
                      !.rig = g.rig \ jacked, !.pilot = pilot]
    BY <1>2 DEF VehiclesType
  <2> HIDE DEF y, rigging, rigger, pilot
  <2> QED BY <1>2, <2>1, <2>2, <2>3 DEF VehiclesType
<1>5. /\ y.sub = g.sub /\ y.subscribe = g.subscribe
      /\ y.at = g.at /\ y.following = g.following /\ y.followers = g.followers
      /\ y.list = g.list /\ y.room = g.room /\ y.people = g.people /\ y.seating = g.seating
      /\ y.rigging = [g.rigging EXCEPT ![c] = v] /\ y.rigger = [g.rigger EXCEPT ![v] = c]
      /\ y.remote = g.remote \cup {c}
  BY <1>2 DEF VehiclesType
<1> HIDE DEF y
<1>6. Linked(y)
  <2>1. /\ g.rigger \in [Veh -> Char \cup {None, Ghost}]
        /\ g.rigging \in [Char -> Veh \cup {None}]
    BY <1>2 DEF VehiclesType
  <2>2. None \notin Char \cup Veh BY VehiclesAssumption
  <2>3. Linked(g) BY DEF Sound
  <2>4. Owner[v] = c
    <3>1. v \in ToSet(g.subscribe[c])
      <4>1. g.subscribe[c] \in Seq(Veh) BY <1>2 DEF VehiclesType
      <4> QED BY <1>1, <4>1, ContainsFacts
    <3> QED BY <3>1 DEF Sound, Listed
  <2>5. g.rigging[c] = None BY <1>1, <2>3 DEF Linked
  <2>6. \A d \in Char : g.rigger[v] # d
    <3>1. ASSUME NEW d \in Char, g.rigger[v] = d PROVE FALSE
      <4>1. g.rigging[d] = v BY <2>3, <3>1 DEF Linked
      <4>2. Owner[v] = d BY <2>2, <2>3, <4>1 DEF Linked
      <4> QED BY <2>2, <2>4, <2>5, <4>1, <4>2
    <3> QED BY <3>1
  <2>7. \A d \in Char : y.rigging[d] = IF d = c THEN v ELSE g.rigging[d] BY <1>5, <2>1
  <2>8. \A u \in Veh : y.rigger[u] = IF u = v THEN c ELSE g.rigger[u] BY <1>5, <2>1
  <2>9. \A d \in Char : d \in y.remote <=> y.rigging[d] # None
    BY <1>5, <2>2, <2>3, <2>7 DEF Linked
  <2>10. ASSUME NEW d \in Char, NEW u \in Veh PROVE y.rigger[u] = d <=> y.rigging[d] = u
    BY <2>2, <2>3, <2>5, <2>6, <2>7, <2>8 DEF Linked
  <2>11. \A d \in Char : y.rigging[d] # None => Owner[y.rigging[d]] = d
    BY <2>3, <2>4, <2>7 DEF Linked
  <2> QED BY <2>9, <2>10, <2>11 DEF Linked
<1>7. Listed(y) /\ Chased(y) /\ Seated(y) /\ Placed(y)
  BY <1>5, ListedSame, ChasedSame, SeatedSame, PlacedSame, Zenon DEF Sound
<1>8. Sound(y) BY <1>4, <1>6, <1>7 DEF Sound
<1> QED BY <1>1, <1>8, CrashSound DEF Settles, Next1Sound

LEMMA ReturnSound ==
  ASSUME Sound(g), NEW c \in Char, Return(c)
  PROVE  Next1Sound
<1> DEFINE v == g.rigging[c]
           a == [g EXCEPT !.rigger[v] = None, !.cspeed[v] = OFF]
           f == [g EXCEPT !.cspeed[v] = OFF]
           x == StopChase(a, v)
           y == [x EXCEPT !.rigging[c] = None, !.remote = @ \ {c}]
           b == StopChase(f, v)
<1>1. c \in g.remote /\ Live(g, v) /\ UNCHANGED stack /\ g' = y
  BY Zenon DEF Return, Outcome
<1>2. g \in VehiclesType BY DEF Sound
<1>3. v \in Veh /\ g.rigger[v] = c
  <2>1. v \in Veh BY <1>1, <1>2, LiveFacts DEF VehiclesType
  <2> QED BY <2>1 DEF Sound, Linked
<1> HIDE DEF v
\* The chase ends on a record whose link is half undone: as if it ended before.
<1>4. Settles(g, b)
  <2>1. Settles(g, f) BY <1>3, SpeedTypes, SpeedSound
  <2> HIDE DEF f
  <2>2. Sound(f) /\ Live(f, v) BY <1>1, <2>1 DEF Settles, Live
  <2>3. Settles(f, b) BY <1>3, <2>2, StopChaseSound
  <2> HIDE DEF b
  <2> QED BY <2>1, <2>3, SettlesTrans
<1>5. b.remote = g.remote /\ b.rigging = g.rigging /\ b.rigger = g.rigger
  <2>1. /\ f \in VehiclesType /\ f.remote = g.remote /\ f.rigging = g.rigging
        /\ f.rigger = g.rigger
    BY <1>2, <1>3, SpeedTypes DEF VehiclesType
  <2> HIDE DEF f
  <2> QED BY <1>3, <2>1, StopChaseKeeps
<1>6. /\ x.sub = b.sub /\ x.subscribe = b.subscribe
      /\ x.at = b.at /\ x.following = b.following /\ x.followers = b.followers
      /\ x.list = b.list /\ x.room = b.room /\ x.people = b.people /\ x.seating = b.seating
      /\ x.rigging = g.rigging /\ x.remote = g.remote
      /\ x.rigger = [g.rigger EXCEPT ![v] = None] /\ x \in VehiclesType
  <2>1. /\ a \in VehiclesType /\ f \in VehiclesType /\ a.following = f.following
        /\ a.at = f.at /\ a.followers = f.followers /\ a.up = f.up
        /\ a.sub = f.sub /\ a.subscribe = f.subscribe /\ a.list = f.list /\ a.room = f.room
        /\ a.people = f.people /\ a.seating = f.seating
        /\ a.rigging = g.rigging /\ a.remote = g.remote
        /\ a.rigger = [g.rigger EXCEPT ![v] = None]
    BY <1>2, <1>3, SpeedTypes DEF VehiclesType
  <2>2. b \in VehiclesType BY <1>4 DEF Settles, Sound
  <2> HIDE DEF a, f
  <2>3. CASE f.following[v] = None BY <2>1, <2>3 DEF StopChase
  <2>4. CASE f.following[v] # None /\ ~Live(f, f.following[v])
    <3>1. x = Crash(a) /\ b = Crash(f) BY <2>1, <2>4 DEF StopChase, Live
    <3> HIDE DEF x, b
    <3>2. /\ x = [a EXCEPT !.up = FALSE] /\ b = [f EXCEPT !.up = FALSE] BY <3>1 DEF Crash
    <3> QED BY <2>1, <3>2 DEF VehiclesType
  <2>5. CASE f.following[v] # None /\ Live(f, f.following[v])
    <3>1. x = Unchased(a, v) /\ b = Unchased(f, v) BY <2>1, <2>5 DEF StopChase, Live
    <3> DEFINE fs == [f.followers EXCEPT ![f.following[v]] = Without(@, {v})]
               fg == [f.following EXCEPT ![v] = None]
    <3> HIDE DEF x, b
    <3>2. b = [f EXCEPT !.followers = fs, !.following = fg]
      BY <2>1, <3>1 DEF Unchased, VehiclesType
    <3>3. x = [a EXCEPT !.followers = fs, !.following = fg]
      BY <2>1, <3>1 DEF Unchased, VehiclesType
    <3> HIDE DEF fs, fg
    <3>4. b.followers = fs /\ b.following = fg BY <2>1, <3>2 DEF VehiclesType
    <3>5. fs \in [Veh -> Seq(Veh)] /\ fg \in [Veh -> Veh \cup {None}]
      BY <2>2, <3>4 DEF VehiclesType
    <3> QED BY <2>1, <3>2, <3>3, <3>5 DEF VehiclesType
  <2> QED BY <2>3, <2>4, <2>5
<1> HIDE DEF a, f, x, b
<1>7. /\ y \in VehiclesType
      /\ y.sub = b.sub /\ y.subscribe = b.subscribe
      /\ y.at = b.at /\ y.following = b.following /\ y.followers = b.followers
      /\ y.list = b.list /\ y.room = b.room /\ y.people = b.people /\ y.seating = b.seating
      /\ y.rigging = [g.rigging EXCEPT ![c] = None] /\ y.remote = g.remote \ {c}
      /\ y.rigger = [g.rigger EXCEPT ![v] = None]
  BY <1>6 DEF VehiclesType
<1> HIDE DEF y
<1>8. Linked(y)
  <2>1. /\ g.rigger \in [Veh -> Char \cup {None, Ghost}]
        /\ g.rigging \in [Char -> Veh \cup {None}]
    BY <1>2 DEF VehiclesType
  <2>2. None \notin Char \cup Veh BY VehiclesAssumption
  <2>3. Linked(g) BY DEF Sound
  <2>4. g.rigging[c] = v BY DEF v
  <2>5. \A d \in Char : y.rigging[d] = IF d = c THEN None ELSE g.rigging[d] BY <1>7, <2>1
  <2>6. \A u \in Veh : y.rigger[u] = IF u = v THEN None ELSE g.rigger[u] BY <1>7, <2>1
  <2>7. \A d \in Char : d \in y.remote <=> y.rigging[d] # None BY <1>7, <2>3, <2>5 DEF Linked
  <2>8. ASSUME NEW d \in Char, NEW u \in Veh PROVE y.rigger[u] = d <=> y.rigging[d] = u
    BY <1>3, <2>2, <2>3, <2>4, <2>5, <2>6 DEF Linked
  <2>9. \A d \in Char : y.rigging[d] # None => Owner[y.rigging[d]] = d
    BY <2>3, <2>5 DEF Linked
  <2> QED BY <2>7, <2>8, <2>9 DEF Linked
<1>9. Sound(b) BY <1>4 DEF Settles
<1>10. Listed(y) /\ Chased(y) /\ Seated(y) /\ Placed(y)
  BY <1>7, <1>9, ListedSame, ChasedSame, SeatedSame, PlacedSame, Zenon DEF Sound
<1> QED BY <1>1, <1>7, <1>8, <1>10 DEF Sound, Next1Sound

LEMMA SubscribeSound ==
  ASSUME Sound(g), NEW c \in Char, NEW v \in Veh, Subscribe(c, v)
  PROVE  Next1Sound
<1> DEFINE p == <<v>> \o g.subscribe[c]
           subscribe == [g.subscribe EXCEPT ![c] = p]
<1>1. /\ Owner[v] = c /\ v \notin g.sub /\ UNCHANGED stack
      /\ g' = [g EXCEPT !.sub = @ \cup {v}, !.subscribe[c] = <<v>> \o @]
  BY DEF Subscribe, Owns, Outcome
<1>2. g \in VehiclesType /\ Listed(g) BY DEF Sound
<1>3. g.subscribe \in [Char -> Seq(Veh)] /\ g.subscribe[c] \in Seq(Veh) BY <1>2 DEF VehiclesType
<1>4. IsInjective(g.subscribe[c]) /\ v \notin ToSet(g.subscribe[c]) BY <1>1, <1>2 DEF Listed
<1>5. p \in Seq(Veh) /\ ToSet(p) = ToSet(g.subscribe[c]) \cup {v} /\ IsInjective(p)
  BY <1>3, <1>4, Prepended
<1>6. g' = [g EXCEPT !.sub = @ \cup {v}, !.subscribe = subscribe] BY <1>1, <1>2 DEF VehiclesType
<1> HIDE DEF p
<1>7. /\ subscribe \in [Char -> Seq(Veh)]
      /\ \A d \in Char : subscribe[d] = IF d = c THEN p ELSE g.subscribe[d]
  BY <1>3, <1>5
<1> HIDE DEF subscribe
<1>8. g' \in VehiclesType BY <1>2, <1>6, <1>7 DEF VehiclesType
<1>9. /\ g'.remote = g.remote /\ g'.rigging = g.rigging /\ g'.rigger = g.rigger
      /\ g'.at = g.at /\ g'.following = g.following /\ g'.followers = g.followers
      /\ g'.list = g.list /\ g'.room = g.room /\ g'.people = g.people /\ g'.seating = g.seating
      /\ g'.sub = g.sub \cup {v} /\ g'.subscribe = subscribe
  BY <1>2, <1>6 DEF VehiclesType
<1>10. Listed(g')
  <2>1. ASSUME NEW d \in Char
        PROVE  /\ IsInjective(subscribe[d])
               /\ \A u \in ToSet(subscribe[d]) : u \in g.sub \cup {v} /\ Owner[u] = d
    <3>1. CASE d = c BY <1>1, <1>2, <1>5, <1>7, <3>1 DEF Listed
    <3>2. CASE d # c BY <1>2, <1>7, <3>2 DEF Listed
    <3> QED BY <3>1, <3>2
  <2> QED BY <1>9, <2>1 DEF Listed
<1>11. Linked(g') /\ Chased(g') /\ Seated(g') /\ Placed(g')
  BY <1>9, LinkedSame, ChasedSame, SeatedSame, PlacedSame, Zenon DEF Sound
<1> QED BY <1>1, <1>8, <1>10, <1>11 DEF Sound, Next1Sound

LEMMA UnsubscribeSound ==
  ASSUME Sound(g), NEW c \in Char, NEW v \in Veh, Unsubscribe(c, v)
  PROVE  Next1Sound
<1> DEFINE p == Without(g.subscribe[c], {v})
           subscribe == [g.subscribe EXCEPT ![c] = p]
           y == [g EXCEPT !.sub = @ \ {v}, !.subscribe[c] = Without(@, {v})]
<1>1. Contains(g.subscribe[c], v) /\ UNCHANGED stack /\ (g' = Crash(g) \/ g' = y)
  BY Zenon DEF Unsubscribe, Outcome
<1>2. g \in VehiclesType /\ Listed(g) BY DEF Sound
<1>3. g.subscribe \in [Char -> Seq(Veh)] /\ g.subscribe[c] \in Seq(Veh) BY <1>2 DEF VehiclesType
<1>4. IsInjective(g.subscribe[c]) BY <1>2 DEF Listed
<1>5. p \in Seq(Veh) /\ ToSet(p) = ToSet(g.subscribe[c]) \ {v} /\ IsInjective(p)
  BY <1>3, <1>4, WithoutFacts
<1>6. y = [g EXCEPT !.sub = @ \ {v}, !.subscribe = subscribe] BY <1>2 DEF VehiclesType
<1> HIDE DEF p, y
<1>7. /\ subscribe \in [Char -> Seq(Veh)]
      /\ \A d \in Char : subscribe[d] = IF d = c THEN p ELSE g.subscribe[d]
  BY <1>3, <1>5
<1> HIDE DEF subscribe
<1>8. y \in VehiclesType BY <1>2, <1>6, <1>7 DEF VehiclesType
<1>9. /\ y.remote = g.remote /\ y.rigging = g.rigging /\ y.rigger = g.rigger
      /\ y.at = g.at /\ y.following = g.following /\ y.followers = g.followers
      /\ y.list = g.list /\ y.room = g.room /\ y.people = g.people /\ y.seating = g.seating
      /\ y.sub = g.sub \ {v} /\ y.subscribe = subscribe
  BY <1>2, <1>6 DEF VehiclesType
<1>10. Owner[v] = c
  <2>1. v \in ToSet(g.subscribe[c]) BY <1>1, <1>3, ContainsFacts
  <2> QED BY <1>2, <2>1 DEF Listed
<1>11. Listed(y)
  <2>1. ASSUME NEW d \in Char
        PROVE  /\ IsInjective(subscribe[d])
               /\ \A u \in ToSet(subscribe[d]) : u \in y.sub /\ Owner[u] = d
    <3>1. CASE d = c BY <1>2, <1>5, <1>7, <1>9, <3>1 DEF Listed
    <3>2. CASE d # c BY <1>2, <1>7, <1>9, <1>10, <3>2 DEF Listed
    <3> QED BY <3>1, <3>2
  <2> QED BY <1>9, <2>1 DEF Listed
<1>12. Linked(y) /\ Chased(y) /\ Seated(y) /\ Placed(y)
  BY <1>9, LinkedSame, ChasedSame, SeatedSame, PlacedSame, Zenon DEF Sound
<1>13. Sound(y) BY <1>8, <1>11, <1>12 DEF Sound
<1> QED BY <1>1, <1>13, CrashSound DEF Settles, Next1Sound

LEMMA PointUpdateSound ==
  ASSUME Sound(g), PointUpdate
  PROVE  Next1Sound
<1> DEFINE others(c) == {v \in Veh : ~(Kept(v) /\ v \in g.sub /\ Owner[v] = c)}
           mine(c) == Without(VehList, others(c))
           subscribe == [c \in Char |-> IF Playing(g, c) THEN Reverse(mine(c)) ELSE g.subscribe[c]]
           lost == {v \in Veh : Passed(v) /\ ~Kept(v)}
<1>1. g \in VehiclesType /\ Listed(g) BY DEF Sound
<1>2. g' = [g EXCEPT !.owned = @ \ lost, !.subscribe = subscribe] /\ UNCHANGED stack
  BY Zenon DEF PointUpdate, Outcome
<1>3. ASSUME NEW c \in Char
      PROVE  /\ subscribe[c] \in Seq(Veh) /\ IsInjective(subscribe[c])
             /\ \A v \in ToSet(subscribe[c]) : v \in g.sub /\ Owner[v] = c
  <2>1. CASE ~Playing(g, c)
    <3>1. subscribe[c] = g.subscribe[c] BY <2>1
    <3> QED BY <1>1, <3>1 DEF Listed, VehiclesType
  <2>2. CASE Playing(g, c)
    <3>1. VehList \in Seq(Veh) /\ IsInjective(VehList) /\ ToSet(VehList) = Veh
      BY VehiclesAssumption
    <3>2. others(c) = Veh \ {v \in Veh : Kept(v) /\ v \in g.sub /\ Owner[v] = c} OBVIOUS
    <3> HIDE DEF others
    <3>3. mine(c) \in Seq(Veh) /\ IsInjective(mine(c)) /\ ToSet(mine(c)) = Veh \ others(c)
      BY <3>1, WithoutFacts
    <3>4. subscribe[c] = Reverse(mine(c)) BY <2>2
    <3> HIDE DEF mine
    <3>5. /\ Reverse(mine(c)) \in Seq(Veh) /\ IsInjective(Reverse(mine(c)))
          /\ ToSet(Reverse(mine(c))) \subseteq ToSet(mine(c))
      BY <3>3, Reversed
    <3> HIDE DEF subscribe
    <3> QED BY <3>2, <3>3, <3>4, <3>5
  <2> QED BY <2>1, <2>2
<1>4. subscribe \in [Char -> Seq(Veh)]
  <2>1. \A c \in Char : subscribe[c] \in Seq(Veh) BY <1>3
  <2>2. subscribe = [c \in Char |-> subscribe[c]] OBVIOUS
  <2> HIDE DEF subscribe
  <2> QED BY <2>1, <2>2
<1> HIDE DEF subscribe, lost
<1>5. g' \in VehiclesType BY <1>1, <1>2, <1>4 DEF VehiclesType
<1>6. /\ g'.remote = g.remote /\ g'.rigging = g.rigging /\ g'.rigger = g.rigger
      /\ g'.at = g.at /\ g'.following = g.following /\ g'.followers = g.followers
      /\ g'.list = g.list /\ g'.room = g.room /\ g'.people = g.people /\ g'.seating = g.seating
      /\ g'.sub = g.sub /\ g'.subscribe = subscribe
  BY <1>1, <1>2 DEF VehiclesType
<1>7. Listed(g') BY <1>3, <1>6 DEF Listed
<1>8. Linked(g') /\ Chased(g') /\ Seated(g') /\ Placed(g')
  BY <1>6, LinkedSame, ChasedSame, SeatedSame, PlacedSame, Zenon DEF Sound
<1> QED BY <1>2, <1>5, <1>7, <1>8 DEF Sound, Next1Sound

\* The chaser is on the list of nobody else that is there.
LEMMA ChaseSound ==
  ASSUME Sound(g), NEW c \in Char, NEW v \in Veh, Chase(c, v)
  PROVE  Next1Sound
<1>1. g \in VehiclesType /\ Chased(g) BY DEF Sound
<1>2. Live(g, v) /\ UNCHANGED stack BY DEF Chase, Controls, Outcome
<1>3. CASE g.following[v] # None
  <2>1. g' = StopChase(g, v) BY <1>3 DEF Chase, Outcome
  <2> QED BY <1>2, <2>1, StopChaseSound DEF Settles, Next1Sound
<1>4. CASE g.following[v] = None
  <2>1. PICK w \in Veh \ {v} :
          /\ Live(g, w)
          /\ g' = [g EXCEPT !.following[v] = w, !.followers[w] = <<v>> \o @,
                            !.dest[v] = Nowhere,
                            !.cspeed[v] = IF @ = IDLE THEN CRUISING ELSE @]
    BY <1>4 DEF Chase, Outcome
  <2> DEFINE p == <<v>> \o g.followers[w]
             followers == [g.followers EXCEPT ![w] = p]
             following == [g.following EXCEPT ![v] = w]
             dest == [g.dest EXCEPT ![v] = Nowhere]
             cspeed == [g.cspeed EXCEPT ![v] = IF @ = IDLE THEN CRUISING ELSE @]
  <2>2. /\ g.followers \in [Veh -> Seq(Veh)] /\ g.following \in [Veh -> Veh \cup {None}]
        /\ g.followers[w] \in Seq(Veh) /\ w \in Veh /\ None \notin Veh
    BY <1>1, VehiclesAssumption DEF VehiclesType
  <2>3. IsInjective(g.followers[w]) /\ v \notin ToSet(g.followers[w])
    BY <1>1, <1>2, <1>4, <2>1, <2>2 DEF Chased
  <2>4. p \in Seq(Veh) /\ ToSet(p) = ToSet(g.followers[w]) \cup {v} /\ IsInjective(p)
    BY <2>2, <2>3, Prepended
  <2>5. g' = [g EXCEPT !.followers = followers, !.following = following,
                       !.dest = dest, !.cspeed = cspeed]
    BY <1>1, <2>1 DEF VehiclesType
  <2> HIDE DEF p
  <2>6. /\ followers \in [Veh -> Seq(Veh)] /\ following \in [Veh -> Veh \cup {None}]
        /\ \A u \in Veh : followers[u] = IF u = w THEN p ELSE g.followers[u]
        /\ \A u \in Veh : following[u] = IF u = v THEN w ELSE g.following[u]
    BY <2>2, <2>4
  <2>7. dest \in [Veh -> Room \cup {None, Nowhere}] BY <1>1 DEF VehiclesType
  <2>8. cspeed \in [Veh -> Speeds] BY <1>1, SpeedTypes DEF VehiclesType
  <2> HIDE DEF followers, following, dest, cspeed
  <2>9. g' \in VehiclesType BY <1>1, <2>5, <2>6, <2>7, <2>8 DEF VehiclesType
  <2>10. /\ g'.remote = g.remote /\ g'.rigging = g.rigging /\ g'.rigger = g.rigger
         /\ g'.sub = g.sub /\ g'.subscribe = g.subscribe /\ g'.at = g.at
         /\ g'.list = g.list /\ g'.room = g.room /\ g'.people = g.people /\ g'.seating = g.seating
         /\ g'.followers = followers /\ g'.following = following
    BY <1>1, <2>5 DEF VehiclesType
  <2>11. Linked(g') /\ Listed(g') /\ Seated(g') /\ Placed(g')
    BY <2>10, LinkedSame, ListedSame, SeatedSame, PlacedSame, Zenon DEF Sound
  <2>12. Chased(g')
    <3>1. \A u \in Veh : Live(g', u) <=> Live(g, u) BY <2>10 DEF Live
    <3>2. ASSUME NEW u \in Veh, Live(g, u)
          PROVE  /\ IsInjective(followers[u])
                 /\ \A z \in Veh : Live(g, z) => (z \in ToSet(followers[u]) <=> following[z] = u)
      <4>1. /\ IsInjective(g.followers[u])
            /\ \A z \in Veh : Live(g, z) => (z \in ToSet(g.followers[u]) <=> g.following[z] = u)
        BY <1>1, <3>2 DEF Chased
      <4>2. CASE u = w BY <1>4, <2>2, <2>4, <2>6, <4>1, <4>2
      <4>3. CASE u # w BY <1>4, <2>2, <2>6, <4>1, <4>3
      <4> QED BY <4>2, <4>3
    <3> QED BY <2>10, <3>1, <3>2 DEF Chased
  <2> QED BY <1>2, <2>9, <2>11, <2>12 DEF Sound, Next1Sound
<1> QED BY <1>3, <1>4

LEMMA TunedSound ==
  ASSUME Sound(g), NEW c \in Char, NEW v \in Veh,
         \/ \E n \in Speeds : SetSpeed(c, v, n)
         \/ GridStop(c, v) \/ Repair(c, v)
         \/ \E r \in g.k.rooms : GridGuide(c, v, r)
  PROVE  Next1Sound
<1>1. g \in VehiclesType BY DEF Sound
<1>2. CASE \E n \in Speeds : SetSpeed(c, v, n)
  <2>1. PICK n \in Speeds : SetSpeed(c, v, n) BY <1>2
  <2>2. g' = [g EXCEPT !.cspeed[v] = n] /\ UNCHANGED stack BY <2>1 DEF SetSpeed, Outcome
  <2> QED BY <2>2, SpeedSound DEF Settles, Next1Sound
<1>3. CASE GridStop(c, v)
  <2> DEFINE n == IF c \in g.pilot THEN g.cspeed[v] ELSE OFF
  <2>1. /\ g' = [g EXCEPT !.dest[v] = None, !.cspeed[v] = IF c \in g.pilot THEN @ ELSE OFF]
        /\ UNCHANGED stack
    BY <1>3 DEF GridStop, Outcome
  <2>2. n \in Speeds BY <1>1, SpeedTypes DEF VehiclesType
  <2>3. g' = [g EXCEPT !.dest[v] = None, !.cspeed[v] = n] BY <1>1, <2>1 DEF VehiclesType
  <2> HIDE DEF n
  <2>4. g' \in VehiclesType /\ SameState(g, g') BY <1>1, <2>2, <2>3 DEF VehiclesType, SameState
  <2> QED BY <2>1, <2>4, SoundSame DEF Next1Sound
<1>4. CASE Repair(c, v)
  <2>1. g' = [g EXCEPT !.wreck = @ \ {v}] /\ UNCHANGED stack BY <1>4 DEF Repair, Outcome
  <2>2. g' \in VehiclesType /\ SameState(g, g') BY <1>1, <2>1 DEF VehiclesType, SameState
  <2> QED BY <2>1, <2>2, SoundSame DEF Next1Sound
<1>5. CASE \E r \in g.k.rooms : GridGuide(c, v, r)
  <2>1. PICK r \in g.k.rooms : GridGuide(c, v, r) BY <1>5
  <2> DEFINE rig == IF c \in g.pilot THEN g.rig \ {c} ELSE g.rig
  <2>2. /\ g' = [g EXCEPT !.dest[v] = r, !.cspeed[v] = CRUISING, !.pilot = @ \ {c}, !.rig = rig]
        /\ UNCHANGED stack
    BY <1>1, <2>1 DEF GridGuide, Outcome, VehiclesType
  <2>3. r \in Room /\ rig \subseteq Char BY <1>1, <2>1, RoomsOfScene DEF VehiclesType
  <2> HIDE DEF rig
  <2>4. g' \in VehiclesType /\ SameState(g, g')
    BY <1>1, <2>2, <2>3, SpeedTypes DEF VehiclesType, SameState
  <2> QED BY <2>2, <2>4, SoundSame DEF Next1Sound
<1> QED BY <1>2, <1>3, <1>4, <1>5

LEMMA CrashingSound ==
  ASSUME Sound(g), NEW c \in Char, ControlsNothing(c) \/ UsesFreedVehicle(c)
  PROVE  Next1Sound
<1>1. Crashes BY DEF ControlsNothing, UsesFreedVehicle
<1> QED BY <1>1, CrashSound DEF Crashes, Settles, Next1Sound

LEMMA AfootSound ==
  ASSUME Sound(g), NEW c \in Char, Walk(c) \/ \E r \in g.k.rooms : Transfer(c, r)
  PROVE  Next1Sound
<1>1. g \in VehiclesType BY DEF Sound
<1> DEFINE x == [g EXCEPT !.pilot = @ \ {c}]
<1>2. PICK r \in g.k.rooms :
        /\ Playing(g, c) /\ UNCHANGED stack
        /\ g' = CharsToRoom(g, {c}, r) \/ g' = CharsToRoom(x, {c}, r)
  BY Zenon DEF Walk, Transfer, Given, Outcome
<1>3. Settles(g, x) /\ x.list = g.list
  <2>1. x = [g EXCEPT !.pilot = g.pilot \ {c}, !.rig = g.rig] BY <1>1 DEF VehiclesType
  <2>2. g.pilot \ {c} \in SUBSET Char /\ g.rig \in SUBSET Char BY <1>1 DEF VehiclesType
  <2>3. x.list = g.list BY <1>1 DEF VehiclesType
  <2> HIDE DEF x
  <2> QED BY <2>1, <2>2, <2>3, FlagsSound
<1> HIDE DEF x
<1>4. {c} \in SUBSET ToSet(g.list) /\ {c} \in SUBSET ToSet(x.list) /\ r \in Room
  BY <1>1, <1>2, <1>3, PlayingFacts, RoomsOfScene
<1>5. Settles(g, CharsToRoom(g, {c}, r)) BY <1>4, ToRoomSound
<1>6. Settles(x, CharsToRoom(x, {c}, r)) BY <1>3, <1>4, ToRoomSound DEF Settles
<1> QED BY <1>2, <1>5, <1>6 DEF Settles, Next1Sound

LEMMA DieSound ==
  ASSUME Sound(g), NEW c \in Char, Die(c)
  PROVE  Next1Sound
<1>1. g' = ExtractChars(g, {c}) /\ UNCHANGED stack BY DEF Die, Outcome
<1>2. {c} \in SUBSET Char OBVIOUS
<1> QED BY <1>1, <1>2, ExtractSound DEF Settles, Next1Sound

LEMMA LoginSound ==
  ASSUME Sound(g), NEW c \in Char, Login(c)
  PROVE  Next1Sound
<1> DEFINE p == <<c>> \o g.list
<1>1. g \in VehiclesType /\ Placed(g) BY DEF Sound
<1>2. PICK r \in g.k.rooms :
        ~Playing(g, c) /\ UNCHANGED stack /\ g' = [g EXCEPT !.list = p, !.room[c] = r]
  BY <1>1 DEF Login, Outcome, VehiclesType
<1>3. /\ g.list \in Seq(Char) /\ g.room \in [Char -> Room \cup {None}]
      /\ r \in Room /\ None \notin Room /\ c \notin ToSet(g.list) /\ IsInjective(g.list)
  BY <1>1, <1>2, PlayingFacts, RoomsOfScene, VehiclesAssumption DEF VehiclesType, Placed
<1>4. p \in Seq(Char) /\ ToSet(p) = ToSet(g.list) \cup {c} /\ IsInjective(p)
  BY <1>3, Prepended
<1> HIDE DEF p
<1>5. g' \in VehiclesType BY <1>1, <1>2, <1>3, <1>4 DEF VehiclesType
<1>6. /\ g'.remote = g.remote /\ g'.rigging = g.rigging /\ g'.rigger = g.rigger
      /\ g'.sub = g.sub /\ g'.subscribe = g.subscribe
      /\ g'.at = g.at /\ g'.following = g.following /\ g'.followers = g.followers
      /\ g'.list = p /\ g'.people = g.people /\ g'.seating = g.seating
      /\ g'.room = [g.room EXCEPT ![c] = r]
  BY <1>1, <1>2 DEF VehiclesType
<1>7. Linked(g') /\ Listed(g') /\ Chased(g') /\ Seated(g')
  BY <1>6, LinkedSame, ListedSame, ChasedSame, SeatedSame, Zenon DEF Sound
<1>8. Placed(g')
  <2>1. \A d \in Char : g'.room[d] = IF d = c THEN r ELSE g.room[d] BY <1>3, <1>6
  <2>2. \A v \in Veh : In(g', v) = In(g, v) BY <1>6 DEF In
  <2>3. ToSet(g'.list) = ToSet(g.list) \cup {c} /\ ToSet(g.list) \subseteq Char
    <3>1. ToSet(g.list) \subseteq Char BY <1>3 DEF ToSet
    <3> QED BY <1>4, <1>6, <3>1
  <2>4. \A v \in Veh : c \notin In(g, v) BY <1>1, <1>3 DEF Placed
  <2>5. \A d \in Char : g'.room[d] # None => d \in ToSet(g'.list) BY <1>1, <2>1, <2>3 DEF Placed
  <2>6. ASSUME NEW d \in Char, NEW v \in Veh, d \in In(g', v)
        PROVE  /\ d \in ToSet(g'.list) /\ g'.room[d] = None
               /\ \A w \in Veh : d \in In(g', w) => w = v
    <3>1. d # c BY <2>2, <2>4, <2>6
    <3> QED BY <1>1, <2>1, <2>2, <2>3, <2>6, <3>1 DEF Placed
  <2>7. ASSUME NEW d \in ToSet(g'.list)
        PROVE  g'.room[d] # None \/ \E v \in Veh : d \in In(g', v)
    <3>1. CASE d = c BY <1>3, <2>1, <3>1
    <3>2. CASE d # c BY <1>1, <2>1, <2>2, <2>3, <3>2 DEF Placed
    <3> QED BY <3>1, <3>2
  <2> QED BY <1>4, <1>6, <2>5, <2>6, <2>7 DEF Placed
<1> QED BY <1>2, <1>5, <1>7, <1>8 DEF Sound, Next1Sound

\* A vehicle in another room is still there.
LEMMA MovedSound ==
  ASSUME NEW x, Sound(x), NEW v \in Veh, Live(x, v), NEW r \in Room
  PROVE  Sound([x EXCEPT !.at[v] = r])
<1> DEFINE y == [x EXCEPT !.at[v] = r]
<1>1. x \in VehiclesType BY DEF Sound
<1>2. /\ y \in VehiclesType
      /\ y.remote = x.remote /\ y.rigging = x.rigging /\ y.rigger = x.rigger
      /\ y.sub = x.sub /\ y.subscribe = x.subscribe
      /\ y.following = x.following /\ y.followers = x.followers
      /\ y.list = x.list /\ y.room = x.room /\ y.people = x.people /\ y.seating = x.seating
      /\ y.at = [x.at EXCEPT ![v] = r]
  BY <1>1 DEF VehiclesType
<1> HIDE DEF y
<1>3. Linked(y) /\ Listed(y) /\ Seated(y) /\ Placed(y)
  BY <1>2, LinkedSame, ListedSame, SeatedSame, PlacedSame, Zenon DEF Sound
<1>4. \A u \in Veh : Live(y, u) <=> Live(x, u)
  BY <1>1, <1>2, VehiclesAssumption DEF Live, VehiclesType
<1>5. Chased(y) BY <1>2, <1>4 DEF Chased, Sound
<1> QED BY <1>2, <1>3, <1>5 DEF Sound, y

LEMMA VTeleportSound ==
  ASSUME Sound(g), NEW v \in Veh, NEW r \in g.k.rooms, VTeleport(v, r)
  PROVE  Next1Sound
<1>1. r \in Room BY RoomsOfScene DEF Sound
<1>2. Live(g, v) /\ g' = [g EXCEPT !.at[v] = r] /\ UNCHANGED stack BY DEF VTeleport, Outcome
<1> QED BY <1>1, <1>2, MovedSound DEF Next1Sound

\* What is purged is no longer asked about: those that stay keep their lists.
LEMMA PurgeSound ==
  ASSUME Sound(g), NEW r \in Room, Purge(r)
  PROVE  Next1Sound
<1> DEFINE at == [v \in Veh |-> IF g.at[v] = r THEN None ELSE g.at[v]]
<1>1. g \in VehiclesType BY DEF Sound
<1>2. g' = [g EXCEPT !.purges = @ + 1, !.at = at] /\ UNCHANGED stack
  BY <1>1 DEF Purge, Outcome, VehiclesType
<1>3. at \in [Veh -> Room \cup {None}] BY <1>1 DEF VehiclesType
<1>4. \A v \in Veh : at[v] # None => g.at[v] # None OBVIOUS
<1> HIDE DEF at
<1>5. g' \in VehiclesType
  <2>1. g.purges + 1 \in Nat BY <1>1 DEF VehiclesType
  <2> QED BY <1>1, <1>2, <1>3, <2>1 DEF VehiclesType
<1>6. /\ g'.remote = g.remote /\ g'.rigging = g.rigging /\ g'.rigger = g.rigger
      /\ g'.sub = g.sub /\ g'.subscribe = g.subscribe
      /\ g'.following = g.following /\ g'.followers = g.followers
      /\ g'.list = g.list /\ g'.room = g.room /\ g'.people = g.people /\ g'.seating = g.seating
      /\ g'.at = at
  BY <1>1, <1>2 DEF VehiclesType
<1>7. Linked(g') /\ Listed(g') /\ Seated(g') /\ Placed(g')
  BY <1>6, LinkedSame, ListedSame, SeatedSame, PlacedSame, Zenon DEF Sound
<1>8. \A u \in Veh : Live(g', u) => Live(g, u) BY <1>4, <1>6 DEF Live
<1>9. Chased(g') BY <1>6, <1>8 DEF Chased, Sound
<1> QED BY <1>2, <1>5, <1>7, <1>9 DEF Sound, Next1Sound

LEMMA ShotAtSound ==
  ASSUME Sound(g), NEW v \in Veh, ShotAt(v)
  PROVE  Next1Sound
<1>1. Live(g, v) /\ g' \in Hit(g, v) /\ UNCHANGED stack BY DEF ShotAt, Outcome
<1> QED BY <1>1, HitSound DEF Settles, Next1Sound

\* The tests of the driver come first, then the damage, to a vehicle that is still there.
LEMMA RammedSound ==
  ASSUME Sound(g), NEW c \in Char, NEW v \in Veh, Live(g, v),
         NEW x \in CrashTest(g, c, v), NEW y \in ChkDmg(x, v)
  PROVE  Sound(y)
<1>1. v \in Veh \cup {None} OBVIOUS
<1>2. Settles(g, x) BY <1>1, CrashTestSound
<1>3. Sound(x) /\ Live(x, v) BY <1>2 DEF Settles, Live
<1> QED BY <1>3, ChkDmgSound DEF Settles

LEMMA RamSound ==
  ASSUME Sound(g), NEW c \in Char, NEW v \in Veh, NEW w \in Veh, Ram(c, v, w)
  PROVE  Next1Sound
<1>1. Live(g, v) /\ Live(g, w) /\ UNCHANGED stack BY DEF Ram, Controls, Outcome
<1>2. \/ \E x \in RamDamage(g, w) : g' \in RamDamage(x, v)
      \/ \E x \in CrashTest(g, c, v) : g' \in ChkDmg(x, v)
  BY Zenon DEF Ram, Outcome
<1>3. CASE \E x \in RamDamage(g, w) : g' \in RamDamage(x, v)
  <2>1. PICK x \in RamDamage(g, w) : g' \in RamDamage(x, v) BY <1>3
  <2>2. Settles(g, x) BY <1>1, RamDamageSound
  <2>3. Sound(x) /\ Live(x, v) BY <1>1, <2>2 DEF Settles, Live
  <2> QED BY <1>1, <2>1, <2>3, RamDamageSound DEF Settles, Next1Sound
<1>4. CASE \E x \in CrashTest(g, c, v) : g' \in ChkDmg(x, v)
  BY <1>1, <1>4, RammedSound DEF Next1Sound
<1> QED BY <1>2, <1>3, <1>4

LEMMA RamSomebodySound ==
  ASSUME Sound(g), NEW c \in Char, NEW v \in Veh, RamSomebody(c, v)
  PROVE  Next1Sound
<1>1. Live(g, v) /\ UNCHANGED stack BY DEF RamSomebody, Controls, Outcome
<1>2. g' \in Hit(g, v) \/ \E x \in CrashTest(g, c, v) : g' \in ChkDmg(x, v)
  BY Zenon DEF RamSomebody, Outcome
<1>3. CASE g' \in Hit(g, v) BY <1>1, <1>3, HitSound DEF Settles, Next1Sound
<1>4. CASE \E x \in CrashTest(g, c, v) : g' \in ChkDmg(x, v)
  BY <1>1, <1>4, RammedSound DEF Next1Sound
<1> QED BY <1>2, <1>3, <1>4

-----------------------------------------------------------------------------
(* move_vehicle: the calls in progress. *)

\* A call that is to be made: its vehicle is there and the list of its chasers is one.
LEMMA FrameOfCall ==
  ASSUME NEW x \in VehiclesType, NEW v \in Veh, NEW c \in Char \cup {Ghost}
  PROVE  /\ Frame(v, c, First(x, v)) \in FrameType
         /\ Frame(v, c, First(x, v)).moves = 0 /\ ~Frame(v, c, First(x, v)).test
<1>1. x.followers[v] \in Seq(Veh) BY DEF VehiclesType
<1>2. First(x, v) \in Veh \cup {None}
  <2>1. CASE x.followers[v] = <<>> BY <2>1 DEF First
  <2>2. CASE x.followers[v] # <<>> BY <1>1, <2>2 DEF First
  <2> QED BY <2>1, <2>2
<1> HIDE DEF First
<1> QED BY <1>2 DEF Frame, FrameType

\* The stack with a call on top of it.
LEMMA CallPushed ==
  ASSUME NEW s \in Seq(FrameType), NEW f \in FrameType,
         f.moves = 0, ~f.test,
         \A i \in DOMAIN s : s[i].moves > 0 \/ s[i].test => s[i].pilot # None /\ s[i].chaser # None
  PROVE  LET t == <<f>> \o s
         IN  /\ t \in Seq(FrameType)
             /\ \A i \in DOMAIN t : t[i].moves > 0 \/ t[i].test => t[i].pilot # None /\ t[i].chaser # None
<1> DEFINE t == <<f>> \o s
<1>1. t \in Seq(FrameType) /\ DOMAIN t = 1 .. Len(s) + 1 /\ DOMAIN s = 1 .. Len(s)
  OBVIOUS
<1>2. t[1] = f /\ \A i \in 2 .. Len(s) + 1 : t[i] = s[i - 1] /\ i - 1 \in 1 .. Len(s) OBVIOUS
<1>3. ~(f.moves > 0) OBVIOUS
<1>4. \A i \in 1 .. Len(s) + 1 : i = 1 \/ i \in 2 .. Len(s) + 1 OBVIOUS
<1> HIDE DEF t
<1> QED BY <1>1, <1>2, <1>3, <1>4 DEF t

\* What remains to be shown of a step of move_vehicle.
StackSound == Sound(g') /\ stack' \in Seq(FrameType) /\ Called'

LEMMA BeginMoveSound ==
  ASSUME NEW x, Sound(x), stack \in Seq(FrameType), Called,
         NEW v \in Veh, NEW c \in Char \cup {Ghost}, NEW r \in Room, BeginMove(x, c, v, r)
  PROVE  StackSound
<1>1. /\ Live(x, v) /\ g' = [x EXCEPT !.at[v] = r]
      /\ stack' = <<Frame(v, c, First(x, v))>> \o stack
  BY DEF BeginMove, CanMove
<1>2. Sound(g') BY <1>1, MovedSound
<1> DEFINE f == Frame(v, c, First(x, v))
<1>3. f \in FrameType /\ f.moves = 0 /\ ~f.test BY FrameOfCall DEF Sound
<1>4. stack' = <<f>> \o stack BY <1>1
<1> HIDE DEF f
<1>5. stack' \in Seq(FrameType) /\ Called' BY <1>3, <1>4, CallPushed DEF Called
<1> QED BY <1>2, <1>5 DEF StackSound

LEMMA StackKept ==
  ASSUME stack \in Seq(FrameType), Called, Next1Sound
  PROVE  StackSound
BY DEF Next1Sound, StackSound, Called

LEMMA MoveSound ==
  ASSUME Sound(g), stack \in Seq(FrameType), Called, NEW c \in Char, NEW v \in Veh, Move(c, v)
  PROVE  StackSound
<1>1. PICK r \in g.k.rooms : BeginMove(g, c, v, r) BY DEF Move
<1>2. r \in Room BY RoomsOfScene DEF Sound
<1> QED BY <1>1, <1>2, BeginMoveSound

LEMMA DrivebySound ==
  ASSUME Sound(g), stack \in Seq(FrameType), Called, NEW c \in Char, NEW v \in Veh, Driveby(c, v)
  PROVE  StackSound
<1>1. Live(g, v) BY DEF Driveby, Aboard
<1>2. PICK x \in IF v \in g.wreck THEN {g} ELSE Hit(g, v) :
        \/ \E r \in g.k.rooms : BeginMove(x, c, v, r)
        \/ Outcome({x})
  BY Zenon DEF Driveby
<1>3. Sound(x)
  <2>1. x = g \/ x \in Hit(g, v) BY <1>2
  <2> QED BY <1>1, <2>1, HitSound DEF Settles
<1>4. CASE \E r \in g.k.rooms : BeginMove(x, c, v, r)
  <2>1. PICK r \in g.k.rooms : BeginMove(x, c, v, r) BY <1>4
  <2>2. r \in Room BY RoomsOfScene DEF Sound
  <2> QED BY <1>3, <2>1, <2>2, BeginMoveSound
<1>5. CASE Outcome({x})
  <2>1. Next1Sound BY <1>3, <1>5 DEF Outcome, Next1Sound
  <2> QED BY <2>1, StackKept
<1> QED BY <1>2, <1>4, <1>5

LEMMA AutonavSound ==
  ASSUME Sound(g), stack \in Seq(FrameType), Called, NEW v \in Veh, Autonav(v)
  PROVE  StackSound
<1>1. g \in VehiclesType BY DEF Sound
<1>2. \/ /\ Navigator(v) # None /\ g.dest[v] \in Room
         /\ BeginMove(g, Navigator(v), v, g.dest[v])
      \/ /\ UNCHANGED stack
         /\ \E n \in {g.cspeed[v], OFF} : g' = [g EXCEPT !.dest[v] = None, !.cspeed[v] = n]
  BY <1>1 DEF Autonav, Outcome, VehiclesType
<1>3. CASE /\ Navigator(v) # None /\ g.dest[v] \in Room
           /\ BeginMove(g, Navigator(v), v, g.dest[v])
  <2>1. g.rigger[v] \in Char \cup {None, Ghost} /\ g.people[v] \in Seq(Char)
    BY <1>1 DEF VehiclesType
  <2>2. Navigator(v) \in Char \cup {Ghost}
    <3>1. CASE g.rigger[v] # None BY <2>1, <3>1 DEF Navigator
    <3>2. CASE g.rigger[v] = None
      <4>1. g.people[v] # <<>> /\ Navigator(v) = Head(g.people[v]) BY <1>3, <3>2 DEF Navigator
      <4> QED BY <2>1, <4>1
    <3> QED BY <3>1, <3>2
  <2> QED BY <1>3, <2>2, BeginMoveSound
<1>4. CASE /\ UNCHANGED stack
           /\ \E n \in {g.cspeed[v], OFF} : g' = [g EXCEPT !.dest[v] = None, !.cspeed[v] = n]
  <2>1. PICK n \in {g.cspeed[v], OFF} : g' = [g EXCEPT !.dest[v] = None, !.cspeed[v] = n]
    BY <1>4
  <2>2. n \in Speeds BY <1>1, SpeedTypes DEF VehiclesType
  <2>3. g' \in VehiclesType /\ SameState(g, g') BY <1>1, <2>1, <2>2 DEF VehiclesType, SameState
  <2>4. Next1Sound BY <1>4, <2>3, SoundSame DEF Next1Sound
  <2> QED BY <2>4, StackKept
<1> QED BY <1>2, <1>3, <1>4

\* Every call of s that has moves or a test to do can do them.
Ready(s) ==
  \A i \in DOMAIN s : s[i].moves > 0 \/ s[i].test => s[i].pilot # None /\ s[i].chaser # None

\* The call in progress on top of the others, with other things left to do.
LEMMA TopChanged ==
  ASSUME stack \in Seq(FrameType), stack # <<>>, Called, NEW f \in FrameType,
         f.moves > 0 \/ f.test => f.pilot # None /\ f.chaser # None
  PROVE  [stack EXCEPT ![1] = f] \in Seq(FrameType) /\ Ready([stack EXCEPT ![1] = f])
<1> DEFINE s == [stack EXCEPT ![1] = f]
<1>1. DOMAIN stack = 1 .. Len(stack) /\ 1 \in DOMAIN stack OBVIOUS
<1>2. s \in Seq(FrameType) /\ DOMAIN s = DOMAIN stack OBVIOUS
<1>3. s[1] = f /\ \A i \in DOMAIN stack : i # 1 => s[i] = stack[i] BY <1>1
<1> HIDE DEF s
<1>4. Ready(s)
  <2>1. ASSUME NEW i \in DOMAIN stack, s[i].moves > 0 \/ s[i].test
        PROVE  s[i].pilot # None /\ s[i].chaser # None
    <3>1. CASE i = 1 BY <1>3, <2>1, <3>1
    <3>2. CASE i # 1 BY <1>3, <2>1, <3>2 DEF Called
    <3> QED BY <3>1, <3>2
  <2> QED BY <1>2, <2>1 DEF Ready
<1> QED BY <1>2, <1>4 DEF s

LEMMA TopFacts ==
  ASSUME stack \in Seq(FrameType), stack # <<>>, Called
  PROVE  /\ Top = stack[1] /\ Top \in FrameType
         /\ Top.moves > 0 \/ Top.test => Top.pilot \in Char \cup {Ghost} /\ Top.chaser \in Veh
<1>1. 1 \in DOMAIN stack /\ Top = stack[1] /\ Top \in FrameType BY DEF Top
<1> QED BY <1>1 DEF Called, FrameType

\* The chaser the call looks at next, and the one after it.
LEMMA NextFacts ==
  ASSUME NEW x \in VehiclesType, NEW v \in Veh, NEW f, Contains(x.followers[v], f)
  PROVE  f \in Veh /\ Next1(x, v, f) \in Veh \cup {None}
<1>1. x.followers[v] \in Seq(Veh) BY DEF VehiclesType
<1> DEFINE s == x.followers[v]
           i == Place(s, f)
<1>2. DOMAIN s = 1 .. Len(s) /\ Len(s) \in Nat /\ \A j \in 1 .. Len(s) : s[j] \in Veh BY <1>1
<1>3. \E j \in DOMAIN s : s[j] = f BY <1>2 DEF Contains
<1>4. i \in DOMAIN s /\ s[i] = f BY <1>3 DEF Place
<1>5. i # Len(s) => s[i + 1] \in Veh BY <1>2, <1>4
<1>6. Next1(x, v, f) = IF i = Len(s) THEN None ELSE s[i + 1] BY DEF Next1
<1> HIDE DEF i, s
<1> QED BY <1>2, <1>4, <1>5, <1>6

LEMMA NextChaserSound ==
  ASSUME Sound(g), stack \in Seq(FrameType), Called, NextChaser
  PROVE  StackSound
<1> DEFINE f == Top.next
           n1 == Next1(g, Top.veh, f)
<1>1. g \in VehiclesType BY DEF Sound
<1>2. stack # <<>> /\ Top.moves = 0 /\ ~Top.test BY DEF NextChaser, Settled, Walking
<1>3. Top = stack[1] /\ Top \in FrameType BY <1>2, TopFacts
<1>4. CASE Crashes
  <2>1. Next1Sound BY <1>4, CrashSound DEF Crashes, Settles, Next1Sound
  <2> QED BY <2>1, StackKept
<1>5. CASE /\ Contains(g.followers[Top.veh], f) /\ Live(g, f) /\ PilotOf(f) # None
           /\ LosesTrail(f) \/ \E n \in 0 .. 2 : \E t \in BOOLEAN : KeepsTrail(f, n, t)
  <2>1. Top.veh \in Veh BY <1>3 DEF FrameType
  <2>2. f \in Veh /\ n1 \in Veh \cup {None} BY <1>1, <1>5, <2>1, NextFacts
  <2> HIDE DEF n1, f
  <2>3. CASE LosesTrail(f)
    <3> DEFINE t == [Top EXCEPT !.next = n1]
    <3>1. g' = StopChase(g, f) /\ stack' = [stack EXCEPT ![1] = t]
      BY <1>3, <2>3 DEF LosesTrail, n1
    <3>2. t \in FrameType /\ t.moves = 0 /\ ~t.test BY <1>2, <1>3, <2>2 DEF FrameType
    <3>3. ~(t.moves > 0) BY <3>2
    <3> HIDE DEF t
    <3>4. stack' \in Seq(FrameType) /\ Ready(stack') BY <1>2, <3>1, <3>2, <3>3, TopChanged
    <3>5. Sound(g') BY <1>5, <2>2, <3>1, StopChaseSound DEF Settles
    <3> QED BY <3>4, <3>5 DEF StackSound, Called, Ready
  <2>4. CASE \E n \in 0 .. 2 : \E t \in BOOLEAN : KeepsTrail(f, n, t)
    <3>1. PICK n \in 0 .. 2, t \in BOOLEAN : KeepsTrail(f, n, t) BY <2>4
    <3>2. PilotOf(f) \in Char \cup {Ghost}
      <4>1. g.rigger[f] \in Char \cup {None, Ghost} /\ g.people[f] \in Seq(Char)
        BY <1>1, <2>2 DEF VehiclesType
      <4>2. CASE g.rigger[f] # None BY <4>1, <4>2 DEF PilotOf
      <4>3. CASE g.rigger[f] = None
        <5>1. g.people[f] # <<>> /\ PilotOf(f) = Head(g.people[f])
          BY <1>5, <4>3 DEF PilotOf
        <5> QED BY <4>1, <5>1
      <4> QED BY <4>2, <4>3
    <3> DEFINE u == [Top EXCEPT !.next = n1, !.pilot = PilotOf(f), !.chaser = f,
                                !.moves = n, !.test = t]
    <3>3. UNCHANGED g /\ stack' = [stack EXCEPT ![1] = u] BY <1>3, <3>1 DEF KeepsTrail, n1
    <3> HIDE DEF PilotOf
    <3>4. u \in FrameType /\ u.pilot = PilotOf(f) /\ u.chaser = f
      BY <1>3, <2>2, <3>2 DEF FrameType
    <3>5. u.pilot # None /\ u.chaser # None BY <2>2, <3>2, <3>4, VehiclesAssumption
    <3> HIDE DEF u
    <3>6. stack' \in Seq(FrameType) /\ Ready(stack') BY <1>2, <3>3, <3>4, <3>5, TopChanged
    <3>7. Sound(g') BY <3>3 DEF Sound, Linked, Listed, Chased, Seated, Placed, In, Live
    <3> QED BY <3>6, <3>7 DEF StackSound, Called, Ready
  <2> QED BY <1>5, <2>3, <2>4
<1> QED BY <1>4, <1>5 DEF NextChaser

\* One move of the chaser less to do.
LEMMA OneLessFacts ==
  ASSUME stack \in Seq(FrameType), stack # <<>>, Called, Top.moves > 0
  PROVE  OneLess \in Seq(FrameType) /\ Ready(OneLess)
<1> DEFINE f == [Top EXCEPT !.moves = @ - 1]
<1>1. /\ Top = stack[1] /\ Top \in FrameType
      /\ Top.pilot \in Char \cup {Ghost} /\ Top.chaser \in Veh
  BY TopFacts
<1>2. Top.moves - 1 \in 0 .. 2 BY <1>1 DEF FrameType
<1>3. f \in FrameType /\ f.pilot # None /\ f.chaser # None
  BY <1>1, <1>2, VehiclesAssumption DEF FrameType
<1>4. OneLess = [stack EXCEPT ![1] = f] BY <1>1 DEF OneLess
<1> HIDE DEF f
<1> QED BY <1>3, <1>4, TopChanged

LEMMA PilotsVehType ==
  ASSUME g \in VehiclesType, Top.pilot \in Char \cup {Ghost}, Top.chaser \in Veh
  PROVE  PilotsVeh \in Veh \cup {None}
<1>1. CASE Top.pilot = Ghost BY <1>1 DEF PilotsVeh
<1>2. CASE Top.pilot # Ghost BY <1>2, WhereFacts DEF PilotsVeh
<1> QED BY <1>1, <1>2

\* A chaser that moves calls move_vehicle again, on top of the call that moves it.
LEMMA ChaserMovesSound ==
  ASSUME Sound(g), stack \in Seq(FrameType), Called, ChaserMoves
  PROVE  StackSound
<1>1. g \in VehiclesType BY DEF Sound
<1>2. stack # <<>> /\ Top.moves > 0 BY DEF ChaserMoves, Walking
<1>3. Top.pilot \in Char \cup {Ghost} /\ Top.chaser \in Veh BY <1>2, TopFacts
<1>4. OneLess \in Seq(FrameType) /\ Ready(OneLess) BY <1>2, OneLessFacts
<1>5. CASE g' = g /\ stack' = OneLess BY <1>4, <1>5 DEF StackSound, Called, Ready
<1>6. CASE \E r \in g.k.rooms :
             /\ CanMove(g, Top.pilot, PilotsVeh)
             /\ g' = [g EXCEPT !.at[PilotsVeh] = r]
             /\ stack' = <<Frame(PilotsVeh, Top.pilot, First(g, PilotsVeh))>> \o OneLess
  <2>1. PICK r \in g.k.rooms :
             /\ CanMove(g, Top.pilot, PilotsVeh)
             /\ g' = [g EXCEPT !.at[PilotsVeh] = r]
             /\ stack' = <<Frame(PilotsVeh, Top.pilot, First(g, PilotsVeh))>> \o OneLess
    BY <1>6
  <2>2. PilotsVeh \in Veh \cup {None} /\ Live(g, PilotsVeh)
    BY <1>1, <1>3, <2>1, PilotsVehType DEF CanMove
  <2>3. PilotsVeh \in Veh /\ r \in Room BY <1>1, <2>2, LiveFacts, RoomsOfScene
  <2>4. Sound(g') BY <2>1, <2>2, <2>3, MovedSound
  <2> DEFINE f == Frame(PilotsVeh, Top.pilot, First(g, PilotsVeh))
  <2>5. f \in FrameType /\ f.moves = 0 /\ ~f.test BY <1>1, <1>3, <2>3, FrameOfCall
  <2>6. stack' = <<f>> \o OneLess BY <2>1
  <2> HIDE DEF f
  <2>7. stack' \in Seq(FrameType) /\ Called' BY <1>4, <2>5, <2>6, CallPushed DEF Called, Ready
  <2> QED BY <2>4, <2>7 DEF StackSound
<1>7. CASE /\ Top.pilot \in Char /\ Playing(g, Top.pilot)
           /\ \E r \in g.k.rooms : g' = CharsToRoom(g, {Top.pilot}, r)
           /\ stack' = OneLess
  <2>1. PICK r \in g.k.rooms : g' = CharsToRoom(g, {Top.pilot}, r) BY <1>7
  <2>2. r \in Room /\ {Top.pilot} \in SUBSET ToSet(g.list)
    BY <1>1, <1>7, RoomsOfScene, PlayingFacts
  <2>3. Sound(g') BY <2>1, <2>2, ToRoomSound DEF Settles
  <2> QED BY <1>4, <1>7, <2>3 DEF StackSound, Called, Ready
<1> QED BY <1>5, <1>6, <1>7 DEF ChaserMoves

LEMMA ChaserTestedSound ==
  ASSUME Sound(g), stack \in Seq(FrameType), Called, ChaserTested
  PROVE  StackSound
<1>1. g \in VehiclesType BY DEF Sound
<1>2. stack # <<>> /\ Top.moves = 0 /\ Top.test BY DEF ChaserTested, Walking
<1>3. /\ Top = stack[1] /\ Top \in FrameType
      /\ Top.pilot \in Char \cup {Ghost} /\ Top.chaser \in Veh
  BY <1>2, TopFacts
<1>4. PilotsVeh \in Veh \cup {None} BY <1>1, <1>3, PilotsVehType
<1>5. g' = g \/ g' \in CrashTest(g, Top.pilot, PilotsVeh) BY DEF ChaserTested
<1>6. Sound(g') BY <1>4, <1>5, CrashTestSound DEF Settles
<1> DEFINE f == [Top EXCEPT !.test = FALSE]
<1>7. f \in FrameType /\ f.moves = 0 /\ ~f.test BY <1>2, <1>3 DEF FrameType
<1>8. ~(f.moves > 0) BY <1>7
<1>9. stack' = [stack EXCEPT ![1] = f] BY <1>3 DEF ChaserTested
<1> HIDE DEF f
<1>10. stack' \in Seq(FrameType) /\ Ready(stack') BY <1>2, <1>7, <1>8, <1>9, TopChanged
<1> QED BY <1>6, <1>10 DEF StackSound, Called, Ready

LEMMA EndMoveSound ==
  ASSUME Sound(g), stack \in Seq(FrameType), Called, EndMove
  PROVE  StackSound
<1>1. stack # <<>> /\ stack' = Tail(stack) BY DEF EndMove, Settled, Walking
<1>2. Top \in FrameType BY <1>1, TopFacts
<1>3. Top.veh \in Veh \cup {None} BY <1>2 DEF FrameType
<1>4. g' = Crash(g) \/ g' \in CrashTest(g, Top.ch, Top.veh) \/ g' = g BY DEF EndMove
<1>5. Sound(g')
  <2>1. CASE g' = Crash(g) BY <2>1, CrashSound DEF Settles
  <2>2. CASE g' \in CrashTest(g, Top.ch, Top.veh) BY <1>3, <2>2, CrashTestSound DEF Settles
  <2>3. CASE g' = g BY <2>3
  <2> QED BY <1>4, <2>1, <2>2, <2>3
<1>6. stack' \in Seq(FrameType) /\ Ready(stack')
  <2>1. /\ stack' \in Seq(FrameType) /\ DOMAIN stack' = 1 .. Len(stack) - 1
        /\ \A i \in 1 .. Len(stack) - 1 : stack'[i] = stack[i + 1] /\ i + 1 \in DOMAIN stack
    BY <1>1
  <2> QED BY <2>1 DEF Called, Ready
<1> QED BY <1>5, <1>6 DEF StackSound, Called, Ready

-----------------------------------------------------------------------------
(* The invariant holds in every reachable state. *)

\* A finite set as a list holds each of its elements once.
LEMMA SetAsList ==
  ASSUME NEW S, IsFiniteSet(S)
  PROVE  SetToSeq(S) \in Seq(S) /\ IsInjective(SetToSeq(S)) /\ ToSet(SetToSeq(S)) = S
<1> DEFINE n == Cardinality(S)
           s == SetToSeq(S)
<1>1. n \in Nat /\ ExistsBijection(1 .. n, S) BY FS_CardinalityType
<1>2. \E f \in [1 .. n -> S] : IsInjective(f)
  BY <1>1 DEF ExistsBijection, Bijection, Injection
<1>3. s \in [1 .. n -> S] /\ IsInjective(s) BY <1>2, Zenon DEF SetToSeq
<1> HIDE DEF s
<1>4. s \in Seq(S) BY <1>1, <1>3
<1>5. IsFiniteSet(ToSet(s)) /\ Cardinality(ToSet(s)) = Len(s) BY <1>3, <1>4, LengthOfInjective
<1>6. Len(s) = n /\ ToSet(s) \in SUBSET S BY <1>1, <1>3 DEF ToSet
<1>7. ToSet(s) = S BY <1>5, <1>6, FS_Subset
<1> QED BY <1>3, <1>4, <1>7 DEF s

LEMMA InitSound == Init => VInv
<1> SUFFICES ASSUME Init PROVE VInv OBVIOUS
<1>0. PICK k \in Scenes : \E room \in [k.who -> k.start] : \E at \in [k.vehs -> k.start] :
       g = Start(k, room, at)
  BY DEF Init, Start
<1>1. PICK room \in [k.who -> k.start], at \in [k.vehs -> k.start] : g = Start(k, room, at)
  BY <1>0
<1> DEFINE list == SetToSeq(k.who)
           places == [c \in Char |-> IF c \in k.who THEN room[c] ELSE None]
           stands == [v \in Veh |-> IF v \in k.vehs THEN at[v] ELSE None]
<1>2. /\ k.who \subseteq Char /\ IsFiniteSet(k.who) /\ k.vehs \subseteq Veh
      /\ k.start \subseteq Room
  BY ScenesAssumption
<1>3. list \in Seq(k.who) /\ IsInjective(list) /\ ToSet(list) = k.who BY <1>2, SetAsList
<1>4. /\ g.k = k /\ g.up = TRUE /\ g.purges = 0 /\ g.list = list /\ g.room = places /\ g.at = stands
      /\ g.people = [v \in Veh |-> <<>>] /\ g.seating = Capacity
      /\ g.cspeed = [v \in Veh |-> OFF] /\ g.wreck = {} /\ g.dest = [v \in Veh |-> None]
      /\ g.pilot = {} /\ g.rig = {} /\ g.remote = {}
      /\ g.rigging = [c \in Char |-> None] /\ g.rigger = [v \in Veh |-> None]
      /\ g.following = [v \in Veh |-> None] /\ g.followers = [v \in Veh |-> <<>>]
      /\ g.owned = k.vehs /\ g.sub = {} /\ g.subscribe = [c \in Char |-> <<>>]
  BY <1>1 DEF Start
<1> HIDE DEF list
<1>5. list \in Seq(Char) BY <1>2, <1>3
<1>6. places \in [Char -> Room \cup {None}] /\ stands \in [Veh -> Room \cup {None}] BY <1>2
<1>7. /\ \A c \in Char : places[c] = IF c \in k.who THEN room[c] ELSE None
      /\ \A c \in k.who : places[c] # None
  <2>1. \A c \in k.who : c \in Char /\ room[c] \in Room BY <1>2
  <2> QED BY <2>1, VehiclesAssumption
<1> HIDE DEF places, stands
<1>8. Capacity \in [Veh -> Nat] /\ \A v \in Veh : Capacity[v] \in Nat /\ Capacity[v] \in Int
  BY VehiclesAssumption
<1>9. [v \in Veh |-> OFF] \in [Veh -> Speeds] BY SpeedTypes
<1>10. Capacity \in [Veh -> Int] BY <1>8
<1>11. g \in VehiclesType
  BY <1>1, <1>2, <1>5, <1>6, <1>9, <1>10, SMTT(60) DEF VehiclesType, list, places, stands, Start
<1>12. \A v \in Veh : g.people[v] = <<>> /\ g.followers[v] = <<>> BY <1>4
<1>13. IsInjective(<<>>) /\ ToSet(<<>>) = {} /\ Len(<<>>) = 0 BY DEF IsInjective, ToSet
<1>14. Linked(g) BY <1>4, VehiclesAssumption DEF Linked
<1>15. Listed(g) BY <1>4, <1>13 DEF Listed
<1>16. Chased(g) BY <1>4, <1>13, VehiclesAssumption DEF Chased
<1>17. Seated(g) BY <1>4, <1>8, <1>13 DEF Seated
<1>18. Placed(g) BY <1>2, <1>3, <1>4, <1>7, <1>12, <1>13 DEF Placed, In
<1>19. stack \in Seq(FrameType) /\ Called BY DEF Init, Called
<1> QED BY <1>11, <1>14, <1>15, <1>16, <1>17, <1>18, <1>19 DEF VInv, Sound

LEMMA NextSound == VInv /\ [Next]_vars => VInv'
<1> SUFFICES ASSUME VInv, [Next]_vars PROVE VInv' OBVIOUS
<1>1. Sound(g) /\ stack \in Seq(FrameType) /\ Called BY DEF VInv
<1>2. ASSUME Next1Sound PROVE VInv' BY <1>1, <1>2, StackKept DEF StackSound, VInv
<1>3. ASSUME StackSound PROVE VInv' BY <1>3 DEF StackSound, VInv
<1>4. CASE UNCHANGED vars
  BY <1>1, <1>4 DEF vars, VInv, Called, Sound, Linked, Listed, Chased, Seated, Placed, In, Live
<1>5. CASE Walks
  BY <1>1, <1>3, <1>5, NextChaserSound, ChaserMovesSound, ChaserTestedSound, EndMoveSound DEF Walks
<1>6. CASE PointUpdate BY <1>1, <1>2, <1>6, PointUpdateSound
<1>7. CASE \E r \in Room : Purge(r) BY <1>1, <1>2, <1>7, PurgeSound
<1>8. ASSUME NEW c \in Char,
             \/ Return(c) \/ ControlsNothing(c) \/ UsesFreedVehicle(c) \/ Walk(c)
             \/ Quit(c) \/ Die(c) \/ Login(c)
             \/ \E r \in g.k.rooms : Transfer(c, r)
      PROVE  VInv'
  BY <1>1, <1>2, <1>8, ReturnSound, CrashingSound, AfootSound, QuitSound, DieSound, LoginSound
<1>9. ASSUME NEW c \in Char, NEW v \in Veh,
             \/ Enter(c, v) \/ Leave(c, v) \/ Drive(c, v) \/ Rig(c, v) \/ Control(c, v)
             \/ Subscribe(c, v) \/ Unsubscribe(c, v) \/ Chase(c, v) \/ Move(c, v)
             \/ Driveby(c, v) \/ GridStop(c, v) \/ Repair(c, v) \/ RamSomebody(c, v)
             \/ \E n \in Speeds : SetSpeed(c, v, n)
             \/ \E r \in g.k.rooms : GridGuide(c, v, r)
             \/ \E w \in Veh : Ram(c, v, w)
      PROVE  VInv'
  <2>1. CASE Enter(c, v) \/ Leave(c, v) \/ Drive(c, v) \/ Rig(c, v) \/ Control(c, v)
    BY <1>1, <1>2, <2>1, EnterSound, LeaveSound, DriveSound, RigSound, ControlSound
  <2>2. CASE Subscribe(c, v) \/ Unsubscribe(c, v) \/ Chase(c, v) \/ RamSomebody(c, v)
    BY <1>1, <1>2, <2>2, SubscribeSound, UnsubscribeSound, ChaseSound, RamSomebodySound
  <2>3. CASE Move(c, v) \/ Driveby(c, v) BY <1>1, <1>3, <2>3, MoveSound, DrivebySound
  <2>4. CASE \/ \E n \in Speeds : SetSpeed(c, v, n)
             \/ GridStop(c, v) \/ Repair(c, v)
             \/ \E r \in g.k.rooms : GridGuide(c, v, r)
    BY <1>1, <1>2, <2>4, TunedSound
  <2>5. CASE \E w \in Veh : Ram(c, v, w) BY <1>1, <1>2, <2>5, RamSound
  <2> QED BY <1>9, <2>1, <2>2, <2>3, <2>4, <2>5
<1>10. ASSUME NEW v \in Veh,
              ShotAt(v) \/ Autonav(v) \/ \E r \in g.k.rooms : VTeleport(v, r)
       PROVE  VInv'
  BY <1>1, <1>2, <1>3, <1>10, ShotAtSound, AutonavSound, VTeleportSound
<1>11. CASE Ended BY <1>4, <1>11 DEF Ended
<1>12. Next \/ UNCHANGED vars OBVIOUS
<1> QED BY <1>4, <1>5, <1>6, <1>7, <1>8, <1>9, <1>10, <1>11, <1>12 DEF Next

LEMMA Invariance == Spec => []VInv
<1>1. Init => VInv BY InitSound
<1>2. VInv /\ [Next]_vars => VInv' BY NextSound
<1> QED BY <1>1, <1>2, PTL DEF Spec

-----------------------------------------------------------------------------
(* What follows from it. *)

\* A set that holds one thing and no other.
LEMMA OneOf ==
  ASSUME NEW S, NEW e \in S, \A d \in S : d = e
  PROVE  Cardinality(S) = 1
<1>1. S = {e} OBVIOUS
<1> QED BY <1>1, FS_Singleton

LEMMA SeatsFollow == VInv => SeatsCounted
<1> SUFFICES ASSUME VInv PROVE SeatsCounted OBVIOUS
<1>1. g \in VehiclesType /\ Seated(g) /\ Placed(g) BY DEF VInv, Sound
<1>2. ASSUME NEW c \in Char
      PROVE  Cardinality({v \in Veh : c \in In(g, v)} \cup ({g.room[c]} \ {None}))
               = IF Playing(g, c) THEN 1 ELSE 0
  <2> DEFINE S == {v \in Veh : c \in In(g, v)} \cup ({g.room[c]} \ {None})
  <2>1. Playing(g, c) <=> c \in ToSet(g.list) BY <1>1, PlayingFacts
  <2>2. CASE c \notin ToSet(g.list)
    <3>1. S = {} BY <1>1, <2>2 DEF Placed
    <3> QED BY <2>1, <2>2, <3>1, FS_EmptySet
  <2>3. CASE c \in ToSet(g.list) /\ g.room[c] # None
    <3>1. g.room[c] \in S /\ \A d \in S : d = g.room[c] BY <1>1, <2>3 DEF Placed
    <3> HIDE DEF S
    <3>2. Cardinality(S) = 1 BY <3>1, OneOf
    <3> QED BY <2>1, <2>3, <3>2 DEF S
  <2>4. CASE c \in ToSet(g.list) /\ g.room[c] = None
    <3>1. PICK v \in Veh : c \in In(g, v) BY <1>1, <2>4 DEF Placed
    <3>2. v \in S /\ \A d \in S : d = v BY <1>1, <2>4, <3>1 DEF Placed
    <3> HIDE DEF S
    <3>3. Cardinality(S) = 1 BY <3>2, OneOf
    <3> QED BY <2>1, <2>4, <3>3 DEF S
  <2> QED BY <2>2, <2>3, <2>4
<1> QED BY <1>1, <1>2 DEF Seated, SeatsCounted

LEMMA ChasersFollow == VInv => ChasersListed
<1> SUFFICES ASSUME VInv, NEW v \in Veh, NEW w \in Veh, Live(g, v), Live(g, w)
             PROVE  Cardinality({i \in DOMAIN g.followers[w] : g.followers[w][i] = v})
                      = IF g.following[v] = w THEN 1 ELSE 0
  BY DEF ChasersListed
<1> DEFINE S == {i \in DOMAIN g.followers[w] : g.followers[w][i] = v}
<1>1. IsInjective(g.followers[w]) /\ (v \in ToSet(g.followers[w]) <=> g.following[v] = w)
  BY DEF VInv, Sound, Chased
<1>2. CASE v \in ToSet(g.followers[w])
  <2>1. PICK i \in DOMAIN g.followers[w] : g.followers[w][i] = v BY <1>2 DEF ToSet
  <2>2. i \in S /\ \A j \in S : j = i BY <1>1, <2>1 DEF IsInjective
  <2> HIDE DEF S
  <2>3. Cardinality(S) = 1 BY <2>2, OneOf
  <2> QED BY <1>1, <1>2, <2>3 DEF S
<1>3. CASE v \notin ToSet(g.followers[w])
  <2>1. S = {} BY <1>3 DEF ToSet
  <2> QED BY <1>1, <1>3, <2>1, FS_EmptySet
<1> QED BY <1>2, <1>3

LEMMA ControlFollows == VInv => ControlTrue
BY DEF VInv, Sound, Linked, Listed, ControlTrue, RemoteLinked, ListsOwned

\* Every field keeps its type.
THEOREM TypeCorrect == Spec => []TypeOK
<1>1. VInv => TypeOK BY DEF VInv, Sound, TypeOK
<1> QED BY <1>1, Invariance, PTL

\* A player is in one place, and a vehicle never holds more people than it has seats, whatever
\* throws them out of it (enter_veh, leave_veh, crash_test, chkdmg, extract_char).
THEOREM SeatsCountedAlways == Spec => []SeatsCounted
BY SeatsFollow, Invariance, PTL

\* The vehicle that is chased lists its chasers, each once, also while move_vehicle walks the
\* list and its calls within each other change it (do_chase, stop_chase).
THEOREM ChasersListedAlways == Spec => []ChasersListed
BY ChasersFollow, Invariance, PTL

\* A rigger, the vehicle it rigs and the flag agree, and the subscriber lists hold vehicles of
\* their owner (do_control, do_return, do_subscribe, point_update).
THEOREM ControlTrueAlways == Spec => []ControlTrue
BY ControlFollows, Invariance, PTL

=============================================================================
