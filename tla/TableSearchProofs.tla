------------------------- MODULE TableSearchProofs -------------------------
(***************************************************************************)
(* The binary searches return the right slot for every sorted table of any *)
(* length and every number; and, beside them in MCEnds, the doors of an    *)
(* elevator of any floors and of cabs in any streets.                      *)
(***************************************************************************)
EXTENDS MCEnds, TLAPS

(* The bounds close in on each other and never cross by more than one. *)
Bounds ==
  /\ mid = Middle(kind, bot, top)
  /\ bot <= top + 1
  /\ top <= FirstTop(kind, n)

(* What the caller guarantees of the table and the number. *)
Given ==
  /\ Sorted(tab, n)
  /\ kind # "player" => n >= 1
  /\ kind = "quest" => virt > 0

Loop == pc = "loop" => Bounds /\ Narrowed

Inv == TypeOK /\ Given /\ Loop /\ Correct

-----------------------------------------------------------------------------
(* Where the middle lies between the bounds, for both ways of halving. *)
LEMMA MiddleBetween ==
  ASSUME NEW b \in Nat, NEW t \in Int, t >= -1, b <= t + 1, NEW k \in Kinds
  PROVE  /\ Middle(k, b, t) \in Int
         /\ Middle(k, b, t) >= -1
         /\ Middle(k, b, t) <= t \/ Middle(k, b, t) = 0
         /\ b <= t => b <= Middle(k, b, t) /\ Middle(k, b, t) <= t
         /\ b < t => b <= Middle(k, b, t) /\ Middle(k, b, t) < t
         /\ b = t => Middle(k, b, t) = b
         /\ b = t + 1 /\ t >= 0 => Middle(k, b, t) = t
         /\ t = -1 => Middle(k, b, t) = IF k \in {"shift", "quest"} THEN -1 ELSE 0
  BY DEF Middle, Halve, Shift

(* The loop starts with the whole table between the bounds. *)
LEMMA InvInit == Init => Inv
<1> SUFFICES ASSUME Init PROVE Inv
  OBVIOUS
<1>1. n \in Nat /\ kind \in Kinds /\ top = FirstTop(kind, n) /\ bot = 0
  BY LenAssumption DEF Init, Kinds
<1>2. top \in Int /\ top >= -1 /\ top <= n
  BY <1>1 DEF FirstTop
<1>3. mid \in -1 .. n /\ mid = Middle(kind, bot, top)
  <2>1. mid = Middle(kind, bot, top)
    BY <1>1 DEF Init
  <2>2. bot \in Nat /\ bot <= top + 1
    BY <1>1, <1>2
  <2> QED BY <2>1, <2>2, <1>1, <1>2, MiddleBetween
<1>4. TypeOK
  BY <1>1, <1>2, <1>3, LenAssumption DEF Init, TypeOK
<1>5. Given
  BY <1>1 DEF Init, Given, Kinds
<1>6. Loop
  BY <1>1, <1>2, <1>3 DEF Loop, Bounds, Narrowed, FirstTop
<1>7. Correct
  BY DEF Init, Correct
<1> QED BY <1>4, <1>5, <1>6, <1>7 DEF Inv

(* One slot looked at halves what is left and loses no candidate. *)
LEMMA NarrowKeeps ==
  ASSUME Inv, pc = "loop", NEW v \in Int, v # virt, v \in Read(mid),
         bot <= top, bot < top \/ kind = "player", Narrow(v),
         UNCHANGED <<kind, n, tab, virt>>
  PROVE  Inv'
<1>1. /\ n \in Nat /\ kind \in Kinds /\ bot \in Nat /\ top \in Int /\ virt \in Int
      /\ mid \in Int /\ top >= -1 /\ tab \in [0 .. (n - 1) -> Number]
      /\ Bounds /\ Narrowed /\ Given
  BY NumberAssumption, LenAssumption DEF Inv, TypeOK, Loop
<1>2. bot <= mid /\ mid <= top /\ mid >= 0
  <2>1. mid = Middle(kind, bot, top) /\ bot <= top + 1
    BY <1>1 DEF Bounds
  <2>2. bot <= Middle(kind, bot, top) /\ Middle(kind, bot, top) <= top
    BY <2>1, <1>1, MiddleBetween
  <2> QED BY <2>1, <2>2, <1>1
<1>3. top <= n /\ (kind # "quest" => top <= n - 1)
  BY <1>1 DEF Bounds, FirstTop
<1>4. CASE v > virt
  <2>1. /\ top' = mid - 1 /\ bot' = bot /\ mid' = Middle(kind, bot', top')
    BY <1>4 DEF Narrow
  <2>2. top' \in Int /\ top' >= -1 /\ bot' <= top' + 1 /\ top' <= top
    BY <2>1, <1>1, <1>2
  <2>3. mid \in 0 .. (n - 1) => tab[mid] = v
    BY DEF Read
  <2>4. \A i \in 0 .. (n - 1) : i > top' => tab[i] > virt
    <3> SUFFICES ASSUME NEW i \in 0 .. (n - 1), i > top' PROVE tab[i] > virt
      OBVIOUS
    <3>1. i >= mid /\ mid \in 0 .. (n - 1)
      BY <2>1, <1>1, <1>2
    <3>2. tab[i] \in Int /\ tab[mid] \in Int
      BY <3>1, <1>1, NumberAssumption
    <3>3. i = mid \/ tab[mid] < tab[i]
      BY <3>1, <1>1 DEF Given, Sorted
    <3> QED BY <3>1, <3>2, <3>3, <2>3, <1>4, <1>1
  <2>5. Narrowed'
    BY <2>4, <2>1, <1>1 DEF Narrowed
  <2>6. mid' \in -1 .. n
    <3>1. bot' \in Nat /\ top' \in Int /\ top' >= -1 /\ bot' <= top' + 1 /\ top' <= n
      BY <2>1, <2>2, <1>1, <1>3
    <3>2. /\ Middle(kind, bot', top') \in Int
          /\ Middle(kind, bot', top') >= -1
          /\ Middle(kind, bot', top') <= top' \/ Middle(kind, bot', top') = 0
      <4>1. kind \in Kinds
        BY <1>1
      <4> QED BY ONLY <3>1, <4>1, MiddleBetween
    <3> QED BY <3>1, <3>2, <2>1, <1>1
  <2>7. TypeOK'
    BY <2>1, <2>2, <2>6, <1>1, <1>3 DEF TypeOK, Narrow, Inv
  <2> QED BY <2>1, <2>2, <2>5, <2>7, <1>1, <1>3
          DEF Inv, Loop, Bounds, Given, Correct, Narrow, FirstTop
<1>5. CASE ~(v > virt)
  <2>1. /\ bot' = mid + 1 /\ top' = top /\ mid' = Middle(kind, bot', top')
    BY <1>5 DEF Narrow
  <2>2. bot' \in Nat /\ bot' <= top' + 1 /\ bot' <= n + 1
    BY <2>1, <1>1, <1>2, <1>3
  <2>3. mid \in 0 .. (n - 1) => tab[mid] = v
    BY DEF Read
  <2>4. \A i \in 0 .. (n - 1) : i < bot' => tab[i] < virt
    <3> SUFFICES ASSUME NEW i \in 0 .. (n - 1), i < bot' PROVE tab[i] < virt
      OBVIOUS
    <3>1. CASE mid \in 0 .. (n - 1)
      <4>1. i <= mid
        BY <2>1, <1>1
      <4>2. tab[i] \in Int /\ tab[mid] \in Int
        BY <3>1, <1>1, NumberAssumption
      <4>3. i = mid \/ tab[i] < tab[mid]
        BY <4>1, <3>1, <1>1 DEF Given, Sorted
      <4> QED BY <4>1, <4>2, <4>3, <2>3, <3>1, <1>5, <1>1
    <3>2. CASE mid = n
      <4>1. i < bot
        <5>1. mid = Middle(kind, bot, top) /\ bot <= top + 1
          BY <1>1 DEF Bounds
        <5>2. bot < top => Middle(kind, bot, top) < top
          BY <5>1, <1>1, MiddleBetween
        <5>3. ~(bot < top)
          BY <5>1, <5>2, <3>2, <1>1, <1>3
        <5> QED BY <5>3, <3>2, <1>1, <1>2, <1>3
      <4> QED BY <4>1, <1>1 DEF Narrowed
    <3> QED BY <3>1, <3>2, <1>1, <1>2, <1>3
  <2>5. Narrowed'
    BY <2>4, <2>1, <1>1 DEF Narrowed
  <2>6. mid' \in -1 .. n
    <3>1. bot' \in Nat /\ top' \in Int /\ top' >= -1 /\ bot' <= top' + 1 /\ top' <= n
      BY <2>1, <2>2, <1>1, <1>3
    <3>2. /\ Middle(kind, bot', top') \in Int
          /\ Middle(kind, bot', top') >= -1
          /\ Middle(kind, bot', top') <= top' \/ Middle(kind, bot', top') = 0
      <4>1. kind \in Kinds
        BY <1>1
      <4> QED BY ONLY <3>1, <4>1, MiddleBetween
    <3> QED BY <3>1, <3>2, <2>1, <1>1
  <2>7. TypeOK'
    BY <2>1, <2>2, <2>6, <1>1, <1>3 DEF TypeOK, Narrow, Inv
  <2> QED BY <2>1, <2>2, <2>5, <2>7, <1>1, <1>3
          DEF Inv, Loop, Bounds, Given, Correct, Narrow, FirstTop
<1> QED BY <1>4, <1>5

(* A slot that holds the number: it is what the caller wanted. *)
LEMMA FoundIsRight ==
  ASSUME Inv, pc = "loop", virt \in Read(mid), Looks, Return(mid),
         UNCHANGED <<kind, n, tab, virt>>
  PROVE  Inv'
<1>1. /\ n \in Nat /\ kind \in Kinds /\ bot \in Nat /\ top \in Int /\ virt \in Int
      /\ mid \in Int /\ top >= -1 /\ tab \in [0 .. (n - 1) -> Number]
      /\ Bounds /\ Narrowed /\ Given /\ mid \in -1 .. n
  BY NumberAssumption, LenAssumption DEF Inv, TypeOK, Loop
<1>2. mid = Middle(kind, bot, top) /\ bot <= top + 1 /\ top <= FirstTop(kind, n)
  BY <1>1 DEF Bounds
<1>3. pc' = "done" /\ result' = mid /\ bot' = bot /\ top' = top /\ mid' = mid
  BY DEF Return
<1>4. CASE mid \in 0 .. (n - 1)
  <2>1. tab[mid] = virt
    BY <1>4 DEF Read
  <2>2. Correct'
    BY <2>1, <1>3, <1>4, <1>1 DEF Correct
  <2>3. TypeOK'
    BY <1>3, <1>4, <1>1 DEF Inv, TypeOK
  <2> QED BY <2>2, <2>3, <1>3, <1>1 DEF Inv, Loop, Given
<1>5. CASE mid = n
  <2>1. kind = "quest"
    <3>1. CASE top >= 0
      <4>1. Middle(kind, bot, top) <= top \/ Middle(kind, bot, top) = 0
        BY <1>1, <1>2, MiddleBetween
      <4> QED BY <4>1, <3>1, <1>2, <1>5, <1>1 DEF FirstTop, Given
    <3>2. CASE top = -1
      <4>1. Middle(kind, bot, top) = IF kind \in {"shift", "quest"} THEN -1 ELSE 0
        BY <3>2, <1>1, <1>2, MiddleBetween
      <4>2. n = 0
        BY <4>1, <1>2, <1>5, <1>1
      <4>3. kind = "player"
        BY <4>2, <1>1 DEF Given
      <4> QED BY <4>3, <3>2, <1>1 DEF Looks
    <3> QED BY <3>1, <3>2, <1>1
  <2>2. Read(mid) = {0}
    BY <2>1, <1>5, <1>1 DEF Read, Allocated
  <2> QED BY <2>1, <2>2, <1>1 DEF Given
<1>6. CASE mid = -1
  <2>1. top = -1
    <3>1. top >= 0 /\ bot <= top => Middle(kind, bot, top) >= bot
      BY <1>1, <1>2, MiddleBetween
    <3>2. top >= 0 /\ bot = top + 1 => Middle(kind, bot, top) = top
      BY <1>1, <1>2, MiddleBetween
    <3> QED BY <3>1, <3>2, <1>2, <1>6, <1>1
  <2>2. ~ \E i \in 0 .. (n - 1) : tab[i] = virt
    BY <2>1, <1>1, NumberAssumption DEF Narrowed
  <2>3. Correct'
    BY <2>2, <1>3, <1>6, <1>1 DEF Correct
  <2>4. TypeOK'
    BY <1>3, <1>6, <1>1 DEF Inv, TypeOK
  <2> QED BY <2>3, <2>4, <1>3, <1>1 DEF Inv, Loop, Given
<1> QED BY <1>4, <1>5, <1>6, <1>1

(* The bounds have met or crossed without a hit: the number is not there. *)
LEMMA GivesUpRight ==
  ASSUME Inv, pc = "loop", Return(-1), UNCHANGED <<kind, n, tab, virt>>,
         \/ bot > top
         \/ bot >= top /\ \E v \in Read(mid) : v # virt
  PROVE  Inv'
<1>1. /\ n \in Nat /\ kind \in Kinds /\ bot \in Nat /\ top \in Int /\ virt \in Int
      /\ mid \in Int /\ top >= -1 /\ tab \in [0 .. (n - 1) -> Number]
      /\ Bounds /\ Narrowed /\ Given
  BY NumberAssumption, LenAssumption DEF Inv, TypeOK, Loop
<1>2. mid = Middle(kind, bot, top) /\ bot <= top + 1
  BY <1>1 DEF Bounds
<1>3. pc' = "done" /\ result' = -1 /\ bot' = bot /\ top' = top /\ mid' = mid
  BY DEF Return
<1>4. ASSUME NEW i \in 0 .. (n - 1) PROVE tab[i] # virt
  <2>1. i < bot => tab[i] < virt
    BY <1>1 DEF Narrowed
  <2>2. i > top => tab[i] > virt
    BY <1>1 DEF Narrowed
  <2>3. tab[i] \in Int
    BY <1>1, NumberAssumption
  <2>4. CASE i < bot \/ i > top
    BY <2>1, <2>2, <2>3, <2>4, <1>1
  <2>5. CASE bot = top /\ i = bot
    <3>1. mid = i
      BY <2>5, <1>1, <1>2, MiddleBetween
    <3>2. Read(mid) = {tab[i]}
      BY <3>1 DEF Read
    <3> QED BY <3>2, <2>5, <1>1
  <2> QED BY <2>4, <2>5, <1>1, <1>2
<1>5. Correct'
  BY <1>4, <1>3 DEF Correct
<1>6. TypeOK'
  BY <1>3, <1>1 DEF Inv, TypeOK
<1> QED BY <1>5, <1>6, <1>3, <1>1 DEF Inv, Loop, Given

(* Every turn of either loop. *)
LEMMA InvNext == Inv /\ [Next]_vars => Inv'
<1> SUFFICES ASSUME Inv, [Next]_vars PROVE Inv'
  OBVIOUS
<1>0. ASSUME NEW i \in Int, NEW v \in Read(i) PROVE v \in Int
  BY <1>0, NumberAssumption DEF Read, Inv, TypeOK
<1>1. mid \in Int /\ bot \in Int /\ top \in Int
  BY LenAssumption DEF Inv, TypeOK
<1>2. CASE UNCHANGED vars
  BY <1>2 DEF vars, Inv, TypeOK, Given, Loop, Bounds, Narrowed, Correct
<1>3. CASE pc = "loop" /\ Search /\ UNCHANGED <<kind, n, tab, virt>>
  <2>1. PICK v \in Read(mid) : Probe(v)
    BY <1>3 DEF Search
  <2>2. v \in Int /\ kind # "player" /\ Looks
    BY <1>0, <1>1, <1>3 DEF Search, Looks
  <2>3. CASE v = virt /\ Return(mid)
    BY <2>2, <2>3, <1>3, FoundIsRight
  <2>4. CASE v # virt /\ bot >= top /\ Return(-1)
    BY <2>4, <1>3, GivesUpRight
  <2>5. CASE v # virt /\ bot < top /\ Narrow(v)
    BY <2>2, <2>5, <1>1, <1>3, NarrowKeeps
  <2> QED BY <2>1, <2>3, <2>4, <2>5 DEF Probe
<1>4. CASE pc = "loop" /\ PlayerSearch /\ UNCHANGED <<kind, n, tab, virt>>
  <2>1. kind = "player"
    BY <1>4 DEF PlayerSearch
  <2>2. CASE ~Looks /\ Return(-1)
    <3>1. bot > top
      BY <2>1, <2>2, <1>1 DEF Looks
    <3> QED BY <3>1, <2>2, <1>4, GivesUpRight
  <2>3. CASE Looks /\ \E v \in Read(mid) : Lookup(v)
    <3>1. PICK v \in Read(mid) : Lookup(v)
      BY <2>3
    <3>2. v \in Int /\ bot <= top
      BY <1>0, <1>1, <2>1, <2>3 DEF Looks
    <3>3. CASE v = virt /\ Return(mid)
      BY <2>3, <3>3, <1>4, FoundIsRight
    <3>4. CASE v # virt /\ Narrow(v)
      BY <2>1, <3>2, <3>4, <1>4, NarrowKeeps
    <3> QED BY <3>1, <3>3, <3>4 DEF Lookup
  <2> QED BY <2>2, <2>3, <1>4 DEF PlayerSearch
<1> QED BY <1>2, <1>3, <1>4 DEF Next

(* Every lookup by number, in a sorted table of any length, returns the     *)
(* slot that holds the number, or -1 when none does: real_room ...          *)
(* get_idx_by_id.                                                           *)
THEOREM SearchCorrect == Spec => []Correct
<1>1. Init => Inv
  BY InvInit
<1>2. Inv /\ [Next]_vars => Inv'
  BY InvNext
<1>3. Inv => Correct
  BY DEF Inv
<1> QED BY <1>1, <1>2, <1>3, PTL DEF Spec

(* A slot outside the table is read only by the searches that shift, and    *)
(* then it is the one before the first, for a number below all others.      *)
THEOREM SearchInBounds == Spec => []InBounds
<1>1. Init => Inv
  BY InvInit
<1>2. Inv /\ [Next]_vars => Inv'
  BY InvNext
<1>3. Inv => InBounds
  <2> SUFFICES ASSUME Inv, pc = "loop", Looks, mid \notin Allocated
               PROVE  /\ kind \in {"shift", "quest"} /\ mid = -1
                      /\ \A i \in 0 .. (n - 1) : virt < tab[i]
    BY DEF InBounds
  <2>1. /\ n \in Nat /\ kind \in Kinds /\ bot \in Nat /\ top \in Int /\ top >= -1
        /\ mid = Middle(kind, bot, top) /\ bot <= top + 1
        /\ top <= n /\ (kind # "quest" => top <= n - 1)
        /\ kind # "player" => n >= 1
    BY LenAssumption DEF Inv, TypeOK, Loop, Bounds, Given, FirstTop
  <2>2. 0 .. (n - 1) \subseteq Allocated /\ (kind = "quest" => 0 .. n \subseteq Allocated)
    BY <2>1 DEF Allocated
  <2>3. ~(bot <= top)
    <3> SUFFICES ASSUME bot <= top PROVE FALSE
      OBVIOUS
    <3>1. bot <= Middle(kind, bot, top) /\ Middle(kind, bot, top) <= top
          /\ Middle(kind, bot, top) \in Int
      BY <2>1, MiddleBetween
    <3> QED BY <3>1, <2>1, <2>2
  <2>4. bot = top + 1 /\ kind # "player"
    BY <2>1, <2>3 DEF Looks
  <2>5. top = -1
    <3> SUFFICES ASSUME top >= 0 PROVE FALSE
      BY <2>1
    <3>1. Middle(kind, bot, top) = top
      BY <2>1, <2>4, MiddleBetween
    <3> QED BY <3>1, <2>1, <2>2
  <2>6. mid = IF kind \in {"shift", "quest"} THEN -1 ELSE 0
    BY <2>1, <2>4, <2>5, MiddleBetween
  <2>7. kind \in {"shift", "quest"} /\ mid = -1
    BY <2>1, <2>2, <2>4, <2>6
  <2>8. ASSUME NEW i \in 0 .. (n - 1) PROVE virt < tab[i]
    <3>1. Narrowed /\ virt \in Int /\ tab[i] \in Int
      BY NumberAssumption DEF Inv, TypeOK, Loop
    <3>2. tab[i] > virt
      BY <3>1, <2>1, <2>5 DEF Narrowed
    <3> QED BY <3>1, <3>2
  <2> QED BY <2>7, <2>8
<1> QED BY <1>1, <1>2, <1>3, PTL DEF Spec

(* A lookup in a table of any length is sound.                              *)
THEOREM SearchSound == Spec => []LookupSound
<1>1. Correct /\ InBounds => LookupSound
  BY DEF LookupSound
<1> QED BY <1>1, SearchCorrect, SearchInBounds, PTL

-----------------------------------------------------------------------------
(* The elevator (Elevators, in the scene of MCEnds).                         *)

\* A call is waited for on a landing that exists, and a car has a way to go only
\* while it goes.
LiftInv ==
  /\ Lift!DoorsTrue
  /\ destination \notin Blocked
  /\ dir \notin {8, 9} => time_left = 0
  /\ car \in [{Doors[f] : f \in Lift!Floor} -> Lift!Floor \cup {Nowhere}]

LEMMA LiftGiven ==
  /\ num_floors \in Nat \ {0} /\ Blocked \subseteq Lift!Floor
  /\ Nowhere \notin Lift!Floor /\ Car \notin Lift!Floor /\ 0 \in Lift!Floor
  /\ \A f \in Lift!Floor : f \in Int /\ Doors[f] \in {Doors[g] : g \in Lift!Floor}
  /\ Lift!UP = 8 /\ Lift!DOWN = 9
  BY LiftAssumption DEF Lift!FloorAssumption, Lift!Floor, Lift!UP, Lift!DOWN

\* The doors open where the car stands.
LEMMA LiftOpens ==
  ASSUME LiftInv, rating \notin Blocked, dir \notin 0 .. 7,
         Lift!open_elevator_doors(rating), time_left' = 0, rating' = rating,
         at' = at, destination' \in (Lift!Floor \cup {Nowhere}) \ Blocked
  PROVE  LiftInv'
<1>1. /\ rating \in Lift!Floor /\ landing = {} /\ \A d \in DOMAIN car : car[d] = Nowhere
      /\ DOMAIN car = {Doors[f] : f \in Lift!Floor}
  BY LiftGiven DEF LiftInv, Lift!DoorsTrue, Lift!TypeOK
<1>2. car' = [car EXCEPT ![Doors[rating]] = rating] /\ landing' = {rating} /\ dir' = 7 /\ fallen' = fallen
  BY <1>1, LiftGiven DEF Lift!open_elevator_doors
<1>3. car' \in [{Doors[f] : f \in Lift!Floor} -> Lift!Floor \cup {Nowhere}]
  BY <1>1, <1>2 DEF LiftInv
<1>4. \A d \in DOMAIN car' : car'[d] = IF Doors[rating] = d THEN rating ELSE Nowhere
  BY <1>1, <1>2
<1>5. Lift!TypeOK'
  BY <1>1, <1>2, LiftGiven DEF LiftInv, Lift!DoorsTrue, Lift!TypeOK
<1> QED BY <1>2, <1>3, <1>4, <1>5, LiftGiven DEF LiftInv, Lift!DoorsTrue

\* The doors close, and nobody follows an exit that is not there.
LEMMA LiftCloses ==
  ASSUME LiftInv, dir \in 0 .. 7, Lift!close_elevator_doors(rating)
  PROVE  /\ car' \in [{Doors[f] : f \in Lift!Floor} -> Lift!Floor \cup {Nowhere}]
         /\ \A d \in DOMAIN car' : car'[d] = Nowhere
         /\ landing' = {} /\ fallen' = fallen
<1>1. /\ rating \in Lift!Floor /\ landing = {rating} /\ DOMAIN car = {Doors[f] : f \in Lift!Floor}
      /\ \A d \in DOMAIN car : car[d] = IF Doors[rating] = d THEN rating ELSE Nowhere
  BY LiftGiven DEF LiftInv, Lift!DoorsTrue, Lift!TypeOK
<1>2. car[Doors[rating]] = rating /\ rating # Nowhere
  BY <1>1, LiftGiven
<1>3. car' = [car EXCEPT ![Doors[rating]] = Nowhere] /\ landing' = landing \ {rating} /\ fallen' = fallen
  BY <1>2 DEF Lift!close_elevator_doors
<1> QED BY <1>1, <1>3 DEF LiftInv

LEMMA LiftActs ==
  ASSUME LiftInv, Lift!Acts
  PROVE  LiftInv'
<1>1. ASSUME NEW p \in Person, Lift!call_elevator(p) PROVE LiftInv'
  <2>1. /\ destination' \in Lift!Floor \ Blocked
        /\ UNCHANGED <<dir, time_left, rating, car, landing, at, fallen>>
    BY <1>1 DEF Lift!call_elevator
  <2> QED BY <2>1 DEF LiftInv, Lift!DoorsTrue, Lift!TypeOK
<1>2. ASSUME NEW p \in Person, Lift!Walk(p) PROVE LiftInv'
  <2>1. UNCHANGED <<dir, time_left, rating, destination, car, landing, fallen>>
    BY <1>2 DEF Lift!Walk
  <2>2. at' \in [Person -> (Lift!Floor \ Blocked) \cup {Car}]
    <3>1. CASE at' = [at EXCEPT ![p] = Car]
      BY <3>1 DEF LiftInv, Lift!DoorsTrue, Lift!TypeOK
    <3>2. ASSUME NEW d \in DOMAIN car, car[d] # Nowhere, at' = [at EXCEPT ![p] = car[d]]
          PROVE  at' \in [Person -> (Lift!Floor \ Blocked) \cup {Car}]
      <4>1. car[d] = rating /\ dir \in 0 .. 7
        BY <3>2, LiftGiven DEF LiftInv, Lift!DoorsTrue
      <4>2. rating \in Lift!Floor \ Blocked
        BY <4>1, LiftGiven DEF LiftInv, Lift!DoorsTrue, Lift!TypeOK
      <4> QED BY <3>2, <4>1, <4>2 DEF LiftInv, Lift!DoorsTrue, Lift!TypeOK
    <3> QED BY <1>2, <3>1, <3>2 DEF Lift!Walk
  <2> QED BY <2>1, <2>2 DEF LiftInv, Lift!DoorsTrue, Lift!TypeOK
<1>3. ASSUME NEW p \in Person, NEW f \in Lift!Floor, Lift!Push(p, f) PROVE LiftInv'
  <2>1. at[p] = Car /\ dir < 8 /\ f \notin Blocked /\ UNCHANGED <<rating, destination, at>>
    BY <1>3, LiftGiven DEF Lift!Push
  <2>2. dir \in -1 .. 7 /\ time_left = 0 /\ rating \in Lift!Floor
        /\ destination' \in (Lift!Floor \cup {Nowhere}) \ Blocked
    BY <2>1 DEF LiftInv, Lift!DoorsTrue, Lift!TypeOK, Lift!DOWN
  <2>3. CASE f = rating /\ car[Doors[f]] = Nowhere /\ Lift!open_elevator_doors(f) /\ UNCHANGED time_left
    <3>1. dir \notin 0 .. 7
      BY <2>2, <2>3, LiftGiven DEF LiftInv, Lift!DoorsTrue
    <3> QED BY <2>1, <2>2, <2>3, <3>1, LiftOpens
  <2>4. CASE f # rating /\ Lift!Leave(f)
    <3>1. /\ dir' = IF f > rating THEN 9 ELSE 8
          /\ time_left' = IF f > rating THEN f - rating ELSE rating - f
      BY <2>4, LiftGiven DEF Lift!Leave, Lift!Distance
    <3>2. f \in Int /\ rating \in Int /\ time_left' \in Nat
      BY <2>2, <3>1, LiftGiven
    <3>3. /\ car' \in [{Doors[g] : g \in Lift!Floor} -> Lift!Floor \cup {Nowhere}]
          /\ \A d \in DOMAIN car' : car'[d] = Nowhere
          /\ landing' = {} /\ fallen' = fallen
      <4>1. CASE car[Doors[rating]] = Nowhere
        <5>1. dir \notin 0 .. 7
          BY <2>2, <4>1, LiftGiven DEF LiftInv, Lift!DoorsTrue
        <5>2. car' = car /\ landing' = landing /\ fallen' = fallen
          BY <2>4, <4>1 DEF Lift!Leave
        <5> QED BY <5>1, <5>2, LiftGiven DEF LiftInv, Lift!DoorsTrue
      <4>2. CASE car[Doors[rating]] # Nowhere
        <5>1. dir \in 0 .. 7
          BY <2>2, <4>2, LiftGiven DEF LiftInv, Lift!DoorsTrue
        <5>2. Lift!close_elevator_doors(rating)
          BY <2>4, <4>2 DEF Lift!Leave
        <5> QED BY <5>1, <5>2, LiftCloses
      <4> QED BY <4>1, <4>2
    <3>4. (IF dir' = 9 THEN rating + time_left' ELSE rating - time_left') = f
      BY <3>1, <3>2
    <3>5. dir' \in {8, 9}
      BY <3>1
    <3>6. Lift!TypeOK'
      BY <2>1, <2>2, <3>2, <3>3, <3>5, LiftGiven DEF LiftInv, Lift!DoorsTrue, Lift!TypeOK
    <3>7. Lift!DoorsTrue'
      BY <2>1, <3>3, <3>4, <3>5, <3>6, LiftGiven DEF LiftInv, Lift!DoorsTrue
    <3> QED BY <2>2, <3>3, <3>5, <3>7 DEF LiftInv
  <2> QED BY <1>3, <2>3, <2>4 DEF Lift!Push
<1> QED BY <1>1, <1>2, <1>3 DEF Lift!Acts

LEMMA LiftProcess ==
  ASSUME LiftInv, Lift!ElevatorProcess
  PROVE  LiftInv'
<1>1. /\ dir \in -1 .. 9 /\ rating \in Lift!Floor /\ rating \in Int /\ time_left \in Nat
      /\ destination \in (Lift!Floor \cup {Nowhere}) \ Blocked
      /\ dir \notin {8, 9} => time_left = 0
  BY LiftGiven DEF LiftInv, Lift!DoorsTrue, Lift!TypeOK
<1>2. /\ at' = at /\ destination' \in (Lift!Floor \cup {Nowhere}) \ Blocked
  BY <1>1, LiftGiven DEF Lift!ElevatorProcess, LiftInv
\* Where the car is bound for, if it is.
<1>3. /\ Lift!Heading \in -1 .. 9 /\ Lift!ToGo \in Nat
      /\ Lift!Heading \notin {8, 9} => Lift!Heading = dir /\ Lift!ToGo = 0
      /\ Lift!Heading \in {8, 9} =>
           /\ dir \notin 0 .. 7
           /\ (IF Lift!Heading = 9 THEN rating + Lift!ToGo ELSE rating - Lift!ToGo) \in Lift!Floor \ Blocked
  <2>1. CASE Lift!Answers
    <3>1. destination \in Lift!Floor \ Blocked /\ destination \in Int /\ dir = -1
      BY <2>1, <1>1, LiftGiven DEF Lift!Answers
    <3>2. /\ Lift!Heading = IF destination >= rating THEN 9 ELSE 8
          /\ Lift!ToGo = IF destination > rating THEN destination - rating ELSE rating - destination
      BY <2>1, LiftGiven DEF Lift!Heading, Lift!ToGo, Lift!Distance
    <3>3. (IF Lift!Heading = 9 THEN rating + Lift!ToGo ELSE rating - Lift!ToGo) = destination
      BY <3>1, <3>2, <1>1
    <3> QED BY <3>1, <3>2, <3>3, <1>1
  <2>2. CASE ~Lift!Answers
    <3>1. Lift!Heading = dir /\ Lift!ToGo = time_left
      BY <2>2 DEF Lift!Heading, Lift!ToGo
    <3> QED BY <3>1, <1>1, LiftGiven DEF LiftInv, Lift!DoorsTrue
  <2> QED BY <2>1, <2>2
<1>4. CASE Lift!Moves
  <2>1. /\ Lift!ToGo > 0 /\ time_left' = Lift!ToGo - 1 /\ dir' = Lift!Heading
        /\ rating' = IF Lift!Heading = 9 THEN rating + 1 ELSE rating - 1
        /\ UNCHANGED <<car, landing, fallen>>
    BY <1>4, LiftGiven DEF Lift!Moves
  <2>2. Lift!Heading \in {8, 9} /\ landing = {} /\ \A d \in DOMAIN car : car[d] = Nowhere
    BY <2>1, <1>3, LiftGiven DEF LiftInv, Lift!DoorsTrue
  <2>3. rating' \in Lift!Floor /\ time_left' \in Nat
    <3> DEFINE to == IF Lift!Heading = 9 THEN rating + Lift!ToGo ELSE rating - Lift!ToGo
    <3>1. to \in 0 .. num_floors - 1 /\ rating \in 0 .. num_floors - 1 /\ num_floors \in Nat
      BY <1>1, <1>3, <2>2, LiftGiven DEF Lift!Floor
    <3>2. rating' \in 0 .. num_floors - 1
      <4>1. Lift!ToGo \in Nat /\ Lift!ToGo > 0
        BY <1>3, <2>1
      <4>2. CASE Lift!Heading = 9
        BY <3>1, <4>1, <4>2, <2>1
      <4>3. CASE Lift!Heading # 9
        BY <3>1, <4>1, <4>3, <2>1
      <4> QED BY <4>2, <4>3
    <3> QED BY <1>3, <2>1, <3>2 DEF Lift!Floor
  <2>4. (IF dir' = 9 THEN rating' + time_left' ELSE rating' - time_left') \in Lift!Floor \ Blocked
    <3>1. Lift!ToGo \in Nat /\ rating \in Int
      BY <1>1, <1>3
    <3>2. CASE Lift!Heading = 9
      <4>1. rating' + time_left' = rating + Lift!ToGo
        BY <3>1, <3>2, <2>1
      <4> QED BY <4>1, <3>2, <2>1, <2>2, <1>3
    <3>3. CASE Lift!Heading = 8
      <4>1. rating' - time_left' = rating - Lift!ToGo
        BY <3>1, <3>3, <2>1
      <4>2. rating - Lift!ToGo \in Lift!Floor \ Blocked /\ dir' = 8
        BY <3>3, <2>1, <1>3
      <4> QED BY <4>1, <4>2
    <3> QED BY <3>2, <3>3, <2>2
  <2>5. Lift!TypeOK'
    BY <1>2, <2>1, <2>2, <2>3, LiftGiven DEF LiftInv, Lift!DoorsTrue, Lift!TypeOK
  <2>6. car' \in [{Doors[f] : f \in Lift!Floor} -> Lift!Floor \cup {Nowhere}]
    BY <2>1 DEF LiftInv
  <2>7. dir' \in {8, 9} /\ destination' \notin Blocked
    BY <1>2, <2>1, <2>2
  <2>8. landing' = {} /\ (\A d \in DOMAIN car' : car'[d] = Nowhere) /\ ~fallen'
    BY <2>1, <2>2 DEF LiftInv, Lift!DoorsTrue
  <2>9. Lift!DoorsTrue'
    BY <2>4, <2>5, <2>7, <2>8, LiftGiven DEF Lift!DoorsTrue
  <2> QED BY <2>6, <2>7, <2>9 DEF LiftInv
<1>5. CASE Lift!Stops
  <2>1. Lift!ToGo = 0 /\ Lift!Heading \in {8, 9} /\ Lift!open_elevator_doors(rating)
        /\ time_left' = 0 /\ rating' = rating
    BY <1>5, LiftGiven DEF Lift!Stops
  <2>2. rating \notin Blocked
    BY <2>1, <1>1, <1>3
  <2> QED BY <1>2, <1>3, <2>1, <2>2, LiftOpens
<1>6. CASE Lift!Waits
  <2>1. /\ dir \in 1 .. 7 /\ dir' = dir - 1 /\ UNCHANGED <<time_left, rating, car, landing, fallen>>
    BY <1>6, <1>1, <1>3, LiftGiven DEF Lift!Waits
  <2>2. dir' \in 0 .. 7 /\ dir \in 0 .. 7
    BY <2>1
  <2>3. Lift!TypeOK'
    BY <1>2, <2>1, <2>2, LiftGiven DEF LiftInv, Lift!DoorsTrue, Lift!TypeOK
  <2>4. Lift!DoorsTrue'
    BY <2>1, <2>2, <2>3, LiftGiven DEF LiftInv, Lift!DoorsTrue
  <2> QED BY <1>1, <1>2, <2>1, <2>4 DEF LiftInv
<1>7. CASE Lift!Closes
  <2>1. dir = 0 /\ Lift!close_elevator_doors(rating) /\ dir' = -1 /\ time_left' = time_left /\ rating' = rating
    BY <1>7, <1>3 DEF Lift!Closes
  <2>2. /\ car' \in [{Doors[f] : f \in Lift!Floor} -> Lift!Floor \cup {Nowhere}]
        /\ \A d \in DOMAIN car' : car'[d] = Nowhere
        /\ landing' = {} /\ fallen' = fallen
    BY <2>1, LiftCloses
  <2>3. Lift!TypeOK'
    BY <1>1, <1>2, <2>1, <2>2, LiftGiven DEF LiftInv, Lift!DoorsTrue, Lift!TypeOK
  <2>4. Lift!DoorsTrue'
    BY <2>1, <2>2, <2>3, LiftGiven DEF LiftInv, Lift!DoorsTrue
  <2> QED BY <1>1, <1>2, <2>1, <2>2, <2>4 DEF LiftInv
<1> QED BY <1>4, <1>5, <1>6, <1>7 DEF Lift!ElevatorProcess

LEMMA LiftInit == Lift!Init => LiftInv
<1> SUFFICES ASSUME Lift!Init PROVE LiftInv
  OBVIOUS
<1>1. car \in [{Doors[f] : f \in Lift!Floor} -> Lift!Floor \cup {Nowhere}]
      /\ \A d \in DOMAIN car : car[d] = Nowhere
  BY DEF Lift!Init
<1>2. Lift!TypeOK
  BY LiftGiven DEF Lift!Init, Lift!TypeOK
<1> QED BY <1>1, <1>2, LiftGiven DEF Lift!Init, LiftInv, Lift!DoorsTrue

-----------------------------------------------------------------------------
(* The cabs (Taxis, in the scene of MCEnds).                                 *)

\* Who has paid is in a cab, and a driver with something in mind knows where to.
CabInv ==
  /\ Cabs!TypeOK /\ Cabs!HalvesMeet /\ Cabs!RidePaid
  /\ \A p \in Rider : paid[p] # Nowhere => in[p] \in Cab
  /\ \A c \in Cab : active[c] # "AWAIT_CMD" => spare2[c] \in Street
  /\ DOMAIN paid = Rider /\ paid = [p \in Rider |-> paid[p]]

CabsInv ==
  /\ broken = "" => CabInv /\ Cabs!OneDoor
  /\ broken # "null"
  /\ broken = "lost" => hailed # {}

LEMMA CabGiven ==
  /\ Cab \subseteq Nat /\ Cab \cap Street = {} /\ Nowhere \notin Cab /\ Nowhere \notin Street
  /\ \A w \in Way : Rev[w] \in Way /\ Rev[Rev[w]] = w
  /\ Most \in Nat
  BY CabsAssumption DEF Cabs!CabsAssumption

LEMMA CabRange ==
  /\ 0 \in 0 .. Most
  /\ \A k \in 1 .. Most : k \in 0 .. Most
  /\ \A k \in 0 .. Most : k > 0 => k - 1 \in 0 .. Most
<1>1. Most \in Nat
  BY CabsAssumption DEF Cabs!CabsAssumption
<1> QED BY <1>1

\* A door that is made where there was none has its two halves.
LEMMA DoorOpens ==
  ASSUME CabInv, NEW r \in Street, NEW w \in Cabs!Free(r), NEW c \in Cab,
         Cabs!open_taxi_door(r, w, c), broken' = ""
  PROVE  /\ exit' \in [Street -> [Way -> Cab \cup {Nowhere}]]
         /\ door' \in [Cab -> [Way -> Street \cup {Nowhere}]]
         /\ Cabs!HalvesMeet'
<1>1. w \in Way /\ exit[r][w] = Nowhere /\ Rev[w] \in Way
  BY CabGiven DEF Cabs!Free
<1>2. /\ exit \in [Street -> [Way -> Cab \cup {Nowhere}]]
      /\ door \in [Cab -> [Way -> Street \cup {Nowhere}]]
  BY DEF CabInv, Cabs!TypeOK
<1>3. door[c][Rev[w]] = Nowhere
  BY DEF Cabs!open_taxi_door
<1>4. /\ exit' = [exit EXCEPT ![r] = [exit[r] EXCEPT ![w] = c]]
      /\ door' = [door EXCEPT ![c] = [door[c] EXCEPT ![Rev[w]] = r]]
  BY <1>2 DEF Cabs!open_taxi_door
<1>5. [exit[r] EXCEPT ![w] = c] \in [Way -> Cab \cup {Nowhere}]
      /\ [door[c] EXCEPT ![Rev[w]] = r] \in [Way -> Street \cup {Nowhere}]
  BY <1>1, <1>2
<1>6. /\ exit' \in [Street -> [Way -> Cab \cup {Nowhere}]]
      /\ door' \in [Cab -> [Way -> Street \cup {Nowhere}]]
  BY <1>2, <1>4, <1>5
<1>7. \A s \in Street, v \in Way : exit'[s][v] = IF s = r /\ v = w THEN c ELSE exit[s][v]
  BY <1>1, <1>2, <1>4
<1>8. \A b \in Cab, v \in Way : door'[b][v] = IF b = c /\ v = Rev[w] THEN r ELSE door[b][v]
  BY <1>1, <1>2, <1>4
<1>9. ASSUME NEW b \in Cab, NEW s \in Street, NEW v \in Way
      PROVE  door'[b][Rev[v]] = s <=> exit'[s][v] = b
  <2>1. door[b][Rev[v]] = s <=> exit[s][v] = b
    BY Zenon DEF CabInv, Cabs!HalvesMeet
  <2>2. Rev[v] = Rev[w] <=> v = w
    BY <1>1, CabGiven
  <2>3. Rev[v] \in Way
    BY CabGiven
  <2>4. door'[b][Rev[v]] = IF b = c /\ v = w THEN r ELSE door[b][Rev[v]]
    BY <1>8, <2>2, <2>3
  <2>5. exit'[s][v] = IF s = r /\ v = w THEN c ELSE exit[s][v]
    BY <1>7
  <2>6. v = w /\ s = r => exit[s][v] = Nowhere
    BY <1>1
  <2>7. v = w /\ b = c => door[b][Rev[v]] = Nowhere
    BY <1>3
  <2>8. Nowhere # s /\ Nowhere # b
    BY CabGiven
  <2> QED BY <2>1, <2>4, <2>5, <2>6, <2>7, <2>8
<1> QED BY <1>6, <1>9 DEF Cabs!HalvesMeet

\* All doors of a cab go, with their halves in the streets.
LEMMA DoorsClose ==
  ASSUME CabInv, NEW c \in Cab, Cabs!close_taxi_doors(c)
  PROVE  /\ exit' \in [Street -> [Way -> Cab \cup {Nowhere}]]
         /\ door' \in [Cab -> [Way -> Street \cup {Nowhere}]]
         /\ Cabs!HalvesMeet' /\ broken' = broken
<1>1. /\ exit \in [Street -> [Way -> Cab \cup {Nowhere}]]
      /\ door \in [Cab -> [Way -> Street \cup {Nowhere}]]
  BY DEF CabInv, Cabs!TypeOK
<1>2. \A r \in Street, w \in Way : exit'[r][w] = IF exit[r][w] = c /\ door[c][Rev[w]] = r
                                                THEN Nowhere ELSE exit[r][w]
  BY DEF Cabs!close_taxi_doors
<1>3. exit' \in [Street -> [Way -> Cab \cup {Nowhere}]]
  BY <1>1 DEF Cabs!close_taxi_doors
<1>4. /\ door' \in [Cab -> [Way -> Street \cup {Nowhere}]]
      /\ \A b \in Cab, w \in Way : door'[b][w] = IF b = c THEN Nowhere ELSE door[b][w]
  BY <1>1 DEF Cabs!close_taxi_doors
<1>5. ASSUME NEW b \in Cab, NEW s \in Street, NEW v \in Way
      PROVE  door'[b][Rev[v]] = s <=> exit'[s][v] = b
  <2>1. \A a \in Cab : door[a][Rev[v]] = s <=> exit[s][v] = a
    BY DEF CabInv, Cabs!HalvesMeet
  <2>2. Rev[v] \in Way /\ Nowhere # s /\ Nowhere # b
    BY CabGiven
  <2> QED BY <1>2, <1>4, <2>1, <2>2
<1>6. \A w \in Way : door[c][w] # Nowhere => exit[door[c][w]][Rev[w]] = c
  <2> SUFFICES ASSUME NEW w \in Way, door[c][w] # Nowhere PROVE exit[door[c][w]][Rev[w]] = c
    OBVIOUS
  <2>1. door[c][w] \in Street /\ Rev[w] \in Way /\ Rev[Rev[w]] = w
    BY <1>1, CabGiven
  <2> QED BY <2>1 DEF CabInv, Cabs!HalvesMeet
<1>7. broken' = broken
  BY <1>6 DEF Cabs!close_taxi_doors
<1> QED BY <1>3, <1>4, <1>5, <1>7 DEF Cabs!HalvesMeet

\* What a step does to the rest, when it keeps the doors' halves together.
CabRest ==
  /\ active' \in [Cab -> {"AWAIT_CMD", "REPLY_DEST", "AWAIT_YESNO", "REPLY_NOTOK", "REPLY_TOOBAD", "DRIVING"}]
  /\ spare1' \in [Cab -> 0 .. Most] /\ spare2' \in [Cab -> Street \cup {Nowhere}]
  /\ memory' \in [Cab -> SUBSET Rider]
  /\ in' \in [Rider -> Street \cup Cab \cup {Nowhere}]
  /\ \A c \in Cab : active'[c] # "AWAIT_CMD" => spare2'[c] \in Street
  /\ DOMAIN paid' = Rider /\ paid' = [p \in Rider |-> paid'[p]]

CabDoors ==
  /\ exit' \in [Street -> [Way -> Cab \cup {Nowhere}]]
  /\ door' \in [Cab -> [Way -> Street \cup {Nowhere}]]
  /\ Cabs!HalvesMeet'

Paying(p) ==
  paid[p] # Nowhere => /\ in[p] \in Cab /\ paid[p] = <<in[p], spare2[in[p]]>>
                       /\ active[in[p]] = "DRIVING" /\ p \in memory[in[p]]

LEMMA CabParts ==
  ASSUME CabRest, CabDoors, \A p \in Rider : Paying(p)'
  PROVE  CabInv'
<1>1. Cabs!TypeOK'
  BY DEF CabRest, CabDoors, Cabs!TypeOK
<1>2. Cabs!RidePaid'
  BY DEF Paying, Cabs!RidePaid
<1> QED BY <1>1, <1>2 DEF CabRest, CabDoors, CabInv, Paying

LEMMA CabHas ==
  ASSUME CabInv
  PROVE  /\ \A p \in Rider : Paying(p)
         /\ active \in [Cab -> {"AWAIT_CMD", "REPLY_DEST", "AWAIT_YESNO", "REPLY_NOTOK", "REPLY_TOOBAD", "DRIVING"}]
         /\ spare1 \in [Cab -> 0 .. Most] /\ spare2 \in [Cab -> Street \cup {Nowhere}]
         /\ memory \in [Cab -> SUBSET Rider]
         /\ in \in [Rider -> Street \cup Cab \cup {Nowhere}]
         /\ \A c \in Cab : active[c] # "AWAIT_CMD" => spare2[c] \in Street
         /\ DOMAIN paid = Rider /\ paid = [p \in Rider |-> paid[p]]
  BY DEF CabInv, Cabs!TypeOK, Cabs!RidePaid, Paying

LEMMA DoorsAlone ==
  ASSUME CabInv, exit' = exit, door' = door
  PROVE  CabDoors
  BY DEF CabInv, Cabs!TypeOK, Cabs!HalvesMeet, CabDoors

LEMMA CabRiders ==
  ASSUME CabInv, NEW p \in Rider, broken = "", broken' = "",
         \/ Cabs!do_hail(p) \/ Cabs!Leave(p) \/ Cabs!Arrive(p)
         \/ \E w \in Way : Cabs!Walk(p, w)
  PROVE  CabInv'
<1> USE CabHas
<1>1. CASE Cabs!do_hail(p)
  <2>1. PICK c \in Cab, w \in Cabs!Free(in[p]) : Cabs!open_taxi_door(in[p], w, c)
    BY <1>1 DEF Cabs!do_hail
  <2>2. in[p] \in Street /\ UNCHANGED <<active, spare1, spare2, memory, in, paid>>
    BY <1>1 DEF Cabs!do_hail, Cabs!driver
  <2>3. CabDoors
    BY <2>1, <2>2, DoorOpens DEF CabDoors
  <2>4. CabRest /\ \A q \in Rider : Paying(q)'
    BY <2>2 DEF CabRest, Paying
  <2> QED BY <2>3, <2>4, CabParts
<1>2. CASE Cabs!Leave(p)
  <2>1. UNCHANGED <<exit, door, active, spare1, spare2, memory>>
        /\ in' = [in EXCEPT ![p] = Nowhere] /\ paid' = [paid EXCEPT ![p] = Nowhere]
    BY <1>2 DEF Cabs!Leave, Cabs!roads, Cabs!driver
  <2>2. CabRest
    BY <2>1 DEF CabRest
  <2>3. ASSUME NEW q \in Rider PROVE Paying(q)'
    BY <2>1 DEF Paying
  <2> QED BY <2>1, <2>2, <2>3, CabParts, DoorsAlone
<1>3. CASE Cabs!Arrive(p)
  <2>1. PICK r \in Street : in' = [in EXCEPT ![p] = r]
    BY <1>3 DEF Cabs!Arrive
  <2>2. in[p] = Nowhere /\ UNCHANGED <<exit, door, active, spare1, spare2, memory, paid>>
    BY <1>3 DEF Cabs!Arrive, Cabs!roads, Cabs!driver
  <2>3. CabRest
    BY <2>1, <2>2 DEF CabRest
  <2>4. ASSUME NEW q \in Rider PROVE Paying(q)'
    BY <2>1, <2>2, CabGiven DEF Paying
  <2> QED BY <2>2, <2>3, <2>4, CabParts, DoorsAlone
<1>4. ASSUME NEW w \in Way, Cabs!Walk(p, w) PROVE CabInv'
  <2>1. CASE /\ in[p] \in Street /\ exit[in[p]][w] # Nowhere
             /\ in' = [in EXCEPT ![p] = exit[in[p]][w]]
             /\ UNCHANGED <<exit, door, active, spare1, spare2, memory, paid>>
    <3>1. exit[in[p]][w] \in Cab
      <4>1. exit \in [Street -> [Way -> Cab \cup {Nowhere}]]
        BY DEF CabInv, Cabs!TypeOK
      <4>2. exit[in[p]] \in [Way -> Cab \cup {Nowhere}]
        BY <4>1, <2>1
      <4> QED BY <4>2, <2>1
    <3>2. CabRest
      BY <2>1, <3>1 DEF CabRest
    <3>3. ASSUME NEW q \in Rider PROVE Paying(q)'
      BY <2>1, CabGiven DEF Paying
    <3> QED BY <2>1, <3>2, <3>3, CabParts, DoorsAlone
  <2>2. CASE /\ in[p] \in Cab
             /\ memory' = IF active[in[p]] = "DRIVING" THEN memory ELSE [memory EXCEPT ![in[p]] = @ \ {p}]
             /\ in' = IF door[in[p]][w] = Nowhere THEN in ELSE [in EXCEPT ![p] = door[in[p]][w]]
             /\ paid' = IF door[in[p]][w] = Nowhere THEN paid ELSE [paid EXCEPT ![p] = Nowhere]
             /\ UNCHANGED <<exit, door, active, spare1, spare2>>
    <3>1. door[in[p]][w] \in Street \cup {Nowhere}
      <4>1. door \in [Cab -> [Way -> Street \cup {Nowhere}]]
        BY DEF CabInv, Cabs!TypeOK
      <4>2. door[in[p]] \in [Way -> Street \cup {Nowhere}]
        BY <4>1, <2>2
      <4> QED BY <4>2
    <3>2. memory' \in [Cab -> SUBSET Rider]
      BY <2>2
    <3>3. CabRest
      BY <2>2, <3>1, <3>2 DEF CabRest
    <3>4. ASSUME NEW q \in Rider PROVE Paying(q)'
      <4>1. \A c \in Cab : active[c] = "DRIVING" => memory'[c] = memory[c]
        BY <2>2
      <4>2. CASE q # p \/ door[in[p]][w] = Nowhere
        <5>1. in'[q] = in[q] /\ paid'[q] = paid[q]
          BY <2>2, <4>2
        <5> QED BY <5>1, <4>1, <2>2 DEF Paying
      <4>3. CASE q = p /\ door[in[p]][w] # Nowhere
        <5>1. paid'[q] = Nowhere
          BY <2>2, <4>3
        <5> QED BY <5>1, <4>3, <2>2 DEF Paying
      <4> QED BY <4>2, <4>3
    <3> QED BY <2>2, <3>3, <3>4, CabParts, DoorsAlone
  <2> QED BY <1>4, <2>1, <2>2 DEF Cabs!Walk, Cabs!roads, Cabs!driver
<1> QED BY <1>1, <1>2, <1>3, <1>4

LEMMA CabSpeaks ==
  ASSUME CabInv, NEW p \in Rider, broken = "", broken' = "", Cabs!Speaks(p)
  PROVE  CabInv'
<1> USE CabHas
<1> DEFINE c == in[p]
\* Whoever has paid another driver is not touched, and nobody has paid one who is not driving.
<1>0. ASSUME c \in Cab, active[c] # "DRIVING", in' = in,
             \A q \in Rider : in[q] # c => paid'[q] = paid[q],
             \A b \in Cab : b # c => active'[b] = active[b] /\ spare2'[b] = spare2[b] /\ memory'[b] = memory[b],
             NEW q \in Rider, in[q] # c \/ paid'[q] = paid[q]
      PROVE  Paying(q)'
  BY <1>0 DEF Paying
<1>1. ASSUME NEW r \in Street, Cabs!SayDestination(p, r) PROVE CabInv'
  <2>1. PICK cost \in 1 .. Most : spare1' = [spare1 EXCEPT ![c] = cost]
    BY <1>1 DEF Cabs!SayDestination
  <2>2. /\ c \in Cab /\ active[c] = "AWAIT_CMD" /\ active' = [active EXCEPT ![c] = "REPLY_DEST"]
        /\ spare2' = [spare2 EXCEPT ![c] = r] /\ memory' = [memory EXCEPT ![c] = @ \cup {p}]
        /\ UNCHANGED <<exit, door, in, paid>>
    BY <1>1 DEF Cabs!SayDestination, Cabs!roads
  <2>3. cost \in 0 .. Most
    BY CabRange, Zenon
  <2>4. CabRest
    BY <2>1, <2>2, <2>3 DEF CabRest
  <2>5. ASSUME NEW q \in Rider PROVE Paying(q)'
    BY <2>2, <1>0
  <2> QED BY <2>2, <2>4, <2>5, CabParts, DoorsAlone
<1>2. CASE Cabs!SayNo(p)
  <2>1. /\ c \in Cab /\ active[c] = "AWAIT_YESNO" /\ active' = [active EXCEPT ![c] = "REPLY_TOOBAD"]
        /\ UNCHANGED <<exit, door, spare1, spare2, memory, in, paid>>
    BY <1>2 DEF Cabs!SayNo, Cabs!Answers, Cabs!roads
  <2>2. CabRest
    BY <2>1 DEF CabRest
  <2>3. ASSUME NEW q \in Rider PROVE Paying(q)'
    BY <2>1, <1>0
  <2> QED BY <2>1, <2>2, <2>3, CabParts, DoorsAlone
<1>3. CASE Cabs!SayYes(p)
  <2>1. /\ c \in Cab /\ active[c] = "AWAIT_YESNO" /\ p \in memory[c]
        /\ UNCHANGED <<spare1, spare2, memory, in>>
    BY <1>3 DEF Cabs!SayYes, Cabs!Answers
  <2>2. CASE active' = [active EXCEPT ![c] = "REPLY_NOTOK"] /\ UNCHANGED <<exit, door, paid>>
    <3>1. CabRest
      BY <2>1, <2>2 DEF CabRest
    <3>2. ASSUME NEW q \in Rider PROVE Paying(q)'
      BY <2>1, <2>2, <1>0
    <3> QED BY <2>2, <3>1, <3>2, CabParts, DoorsAlone
  <2>3. CASE /\ active' = [active EXCEPT ![c] = "DRIVING"]
             /\ paid' = [paid EXCEPT ![p] = <<c, spare2[c]>>]
             /\ Cabs!close_taxi_doors(c)
    <3>1. CabRest
      BY <2>1, <2>3 DEF CabRest
    <3>2. ASSUME NEW q \in Rider PROVE Paying(q)'
      <4>1. CASE q = p
        BY <4>1, <2>1, <2>3 DEF Paying
      <4>2. CASE q # p
        <5>1. paid'[q] = paid[q]
          BY <4>2, <2>3
        <5> QED BY <5>1, <2>1, <2>3 DEF Paying
      <4> QED BY <4>1, <4>2
    <3>3. CabDoors
      BY <2>1, <2>3, DoorsClose DEF CabDoors
    <3> QED BY <3>1, <3>2, <3>3, CabParts
  <2> QED BY <1>3, <2>2, <2>3 DEF Cabs!SayYes, Cabs!roads
<1> QED BY <1>1, <1>2, <1>3 DEF Cabs!Speaks

\* The driver's turn, and the empty cab.
LEMMA CabDrives ==
  ASSUME CabInv, NEW c \in Cab, broken = "", broken' = "",
         Cabs!taxi_leaves(c) \/ Cabs!taxi(c)
  PROVE  CabInv'
<1> USE CabHas
<1>1. CASE Cabs!taxi_leaves(c)
  <2>1. Cabs!close_taxi_doors(c) /\ UNCHANGED <<active, spare1, spare2, memory, in, paid>>
    BY <1>1 DEF Cabs!taxi_leaves, Cabs!driver
  <2>2. CabRest /\ \A q \in Rider : Paying(q)'
    BY <2>1 DEF CabRest, Paying
  <2>3. CabDoors
    BY <2>1, DoorsClose DEF CabDoors
  <2> QED BY <2>2, <2>3, CabParts
\* The driver of c has nobody on board who has paid.
<1>0. ASSUME \A q \in Rider : paid[q] # Nowhere => in[q] # c, in' = in, paid' = paid,
             \A b \in Cab : b # c => active'[b] = active[b] /\ spare2'[b] = spare2[b] /\ memory'[b] = memory[b]
      PROVE  \A q \in Rider : Paying(q)'
  BY <1>0 DEF Paying
<1>2. CASE in' = in /\ Cabs!Waits(c)
  <2>1. /\ \A q \in Rider : in[q] = c => q \notin memory[c]
        /\ active' = [active EXCEPT ![c] = "AWAIT_CMD"]
        /\ spare1' = [spare1 EXCEPT ![c] = 0] /\ spare2' = [spare2 EXCEPT ![c] = Nowhere]
        /\ UNCHANGED <<exit, door, memory, paid>>
    BY <1>2 DEF Cabs!Waits, Cabs!Known, Cabs!Aboard, Cabs!roads
  <2>2. CabRest
    BY <1>2, <2>1, CabRange DEF CabRest
  <2>3. \A q \in Rider : paid[q] # Nowhere => in[q] # c
    BY <2>1 DEF Paying
  <2>4. \A q \in Rider : Paying(q)'
    BY <1>2, <2>1, <2>3, <1>0
  <2> QED BY <2>1, <2>2, <2>4, CabParts, DoorsAlone
<1>3. CASE in' = in /\ Cabs!Asks(c)
  <2>1. /\ active[c] = "REPLY_DEST" /\ active' = [active EXCEPT ![c] = "AWAIT_YESNO"]
        /\ UNCHANGED <<exit, door, spare1, spare2, memory, paid>>
    BY <1>3 DEF Cabs!Asks, Cabs!roads
  <2>2. CabRest
    BY <1>3, <2>1 DEF CabRest
  <2>3. \A q \in Rider : Paying(q)'
    BY <1>3, <2>1 DEF Paying
  <2> QED BY <2>1, <2>2, <2>3, CabParts, DoorsAlone
<1>4. CASE in' = in /\ Cabs!Refuses(c)
  <2>1. PICK p \in Rider : memory' = [memory EXCEPT ![c] = @ \ {p}]
    BY <1>4 DEF Cabs!Refuses, Cabs!Known, Cabs!Aboard
  <2>2. /\ active[c] # "DRIVING" /\ active' = [active EXCEPT ![c] = "AWAIT_CMD"]
        /\ spare1' = [spare1 EXCEPT ![c] = 0] /\ spare2' = [spare2 EXCEPT ![c] = Nowhere]
        /\ UNCHANGED <<exit, door, paid>>
    BY <1>4 DEF Cabs!Refuses, Cabs!roads
  <2>3. CabRest
    BY <1>4, <2>1, <2>2, CabRange DEF CabRest
  <2>4. \A q \in Rider : Paying(q)'
    BY <1>4, <2>1, <2>2 DEF Paying
  <2> QED BY <2>2, <2>3, <2>4, CabParts, DoorsAlone
<1>5. CASE in' = in /\ Cabs!Drives(c)
  <2>1. /\ spare1[c] > 0 /\ spare1' = [spare1 EXCEPT ![c] = @ - 1]
        /\ UNCHANGED <<exit, door, active, spare2, memory, paid>>
    BY <1>5 DEF Cabs!Drives, Cabs!roads
  <2>2. spare1[c] - 1 \in 0 .. Most
    BY <2>1, CabRange
  <2>3. CabRest
    BY <1>5, <2>1, <2>2 DEF CabRest
  <2>4. \A q \in Rider : Paying(q)'
    BY <1>5, <2>1 DEF Paying
  <2> QED BY <2>1, <2>3, <2>4, CabParts, DoorsAlone
<1>6. CASE in' = in /\ Cabs!Stops(c)
  <2>1. PICK p \in Rider : memory' = [memory EXCEPT ![c] = @ \ {p}]
    BY <1>6 DEF Cabs!Stops, Cabs!Known, Cabs!Aboard
  <2>2. /\ active[c] = "DRIVING" /\ active' = [active EXCEPT ![c] = "AWAIT_CMD"]
        /\ spare2' = [spare2 EXCEPT ![c] = Nowhere] /\ spare1' = spare1
        /\ paid' = [q \in Rider |-> IF paid[q] = <<c, spare2[c]>> /\ in[q] = c THEN Nowhere ELSE paid[q]]
        /\ spare2[c] \in Street
    BY <1>6 DEF Cabs!Stops
  <2>3. PICK w \in Cabs!Free(spare2[c]) : Cabs!open_taxi_door(spare2[c], w, c)
    BY <1>6 DEF Cabs!Stops
  <2>4. CabDoors
    BY <2>2, <2>3, DoorOpens DEF CabDoors
  <2>5. CabRest
    BY <1>6, <2>1, <2>2 DEF CabRest
  <2>6. ASSUME NEW q \in Rider PROVE Paying(q)'
    <3>1. CASE in[q] = c
      <4>1. paid'[q] = Nowhere
        BY <2>2, <3>1 DEF Paying
      <4> QED BY <4>1 DEF Paying
    <3>2. CASE in[q] # c
      <4>1. paid'[q] = paid[q]
        BY <2>2, <3>2
      <4> QED BY <1>6, <3>2, <4>1, <2>1, <2>2 DEF Paying
    <3> QED BY <3>1, <3>2
  <2> QED BY <2>4, <2>5, <2>6, CabParts
<1> QED BY <1>1, <1>2, <1>3, <1>4, <1>5, <1>6 DEF Cabs!taxi

\* What keeps a cab at one door: none is made but by hailing and stopping.
DoorsFew ==
  /\ broken' = "" => Cabs!OneDoor'
  /\ broken' # "null"
  /\ broken' = "lost" => hailed' # {}

LEMMA FewAlone ==
  ASSUME Cabs!OneDoor, broken = "", door' = door, hailed' = hailed, broken' = broken,
         \A b \in Cab : active'[b] = "DRIVING" => active[b] = "DRIVING"
  PROVE  DoorsFew
  BY DEF DoorsFew, Cabs!OneDoor, Cabs!Doorless

LEMMA FewOpens ==
  ASSUME CabInv, Cabs!OneDoor, broken = "", NEW c \in Cab, NEW r \in Street, NEW w \in Cabs!Free(r),
         Cabs!open_taxi_door(r, w, c), hailed' \in {hailed, hailed \cup {c}},
         c \in hailed' \/ (Cabs!Doorless(c) /\ active'[c] # "DRIVING"), Cabs!Doorless(c) \/ hailed' # {},
         \A b \in Cab : b # c => active'[b] = active[b]
  PROVE  DoorsFew
<1>1. w \in Way /\ Rev[w] \in Way
  BY CabGiven DEF Cabs!Free
<1>2. \A b \in Cab, v \in Way : door'[b][v] = IF b = c /\ v = Rev[w] THEN r ELSE door[b][v]
  BY <1>1 DEF Cabs!open_taxi_door, CabInv, Cabs!TypeOK
<1>3. broken' \in {"", "lost"} /\ (broken' = "lost" => hailed' # {})
  BY <1>1 DEF Cabs!open_taxi_door, Cabs!Doorless
<1>4. ASSUME NEW b \in Cab \ hailed'
      PROVE  /\ \A v, x \in Way : door'[b][v] # Nowhere /\ door'[b][x] # Nowhere => v = x
             /\ active'[b] = "DRIVING" => \A v \in Way : door'[b][v] = Nowhere
  <2>1. CASE b = c
    <3>1. active'[b] # "DRIVING" /\ \A v \in Way : door[b][v] = Nowhere
      BY <2>1 DEF Cabs!Doorless
    <3>2. \A v \in Way : door'[b][v] # Nowhere => v = Rev[w]
      BY <1>2, <3>1
    <3> QED BY <3>1, <3>2
  <2>2. CASE b # c
    <3>1. b \in Cab \ hailed /\ active'[b] = active[b] /\ \A v \in Way : door'[b][v] = door[b][v]
      BY <1>2, <2>2
    <3> QED BY <3>1 DEF Cabs!OneDoor, Cabs!Doorless
  <2> QED BY <2>1, <2>2
<1> QED BY <1>3, <1>4 DEF DoorsFew, Cabs!OneDoor, Cabs!Doorless

LEMMA FewCloses ==
  ASSUME CabInv, Cabs!OneDoor, broken = "", NEW c \in Cab, Cabs!close_taxi_doors(c),
         \A b \in Cab : b # c => active'[b] = active[b]
  PROVE  DoorsFew
<1>1. broken' = broken
  BY DoorsClose
<1>2. hailed' = hailed \ {c} /\ \A b \in Cab, w \in Way : door'[b][w] = IF b = c THEN Nowhere ELSE door[b][w]
  BY DEF Cabs!close_taxi_doors, CabInv, Cabs!TypeOK
<1>3. ASSUME NEW b \in Cab \ hailed'
      PROVE  /\ \A v, x \in Way : door'[b][v] # Nowhere /\ door'[b][x] # Nowhere => v = x
             /\ active'[b] = "DRIVING" => \A v \in Way : door'[b][v] = Nowhere
  <2>1. CASE b = c
    BY <1>2, <2>1
  <2>2. CASE b # c
    <3>1. b \in Cab \ hailed /\ active'[b] = active[b] /\ \A v \in Way : door'[b][v] = door[b][v]
      BY <1>2, <2>2
    <3> QED BY <3>1 DEF Cabs!OneDoor, Cabs!Doorless
  <2> QED BY <2>1, <2>2
<1> QED BY <1>1, <1>3 DEF DoorsFew, Cabs!OneDoor, Cabs!Doorless

LEMMA CabFew ==
  ASSUME CabInv, Cabs!OneDoor, broken = "", Cabs!Next
  PROVE  DoorsFew
<1> USE CabHas
<1>1. ASSUME NEW p \in Rider, Cabs!do_hail(p) PROVE DoorsFew
  <2>1. PICK c \in Cab : /\ Cabs!Doorless(c)
                         /\ \E w \in Cabs!Free(in[p]) : Cabs!open_taxi_door(in[p], w, c)
                         /\ hailed' = IF active[c] = "DRIVING" THEN hailed \cup {c} ELSE hailed
    BY <1>1 DEF Cabs!do_hail
  <2>2. in[p] \in Street /\ active' = active
    BY <1>1 DEF Cabs!do_hail, Cabs!driver
  <2>3. PICK w \in Cabs!Free(in[p]) : Cabs!open_taxi_door(in[p], w, c)
    BY <2>1
  <2> QED BY <2>1, <2>2, <2>3, FewOpens
<1>2. ASSUME NEW p \in Rider, Cabs!Leave(p) \/ Cabs!Arrive(p) \/ \E w \in Way : Cabs!Walk(p, w)
      PROVE  DoorsFew
  <2>1. UNCHANGED <<door, hailed, active, broken>>
    BY <1>2 DEF Cabs!Leave, Cabs!Arrive, Cabs!Walk, Cabs!roads, Cabs!driver
  <2> QED BY <2>1, FewAlone
<1>3. ASSUME NEW p \in Rider, Cabs!Speaks(p) PROVE DoorsFew
  <2>1. CASE Cabs!SayNo(p) \/ \E r \in Street : Cabs!SayDestination(p, r)
    <3>1. UNCHANGED <<door, hailed, broken>>
      BY <2>1 DEF Cabs!SayNo, Cabs!SayDestination, Cabs!roads
    <3>2. \E v \in {"REPLY_TOOBAD", "REPLY_DEST"} : active' = [active EXCEPT ![in[p]] = v]
      BY <2>1 DEF Cabs!SayNo, Cabs!SayDestination
    <3>3. \A b \in Cab : active'[b] = "DRIVING" => active[b] = "DRIVING"
      BY <3>2
    <3> QED BY <3>1, <3>3, FewAlone
  <2>2. CASE Cabs!SayYes(p)
    <3>1. in[p] \in Cab
      BY <2>2 DEF Cabs!SayYes, Cabs!Answers
    <3>2. CASE active' = [active EXCEPT ![in[p]] = "REPLY_NOTOK"] /\ UNCHANGED <<door, hailed, broken>>
      <4>1. \A b \in Cab : active'[b] = "DRIVING" => active[b] = "DRIVING"
        BY <3>2
      <4> QED BY <3>2, <4>1, FewAlone
    <3>3. CASE active' = [active EXCEPT ![in[p]] = "DRIVING"] /\ Cabs!close_taxi_doors(in[p])
      BY <3>1, <3>3, FewCloses
    <3> QED BY <2>2, <3>2, <3>3 DEF Cabs!SayYes, Cabs!roads
  <2> QED BY <1>3, <2>1, <2>2 DEF Cabs!Speaks
<1>4. ASSUME NEW c \in Cab, Cabs!taxi_leaves(c) PROVE DoorsFew
  BY <1>4, FewCloses DEF Cabs!taxi_leaves, Cabs!driver
<1>5. ASSUME NEW c \in Cab, Cabs!Waits(c) \/ Cabs!Asks(c) \/ Cabs!Refuses(c) \/ Cabs!Drives(c)
      PROVE  DoorsFew
  <2>1. UNCHANGED <<door, hailed, broken>>
    BY <1>5 DEF Cabs!Waits, Cabs!Asks, Cabs!Refuses, Cabs!Drives, Cabs!roads
  <2>2. active' = active \/ \E v \in {"AWAIT_CMD", "AWAIT_YESNO"} : active' = [active EXCEPT ![c] = v]
    BY <1>5 DEF Cabs!Waits, Cabs!Asks, Cabs!Refuses, Cabs!Drives
  <2>3. \A b \in Cab : active'[b] = "DRIVING" => active[b] = "DRIVING"
    BY <2>2
  <2> QED BY <2>1, <2>3, FewAlone
<1>6. ASSUME NEW c \in Cab, Cabs!Stops(c) PROVE DoorsFew
  <2>1. active[c] = "DRIVING" /\ active' = [active EXCEPT ![c] = "AWAIT_CMD"] /\ spare2[c] \in Street
    BY <1>6 DEF Cabs!Stops
  <2>2. CASE broken' = "hangs"
    BY <2>2 DEF DoorsFew
  <2>3. CASE (\E w \in Cabs!Free(spare2[c]) : Cabs!open_taxi_door(spare2[c], w, c)) /\ hailed' = hailed
    <3>1. c \notin hailed => Cabs!Doorless(c)
      BY <2>1 DEF Cabs!OneDoor
    <3>2. PICK w \in Cabs!Free(spare2[c]) : Cabs!open_taxi_door(spare2[c], w, c)
      BY <2>3
    <3>3. active'[c] # "DRIVING" /\ \A b \in Cab : b # c => active'[b] = active[b]
      BY <2>1
    <3> QED BY <2>1, <2>3, <3>1, <3>2, <3>3, FewOpens
  <2> QED BY <1>6, <2>2, <2>3 DEF Cabs!Stops
<1> QED BY <1>1, <1>2, <1>3, <1>4, <1>5, <1>6 DEF Cabs!Next, Cabs!taxi

LEMMA CabInit == Cabs!Init => CabInv /\ Cabs!OneDoor
<1> SUFFICES ASSUME Cabs!Init PROVE CabInv /\ Cabs!OneDoor
  OBVIOUS
<1>1. Cabs!TypeOK
  BY CabRange DEF Cabs!Init, Cabs!TypeOK
<1>2. Cabs!HalvesMeet
  BY CabGiven DEF Cabs!Init, Cabs!HalvesMeet
<1>3. Cabs!RidePaid /\ \A p \in Rider : paid[p] = Nowhere
  BY DEF Cabs!Init, Cabs!RidePaid
<1>4. Cabs!OneDoor
  BY DEF Cabs!Init, Cabs!OneDoor, Cabs!Doorless
<1> QED BY <1>1, <1>2, <1>3, <1>4 DEF Cabs!Init, CabInv

LEMMA CabAlone ==
  ASSUME CabsInv, UNCHANGED cabVars
  PROVE  CabsInv'
<1>1. UNCHANGED <<exit, door, active, spare1, spare2, memory, in, paid, hailed, broken>>
  BY DEF cabVars
<1>2. ASSUME CabInv PROVE CabInv'
  <2>1. CabRest /\ \A q \in Rider : Paying(q)'
    BY <1>1, <1>2, CabHas DEF CabRest, Paying
  <2> QED BY <1>1, <1>2, <2>1, CabParts, DoorsAlone
<1>3. Cabs!OneDoor => Cabs!OneDoor'
  BY <1>1 DEF Cabs!OneDoor, Cabs!Doorless
<1> QED BY <1>1, <1>2, <1>3 DEF CabsInv

LEMMA CabsNext ==
  ASSUME CabsInv, Cabs!Next
  PROVE  CabsInv'
<1>1. broken = "" /\ CabInv /\ Cabs!OneDoor
  BY DEF Cabs!Next, CabsInv
<1>2. DoorsFew
  BY <1>1, CabFew
<1>3. ASSUME broken' = "" PROVE CabInv'
  BY <1>1, <1>3, CabRiders, CabSpeaks, CabDrives DEF Cabs!Next
<1> QED BY <1>2, <1>3 DEF CabsInv, DoorsFew

-----------------------------------------------------------------------------
\* The doors of an elevator of any height are pairs of exits, open only where it stands. The
\* doors of any number of cabs are pairs of exits, one for each cab at most and none while its
\* driver drives, but for cabs hailed empty while their drivers drove; nothing is closed by
\* half, and whoever has paid is driven where he paid for. After a door was made over another
\* one, or a driver found no free direction, nothing more is said (process_elevator, taxi).
THEOREM DoorsAreSound == MCSpec => []DoorsSound
<1> DEFINE I == LiftInv /\ CabsInv
           Steps == LookupStep \/ LoopStep \/ LiftStep \/ CabStep
<1>1. MCInit => I
  BY LiftInit, CabInit DEF MCInit, CabsInv, Cabs!Init
<1>2. I /\ [Steps]_allVars => I'
  <2> SUFFICES ASSUME I, [Steps]_allVars PROVE I'
    OBVIOUS
  <2>1. ASSUME UNCHANGED liftVars PROVE LiftInv'
    BY <2>1 DEF liftVars, LiftInv, Lift!DoorsTrue, Lift!TypeOK
  <2>2. ASSUME UNCHANGED cabVars PROVE CabsInv'
    BY <2>2, CabAlone
  <2>3. CASE LookupStep
    BY <2>1, <2>2, <2>3 DEF LookupStep
  <2>4. CASE LoopStep
    BY <2>1, <2>2, <2>4 DEF LoopStep
  <2>5. CASE LiftStep
    BY <2>2, <2>5, LiftActs, LiftProcess DEF LiftStep, Lift!Next
  <2>6. CASE CabStep
    BY <2>1, <2>6, CabsNext DEF CabStep
  <2>7. CASE UNCHANGED allVars
    BY <2>1, <2>2, <2>7 DEF allVars
  <2> QED BY <2>3, <2>4, <2>5, <2>6, <2>7
<1>3. I => DoorsSound
  BY DEF LiftInv, CabsInv, CabInv, DoorsSound, Cabs!CabsSound
<1> QED BY <1>1, <1>2, <1>3, PTL DEF MCSpec
=============================================================================
