---------------------------- MODULE TableSearch ----------------------------
(***************************************************************************)
(* Every prototype table of the game (rooms, mobiles, objects, ...), the   *)
(* table of socials and the player index are arrays sorted by virtual      *)
(* number, and every reference by number goes through one of a dozen       *)
(* copies of the same binary search.  The copies differ in four ways:      *)
(*                                                                         *)
(*   "half"    real_mobile, real_shop, real_zone, real_vehicle, real_host, *)
(*             real_ic, real_object: the middle is (bot + top) / 2;        *)
(*   "shift"   real_room, find_action: it is (bot + top) >> 1;             *)
(*   "quest"   real_quest: as "shift", from a top that is the number of    *)
(*             quests and not the last slot;                               *)
(*   "player"  PCIndex::get_idx_by_id: the bounds are compared before the  *)
(*             slot is read, and the table may be empty.                   *)
(***************************************************************************)
EXTENDS Integers

CONSTANTS
  Number,    (* the virtual numbers a table may hold                          *)
  Sought,    (* the numbers looked for                                        *)
  MaxLen     (* bound on the length of a table                                *)

ASSUME NumberAssumption == Number \subseteq Int /\ Sought \subseteq Int
ASSUME LenAssumption == MaxLen \in Nat \ {0}

VARIABLES
  kind,      (* which of the four loops                                       *)
  n,         (* entries in the table                                          *)
  tab,       (* the virtual number in each slot                               *)
  virt,      (* the number looked for                                         *)
  bot, top, mid,
  pc,        (* "loop", at the head of the loop, or "done"                    *)
  result     (* the slot returned, or -1                                      *)

vars == <<kind, n, tab, virt, bot, top, mid, pc, result>>

Kinds == {"half", "shift", "quest", "player"}

-----------------------------------------------------------------------------
(* The division of C rounds towards zero, the shift towards minus infinity. *)
Halve(i) == IF i < 0 THEN -((-i) \div 2) ELSE i \div 2
Shift(i) == i \div 2

Middle(k, b, t) == IF k \in {"shift", "quest"} THEN Shift(b + t) ELSE Halve(b + t)

(* The slots that exist: quest_table has spare slots behind the last quest, *)
(* cleared when it was allocated.                                           *)
Allocated == IF kind = "quest" THEN 0 .. n ELSE 0 .. (n - 1)

(* What reading a slot yields.  Before or behind the table it is whatever   *)
(* lies in memory there.                                                    *)
Read(i) == IF i \in 0 .. (n - 1) THEN {tab[i]}
           ELSE IF i \in Allocated THEN {0}
           ELSE Number \cup Sought

Sorted(t, len) == \A i, j \in 0 .. (len - 1) : i < j => t[i] < t[j]

-----------------------------------------------------------------------------
FirstTop(k, len) == IF k = "quest" THEN len ELSE len - 1

(* The quest editor and the johnsons ask for positive numbers only; number 0 *)
(* would be found in the cleared slot.                                        *)
Init ==
  /\ kind \in Kinds
  /\ n \in (IF kind = "player" THEN 0 ELSE 1) .. MaxLen
  /\ tab \in [0 .. (n - 1) -> Number]
  /\ Sorted(tab, n)
  /\ virt \in Sought
  /\ kind = "quest" => virt > 0
  /\ bot = 0
  /\ top = FirstTop(kind, n)
  /\ mid = Middle(kind, 0, top)
  /\ pc = "loop"
  /\ result = -1

Return(i) == pc' = "done" /\ result' = i /\ UNCHANGED <<bot, top, mid>>

(* A slip: one slot more is dropped. *)
Narrow_SkipsOne(v) ==
  /\ top' = IF v > virt THEN mid - 2 ELSE top
  /\ bot' = IF v > virt THEN bot ELSE mid + 1
  /\ mid' = Middle(kind, bot', top')
  /\ UNCHANGED <<pc, result>>

(* top = mid - 1 or bot = mid + 1, and the middle of what is left. *)
Narrow(v) ==
  /\ top' = IF v > virt THEN mid - 1 ELSE top
  /\ bot' = IF v > virt THEN bot ELSE mid + 1
  /\ mid' = Middle(kind, bot', top')
  /\ UNCHANGED <<pc, result>>

(* for (;;): look, then give up when the bounds have met. *)
Probe(v) ==
  \/ v = virt /\ Return(mid)
  \/ v # virt /\ bot >= top /\ Return(-1)
  \/ v # virt /\ bot < top /\ Narrow(v)

(* One turn of the loop of the prototype tables. *)
Search ==
  /\ kind # "player"
  /\ \E v \in Read(mid) : Probe(v)

(* while (low <= high): give up when the bounds have crossed, then look. *)
Lookup(v) ==
  \/ v = virt /\ Return(mid)
  \/ v # virt /\ Narrow(v)

(* The condition of the while; the other loops have none. *)
Looks == kind = "player" => bot <= top

PlayerSearch ==
  /\ kind = "player"
  /\ \/ ~Looks /\ Return(-1)
     \/ Looks /\ \E v \in Read(mid) : Lookup(v)

Next == pc = "loop" /\ (Search \/ PlayerSearch) /\ UNCHANGED <<kind, n, tab, virt>>

(* A lookup is one call: the thread runs it to its end. *)
Spec == Init /\ [][Next]_vars /\ WF_vars(Next)

-----------------------------------------------------------------------------
(* One type invariant for the loop's variables. *)
TypeOK ==
  /\ kind \in Kinds
  /\ n \in 0 .. MaxLen
  /\ tab \in [0 .. (n - 1) -> Number]
  /\ virt \in Sought
  /\ bot \in 0 .. (n + 1)
  /\ top \in -1 .. n
  /\ mid \in -1 .. n
  /\ pc \in {"loop", "done"}
  /\ result \in -1 .. (n - 1)

(* What is still possible: everything before bot is too small, everything   *)
(* behind top too big.                                                      *)
Narrowed ==
  /\ \A i \in 0 .. (n - 1) : i < bot => tab[i] < virt
  /\ \A i \in 0 .. (n - 1) : i > top => tab[i] > virt

(* Every lookup by number (real_room ... get_idx_by_id) returns the slot    *)
(* that holds the number, and -1 when no slot does.                         *)
Correct ==
  pc = "done" =>
    IF \E i \in 0 .. (n - 1) : tab[i] = virt
    THEN result \in 0 .. (n - 1) /\ tab[result] = virt
    ELSE result = -1

(* A slot that does not exist is read in one case: the loops that shift     *)
(* (real_room, find_action, real_quest) read the one before the first when  *)
(* everything in the table has turned out greater than the number; Correct  *)
(* shows that whatever lies there does no harm, the number itself included. *)
InBounds ==
  pc = "loop" /\ Looks /\ mid \notin Allocated =>
    /\ kind \in {"shift", "quest"} /\ mid = -1
    /\ \A i \in 0 .. (n - 1) : virt < tab[i]

(* The right slot is found, whatever lies around the table, and nothing     *)
(* around it is looked at but by the loops that shift, as InBounds says.    *)
LookupSound == Correct /\ InBounds

(* A lookup returns: the server is one thread, and a lookup that does not   *)
(* end stops the game.                                                      *)
Terminates == <>(pc = "done")
=============================================================================
