----------------------------- MODULE Belongings -----------------------------
(***************************************************************************)
(* What lies in a house, in a storage room or in a vehicle, and what a     *)
(* player carries, is written to a file as a list of things, each with the *)
(* depth at which it was found, and is built again from that list when the *)
(* game boots or the player logs in.  Four writers and five readers are    *)
(* copies of the same two loops (house.cpp, limits.cpp, newdb.cpp, db.cpp);*)
(* they differ in when they run.                                           *)
(***************************************************************************)
EXTENDS Integers, FiniteSets, SequencesExt

CONSTANTS
  Obj,        \* things, each of a kind of its own
  Containers, \* those that hold others
  Lapsing,    \* sets of things whose prototypes may be gone at a boot
  Scenes,     \* what holds them, which of them there are, and which of those
              \* are ITEM_NORENT: never written
  Orders,     \* orders in which the lists may be, by the rank of each thing
  None

HolderKind == {"house", "storage", "last", "veh", "inv"}

BelongingsAssumption ==
  /\ IsFiniteSet(Obj) /\ Containers \subseteq Obj
  /\ Lapsing \subseteq SUBSET Obj /\ {} \in Lapsing
  /\ Scenes \subseteq [kind: HolderKind, things: SUBSET Obj, norent: SUBSET Obj] /\ None \notin Obj
  /\ Orders # {} /\ Orders \subseteq [Obj -> Nat]
  /\ \A o \in Orders, x, y \in Obj : o[x] = o[y] => x = y

VARIABLES
  kind,     \* a leased room, a storage room, the storage room with the highest
            \* number, a vehicle, a player
  things,   \* the things there are in this scene
  norent,   \* those of them that are never written
  tree,     \* in_obj of what is inside something; "floor" of what lies in the
            \* holder, "hands" of what is on its way, "none" of what does not exist
  file,     \* the file of the holder, None when there is none
  owned,    \* the room is leased; the vehicle is whole and has an owner
  flagged,  \* ROOM_HOUSE_CRASH
  up,       \* the game runs
  stuck,    \* the boot followed a NULL pointer
  upset     \* history: what had held things was not there when they were read

stowVars == <<kind, things, norent, tree, file, owned, flagged, up, stuck, upset>>

Place == Obj \cup {"floor", "hands", "none"}
Empty == [x \in Obj |-> "none"]

BelongingsType ==
  /\ [kind |-> kind, things |-> things, norent |-> norent] \in Scenes /\ tree \in [Obj -> Place]
  /\ file = None \/ file \in Seq([obj: Obj, inside: Nat])
  /\ {owned, flagged, up, stuck, upset} \subseteq BOOLEAN

Init ==
  /\ \E s \in Scenes : kind = s.kind /\ norent = s.norent /\ things = s.things
  /\ tree = Empty /\ file = None
  /\ owned = (kind = "veh") /\ flagged = FALSE
  /\ up = TRUE /\ stuck = FALSE /\ upset = FALSE

-----------------------------------------------------------------------------
(***************************************************************************)
(* The writer.  The list of what is in a place is in some order.           *)
(***************************************************************************)
Contents(t, p) == {x \in Obj : t[x] = p}
InObj(t, x)    == IF t[x] \in Obj THEN t[x] ELSE None

Least(S, o) == IF S = {} THEN None ELSE CHOOSE x \in S : \A y \in S : o[x] <= o[y]
NextContent(t, o, x) == Least({y \in Contents(t, t[x]) : o[y] > o[x]}, o)

\* From the last thing in a container out to the first container that has
\* something beside it.
\* Mutant: the depth is forgotten on the way out.
Climb_Deep(t, o, s) ==
  LET out[i \in 0 .. Cardinality(Obj)] ==
        IF i = 0 THEN s
        ELSE LET p == out[i - 1]
             IN  IF p.at # None /\ NextContent(t, o, p.at) = None /\ p.level >= 0
                 THEN [p EXCEPT !.at = InObj(t, @)] ELSE p
  IN  out[Cardinality(Obj)]
Climb(t, o, s) ==
  LET out[i \in 0 .. Cardinality(Obj)] ==
        IF i = 0 THEN s
        ELSE LET p == out[i - 1]
             IN  IF p.at # None /\ NextContent(t, o, p.at) = None /\ p.level >= 0
                 THEN [p EXCEPT !.at = InObj(t, @), !.level = @ - 1] ELSE p
  IN  out[Cardinality(Obj)]

\* One round of the writer: s.at is written unless it may not be, and the next
\* is what it holds, or else what lies beside it or further out.
Visit(t, o, s) ==
  LET x == s.at
      w == IF x \in norent THEN s
           ELSE [s EXCEPT !.list = Append(@, [obj |-> x, inside |-> s.level])]
      c == IF NextContent(t, o, x) = None /\ InObj(t, x) # None THEN Climb(t, o, w) ELSE w
  IN  IF x \notin norent /\ Contents(t, x) # {}
      THEN [w EXCEPT !.at = Least(Contents(t, x), o), !.level = @ + 1]
      ELSE [c EXCEPT !.at = IF @ = None THEN None ELSE NextContent(t, o, @)]

Listing(t, o) ==
  LET walk[i \in 0 .. Cardinality(Obj)] ==
        IF i = 0 THEN [at |-> Least(Contents(t, "floor"), o), level |-> 0, list |-> <<>>]
        ELSE LET s == walk[i - 1] IN IF s.at = None THEN s ELSE Visit(t, o, s)
  IN  walk[Cardinality(Obj)].list

\* The order does not matter for what follows.
Written == Listing(tree, CHOOSE o \in Orders : TRUE)

(***************************************************************************)
(* The reader.  last_obj and last_in are the thing read before and its     *)
(* depth; what has no prototype any more is passed over.                   *)
(***************************************************************************)
Outwards(t, x, n) ==
  LET out[i \in 0 .. n] ==
        IF i = 0 THEN x
        ELSE LET y == out[i - 1] IN IF y = None THEN None ELSE InObj(t, y)
  IN  out[n]

PutBack(s, e) ==
  LET steps == IF e.inside > s.last_in THEN 0 ELSE s.last_in - e.inside + 1
      into  == IF e.inside = 0 THEN "floor" ELSE Outwards(s.tree, s.last_obj, steps)
  IN  IF into = None THEN [s EXCEPT !.stuck = TRUE]
      ELSE [s EXCEPT !.tree[e.obj] = into, !.last_obj = e.obj, !.last_in = e.inside]

Rebuilt(f, gone) ==
  FoldLeft(LAMBDA s, e : IF s.stuck \/ e.obj \in gone THEN s ELSE PutBack(s, e),
           [tree |-> Empty, last_obj |-> None, last_in |-> 0, stuck |-> FALSE], f)

\* What of the list held something, by the depth of what follows it.
Holding(f) == {f[i].obj : i \in {j \in 1 .. Len(f) - 1 : f[j + 1].inside > f[j].inside}}

-----------------------------------------------------------------------------
(***************************************************************************)
(* Moving things.  obj_to_room and obj_from_room mark a leased room for    *)
(* the next save; obj_to_obj and obj_from_obj do when the container lies   *)
(* in the room itself.                                                     *)
(***************************************************************************)
Runs == up /\ ~stuck

\* Bound of the model: one thing, with all that it holds, is on its way at a time.
Free == \A x \in Obj : tree[x] # "hands"

Marked == flagged \/ (kind = "house" /\ owned)

Move(x, p, mark) ==
  /\ tree' = [tree EXCEPT ![x] = p] /\ flagged' = mark
  /\ UNCHANGED <<kind, things, norent, file, owned, up, stuck, upset>>

NewThing(x) == Runs /\ Free /\ x \in things /\ tree[x] = "none" /\ Move(x, "hands", flagged)
Drop(x)     == Runs /\ tree[x] = "hands" /\ Move(x, "floor", Marked)
Take(x)     == Runs /\ Free /\ tree[x] = "floor" /\ Move(x, "hands", Marked)

PutIn(x, y) ==
  /\ Runs /\ tree[x] = "hands" /\ y \in Containers /\ tree[y] = "floor"
  /\ Move(x, y, Marked)

TakeOut(x) ==
  /\ Runs /\ Free /\ tree[x] \in Obj /\ tree[tree[x]] = "floor"
  /\ Move(x, "hands", Marked)

\* extract_obj of something that holds nothing (a corpse that decays), also
\* inside a container that is inside another.
Perish(x) ==
  /\ Runs /\ tree[x] # "none" /\ Contents(tree, x) = {}
  /\ Move(x, "none", IF tree[x] = "floor" \/ (tree[x] \in Obj /\ tree[tree[x]] = "floor")
                     THEN Marked ELSE flagged)

-----------------------------------------------------------------------------
(***************************************************************************)
(* When the holders are saved.                                             *)
(***************************************************************************)
Save ==
  /\ Runs /\ file' = Written /\ flagged' = FALSE /\ upset' = FALSE
  /\ UNCHANGED <<kind, things, norent, tree, up, stuck>>

\* House_save_all: rooms that are leased and marked, and every storage room.
SaveHouse   == kind = "house" /\ owned /\ flagged /\ Save /\ UNCHANGED owned
SaveStorage == kind \in {"storage", "last"} /\ Save /\ UNCHANGED owned

\* The vehicles in point_update: one that is wrecked, or whose owner has been
\* deleted, is not written, and belongs to nobody unless it comes after the last
\* that is.
SaveVeh ==
  /\ kind = "veh"
  /\ \/ owned /\ Save /\ UNCHANGED owned
     \/ /\ Runs /\ file' = None /\ owned' \in {owned, FALSE}
        /\ UNCHANGED <<kind, things, norent, tree, flagged, up, stuck, upset>>

\* save_char: [WORN], one list for every position, and [INV].
SaveChar == kind = "inv" /\ Save /\ UNCHANGED owned

\* lease in landlord_spec: House_crashsave of whatever lies in the room.
Lease == kind = "house" /\ ~owned /\ Save /\ owned' = TRUE

\* leave in landlord_spec and hcontrol destroy: the file is deleted.
Leave ==
  /\ Runs /\ kind = "house" /\ owned
  /\ owned' = FALSE /\ file' = None /\ flagged' \in {flagged, FALSE}
  /\ UNCHANGED <<kind, things, norent, tree, up, stuck, upset>>

Crash ==
  /\ Runs /\ up' = FALSE /\ tree' = Empty
  /\ UNCHANGED <<kind, things, norent, file, owned, flagged, stuck, upset>>

-----------------------------------------------------------------------------
(***************************************************************************)
(* Boot and login.                                                         *)
(***************************************************************************)
Read(gone) ==
  LET r == IF file = None THEN [tree |-> Empty, stuck |-> FALSE] ELSE Rebuilt(file, gone)
  IN  /\ tree' = r.tree /\ stuck' = r.stuck
      /\ upset' = (upset \/ (file # None /\ Holding(file) \cap gone # {}))

\* House_boot and House_load: a lease that has ended is forgotten with its
\* file.  The room may be marked already, when its flags were saved with it.
BootHouse(gone) ==
  /\ kind = "house" /\ flagged' \in BOOLEAN
  /\ \/ owned /\ Read(gone) /\ UNCHANGED <<owned, file>>
     \/ /\ owned' = FALSE /\ file' = None /\ tree' = Empty
        /\ UNCHANGED <<stuck, upset>>

\* load_consist looks into every room but the last.
BootStorage(gone) ==
  /\ UNCHANGED <<owned, file, flagged>>
  /\ \/ kind = "storage" /\ Read(gone)
     \/ kind = "last" /\ UNCHANGED <<tree, stuck, upset>>

\* load_saved_veh: not when the owner has been deleted meanwhile.
BootVeh(gone) ==
  /\ kind = "veh" /\ UNCHANGED <<file, flagged>>
  /\ \/ file # None /\ Read(gone) /\ owned' = TRUE
     \/ owned' = FALSE /\ UNCHANGED <<tree, stuck, upset>>

\* load_char: [WORN] and [INV].
LoadChar(gone) == kind = "inv" /\ Read(gone) /\ UNCHANGED <<owned, file, flagged>>

Boot ==
  /\ ~up /\ up' = TRUE /\ UNCHANGED <<kind, things, norent>>
  /\ \E gone \in Lapsing :
       BootHouse(gone) \/ BootStorage(gone) \/ BootVeh(gone) \/ LoadChar(gone)

Handle(x) ==
  \/ NewThing(x) \/ Drop(x) \/ Take(x) \/ TakeOut(x) \/ Perish(x)
  \/ \E y \in Obj \ {x} : PutIn(x, y)

Next ==
  \/ \E x \in Obj : Handle(x)
  \/ SaveHouse \/ SaveStorage \/ SaveVeh \/ SaveChar \/ Lease \/ Leave
  \/ Crash \/ Boot

-----------------------------------------------------------------------------
(***************************************************************************)
(* What must hold.                                                         *)
(***************************************************************************)

\* What is written: what lies in the holder and all that is inside it, but for
\* what may not be rented and what that holds.
Kept(t) ==
  LET kept[i \in 0 .. Cardinality(Obj)] ==
        IF i = 0 THEN Contents(t, "floor") \ norent
        ELSE LET k == kept[i - 1] IN k \cup {x \in Obj \ norent : t[x] \in k}
      all == kept[Cardinality(Obj)]
  IN  [x \in Obj |-> IF x \in all THEN t[x] ELSE "none"]

\* Whatever is inside whatever, and in whichever order the lists are, the
\* reader builds from the writer's list what the writer found: the depths are
\* enough (House_save, save_char, House_load, load_char and their copies).
RoundTrip ==
  up => LET kept == Kept(tree)
        IN  \A o \in Orders : Rebuilt(Listing(tree, o), {}).tree = kept

\* A leased room that is not marked for the next save would come back as it is:
\* everything in it is in its file, in the same place.
HouseCurrent ==
  Runs /\ kind = "house" /\ owned /\ ~flagged /\ ~upset =>
    LET kept == Kept(tree)
        read == Rebuilt(file, {}).tree
    IN  \A x \in Obj : kept[x] # "none" => read[x] = tree[x]

\* The readers never follow a NULL but where a prototype is gone and something
\* was inside the thing.
NeverStuck == stuck => upset

BelongingsSound == BelongingsType /\ RoundTrip /\ HouseCurrent /\ NeverStuck
=============================================================================
