------------------------------ MODULE Objects ------------------------------
(***************************************************************************)
(* Where things are: handler.cpp's lists of what is carried, worn,         *)
(* implanted, lying in the street, loaded in a vehicle or inside another   *)
(* thing, with the counters and weights kept beside them, and the commands *)
(* of act.obj.cpp, act.other.cpp and fight.cpp that move things between    *)
(* them.  The street is a room; one vehicle stands in it.                  *)
(***************************************************************************)
EXTENDS Integers, FiniteSets, FiniteSetsExt

CONSTANTS
  Obj,       \* cells of objects
  Char,      \* players
  Kits,      \* what the cells hold, functions from Obj to Kind: one quiver at most
  Zaps,      \* objects with ITEM_GODONLY
  Heft,      \* the weight of an empty thing of each kind
  Capacity,  \* the pockets of a vest: VAL 0 to 4 of an ITEM_WORN
  BagLimit,  \* VAL 0 of a bag
  QuiverCap, \* VAL 0 of a quiver
  CarryN, CarryW,  \* CAN_CARRY_N, CAN_CARRY_W
  VehLoad,   \* the load of the empty vehicle
  NULL

Kind == {"vest", "holster", "quiver", "pistol", "bow", "star", "arrow", "clip",
         "scope", "bag", "drink", "cash", "patch", "chip", "corpse"}
Pocket == {"holster", "clip", "star", "misc"}
Pos    == {"wield", "hold", "body", "waist", "patch"}

ASSUME ObjectsAssumption ==
  /\ IsFiniteSet(Obj) /\ IsFiniteSet(Char) /\ NULL \notin Obj \cup Char
  /\ Kits \subseteq [Obj -> Kind]
  /\ \A kit \in Kits : Cardinality({x \in Obj : kit[x] = "quiver"}) <= 1
  /\ Zaps \subseteq Obj
  /\ Heft \in [Kind -> Nat] /\ Capacity \in [Pocket -> Nat]
  /\ BagLimit \in Nat /\ QuiverCap \in Nat /\ CarryN \in Nat /\ CarryW \in Nat
  /\ VehLoad \in Nat

(***************************************************************************)
(* o.kind      the kit                                                     *)
(* o.live      cells in use                                                *)
(* o.carrier   carried_by          o.chrome  those of them in ch->cyberware*)
(* o.worn      worn_by and worn_on: a character and a position             *)
(* o.inobj     in_obj                                                      *)
(* o.room      in_room and in_veh: "street", "veh" or ""                   *)
(* o.weight    GET_OBJ_WEIGHT      o.own     the part that is not contents *)
(* o.w, o.n    IS_CARRYING_W, IS_CARRYING_N                                *)
(* o.slots     the free pockets of a vest                                  *)
(* o.tag       GET_OBJ_TIMER: the pocket a thing in a vest takes           *)
(* o.count     VAL 2 of a quiver   o.ready   VAL 3 of a holster            *)
(* o.part      an accessory is mounted on the gun                          *)
(* o.rider     who is in the vehicle         o.load   veh->load            *)
(* o.spill     chkdmg has thrown the riders out and not yet the load       *)
(* o.drift     history: whose weight was changed behind calc_weight's back *)
(* o.leak      history: a corpse has decayed in a bag in the vehicle       *)
(* o.broken    history: "null" once a NULL carried_by is followed, "twice" *)
(*             once a thing is put in a gun while it is held, "hang" once  *)
(*             has_ammo loops; no behaviour is followed further            *)
(***************************************************************************)
VARIABLE o

ObjectsType ==
  [kind: Kits, live: SUBSET Obj, carrier: [Obj -> Char \cup {NULL}], chrome: SUBSET Obj,
   worn: [Obj -> (Char \X Pos) \cup {NULL}], inobj: [Obj -> Obj \cup {NULL}],
   room: [Obj -> {"", "street", "veh"}], weight: [Obj -> Int], own: [Obj -> Int],
   w: [Char -> Int], n: [Char -> Int], slots: [Obj -> [Pocket -> Nat]],
   tag: [Obj -> Pocket], count: [Obj -> Int], ready: [Obj -> BOOLEAN],
   part: [Obj -> BOOLEAN], rider: SUBSET Char, load: Int, spill: BOOLEAN,
   drift: SUBSET Char, leak: BOOLEAN, broken: {"", "null", "twice", "hang"}]

TypeOK == o \in ObjectsType

\* Everything but corpses lies in the street.
Init ==
  \E kit \in Kits :
    LET born == {x \in Obj : kit[x] # "corpse"}
    IN  o = [kind |-> kit, live |-> born, carrier |-> [x \in Obj |-> NULL], chrome |-> {},
             worn |-> [x \in Obj |-> NULL], inobj |-> [x \in Obj |-> NULL],
             room |-> [x \in Obj |-> IF x \in born THEN "street" ELSE ""],
             weight |-> [x \in Obj |-> Heft[kit[x]]], own |-> [x \in Obj |-> Heft[kit[x]]],
             w |-> [c \in Char |-> 0], n |-> [c \in Char |-> 0],
             slots |-> [x \in Obj |-> Capacity], tag |-> [x \in Obj |-> "holster"],
             count |-> [x \in Obj |-> 0], ready |-> [x \in Obj |-> FALSE],
             part |-> [x \in Obj |-> FALSE], rider |-> {}, load |-> VehLoad,
             spill |-> FALSE, drift |-> {}, leak |-> FALSE, broken |-> ""]

-----------------------------------------------------------------------------
(***************************************************************************)
(* Who has what.                                                           *)
(***************************************************************************)
Is(s, x, k) == s.kind[x] = k

Carried(s, c)  == {x \in Obj : s.carrier[x] = c} \ s.chrome
Implants(s, c) == {x \in s.chrome : s.carrier[x] = c}
At(s, c, p)    == {x \in Obj : s.worn[x] = <<c, p>>}
Worn(s, c)     == UNION {At(s, c, p) : p \in Pos}
In(s, y)       == {x \in Obj : s.inobj[x] = y}
Vests(s, c)    == {v \in Worn(s, c) : Is(s, v, "vest")}
InRoom(s, r)   == {x \in Obj : s.room[x] = r}

\* What get_object_in_equip_vis finds: what is worn and what its vests hold.
Equipment(s, c) == Worn(s, c) \cup UNION {In(s, v) : v \in Vests(s, c)}

\* What generic_find finds; a rider reaches into the street too.
OnPerson(s, c) == Equipment(s, c) \cup Carried(s, c)
Reach(s, c)    == OnPerson(s, c) \cup InRoom(s, "street")

Together(s, c, d) == c # d /\ (c \in s.rider <=> d \in s.rider)

\* The containers around x, one inside the other.
Enclosing(s, x) ==
  LET up[i \in 0..Cardinality(Obj)] ==
        IF i = 0 THEN {s.inobj[x]} \ {NULL}
        ELSE up[i - 1] \cup ({s.inobj[y] : y \in up[i - 1]} \ {NULL})
  IN  up[Cardinality(Obj)]

Inside(s, x) == {y \in Obj : x \in Enclosing(s, y)}

Bearers(s, x) ==
  {c \in Char : s.carrier[x] = c \/ \E p \in Pos : s.worn[x] = <<c, p>>}

WeightOf(s, S) == MapThenSumSet(LAMBDA x : s.weight[x], S)

-----------------------------------------------------------------------------
(***************************************************************************)
(* The primitives of handler.cpp.                                          *)
(***************************************************************************)

\* calc_weight.
CalcWeight(s, c) ==
  [s EXCEPT !.w[c] = WeightOf(s, Worn(s, c) \cup Carried(s, c)), !.drift = @ \ {c}]

\* obj_to_char: refused when the thing has a bearer or lies in a room.
ToChar(s, x, c) ==
  IF s.carrier[x] # NULL \/ s.room[x] = "street" THEN s
  ELSE [s EXCEPT !.carrier[x] = c, !.w[c] = @ + s.weight[x], !.n[c] = @ + 1]

\* obj_from_char: of a thing that nobody carries it follows the NULL.
FromChar(s, x) ==
  LET c == s.carrier[x]
  IN  IF c = NULL THEN [s EXCEPT !.broken = "null"]
      ELSE [s EXCEPT !.carrier[x] = NULL, !.w[c] = @ - s.weight[x], !.n[c] = @ - 1]

\* obj_to_cyberware, obj_from_cyberware
Implant(s, x, c) == [s EXCEPT !.carrier[x] = c, !.chrome = @ \cup {x}]
Explant(s, x)    == [s EXCEPT !.carrier[x] = NULL, !.chrome = @ \ {x}]

\* obj_to_room, obj_to_veh, obj_from_room
ToRoom(s, x) == [s EXCEPT !.room[x] = "street", !.carrier[x] = NULL]
ToVeh(s, x)  == [s EXCEPT !.room[x] = "veh", !.carrier[x] = NULL, !.load = @ - s.weight[x]]
FromRoom(s, x) ==
  [s EXCEPT !.room[x] = "", !.load = IF s.room[x] = "veh" THEN @ + s.weight[x] ELSE @]

\* Down to the floor of wherever c is.
ToFloor(s, x, c) == IF c \in s.rider THEN ToVeh(s, x) ELSE ToRoom(s, x)

\* The weight of x comes to, or leaves, the containers around it and whoever
\* bears the outermost.
\* Mutant: only the nearest container counts.
Shift_Nearest(s, x, d) == [s EXCEPT !.weight[s.inobj[x]] = @ + d]
Shift(s, x, d) ==
  LET around  == Enclosing(s, x)
      bearers == UNION {Bearers(s, y) : y \in {z \in around : s.inobj[z] = NULL}}
  IN  [s EXCEPT !.weight = [y \in Obj |-> IF y \in around THEN @[y] + d ELSE @[y]],
                !.w = [c \in Char |-> IF c \in bearers THEN @[c] + d ELSE @[c]]]

\* obj_to_obj, obj_from_obj: a holster that is emptied is not ready.
ToObj(s, x, y) == Shift([s EXCEPT !.inobj[x] = y], x, s.weight[x])

FromObj(s, x) ==
  [Shift(s, x, 0 - s.weight[x]) EXCEPT !.inobj[x] = NULL, !.ready[s.inobj[x]] = FALSE]

\* equip_char: refused when the position is taken or the thing has a bearer.
Equip(s, x, c, p) ==
  IF At(s, c, p) # {} \/ s.carrier[x] # NULL \/ s.room[x] = "street" THEN s
  ELSE IF x \in Zaps THEN ToChar(s, x, c)
  ELSE CalcWeight([s EXCEPT !.worn[x] = <<c, p>>], c)

\* unequip_char
Unequip(s, x) == CalcWeight([s EXCEPT !.worn[x] = NULL], s.worn[x][1])

\* Off whatever list it is on.
Unlink(s, x) ==
  LET a == IF s.worn[x] # NULL THEN Unequip(s, x) ELSE s
      b == IF a.room[x] # "" THEN FromRoom(a, x) ELSE a
      d == IF b.carrier[x] # NULL THEN FromChar(b, x) ELSE b
  IN  IF d.inobj[x] # NULL THEN FromObj(d, x) ELSE d

\* Cells given back: what read_object makes of them is as good as new.
Free(s, S) ==
  LET new(f, v) == [x \in Obj |-> IF x \in S THEN v ELSE f[x]]
      heft(f)   == [x \in Obj |-> IF x \in S THEN Heft[s.kind[x]] ELSE f[x]]
  IN  [s EXCEPT !.live = @ \ S, !.chrome = @ \ S, !.carrier = new(@, NULL),
                !.worn = new(@, NULL), !.inobj = new(@, NULL), !.room = new(@, ""),
                !.weight = heft(@), !.own = heft(@), !.slots = new(@, Capacity),
                !.tag = new(@, "holster"), !.count = new(@, 0),
                !.ready = new(@, FALSE), !.part = new(@, FALSE)]

\* extract_obj, with all that is inside.
\* Mutant: what was inside is left behind.
Extract_Spilt(s, x) == Free(Unlink(s, x), {x})
Extract(s, x) == Free(Unlink(s, x), {x} \cup Inside(s, x))

\* Out of everybody's hands first, from a container or from the inventory.
Taken(s, x) == IF s.inobj[x] # NULL THEN FromObj(s, x) ELSE FromChar(s, x)

\* can_take_obj
CanTake(s, c, x) == s.n[c] < CarryN /\ s.w[c] + s.weight[x] <= CarryW

\* get_check_money
Pocketed(s, x) == IF Is(s, x, "cash") THEN Extract(s, x) ELSE s

-----------------------------------------------------------------------------
(***************************************************************************)
(* Into and out of containers.                                             *)
(***************************************************************************)
Calm == o.broken = "" /\ ~o.spill

\* The pockets of a vest that perform_put tries for x, the first free one first.
PocketsFor(s, x) ==
  CASE s.kind[x] \in {"holster", "quiver"} -> <<"holster">>
    [] Is(s, x, "clip") -> <<"clip", "misc">>
    [] Is(s, x, "star") -> <<"star", "misc">>
    [] Is(s, x, "pistol") -> <<>>
    [] OTHER -> IF s.weight[x] <= 1 THEN <<"misc">> ELSE <<>>

\* Where x goes on the vest v: the empty set when it does not fit.
PocketOf(s, x, v) ==
  LET open == {i \in DOMAIN PocketsFor(s, x) : s.slots[v][PocketsFor(s, x)[i]] > 0}
  IN  {PocketsFor(s, x)[i] : i \in {j \in open : \A k \in open : j <= k}}

\* A holster or a quiver keeps the tag it came with.
Pocketing(s, x, v, p) ==
  [s EXCEPT !.slots[v][p] = @ - 1, !.tag[x] = IF p = "holster" THEN @ ELSE p]

\* perform_put
Stowed(s, x, y) ==
  CASE Is(s, y, "vest") ->
         {ToObj(Taken(Pocketing(s, x, y, p), x), x, y) : p \in PocketOf(s, x, y)}
    [] Is(s, y, "quiver") ->
         IF s.kind[x] \in {"arrow", "star"} /\ s.count[y] < QuiverCap
         THEN {[ToObj(FromChar(s, x), x, y) EXCEPT !.count[y] = @ + 1]} ELSE {}
    [] Is(s, y, "bag") ->
         IF s.weight[y] + s.weight[x] <= BagLimit
         THEN {ToObj(Taken(s, x), x, y)} ELSE {}
    [] OTHER -> {}

\* do_put.  Nothing fits in a corpse.
Put(c, x, y) ==
  /\ Calm /\ x \in Carried(o, c) /\ y \in Reach(o, c) \ {x}
  /\ o' \in Stowed(o, x, y)

\* What a container keeps about a thing that leaves it.
LetGo(s, x, y) ==
  IF Is(s, y, "vest") THEN [s EXCEPT !.slots[y][s.tag[x]] = @ + 1]
  ELSE IF Is(s, y, "quiver") THEN [s EXCEPT !.count[y] = IF @ > 0 THEN @ - 1 ELSE 0]
  ELSE s

\* perform_get_from_container: out of one's own the weight does not matter.
Get(c, x) ==
  /\ Calm /\ o.inobj[x] # NULL
  /\ LET y == o.inobj[x]
     IN  /\ y \in Reach(o, c)
         /\ o.kind[y] \in {"bag", "quiver", "holster", "vest", "corpse"}
         /\ y \in Carried(o, c) \cup Worn(o, c) \/ CanTake(o, c, x)
         /\ o.n[c] < CarryN
         /\ o' = Pocketed(ToChar(FromObj(LetGo(o, x, y), x), x, c), x)

\* get_from_room
GetRoom(c, x) ==
  /\ Calm /\ x \in InRoom(o, IF c \in o.rider THEN "veh" ELSE "street")
  /\ CanTake(o, c, x)
  /\ o' = Pocketed(ToChar(FromRoom(o, x), x, c), x)

\* perform_drop: to drop, to donate (donation rooms are rooms), to junk.
Drop(c, x) ==
  /\ Calm /\ x \in Carried(o, c)
  /\ c \in o.rider => o.load - o.weight[x] >= 0
  /\ o' \in LET s == Taken(o, x) IN {ToFloor(s, x, c), ToRoom(s, x), Extract(s, x)}

\* perform_drop_gold: the money is a new object.
DropGold(c, x) ==
  /\ Calm /\ x \notin o.live /\ Is(o, x, "cash")
  /\ o' = ToFloor([o EXCEPT !.live = @ \cup {x}], x, c)

\* perform_give
Give(c, d, x) ==
  /\ Calm /\ Together(o, c, d) /\ x \in Carried(o, c)
  /\ o.n[d] < CarryN /\ o.weight[x] + o.w[d] <= CarryW
  /\ o' = ToChar(FromChar(o, x), x, d)

\* do_steal: the limits hold for what is carried, not for what is worn.
Steal(c, d, x) ==
  /\ Calm /\ Together(o, c, d)
  /\ \/ /\ x \in Carried(o, d)
        /\ o.n[c] + 1 < CarryN /\ o.w[c] + o.weight[x] < CarryW
        /\ o' = ToChar(FromChar(o, x), x, c)
     \/ x \in Worn(o, d) /\ o' = ToChar(Unequip(o, x), x, c)

\* read_object and obj_to_char: shops, quests, boards, rent.
Load(c, x) ==
  /\ Calm /\ x \notin o.live /\ o.kind[x] \notin {"corpse", "cash"}
  /\ o' = ToChar([o EXCEPT !.live = @ \cup {x}], x, c)

\* weight_change_object: out of the hands, lighter, and back.
Lighter(s, x, c, d) ==
  ToChar([FromChar(s, x) EXCEPT !.weight[x] = @ - d, !.own[x] = @ - d], x, c)

\* do_drink, or do_pour onto the ground.
Drink(c, x) ==
  /\ Calm /\ x \in Carried(o, c) /\ Is(o, x, "drink")
  /\ \E d \in 1..o.weight[x] : o' = Lighter(o, x, c, d)

-----------------------------------------------------------------------------
(***************************************************************************)
(* On and off the body.                                                    *)
(***************************************************************************)

\* The position a thing is put on.
PosFor(s, x) ==
  CASE Is(s, x, "vest") -> {"body"}
    [] s.kind[x] \in {"holster", "quiver"} -> {"waist"}
    [] s.kind[x] \in {"pistol", "bow", "star"} -> {"wield", "hold"}
    [] Is(s, x, "clip") -> {"hold"}
    [] OTHER -> {}

\* perform_wear: a second weapon goes to the other hand.
\* Mutant: whether the position is free is not asked.
Wear_Taken(c, x) ==
  /\ Calm /\ x \in Carried(o, c)
  /\ \E p \in PosFor(o, x) : o' = Equip(Taken(o, x), x, c, p)
Wear(c, x) ==
  /\ Calm /\ x \in Carried(o, c)
  /\ \E p \in PosFor(o, x) :
       /\ At(o, c, p) = {}
       /\ o' = Equip(Taken(o, x), x, c, p)

\* perform_remove.  Named by something in its pockets, a vest comes off.
Remove(c, x) ==
  /\ Calm /\ x \in Equipment(o, c) /\ o.n[c] < CarryN
  /\ LET y == IF o.worn[x] # NULL THEN x ELSE o.inobj[x]
     IN  o' = [ToChar(Unequip(o, y), y, c) EXCEPT !.ready[y] = FALSE]

\* do_patch, on anybody in the room, and its end in update_patch.
Patch(c, d, x) ==
  /\ Calm /\ x \in Carried(o, c) /\ Is(o, x, "patch")
  /\ c \notin o.rider /\ d \notin o.rider /\ At(o, d, "patch") = {}
  /\ o' = [FromChar(o, x) EXCEPT !.worn[x] = <<d, "patch">>, !.drift = @ \cup {d}]

PatchEnds(d, x) ==
  /\ Calm /\ x \in At(o, d, "patch")
  /\ o' = [Extract([o EXCEPT !.worn[x] = NULL], x) EXCEPT !.drift = @ \cup {d}]

\* do_operate, the street doctor, and save_char, which puts every piece of
\* cyberware that it finds in the inventory back into the body.
Operate(c, d, x) ==
  /\ Calm /\ Together(o, c, d) /\ x \in Carried(o, c) /\ Is(o, x, "chip")
  /\ o' = Implant(FromChar(o, x), x, d)

Doctor(c, x) ==
  /\ Calm /\ x \in Implants(o, c)
  /\ o' = Extract(Explant(o, x), x)

PutBack(s, c) ==
  LET chips == {x \in Carried(s, c) : Is(s, x, "chip")}
  IN  [s EXCEPT !.chrome = @ \cup chips, !.n[c] = @ - Cardinality(chips),
                !.w[c] = @ - WeightOf(s, chips)]

Save(c) ==
  /\ Calm
  /\ o' = IF Worn(o, c) # {} THEN CalcWeight(PutBack(o, c), c) ELSE PutBack(o, c)

-----------------------------------------------------------------------------
(***************************************************************************)
(* Weapons.                                                                *)
(***************************************************************************)
Holsters(s, c) == {h \in Equipment(s, c) : Is(s, h, "holster")}

\* do_ready: only holsters that are worn directly count against the two.
Ready(c, h) ==
  /\ Calm /\ h \in Holsters(o, c) /\ In(o, h) # {}
  /\ o.ready[h] \/ Cardinality({g \in Worn(o, c) : o.ready[g]}) < 2
  /\ o' = [o EXCEPT !.ready[h] = ~@]

\* do_holster: a worn weapon is taken off, any other is taken from the bearer,
\* although generic_find finds it in a pocket too.
Holster(c, x, h) ==
  /\ Calm /\ x \in OnPerson(o, c) /\ o.kind[x] \in {"pistol", "star"}
  /\ h \in OnPerson(o, c) /\ Is(o, h, "holster") /\ In(o, h) = {}
  /\ o' = IF o.worn[x] # NULL THEN ToObj(Unequip(o, x), x, h)
          ELSE LET s == FromChar(o, x)
               IN  IF s.broken # "" THEN s ELSE ToObj(s, x, h)

\* One holster of draw_weapon: the second hand is used when the weapons go
\* together, also when it is full.
Drawn(s, c, h) ==
  LET x == CHOOSE y \in Obj : s.inobj[y] = h
  IN  IF At(s, c, "wield") = {} THEN {Equip(FromObj(s, x), x, c, "wield")}
      ELSE {s, Equip(FromObj(s, x), x, c, "hold")}

\* draw_weapon, the holsters in any order.
Draw(c) ==
  /\ Calm /\ At(o, c, "wield") = {} /\ At(o, c, "hold") = {}
  /\ LET readied == {h \in Holsters(o, c) : o.ready[h]}
         after[H \in SUBSET readied] ==
           IF H = {} THEN {o}
           ELSE UNION {UNION {Drawn(s, c, h) : s \in after[H \ {h}]} : h \in H}
     IN  readied # {} /\ o' \in after[readied]

\* The clips find_clip finds: on what is worn, or else in the inventory.
Clips(s, c) ==
  LET clips   == {x \in Obj : Is(s, x, "clip")}
      pockets == UNION {In(s, v) : v \in Vests(s, c)} \cap clips
      vests   == {v \in Carried(s, c) : Is(s, v, "vest")}
  IN  IF pockets # {} THEN pockets
      ELSE (Carried(s, c) \cup UNION {In(s, v) : v \in vests} \cup Worn(s, c)) \cap clips

\* do_reload: the old clip is dropped.  A clip that was named and is held is
\* taken from nowhere.
Reload(c, g, x) ==
  /\ Calm /\ g \in OnPerson(o, c) /\ Is(o, g, "pistol") /\ x \in Clips(o, c)
  /\ LET a == IF o.inobj[x] # NULL THEN LetGo(o, x, o.inobj[x]) ELSE o
         b == IF In(o, g) = {} THEN a
              ELSE LET old == CHOOSE y \in Obj : o.inobj[y] = g
                   IN  ToFloor(FromObj(a, old), old, c)
         d == IF b.carrier[x] # NULL THEN FromChar(b, x)
              ELSE IF b.inobj[x] # NULL THEN FromObj(b, x)
              ELSE [b EXCEPT !.broken = "twice"]
     IN  o' = IF d.broken # "" THEN d ELSE ToObj(d, x, g)

\* do_attach: the accessory becomes a part of the gun.
\* Bound of the model: a character who has drifted is weighed before the next.
Attach(c, x, g) ==
  /\ Calm /\ c \notin o.drift /\ {x, g} \subseteq Carried(o, c)
  /\ Is(o, x, "scope") /\ Is(o, g, "pistol") /\ ~o.part[g]
  /\ LET s == [o EXCEPT !.part[g] = TRUE, !.weight[g] = @ + o.weight[x],
                        !.own[g] = @ + o.weight[x], !.drift = @ \cup {c}]
     IN  o' = Extract(FromChar(s, x), x)

\* do_unattach: a new accessory, and a lighter gun.  The same bound.
Unattach(c, g, x) ==
  /\ Calm /\ c \notin o.drift /\ g \in Carried(o, c) /\ o.part[g]
  /\ x \notin o.live /\ Is(o, x, "scope")
  /\ o' = [ToChar([o EXCEPT !.live = @ \cup {x}], x, c)
             EXCEPT !.part[g] = FALSE, !.weight[g] = @ - o.weight[x],
                    !.own[g] = @ - o.weight[x], !.drift = @ \cup {c}]

\* remove_throwing: the next one comes from a quiver, which is not told.
Throw(c, x) ==
  /\ Calm /\ Is(o, x, "star")
  /\ \/ x \in At(o, c, "wield")
     \/ x \in At(o, c, "hold") /\ \A y \in At(o, c, "wield") : ~Is(o, y, "star")
  /\ LET s    == Extract(o, x)
         more == {y \in UNION {In(s, q) : q \in Worn(s, c)} :
                    Is(s, y, "star") /\ Is(s, s.inobj[y], "quiver")}
     IN  IF more = {} THEN o' = s
         ELSE \E y \in more : o' = Equip(FromObj(s, y), y, c, "wield")

\* has_ammo takes one arrow.
Fired(s, a, q) == Free([FromObj(s, a) EXCEPT !.count[q] = @ - 1], {a})

\* has_ammo: after an arrow of the quiver q the loop goes on with what lies
\* beside the quiver, not beside the arrow, and stays there unless it is an
\* arrow.
Shot(s, a, q) ==
  LET beside == In(s, s.inobj[q]) \ {q}
      arrows == {b \in beside : Is(s, b, "arrow")}
      after[S \in SUBSET arrows] ==
        IF S = {} THEN Fired(s, a, q)
        ELSE LET b == CHOOSE z \in S : TRUE IN Fired(after[S \ {b}], b, q)
  IN  IF s.inobj[q] = NULL THEN {Fired(s, a, q)}
      ELSE {after[S] : S \in SUBSET arrows} \cup
           {[after[S] EXCEPT !.broken = "hang"] : S \in {T \in SUBSET arrows : beside # arrows}}

Shoot(c, q, a) ==
  /\ Calm /\ \E b \in At(o, c, "wield") \cup At(o, c, "hold") : Is(o, b, "bow")
  /\ q \in Equipment(o, c) /\ Is(o, q, "quiver")
  /\ a \in In(o, q) /\ Is(o, a, "arrow")
  /\ o' \in Shot(o, a, q)

-----------------------------------------------------------------------------
(***************************************************************************)
(* Death, damage and the vehicle.                                          *)
(***************************************************************************)

\* make_corpse and extract_char.  The weight carried is counted once before
\* and once as it goes in.
Die(c, k) ==
  /\ o.broken = "" /\ o.spill => c \notin o.rider
  /\ k \notin o.live /\ Is(o, k, "corpse")
  /\ LET bare == Free(o, Implants(o, c))
         all  == Worn(bare, c) \cup Carried(bare, c)
         none(f) == [x \in Obj |-> IF x \in all THEN NULL ELSE f[x]]
         heft == Heft["corpse"] + o.w[c]
         s    == [bare EXCEPT !.live = @ \cup {k}, !.own[k] = heft,
                    !.weight[k] = heft + WeightOf(bare, all),
                    !.carrier = none(@), !.worn = none(@),
                    !.inobj = [x \in Obj |-> IF x \in all THEN k ELSE @[x]],
                    !.w[c] = 0, !.n[c] = 0, !.drift = @ \ {c}]
     IN  o' = [ToFloor(s, k, c) EXCEPT !.rider = @ \ {c}]

\* extract_char of somebody who quits, or dies as a newbie.
Leave(c) ==
  /\ Calm
  /\ LET all == {x \in Obj : o.carrier[x] = c} \cup Worn(o, c)
     IN  o' = [Free(o, all \cup UNION {Inside(o, x) : x \in all})
                 EXCEPT !.w[c] = 0, !.n[c] = 0, !.drift = @ \ {c}, !.rider = @ \ {c}]

\* extract_obj of what is eaten, blows up or decays.  A corpse decays in a
\* container too, and a vehicle is not told that the container is lighter.
Perish(x) ==
  /\ Calm /\ x \in o.live \ o.chrome
  /\ o.inobj[x] = NULL \/ Is(o, x, "corpse")
  /\ o' = [Extract(o, x) EXCEPT
             !.leak = @ \/ \E y \in Enclosing(o, x) : o.room[y] = "veh"]

\* damage_obj destroys x: what is inside falls to the bearer or to the floor.
Destroyed(s, x) ==
  LET holder == Bearers(s, x)
      spilt(t, y) ==
        IF holder # {} THEN ToChar(FromObj(t, y), y, CHOOSE c \in holder : TRUE)
        ELSE ToRoom(FromObj(t, y), y)
      after[S \in SUBSET In(s, x)] ==
        IF S = {} THEN s
        ELSE LET y == CHOOSE z \in S : TRUE IN spilt(after[S \ {y}], y)
  IN  Extract(after[In(s, x)], x)

Destroy(x) ==
  /\ Calm /\ x \in o.live \ o.chrome
  /\ o.room[x] = "street" \/ o.carrier[x] # NULL \/ o.worn[x] # NULL
  /\ \/ o' = Destroyed(o, x)
     \/ Is(o, x, "corpse") /\ o' = Extract(o, x)   \* that of a mobile

\* damage_obj by acid: VAL 0 and VAL 1 of what is worn.
Acid(x) ==
  /\ Calm /\ x \in o.live /\ Is(o, x, "vest")
  /\ \E P \in {{"holster", "clip"}, {"holster"}, {"clip"}} :
       o' = [o EXCEPT !.slots[x] =
               [p \in Pocket |-> IF p \in P /\ @[p] > 0 THEN @[p] - 1 ELSE @[p]]]

\* enter_veh, leave_veh
Ride(c) ==
  /\ Calm
  /\ o' = [o EXCEPT !.rider = IF c \in @ THEN @ \ {c} ELSE @ \cup {c}]

\* chkdmg throws the riders out: all of them, or, when it walks the characters
\* of the world from the first rider on, whoever comes after him.
Wreck ==
  /\ Calm
  /\ \/ o' = [o EXCEPT !.spill = TRUE, !.rider = {}]
     \/ \E c \in o.rider, S \in SUBSET Char :
          o' = [o EXCEPT !.spill = TRUE, !.rider = @ \ ({c} \cup S)]

\* chkdmg scatters the load.  Once a thing has been moved the loop goes on in
\* the street, among whatever lies there, and ends with the first it destroys.
Spill ==
  /\ o.broken = "" /\ o.spill
  /\ LET s == [o EXCEPT !.spill = FALSE]
         moved(x) == ToRoom(FromRoom(s, x), x)
     IN  \/ o' = s
         \/ \E x \in InRoom(o, "veh") :
              \/ o' = Extract(s, x)
              \/ o' = moved(x)
              \/ \E y \in InRoom(moved(x), "street") :
                   /\ y = x => InRoom(o, "street") # {}
                   /\ o' = Extract(moved(x), y)

-----------------------------------------------------------------------------
\* Nothing is followed once the program has gone wrong.
Halted == o.broken # "" /\ UNCHANGED o

Moves(c) ==
  \/ Save(c) \/ Draw(c) \/ Leave(c) \/ Ride(c)
  \/ \E x \in Obj :
       \/ Get(c, x) \/ GetRoom(c, x) \/ Drop(c, x) \/ DropGold(c, x) \/ Load(c, x)
       \/ Drink(c, x) \/ Wear(c, x) \/ Remove(c, x) \/ PatchEnds(c, x)
       \/ Doctor(c, x) \/ Ready(c, x) \/ Throw(c, x) \/ Die(c, x)
       \/ \E y \in Obj :
            \/ Put(c, x, y) \/ Holster(c, x, y) \/ Reload(c, x, y)
            \/ Attach(c, x, y) \/ Unattach(c, x, y) \/ Shoot(c, x, y)
       \/ \E d \in Char : Give(c, d, x) \/ Steal(c, d, x) \/ Patch(c, d, x) \/ Operate(c, d, x)

Next ==
  \/ \E c \in Char : Moves(c)
  \/ \E x \in Obj : Perish(x) \/ Destroy(x) \/ Acid(x)
  \/ Wreck \/ Spill \/ Halted

Spec == Init /\ [][Next]_o

-----------------------------------------------------------------------------
(***************************************************************************)
(* What must hold.                                                         *)
(***************************************************************************)
Places(s, x) ==
  {p \in {"carrier", "worn", "inobj", "room"} :
     CASE p = "carrier" -> s.carrier[x] # NULL
       [] p = "worn"    -> s.worn[x] # NULL
       [] p = "inobj"   -> s.inobj[x] # NULL
       [] p = "room"    -> s.room[x] # ""}

Lost(s) == {x \in s.live : Places(s, x) = {}}

\* However things are put, given, stolen, drawn, thrown, reloaded, saved and
\* scattered, each is on one list at most, in something that exists and is not
\* inside itself; what has been extracted is on none; and no position of the
\* body is taken twice.  A second list would let extract_obj leave a pointer
\* to a freed cell.
OnePlace ==
  /\ TypeOK
  /\ \A x \in o.live :
       /\ Cardinality(Places(o, x)) <= 1
       /\ o.inobj[x] # NULL => o.inobj[x] \in o.live
       /\ x \notin Enclosing(o, x)
  /\ \A x \in Obj \ o.live : Places(o, x) = {}
  /\ \A c \in Char, p \in Pos : Cardinality(At(o, c, p)) <= 1

\* The counters that the limits are checked against tell the truth: carried
\* things, the weight of every container with all that is in it, the weight
\* somebody bears unless do_attach, do_unattach or do_patch has changed it
\* behind calc_weight's back, and the load of the vehicle unless a corpse has
\* decayed inside something in it.
Burden ==
  o.broken = "" =>
    /\ \A c \in Char :
         /\ o.n[c] = Cardinality(Carried(o, c))
         /\ c \notin o.drift => o.w[c] = WeightOf(o, Worn(o, c) \cup Carried(o, c))
    /\ \A x \in o.live : o.weight[x] = o.own[x] + WeightOf(o, In(o, x))
    /\ o.load + WeightOf(o, InRoom(o, "veh")) <= VehLoad
    /\ ~o.leak => o.load + WeightOf(o, InRoom(o, "veh")) = VehLoad

\* A vest never has more room, free and taken together, than it was made with:
\* get and reload give a pocket back by the tag that put left on the thing.
\* And a holster that is ready has something in it.
PocketsFit ==
  o.broken = "" =>
    /\ \A v \in o.live, p \in Pocket :
         Is(o, v, "vest") =>
           o.slots[v][p] + Cardinality({x \in In(o, v) : o.tag[x] = p}) <= Capacity[p]
    /\ \A h \in o.live : o.ready[h] => In(o, h) # {}

\* What is kept beside the lists, in counters, weights, pockets and loads, agrees with them.
BurdenExact == Burden /\ PocketsFit

\* Only drawing and throwing can leave a thing nowhere: the other commands ask
\* first whether the hand they fill is free.
KeptSomewhere ==
  [][ Lost(o') \subseteq Lost(o)
      \/ \E c \in Char : Draw(c) \/ \E x \in Obj : Throw(c, x) ]_o

=============================================================================
