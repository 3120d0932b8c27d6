---------------------------- MODULE MCPlayerIndex ----------------------------
(***************************************************************************)
(* What the game keeps of its players between two boots, in scenes: the    *)
(* index, with two connections and up to three numbers, from index files   *)
(* that hold nobody or two old players; the rooms they lease, with their   *)
(* guests; and what lies in such a room, in a storage room or a vehicle,   *)
(* or is carried, each in a scene of its own.                              *)
(***************************************************************************)
EXTENDS PlayerIndex, TLC

CONSTANTS n1, n2, c1, c2

CONSTANTS Room, Player, Admin, MaxGuests, MaxPaid, Nobody   \* Houses

CONSTANTS Obj, Containers, Lapsing, Scenes, Orders          \* Belongings

CONSTANTS n3, bag, box, coin, key

VARIABLES
  scene,
  rec, ctl, gfile, isHouse, wld, exists, up, invited, loose,              \* Houses
  kind, things, norent, tree, file, owned, flagged, runs, stuck, upset    \* Belongings

Leases == INSTANCE Houses WITH None <- NULL
Stow   == INSTANCE Belongings WITH None <- NULL, up <- runs

leaseVars == <<rec, ctl, gfile, isHouse, wld, exists, up, invited, loose>>
stowVars  == <<kind, things, norent, tree, file, owned, flagged, runs, stuck, upset>>
allVars   == <<scene, vars, leaseVars, stowVars>>

ASSUME LeasesAssumption == Leases!HousesAssumption
ASSUME StowAssumption == Stow!BelongingsAssumption

MCInit ==
  /\ scene \in {"index", "houses", "things"}
  /\ Init /\ Leases!Init /\ Stow!Init
  /\ scene # "index" => Len(index) = 0
  /\ scene # "things" => kind = "inv"

IndexStep == scene = "index" /\ Next /\ UNCHANGED <<scene, leaseVars, stowVars>>
LeaseStep == scene = "houses" /\ Leases!Next /\ UNCHANGED <<scene, vars, stowVars>>
StowStep  == scene = "things" /\ Stow!Next /\ UNCHANGED <<scene, vars, leaseVars>>

MCNext == IndexStep \/ LeaseStep \/ StowStep

MCSpec == MCInit /\ [][MCNext]_allVars

-----------------------------------------------------------------------------
\* Nobody enters a leased room but who was asked in, and no crash ends a lease (Houses).
LeasesSound == scene = "houses" => Leases!LeasesSound

\* What is written is read back as it was, things in things (Belongings).
BelongingsSound == scene = "things" => Stow!BelongingsSound

-----------------------------------------------------------------------------
MCEntry(n, k, f, s) == [name |-> n, id |-> k, nodelete |-> f, stale |-> s]

MCInitIndex == { <<>>,
                 <<MCEntry(n1, 1, FALSE, TRUE), MCEntry(n2, 2, FALSE, TRUE)>>,
                 <<MCEntry(n2, 1, FALSE, TRUE), MCEntry(n1, 2, FALSE, TRUE)>> }

MCOrder(a, b, c, d) == (a :> 1) @@ (b :> 2) @@ (c :> 3) @@ (d :> 4)

MCOrders == {MCOrder(bag, box, coin, key), MCOrder(key, coin, bag, box)}

MCLapsing == {{}, {bag}, {key}}

MCScene(k, t, n) == [kind |-> k, things |-> t, norent |-> n]

MCScenes == { MCScene("house", {bag, box, coin}, {}), MCScene("storage", {bag, coin, key}, {key}),
              MCScene("last", {bag}, {}), MCScene("veh", {bag, coin, key}, {bag}),
              MCScene("inv", Obj, {}) }

MCSymmetry == Permutations({n1, n2}) \cup Permutations({c1, c2})
=============================================================================
