----------------------------- MODULE MCObjects -----------------------------
(***************************************************************************)
(* Who has what, in scenes: two characters, a vehicle, and kits of three   *)
(* things that meet in the commands; a customer in a shop, and at a        *)
(* doctor's.                                                               *)
(***************************************************************************)
EXTENDS Objects, TLC

CONSTANTS c1, c2, x1, x2, x3

VARIABLES
  scene,
  cash, stick, goods, stock, lastsort, till, bank, made, robbed, beaten   \* Shops

Prices == [k \in {"copy", "piece"} |-> 40]

Shop == INSTANCE Shops WITH
  Buyer <- {"ann"}, Made <- {"copy"}, Other <- {"piece"}, Price <- Prices, Worth <- Prices, Luck <- {-25, 0, 5},
  Heals <- FALSE, CashOnly <- FALSE, Fee <- 20, UsesBank <- TRUE, MinOutside <- 30, MaxOutside <- 60, Regular <- 40,
  Hands <- 2, Shelf <- 3, Rich <- 60, Mint <- 200, NoStick <- -1

Clinic == INSTANCE Shops WITH
  Buyer <- {"ann"}, Made <- {"copy"}, Other <- {"piece"}, Price <- Prices, Worth <- Prices, Luck <- {0},
  Heals <- TRUE, CashOnly <- FALSE, Fee <- 20, UsesBank <- FALSE, MinOutside <- 30, MaxOutside <- 60, Regular <- 60,
  Hands <- 2, Shelf <- 3, Rich <- 80, Mint <- 200, NoStick <- -1

trading == <<cash, stick, goods, stock, lastsort, till, bank, made, robbed, beaten>>

MCInit ==
  /\ scene \in {"things", "shop", "clinic"}
  /\ Init
  /\ IF scene = "shop" THEN Shop!Init ELSE Clinic!Init
  /\ scene = "things" => stick["ann"] = -1
  /\ scene # "things" => o.kind[x1] = "bag" /\ o.kind[x2] = "bag"

Handles == scene = "things" /\ Next /\ UNCHANGED <<scene, trading>>
Trades  == scene = "shop" /\ Shop!Next /\ UNCHANGED <<scene, o>>
Treats  == scene = "clinic" /\ Clinic!Next /\ UNCHANGED <<scene, o>>

MCNext == Handles \/ Trades \/ Treats

MCSpec == MCInit /\ [][MCNext]_<<scene, o, trading>>

-----------------------------------------------------------------------------
\* No customer owes, nor a keeper who never paid for being rid of something; trade makes no
\* nuyen, and one sample is kept of a kind (Shops).
ShopSound == IF scene = "shop" THEN Shop!ShopSound ELSE Clinic!ShopSound

-----------------------------------------------------------------------------

Chars == {c1, c2}
Objs  == {x1, x2, x3}

\* Characters are only compared.
CharSymmetry == Permutations(Chars)

KitOf(a, b, c) == x1 :> a @@ x2 :> b @@ x3 :> c

Triples ==
  { KitOf("vest", "holster", "pistol"),
    KitOf("vest", "clip", "pistol"),
    KitOf("vest", "star", "cash"),
    KitOf("vest", "quiver", "corpse"),
    KitOf("quiver", "star", "star"),
    KitOf("quiver", "arrow", "bow"),
    KitOf("bag", "bag", "corpse"),
    KitOf("bag", "drink", "corpse"),
    KitOf("bag", "chip", "corpse"),
    KitOf("pistol", "scope", "patch") }

GodOnly == {}
Weights == [k \in Kind |-> IF k \in {"vest", "drink", "corpse"} THEN 2 ELSE 1]
OnePerPocket == [p \in Pocket |-> 1]

=============================================================================
