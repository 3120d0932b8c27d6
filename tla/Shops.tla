-------------------------------- MODULE Shops --------------------------------
(***************************************************************************)
(* A shop: the keeper's objects and nuyen, the account of the shop, and    *)
(* its customers with cash, a credstick and what they carry (or, at a      *)
(* doctor's, what is implanted).  Every request first lets the account     *)
(* grow towards its regular amount.  lastsort counts the keeper's objects  *)
(* that were put in order; whatever he holds beyond it is new, and is      *)
(* sorted in before he buys, sells or lists: of a kind he produces he      *)
(* keeps one sample and sells copies.                                      *)
(*                                                                         *)
(* Amounts are small integers; kinds of objects stand for their            *)
(* prototypes.  negotiate is done in its own arithmetic, over the          *)
(* successes in Luck.                                                      *)
(***************************************************************************)
EXTENDS Integers, FiniteSets, SequencesExt

CONSTANTS
  Buyer,      \* customers
  Made,       \* kinds in producing
  Other,      \* further kinds of the types the shop buys
  Price,      \* buy_price of every kind
  Worth,      \* sell_price
  Luck,       \* net successes of a customer over the keeper
  Heals,      \* EXTRA_DOCTOR
  CashOnly,   \* EXTRA_CASH_ONLY
  Fee,        \* what a doctor takes for a treatment
  UsesBank,   \* EXTRA_USES_BANK
  MinOutside, \* MIN_OUTSIDE_BANK
  MaxOutside, \* MAX_OUTSIDE_BANK
  Regular,    \* regen_amount
  Hands,      \* CAN_CARRY_N
  Shelf,      \* bound of the model: objects a keeper holds
  Rich,       \* bound of the model: nuyen of one customer
  Mint,       \* bound of the model: nuyen made
  NoStick     \* no credstick

VARIABLES
  cash,      \* GET_NUYEN of a customer
  stick,     \* what is on the credstick
  goods,     \* how many of a kind a customer carries
  stock,     \* keeper->carrying, from the head
  lastsort,  \* SHOP_SORT
  till,      \* GET_NUYEN(keeper)
  bank,      \* SHOP_BANK
  made,      \* history: nuyen that came into being
  robbed,    \* history: objects left the keeper uncounted
  beaten     \* history: a customer was paid for taking something

vars == <<cash, stick, goods, stock, lastsort, till, bank, made, robbed, beaten>>
history == <<robbed, beaten>>

Kind == Made \cup Other
Smaller(a, b) == IF a < b THEN a ELSE b
Larger(a, b) == IF a > b THEN a ELSE b

Carried(b) == FoldSet(LAMBDA k, n : n + goods[b][k], 0, Kind)

-----------------------------------------------------------------------------
(* Prices.                                                                  *)

\* The quotients of the code; the bounds of a quarter hold one way only: with 16 successes
\* more than the customer the keeper pays him for taking what he wanted to buy.
negotiate(base, buying) ==
  { IF num > 0
      THEN IF buying THEN Larger((base * 3) \div 4, base - num * (base \div 20))
                     ELSE Smaller((base * 5) \div 4, base + num * (base \div 15))
      ELSE IF buying THEN Smaller((base * 5) \div 4, base + num * (base \div 15))
                     ELSE Larger((base * 3) \div 4, base - num * (base \div 20)) : num \in Luck }

\* A doctor does not negotiate.
AskedFor(k) == IF Heals THEN {Price[k]} ELSE negotiate(Price[k], TRUE)
PaidFor(k) == IF Heals THEN {Worth[k]} ELSE negotiate(Worth[k], FALSE)

-----------------------------------------------------------------------------
(* The keeper's objects.                                                    *)

Shop == [stock |-> stock, lastsort |-> lastsort]

\* slide_obj: an object of a produced kind is destroyed, another put in front.
Slid(s, k) == IF k \in Made THEN s ELSE [stock |-> <<k>> \o s.stock, lastsort |-> s.lastsort + 1]

\* A first object of a produced kind is the sample.
Placed(s, k) ==
  IF k \in Made /\ k \notin ToSet(s.stock)
  THEN [stock |-> <<k>> \o s.stock, lastsort |-> s.lastsort + 1] ELSE Slid(s, k)

\* What is not counted is taken off the head, and put back last in first out.
sort_keeper_objs(s) ==
  LET new == Len(s.stock) - s.lastsort IN
  IF new <= 0 THEN s
  ELSE FoldLeft(Placed, [stock |-> SubSeq(s.stock, new + 1, Len(s.stock)), lastsort |-> s.lastsort],
                Reverse(SubSeq(s.stock, 1, new)))

\* A produced object is copied; any other leaves the keeper.
Sold(s, k) == IF k \in Made THEN s ELSE [stock |-> RemoveFirst(s.stock, k), lastsort |-> s.lastsort - 1]

KeepShop(s) == stock' = s.stock /\ lastsort' = s.lastsort

-----------------------------------------------------------------------------
(* regen_amount_shopkeeper, the first step of every request.  Whatever part *)
(* of a day has passed: nothing is added, or all that is missing.           *)

Grown == { bank } \cup (IF till + bank < Regular THEN { Regular - till } ELSE {})

\* The keeper says something and nothing else happens.
JustGrow ==
  /\ \E b \in Grown : bank' = b /\ made' = made + (b - bank)
  /\ UNCHANGED <<cash, stick, goods, till, history>>

shopping_value == JustGrow /\ UNCHANGED <<stock, lastsort>>

shopping_list == JustGrow /\ KeepShop(sort_keeper_objs(Shop))

-----------------------------------------------------------------------------
(* shopping_buy                                                             *)

Money(b, byCash) == IF byCash THEN cash[b] ELSE stick[b]

\* In cash, or from the credstick if there is one.
Means(b) == IF stick[b] = NoStick THEN {TRUE} ELSE IF CashOnly THEN {TRUE} ELSE BOOLEAN

Pay(b, byCash, amount) ==
  IF byCash THEN cash' = [cash EXCEPT ![b] = @ - amount] /\ UNCHANGED stick
            ELSE stick' = [stick EXCEPT ![b] = @ - amount] /\ UNCHANGED cash

\* How often the loop is passed: its condition asks for the full price of the next one.
Bought(s, b, k, price, buynum, byCash) ==
  LET stocked(n) == k \in Made \/ Cardinality({ i \in DOMAIN s.stock : s.stock[i] = k }) >= n IN
  Max({0} \cup { n \in 1 .. buynum : /\ Money(b, byCash) - (n - 1) * price >= Price[k]
                                     /\ Carried(b) + n <= Hands /\ stocked(n) })

\* What the keeper has beyond MAX_OUTSIDE_BANK goes to the bank.
Deposited(t) == IF UsesBank /\ t > MaxOutside THEN t - MaxOutside ELSE 0

\* Mutant: what was paid by credstick is lost.
Earn_CashOnly(byCash, amount, account, gain) ==
  LET t == till + (IF byCash THEN amount ELSE 0) IN
  till' = t - Deposited(t) /\ bank' = account + Deposited(t) /\ made' = made + gain

Earn(byCash, amount, account, gain) ==
  LET t == till + (IF byCash THEN amount ELSE 0)
      a == account + (IF byCash THEN 0 ELSE amount) IN
  till' = t - Deposited(t) /\ bank' = a + Deposited(t) /\ made' = made + gain

shopping_buy(b, k, buynum) ==
  /\ ~Heals
  /\ LET s == sort_keeper_objs(Shop) IN
     /\ k \in ToSet(s.stock)
     /\ \E account \in Grown, byCash \in Means(b), price \in AskedFor(k) :
          LET n == IF price > Money(b, byCash) THEN 0 ELSE Bought(s, b, k, price, buynum, byCash)
              rest == IF k \in Made THEN s
                      ELSE FoldLeft(LAMBDA t, i : Sold(t, k), s, [i \in 1 .. n |-> i]) IN
          /\ Money(b, byCash) - n * price <= Rich
          /\ KeepShop(rest)
          /\ goods' = [goods EXCEPT ![b][k] = @ + n]
          /\ Pay(b, byCash, n * price)
          /\ IF n = 0 THEN till' = till /\ bank' = account /\ made' = made + (account - bank)
             ELSE Earn(byCash, n * price, account, account - bank)
          /\ beaten' = (beaten \/ n * price < 0)
  /\ UNCHANGED robbed

\* An implant: one at a time, and none of a kind twice.  The till of a doctor is not emptied.
buy_implant(b, k) ==
  /\ Heals
  /\ LET s == sort_keeper_objs(Shop) IN
     /\ k \in ToSet(s.stock) /\ goods[b][k] = 0
     /\ \E account \in Grown, byCash \in Means(b), price \in AskedFor(k) :
          /\ price <= Money(b, byCash)
          /\ KeepShop(Sold(s, k))
          /\ goods' = [goods EXCEPT ![b][k] = 1]
          /\ Pay(b, byCash, price)
          /\ till' = till + (IF byCash THEN price ELSE 0)
          /\ bank' = account + (IF byCash THEN 0 ELSE price)
          /\ made' = made + (account - bank)
  /\ UNCHANGED history

buy_treatment(b) ==
  /\ Heals
  /\ \E account \in Grown, byCash \in Means(b) :
       /\ Money(b, byCash) >= Fee
       /\ Pay(b, byCash, Fee)
       /\ till' = till + (IF byCash THEN Fee ELSE 0)
       /\ bank' = account + (IF byCash THEN 0 ELSE Fee)
       /\ made' = made + (account - bank)
  /\ KeepShop(sort_keeper_objs(Shop))
  /\ UNCHANGED <<goods, history>>

-----------------------------------------------------------------------------
(* shopping_sell.  The loop looks for the next object under the first word  *)
(* of the request, which is the number if one is given: one is sold.        *)

\* A keeper short of cash draws on the bank.
Drawn(t, account) == IF t < MinOutside THEN Smaller(MaxOutside - t, account) ELSE 0

Receive(b, byCash, amount) ==
  /\ Money(b, byCash) + amount <= Rich
  /\ Pay(b, byCash, -amount)

shopping_sell(b, k) ==
  /\ ~Heals /\ goods[b][k] > 0 /\ Len(stock) < Shelf
  /\ \E account \in Grown, byCash \in Means(b), price \in PaidFor(k) :
       LET drawn == Drawn(till - price, account) IN
       /\ till + account >= price
       /\ Receive(b, byCash, price)
       /\ till' = till - price + drawn /\ bank' = account - drawn
       /\ made' = made + (account - bank)
  /\ goods' = [goods EXCEPT ![b][k] = @ - 1]
  /\ KeepShop(Slid(sort_keeper_objs(Shop), k))
  /\ UNCHANGED history

\* The doctor pays the customer and keeps the nuyen.
sell_implant(b, k) ==
  /\ Heals /\ goods[b][k] > 0 /\ Len(stock) < Shelf
  /\ \E account \in Grown, byCash \in Means(b), price \in PaidFor(k) :
       LET drawn == Drawn(till, account) IN
       /\ till + account >= price
       /\ made + (account - bank) + price <= Mint
       /\ Receive(b, byCash, price)
       /\ till' = till + drawn /\ bank' = account - drawn
       /\ made' = made + (account - bank) + price
  /\ goods' = [goods EXCEPT ![b][k] = @ - 1]
  /\ stock' = (IF k \in Made THEN stock ELSE <<k>> \o stock)
  /\ UNCHANGED <<lastsort, history>>

-----------------------------------------------------------------------------
(* What happens to the keeper beside his trade.                             *)

Give(b, k) ==
  /\ ~Heals /\ goods[b][k] > 0 /\ Len(stock) < Shelf
  /\ goods' = [goods EXCEPT ![b][k] = @ - 1] /\ stock' = <<k>> \o stock
  /\ UNCHANGED <<cash, stick, lastsort, till, bank, made, history>>

\* do_steal takes an object off the keeper and does not count it.
Steal(b, k) ==
  /\ ~Heals /\ k \in ToSet(stock) /\ Carried(b) + 1 < Hands
  /\ goods' = [goods EXCEPT ![b][k] = @ + 1] /\ stock' = RemoveFirst(stock, k)
  /\ robbed' = (robbed \/ Min({ i \in DOMAIN stock : stock[i] = k }) > Len(stock) - lastsort)
  /\ UNCHANGED <<cash, stick, lastsort, till, bank, made, beaten>>

\* The keeper's own command: nothing counts as sorted, in case he drops it.
Drop ==
  /\ stock # <<>> /\ lastsort' = 0 /\ stock' \in {stock, Tail(stock), <<>>}
  /\ UNCHANGED <<cash, stick, goods, till, bank, made, history>>

shop_keeper ==
  \/ shopping_value \/ shopping_list
  \/ \E b \in Buyer : buy_treatment(b)
  \/ \E b \in Buyer, k \in Kind :
       \/ \E buynum \in 1 .. 2 : shopping_buy(b, k, buynum)
       \/ buy_implant(b, k) \/ shopping_sell(b, k) \/ sell_implant(b, k)

-----------------------------------------------------------------------------
\* The zone has loaded the keeper with one object of every kind produced, and another.
Init ==
  /\ cash = [b \in Buyer |-> Rich] /\ stick \in [Buyer -> {NoStick, Rich}]
  /\ goods = [b \in Buyer |-> [k \in Kind |-> 0]]
  /\ stock = SetToSeq(Kind) /\ lastsort = 0
  /\ till = MinOutside /\ bank = 0
  /\ made = 0 /\ robbed = FALSE /\ beaten = FALSE

Next ==
  \/ shop_keeper
  \/ \E b \in Buyer, k \in Kind : Give(b, k) \/ Steal(b, k)
  \/ Drop

Spec == Init /\ [][Next]_vars

-----------------------------------------------------------------------------
(* Properties.                                                              *)

\* No customer ever owes anything: whatever is haggled, bought by the piece or by the dozen,
\* paid in cash or from a credstick. Nor does the keeper or his account, whatever is drawn from
\* it or put into it, until he haggled so well that he paid for being rid of something: that
\* is taken from a till and an account nobody looks into.
Solvent ==
  /\ ~beaten => till >= 0 /\ bank >= 0
  /\ \A b \in Buyer : cash[b] >= 0 /\ (stick[b] # NoStick => stick[b] >= 0)

\* Trade moves nuyen and makes none: beside what an account grows by, only a doctor who buys
\* back an implant pays with nuyen from nowhere.
Total == till + bank + FoldSet(LAMBDA b, n : n + cash[b] + (IF stick[b] = NoStick THEN 0 ELSE stick[b]), 0, Buyer)
Opening == MinOutside + FoldSet(LAMBDA b, n : n + Rich + (IF stick[b] = NoStick THEN 0 ELSE Rich), 0, Buyer)
Balanced == Total = Opening + made

\* Of a kind he produces the keeper has one sample among what he has sorted, unless he was robbed.
Sorted == SubSeq(stock, Len(stock) - lastsort + 1, Len(stock))
OneSample ==
  ~robbed => /\ lastsort \in 0 .. Len(stock)
             /\ \A i, j \in DOMAIN Sorted : i # j /\ Sorted[i] = Sorted[j] => Sorted[i] \in Other

ShopSound == Solvent /\ Balanced /\ OneSample

=============================================================================
