------------------------------ MODULE MailSpec ------------------------------
(***************************************************************************)
(* What the post office promises (src/src/mail.cpp seen from outside):     *)
(* every person has a box of letters, a posted letter comes last in the    *)
(* box of its addressee and grows to its full length, "receive" hands over *)
(* the letters of a box from the first to the last, each with its whole    *)
(* text, and none of it is left behind.  When the server goes down, the    *)
(* letter at the counter stays as far as it was written or, if it was      *)
(* being handed over, is lost; the letters of a box come back in any       *)
(* order.  The module knows nothing of files, blocks or links.             *)
(***************************************************************************)
EXTENDS Naturals, Sequences, SequencesExt

CONSTANTS
  Persons,   \* idnums of players
  Letters,   \* the letters somebody may post
  To,        \* To[l]: the addressee of l
  Parts      \* Parts[l]: how many parts the text of l has

VARIABLES
  box,       \* box[r]: the letters waiting for r, the oldest first
  counter,   \* what the post office is doing
  given      \* the letter the last step handed over

vars == <<box, counter, given>>

NoLetter == [to |-> "nobody"]
Closed   == [does |-> "nothing"]

Writing(l)      == [does |-> "write", letter |-> l]
Receiving(r)    == [does |-> "receive", to |-> r]
Giving(r, item) == [does |-> "give", to |-> r, item |-> item]

Init == /\ box = [r \in Persons |-> <<>>]
        /\ counter = Closed
        /\ given = NoLetter

\* The first part of l is in the box.
Post(l) ==
  /\ counter = Closed
  /\ box' = [box EXCEPT ![To[l]] = Append(@, [letter |-> l, parts |-> 1])]
  /\ counter' = IF Parts[l] = 1 THEN Closed ELSE Writing(l)
  /\ given' = NoLetter

\* One more part of the letter being written.
Extend(l) ==
  LET n == Len(box[To[l]])
      item == box[To[l]][n]
  IN /\ counter = Writing(l)
     /\ box' = [box EXCEPT ![To[l]][n].parts = @ + 1]
     /\ counter' = IF item.parts + 1 = Parts[l] THEN Closed ELSE counter
     /\ given' = NoLetter

Ask(r) ==
  /\ counter = Closed
  /\ box[r] # <<>>
  /\ counter' = Receiving(r)
  /\ given' = NoLetter
  /\ UNCHANGED box

\* The oldest letter leaves the box.
Take(r) ==
  /\ counter = Receiving(r)
  /\ counter' = Giving(r, Head(box[r]))
  /\ box' = [box EXCEPT ![r] = Tail(@)]
  /\ given' = NoLetter

\* It is handed over as it lay in the box; then comes the next one, if any.
Hand(r) ==
  /\ counter.does = "give" /\ counter.to = r
  /\ given' = [to |-> r, item |-> counter.item]
  /\ counter' = IF box[r] = <<>> THEN Closed ELSE Receiving(r)
  /\ UNCHANGED box

Crash ==
  /\ counter' = Closed
  /\ given' = NoLetter
  /\ \A r \in Persons : /\ Len(box'[r]) = Len(box[r])
                        /\ ToSet(box'[r]) = ToSet(box[r])

Next == \/ \E l \in Letters : Post(l) \/ Extend(l)
        \/ \E r \in Persons : Ask(r) \/ Take(r) \/ Hand(r)
        \/ Crash

Spec == Init /\ [][Next]_vars
=============================================================================
