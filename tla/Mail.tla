-------------------------------- MODULE Mail --------------------------------
(***************************************************************************)
(* The mud mail system (src/src/mail.cpp).  Letters lie in one file of     *)
(* equal blocks, chained like the clusters of a FAT: a header block and    *)
(* data blocks, each naming the next one.  Which block is whose is kept in *)
(* memory only (mail_index, free_list) and found again at boot by reading  *)
(* the file from end to end (scan_file).                                   *)
(*                                                                         *)
(* The server is one thread, so store_mail and read_delete are never       *)
(* interleaved with one another; what cuts them is the end of the process. *)
(* Every write_to_file is therefore a step of its own, and Die may come    *)
(* between any two of them.                                                *)
(*                                                                         *)
(* A block is abstracted to its kind, the block it names and which part of *)
(* which letter its text is.  A deleted block keeps its text, as on disk.  *)
(***************************************************************************)
EXTENDS Naturals, Sequences, SequencesExt

CONSTANTS
  Persons,    \* idnums of players
  Letters,    \* what may be posted
  To,         \* To[l]: the idnum the letter is addressed to
  Parts,      \* Parts[l]: the number of blocks the text of l fills
  MaxBlocks   \* bound: the file holds at most so many blocks

ASSUME MailAssumption ==
  /\ To \in [Letters -> Persons]
  /\ Parts \in [Letters -> Nat \ {0}]
  /\ MaxBlocks \in Nat

VARIABLES
  file,       \* the blocks of the mail file, in order
  free_list,  \* positions of free blocks, the next one to be used first
  mail_index, \* mail_index[r]: positions of the letters to r, the newest first
  call,       \* the function that is running and its locals
  given,      \* the mail object the last step gave to a player
  torn        \* history: did a process end between a link and the block it names?

vars == <<file, free_list, mail_index, call, given, torn>>

LAST_BLOCK == 0            \* positions are counted from 1, so 0 links to nothing
Positions  == 1 .. MaxBlocks
Links      == 0 .. MaxBlocks
Text       == UNION {[letter : {l}, part : 1 .. Parts[l]] : l \in Letters}

Header(l, next)  == [kind |-> "header", next |-> next,
                     text |-> [letter |-> l, part |-> 1]]
Data(l, k, next) == [kind |-> "data", next |-> next,
                     text |-> [letter |-> l, part |-> k]]
Deleted(b)       == [b EXCEPT !.kind = "deleted", !.next = LAST_BLOCK]

Scanning(p)      == [at |-> "scan", pos |-> p]
Idle             == [at |-> "idle"]
Linking(l, k, p) == [at |-> "link", letter |-> l, part |-> k, pos |-> p]
Filling(l, k, p) == [at |-> "fill", letter |-> l, part |-> k, pos |-> p]
Receiving(r)     == [at |-> "receive", to |-> r]
Following(r, t, p) == [at |-> "follow", to |-> r, text |-> t, pos |-> p]
Looping(r)       == [at |-> "loop", to |-> r]

NoMail == [to |-> "nobody"]

-----------------------------------------------------------------------------
(* The free list, the index and the file. *)

\* Mutant: the top of the list is used but not taken off.
PopRest_Keeps == free_list

\* pop_free_list: the top of the list, or the end of the file.
PopPos  == IF free_list = <<>> THEN Len(file) + 1 ELSE Head(free_list)
PopRest == IF free_list = <<>> THEN <<>> ELSE Tail(free_list)

\* push_free_list
Push(p) == free_list' = <<p>> \o free_list

\* write_to_file: overwrites a block, or appends one at the end.
Written(p, b) == IF p <= Len(file) THEN [file EXCEPT ![p] = b] ELSE Append(file, b)

\* index_mail: the newest position comes first.
Indexed(r, p) == [mail_index EXCEPT ![r] = <<p>> \o @]

Lying(l) == \E p \in 1 .. Len(file) : file[p].kind = "header" /\ file[p].text.letter = l

Init ==
  /\ file = <<>>
  /\ free_list = <<>>
  /\ mail_index = [r \in Persons |-> <<>>]
  /\ call = Idle
  /\ given = NoMail
  /\ torn = FALSE

-----------------------------------------------------------------------------
(* store_mail, one step per block written *)

\* Bounds: a letter is posted again only when it no longer lies in the file,
\* and only if the file has room for the whole of it.
StoreMail(l) ==
  /\ call = Idle
  /\ ~Lying(l)
  /\ Len(file) + Parts[l] <= MaxBlocks + Len(free_list)
  /\ free_list' = PopRest
  /\ mail_index' = Indexed(To[l], PopPos)
  /\ file' = Written(PopPos, Header(l, LAST_BLOCK))
  /\ call' = IF Parts[l] = 1 THEN Idle ELSE Linking(l, 1, PopPos)
  /\ given' = NoMail
  /\ UNCHANGED torn

\* The next block is taken and the previous one rewritten to name it ...
LinkBlock ==
  /\ call.at = "link"
  /\ free_list' = PopRest
  /\ file' = [file EXCEPT ![call.pos].next = PopPos]
  /\ call' = Filling(call.letter, call.part + 1, PopPos)
  /\ given' = NoMail
  /\ UNCHANGED <<mail_index, torn>>

\* ... before it is written itself.
FillBlock ==
  /\ call.at = "fill"
  /\ file' = Written(call.pos, Data(call.letter, call.part, LAST_BLOCK))
  /\ call' = IF call.part = Parts[call.letter] THEN Idle
             ELSE Linking(call.letter, call.part, call.pos)
  /\ given' = NoMail
  /\ UNCHANGED <<free_list, mail_index, torn>>

-----------------------------------------------------------------------------
(* postmaster_receive_mail: read_delete as long as has_mail *)

has_mail(r) == mail_index[r] # <<>>

Receive(r) ==
  /\ call = Idle
  /\ has_mail(r)
  /\ call' = Receiving(r)
  /\ given' = NoMail
  /\ UNCHANGED <<file, free_list, mail_index, torn>>

\* The loop of postmaster_receive_mail after a letter, with the index it left.
NextMail(r, index) == IF index[r] = <<>> THEN Idle ELSE Receiving(r)

\* Mutant: the newest letter is read, the front of the list.
ReadHeader_Newest ==
  LET r == call.to
      pos == Head(mail_index[r])
      block == file[pos]
      index == [mail_index EXCEPT ![r] = Tail(@)]
  IN /\ call.at = "receive"
     /\ mail_index' = index
     /\ given' = NoMail
     /\ call' = Following(r, <<block.text>>, block.next)
     /\ file' = [file EXCEPT ![pos] = Deleted(block)]
     /\ Push(pos)
     /\ UNCHANGED torn

\* Mutant: the position that was read stays in the index.
ReadHeader_KeepsEntry ==
  LET r == call.to
      pos == Last(mail_index[r])
      block == file[pos]
  IN /\ call.at = "receive"
     /\ IF block.kind # "header"
        THEN /\ given' = [to |-> r, text |-> <<>>]
             /\ call' = NextMail(r, mail_index)
             /\ UNCHANGED <<file, free_list>>
        ELSE /\ given' = NoMail
             /\ call' = Following(r, <<block.text>>, block.next)
             /\ file' = [file EXCEPT ![pos] = Deleted(block)]
             /\ Push(pos)
     /\ UNCHANGED <<mail_index, torn>>

\* read_delete up to its loop.  A position that holds no header is forgotten
\* and its block neither read nor freed ("Oh dear"): the player gets an error text.
ReadHeader ==
  LET r == call.to
      pos == Last(mail_index[r])
      block == file[pos]
      index == [mail_index EXCEPT ![r] = Front(@)]
  IN /\ call.at = "receive"
     /\ mail_index' = index
     /\ IF block.kind # "header"
        THEN /\ given' = [to |-> r, text |-> <<>>]
             /\ call' = NextMail(r, index)
             /\ UNCHANGED <<file, free_list>>
        ELSE /\ given' = NoMail
             /\ call' = Following(r, <<block.text>>, block.next)
             /\ file' = [file EXCEPT ![pos] = Deleted(block)]
             /\ Push(pos)
     /\ UNCHANGED torn

\* One turn of the loop: append the text, mark the block, go where it pointed.
\* A header or a deleted block holds a negative mark where a data block holds its
\* link; read_from_file and write_to_file refuse such a position, so the loop goes
\* round with the same buffer for ever, and only the end of the process ends it.
FollowLink ==
  LET r == call.to
      block == file[call.pos]
  IN /\ call.at = "follow" /\ call.pos \in 1 .. Len(file)
     /\ file' = [file EXCEPT ![call.pos] = Deleted(block)]
     /\ Push(call.pos)
     /\ call' = IF block.kind = "data"
                THEN Following(r, Append(call.text, block.text), block.next)
                ELSE Looping(r)
     /\ given' = NoMail
     /\ UNCHANGED <<mail_index, torn>>

\* A link behind the end of the file: fread reads nothing, and what is appended,
\* written as a deleted block and followed is what the buffer happened to hold.
FollowIntoNothing ==
  /\ call.at = "follow" /\ call.pos > Len(file)
  /\ \E garbage \in Text, next \in 0 .. Len(file) + 1 :
       /\ file' = Append(file, Deleted([kind |-> "data", next |-> next, text |-> garbage]))
       /\ \/ call' = Following(call.to, Append(call.text, garbage), next)
          \/ call' = Looping(call.to)
  /\ Push(call.pos)
  /\ given' = NoMail
  /\ UNCHANGED <<mail_index, torn>>

HandMail ==
  /\ call.at = "follow" /\ call.pos = LAST_BLOCK
  /\ given' = [to |-> call.to, text |-> call.text]
  /\ call' = NextMail(call.to, mail_index)
  /\ UNCHANGED <<file, free_list, mail_index, torn>>

-----------------------------------------------------------------------------
(* The end of the process and the next boot *)

\* The memory is lost; the next process begins with scan_file.
Die ==
  /\ torn' = (torn \/ call.at = "fill")
  /\ free_list' = <<>>
  /\ mail_index' = [r \in Persons |-> <<>>]
  /\ call' = Scanning(1)
  /\ given' = NoMail
  /\ UNCHANGED file

\* scan_file: one turn of its loop.  A data block belongs to whoever names it.
ScanBlock ==
  LET p == call.pos
      block == file[p]
  IN /\ call.at = "scan" /\ p <= Len(file)
     /\ mail_index' = IF block.kind = "header" THEN Indexed(To[block.text.letter], p)
                      ELSE mail_index
     /\ IF block.kind = "deleted" THEN Push(p) ELSE UNCHANGED free_list
     /\ call' = Scanning(p + 1)
     /\ UNCHANGED <<file, given, torn>>

Scanned ==
  /\ call.at = "scan" /\ call.pos > Len(file)
  /\ call' = Idle
  /\ UNCHANGED <<file, free_list, mail_index, given, torn>>

Next ==
  \/ \E l \in Letters : StoreMail(l)
  \/ LinkBlock \/ FillBlock
  \/ \E r \in Persons : Receive(r)
  \/ ReadHeader \/ FollowLink \/ FollowIntoNothing \/ HandMail
  \/ Die \/ ScanBlock \/ Scanned

Spec == Init /\ [][Next]_vars

\* main() goes on with a command it has begun: read_delete does not wait.
FairSpec == Spec /\ WF_vars(ReadHeader \/ FollowLink \/ HandMail)

-----------------------------------------------------------------------------
(* Properties *)

Blocks  == 1 .. Len(file)
Live(p) == file[p].kind # "deleted"
At(S)   == call.at \in S

CallType ==
  {Idle} \cup [at : {"scan"}, pos : 1 .. MaxBlocks + 1]
    \cup [at : {"link", "fill"}, letter : Letters, part : Nat \ {0}, pos : Positions]
    \cup [at : {"receive", "loop"}, to : Persons]
    \cup [at : {"follow"}, to : Persons, text : Seq(Text), pos : Links]

TypeOK ==
  /\ file \in Seq([kind : {"header", "data", "deleted"}, next : Links, text : Text])
  /\ Len(file) <= MaxBlocks
  /\ free_list \in Seq(Positions)
  /\ mail_index \in [Persons -> Seq(Positions)]
  /\ call \in CallType
  /\ torn \in BOOLEAN
  /\ given \in {NoMail} \cup [to : Persons, text : Seq(Text)]

\* The block taken by pop_free_list and named by a link, but not yet written.
Reserved == IF At({"fill"}) THEN {call.pos} ELSE {}

\* The blocks scan_file has come to; afterwards all of them.
Seen == IF At({"scan"}) THEN {p \in Blocks : p < call.pos} ELSE Blocks

\* The free list names every deleted block of the file once and nothing else, or
\* two letters would be written into the same block (push_free_list after
\* every DELETED_BLOCK written, pop_free_list before every block used).
FreeListExact ==
  ~torn => /\ IsInjective(free_list)
           /\ ToSet(free_list) = {p \in Seen : ~Live(p)} \ Reserved

\* The index names every header of the file once, under its addressee.
HeadersTo(r) == {p \in Seen : file[p].kind = "header" /\ To[file[p].text.letter] = r}
IndexExact ==
  ~torn => \A r \in Persons : /\ IsInjective(mail_index[r])
                              /\ ToSet(mail_index[r]) = HeadersTo(r)

\* Chains are apart: a link names a data block that holds the next part of the
\* same letter, and no block is named twice, the next block of the letter being
\* read included.  So a reader gets no text but his own, and no block is freed
\* under a letter that is still waiting.
Names(p, q) == Live(p) /\ file[p].next = q
ChainsApart ==
  ~torn =>
    /\ \A p \in Blocks, q \in Positions \ Reserved :
         Names(p, q) => /\ q \in Blocks /\ file[q].kind = "data"
                        /\ file[q].text = [letter |-> file[p].text.letter,
                                            part |-> file[p].text.part + 1]
    /\ \A p1, p2 \in Blocks, q \in Positions :
         Names(p1, q) /\ Names(p2, q) => p1 = p2
    /\ At({"follow"}) => \A p \in Blocks : ~Names(p, call.pos) \/ call.pos = LAST_BLOCK

\* The file, the free list and the index tell the same story.
FileExact == FreeListExact /\ IndexExact /\ ChainsApart

\* The same, with every field of its type.
FileSound == TypeOK /\ FileExact

\* The text of a mail object is the beginning of one letter to the player who gets
\* it, part after part: never another's text, never stale text of a freed block.
OwnText ==
  given # NoMail =>
    /\ given.text # <<>>
    /\ \A k \in DOMAIN given.text :
         given.text[k] = [letter |-> given.text[1].letter, part |-> k]
    /\ To[given.text[1].letter] = given.to

\* So it is as long as no process ended between a link and the block it names.
OwnLetter == ~torn => OwnText

\* read_delete ends: the loop over following_block reaches LAST_BLOCK, if the process
\* lives that long.
ReadsEnd == At({"receive", "follow"}) ~> (torn \/ At({"idle", "scan"}))

-----------------------------------------------------------------------------
(* The post office that the file, the index and the call show a player *)

\* How many blocks hang on p, p included, none of them still to be written.
ChainLength ==
  LET Length[p \in Links, fuel \in 0 .. MaxBlocks] ==
        IF p = LAST_BLOCK \/ p \in Reserved \/ p \notin Blocks \/ fuel = 0 THEN 0
        ELSE 1 + Length[file[p].next, fuel - 1]
  IN [p \in Links |-> Length[p, MaxBlocks]]

\* Until scan_file has found the letters they lie as it will find them: it puts
\* what it finds in front, so the last block ends first.
Index(r) ==
  IF ~At({"scan"}) THEN mail_index[r]
  ELSE Reverse(SelectSeq([p \in Blocks |-> p],
                         LAMBDA p : /\ file[p].kind = "header"
                                    /\ To[file[p].text.letter] = r))

Item(p) == [letter |-> file[p].text.letter, parts |-> ChainLength[p]]

AsItem(text) == [letter |-> text[1].letter, parts |-> Len(text)]

Office == INSTANCE MailSpec WITH
  box <- [r \in Persons |-> [i \in 1 .. Len(Index(r)) |-> Item(Reverse(Index(r))[i])]],
  counter <-
    CASE At({"link", "fill"}) -> [does |-> "write", letter |-> call.letter]
      [] At({"receive"}) -> [does |-> "receive", to |-> call.to]
      [] At({"follow"}) ->
           [does |-> "give", to |-> call.to,
            item |-> [letter |-> call.text[1].letter,
                      parts |-> Len(call.text) + ChainLength[call.pos]]]
      [] OTHER -> [does |-> "nothing"],
  given <- IF given = NoMail THEN NoMail
           ELSE [to |-> given.to, item |-> AsItem(given.text)]

\* The mail system keeps the promises of MailSpec: letters are handed over in the
\* order they were posted, whole, once; a crash shortens none but the letter being
\* written and loses none but the letter being read.  The exception is a process
\* that ended between a link and the block it names.
KeepsPromise ==
  Office!Init /\ [][torn' \/ Office!Next]_<<Office!vars, torn>>
=============================================================================
