-------------------------------- MODULE Boards --------------------------------
(***************************************************************************)
(* The bulletin boards.  Every board has an index of messages; the texts   *)
(* are in msg_storage, a table all boards share, and an entry of an index  *)
(* names its slot.  A writer's d->str points into that table, so a message *)
(* is on the board before its text is written.  Removing a message frees   *)
(* its slot and moves the entries behind it, a full board removes one by   *)
(* itself, and a board is saved to its file at the end of a text and at a  *)
(* removal; a reboot reads the files and gives out the slots anew.         *)
(*                                                                         *)
(* Three paths of the code break the table: "$abort" frees a text the      *)
(* table still points to, a message without text comes back from the file  *)
(* with a slot it does not own, and a post to a board full of messages     *)
(* that are never removed writes the slot of the next board's first        *)
(* message.  They set spoilt.                                              *)
(***************************************************************************)
EXTENDS Integers, Sequences, FiniteSetsExt

CONSTANTS
  Boards,       \* NUM_OF_BOARDS
  MaxMessages,  \* MAX_BOARD_MESSAGES
  Spare,        \* INDEX_SIZE is NUM_OF_BOARDS * MAX_BOARD_MESSAGES + 5
  Writer,       \* descriptors of players at a board
  Builder,      \* those whose level is LVL_BUILDER or more
  Id,           \* bound of the model: messages at a time
  Leaks,        \* bound of the model: slots lost to posts without headline
  None

BoardsAssumption == Boards \in Nat /\ MaxMessages \in Nat /\ Spare \in Nat /\ Id \subseteq Nat \ {0}

VARIABLES
  index,     \* msg_index: the messages of a board, in order
  text,      \* msg_storage: whose text is in a slot
  taken,     \* msg_storage_taken
  writes,    \* d->str: the slot a writer's lines go to, and the board
  file,      \* the file of a board
  spoilt     \* one of the three paths was taken

vars == <<index, text, taken, writes, file, spoilt>>

Board == 1 .. Boards
Slots == 1 .. Boards * MaxMessages + Spare

\* level: of the author, below LVL_BUILDER or not; done: the text was ended.
Entry == [id : Id, slot : Slots \cup {-1}, low : BOOLEAN, done : BOOLEAN]

-----------------------------------------------------------------------------
(* Changes of the tables, as functions of a state.                          *)

Tables == [index |-> index, text |-> text, taken |-> taken, file |-> file, spoilt |-> spoilt]

Become(s) ==
  /\ index' = s.index /\ text' = s.text /\ taken' = s.taken
  /\ file' = s.file /\ spoilt' = s.spoilt

Written(slot) == \E d \in Writer : writes[d] # None /\ writes[d].slot = slot

TextAt(s, slot) == IF slot = -1 THEN 0 ELSE s.text[slot]

\* The slot of an entry without text is read back, that of others is not.
Kept(s, e) == IF TextAt(s, e.slot) = 0 THEN e ELSE [e EXCEPT !.slot = -1]

\* Board_save_board: every entry, with its text if there is one.
Saved(s, b) ==
  [s EXCEPT !.file[b] = [i \in DOMAIN s.index[b] |-> [entry |-> Kept(s, s.index[b][i]), text |-> TextAt(s, s.index[b][i].slot)]]]

Delete(s, b, i) ==
  LET slot == s.index[b][i].slot IN
  Saved([s EXCEPT !.text[slot] = 0, !.taken = @ \ {slot}, !.index[b] = SubSeq(@, 1, i - 1) \o SubSeq(@, i + 1, Len(@))], b)

\* Mutant: the text of a writer can be removed.
DeleteUnchecked(s, b, i) == IF s.index[b][i].slot = -1 THEN s ELSE Delete(s, b, i)

\* Nothing happens while a writer is at the text.
Board_delete_msg(s, b, i) ==
  IF s.index[b][i].slot = -1 \/ Written(s.index[b][i].slot) THEN s ELSE Delete(s, b, i)

-----------------------------------------------------------------------------
(* Board_write_message and Board_reply_message                              *)

Full(s, b) == Len(s.index[b]) >= MaxMessages

\* A full board removes its first message of a player, and tries no other.
MakeRoom(s, b) ==
  LET low == { i \in DOMAIN s.index[b] : s.index[b][i].low } IN
  IF Full(s, b) /\ low # {} THEN Board_delete_msg(s, b, Min(low)) ELSE s

\* find_slot, -1 if there is none.
find_slot(s) == LET free == Slots \ s.taken IN IF free = {} THEN -1 ELSE Min(free)

\* The slot is written behind the last message: on a full board that is the
\* first entry of the next one.
Overflow(s, b, slot) ==
  IF b + 1 \in Board /\ s.index[b + 1] # <<>>
    THEN [s EXCEPT !.index[b + 1][1].slot = slot, !.spoilt = TRUE] ELSE s

Unused(s) ==
  Id \ UNION { { s.index[b][i].id : i \in DOMAIN s.index[b] } \cup { s.file[b][i].entry.id : i \in DOMAIN s.file[b] } : b \in Board }

\* A message is started: its entry is on the board, its text to be written.
Start(s, d, b, slot) ==
  /\ Unused(s) # {}
  /\ Become([s EXCEPT !.taken = @ \cup {slot},
                      !.index[b] = Append(@, [id |-> Min(Unused(s)), slot |-> slot, low |-> d \notin Builder, done |-> FALSE])])
  /\ writes' = [writes EXCEPT ![d] = [board |-> b, slot |-> slot]]

\* "We must have a headline!": the slot stays taken.
Owned(s) == UNION { { s.index[b][i].slot : i \in DOMAIN s.index[b] } : b \in Board }
Headless(s, slot) ==
  /\ Cardinality(s.taken \ Owned(s)) < Leaks
  /\ Become([s EXCEPT !.taken = @ \cup {slot}]) /\ UNCHANGED writes

Board_write_message(d, b) ==
  /\ writes[d] = None
  /\ LET s == MakeRoom(Tables, b)
         slot == find_slot(s) IN
     CASE Full(s, b) -> Become(Overflow(s, b, slot)) /\ UNCHANGED writes
       [] ~Full(s, b) /\ slot = -1 -> Become(s) /\ UNCHANGED writes
       [] OTHER -> Headless(s, slot) \/ Start(s, d, b, slot)

\* A reply needs a message that has a text, and takes its headline from it.
Board_reply_message(d, b) ==
  /\ writes[d] = None
  /\ \E i \in DOMAIN index[b] : TextAt(Tables, index[b][i].slot) # 0
  /\ LET s == MakeRoom(Tables, b)
         slot == find_slot(s) IN
     CASE Full(s, b) -> Become(Overflow(s, b, slot)) /\ UNCHANGED writes
       [] ~Full(s, b) /\ slot = -1 -> Become(s) /\ UNCHANGED writes
       [] OTHER -> Start(s, d, b, slot)

\* By the author or somebody whose level allows it; not while it is written.
Board_remove_msg(b) ==
  \E i \in DOMAIN index[b] :
    /\ index[b][i].slot # -1 /\ ~Written(index[b][i].slot)
    /\ Become(Board_delete_msg(Tables, b, i)) /\ UNCHANGED writes

-----------------------------------------------------------------------------
(* string_add                                                               *)

\* Whose text a writer's lines become part of.
Author(d) ==
  LET list == index[writes[d].board]
      own == { list[i].id : i \in { j \in DOMAIN list : list[j].slot = writes[d].slot } } IN
  IF own = {} THEN 0 ELSE Min(own)

Line(d) ==
  /\ writes[d] # None
  /\ text' = [text EXCEPT ![writes[d].slot] = Author(d)]
  /\ UNCHANGED <<index, taken, writes, file, spoilt>>

\* '@': the text is signed and the board saved.
Finish(d) ==
  /\ writes[d] # None
  /\ LET b == writes[d].board
         slot == writes[d].slot
         ended == [ i \in DOMAIN index[b] |-> [index[b][i] EXCEPT !.done = @ \/ index[b][i].slot = slot] ] IN
     Become(Saved([Tables EXCEPT !.text[slot] = Author(d), !.index[b] = ended], b))
  /\ writes' = [writes EXCEPT ![d] = None]

\* "$abort": what was written is freed, the table keeps the pointer.
Abort(d) ==
  /\ writes[d] # None
  /\ spoilt' = (spoilt \/ text[writes[d].slot] # 0)
  /\ writes' = [writes EXCEPT ![d] = None]
  /\ UNCHANGED <<index, text, taken, file>>

\* The link of the writer breaks, or the writer is extracted: the message
\* stays as far as it was written.
LinkLost(d) ==
  /\ writes[d] # None
  /\ writes' = [writes EXCEPT ![d] = None]
  /\ UNCHANGED <<index, text, taken, file, spoilt>>

-----------------------------------------------------------------------------
(* Board_load_board, of all boards: the process was ended or has crashed.   *)

\* The messages with a text get the slots one after the other; one without
\* keeps the slot that was saved.
Loaded == { l \in Board \X (1 .. MaxMessages) : l[2] \in DOMAIN file[l[1]] /\ file[l[1]][l[2]].text # 0 }
LoadedSlot(b, i) == Cardinality({ l \in Loaded : l[1] < b \/ (l[1] = b /\ l[2] <= i) })

Board_load_board(b) ==
  [i \in DOMAIN file[b] |->
     IF <<b, i>> \in Loaded THEN [file[b][i].entry EXCEPT !.slot = LoadedSlot(b, i)] ELSE file[b][i].entry]

Reboot ==
  /\ index' = [b \in Board |-> Board_load_board(b)]
  /\ text' = [slot \in Slots |->
                Max({0} \cup { file[l[1]][l[2]].text : l \in { k \in Loaded : LoadedSlot(k[1], k[2]) = slot } })]
  /\ taken' = { LoadedSlot(l[1], l[2]) : l \in Loaded }
  /\ writes' = [d \in Writer |-> None]
  /\ spoilt' = (spoilt \/ \E b \in Board : \E i \in DOMAIN file[b] : file[b][i].text = 0)
  /\ UNCHANGED file

-----------------------------------------------------------------------------
Init ==
  /\ index = [b \in Board |-> <<>>] /\ text = [s \in Slots |-> 0] /\ taken = {}
  /\ writes = [d \in Writer |-> None] /\ file = [b \in Board |-> <<>>] /\ spoilt = FALSE

string_add(d) == Line(d) \/ Finish(d) \/ Abort(d)

gen_board ==
  \/ \E d \in Writer, b \in Board : Board_write_message(d, b) \/ Board_reply_message(d, b)
  \/ \E b \in Board : Board_remove_msg(b)

Next ==
  \/ ~spoilt /\ gen_board
  \/ ~spoilt /\ \E d \in Writer : string_add(d) \/ LinkLost(d)
  \/ Reboot

Spec == Init /\ [][Next]_vars

-----------------------------------------------------------------------------
(* Properties                                                               *)

All == { l \in Board \X (1 .. MaxMessages) : l[2] \in DOMAIN index[l[1]] }
At(l) == index[l[1]][l[2]]

\* The text a writer is at is nobody else's: its slot is taken, no other
\* writer has it, whatever is removed from the boards, full or not, meanwhile.
OneAuthor ==
  \A d \in Writer : writes[d] # None =>
    /\ writes[d].slot \in taken
    /\ \A e \in Writer \ {d} : writes[e] # None => writes[e].slot # writes[d].slot

\* Nobody writes into the text of another, and under a headline is its own
\* text or none: entries have slots of their own, and nothing but the text
\* of the message was put there.
OwnText ==
  /\ OneAuthor
  /\ ~spoilt =>
       /\ \A l \in All : At(l).slot \in taken /\ text[At(l).slot] \in {0, At(l).id}
       /\ \A l, m \in All : l # m => At(l).slot # At(m).slot

\* A message that was ended is in the file until it is removed, and a
\* message that was removed is not: a reboot loses no post and brings none
\* back.
PostsKept ==
  /\ ~spoilt => \A l \in All : At(l).done => \E i \in DOMAIN file[l[1]] :
                   file[l[1]][i].entry.id = At(l).id /\ file[l[1]][i].text = At(l).id
  /\ \A b \in Board : \A i \in DOMAIN file[b] : \E j \in DOMAIN index[b] : index[b][j].id = file[b][i].entry.id

\* Every post keeps its text, on the board and in the file.
PostsSound == OwnText /\ PostsKept

=============================================================================
