---------------------------- MODULE PlayerIndex ----------------------------
(***************************************************************************)
(* The index of all players: a table in memory, sorted by player number,   *)
(* the file it is loaded from and saved to, and the players' own files.    *)
(* Connections create, load, save and delete players through it,           *)
(* administrators change the files of players, and a boot deletes those    *)
(* who were away for a month.  The process may stop between any two writes.*)
(*                                                                         *)
(* Slot i of the code's table is entry i + 1 here, and 0 stands for -1.    *)
(* A level in the index is kept like its no-delete flag and left out.      *)
(* Errors that end the process (a null player, a write before the table)   *)
(* are among the behaviours of Crash, which may happen at any time.        *)
(***************************************************************************)
EXTENDS Integers, SequencesExt

CONSTANTS
  Name,      (* names of players                                              *)
  Conn,      (* connections                                                   *)
  NULL,      (* no player, no connection                                      *)
  Slots,     (* empty slots a resized table gets                              *)
  MaxId,     (* bound on the player numbers given out                         *)
  InitIndex  (* the index files the first boot may find                       *)

VARIABLES
  tab,         (* the table: its first entry_cnt entries                      *)
  entry_size,  (* the slots the table has room for                            *)
  needs_save,
  index,       (* the index file: its lines, but for one cut short            *)
  pfile,       (* of each name, its file: "none", "plain" or "protected"      *)
  sess,        (* where each connection is, and the player it holds           *)
  phase,       (* "down", "clearing" (clear_by_time during a boot) or "up"    *)
  pos,         (* the loop variable of clear_by_time                          *)
  busy         (* the write that is under way                                 *)

vars == <<tab, entry_size, needs_save, index, pfile, sess, phase, pos, busy>>

Id == 1 .. MaxId

(* stale: the last logon is more than thirty days ago.                      *)
Entry == [name : Name, id : Id, nodelete : BOOLEAN, stale : BOOLEAN]

SortedById(t) == \A i, j \in 1 .. Len(t) : i < j => t[i].id < t[j].id

ASSUME ConstantsAssumption ==
  /\ NULL \notin Name \cup Conn
  /\ Slots \in Nat \ {0}
  /\ MaxId \in Nat
  /\ InitIndex \subseteq { t \in Seq(Entry) : SortedById(t) }

Places == {"out", "password", "new", "menu", "play"}

Out == [place |-> "out", name |-> NULL, id |-> 0, nodelete |-> FALSE]

Busy(step, slot, conn) == [step |-> step, slot |-> slot, conn |-> conn]

Idle == Busy("idle", 0, NULL)

TypeOK ==
  /\ tab \in Seq(Entry)
  /\ entry_size \in Nat
  /\ needs_save \in BOOLEAN
  /\ index \in Seq(Entry)
  /\ pfile \in [Name -> {"none", "plain", "protected"}]
  /\ sess \in [Conn -> [place : Places, name : Name \cup {NULL},
                        id : 0 .. MaxId, nodelete : BOOLEAN]]
  /\ \A c \in Conn : sess[c].place # "out" => sess[c].name \in Name
  /\ phase \in {"down", "clearing", "up"}
  /\ pos \in Nat
  /\ busy \in [step : {"idle", "remove", "write", "charsave"},
               slot : 0 .. Len(tab), conn : Conn \cup {NULL}]

-----------------------------------------------------------------------------
(* get_idx_by_name takes the first entry of the name: two connections that   *)
(* create the same name at a time leave two.                                 *)
First(S) == IF S = {} THEN 0 ELSE CHOOSE i \in S : \A j \in S : i <= j

IdxByName(n) == First({ i \in 1 .. Len(tab) : tab[i].name = n })

(* The binary search, by what TableSearch shows of it on a sorted table.     *)
IdxById(k) == First({ i \in 1 .. Len(tab) : tab[i].id = k })

FileOf(nodelete) == IF nodelete THEN "protected" ELSE "plain"

Loaded(place, n) ==
  [place |-> place, name |-> n, id |-> tab[IdxByName(n)].id,
   nodelete |-> pfile[n] = "protected"]

(* A character can be loaded; one without a file comes back empty, and the  *)
(* next use of its name ends the process.                                   *)
Loads(n) == IdxByName(n) # 0 /\ pfile[n] # "none"

(* An update that forgets to ask for a save.                                 *)
Update_KeepsNeed(b) ==
  LET i == IdxByName(b.name)
  IN  IF i = 0 THEN UNCHANGED <<tab, needs_save>>
      ELSE /\ tab' = [tab EXCEPT ![i].nodelete = b.nodelete]
           /\ UNCHANGED needs_save

(* update_by_idx.  On slot -1 it compares and writes memory before the table. *)
Update(b) ==
  LET i == IdxByName(b.name)
  IN  IF i = 0 THEN UNCHANGED <<tab, needs_save>>
      ELSE /\ tab' = [tab EXCEPT ![i].nodelete = b.nodelete]
           /\ needs_save' = (needs_save \/ tab[i].nodelete # b.nodelete)

(* The number a player has after an update; from slot -1 it takes any.       *)
Synced(b) ==
  LET i == IdxByName(b.name) IN IF i = 0 THEN 0 .. MaxId ELSE {tab[i].id}

SaveChar(b) ==
  /\ pfile' = [pfile EXCEPT ![b.name] = FileOf(b.nodelete)]
  /\ Update(b)

-----------------------------------------------------------------------------
(* PCIndex::Save, on a table that was just changed for connection c: the    *)
(* file cannot be opened, or it is cut to nothing and then written.          *)
AfterSave(c) == IF c = NULL THEN Idle ELSE Busy("charsave", 0, c)

StartSave(c) ==
  /\ needs_save' = TRUE
  /\ \/ /\ index' = <<>>
        /\ busy' = Busy("write", 0, c)
     \/ /\ UNCHANGED index
        /\ busy' = AfterSave(c)

WriteIndex ==
  /\ busy.step = "write"
  /\ index' = tab
  /\ needs_save' = FALSE
  /\ busy' = AfterSave(busy.conn)
  /\ UNCHANGED <<tab, entry_size, pfile, sess, phase, pos>>

Playing == phase = "up" /\ busy = Idle

-----------------------------------------------------------------------------
(* The name prompt: LoadChar with logon, which sets the time in the table   *)
(* but does not mark it for saving.                                          *)
Login(c, n) ==
  /\ Playing
  /\ sess[c].place = "out"
  /\ Loads(n)
  /\ tab' = [tab EXCEPT ![IdxByName(n)].stale = FALSE]
  /\ sess' = [sess EXCEPT ![c] = Loaded("password", n)]
  /\ UNCHANGED <<entry_size, needs_save, index, pfile, phase, pos, busy>>

(* At the menu only the name and the number of the player are used again.    *)
AtMenu(b, k) == [b EXCEPT !.place = "menu", !.id = k, !.nodelete = FALSE]

(* The right password: a save, then perform_dupe_check takes the player over *)
(* from whoever else holds his number.                                       *)
Password(c) ==
  /\ Playing
  /\ sess[c].place = "password"
  /\ SaveChar(sess[c])
  /\ \E k \in Synced(sess[c]) :
       LET same == { d \in Conn \ {c} : sess[d].place # "out" /\ sess[d].id = k }
           live == { d \in same : sess[d].place = "play" }
       IN  \E mine \in (IF live = {} THEN {AtMenu(sess[c], k)}
                        ELSE { sess[d] : d \in live }) :
             sess' = [d \in Conn |-> IF d = c THEN mine
                                     ELSE IF d \in same THEN Out ELSE sess[d]]
  /\ UNCHANGED <<entry_size, index, phase, pos, busy>>

Saves(c, b) ==
  /\ SaveChar(b)
  /\ \E k \in Synced(b) : sess' = [sess EXCEPT ![c] = [b EXCEPT !.id = k]]
  /\ UNCHANGED <<entry_size, index, phase, pos, busy>>

(* A wrong password, or the hourly save.                                     *)
SavePlayer(c) ==
  /\ Playing
  /\ sess[c].place \in {"password", "play"}
  /\ Saves(c, sess[c])

(* "1" at the menu loads the player again.                                   *)
EnterGame(c) ==
  /\ Playing
  /\ sess[c].place = "menu"
  /\ Loads(sess[c].name)
  /\ sess' = [sess EXCEPT ![c] = Loaded("play", sess[c].name)]
  /\ UNCHANGED <<tab, entry_size, needs_save, index, pfile, phase, pos, busy>>

(* Leaving the game saves the player; the menu and the prompts do not.       *)
QuitToMenu(c) ==
  /\ Playing
  /\ sess[c].place = "play"
  /\ SaveChar(sess[c])
  /\ \E k \in Synced(sess[c]) : sess' = [sess EXCEPT ![c] = AtMenu(sess[c], k)]
  /\ UNCHANGED <<entry_size, index, phase, pos, busy>>

Leave(c) ==
  /\ Playing
  /\ sess[c].place # "out"
  /\ IF sess[c].place = "play" THEN SaveChar(sess[c])
                               ELSE UNCHANGED <<tab, needs_save, pfile>>
  /\ sess' = [sess EXCEPT ![c] = Out]
  /\ UNCHANGED <<entry_size, index, phase, pos, busy>>

-----------------------------------------------------------------------------
(* A name that nobody has: the questions of character creation.              *)
NewName(c, n) ==
  /\ Playing
  /\ sess[c].place = "out"
  /\ IdxByName(n) = 0
  /\ sess' = [sess EXCEPT ![c] = [Out EXCEPT !.place = "new", !.name = n]]
  /\ UNCHANGED <<tab, entry_size, needs_save, index, pfile, phase, pos, busy>>

(* A number that counts the players instead of looking at the last one.      *)
FindOpenId_Count == Len(tab) + 1

FindOpenId == IF tab = <<>> THEN 1 ELSE tab[Len(tab)].id + 1

InsertSlot(k) ==
  LET above == { i \in 1 .. Len(tab) : tab[i].id > k }
  IN  IF above = {} THEN Len(tab) + 1 ELSE First(above)

NeedsRoom == Len(tab) >= entry_size

(* start_game: CreateChar, and in "charsave" the new player's first save.    *)
CreateChar(c) ==
  LET k == FindOpenId
      info == [name |-> sess[c].name, id |-> k, nodelete |-> FALSE, stale |-> FALSE]
  IN  /\ Playing
      /\ sess[c].place = "new"
      /\ k <= MaxId
      /\ entry_size' = IF NeedsRoom THEN Len(tab) + Slots ELSE entry_size
      /\ tab' = InsertAt(tab, InsertSlot(k), info)
      /\ sess' = [sess EXCEPT ![c].id = k]
      /\ StartSave(c)
      /\ UNCHANGED <<pfile, phase, pos>>

FirstSave ==
  /\ busy.step = "charsave"
  /\ LET b == sess[busy.conn]
     IN  /\ SaveChar(b)
         /\ \E k \in Synced(b) : sess' = [sess EXCEPT ![busy.conn] = AtMenu(b, k)]
  /\ busy' = Idle
  /\ UNCHANGED <<entry_size, index, phase, pos>>

-----------------------------------------------------------------------------
(* delete_by_idx, begun: the player's file goes first.                       *)
Unlink(t, i) ==
  /\ pfile' = [pfile EXCEPT ![t[i].name] = "none"]
  /\ busy' = Busy("remove", i, NULL)

(* Then the entries above move down and the index is saved.                  *)
RemoveEntry ==
  /\ busy.step = "remove"
  /\ tab' = RemoveAt(tab, busy.slot)
  /\ StartSave(NULL)
  /\ UNCHANGED <<entry_size, pfile, sess, phase, pos>>

(* Self-deletion from the menu, by number.  The number may be gone from the  *)
(* table: slot -1 then looks protected, or every entry moves down by one and *)
(* the first is overwritten.                                                 *)
DeleteSelf(c) ==
  LET i == IdxById(sess[c].id)
  IN  /\ Playing
      /\ sess[c].place = "menu"
      /\ sess' = [sess EXCEPT ![c] = Out]
      /\ \/ /\ i # 0 => tab[i].nodelete
            /\ UNCHANGED <<tab, needs_save, index, pfile, busy>>
         \/ /\ i # 0 /\ ~tab[i].nodelete
            /\ Unlink(tab, i)
            /\ UNCHANGED <<tab, needs_save, index>>
         \/ /\ i = 0 /\ tab # <<>>
            /\ tab' = Tail(tab)
            /\ StartSave(NULL)
            /\ UNCHANGED pfile
      /\ UNCHANGED <<entry_size, phase, pos>>

-----------------------------------------------------------------------------
(* An administrator sets the no-delete flag of a playing player ...          *)
SetNodelete(c, on) ==
  /\ Playing
  /\ sess[c].place = "play"
  /\ Saves(c, [sess[c] EXCEPT !.nodelete = on])

(* ... or of a file: load, update, and save again on extraction.             *)
SetFileNodelete(n, on) ==
  /\ Playing
  /\ Loads(n)
  /\ SaveChar([Loaded("play", n) EXCEPT !.nodelete = on])
  /\ UNCHANGED <<entry_size, index, sess, phase, pos, busy>>

(* "set file ... deleted on": StoreChar deletes the player, whoever plays him. *)
SetFileDeleted(n) ==
  LET i == IdxByName(n)
      b == Loaded("play", n)
  IN  /\ Playing
      /\ Loads(n)
      /\ Update(b)
      /\ IF b.nodelete THEN UNCHANGED <<pfile, busy>> ELSE Unlink(tab, i)
      /\ UNCHANGED <<entry_size, index, sess, phase, pos>>

(* "stat file", "last", "finger", "show player": a load with logon, which    *)
(* makes the player look as if he had been here.                             *)
LookAtFile(n) ==
  LET b == Loaded("play", n)
  IN  /\ Playing
      /\ Loads(n)
      /\ pfile' = [pfile EXCEPT ![n] = FileOf(b.nodelete)]
      /\ tab' = [tab EXCEPT ![IdxByName(n)].stale = FALSE,
                            ![IdxByName(n)].nodelete = b.nodelete]
      /\ needs_save' = (needs_save \/ tab[IdxByName(n)].nodelete # b.nodelete)
      /\ UNCHANGED <<entry_size, index, sess, phase, pos, busy>>

-----------------------------------------------------------------------------
(* A month passes.  The times are compared only by the next boot, and the    *)
(* model lets them grow old between two runs of the process.                  *)
Month ==
  /\ phase = "down"
  /\ index' = [i \in DOMAIN index |-> [index[i] EXCEPT !.stale = TRUE]]
  /\ UNCHANGED <<tab, entry_size, needs_save, pfile, sess, phase, pos, busy>>

(* The process stops, in a hurry or not: nothing saves the index then.  Of a *)
(* file being written any part may have reached the disk: some lines, and    *)
(* perhaps a piece of the next one, which no boot counts.                    *)
Crash ==
  /\ phase # "down"
  /\ IF busy.step = "write"
     THEN \E k \in 0 .. Len(tab) : index' = SubSeq(tab, 1, k)
     ELSE UNCHANGED index
  /\ phase' = "down"
  /\ tab' = <<>>
  /\ entry_size' = 0
  /\ needs_save' = FALSE
  /\ sess' = [c \in Conn |-> Out]
  /\ pos' = 0
  /\ busy' = Idle
  /\ UNCHANGED pfile

(* qsort by number; no file holds a number twice.                            *)
SortById(t) ==
  IF SortedById(t) THEN t
  ELSE CHOOSE u \in [1 .. Len(t) -> ToSet(t)] : ToSet(u) = ToSet(t) /\ SortedById(u)

(* A boot takes what it finds: fgets meets the end of the file on a line cut *)
(* short, as on one that is missing, and the loop ends as if END were there. *)
(* Who stood on that line or behind it is gone, and nothing waits to be saved. *)
Boot ==
  /\ phase = "down"
  /\ tab' = SortById(index)
  /\ entry_size' = Len(index) + Slots
  /\ needs_save' = FALSE
  /\ phase' = "clearing"
  /\ pos' = 1
  /\ UNCHANGED <<index, pfile, sess, busy>>

(* One turn of clear_by_time; after a deletion it passes over the entry that *)
(* moved into the slot.                                                      *)
ClearByTime ==
  /\ phase = "clearing" /\ busy = Idle
  /\ pos <= Len(tab)
  /\ pos' = pos + 1
  /\ IF tab[pos].stale /\ ~tab[pos].nodelete
     THEN Unlink(tab, pos)
     ELSE UNCHANGED <<pfile, busy>>
  /\ UNCHANGED <<tab, entry_size, needs_save, index, sess, phase>>

Opened ==
  /\ phase = "clearing" /\ busy = Idle
  /\ pos > Len(tab)
  /\ phase' = "up"
  /\ pos' = 0
  /\ UNCHANGED <<tab, entry_size, needs_save, index, pfile, sess, busy>>

Init ==
  /\ tab = <<>>
  /\ entry_size = 0
  /\ needs_save = FALSE
  /\ \E t \in InitIndex :
       /\ index = t
       /\ pfile = [n \in Name |->
                     LET S == { i \in 1 .. Len(t) : t[i].name = n }
                     IN  IF S = {} THEN "none" ELSE FileOf(t[First(S)].nodelete)]
  /\ sess = [c \in Conn |-> Out]
  /\ phase = "down"
  /\ pos = 0
  /\ busy = Idle

Booting == Boot \/ ClearByTime \/ Opened

Writing == RemoveEntry \/ WriteIndex \/ FirstSave

Play(c) ==
  \/ \E n \in Name : Login(c, n) \/ NewName(c, n)
  \/ Password(c) \/ SavePlayer(c) \/ EnterGame(c) \/ QuitToMenu(c) \/ Leave(c)
  \/ CreateChar(c) \/ DeleteSelf(c)
  \/ \E on \in BOOLEAN : SetNodelete(c, on)

Administer(n) ==
  \/ \E on \in BOOLEAN : SetFileNodelete(n, on)
  \/ SetFileDeleted(n)
  \/ LookAtFile(n)

Next ==
  \/ \E c \in Conn : Play(c)
  \/ \E n \in Name : Administer(n)
  \/ Month \/ Crash \/ Booting \/ Writing

Spec == Init /\ [][Next]_vars

-----------------------------------------------------------------------------
(* The table stays sorted strictly, as the binary search by number needs,    *)
(* and so does every file a boot may load: through insertions, deletions     *)
(* from any slot, half-written files and numbers that are given out again.   *)
IndexSorted == SortedById(tab) /\ SortedById(index)

(* No entry is written behind the slots the table was resized to.            *)
FitsTable == Len(tab) <= entry_size

(* Table and file are sorted, whatever is created, deleted, torn off by a   *)
(* crash or loaded again, and the table has room for what it holds          *)
(* (get_idx_by_id, sorted_insert); and every field has its type.              *)
IndexSound == TypeOK /\ IndexSorted /\ FitsTable

(* While nothing waits to be saved, the lines of the file are the players of *)
(* the table, with their numbers and no-delete flags, and so is what the next *)
(* boot reads: after logins and updates, failing writes and boots from a file *)
(* that a crash has cut short, which lose the players behind the cut but do  *)
(* not part table and file.  The time of the last logon is not kept up to date. *)
Known(t) == [i \in DOMAIN t |-> <<t[i].name, t[i].id, t[i].nodelete>>]

FileCurrent ==
  phase # "down" /\ ~needs_save => Known(index) = Known(tab)
=============================================================================
