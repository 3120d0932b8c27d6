---------------------------- MODULE EditorsProofs ----------------------------
(***************************************************************************)
(* For any rooms, sizes and editors: what a prompt writes into is there,   *)
(* what can be saved is whole, and the flags of a writer are those of what *)
(* he does.  For any number of boards, jobs, phones and people: the text   *)
(* under a message is its author's, a run ends as it was paid for, a call  *)
(* has two ends.  A new character pays once for each of its settings.      *)
(*                                                                         *)
(* CopyWhole is not inductive.  A copy is whole where nobody looks, too:   *)
(* at every prompt but the one that completes an entry all the others are  *)
(* complete.  That a prompt which writes belongs to one editor is what the *)
(* type invariant says of the prompts.                                     *)
(***************************************************************************)
EXTENDS MCEditors, TLAPS, FiniteSetTheorems, WellFoundedInduction, SequenceTheorems

-----------------------------------------------------------------------------
(* The invariant.                                                           *)

HostModes == TriggerModes \cup {"HEDIT_EXIT_ADD2"}
ShopModes == {"SHEDIT_PRODUCING", "SHEDIT_IN_ROOM"}

\* Every extra description is complete, except for the one being entered.
ExtrasGood ==
  /\ mode \in ExtraModes => copy.at \in DOMAIN copy.extras
  /\ \A i \in DOMAIN copy.extras : Complete(copy.extras[i]) \/ (mode \in ExtraModes /\ i = copy.at)

\* The exit being edited is there.
ExitGood == mode \in ExitModes => copy.way \in copy.exits

\* Only the head of a list is being entered.
StepsGood ==
  /\ mode \in TriggerModes => copy.triggers # <<>>
  /\ mode = "HEDIT_EXIT_ADD2" => copy.exits # <<>>
  /\ mode = "HEDIT_TRIGGER_ADD2" => copy.triggers[1] = 1
  /\ mode = "HEDIT_TRIGGER_ADD3" => copy.triggers[1] = 2
  /\ mode = "HEDIT_EXIT_ADD2" => copy.exits[1] = 1
  /\ \A i \in DOMAIN copy.triggers : copy.triggers[i] = 3 \/ (mode \in TriggerModes /\ i = 1)
  /\ \A i \in DOMAIN copy.exits : copy.exits[i] = 2 \/ (mode = "HEDIT_EXIT_ADD2" /\ i = 1)

\* The cursor is on an objective.
CursorGood ==
  /\ mode \in HuntModes => copy.n + 1 \in DOMAIN copy.mobs
  /\ mode \in FetchModes => copy.n + 1 \in DOMAIN copy.objs

\* A list of a shop has room for what its prompt asks for.
ShelfGood ==
  /\ mode = "SHEDIT_PRODUCING" => copy.items < ShopMax
  /\ mode = "SHEDIT_IN_ROOM" => copy.rooms < ShopMax

LetterGood == mode \in CommandModes => copy \in CommandCopies

CopyGood ==
  /\ con \in {"CON_REDIT", "CON_IEDIT"} => ExtrasGood
  /\ con = "CON_REDIT" => ExitGood
  /\ con = "CON_HEDIT" => StepsGood
  /\ con = "CON_QEDIT" => CursorGood
  /\ con = "CON_SHEDIT" => ShelfGood
  /\ con = "CON_ZEDIT" => LetterGood

\* In an editor no letter is being written; without a link, nothing is.
FlagsGood ==
  /\ BusyFlagged
  /\ Editing => "MAILING" \notin plr
  /\ con = "LINKLESS" => ~writing

EInv == TypeOK /\ CopyGood /\ FlagsGood

-----------------------------------------------------------------------------
(* The prompts that write belong to one editor.                             *)

RoomSaves == {"REDIT_MAIN_MENU", "REDIT_CONFIRM_SAVESTRING"}
ItemSaves == {"IEDIT_MAIN_MENU", "IEDIT_CONFIRM_SAVESTRING"}
HostSaves == {"HEDIT_MAIN_MENU", "HEDIT_CONFIRM_SAVESTRING"}

Mine ==
  [CON_REDIT |-> ExitModes \cup RoomExtras \cup RoomSaves, CON_IEDIT |-> ItemExtras \cup ItemSaves,
   CON_HEDIT |-> HostModes \cup HostSaves, CON_QEDIT |-> HuntModes \cup FetchModes, CON_SHEDIT |-> ShopModes,
   CON_ZEDIT |-> CommandModes]

\* A prompt of an editor that writes or saves is none of another editor's.
LEMMA PromptsDiffer ==
  ASSUME NEW e \in DOMAIN Prompts, NEW m \in Prompts[e], NEW f \in DOMAIN Mine, m \in Mine[f]
  PROVE  e = f
<1> DEFINE Writers == ExitModes \cup RoomExtras \cup RoomSaves \cup ItemExtras \cup ItemSaves \cup HostModes \cup HostSaves
                        \cup HuntModes \cup FetchModes \cup ShopModes \cup CommandModes
<1>0. /\ m \in Writers
      /\ f = "CON_REDIT" => m \in Mine.CON_REDIT
      /\ f = "CON_IEDIT" => m \in Mine.CON_IEDIT
      /\ f = "CON_HEDIT" => m \in Mine.CON_HEDIT
      /\ f = "CON_QEDIT" => m \in Mine.CON_QEDIT
      /\ f = "CON_SHEDIT" => m \in Mine.CON_SHEDIT
      /\ f = "CON_ZEDIT" => m \in Mine.CON_ZEDIT
  BY DEF Mine
<1>f. f \in {"CON_REDIT", "CON_IEDIT", "CON_HEDIT", "CON_QEDIT", "CON_SHEDIT", "CON_ZEDIT"}
  BY DEF Mine
<1>1. CASE e = "CON_REDIT"
  <2>1. m \in ReditPrompts
    BY <1>1 DEF Prompts
  <2>2. f # "CON_REDIT" => m \notin Mine[f]
    BY <1>f, <2>1 DEF Mine, ReditPrompts, MatrixFields, MatrixNumbers, ExitModes, ExitFields, ExitNumbers, RoomExtras, ItemExtras, HostModes, TriggerModes,
     HuntModes, FetchModes, ShopModes, CommandModes, RoomSaves, ItemSaves, HostSaves
  <2> QED
    BY <1>1, <2>2
<1>2. CASE e = "CON_VEDIT"
  <2>1. m \in VeditPrompts
    BY <1>2 DEF Prompts
  <2> QED
    BY <1>0, <2>1 DEF VeditPrompts, VeditNames, VeditNumbers, ExitModes, ExitFields, ExitNumbers, RoomExtras, ItemExtras, HostModes, TriggerModes,
     HuntModes, FetchModes, ShopModes, CommandModes, RoomSaves, ItemSaves, HostSaves
<1>3. CASE e = "CON_MEDIT"
  <2>1. m \in MeditPrompts
    BY <1>3 DEF Prompts
  <2> QED
    BY <1>0, <2>1 DEF MeditPrompts, MeditNames, MeditNumbers, MeditMenus, MeditAbilities, MeditSkill, MeditLevels, ExitModes, ExitFields, ExitNumbers, RoomExtras, ItemExtras, HostModes, TriggerModes,
     HuntModes, FetchModes, ShopModes, CommandModes, RoomSaves, ItemSaves, HostSaves
<1>4. CASE e = "CON_IEDIT"
  <2>1. m \in IeditPrompts
    BY <1>4 DEF Prompts
  <2>2. f # "CON_IEDIT" => m \notin Mine[f]
    BY <1>f, <2>1 DEF Mine, IeditPrompts, IeditTexts, IeditNumbers, ValueModes, ExitModes, ExitFields, ExitNumbers, RoomExtras, ItemExtras, HostModes, TriggerModes,
     HuntModes, FetchModes, ShopModes, CommandModes, RoomSaves, ItemSaves, HostSaves
  <2> QED
    BY <1>4, <2>2
<1>5. CASE e = "CON_HEDIT"
  <2>1. m \in HeditPrompts
    BY <1>5 DEF Prompts
  <2>2. f # "CON_HEDIT" => m \notin Mine[f]
    BY <1>f, <2>1 DEF Mine, HeditPrompts, HeditTexts, HeditMenus, HeditSubsystems, HeditExtras, HeditTrapdoors, HeditSecurity, ExitModes, ExitFields, ExitNumbers, RoomExtras, ItemExtras, HostModes, TriggerModes,
     HuntModes, FetchModes, ShopModes, CommandModes, RoomSaves, ItemSaves, HostSaves
  <2> QED
    BY <1>5, <2>2
<1>6. CASE e = "CON_ICEDIT"
  <2>1. m \in IceditPrompts
    BY <1>6 DEF Prompts
  <2> QED
    BY <1>0, <2>1 DEF IceditPrompts, IceditTexts, ExitModes, ExitFields, ExitNumbers, RoomExtras, ItemExtras, HostModes, TriggerModes,
     HuntModes, FetchModes, ShopModes, CommandModes, RoomSaves, ItemSaves, HostSaves
<1>7. CASE e = "CON_QEDIT"
  <2>1. m \in QeditPrompts
    BY <1>7 DEF Prompts
  <2>2. f # "CON_QEDIT" => m \notin Mine[f]
    BY <1>f, <2>1 DEF Mine, QeditPrompts, QeditTexts, QeditNumbers, QeditReputation, QeditHours, ExitModes, ExitFields, ExitNumbers, RoomExtras, ItemExtras, HostModes, TriggerModes,
     HuntModes, FetchModes, ShopModes, CommandModes, RoomSaves, ItemSaves, HostSaves
  <2> QED
    BY <1>7, <2>2
<1>8. CASE e = "CON_SHEDIT"
  <2>1. m \in SheditPrompts
    BY <1>8 DEF Prompts
  <2>2. f # "CON_SHEDIT" => m \notin Mine[f]
    BY <1>f, <2>1 DEF Mine, SheditPrompts, SheditTexts, SheditNumbers, ExitModes, ExitFields, ExitNumbers, RoomExtras, ItemExtras, HostModes, TriggerModes,
     HuntModes, FetchModes, ShopModes, CommandModes, RoomSaves, ItemSaves, HostSaves
  <2> QED
    BY <1>8, <2>2
<1>9. CASE e = "CON_ZEDIT"
  <2>1. m \in ZeditPrompts
    BY <1>9 DEF Prompts
  <2>2. f # "CON_ZEDIT" => m \notin Mine[f]
    BY <1>f, <2>1 DEF Mine, ZeditPrompts, ZeditData, ZeditTexts, ExitModes, ExitFields, ExitNumbers, RoomExtras, ItemExtras, HostModes, TriggerModes,
     HuntModes, FetchModes, ShopModes, CommandModes, RoomSaves, ItemSaves, HostSaves
  <2> QED
    BY <1>9, <2>2
<1>10. CASE e \in Customizing
  <2>1. m \in CeditPrompts
    BY <1>10 DEF Prompts, Customizing
  <2> QED
    BY <1>0, <2>1 DEF CeditPrompts, CeditTexts, ExitModes, ExitFields, ExitNumbers, RoomExtras, ItemExtras, HostModes, TriggerModes,
     HuntModes, FetchModes, ShopModes, CommandModes, RoomSaves, ItemSaves, HostSaves
<1>11. CASE e = "CON_SPELL_CREATE"
  <2>1. m \in SeditPrompts
    BY <1>11 DEF Prompts
  <2> QED
    BY <1>0, <2>1 DEF SeditPrompts, SeditNumbers, SeditEffects, SeditEffectModes, ExitModes, ExitFields, ExitNumbers, RoomExtras, ItemExtras, HostModes, TriggerModes,
     HuntModes, FetchModes, ShopModes, CommandModes, RoomSaves, ItemSaves, HostSaves
<1>12. CASE e = "CON_PRO_CREATE"
  <2>1. m \in PeditPrompts
    BY <1>12 DEF Prompts
  <2> QED
    BY <1>0, <2>1 DEF PeditPrompts, ExitModes, ExitFields, ExitNumbers, RoomExtras, ItemExtras, HostModes, TriggerModes,
     HuntModes, FetchModes, ShopModes, CommandModes, RoomSaves, ItemSaves, HostSaves
<1> QED
  BY <1>1, <1>2, <1>3, <1>4, <1>5, <1>6, <1>7, <1>8, <1>9, <1>10, <1>11, <1>12 DEF Prompts, Customizing

-----------------------------------------------------------------------------
(* What every editor does.                                                  *)

\* Outside the editors the invariant asks for the flags only.
LEMMA OutsideGood ==
  ASSUME con' \in {"CON_PLAYING", "LINKLESS"}, mode' = None, copy' = None, writing' \in BOOLEAN,
         plr' \subseteq PlrFlags, FlagsGood'
  PROVE  EInv'
<1>1. ~Editing'
  BY DEF Editing, Starts
<1>2. TypeOK'
  BY <1>1 DEF TypeOK
<1> QED
  BY <1>2 DEF EInv, CopyGood

\* An editor is left with its flag.
LEMMA LeaveKeeps ==
  ASSUME EInv, Editing, ~writing, Leave
  PROVE  EInv'
<1>1. plr' = plr \ FlagOf(con) /\ plr \cap EditorFlags = FlagOf(con) /\ plr \subseteq PlrFlags
  BY DEF EInv, TypeOK, FlagsGood, BusyFlagged, Leave, Editing, Starts
<1>2. FlagOf(con) \subseteq EditorFlags
  BY DEF FlagOf, EditorFlags
<1>3. ~Editing'
  BY DEF Leave, Editing, Starts
<1>4. FlagsGood'
  BY <1>1, <1>2, <1>3 DEF FlagsGood, BusyFlagged, Leave, EInv, EditorFlags
<1>5. writing \in BOOLEAN
  BY DEF EInv, TypeOK
<1>6. con' = "CON_PLAYING" /\ mode' = None /\ copy' = None /\ writing' \in BOOLEAN /\ plr' \subseteq PlrFlags
  BY <1>1, <1>5 DEF Leave
<1> QED
  BY <1>4, <1>6, OutsideGood

\* A refused line changes nothing.
LEMMA AgainKeeps ==
  ASSUME EInv, Again
  PROVE  EInv'
BY DEF Again, vars, EInv, TypeOK, CopyGood, FlagsGood, BusyFlagged, ExtrasGood,
   ExitGood, StepsGood, CursorGood, ShelfGood, LetterGood, Editing

\* From one prompt of an editor to another: the flags stay.
LEMMA InsideKeeps ==
  ASSUME EInv, Editing, UNCHANGED <<con, plr>>, writing' \in BOOLEAN, mode' \in Prompts[con], copy' \in CopyType[con],
         CopyGood'
  PROVE  EInv'
BY DEF EInv, TypeOK, FlagsGood, BusyFlagged, Editing, Starts, FlagOf

-----------------------------------------------------------------------------
(* The editors none of whose prompts writes into a list.                    *)

Settled == con \in DOMAIN Starts \ DOMAIN Mine

\* Whatever becomes of the copy.
LEMMA SettledKeeps ==
  ASSUME EInv, Settled, writing' \in BOOLEAN, mode' \in Prompts[con], copy' \in CopyType[con], UNCHANGED <<con, plr>>
  PROVE  EInv'
<1>1. CopyGood'
  BY DEF Settled, Mine, Starts, CopyGood
<1> QED
  BY <1>1, InsideKeeps DEF Settled, Editing

\* vedit_parse
LEMMA VeditKeeps ==
  ASSUME EInv, Vedit
  PROVE  EInv'
<1>1. con = "CON_VEDIT" /\ Settled /\ Editing /\ writing \in BOOLEAN
  BY DEF Vedit, Settled, Mine, Editing, Starts, EInv, TypeOK
<1>2. Prompts[con] = VeditPrompts /\ CopyType[con] = {Plain} /\ copy \in {Plain}
  BY <1>1 DEF EInv, TypeOK, Prompts, CopyType
<1>3. SUFFICES ASSUME ~Again, ~(Leave /\ ~writing)
               PROVE  mode' \in VeditPrompts /\ copy' \in {Plain} /\ writing' \in BOOLEAN /\ UNCHANGED <<con, plr>>
  BY <1>1, <1>2, AgainKeeps, LeaveKeeps, SettledKeeps
<1>4. CASE VeditConfirm
  BY <1>1, <1>2, <1>3, <1>4 DEF VeditConfirm, Confirm, At, Go, VeditPrompts
<1>5. CASE VeditMain
  BY <1>1, <1>2, <1>3, <1>5 DEF VeditMain, Taken, Write, At, Go, VeditPrompts
<1>6. CASE VeditAttributes
  BY <1>1, <1>2, <1>3, <1>6 DEF VeditAttributes, Taken, Ranged, At, Go, VeditPrompts
<1> QED
  BY <1>4, <1>5, <1>6 DEF Vedit

\* medit_parse
LEMMA MeditKeeps ==
  ASSUME EInv, Medit
  PROVE  EInv'
<1>1. con = "CON_MEDIT" /\ Settled /\ Editing /\ writing \in BOOLEAN
  BY DEF Medit, Settled, Mine, Editing, Starts, EInv, TypeOK
<1>2. Prompts[con] = MeditPrompts /\ CopyType[con] = {Plain} /\ copy \in {Plain}
  BY <1>1 DEF EInv, TypeOK, Prompts, CopyType
<1>3. SUFFICES ASSUME ~Again, ~(Leave /\ ~writing)
               PROVE  mode' \in MeditPrompts /\ copy' \in {Plain} /\ writing' \in BOOLEAN /\ UNCHANGED <<con, plr>>
  BY <1>1, <1>2, AgainKeeps, LeaveKeeps, SettledKeeps
<1>4. CASE MeditConfirm
  BY <1>1, <1>2, <1>3, <1>4 DEF MeditConfirm, Confirm, At, Go, MeditPrompts
<1>5. CASE MeditMain
  BY <1>1, <1>2, <1>3, <1>5 DEF MeditMain, Write, At, Go, MeditPrompts
<1>6. CASE MeditValues
  BY <1>1, <1>2, <1>3, <1>6 DEF MeditValues, Taken, Ranged, MeditMenus, At, Go, MeditPrompts
<1>7. CASE MeditSkills
  BY <1>1, <1>2, <1>3, <1>7 DEF MeditSkills, Ranged, MeditMenus, MeditSkill, MeditLevels, At, Go, MeditPrompts
<1>8. CASE MeditAttributes
  BY <1>1, <1>2, <1>3, <1>8 DEF MeditAttributes, Ranged, MeditMenus, At, Go, MeditPrompts
<1> QED
  BY <1>4, <1>5, <1>6, <1>7, <1>8 DEF Medit

\* icedit_parse
LEMMA IceditKeeps ==
  ASSUME EInv, Icedit
  PROVE  EInv'
<1>1. con = "CON_ICEDIT" /\ Settled /\ Editing /\ writing \in BOOLEAN
  BY DEF Icedit, Settled, Mine, Editing, Starts, EInv, TypeOK
<1>2. Prompts[con] = IceditPrompts /\ CopyType[con] = IcCopies /\ copy \in IcCopies
  BY <1>1 DEF EInv, TypeOK, Prompts, CopyType
<1>3. SUFFICES ASSUME ~Again, ~(Leave /\ ~writing)
               PROVE  mode' \in IceditPrompts /\ copy' \in IcCopies /\ writing' \in BOOLEAN /\ UNCHANGED <<con, plr>>
  BY <1>1, <1>2, AgainKeeps, LeaveKeeps, SettledKeeps
<1>4. CASE IceditConfirm
  BY <1>1, <1>2, <1>3, <1>4 DEF IceditConfirm, Confirm, At, Go, IceditPrompts
<1>5. CASE IceditMain
  BY <1>1, <1>2, <1>3, <1>5 DEF IceditMain, Write, At, Go, IceditPrompts
<1>6. CASE IceditValues
  BY <1>1, <1>2, <1>3, <1>6 DEF IceditValues, Taken, Ranged, Put, IcCopies, At, Go, IceditPrompts
<1> QED
  BY <1>4, <1>5, <1>6 DEF Icedit

\* cedit_parse
LEMMA CeditKeeps ==
  ASSUME EInv, Cedit
  PROVE  EInv'
<1>1. con \in Customizing /\ Settled /\ Editing /\ writing \in BOOLEAN
  BY DEF Cedit, Settled, Mine, Editing, Starts, EInv, TypeOK, Customizing
<1>2. Prompts[con] = CeditPrompts /\ CopyType[con] = {Plain} /\ copy \in {Plain}
  BY <1>1 DEF EInv, TypeOK, Prompts, CopyType, Customizing
<1>3. SUFFICES ASSUME ~Again, ~(Leave /\ ~writing)
               PROVE  mode' \in CeditPrompts /\ copy' \in {Plain} /\ writing' \in BOOLEAN /\ UNCHANGED <<con, plr>>
  BY <1>1, <1>2, AgainKeeps, LeaveKeeps, SettledKeeps
<1>4. CASE Cedit
  BY <1>1, <1>2, <1>3, <1>4 DEF Cedit, Confirm, Taken, Write, At, Go, CeditPrompts
<1> QED
  BY <1>4 DEF Cedit

\* sedit_parse
LEMMA SeditKeeps ==
  ASSUME EInv, Sedit
  PROVE  EInv'
<1>1. con = "CON_SPELL_CREATE" /\ Settled /\ Editing /\ writing \in BOOLEAN
  BY DEF Sedit, Settled, Mine, Editing, Starts, EInv, TypeOK
<1>2. Prompts[con] = SeditPrompts /\ CopyType[con] = SpellType /\ copy \in SpellType
  BY <1>1 DEF EInv, TypeOK, Prompts, CopyType
<1>3. SUFFICES ASSUME ~Again, ~(Leave /\ ~writing)
               PROVE  mode' \in SeditPrompts /\ copy' \in SpellType /\ writing' \in BOOLEAN /\ UNCHANGED <<con, plr>>
  BY <1>1, <1>2, AgainKeeps, LeaveKeeps, SettledKeeps
<1>4. CASE Sedit
  BY <1>1, <1>2, <1>3, <1>4 DEF Sedit, Taken, Ranged, Put, SeditEffects, SeditEffectModes, SpellType, Categories, At, Go, SeditPrompts
<1> QED
  BY <1>4 DEF Sedit

\* pedit_parse
LEMMA PeditKeeps ==
  ASSUME EInv, Pedit
  PROVE  EInv'
<1>1. con = "CON_PRO_CREATE" /\ Settled /\ Editing /\ writing \in BOOLEAN
  BY DEF Pedit, Settled, Mine, Editing, Starts, EInv, TypeOK
<1>2. Prompts[con] = PeditPrompts /\ CopyType[con] = ProgramType /\ copy \in ProgramType
  BY <1>1 DEF EInv, TypeOK, Prompts, CopyType
<1>3. SUFFICES ASSUME ~Again, ~(Leave /\ ~writing)
               PROVE  mode' \in PeditPrompts /\ copy' \in ProgramType /\ writing' \in BOOLEAN /\ UNCHANGED <<con, plr>>
  BY <1>1, <1>2, AgainKeeps, LeaveKeeps, SettledKeeps
<1>4. CASE Pedit
  BY <1>1, <1>2, <1>3, <1>4 DEF Pedit, Taken, Ranged, Put, ProgramType, At, Go, PeditPrompts
<1> QED
  BY <1>4 DEF Pedit

-----------------------------------------------------------------------------
(* The editors that write into what the copy lists.                         *)

\* zedit_parse
LEMMA ZeditKeeps ==
  ASSUME EInv, Zedit
  PROVE  EInv'
<1>1. con = "CON_ZEDIT" /\ Editing /\ writing \in BOOLEAN
  BY DEF Zedit, Editing, Starts, EInv, TypeOK
<1>2. Prompts[con] = ZeditPrompts /\ CopyType[con] = CommandCopies \cup {Plain} /\ copy \in CommandCopies \cup {Plain}
  BY <1>1 DEF EInv, TypeOK, Prompts, CopyType
<1>g. LetterGood
  BY <1>1 DEF EInv, CopyGood
<1>3. SUFFICES ASSUME ~Again, ~(Leave /\ ~writing)
               PROVE  /\ mode' \in ZeditPrompts /\ copy' \in CommandCopies \cup {Plain} /\ writing' \in BOOLEAN /\ UNCHANGED <<con, plr>>
                      /\ LetterGood'
  <2>1. UNCHANGED con /\ LetterGood' => CopyGood'
    BY <1>1 DEF CopyGood
  <2> QED
    BY <1>1, <1>2, <2>1, AgainKeeps, LeaveKeeps, InsideKeeps
<1>4. CASE ZeditConfirm
  BY <1>1, <1>2, <1>3, <1>g, <1>4 DEF ZeditConfirm, Put, CommandCopies, At, Go, ZeditPrompts, CommandModes, LetterGood
<1>5. CASE ZeditZone
  BY <1>1, <1>2, <1>3, <1>g, <1>5 DEF ZeditZone, Taken, Ranged, ZeditData, ZeditTexts, At, Go, ZeditPrompts, CommandModes, LetterGood
<1>6. CASE ZeditCommand
  BY <1>1, <1>2, <1>3, <1>g, <1>6 DEF ZeditCommand, Taken, Ranged, Put, ZeditArguments, CommandCopies, At, Go, ZeditPrompts, CommandModes, LetterGood
<1> QED
  BY <1>4, <1>5, <1>6 DEF Zedit

\* shedit_parse
LEMMA SheditKeeps ==
  ASSUME EInv, Shedit
  PROVE  EInv'
<1>1. con = "CON_SHEDIT" /\ Editing /\ writing \in BOOLEAN
  BY DEF Shedit, Editing, Starts, EInv, TypeOK
<1>2. Prompts[con] = SheditPrompts /\ CopyType[con] = ShopCopies /\ copy \in ShopCopies
  BY <1>1 DEF EInv, TypeOK, Prompts, CopyType
<1>g. ShelfGood
  BY <1>1 DEF EInv, CopyGood
<1>3. SUFFICES ASSUME ~Again, ~(Leave /\ ~writing)
               PROVE  /\ mode' \in SheditPrompts /\ copy' \in ShopCopies /\ writing' \in BOOLEAN /\ UNCHANGED <<con, plr>>
                      /\ ShelfGood'
  <2>1. UNCHANGED con /\ ShelfGood' => CopyGood'
    BY <1>1 DEF CopyGood
  <2> QED
    BY <1>1, <1>2, <2>1, AgainKeeps, LeaveKeeps, InsideKeeps
<1>4. CASE SheditConfirm
  BY <1>1, <1>2, <1>3, <1>g, <1>4 DEF SheditConfirm, Confirm, ShelfGood, At, Go, SheditPrompts
<1>5. CASE SheditMain
  <2>1. ShopMax \in Nat \ {0}
    BY EditorsAssumption DEF EditorsAssumption
  <2> QED
    BY <1>1, <1>2, <1>3, <1>g, <2>1, <1>5 DEF SheditMain, Taken, Ranged, Put, At, Go, SheditPrompts, SheditTexts, SheditNumbers,
       ShelfGood, ShopCopies
<1>6. CASE SheditList("SHEDIT_PRODUCING", "items")
  <2>1. ShopMax \in Nat \ {0}
    BY EditorsAssumption DEF EditorsAssumption
  <2> QED
    BY <1>1, <1>2, <1>3, <1>g, <2>1, <1>6 DEF SheditList, Put, At, Go, SheditPrompts, ShelfGood, ShopCopies
<1>7. CASE SheditList("SHEDIT_IN_ROOM", "rooms")
  <2>1. ShopMax \in Nat \ {0}
    BY EditorsAssumption DEF EditorsAssumption
  <2> QED
    BY <1>1, <1>2, <1>3, <1>g, <2>1, <1>7 DEF SheditList, Put, At, Go, SheditPrompts, ShelfGood, ShopCopies
<1> QED
  BY <1>4, <1>5, <1>6, <1>7 DEF Shedit

\* Values asked for one after the other.
LEMMA ChainOfTwo ==
  ASSUME NEW a, NEW b, NEW home, Chain(<<a, b>>, home)
  PROVE  Ranged({a}, b) \/ Ranged({b}, home)
BY DEF Chain

LEMMA ChainOfThree ==
  ASSUME NEW a, NEW b, NEW c, NEW home, Chain(<<a, b, c>>, home)
  PROVE  Ranged({a}, b) \/ Ranged({b}, c) \/ Ranged({c}, home)
BY DEF Chain

\* The steps of a trigger, or the parts of an exit, are entered at the head.
LEMMA StepAdded ==
  ASSUME NEW k \in Nat, k >= 1, NEW s \in Seq(1 .. k)
  PROVE  /\ <<1>> \o s \in Seq(1 .. k) /\ <<1>> \o s # <<>>
         /\ (<<1>> \o s)[1] = 1
         /\ \A i \in DOMAIN (<<1>> \o s) : i # 1 => i - 1 \in DOMAIN s /\ (<<1>> \o s)[i] = s[i - 1]
<1>1. <<1>> \in Seq(1 .. k) /\ Len(<<1>>) = 1 /\ <<1>>[1] = 1
  OBVIOUS
<1>2. /\ <<1>> \o s \in Seq(1 .. k)
      /\ Len(<<1>> \o s) = 1 + Len(s)
      /\ \A i \in 1 .. 1 + Len(s) : (<<1>> \o s)[i] = IF i <= 1 THEN <<1>>[i] ELSE s[i - 1]
  <2> HIDE <1>1
  <2> QED
    BY ONLY <1>1, ConcatProperties, s \in Seq(1 .. k)
<1>3. Len(s) \in Nat /\ DOMAIN s = 1 .. Len(s) /\ DOMAIN (<<1>> \o s) = 1 .. 1 + Len(s)
  BY <1>2, LenProperties
<1> QED
  BY <1>1, <1>2, <1>3

LEMMA HeadStep ==
  ASSUME NEW k \in Nat, NEW s \in Seq(1 .. k), s # <<>>, NEW v \in 1 .. k
  PROVE  /\ [s EXCEPT ![1] = v] \in Seq(1 .. k) /\ [s EXCEPT ![1] = v] # <<>>
         /\ [s EXCEPT ![1] = v][1] = v
         /\ DOMAIN [s EXCEPT ![1] = v] = DOMAIN s
         /\ \A i \in DOMAIN s : i # 1 => [s EXCEPT ![1] = v][i] = s[i]
<1>1. Len(s) \in Nat \ {0} /\ DOMAIN s = 1 .. Len(s)
  BY EmptySeq, LenProperties
<1>2. /\ [s EXCEPT ![1] = v] \in Seq(1 .. k)
      /\ Len([s EXCEPT ![1] = v]) = Len(s)
      /\ \A j \in 1 .. Len(s) : [s EXCEPT ![1] = v][j] = IF j = 1 THEN v ELSE s[j]
  BY <1>1, ExceptSeq
<1> QED
  BY <1>1, <1>2

LEMMA StepDropped ==
  ASSUME NEW k \in Nat, NEW s \in Seq(1 .. k), s # <<>>
  PROVE  /\ Tail(s) \in Seq(1 .. k)
         /\ \A i \in DOMAIN Tail(s) : i + 1 \in DOMAIN s /\ Tail(s)[i] = s[i + 1]
<1>1. Tail(s) \in Seq(1 .. k) /\ Len(Tail(s)) = Len(s) - 1 /\ \A i \in 1 .. Len(Tail(s)) : Tail(s)[i] = s[i + 1]
  BY HeadTailProperties
<1>2. DOMAIN s = 1 .. Len(s) /\ Len(s) \in Nat /\ DOMAIN Tail(s) = 1 .. Len(Tail(s))
  BY <1>1, LenProperties
<1> QED
  BY <1>1, <1>2

\* hedit_parse
LEMMA HeditKeeps ==
  ASSUME EInv, Hedit
  PROVE  EInv'
<1>1. con = "CON_HEDIT" /\ Editing /\ writing \in BOOLEAN
  BY DEF Hedit, Editing, Starts, EInv, TypeOK
<1>2. Prompts[con] = HeditPrompts /\ CopyType[con] = HostType /\ copy \in HostType
  BY <1>1 DEF EInv, TypeOK, Prompts, CopyType
<1>g. StepsGood
  BY <1>1 DEF EInv, CopyGood
<1>3. SUFFICES ASSUME ~Again, ~(Leave /\ ~writing)
               PROVE  /\ mode' \in HeditPrompts /\ copy' \in HostType /\ writing' \in BOOLEAN /\ UNCHANGED <<con, plr>>
                      /\ StepsGood'
  <2>1. UNCHANGED con /\ StepsGood' => CopyGood'
    BY <1>1 DEF CopyGood
  <2> QED
    BY <1>1, <1>2, <2>1, AgainKeeps, LeaveKeeps, InsideKeeps
<1>4. CASE HeditConfirm
  BY <1>1, <1>2, <1>3, <1>g, <1>4 DEF HeditConfirm, Confirm, StepsGood, TriggerModes, At, Go, HeditPrompts
<1>5. CASE HeditMain
  <2>0. Chain(HeditSecurity, "HEDIT_MAIN_MENU") =>
          \/ Ranged({"HEDIT_SECURITY_COLOUR"}, "HEDIT_SECURITY_RATING") \/ Ranged({"HEDIT_SECURITY_RATING"}, "HEDIT_SECURITY_DIFF")
          \/ Ranged({"HEDIT_SECURITY_DIFF"}, "HEDIT_MAIN_MENU")
    BY ChainOfThree DEF HeditSecurity
  <2>1. copy' = copy /\ writing' \in BOOLEAN /\ UNCHANGED <<con, plr>>
    BY <1>1, <1>3, <1>5, <2>0 DEF HeditMain, Taken, Ranged, Write, At, Go, HeditTexts, HeditMenus, HeditSecurity
  <2>2. mode \notin HostModes
    BY <1>3, <1>5, <2>0 DEF HeditMain, Taken, Ranged, Write, At, Go, HeditTexts, HeditMenus, HeditSecurity, HostModes, TriggerModes
  <2>3. mode' \in HeditPrompts /\ mode' \notin HostModes
    BY <1>3, <1>5, <2>0 DEF HeditMain, Taken, Ranged, Write, At, Go, HeditTexts, HeditMenus, HeditSecurity, HostModes, TriggerModes, HeditPrompts
  <2> QED
    BY <1>2, <1>g, <2>1, <2>2, <2>3 DEF StepsGood, HostModes, TriggerModes
<1>6. CASE HeditRatings
  <2>1. copy' = copy /\ writing' \in BOOLEAN /\ UNCHANGED <<con, plr>>
    BY <1>1, <1>3, <1>6 DEF HeditRatings, Taken, Ranged, At, Go, HeditMenus, HeditSubsystems, HeditExtras, HeditTrapdoors
  <2>2. mode \notin HostModes
    BY <1>3, <1>6 DEF HeditRatings, Taken, Ranged, At, Go, HeditMenus, HeditSubsystems, HeditExtras, HeditTrapdoors, HostModes, TriggerModes
  <2>3. mode' \in HeditPrompts /\ mode' \notin HostModes
    BY <1>3, <1>6 DEF HeditRatings, Taken, Ranged, At, Go, HeditMenus, HeditSubsystems, HeditExtras, HeditTrapdoors, HostModes, TriggerModes, HeditPrompts
  <2> QED
    BY <1>2, <1>g, <2>1, <2>2, <2>3 DEF StepsGood, HostModes, TriggerModes
<1>7. CASE HeditTrigger
  <2>1. copy.triggers \in Seq(1 .. 3) /\ copy.exits \in Seq(1 .. 2) /\ DOMAIN copy = {"kind", "triggers", "exits"}
    BY <1>2 DEF HostType
  <2>2. CASE copy' = copy /\ mode \notin TriggerModes \cup {"HEDIT_EXIT_ADD2"} /\ writing' = writing /\ UNCHANGED <<con, plr>>
               /\ mode' \in HeditPrompts /\ mode' \notin TriggerModes \cup {"HEDIT_EXIT_ADD2"}
    BY <1>1, <1>2, <1>g, <2>2 DEF StepsGood, TriggerModes
  <2>3. CASE At("HEDIT_TRIGGER_ADD") /\ Put("HEDIT_TRIGGER_ADD2", [copy EXCEPT !.triggers = <<1>> \o @])
    <3>1. copy'.triggers = <<1>> \o copy.triggers /\ copy'.exits = copy.exits /\ mode' = "HEDIT_TRIGGER_ADD2"
      BY <1>2, <2>3 DEF Put, HostType
    <3>2. \A i \in DOMAIN copy.triggers : copy.triggers[i] = 3
      BY <1>g, <2>3 DEF StepsGood, At, TriggerModes
    <3>3. \A i \in DOMAIN copy.exits : copy.exits[i] = 2
      BY <1>g, <2>3 DEF StepsGood, At, TriggerModes
    <3>4. /\ copy'.triggers \in Seq(1 .. 3) /\ copy'.triggers # <<>> /\ copy'.triggers[1] = 1
          /\ \A i \in DOMAIN copy'.triggers : i # 1 => copy'.triggers[i] = 3
      BY <2>1, <3>1, <3>2, StepAdded
    <3>5. StepsGood'
      BY <3>1, <3>3, <3>4 DEF StepsGood, TriggerModes
    <3>6. copy' \in HostType
      BY <1>2, <2>3, <3>1, <3>4 DEF Put, HostType
    <3> QED
      BY <1>1, <2>3, <3>5, <3>6 DEF Put, HeditPrompts, TriggerModes
  <2>4. ASSUME NEW v \in {2, 3}, ~writing, mode = (IF v = 2 THEN "HEDIT_TRIGGER_ADD2" ELSE "HEDIT_TRIGGER_ADD3"),
               Put(IF v = 2 THEN "HEDIT_TRIGGER_ADD3" ELSE "HEDIT_TRIGGER", [copy EXCEPT !.triggers[1] = v])
        PROVE  /\ mode' \in HeditPrompts /\ copy' \in HostType /\ writing' \in BOOLEAN /\ UNCHANGED <<con, plr>>
               /\ StepsGood'
    <3>0. mode \in TriggerModes /\ mode # "HEDIT_EXIT_ADD2"
      BY <2>4 DEF TriggerModes
    <3>1. copy' = [copy EXCEPT !.triggers = [copy.triggers EXCEPT ![1] = v]]
      BY <2>4 DEF Put
    <3>2. copy.triggers # <<>> /\ \A i \in DOMAIN copy.triggers : i # 1 => copy.triggers[i] = 3
      BY <1>g, <3>0 DEF StepsGood
    <3>3. \A i \in DOMAIN copy.exits : copy.exits[i] = 2
      BY <1>g, <3>0 DEF StepsGood
    <3>4. copy'.triggers = [copy.triggers EXCEPT ![1] = v] /\ copy'.exits = copy.exits
      BY <2>1, <3>1
    <3>5. /\ copy'.triggers \in Seq(1 .. 3) /\ copy'.triggers # <<>> /\ copy'.triggers[1] = v
          /\ \A i \in DOMAIN copy'.triggers : i # 1 => copy'.triggers[i] = 3
      BY <2>1, <3>2, <3>4, HeadStep
    <3>6. StepsGood'
      BY <2>4, <3>3, <3>4, <3>5 DEF StepsGood, TriggerModes, Put
    <3>7. copy' \in HostType
      BY <1>2, <3>1, <3>4, <3>5 DEF HostType
    <3> QED
      BY <1>1, <2>4, <3>6, <3>7 DEF Put, HeditPrompts, HeditMenus, TriggerModes
  <2>5. CASE At("HEDIT_TRIGGER_DEL") /\ copy.triggers # <<>> /\ Put("HEDIT_TRIGGER", [copy EXCEPT !.triggers = Tail(@)])
    <3>1. copy'.triggers = Tail(copy.triggers) /\ copy'.exits = copy.exits /\ mode' = "HEDIT_TRIGGER"
      BY <1>2, <2>5 DEF Put, HostType
    <3>2. \A i \in DOMAIN copy.triggers : copy.triggers[i] = 3
      BY <1>g, <2>5 DEF StepsGood, At, TriggerModes
    <3>3. \A i \in DOMAIN copy.exits : copy.exits[i] = 2
      BY <1>g, <2>5 DEF StepsGood, At, TriggerModes
    <3>4. copy'.triggers \in Seq(1 .. 3) /\ \A i \in DOMAIN copy'.triggers : copy'.triggers[i] = 3
      BY <2>1, <2>5, <3>1, <3>2, StepDropped
    <3>5. StepsGood'
      BY <3>1, <3>3, <3>4 DEF StepsGood, TriggerModes
    <3>6. copy' \in HostType
      BY <1>2, <2>5, <3>1, <3>4 DEF Put, HostType
    <3> QED
      BY <1>1, <2>5, <3>5, <3>6 DEF Put, HeditPrompts, HeditMenus
  <2> QED
    BY <1>1, <1>3, <2>2, <2>3, <2>4, <2>5, <1>7 DEF HeditTrigger, At, Go, HeditPrompts, HeditMenus, TriggerModes
<1>8. CASE HeditExit
  <2>1. copy.triggers \in Seq(1 .. 3) /\ copy.exits \in Seq(1 .. 2) /\ DOMAIN copy = {"kind", "triggers", "exits"}
    BY <1>2 DEF HostType
  <2>2. CASE copy' = copy /\ mode \notin TriggerModes \cup {"HEDIT_EXIT_ADD2"} /\ writing' = writing /\ UNCHANGED <<con, plr>>
               /\ mode' \in HeditPrompts /\ mode' \notin TriggerModes \cup {"HEDIT_EXIT_ADD2"}
    BY <1>1, <1>2, <1>g, <2>2 DEF StepsGood, TriggerModes
  <2>3. CASE At("HEDIT_EXIT_ADD") /\ Put("HEDIT_EXIT_ADD2", [copy EXCEPT !.exits = <<1>> \o @])
    <3>1. copy'.exits = <<1>> \o copy.exits /\ copy'.triggers = copy.triggers /\ mode' = "HEDIT_EXIT_ADD2"
      BY <1>2, <2>3 DEF Put, HostType
    <3>2. \A i \in DOMAIN copy.exits : copy.exits[i] = 2
      BY <1>g, <2>3 DEF StepsGood, At, TriggerModes
    <3>3. \A i \in DOMAIN copy.triggers : copy.triggers[i] = 3
      BY <1>g, <2>3 DEF StepsGood, At, TriggerModes
    <3>4. /\ copy'.exits \in Seq(1 .. 2) /\ copy'.exits # <<>> /\ copy'.exits[1] = 1
          /\ \A i \in DOMAIN copy'.exits : i # 1 => copy'.exits[i] = 2
      BY <2>1, <3>1, <3>2, StepAdded
    <3>5. StepsGood'
      BY <3>1, <3>3, <3>4 DEF StepsGood, TriggerModes
    <3>6. copy' \in HostType
      BY <1>2, <2>3, <3>1, <3>4 DEF Put, HostType
    <3> QED
      BY <1>1, <2>3, <3>5, <3>6 DEF Put, HeditPrompts, TriggerModes
  <2>4. CASE At("HEDIT_EXIT_ADD2") /\ Put("HEDIT_EXIT", [copy EXCEPT !.exits[1] = 2])
    <3>1. copy' = [copy EXCEPT !.exits = [copy.exits EXCEPT ![1] = 2]] /\ mode' = "HEDIT_EXIT" /\ mode = "HEDIT_EXIT_ADD2"
      BY <2>4 DEF Put, At
    <3>2. copy.exits # <<>> /\ \A i \in DOMAIN copy.exits : i # 1 => copy.exits[i] = 2
      BY <1>g, <3>1 DEF StepsGood
    <3>3. \A i \in DOMAIN copy.triggers : copy.triggers[i] = 3
      BY <1>g, <3>1 DEF StepsGood, TriggerModes
    <3>4. copy'.exits = [copy.exits EXCEPT ![1] = 2] /\ copy'.triggers = copy.triggers
      BY <2>1, <3>1
    <3>5. copy'.exits \in Seq(1 .. 2) /\ \A i \in DOMAIN copy'.exits : copy'.exits[i] = 2
      BY <2>1, <3>2, <3>4, HeadStep
    <3>6. StepsGood'
      BY <3>1, <3>3, <3>4, <3>5 DEF StepsGood, TriggerModes
    <3>7. copy' \in HostType
      BY <1>2, <3>1, <3>4, <3>5 DEF HostType
    <3> QED
      BY <1>1, <2>4, <3>6, <3>7 DEF Put, HeditPrompts, HeditMenus
  <2>5. CASE At("HEDIT_EXIT_DEL") /\ copy.exits # <<>> /\ Put("HEDIT_EXIT", [copy EXCEPT !.exits = Tail(@)])
    <3>1. copy'.exits = Tail(copy.exits) /\ copy'.triggers = copy.triggers /\ mode' = "HEDIT_EXIT"
      BY <1>2, <2>5 DEF Put, HostType
    <3>2. \A i \in DOMAIN copy.exits : copy.exits[i] = 2
      BY <1>g, <2>5 DEF StepsGood, At, TriggerModes
    <3>3. \A i \in DOMAIN copy.triggers : copy.triggers[i] = 3
      BY <1>g, <2>5 DEF StepsGood, At, TriggerModes
    <3>4. copy'.exits \in Seq(1 .. 2) /\ \A i \in DOMAIN copy'.exits : copy'.exits[i] = 2
      BY <2>1, <2>5, <3>1, <3>2, StepDropped
    <3>5. StepsGood'
      BY <3>1, <3>3, <3>4 DEF StepsGood, TriggerModes
    <3>6. copy' \in HostType
      BY <1>2, <2>5, <3>1, <3>4 DEF Put, HostType
    <3> QED
      BY <1>1, <2>5, <3>5, <3>6 DEF Put, HeditPrompts, HeditMenus
  <2> QED
    BY <1>1, <1>3, <2>2, <2>3, <2>4, <2>5, <1>8 DEF HeditExit, At, Go, HeditPrompts, HeditMenus, TriggerModes
<1> QED
  BY <1>4, <1>5, <1>6, <1>7, <1>8 DEF Hedit

\* An objective is one of a finite array.
LEMMA ListDomain ==
  ASSUME copy \in QuestType
  PROVE  /\ copy.mobs \in Seq(Objective) /\ DOMAIN copy.mobs = 1 .. Len(copy.mobs) /\ Len(copy.mobs) \in Nat
         /\ copy.objs \in Seq(Objective) /\ DOMAIN copy.objs = 1 .. Len(copy.objs) /\ Len(copy.objs) \in Nat
         /\ copy.n \in Nat
BY LenProperties DEF QuestType

\* Answers about the objective under the cursor leave the cursor on it.
LEMMA MobSet ==
  ASSUME copy \in QuestType, copy.n + 1 \in DOMAIN copy.mobs, NEW field \in {"load", "obj"}, NEW v,
         field = "load" => v \in {"none", "mob", "worn", "place"}, field = "obj" => v \in {"none", "mob", "place"}
  PROVE  /\ Set("mobs", field, v) \in QuestType /\ Set("mobs", field, v).n = copy.n
         /\ copy.n + 1 \in DOMAIN Set("mobs", field, v).mobs
<1> DEFINE o == [copy.mobs[copy.n + 1] EXCEPT ![field] = v]
           list == [copy.mobs EXCEPT ![copy.n + 1] = o]
<1>1. copy.mobs[copy.n + 1] \in Objective
  BY ListDomain
<1>2. o \in Objective
  BY <1>1 DEF Objective
<1>3. list \in Seq(Objective) /\ Len(list) = Len(copy.mobs)
  <2> HIDE DEF o
  <2> QED
    BY <1>2, ListDomain, ExceptSeq
<1>4. DOMAIN list = DOMAIN copy.mobs
  OBVIOUS
<1>5. Set("mobs", field, v) = [copy EXCEPT !.mobs = list]
  BY DEF Set
<1> HIDE DEF list
<1> QED
  BY <1>3, <1>4, <1>5 DEF QuestType

LEMMA ObjSet ==
  ASSUME copy \in QuestType, copy.n + 1 \in DOMAIN copy.objs, NEW field \in {"load", "obj"}, NEW v,
         field = "load" => v \in {"none", "mob", "worn", "place"}, field = "obj" => v \in {"none", "mob", "place"}
  PROVE  /\ Set("objs", field, v) \in QuestType /\ Set("objs", field, v).n = copy.n
         /\ copy.n + 1 \in DOMAIN Set("objs", field, v).objs
<1> DEFINE o == [copy.objs[copy.n + 1] EXCEPT ![field] = v]
           list == [copy.objs EXCEPT ![copy.n + 1] = o]
<1>1. copy.objs[copy.n + 1] \in Objective
  BY ListDomain
<1>2. o \in Objective
  BY <1>1 DEF Objective
<1>3. list \in Seq(Objective) /\ Len(list) = Len(copy.objs)
  <2> HIDE DEF o
  <2> QED
    BY <1>2, ListDomain, ExceptSeq
<1>4. DOMAIN list = DOMAIN copy.objs
  OBVIOUS
<1>5. Set("objs", field, v) = [copy EXCEPT !.objs = list]
  BY DEF Set
<1> HIDE DEF list
<1> QED
  BY <1>3, <1>4, <1>5 DEF QuestType

\* A menu is shown with the cursor on the first objective, and asks for none.
LEMMA MenuShown ==
  ASSUME NEW c \in QuestType, NEW m \in {"QEDIT_M_MENU", "QEDIT_O_MENU"}, Objectives(m, c)
  PROVE  mode' = m /\ copy' \in QuestType /\ CursorGood' /\ UNCHANGED <<con, writing, plr>>
BY DEF Objectives, Put, QuestType, CursorGood, HuntModes, FetchModes

\* The list of a quest: the cursor goes to an entry that is there.
LEMMA ListAsked ==
  ASSUME copy \in QuestType, CursorGood,
         \/ QeditList("QEDIT_M_MENU", "QEDIT_M_AWAIT_NUMBER", "QEDIT_M_VNUM", "mobs")
         \/ QeditList("QEDIT_O_MENU", "QEDIT_O_AWAIT_NUMBER", "QEDIT_O_VNUM", "objs")
  PROVE  \/ Again
         \/ /\ mode' \in {"QEDIT_MAIN_MENU", "QEDIT_M_MENU", "QEDIT_M_AWAIT_NUMBER", "QEDIT_M_VNUM",
                          "QEDIT_O_MENU", "QEDIT_O_AWAIT_NUMBER", "QEDIT_O_VNUM"}
            /\ copy' \in QuestType /\ CursorGood' /\ UNCHANGED <<con, writing, plr>>
<1>0. NoObjective \in Objective
  BY DEF NoObjective, Objective
<1>1. ASSUME NEW m \in {"QEDIT_MAIN_MENU", "QEDIT_M_AWAIT_NUMBER", "QEDIT_O_AWAIT_NUMBER"}, Go(m)
      PROVE  mode' = m /\ copy' \in QuestType /\ CursorGood' /\ UNCHANGED <<con, writing, plr>>
  BY <1>1 DEF Go, CursorGood, HuntModes, FetchModes
<1>2. ASSUME Put("QEDIT_M_VNUM", [copy EXCEPT !.n = Len(copy.mobs), !.mobs = Append(@, NoObjective)])
      PROVE  mode' = "QEDIT_M_VNUM" /\ copy' \in QuestType /\ CursorGood' /\ UNCHANGED <<con, writing, plr>>
  <2>1. /\ Append(copy.mobs, NoObjective) \in Seq(Objective)
        /\ DOMAIN Append(copy.mobs, NoObjective) = 1 .. Len(copy.mobs) + 1
    BY <1>0, ListDomain, AppendProperties, LenProperties
  <2> DEFINE list == Append(copy.mobs, NoObjective)
  <2> HIDE DEF list
  <2>2. copy' = [copy EXCEPT !.n = Len(copy.mobs), !.mobs = list] /\ mode' = "QEDIT_M_VNUM" /\ UNCHANGED <<con, writing, plr>>
    BY <1>2 DEF Put, list
  <2>3. list \in Seq(Objective) /\ DOMAIN list = 1 .. Len(copy.mobs) + 1
    BY <2>1 DEF list
  <2>4. copy' \in QuestType /\ copy'.n = Len(copy.mobs) /\ copy'.mobs = list
    BY <2>2, <2>3, ListDomain DEF QuestType
  <2> QED
    BY <2>2, <2>3, <2>4, ListDomain DEF CursorGood, FetchModes
<1>3. ASSUME Put("QEDIT_O_VNUM", [copy EXCEPT !.n = Len(copy.objs), !.objs = Append(@, NoObjective)])
      PROVE  mode' = "QEDIT_O_VNUM" /\ copy' \in QuestType /\ CursorGood' /\ UNCHANGED <<con, writing, plr>>
  <2>1. /\ Append(copy.objs, NoObjective) \in Seq(Objective)
        /\ DOMAIN Append(copy.objs, NoObjective) = 1 .. Len(copy.objs) + 1
    BY <1>0, ListDomain, AppendProperties, LenProperties
  <2> DEFINE list == Append(copy.objs, NoObjective)
  <2> HIDE DEF list
  <2>2. copy' = [copy EXCEPT !.n = Len(copy.objs), !.objs = list] /\ mode' = "QEDIT_O_VNUM" /\ UNCHANGED <<con, writing, plr>>
    BY <1>3 DEF Put, list
  <2>3. list \in Seq(Objective) /\ DOMAIN list = 1 .. Len(copy.objs) + 1
    BY <2>1 DEF list
  <2>4. copy' \in QuestType /\ copy'.n = Len(copy.objs) /\ copy'.objs = list
    BY <2>2, <2>3, ListDomain DEF QuestType
  <2> QED
    BY <2>2, <2>3, <2>4, ListDomain DEF CursorGood, HuntModes
<1>4. ASSUME NEW i \in DOMAIN copy.mobs, Put("QEDIT_M_VNUM", [copy EXCEPT !.n = i - 1])
      PROVE  mode' = "QEDIT_M_VNUM" /\ copy' \in QuestType /\ CursorGood' /\ UNCHANGED <<con, writing, plr>>
  BY <1>4, ListDomain DEF Put, QuestType, CursorGood, FetchModes
<1>5. ASSUME NEW i \in DOMAIN copy.objs, Put("QEDIT_O_VNUM", [copy EXCEPT !.n = i - 1])
      PROVE  mode' = "QEDIT_O_VNUM" /\ copy' \in QuestType /\ CursorGood' /\ UNCHANGED <<con, writing, plr>>
  BY <1>5, ListDomain DEF Put, QuestType, CursorGood, HuntModes
<1> QED
  BY <1>1, <1>2, <1>3, <1>4, <1>5, MenuShown DEF QeditList

\* qedit_parse
LEMMA QeditKeeps ==
  ASSUME EInv, Qedit
  PROVE  EInv'
<1>1. con = "CON_QEDIT" /\ Editing /\ writing \in BOOLEAN
  BY DEF Qedit, Editing, Starts, EInv, TypeOK
<1>2. Prompts[con] = QeditPrompts /\ CopyType[con] = QuestType /\ copy \in QuestType
  BY <1>1 DEF EInv, TypeOK, Prompts, CopyType
<1>g. CursorGood
  BY <1>1 DEF EInv, CopyGood
<1>3. SUFFICES ASSUME ~Again, ~(Leave /\ ~writing)
               PROVE  /\ mode' \in QeditPrompts /\ copy' \in QuestType /\ writing' \in BOOLEAN /\ UNCHANGED <<con, plr>>
                      /\ CursorGood'
  <2>1. UNCHANGED con /\ CursorGood' => CopyGood'
    BY <1>1 DEF CopyGood
  <2> QED
    BY <1>1, <1>2, <2>1, AgainKeeps, LeaveKeeps, InsideKeeps
<1>4. CASE QeditConfirm
  BY <1>1, <1>2, <1>3, <1>g, <1>4 DEF QeditConfirm, Confirm, CursorGood, HuntModes, FetchModes, At, Go, QeditPrompts
<1>5. CASE QeditMain
  <2>1. ASSUME copy' = copy, UNCHANGED <<con, writing, plr>>, mode' \in QeditPrompts,
               mode' \in HuntModes => mode \in HuntModes, mode' \in FetchModes => mode \in FetchModes
        PROVE  /\ mode' \in QeditPrompts /\ copy' \in QuestType /\ writing' \in BOOLEAN /\ UNCHANGED <<con, plr>>
               /\ CursorGood'
    BY <1>1, <1>2, <1>g, <2>1 DEF CursorGood
  <2>2. Chain(QeditReputation, "QEDIT_MAIN_MENU") =>
          Ranged({"QEDIT_MIN_REP"}, "QEDIT_MAX_REP") \/ Ranged({"QEDIT_MAX_REP"}, "QEDIT_MAIN_MENU")
    BY ChainOfTwo DEF QeditReputation
  <2>3. Chain(QeditHours, "QEDIT_MAIN_MENU") =>
          Ranged({"QEDIT_SHOUR"}, "QEDIT_EHOUR") \/ Ranged({"QEDIT_EHOUR"}, "QEDIT_MAIN_MENU")
    BY ChainOfTwo DEF QeditHours
  <2>4. CASE \/ At("QEDIT_MAIN_MENU") /\ Write("QEDIT_INFO")
    BY <1>1, <1>2, <1>g, <2>4 DEF Write, At, CursorGood, QeditPrompts, HuntModes, FetchModes
  <2>5. CASE ~(At("QEDIT_MAIN_MENU") /\ Write("QEDIT_INFO"))
    <3>1. copy' = copy /\ UNCHANGED <<con, writing, plr>>
      BY <1>3, <2>2, <2>3, <2>5, <1>5 DEF QeditMain, Taken, Ranged, At, Go
    <3>2. mode' \in QeditPrompts
      BY <1>3, <2>2, <2>3, <2>5, <1>5 DEF QeditMain, Taken, Ranged, At, Go, QeditPrompts, QeditReputation, QeditHours
    <3>3. mode' \notin HuntModes \cup FetchModes
      BY <1>3, <2>2, <2>3, <2>5, <1>5 DEF QeditMain, Taken, Ranged, At, Go, QeditTexts, QeditNumbers, QeditReputation, QeditHours,
         HuntModes, FetchModes
    <3> QED
      BY <2>1, <3>1, <3>2, <3>3
  <2> QED
    BY <2>4, <2>5
<1>6. CASE QeditMobs
  <2>1. ASSUME copy' = copy, UNCHANGED <<con, writing, plr>>, mode' \in QeditPrompts,
               mode' \in HuntModes => mode \in HuntModes, mode' \in FetchModes => mode \in FetchModes
        PROVE  /\ mode' \in QeditPrompts /\ copy' \in QuestType /\ writing' \in BOOLEAN /\ UNCHANGED <<con, plr>>
               /\ CursorGood'
    BY <1>1, <1>2, <1>g, <2>1 DEF CursorGood
  <2>2. CASE QeditList("QEDIT_M_MENU", "QEDIT_M_AWAIT_NUMBER", "QEDIT_M_VNUM", "mobs")
    BY <1>1, <1>2, <1>3, <1>g, <2>2, ListAsked DEF QeditPrompts, HuntModes, FetchModes
  <2>3. CASE Chain(<<"QEDIT_M_VNUM", "QEDIT_M_NUYEN", "QEDIT_M_KARMA">>, "QEDIT_M_LOAD")
    <3>1. \/ Ranged({"QEDIT_M_VNUM"}, "QEDIT_M_NUYEN") \/ Ranged({"QEDIT_M_NUYEN"}, "QEDIT_M_KARMA")
          \/ Ranged({"QEDIT_M_KARMA"}, "QEDIT_M_LOAD")
      BY <2>3, ChainOfThree
    <3> QED
      BY <1>3, <2>1, <3>1 DEF Ranged, Go, QeditPrompts, HuntModes, FetchModes
  <2>4. CASE Ranged({"QEDIT_M_LDATA"}, "QEDIT_M_OBJECTIVE")
    BY <1>3, <2>1, <2>4 DEF Ranged, Go, QeditPrompts, HuntModes, FetchModes
  <2>5. CASE mode \in HuntModes
    <3>1. copy.n + 1 \in DOMAIN copy.mobs
      BY <1>g, <2>5 DEF CursorGood
    <3>2. CASE At("QEDIT_M_LOAD") /\ Put("QEDIT_M_LDATA", Set("mobs", "load", "place"))
      BY <1>1, <1>2, <3>1, <3>2, MobSet DEF Put, At, CursorGood, QeditPrompts, HuntModes, FetchModes
    <3>3. CASE At("QEDIT_M_LOAD") /\ Put("QEDIT_M_OBJECTIVE", Set("mobs", "load", "none"))
      BY <1>1, <1>2, <3>1, <3>3, MobSet DEF Put, At, CursorGood, QeditPrompts, HuntModes, FetchModes
    <3>4. CASE Objectives("QEDIT_M_MENU", Set("mobs", "obj", "none"))
      <4>1. Set("mobs", "obj", "none") \in QuestType
        BY <1>2, <3>1, MobSet
      <4> QED
        BY <1>1, <3>4, <4>1, MenuShown DEF QeditPrompts
    <3>5. ASSUME NEW o \in {"place", "mob"}, Put("QEDIT_M_ODATA", Set("mobs", "obj", o))
          PROVE  /\ mode' \in QeditPrompts /\ copy' \in QuestType /\ writing' \in BOOLEAN /\ UNCHANGED <<con, plr>>
                 /\ CursorGood'
      BY <1>1, <1>2, <3>1, <3>5, MobSet DEF Put, CursorGood, QeditPrompts, HuntModes, FetchModes
    <3>6. CASE Objectives("QEDIT_M_MENU", copy)
      BY <1>1, <1>2, <3>6, MenuShown DEF QeditPrompts
    <3> QED
      BY <1>3, <2>2, <2>3, <2>4, <3>2, <3>3, <3>4, <3>5, <3>6, <1>6 DEF QeditMobs
  <2>6. At("QEDIT_M_LOAD") \/ At("QEDIT_M_OBJECTIVE") \/ At("QEDIT_M_ODATA") => mode \in HuntModes
    BY DEF At, HuntModes
  <2> QED
    BY <2>2, <2>3, <2>4, <2>5, <2>6, <1>6 DEF QeditMobs
<1>7. CASE QeditHunt
  <2>1. copy.n + 1 \in DOMAIN copy.mobs /\ NoObjective \in Objective
    BY <1>g, <1>7 DEF QeditHunt, At, CursorGood, HuntModes, NoObjective, Objective
  <2> DEFINE zeroed == [copy.mobs EXCEPT ![copy.n + 1] = NoObjective]
  <2>2. zeroed \in Seq(Objective) /\ Len(zeroed) = Len(copy.mobs)
    BY <1>2, <2>1, ListDomain, ExceptSeq
  <2>3. Front(zeroed) \in Seq(Objective)
    <3> HIDE DEF zeroed
    <3>1. Len(zeroed) \in Nat /\ \A i \in 1 .. Len(zeroed) - 1 : zeroed[i] \in Objective
      BY <2>2, LenProperties
    <3> QED
      BY <3>1, SubSeqProperties DEF Front
  <2>4. Objectives("QEDIT_M_MENU", [copy EXCEPT !.mobs = Front(zeroed)])
    BY <1>7 DEF QeditHunt
  <2> HIDE DEF zeroed
  <2>5. [copy EXCEPT !.mobs = Front(zeroed)] \in QuestType
    BY <1>2, <2>3 DEF QuestType
  <2> QED
    BY <1>1, <2>4, <2>5, MenuShown DEF QeditPrompts
<1>8. CASE QeditObjs
  <2>1. ASSUME copy' = copy, UNCHANGED <<con, writing, plr>>, mode' \in QeditPrompts,
               mode' \in HuntModes => mode \in HuntModes, mode' \in FetchModes => mode \in FetchModes
        PROVE  /\ mode' \in QeditPrompts /\ copy' \in QuestType /\ writing' \in BOOLEAN /\ UNCHANGED <<con, plr>>
               /\ CursorGood'
    BY <1>1, <1>2, <1>g, <2>1 DEF CursorGood
  <2>2. CASE QeditList("QEDIT_O_MENU", "QEDIT_O_AWAIT_NUMBER", "QEDIT_O_VNUM", "objs")
    BY <1>1, <1>2, <1>3, <1>g, <2>2, ListAsked DEF QeditPrompts, HuntModes, FetchModes
  <2>3. CASE Chain(<<"QEDIT_O_VNUM", "QEDIT_O_NUYEN", "QEDIT_O_KARMA">>, "QEDIT_O_LOAD")
    <3>1. \/ Ranged({"QEDIT_O_VNUM"}, "QEDIT_O_NUYEN") \/ Ranged({"QEDIT_O_NUYEN"}, "QEDIT_O_KARMA")
          \/ Ranged({"QEDIT_O_KARMA"}, "QEDIT_O_LOAD")
      BY <2>3, ChainOfThree
    <3> QED
      BY <1>3, <2>1, <3>1 DEF Ranged, Go, QeditPrompts, HuntModes, FetchModes
  <2>4. CASE At("QEDIT_O_LOAD")
    <3>1. copy.n + 1 \in DOMAIN copy.objs
      BY <1>g, <2>4 DEF CursorGood, At, FetchModes
    <3>2. CASE Put("QEDIT_O_OBJECTIVE", Set("objs", "load", "none"))
      BY <1>1, <1>2, <3>1, <3>2, ObjSet DEF Put, CursorGood, QeditPrompts, HuntModes, FetchModes
    <3>3. ASSUME NEW l \in {"mob", "worn", "place"}, Put("QEDIT_O_LDATA", Set("objs", "load", l))
          PROVE  /\ mode' \in QeditPrompts /\ copy' \in QuestType /\ writing' \in BOOLEAN /\ UNCHANGED <<con, plr>>
                 /\ CursorGood'
      BY <1>1, <1>2, <3>1, <3>3, ObjSet DEF Put, CursorGood, QeditPrompts, HuntModes, FetchModes
    <3> QED
      BY <1>3, <2>2, <2>3, <3>2, <3>3, <1>8 DEF QeditObjs
  <2> QED
    BY <2>2, <2>3, <2>4, <1>8 DEF QeditObjs
<1>9. CASE QeditFetch
  <2>1. ASSUME copy' = copy, UNCHANGED <<con, writing, plr>>, mode' \in QeditPrompts,
               mode' \in HuntModes => mode \in HuntModes, mode' \in FetchModes => mode \in FetchModes
        PROVE  /\ mode' \in QeditPrompts /\ copy' \in QuestType /\ writing' \in BOOLEAN /\ UNCHANGED <<con, plr>>
               /\ CursorGood'
    BY <1>1, <1>2, <1>g, <2>1 DEF CursorGood
  <2>2. CASE Ranged({"QEDIT_O_LDATA"}, IF Kind("objs", "load") = "worn" THEN "QEDIT_O_LDATA2" ELSE "QEDIT_O_OBJECTIVE")
    BY <1>3, <2>1, <2>2 DEF Ranged, Go, QeditPrompts, HuntModes, FetchModes
  <2>3. CASE Ranged({"QEDIT_O_LDATA2"}, "QEDIT_O_OBJECTIVE")
    BY <1>3, <2>1, <2>3 DEF Ranged, Go, QeditPrompts, HuntModes, FetchModes
  <2>4. CASE At("QEDIT_O_OBJECTIVE")
    <3>1. copy.n + 1 \in DOMAIN copy.objs
      BY <1>g, <2>4 DEF CursorGood, At, FetchModes
    <3>2. CASE Objectives("QEDIT_O_MENU", Set("objs", "obj", "none"))
      <4>1. Set("objs", "obj", "none") \in QuestType
        BY <1>2, <3>1, ObjSet
      <4> QED
        BY <1>1, <3>2, <4>1, MenuShown DEF QeditPrompts
    <3>3. ASSUME NEW o \in {"mob", "place"}, Put("QEDIT_O_ODATA", Set("objs", "obj", o))
          PROVE  /\ mode' \in QeditPrompts /\ copy' \in QuestType /\ writing' \in BOOLEAN /\ UNCHANGED <<con, plr>>
                 /\ CursorGood'
      BY <1>1, <1>2, <3>1, <3>3, ObjSet DEF Put, CursorGood, QeditPrompts, HuntModes, FetchModes
    <3>4. ~At("QEDIT_O_ODATA")
      BY <2>4 DEF At
    <3> QED
      BY <1>3, <2>2, <2>3, <3>2, <3>3, <3>4, <1>9 DEF QeditFetch
  <2>5. CASE Objectives("QEDIT_O_MENU", copy)
    BY <1>1, <1>2, <2>5, MenuShown DEF QeditPrompts
  <2> QED
    BY <1>3, <2>2, <2>3, <2>4, <2>5, <1>9 DEF QeditFetch
<1> QED
  BY <1>4, <1>5, <1>6, <1>7, <1>8, <1>9 DEF Qedit

-----------------------------------------------------------------------------
(* Rooms and objects: exits and extra descriptions.                         *)

\* What the extra descriptions of a copy look like.
LEMMA ExtrasList ==
  ASSUME copy \in RoomType \cup ItemType
  PROVE  /\ copy.extras \in Seq(Extras) /\ DOMAIN copy.extras = 1 .. Len(copy.extras) /\ Len(copy.extras) \in Nat
         /\ copy.at \in Nat /\ {"extras", "at"} \subseteq DOMAIN copy
<1>1. copy.extras \in Seq(Extras) /\ copy.at \in Nat /\ {"extras", "at"} \subseteq DOMAIN copy
  BY DEF RoomType, ItemType
<1> QED
  BY <1>1, LenProperties

\* A copy with other extra descriptions is one of the same kind.
LEMMA ExtrasPut ==
  ASSUME NEW T, T = RoomType \/ T = ItemType, copy \in T, NEW list \in Seq(Extras), NEW k \in Nat
  PROVE  /\ [copy EXCEPT !.extras = list, !.at = k] \in T
         /\ [copy EXCEPT !.extras = list, !.at = k].extras = list
         /\ [copy EXCEPT !.extras = list, !.at = k].at = k
<1>1. CASE T = RoomType
  <2>1. copy \in RoomType
    BY <1>1
  <2> QED
    BY <1>1, <2>1 DEF RoomType
<1>2. CASE T = ItemType
  <2>1. copy \in ItemType
    BY <1>2
  <2> QED
    BY <1>2, <2>1 DEF ItemType
<1> QED
  BY <1>1, <1>2

\* The menu of the extra descriptions, and the prompt for their keywords.
LEMMA ExtraKeeps ==
  ASSUME NEW T, T = RoomType \/ T = ItemType, copy \in T, ExtrasGood, ~Again, writing \in BOOLEAN,
         NEW menu \in ExtraModes, NEW key \in ExtraModes, NEW words \in ExtraModes, NEW home, home \notin ExtraModes,
         Extra(menu, key, words, home)
  PROVE  copy' \in T /\ ExtrasGood' /\ mode' \in {menu, key, words, home} /\ writing' \in BOOLEAN /\ UNCHANGED <<con, plr>>
<1>1. /\ copy.extras \in Seq(Extras) /\ DOMAIN copy.extras = 1 .. Len(copy.extras) /\ Len(copy.extras) \in Nat
      /\ copy.at \in Nat /\ {"extras", "at"} \subseteq DOMAIN copy
  BY ExtrasList
<1>2. mode \in {menu, key}
  BY DEF Extra, At
<1>3. copy.at \in DOMAIN copy.extras /\ \A i \in DOMAIN copy.extras : i # copy.at => Complete(copy.extras[i])
  BY <1>2 DEF ExtrasGood
<1>4. CASE Put(home, Backed)
  <2> DEFINE list == IF Complete(copy.extras[copy.at]) THEN copy.extras ELSE SubSeq(copy.extras, 1, copy.at - 1)
  <2>1. Backed = [copy EXCEPT !.extras = list, !.at = 0]
    BY DEF Backed
  <2>2. list \in Seq(Extras) /\ \A i \in DOMAIN list : Complete(list[i])
    <3>1. CASE Complete(copy.extras[copy.at])
      BY <1>1, <1>3, <3>1
    <3>2. CASE ~Complete(copy.extras[copy.at])
      <4>1. copy.at - 1 \in Int /\ \A i \in 1 .. copy.at - 1 : copy.extras[i] \in Extras
        BY <1>1, <1>3
      <4>2. /\ SubSeq(copy.extras, 1, copy.at - 1) \in Seq(Extras)
            /\ Len(SubSeq(copy.extras, 1, copy.at - 1)) = IF 1 <= copy.at - 1 THEN copy.at - 1 - 1 + 1 ELSE 0
            /\ \A i \in 1 .. copy.at - 1 - 1 + 1 : SubSeq(copy.extras, 1, copy.at - 1)[i] = copy.extras[1 + i - 1]
        BY <4>1, SubSeqProperties
      <4>3. DOMAIN SubSeq(copy.extras, 1, copy.at - 1) = 1 .. copy.at - 1
        BY <1>1, <1>3, <4>2, LenProperties
      <4> QED
        BY <1>1, <1>3, <3>2, <4>2, <4>3
    <3> QED
      BY <3>1, <3>2
  <2> HIDE DEF list
  <2>3. copy' \in T /\ copy'.extras = list
    <3>1. copy' = [copy EXCEPT !.extras = list, !.at = 0]
      BY <1>4, <2>1 DEF Put
    <3>2. list \in Seq(Extras) /\ 0 \in Nat
      BY <2>2
    <3>3. [copy EXCEPT !.extras = list, !.at = 0] \in T /\ [copy EXCEPT !.extras = list, !.at = 0].extras = list
      BY <3>2, ExtrasPut, Zenon
    <3> QED
      BY <3>1, <3>3
  <2> QED
    BY <1>4, <2>2, <2>3 DEF Put, ExtrasGood
<1>5. CASE Go(key) \/ Write(words)
  BY <1>3, <1>5 DEF Go, Write, ExtrasGood
<1>6. CASE Complete(copy.extras[copy.at]) /\ Put(menu, NextExtra)
  <2> DEFINE list == IF copy.at < Len(copy.extras) THEN copy.extras ELSE Append(copy.extras, Bare)
  <2>1. NextExtra = [copy EXCEPT !.extras = list, !.at = copy.at + 1]
    BY <1>1 DEF NextExtra
  <2>2. /\ list \in Seq(Extras) /\ copy.at + 1 \in DOMAIN list
        /\ \A i \in DOMAIN list : i # copy.at + 1 => Complete(list[i])
    <3>1. CASE copy.at < Len(copy.extras)
      BY <1>1, <1>3, <1>6, <3>1
    <3>2. CASE ~(copy.at < Len(copy.extras))
      <4>1. Bare \in Extras
        BY DEF Bare, Extras
      <4>2. /\ Append(copy.extras, Bare) \in Seq(Extras)
            /\ Len(Append(copy.extras, Bare)) = Len(copy.extras) + 1
            /\ \A i \in 1 .. Len(copy.extras) : Append(copy.extras, Bare)[i] = copy.extras[i]
        BY <1>1, <4>1, AppendProperties
      <4>3. DOMAIN Append(copy.extras, Bare) = 1 .. Len(copy.extras) + 1
        BY <1>1, <4>2, LenProperties
      <4>4. copy.at = Len(copy.extras) /\ \A i \in 1 .. Len(copy.extras) : Complete(copy.extras[i])
        BY <1>1, <1>3, <1>6, <3>2
      <4>5. list = Append(copy.extras, Bare)
        BY <3>2
      <4> HIDE DEF list
      <4> QED
        BY <1>1, <4>2, <4>3, <4>4, <4>5
    <3> QED
      BY <3>1, <3>2
  <2> HIDE DEF list
  <2>3. copy' \in T /\ copy'.extras = list /\ copy'.at = copy.at + 1
    <3>1. copy' = [copy EXCEPT !.extras = list, !.at = copy.at + 1]
      BY <1>6, <2>1 DEF Put
    <3>2. list \in Seq(Extras) /\ copy.at + 1 \in Nat
      BY <1>1, <2>2
    <3>3. /\ [copy EXCEPT !.extras = list, !.at = copy.at + 1] \in T
          /\ [copy EXCEPT !.extras = list, !.at = copy.at + 1].extras = list
          /\ [copy EXCEPT !.extras = list, !.at = copy.at + 1].at = copy.at + 1
      BY <3>2, ExtrasPut, Zenon
    <3> QED
      BY <3>1, <3>3
  <2> QED
    BY <1>6, <2>2, <2>3 DEF Put, ExtrasGood
<1>7. CASE Put(menu, [copy EXCEPT !.extras[copy.at].key = TRUE])
  <2> DEFINE list == [copy.extras EXCEPT ![copy.at] = [@ EXCEPT !.key = TRUE]]
  <2>1. copy' = [copy EXCEPT !.extras = list]
    BY <1>7 DEF Put
  <2>2. [copy.extras[copy.at] EXCEPT !.key = TRUE] \in Extras
    <3>1. copy.extras[copy.at] \in Extras
      BY <1>1, <1>3
    <3> QED
      BY <3>1 DEF Extras
  <2>3. /\ list \in Seq(Extras) /\ DOMAIN list = DOMAIN copy.extras
        /\ \A i \in DOMAIN list : i # copy.at => list[i] = copy.extras[i]
    BY <1>1, <1>3, <2>2, ExceptSeq
  <2> HIDE DEF list
  <2>4. copy' \in T /\ copy'.extras = list /\ copy'.at = copy.at
    <3>1. copy' = [copy EXCEPT !.extras = list, !.at = copy.at]
      BY <1>1, <2>1 DEF RoomType, ItemType
    <3>2. list \in Seq(Extras) /\ copy.at \in Nat
      BY <1>1, <2>3
    <3>3. /\ [copy EXCEPT !.extras = list, !.at = copy.at] \in T
          /\ [copy EXCEPT !.extras = list, !.at = copy.at].extras = list
          /\ [copy EXCEPT !.extras = list, !.at = copy.at].at = copy.at
      BY <3>2, ExtrasPut, Zenon
    <3> QED
      BY <3>1, <3>3
  <2> QED
    BY <1>3, <1>7, <2>3, <2>4 DEF Put, ExtrasGood
<1> QED
  BY <1>4, <1>5, <1>6, <1>7 DEF Extra

\* The menu is entered at the first extra description.
LEMMA FirstExtraKeeps ==
  ASSUME NEW T, T = RoomType \/ T = ItemType, copy \in T, ExtrasGood, mode \notin ExtraModes,
         NEW menu \in ExtraModes, Put(menu, FirstExtra)
  PROVE  copy' \in T /\ ExtrasGood' /\ mode' = menu /\ UNCHANGED <<con, writing, plr>>
<1>1. /\ copy.extras \in Seq(Extras) /\ DOMAIN copy.extras = 1 .. Len(copy.extras) /\ Len(copy.extras) \in Nat
      /\ copy.at \in Nat /\ {"extras", "at"} \subseteq DOMAIN copy
  BY ExtrasList
<1>2. \A i \in DOMAIN copy.extras : Complete(copy.extras[i])
  BY DEF ExtrasGood
<1> DEFINE list == IF copy.extras = <<>> THEN <<Bare>> ELSE copy.extras
<1>3. FirstExtra = [copy EXCEPT !.extras = list, !.at = 1]
  BY DEF FirstExtra
<1>4. list \in Seq(Extras) /\ 1 \in DOMAIN list /\ \A i \in DOMAIN list : i # 1 => Complete(list[i])
  <2>1. CASE copy.extras = <<>>
    <3>1. Bare \in Extras
      BY DEF Bare, Extras
    <3>2. list = <<Bare>>
      BY <2>1
    <3> HIDE DEF list
    <3>3. <<Bare>> \in Seq(Extras) /\ DOMAIN <<Bare>> = {1}
      BY <3>1
    <3> QED
      BY <3>2, <3>3
  <2>2. CASE copy.extras # <<>>
    BY <1>1, <1>2, <2>2, EmptySeq
  <2> QED
    BY <2>1, <2>2
<1> HIDE DEF list
<1>5. copy' \in T /\ copy'.extras = list /\ copy'.at = 1
  <2>1. copy' = [copy EXCEPT !.extras = list, !.at = 1]
    BY <1>3 DEF Put
  <2>2. list \in Seq(Extras) /\ 1 \in Nat
    BY <1>4
  <2>3. /\ [copy EXCEPT !.extras = list, !.at = 1] \in T
        /\ [copy EXCEPT !.extras = list, !.at = 1].extras = list
        /\ [copy EXCEPT !.extras = list, !.at = 1].at = 1
    BY <2>2, ExtrasPut, Zenon
  <2> QED
    BY <2>1, <2>3
<1> QED
  BY <1>4, <1>5 DEF Put, ExtrasGood

\* redit_disp_exit_menu makes the exit it shows.
LEMMA ExitShown ==
  ASSUME copy \in RoomType, ExtrasGood, mode \notin ExtraModes, NEW dir \in Dir, ShowExit(dir)
  PROVE  copy' \in RoomType /\ ExtrasGood' /\ ExitGood' /\ mode' = "REDIT_EXIT_MENU" /\ UNCHANGED <<con, writing, plr>>
<1>1. /\ copy' \in RoomType /\ copy'.extras = copy.extras /\ copy'.way = dir /\ dir \in copy'.exits
      /\ mode' = "REDIT_EXIT_MENU" /\ UNCHANGED <<con, writing, plr>>
  BY DEF ShowExit, Put, RoomType
<1>2. mode' \notin ExtraModes
  BY <1>1 DEF ExtraModes, RoomExtras, ItemExtras
<1> QED
  BY <1>1, <1>2 DEF ExtrasGood, ExitGood

\* redit_parse
LEMMA ReditKeeps ==
  ASSUME EInv, Redit
  PROVE  EInv'
<1>1. con = "CON_REDIT" /\ Editing /\ writing \in BOOLEAN
  BY DEF Redit, Editing, Starts, EInv, TypeOK
<1>2. Prompts[con] = ReditPrompts /\ CopyType[con] = RoomType /\ copy \in RoomType
  BY <1>1 DEF EInv, TypeOK, Prompts, CopyType
<1>g. ExtrasGood /\ ExitGood
  BY <1>1 DEF EInv, CopyGood
<1>3. SUFFICES ASSUME ~Again, ~(Leave /\ ~writing)
               PROVE  /\ mode' \in ReditPrompts /\ copy' \in RoomType /\ writing' \in BOOLEAN /\ UNCHANGED <<con, plr>>
                      /\ (ExtrasGood /\ ExitGood)'
  <2>1. UNCHANGED con /\ (ExtrasGood /\ ExitGood)' => CopyGood'
    BY <1>1 DEF CopyGood
  <2> QED
    BY <1>1, <1>2, <2>1, AgainKeeps, LeaveKeeps, InsideKeeps
<1>4. CASE ReditConfirm
  <2>1. ASSUME copy' = copy \/ \E r \in BOOLEAN : copy' = [copy EXCEPT !.rated = r],
               writing' \in BOOLEAN, UNCHANGED <<con, plr>>, mode \notin ExtraModes,
               mode' \in ReditPrompts, mode' \notin ExtraModes, mode' \in ExitModes => mode \in ExitModes
        PROVE  /\ mode' \in ReditPrompts /\ copy' \in RoomType /\ writing' \in BOOLEAN /\ UNCHANGED <<con, plr>>
               /\ ExtrasGood' /\ ExitGood'
    <3>1. copy' \in RoomType /\ copy'.extras = copy.extras /\ copy'.way = copy.way /\ copy'.exits = copy.exits
      BY <1>2, <2>1 DEF RoomType
    <3> QED
      BY <1>g, <2>1, <3>1 DEF ExtrasGood, ExitGood
  <2>2. mode \notin ExtraModes
    BY <1>4 DEF ReditConfirm, Confirm, At, Go, ExtraModes, RoomExtras, ItemExtras
  <2>3. mode' \in ReditPrompts /\ mode' \notin ExtraModes /\ mode' \notin ExitModes
    BY <1>3, <1>4 DEF ReditConfirm, Confirm, At, Go, ReditPrompts, MatrixFields, MatrixNumbers, ExitModes, ExitFields, ExitNumbers, RoomExtras, ExtraModes, ItemExtras
  <2>4. /\ copy' = copy \/ \E r \in BOOLEAN : copy' = [copy EXCEPT !.rated = r]
        /\ writing' \in BOOLEAN /\ UNCHANGED <<con, plr>>
    BY <1>1, <1>3, <1>4 DEF ReditConfirm, Confirm, At, Go
  <2> QED
    BY <2>1, <2>2, <2>3, <2>4
<1>5. CASE ReditMain
  <2>1. ASSUME copy' = copy \/ \E r \in BOOLEAN : copy' = [copy EXCEPT !.rated = r],
               writing' \in BOOLEAN, UNCHANGED <<con, plr>>, mode \notin ExtraModes,
               mode' \in ReditPrompts, mode' \notin ExtraModes, mode' \in ExitModes => mode \in ExitModes
        PROVE  /\ mode' \in ReditPrompts /\ copy' \in RoomType /\ writing' \in BOOLEAN /\ UNCHANGED <<con, plr>>
               /\ ExtrasGood' /\ ExitGood'
    <3>1. copy' \in RoomType /\ copy'.extras = copy.extras /\ copy'.way = copy.way /\ copy'.exits = copy.exits
      BY <1>2, <2>1 DEF RoomType
    <3> QED
      BY <1>g, <2>1, <3>1 DEF ExtrasGood, ExitGood
  <2>2. mode = "REDIT_MAIN_MENU" /\ mode \notin ExtraModes
    BY <1>5 DEF ReditMain, At, ExtraModes, RoomExtras, ItemExtras
  <2>3. ASSUME NEW dir \in Dir, ShowExit(dir)
        PROVE  /\ mode' \in ReditPrompts /\ copy' \in RoomType /\ writing' \in BOOLEAN /\ UNCHANGED <<con, plr>>
               /\ ExtrasGood' /\ ExitGood'
    BY <1>1, <1>2, <1>g, <2>2, <2>3, ExitShown DEF ReditPrompts, ExitModes
  <2>4. CASE Put("REDIT_EXTRADESC_MENU", FirstExtra)
    <3>1. "REDIT_EXTRADESC_MENU" \in ExtraModes
      BY DEF ExtraModes, RoomExtras
    <3>2. copy' \in RoomType /\ ExtrasGood' /\ mode' = "REDIT_EXTRADESC_MENU" /\ UNCHANGED <<con, writing, plr>>
      BY <1>2, <1>g, <2>2, <2>4, <3>1, FirstExtraKeeps
    <3> QED
      BY <1>1, <3>2 DEF ExitGood, ReditPrompts, MatrixFields, MatrixNumbers, ExitModes, ExitFields, ExitNumbers, RoomExtras
  <2>5. CASE \/ \E m \in {"REDIT_NAME", "REDIT_FLAGS", "REDIT_SECTOR", "REDIT_MATRIX"} : Go(m)
             \/ Write("REDIT_DESC") \/ Go("REDIT_LIBRARY_RATING")
    <3>1. mode' \in ReditPrompts /\ mode' \notin ExtraModes /\ mode' \notin ExitModes
      BY <2>5 DEF Go, Write, ReditPrompts, MatrixFields, MatrixNumbers, ExitModes, ExitFields, ExitNumbers, RoomExtras, ExtraModes, ItemExtras
    <3>2. copy' = copy /\ writing' \in BOOLEAN /\ UNCHANGED <<con, plr>>
      BY <1>1, <2>5 DEF Go, Write
    <3> QED
      BY <2>1, <2>2, <3>1, <3>2
  <2>6. ~writing
    BY <1>5 DEF ReditMain, At
  <2> QED
    BY <1>3, <2>3, <2>4, <2>5, <2>6, <1>5 DEF ReditMain
<1>6. CASE ReditMatrix
  <2>1. ASSUME copy' = copy \/ \E r \in BOOLEAN : copy' = [copy EXCEPT !.rated = r],
               writing' \in BOOLEAN, UNCHANGED <<con, plr>>, mode \notin ExtraModes,
               mode' \in ReditPrompts, mode' \notin ExtraModes, mode' \in ExitModes => mode \in ExitModes
        PROVE  /\ mode' \in ReditPrompts /\ copy' \in RoomType /\ writing' \in BOOLEAN /\ UNCHANGED <<con, plr>>
               /\ ExtrasGood' /\ ExitGood'
    <3>1. copy' \in RoomType /\ copy'.extras = copy.extras /\ copy'.way = copy.way /\ copy'.exits = copy.exits
      BY <1>2, <2>1 DEF RoomType
    <3> QED
      BY <1>g, <2>1, <3>1 DEF ExtrasGood, ExitGood
  <2>2. mode \notin ExtraModes
    BY <1>6 DEF ReditMatrix, Taken, Ranged, At, Go, MatrixFields, MatrixNumbers, ExtraModes, RoomExtras, ItemExtras
  <2>3. mode' \in ReditPrompts /\ mode' \notin ExtraModes /\ mode' \notin ExitModes
    BY <1>3, <1>6 DEF ReditMatrix, Taken, Ranged, At, Go, MatrixFields, MatrixNumbers, ReditPrompts, MatrixFields, MatrixNumbers, ExitModes, ExitFields, ExitNumbers, RoomExtras, ExtraModes, ItemExtras
  <2>4. /\ copy' = copy \/ \E r \in BOOLEAN : copy' = [copy EXCEPT !.rated = r]
        /\ writing' \in BOOLEAN /\ UNCHANGED <<con, plr>>
    BY <1>1, <1>3, <1>6 DEF ReditMatrix, Taken, Ranged, At, Go, MatrixFields, MatrixNumbers
  <2> QED
    BY <2>1, <2>2, <2>3, <2>4
<1>7. CASE ReditFlags
  <2>1. ASSUME copy' = copy \/ \E r \in BOOLEAN : copy' = [copy EXCEPT !.rated = r],
               writing' \in BOOLEAN, UNCHANGED <<con, plr>>, mode \notin ExtraModes,
               mode' \in ReditPrompts, mode' \notin ExtraModes, mode' \in ExitModes => mode \in ExitModes
        PROVE  /\ mode' \in ReditPrompts /\ copy' \in RoomType /\ writing' \in BOOLEAN /\ UNCHANGED <<con, plr>>
               /\ ExtrasGood' /\ ExitGood'
    <3>1. copy' \in RoomType /\ copy'.extras = copy.extras /\ copy'.way = copy.way /\ copy'.exits = copy.exits
      BY <1>2, <2>1 DEF RoomType
    <3> QED
      BY <1>g, <2>1, <3>1 DEF ExtrasGood, ExitGood
  <2>2. mode \notin ExtraModes
    BY <1>7 DEF ReditFlags, Taken, At, Go, Put, ExtraModes, RoomExtras, ItemExtras
  <2>3. mode' \in ReditPrompts /\ mode' \notin ExtraModes /\ mode' \notin ExitModes
    BY <1>3, <1>7 DEF ReditFlags, Taken, At, Go, Put, ReditPrompts, MatrixFields, MatrixNumbers, ExitModes, ExitFields, ExitNumbers, RoomExtras, ExtraModes, ItemExtras
  <2>4. /\ copy' = copy \/ \E r \in BOOLEAN : copy' = [copy EXCEPT !.rated = r]
        /\ writing' \in BOOLEAN /\ UNCHANGED <<con, plr>>
    BY <1>1, <1>3, <1>7 DEF ReditFlags, Taken, At, Go, Put
  <2> QED
    BY <2>1, <2>2, <2>3, <2>4
<1>8. CASE ReditExit
  <2>1. ASSUME copy' = copy \/ \E r \in BOOLEAN : copy' = [copy EXCEPT !.rated = r],
               writing' \in BOOLEAN, UNCHANGED <<con, plr>>, mode \notin ExtraModes,
               mode' \in ReditPrompts, mode' \notin ExtraModes, mode' \in ExitModes => mode \in ExitModes
        PROVE  /\ mode' \in ReditPrompts /\ copy' \in RoomType /\ writing' \in BOOLEAN /\ UNCHANGED <<con, plr>>
               /\ ExtrasGood' /\ ExitGood'
    <3>1. copy' \in RoomType /\ copy'.extras = copy.extras /\ copy'.way = copy.way /\ copy'.exits = copy.exits
      BY <1>2, <2>1 DEF RoomType
    <3> QED
      BY <1>g, <2>1, <3>1 DEF ExtrasGood, ExitGood
  <2>2. mode \in ExitModes /\ mode \notin ExtraModes /\ ~writing
    BY <1>8 DEF ReditExit, At, ExitModes, ExitFields, ExitNumbers, ExtraModes, RoomExtras, ItemExtras
  <2>3. copy.way \in Dir
    BY <1>2, <1>g, <2>2 DEF ExitGood, RoomType
  <2>4. CASE ShowExit(copy.way)
    BY <1>1, <1>2, <1>g, <2>2, <2>3, <2>4, ExitShown DEF ReditPrompts, ExitModes
  <2>5. CASE Put("REDIT_MAIN_MENU", [copy EXCEPT !.exits = @ \ {copy.way}])
    <3>1. /\ copy' \in RoomType /\ copy'.extras = copy.extras
          /\ mode' = "REDIT_MAIN_MENU" /\ UNCHANGED <<con, writing, plr>>
      BY <1>2, <2>5 DEF Put, RoomType
    <3>2. mode' \notin ExtraModes /\ mode' \notin ExitModes /\ mode' \in ReditPrompts
      BY <3>1 DEF ExtraModes, RoomExtras, ItemExtras, ExitModes, ExitFields, ExitNumbers, ReditPrompts
    <3> QED
      BY <1>1, <1>g, <2>2, <3>1, <3>2 DEF ExtrasGood, ExitGood
  <2>6. CASE Go("REDIT_MAIN_MENU") \/ (\E m \in ExitFields \cup ExitNumbers : Go(m)) \/ Write("REDIT_EXIT_DESCRIPTION")
    <3>1. mode' \in ReditPrompts /\ mode' \notin ExtraModes
      BY <2>6 DEF Go, Write, ReditPrompts, MatrixFields, MatrixNumbers, ExitModes, ExitFields, ExitNumbers, RoomExtras, ExtraModes, ItemExtras
    <3>2. copy' = copy /\ writing' \in BOOLEAN /\ UNCHANGED <<con, plr>>
      BY <1>1, <2>6 DEF Go, Write
    <3> QED
      BY <2>1, <2>2, <3>1, <3>2
  <2> QED
    BY <1>3, <2>4, <2>5, <2>6, <1>8 DEF ReditExit
<1>9. CASE ReditExtra
  <2>1. /\ "REDIT_EXTRADESC_MENU" \in ExtraModes /\ "REDIT_EXTRADESC_KEY" \in ExtraModes
        /\ "REDIT_EXTRADESC_DESCRIPTION" \in ExtraModes /\ "REDIT_MAIN_MENU" \notin ExtraModes
    BY DEF ExtraModes, RoomExtras, ItemExtras
  <2>2. /\ copy' \in RoomType /\ ExtrasGood' /\ writing' \in BOOLEAN /\ UNCHANGED <<con, plr>>
        /\ mode' \in {"REDIT_EXTRADESC_MENU", "REDIT_EXTRADESC_KEY", "REDIT_EXTRADESC_DESCRIPTION", "REDIT_MAIN_MENU"}
    BY <1>1, <1>2, <1>3, <1>g, <2>1, <1>9, ExtraKeeps DEF ReditExtra
  <2> QED
    BY <2>2 DEF ExitGood, ReditPrompts, MatrixFields, MatrixNumbers, ExitModes, ExitFields, ExitNumbers, RoomExtras
<1> QED
  BY <1>4, <1>5, <1>6, <1>7, <1>8, <1>9 DEF Redit

\* The first of the values still to be asked for.
LEMMA FirstAsked ==
  ASSUME NEW S \in SUBSET (1 .. 10), S # {}
  PROVE  Min(S) \in 1 .. 10
<1>1. PICK i \in S : \A j \in S : ~ (<<j, i>> \in OpToRel(<, Nat))
  <2>1. S \in SUBSET Nat
    OBVIOUS
  <2> QED
    BY <2>1, NatLessThanWellFounded, WFMin
<1>2. \A j \in S : <<j, i>> \in OpToRel(<, Nat) <=> j < i
  BY DEF OpToRel
<1>3. \A j \in S : ~ (j < i)
  BY <1>1, <1>2, Zenon
<1>4. \A j \in S : i <= j
  BY <1>3
<1>5. Min(S) \in S
  BY <1>4 DEF Min
<1> QED
  BY <1>5

\* iedit_disp_val1_menu to iedit_disp_val10_menu.
LEMMA AskKeeps ==
  ASSUME copy \in ItemType, ExtrasGood, mode \notin ExtraModes, NEW k \in 1 .. 11, NEW ty \in Types, AskFrom(k, ty)
  PROVE  copy' \in ItemType /\ ExtrasGood' /\ mode' \in IeditPrompts /\ UNCHANGED <<con, writing, plr>>
<1> DEFINE asks == { j \in k .. 10 : ty \in Asked[j] }
<1>1. "plain" \in Types
  BY DEF Types
<1>2. ASSUME NEW u \in Types, copy' = [copy EXCEPT !.type = u]
      PROVE  copy' \in ItemType /\ copy'.extras = copy.extras
  BY <1>2 DEF ItemType
<1>3. CASE asks = {}
  <2>1. copy' = [copy EXCEPT !.type = "plain"] /\ mode' = "IEDIT_MAIN_MENU" /\ UNCHANGED <<con, writing, plr>>
    BY <1>3 DEF AskFrom, Put
  <2>2. mode' \in IeditPrompts /\ mode' \notin ExtraModes
    BY <2>1 DEF IeditPrompts, ExtraModes, RoomExtras, ItemExtras
  <2> QED
    BY <1>1, <1>2, <2>1, <2>2 DEF ExtrasGood
<1>4. CASE asks # {}
  <2>1. copy' = [copy EXCEPT !.type = ty] /\ mode' = ValueModes[Min(asks)] /\ UNCHANGED <<con, writing, plr>>
    BY <1>4 DEF AskFrom, Put
  <2>2. asks \in SUBSET (1 .. 10)
    OBVIOUS
  <2> HIDE DEF asks
  <2>3. Min(asks) \in 1 .. 10
    BY <1>4, <2>2, FirstAsked
  <2>4. \A j \in 1 .. 10 : ValueModes[j] \in IeditPrompts /\ ValueModes[j] \notin ExtraModes
    <3>1. \A j \in 1 .. 10 : ValueModes[j] \in IeditPrompts
      BY DEF IeditPrompts
    <3>2. \A j \in 1 .. 10 : ValueModes[j] \notin ExtraModes
      BY DEF ValueModes, ExtraModes, RoomExtras, ItemExtras
    <3> QED
      BY <3>1, <3>2
  <2>5. mode' \in IeditPrompts /\ mode' \notin ExtraModes
    BY <2>1, <2>3, <2>4
  <2> QED
    BY <1>2, <2>1, <2>5 DEF ExtrasGood
<1> QED
  BY <1>3, <1>4

\* iedit_parse
LEMMA IeditKeeps ==
  ASSUME EInv, Iedit
  PROVE  EInv'
<1>1. con = "CON_IEDIT" /\ Editing /\ writing \in BOOLEAN
  BY DEF Iedit, Editing, Starts, EInv, TypeOK
<1>2. Prompts[con] = IeditPrompts /\ CopyType[con] = ItemType /\ copy \in ItemType
  BY <1>1 DEF EInv, TypeOK, Prompts, CopyType
<1>g. ExtrasGood
  BY <1>1 DEF EInv, CopyGood
<1>3. SUFFICES ASSUME ~Again, ~(Leave /\ ~writing)
               PROVE  /\ mode' \in IeditPrompts /\ copy' \in ItemType /\ writing' \in BOOLEAN /\ UNCHANGED <<con, plr>>
                      /\ ExtrasGood'
  <2>1. UNCHANGED con /\ ExtrasGood' => CopyGood'
    BY <1>1 DEF CopyGood
  <2> QED
    BY <1>1, <1>2, <2>1, AgainKeeps, LeaveKeeps, InsideKeeps
<1>4. CASE IeditConfirm
  <2>1. ASSUME copy' = copy, writing' \in BOOLEAN, UNCHANGED <<con, plr>>, mode \notin ExtraModes,
               mode' \in IeditPrompts, mode' \notin ExtraModes
        PROVE  /\ mode' \in IeditPrompts /\ copy' \in ItemType /\ writing' \in BOOLEAN /\ UNCHANGED <<con, plr>>
               /\ ExtrasGood'
    BY <1>2, <1>g, <2>1 DEF ExtrasGood
  <2>2. mode \notin ExtraModes
    BY <1>4 DEF IeditConfirm, Confirm, At, Go, ExtraModes, RoomExtras, ItemExtras
  <2>3. mode' \in IeditPrompts /\ mode' \notin ExtraModes
    BY <1>3, <1>4 DEF IeditConfirm, Confirm, At, Go, IeditPrompts, IeditTexts, IeditNumbers, ExtraModes, RoomExtras, ItemExtras
  <2>4. copy' = copy /\ writing' \in BOOLEAN /\ UNCHANGED <<con, plr>>
    BY <1>1, <1>3, <1>4 DEF IeditConfirm, Confirm, At, Go
  <2> QED
    BY <2>1, <2>2, <2>3, <2>4
<1>5. CASE IeditMain
  <2>1. ASSUME copy' = copy, writing' \in BOOLEAN, UNCHANGED <<con, plr>>, mode \notin ExtraModes,
               mode' \in IeditPrompts, mode' \notin ExtraModes
        PROVE  /\ mode' \in IeditPrompts /\ copy' \in ItemType /\ writing' \in BOOLEAN /\ UNCHANGED <<con, plr>>
               /\ ExtrasGood'
    BY <1>2, <1>g, <2>1 DEF ExtrasGood
  <2>2. CASE At("IEDIT_MAIN_MENU") /\ \E ty \in Types : AskFrom(1, ty)
    <3>1. mode \notin ExtraModes
      BY <2>2 DEF At, ExtraModes, RoomExtras, ItemExtras
    <3> QED
      BY <1>1, <1>2, <1>g, <2>2, <3>1, AskKeeps
  <2>3. CASE At("IEDIT_MAIN_MENU") /\ Put("IEDIT_EXTRADESC_MENU", FirstExtra)
    <3>1. "IEDIT_EXTRADESC_MENU" \in ExtraModes /\ mode \notin ExtraModes
      BY <2>3 DEF At, ExtraModes, RoomExtras, ItemExtras
    <3>2. copy' \in ItemType /\ ExtrasGood' /\ mode' = "IEDIT_EXTRADESC_MENU" /\ UNCHANGED <<con, writing, plr>>
      BY <1>2, <1>g, <2>3, <3>1, FirstExtraKeeps
    <3> QED
      BY <1>1, <3>2 DEF IeditPrompts, ItemExtras
  <2>4. CASE \/ At("IEDIT_MAIN_MENU") /\ \E m \in IeditTexts \cup IeditNumbers \cup {"IEDIT_AVAILTN", "IEDIT_PROMPT_APPLY"} : Go(m)
             \/ At("IEDIT_MAIN_MENU") /\ Write("IEDIT_LONGDESC")
             \/ Taken(IeditTexts, "IEDIT_MAIN_MENU") \/ Ranged(IeditNumbers, "IEDIT_MAIN_MENU")
             \/ Taken({"IEDIT_AVAILTN"}, "IEDIT_AVAILDAY") \/ Taken({"IEDIT_AVAILDAY"}, "IEDIT_MAIN_MENU")
    <3>1. mode \notin ExtraModes
      BY <2>4 DEF Taken, Ranged, At, IeditPrompts, IeditTexts, IeditNumbers, ExtraModes, RoomExtras, ItemExtras
    <3>2. mode' \in IeditPrompts /\ mode' \notin ExtraModes
      BY <1>3, <2>4 DEF Taken, Ranged, Go, Write, IeditPrompts, IeditTexts, IeditNumbers, ExtraModes, RoomExtras, ItemExtras
    <3>3. copy' = copy /\ writing' \in BOOLEAN /\ UNCHANGED <<con, plr>>
      BY <1>1, <1>3, <2>4 DEF Taken, Ranged, Go, Write
    <3> QED
      BY <2>1, <3>1, <3>2, <3>3
  <2> QED
    BY <1>3, <2>2, <2>3, <2>4, <1>5 DEF IeditMain, At
<1>6. CASE IeditValues
  <2>1. PICK k \in 1 .. 10 : Valued(k)
    BY <1>6 DEF IeditValues, IeditValue1, IeditValue2, IeditValue3, IeditValue4, IeditValue7, IeditFittings
  <2>2. mode \notin ExtraModes
    BY <2>1 DEF Valued, At, ValueModes, ExtraModes, RoomExtras, ItemExtras
  <2>3. k + 1 \in 1 .. 11 /\ copy.type \in Types
    BY <1>2 DEF ItemType
  <2>4. AskFrom(k + 1, copy.type)
    BY <1>3, <2>1 DEF Valued
  <2> QED
    BY <1>1, <1>2, <1>g, <2>2, <2>3, <2>4, AskKeeps
<1>7. CASE IeditApply
  <2>1. ASSUME copy' = copy, writing' \in BOOLEAN, UNCHANGED <<con, plr>>, mode \notin ExtraModes,
               mode' \in IeditPrompts, mode' \notin ExtraModes
        PROVE  /\ mode' \in IeditPrompts /\ copy' \in ItemType /\ writing' \in BOOLEAN /\ UNCHANGED <<con, plr>>
               /\ ExtrasGood'
    BY <1>2, <1>g, <2>1 DEF ExtrasGood
  <2>2. mode \notin ExtraModes
    BY <1>7 DEF IeditApply, Taken, At, Go, ExtraModes, RoomExtras, ItemExtras
  <2>3. mode' \in IeditPrompts /\ mode' \notin ExtraModes
    BY <1>3, <1>7 DEF IeditApply, Taken, At, Go, IeditPrompts, IeditTexts, IeditNumbers, ExtraModes, RoomExtras, ItemExtras
  <2>4. copy' = copy /\ writing' \in BOOLEAN /\ UNCHANGED <<con, plr>>
    BY <1>1, <1>3, <1>7 DEF IeditApply, Taken, At, Go
  <2> QED
    BY <2>1, <2>2, <2>3, <2>4
<1>8. CASE IeditExtra
  <2>1. /\ "IEDIT_EXTRADESC_MENU" \in ExtraModes /\ "IEDIT_EXTRADESC_KEY" \in ExtraModes
        /\ "IEDIT_EXTRADESC_DESCRIPTION" \in ExtraModes /\ "IEDIT_MAIN_MENU" \notin ExtraModes
    BY DEF ExtraModes, RoomExtras, ItemExtras
  <2>2. /\ copy' \in ItemType /\ ExtrasGood' /\ writing' \in BOOLEAN /\ UNCHANGED <<con, plr>>
        /\ mode' \in {"IEDIT_EXTRADESC_MENU", "IEDIT_EXTRADESC_KEY", "IEDIT_EXTRADESC_DESCRIPTION", "IEDIT_MAIN_MENU"}
    BY <1>1, <1>2, <1>3, <1>g, <2>1, <1>8, ExtraKeeps DEF IeditExtra
  <2> QED
    BY <2>2 DEF IeditPrompts, ItemExtras
<1> QED
  BY <1>4, <1>5, <1>6, <1>7, <1>8 DEF Iedit

-----------------------------------------------------------------------------
(* Opening an editor, writing a text, losing the link.                      *)

\* The extra descriptions a room or an object comes with are complete.
LEMMA WholeLists ==
  ASSUME NEW x \in {<<>>, <<Whole>>, [i \in 1 .. ExtraMax |-> Whole]}
  PROVE  x \in Seq(Extras) /\ \A i \in DOMAIN x : x[i] = Whole
<1>1. Whole \in Extras
  BY DEF Whole, Extras
<1>2. <<>> \in Seq(Extras) /\ DOMAIN <<>> = {}
  OBVIOUS
<1>3. <<Whole>> \in Seq(Extras) /\ \A i \in DOMAIN <<Whole>> : <<Whole>>[i] = Whole
  BY <1>1
<1>4. [i \in 1 .. ExtraMax |-> Whole] \in Seq(Extras)
  <2>1. ExtraMax \in Nat
    BY EditorsAssumption DEF EditorsAssumption
  <2>2. [i \in 1 .. ExtraMax |-> Whole] \in [1 .. ExtraMax -> Extras]
    BY <1>1
  <2> QED
    BY <2>1, <2>2, SeqDef
<1> QED
  BY <1>2, <1>3, <1>4

\* Whatever an editor is opened on is whole.
LEMMA StartGood ==
  ASSUME NEW e \in DOMAIN Starts, NEW start \in Starts[e], con' = e, mode' = start.mode, copy' = start.copy
  PROVE  mode' \in Prompts[e] /\ copy' \in CopyType[e] /\ CopyGood'
<1>0. Complete(Whole)
  BY DEF Whole, Complete
<1>1. CASE e = "CON_REDIT"
  <2>1. mode' \in {"REDIT_MAIN_MENU", "REDIT_CONFIRM_EDIT", "REDIT_CONFIRM_SAVESTRING"} /\ copy' \in RoomCopies
    BY <1>1 DEF Starts, Start, StartRedit, StartRclone
  <2>2. copy'.extras \in {<<>>, <<Whole>>, [i \in 1 .. ExtraMax |-> Whole]}
    BY <2>1 DEF RoomCopies
  <2>3. copy'.extras \in Seq(Extras) /\ \A i \in DOMAIN copy'.extras : copy'.extras[i] = Whole
    BY <2>2, WholeLists
  <2>4. copy' \in RoomType
    BY <2>1, <2>3 DEF RoomCopies, RoomType
  <2>5. mode' \in ReditPrompts /\ mode' \notin ExtraModes /\ mode' \notin ExitModes
    BY <2>1 DEF ReditPrompts, ExtraModes, RoomExtras, ItemExtras, ExitModes, ExitFields, ExitNumbers
  <2>6. ExtrasGood' /\ ExitGood'
    BY <1>0, <2>3, <2>4, <2>5 DEF ExtrasGood, ExitGood
  <2> QED
    BY <1>1, <2>4, <2>5, <2>6 DEF CopyGood, Prompts, CopyType
<1>2. CASE e = "CON_IEDIT"
  <2>1. mode' \in {"IEDIT_MAIN_MENU", "IEDIT_CONFIRM_EDIT", "IEDIT_CONFIRM_SAVESTRING"} /\ copy' \in ItemCopies
    BY <1>2 DEF Starts, Start, StartIedit, StartIclone
  <2>2. copy'.extras \in {<<>>, <<Whole>>}
    BY <2>1 DEF ItemCopies
  <2>3. copy'.extras \in Seq(Extras) /\ \A i \in DOMAIN copy'.extras : copy'.extras[i] = Whole
    BY <2>2, WholeLists
  <2>4. copy' \in ItemType
    BY <2>1, <2>3 DEF ItemCopies, ItemType, Types
  <2>5. mode' \in IeditPrompts /\ mode' \notin ExtraModes
    BY <2>1 DEF IeditPrompts, ExtraModes, RoomExtras, ItemExtras
  <2>6. ExtrasGood'
    BY <1>0, <2>3, <2>4, <2>5 DEF ExtrasGood
  <2> QED
    BY <1>2, <2>4, <2>5, <2>6 DEF CopyGood, Prompts, CopyType
<1>3. CASE e = "CON_HEDIT"
  <2>1. mode' \in {"HEDIT_MAIN_MENU", "HEDIT_CONFIRM_EDIT"} /\ copy' \in HostCopies
    BY <1>3 DEF Starts, Start, StartHedit
  <2>2. copy'.triggers \in {<<>>, <<3>>} /\ copy'.exits \in {<<>>, <<2>>}
    BY <2>1 DEF HostCopies
  <2>3. /\ copy'.triggers \in Seq(1 .. 3) /\ \A i \in DOMAIN copy'.triggers : copy'.triggers[i] = 3
        /\ copy'.exits \in Seq(1 .. 2) /\ \A i \in DOMAIN copy'.exits : copy'.exits[i] = 2
    <3>1. <<>> \in Seq(1 .. 3) /\ <<>> \in Seq(1 .. 2) /\ DOMAIN <<>> = {}
      OBVIOUS
    <3>2. <<3>> \in Seq(1 .. 3) /\ \A i \in DOMAIN <<3>> : <<3>>[i] = 3
      OBVIOUS
    <3>3. <<2>> \in Seq(1 .. 2) /\ \A i \in DOMAIN <<2>> : <<2>>[i] = 2
      OBVIOUS
    <3> QED
      BY <2>2, <3>1, <3>2, <3>3
  <2>4. copy' \in HostType
    BY <2>1, <2>3 DEF HostCopies, HostType
  <2>5. mode' \in HeditPrompts /\ mode' \notin TriggerModes /\ mode' # "HEDIT_EXIT_ADD2"
    BY <2>1 DEF HeditPrompts, TriggerModes
  <2>6. StepsGood'
    BY <2>3, <2>4, <2>5 DEF StepsGood, TriggerModes
  <2> QED
    BY <1>3, <2>4, <2>5, <2>6 DEF CopyGood, Prompts, CopyType
<1>4. CASE e = "CON_QEDIT"
  <2>1. mode' \in {"QEDIT_MAIN_MENU", "QEDIT_CONFIRM_EDIT"} /\ copy' \in QuestCopies
    BY <1>4 DEF Starts, Start, StartQedit
  <2>2. NoObjective \in Objective
    BY DEF NoObjective, Objective
  <2>3. <<>> \in Seq(Objective) /\ <<NoObjective, NoObjective>> \in Seq(Objective)
    BY <2>2
  <2>4. copy' \in QuestType
    <3>1. copy'.mobs \in {<<>>, <<NoObjective, NoObjective>>} /\ copy'.objs = <<>> /\ copy'.n = 0
      BY <2>1 DEF QuestCopies
    <3>2. copy'.mobs \in Seq(Objective) /\ copy'.objs \in Seq(Objective)
      BY <2>3, <3>1, Zenon
    <3>3. copy' = [kind |-> "quest", n |-> copy'.n, mobs |-> copy'.mobs, objs |-> copy'.objs]
      BY <2>1 DEF QuestCopies
    <3>4. copy'.n \in Nat
      BY <3>1
    <3> QED
      BY <3>2, <3>3, <3>4 DEF QuestType
  <2>5. mode' \in QeditPrompts /\ mode' \notin HuntModes \cup FetchModes
    BY <2>1 DEF QeditPrompts, HuntModes, FetchModes
  <2> QED
    BY <1>4, <2>4, <2>5 DEF CopyGood, CursorGood, Prompts, CopyType
<1>5. CASE e = "CON_SHEDIT"
  BY <1>5 DEF Starts, Start, StartShedit, Prompts, CopyType, SheditPrompts, CopyGood, ShelfGood
<1>6. CASE e = "CON_ZEDIT"
  <2>1. /\ mode' \in {"ZEDIT_CONFIRM_EDIT_DATA", "ZEDIT_CONFIRM_CREATE_DATA", "ZEDIT_COMMAND_MENU",
                      "ZEDIT_CONFIRM_INSERT_CMD", "ZEDIT_CONFIRM_EDIT_CMD"}
        /\ copy' = [kind |-> "command", letter |-> "blank"]
    BY <1>6 DEF Starts, Start, StartZedit
  <2>2. mode' \in ZeditPrompts /\ copy' \in CommandCopies
    BY <2>1 DEF ZeditPrompts, CommandModes, CommandCopies
  <2> QED
    BY <1>6, <2>2 DEF CopyGood, LetterGood, Prompts, CopyType
<1>7. CASE e \in {"CON_VEDIT", "CON_MEDIT", "CON_ICEDIT", "CON_PCUSTOMIZE", "CON_ACUSTOMIZE", "CON_FCUSTOMIZE",
                  "CON_SPELL_CREATE", "CON_PRO_CREATE"}
  <2>1. CopyGood'
    BY <1>7 DEF CopyGood
  <2>2. CASE e = "CON_VEDIT"
    <3>1. mode' \in {"VEDIT_MAIN_MENU", "VEDIT_CONFIRM_EDIT"} /\ copy' = Plain
      BY <2>2 DEF Starts, Start, StartVedit
    <3>2. mode' \in VeditPrompts
      BY <3>1 DEF VeditPrompts
    <3> QED
      BY <2>1, <2>2, <3>1, <3>2 DEF Prompts, CopyType
  <2>3. CASE e = "CON_MEDIT"
    <3>1. mode' \in {"MEDIT_MAIN_MENU", "MEDIT_CONFIRM_EDIT", "MEDIT_CONFIRM_SAVESTRING"} /\ copy' = Plain
      BY <2>3 DEF Starts, Start, StartMedit, StartMclone
    <3>2. mode' \in MeditPrompts
      BY <3>1 DEF MeditPrompts
    <3> QED
      BY <2>1, <2>3, <3>1, <3>2 DEF Prompts, CopyType
  <2>4. CASE e = "CON_ICEDIT"
    <3>1. mode' \in {"ICEDIT_MAIN_MENU", "ICEDIT_CONFIRM_EDIT"} /\ copy' \in IcCopies
      BY <2>4 DEF Starts, Start, StartIcedit
    <3>2. mode' \in IceditPrompts
      BY <3>1 DEF IceditPrompts
    <3> QED
      BY <2>1, <2>4, <3>1, <3>2 DEF Prompts, CopyType
  <2>5. CASE e \in {"CON_PCUSTOMIZE", "CON_ACUSTOMIZE", "CON_FCUSTOMIZE"}
    <3>0. Starts[e] = StartCustomize
      BY <2>5 DEF Starts
    <3>1. mode' \in {"CEDIT_CONFIRM_EDIT"} /\ copy' = Plain
      BY <3>0 DEF Start, StartCustomize
    <3>2. mode' \in CeditPrompts
      BY <3>1 DEF CeditPrompts
    <3> QED
      BY <2>1, <2>5, <3>1, <3>2 DEF Prompts, CopyType
  <2>6. CASE e = "CON_SPELL_CREATE"
    <3>1. mode' \in {"SEDIT_MAIN_MENU"} /\ copy' = SpellCopy
      BY <2>6 DEF Starts, Start, StartCreate
    <3>2. mode' \in SeditPrompts
      BY <3>1 DEF SeditPrompts
    <3> QED
      BY <2>1, <2>6, <3>1, <3>2 DEF Prompts, CopyType, SpellCopy, SpellType, Categories
  <2>7. CASE e = "CON_PRO_CREATE"
    <3>1. mode' \in {"PEDIT_MENU"} /\ copy' = ProgramCopy
      BY <2>7 DEF Starts, Start, StartDesign
    <3>2. mode' \in PeditPrompts
      BY <3>1 DEF PeditPrompts
    <3> QED
      BY <2>1, <2>7, <3>1, <3>2 DEF Prompts, CopyType, ProgramCopy, ProgramType
  <2> QED
    BY <1>7, <2>2, <2>3, <2>4, <2>5, <2>6, <2>7
<1> QED
  BY <1>1, <1>2, <1>3, <1>4, <1>5, <1>6, <1>7 DEF Starts

LEMMA OpenKeeps ==
  ASSUME EInv, NEW e \in Opened, Open(e)
  PROVE  EInv'
<1>1. e \in DOMAIN Starts
  BY OpenedAssumption DEF OpenedAssumption
<1>2. PICK start \in Starts[e] : con' = e /\ mode' = start.mode /\ copy' = start.copy
  BY DEF Open
<1>3. mode' \in Prompts[e] /\ copy' \in CopyType[e] /\ CopyGood'
  BY <1>1, <1>2, StartGood
<1>4. ~Editing /\ Editing' /\ con # "LINKLESS" /\ con' # "LINKLESS"
  BY <1>1, <1>2 DEF Open, Editing, Starts
<1>5. FlagOf(e) \subseteq EditorFlags /\ "MAILING" \notin FlagOf(e)
  BY DEF FlagOf, EditorFlags
<1>6. TypeOK'
  BY <1>1, <1>2, <1>3, <1>4, <1>5 DEF EInv, TypeOK, Open, PlrFlags
<1>7. FlagsGood'
  BY <1>2, <1>4, <1>5 DEF EInv, FlagsGood, BusyFlagged, Open, EditorFlags
<1> QED
  BY <1>3, <1>6, <1>7 DEF EInv

LEMMA ComposeKeeps ==
  ASSUME EInv, Compose
  PROVE  EInv'
<1>1. con = "CON_PLAYING" /\ ~Editing /\ con' = con /\ mode' = None /\ copy' = None /\ writing' = TRUE
  BY DEF Compose, Editing, Starts, EInv, TypeOK
<1>2. plr' \subseteq PlrFlags
  BY DEF Compose, EInv, TypeOK, PlrFlags
<1>3. ~Editing'
  BY <1>1 DEF Editing
<1>4. FlagsGood'
  BY <1>1, <1>3 DEF Compose, EInv, FlagsGood, BusyFlagged, EditorFlags
<1> QED
  BY <1>1, <1>2, <1>4, OutsideGood

\* A text of an editor is none of another editor's.
LEMMA TextsOwned ==
  ASSUME NEW e \in DOMAIN Starts, NEW m \in Prompts[e]
  PROVE  /\ m \in {"REDIT_DESC", "REDIT_EXIT_DESCRIPTION"} => Prompts[e] = ReditPrompts
         /\ m = "IEDIT_LONGDESC" => Prompts[e] = IeditPrompts
         /\ m \in {"MEDIT_LONG_DESCR", "MEDIT_REG_DESCR"} => Prompts[e] = MeditPrompts
         /\ m \in {"VEDIT_LONGDESC", "VEDIT_INSDESC"} => Prompts[e] = VeditPrompts
         /\ m = "HEDIT_DESC" => Prompts[e] = HeditPrompts
         /\ m = "ICEDIT_DESC" => Prompts[e] = IceditPrompts
         /\ m = "QEDIT_INFO" => Prompts[e] = QeditPrompts
         /\ m \in {"CEDIT_LONG_DESC", "CEDIT_DESC"} => Prompts[e] = CeditPrompts
<1>1. ASSUME Prompts[e] = ReditPrompts
      PROVE  m \notin {"IEDIT_LONGDESC", "MEDIT_LONG_DESCR", "MEDIT_REG_DESCR", "VEDIT_LONGDESC", "VEDIT_INSDESC", "HEDIT_DESC", "ICEDIT_DESC",
                    "QEDIT_INFO", "CEDIT_LONG_DESC", "CEDIT_DESC"}
  <2>1. m \in ReditPrompts
    BY <1>1
  <2> QED
    BY <2>1 DEF ReditPrompts, MatrixFields, MatrixNumbers, ExitModes, ExitFields, ExitNumbers, RoomExtras
<1>2. ASSUME Prompts[e] = VeditPrompts
      PROVE  m \notin {"REDIT_DESC", "REDIT_EXIT_DESCRIPTION", "IEDIT_LONGDESC", "MEDIT_LONG_DESCR", "MEDIT_REG_DESCR", "HEDIT_DESC", "ICEDIT_DESC",
                    "QEDIT_INFO", "CEDIT_LONG_DESC", "CEDIT_DESC"}
  <2>1. m \in VeditPrompts
    BY <1>2
  <2> QED
    BY <2>1 DEF VeditPrompts, VeditNames, VeditNumbers
<1>3. ASSUME Prompts[e] = MeditPrompts
      PROVE  m \notin {"REDIT_DESC", "REDIT_EXIT_DESCRIPTION", "IEDIT_LONGDESC", "VEDIT_LONGDESC", "VEDIT_INSDESC", "HEDIT_DESC", "ICEDIT_DESC",
                    "QEDIT_INFO", "CEDIT_LONG_DESC", "CEDIT_DESC"}
  <2>1. m \in MeditPrompts
    BY <1>3
  <2> QED
    BY <2>1 DEF MeditPrompts, MeditNames, MeditNumbers, MeditMenus, MeditAbilities, MeditSkill, MeditLevels
<1>4. ASSUME Prompts[e] = IeditPrompts
      PROVE  m \notin {"REDIT_DESC", "REDIT_EXIT_DESCRIPTION", "MEDIT_LONG_DESCR", "MEDIT_REG_DESCR", "VEDIT_LONGDESC", "VEDIT_INSDESC", "HEDIT_DESC",
                    "ICEDIT_DESC", "QEDIT_INFO", "CEDIT_LONG_DESC", "CEDIT_DESC"}
  <2>1. m \in IeditPrompts
    BY <1>4
  <2> QED
    BY <2>1 DEF IeditPrompts, IeditTexts, IeditNumbers, ItemExtras, ValueModes
<1>5. ASSUME Prompts[e] = HeditPrompts
      PROVE  m \notin {"REDIT_DESC", "REDIT_EXIT_DESCRIPTION", "IEDIT_LONGDESC", "MEDIT_LONG_DESCR", "MEDIT_REG_DESCR", "VEDIT_LONGDESC", "VEDIT_INSDESC",
                    "ICEDIT_DESC", "QEDIT_INFO", "CEDIT_LONG_DESC", "CEDIT_DESC"}
  <2>1. m \in HeditPrompts
    BY <1>5
  <2> QED
    BY <2>1 DEF HeditPrompts, HeditTexts, HeditMenus, HeditSubsystems, HeditExtras, HeditTrapdoors, HeditSecurity, TriggerModes
<1>6. ASSUME Prompts[e] = IceditPrompts
      PROVE  m \notin {"REDIT_DESC", "REDIT_EXIT_DESCRIPTION", "IEDIT_LONGDESC", "MEDIT_LONG_DESCR", "MEDIT_REG_DESCR", "VEDIT_LONGDESC", "VEDIT_INSDESC",
                    "HEDIT_DESC", "QEDIT_INFO", "CEDIT_LONG_DESC", "CEDIT_DESC"}
  <2>1. m \in IceditPrompts
    BY <1>6
  <2> QED
    BY <2>1 DEF IceditPrompts, IceditTexts
<1>7. ASSUME Prompts[e] = QeditPrompts
      PROVE  m \notin {"REDIT_DESC", "REDIT_EXIT_DESCRIPTION", "IEDIT_LONGDESC", "MEDIT_LONG_DESCR", "MEDIT_REG_DESCR", "VEDIT_LONGDESC", "VEDIT_INSDESC",
                    "HEDIT_DESC", "ICEDIT_DESC", "CEDIT_LONG_DESC", "CEDIT_DESC"}
  <2>1. m \in QeditPrompts
    BY <1>7
  <2> QED
    BY <2>1 DEF QeditPrompts, QeditTexts, QeditNumbers, QeditReputation, QeditHours, HuntModes, FetchModes
<1>8. ASSUME Prompts[e] = SheditPrompts
      PROVE  m \notin {"REDIT_DESC", "REDIT_EXIT_DESCRIPTION", "IEDIT_LONGDESC", "MEDIT_LONG_DESCR", "MEDIT_REG_DESCR", "VEDIT_LONGDESC", "VEDIT_INSDESC",
                    "HEDIT_DESC", "ICEDIT_DESC", "QEDIT_INFO", "CEDIT_LONG_DESC", "CEDIT_DESC"}
  <2>1. m \in SheditPrompts
    BY <1>8
  <2> QED
    BY <2>1 DEF SheditPrompts, SheditTexts, SheditNumbers
<1>9. ASSUME Prompts[e] = ZeditPrompts
      PROVE  m \notin {"REDIT_DESC", "REDIT_EXIT_DESCRIPTION", "IEDIT_LONGDESC", "MEDIT_LONG_DESCR", "MEDIT_REG_DESCR", "VEDIT_LONGDESC", "VEDIT_INSDESC",
                    "HEDIT_DESC", "ICEDIT_DESC", "QEDIT_INFO", "CEDIT_LONG_DESC", "CEDIT_DESC"}
  <2>1. m \in ZeditPrompts
    BY <1>9
  <2> QED
    BY <2>1 DEF ZeditPrompts, ZeditData, ZeditTexts, CommandModes
<1>10. ASSUME Prompts[e] = CeditPrompts
      PROVE  m \notin {"REDIT_DESC", "REDIT_EXIT_DESCRIPTION", "IEDIT_LONGDESC", "MEDIT_LONG_DESCR", "MEDIT_REG_DESCR", "VEDIT_LONGDESC", "VEDIT_INSDESC",
                    "HEDIT_DESC", "ICEDIT_DESC", "QEDIT_INFO"}
  <2>1. m \in CeditPrompts
    BY <1>10
  <2> QED
    BY <2>1 DEF CeditPrompts, CeditTexts
<1>11. ASSUME Prompts[e] = SeditPrompts
      PROVE  m \notin {"REDIT_DESC", "REDIT_EXIT_DESCRIPTION", "IEDIT_LONGDESC", "MEDIT_LONG_DESCR", "MEDIT_REG_DESCR", "VEDIT_LONGDESC", "VEDIT_INSDESC",
                    "HEDIT_DESC", "ICEDIT_DESC", "QEDIT_INFO", "CEDIT_LONG_DESC", "CEDIT_DESC"}
  <2>1. m \in SeditPrompts
    BY <1>11
  <2> QED
    BY <2>1 DEF SeditPrompts, SeditNumbers, SeditEffects, SeditEffectModes
<1>12. ASSUME Prompts[e] = PeditPrompts
      PROVE  m \notin {"REDIT_DESC", "REDIT_EXIT_DESCRIPTION", "IEDIT_LONGDESC", "MEDIT_LONG_DESCR", "MEDIT_REG_DESCR", "VEDIT_LONGDESC", "VEDIT_INSDESC",
                    "HEDIT_DESC", "ICEDIT_DESC", "QEDIT_INFO", "CEDIT_LONG_DESC", "CEDIT_DESC"}
  <2>1. m \in PeditPrompts
    BY <1>12
  <2> QED
    BY <2>1 DEF PeditPrompts
<1>13. Prompts[e] \in {ReditPrompts, VeditPrompts, MeditPrompts, IeditPrompts, HeditPrompts, IceditPrompts, QeditPrompts,
                    SheditPrompts, ZeditPrompts, CeditPrompts, SeditPrompts, PeditPrompts}
  BY DEF Prompts, Starts
<1> QED
  BY <1>1, <1>2, <1>3, <1>4, <1>5, <1>6, <1>7, <1>8, <1>9, <1>10, <1>11, <1>12, <1>13, Zenon

\* The text of an extra description completes it; a text goes back to its menu.
LEMMA StringAddKeeps ==
  ASSUME EInv, StringAdd
  PROVE  EInv'
<1>1. CASE con = "CON_PLAYING" /\ ~Again
  <2>1. ~Editing /\ con' = con /\ mode' = None /\ copy' = None /\ writing' = FALSE /\ plr' = plr \ {"WRITING", "MAILING"}
    BY <1>1 DEF StringAdd, Editing, Starts, EInv, TypeOK
  <2>2. plr' \subseteq PlrFlags /\ ~Editing'
    BY <2>1 DEF EInv, TypeOK, Editing
  <2>3. FlagsGood'
    BY <1>1, <2>1, <2>2 DEF EInv, FlagsGood, BusyFlagged, EditorFlags
  <2> QED
    BY <1>1, <2>1, <2>2, <2>3, OutsideGood
<1>2. CASE con # "CON_PLAYING" /\ ~Again
  <2>1. /\ writing /\ writing' = FALSE /\ UNCHANGED <<con, plr>>
        /\ mode' = (IF mode \in DOMAIN TextMenu THEN TextMenu[mode] ELSE mode)
        /\ copy' = (IF mode \in {"REDIT_EXTRADESC_DESCRIPTION", "IEDIT_EXTRADESC_DESCRIPTION"}
                      THEN [copy EXCEPT !.extras[copy.at].text = TRUE] ELSE copy)
    BY <1>2 DEF StringAdd
  <2>2. Editing /\ mode \in Prompts[con] /\ copy \in CopyType[con]
    BY <1>2, <2>1 DEF EInv, FlagsGood, TypeOK, Editing
  <2>3. CASE mode \in {"REDIT_EXTRADESC_DESCRIPTION", "IEDIT_EXTRADESC_DESCRIPTION"}
    <3> DEFINE list == [copy.extras EXCEPT ![copy.at] = [@ EXCEPT !.text = TRUE]]
    <3>0. mode \in ExtraModes /\ con \in DOMAIN Prompts
      BY <2>2, <2>3 DEF ExtraModes, RoomExtras, ItemExtras, Editing, Starts, Prompts
    <3>1. \/ con = "CON_REDIT" /\ mode = "REDIT_EXTRADESC_DESCRIPTION" /\ mode' = "REDIT_EXTRADESC_MENU"
          \/ con = "CON_IEDIT" /\ mode = "IEDIT_EXTRADESC_DESCRIPTION" /\ mode' = "IEDIT_EXTRADESC_MENU"
      <4>1. CASE mode = "REDIT_EXTRADESC_DESCRIPTION"
        <5>1. mode \in Mine["CON_REDIT"] /\ "CON_REDIT" \in DOMAIN Mine
          BY <4>1 DEF Mine, RoomExtras
        <5>2. con = "CON_REDIT"
          BY <2>2, <3>0, <5>1, PromptsDiffer
        <5> QED
          BY <2>1, <4>1, <5>2 DEF TextMenu
      <4>2. CASE mode = "IEDIT_EXTRADESC_DESCRIPTION"
        <5>1. mode \in Mine["CON_IEDIT"] /\ "CON_IEDIT" \in DOMAIN Mine
          BY <4>2 DEF Mine, ItemExtras
        <5>2. con = "CON_IEDIT"
          BY <2>2, <3>0, <5>1, PromptsDiffer
        <5> QED
          BY <2>1, <4>2, <5>2 DEF TextMenu
      <4> QED
        BY <2>3, <4>1, <4>2
    <3>2. PICK T \in {RoomType, ItemType} : T = CopyType[con]
      BY <3>1 DEF CopyType
    <3>3. copy \in T /\ ExtrasGood
      BY <2>2, <3>1, <3>2 DEF EInv, CopyGood
    <3>4. /\ copy.extras \in Seq(Extras) /\ DOMAIN copy.extras = 1 .. Len(copy.extras) /\ copy.at \in Nat
          /\ {"extras", "at"} \subseteq DOMAIN copy /\ copy.at \in DOMAIN copy.extras
      BY <3>0, <3>3, ExtrasList DEF ExtrasGood
    <3>5. [copy.extras[copy.at] EXCEPT !.text = TRUE] \in Extras
      <4>1. copy.extras[copy.at] \in Extras
        BY <3>4
      <4> QED
        BY <4>1 DEF Extras
    <3>6. /\ list \in Seq(Extras) /\ DOMAIN list = DOMAIN copy.extras
          /\ \A i \in DOMAIN list : i # copy.at => list[i] = copy.extras[i]
      BY <3>4, <3>5, ExceptSeq
    <3>7. copy' = [copy EXCEPT !.extras = list, !.at = copy.at]
      <4>1. copy' = [copy EXCEPT !.extras = list]
        BY <2>1, <2>3
      <4> HIDE DEF list
      <4>2. copy \in RoomType \/ copy \in ItemType
        BY <3>3
      <4> QED
        BY <4>1, <4>2 DEF RoomType, ItemType
    <3> HIDE DEF list
    <3>8. /\ [copy EXCEPT !.extras = list, !.at = copy.at] \in T
          /\ [copy EXCEPT !.extras = list, !.at = copy.at].extras = list
          /\ [copy EXCEPT !.extras = list, !.at = copy.at].at = copy.at
      BY <3>3, <3>4, <3>6, ExtrasPut, Zenon
    <3>9. copy' \in CopyType[con] /\ copy'.extras = list /\ copy'.at = copy.at
      BY <3>2, <3>7, <3>8
    <3>10. mode' \in ExtraModes /\ mode' \in Prompts[con] /\ mode' \notin ExitModes
      BY <3>1 DEF ExtraModes, RoomExtras, ItemExtras, Prompts, ReditPrompts, IeditPrompts, ExitModes, ExitFields, ExitNumbers
    <3>11. ExtrasGood' /\ ExitGood'
      BY <3>3, <3>4, <3>6, <3>9, <3>10 DEF ExtrasGood, ExitGood
    <3>12. CopyGood'
      BY <2>1, <3>1, <3>11 DEF CopyGood
    <3> QED
      BY <2>1, <2>2, <3>9, <3>10, <3>12, InsideKeeps
  <2>4. CASE mode \in DOMAIN TextMenu \ {"REDIT_EXTRADESC_DESCRIPTION", "IEDIT_EXTRADESC_DESCRIPTION"}
    <3>1. copy' = copy /\ mode' = TextMenu[mode]
      BY <2>1, <2>4
    <3>2. mode \notin ExtraModes /\ mode \notin HostModes
      BY <2>4 DEF TextMenu, ExtraModes, RoomExtras, ItemExtras, HostModes, TriggerModes
    <3>3. /\ mode' \notin ExtraModes /\ mode' \notin HostModes /\ mode' \notin HuntModes /\ mode' \notin FetchModes
          /\ mode' \notin ShopModes /\ mode' \notin CommandModes
      BY <2>4, <3>1 DEF TextMenu, ExtraModes, RoomExtras, ItemExtras, HostModes, TriggerModes, HuntModes, FetchModes,
         ShopModes, CommandModes
    <3>4. mode' \in ExitModes => mode \in ExitModes
      BY <2>4, <3>1 DEF TextMenu, ExitModes, ExitFields, ExitNumbers
    <3>5. CopyGood'
      BY <2>1, <3>1, <3>2, <3>3, <3>4 DEF EInv, CopyGood, ExtrasGood, ExitGood, StepsGood, CursorGood, ShelfGood, LetterGood,
         HostModes, TriggerModes, ShopModes
    <3>6. mode' \in Prompts[con]
      <4>0. con \in DOMAIN Starts
        BY <2>2 DEF Editing
      <4>1. CASE mode \in {"REDIT_DESC", "REDIT_EXIT_DESCRIPTION"}
        <5>1. Prompts[con] = ReditPrompts
          BY <2>2, <4>0, <4>1, TextsOwned
        <5>2. mode' \in {"REDIT_MAIN_MENU", "REDIT_EXIT_MENU"}
          BY <3>1, <4>1 DEF TextMenu
        <5> QED
          BY <5>1, <5>2 DEF ReditPrompts, ExitModes
      <4>2. CASE mode = "IEDIT_LONGDESC"
        <5>1. Prompts[con] = IeditPrompts
          BY <2>2, <4>0, <4>2, TextsOwned
        <5>2. mode' = "IEDIT_MAIN_MENU"
          BY <3>1, <4>2 DEF TextMenu
        <5> QED
          BY <5>1, <5>2 DEF IeditPrompts
      <4>3. CASE mode \in {"MEDIT_LONG_DESCR", "MEDIT_REG_DESCR"}
        <5>1. Prompts[con] = MeditPrompts
          BY <2>2, <4>0, <4>3, TextsOwned
        <5>2. mode' = "MEDIT_MAIN_MENU"
          BY <3>1, <4>3 DEF TextMenu
        <5> QED
          BY <5>1, <5>2 DEF MeditPrompts
      <4>4. CASE mode \in {"VEDIT_LONGDESC", "VEDIT_INSDESC"}
        <5>1. Prompts[con] = VeditPrompts
          BY <2>2, <4>0, <4>4, TextsOwned
        <5>2. mode' = "VEDIT_MAIN_MENU"
          BY <3>1, <4>4 DEF TextMenu
        <5> QED
          BY <5>1, <5>2 DEF VeditPrompts
      <4>5. CASE mode = "HEDIT_DESC"
        <5>1. Prompts[con] = HeditPrompts
          BY <2>2, <4>0, <4>5, TextsOwned
        <5>2. mode' = "HEDIT_MAIN_MENU"
          BY <3>1, <4>5 DEF TextMenu
        <5> QED
          BY <5>1, <5>2 DEF HeditPrompts
      <4>6. CASE mode = "ICEDIT_DESC"
        <5>1. Prompts[con] = IceditPrompts
          BY <2>2, <4>0, <4>6, TextsOwned
        <5>2. mode' = "ICEDIT_MAIN_MENU"
          BY <3>1, <4>6 DEF TextMenu
        <5> QED
          BY <5>1, <5>2 DEF IceditPrompts
      <4>7. CASE mode = "QEDIT_INFO"
        <5>1. Prompts[con] = QeditPrompts
          BY <2>2, <4>0, <4>7, TextsOwned
        <5>2. mode' = "QEDIT_MAIN_MENU"
          BY <3>1, <4>7 DEF TextMenu
        <5> QED
          BY <5>1, <5>2 DEF QeditPrompts
      <4>8. CASE mode \in {"CEDIT_LONG_DESC", "CEDIT_DESC"}
        <5>1. Prompts[con] = CeditPrompts
          BY <2>2, <4>0, <4>8, TextsOwned
        <5>2. mode' = "CEDIT_MAIN_MENU"
          BY <3>1, <4>8 DEF TextMenu
        <5> QED
          BY <5>1, <5>2 DEF CeditPrompts
      <4> QED
        BY <2>4, <4>1, <4>2, <4>3, <4>4, <4>5, <4>6, <4>7, <4>8 DEF TextMenu
    <3> QED
      BY <2>1, <2>2, <3>1, <3>5, <3>6, InsideKeeps
  <2>5. CASE mode \notin DOMAIN TextMenu
    <3>1. copy' = copy /\ mode' = mode /\ UNCHANGED con
      BY <2>1, <2>5 DEF TextMenu
    <3>2. CopyGood'
      BY <3>1 DEF EInv, CopyGood, ExtrasGood, ExitGood, StepsGood, CursorGood, ShelfGood, LetterGood
    <3> QED
      BY <2>1, <2>2, <3>1, <3>2, InsideKeeps
  <2> QED
    BY <2>3, <2>4, <2>5
<1> QED
  BY <1>1, <1>2, AgainKeeps

LEMMA LinkLostKeeps ==
  ASSUME EInv, LinkLost
  PROVE  EInv'
<1>1. con' = "LINKLESS" /\ mode' = None /\ copy' = None /\ writing' = FALSE /\ plr' \subseteq PlrFlags
  BY DEF LinkLost, EInv, TypeOK
<1>2. FlagsGood'
  BY <1>1 DEF FlagsGood, BusyFlagged, Editing, Starts
<1> QED
  BY <1>1, <1>2, OutsideGood

LEMMA ReconnectKeeps ==
  ASSUME EInv, Reconnect
  PROVE  EInv'
<1>1. ~Editing /\ ~writing
  BY DEF Reconnect, Editing, Starts, EInv, FlagsGood
<1>2. con' = "CON_PLAYING" /\ mode' = None /\ copy' = None /\ writing' \in BOOLEAN /\ ~writing' /\ plr' \subseteq PlrFlags
  BY <1>1 DEF Reconnect, EInv, TypeOK
<1>3. ~Editing'
  BY <1>2 DEF Editing, Starts
<1>4. FlagsGood'
  BY <1>2, <1>3 DEF FlagsGood, BusyFlagged, Reconnect, EditorFlags
<1> QED
  BY <1>2, <1>4, OutsideGood

-----------------------------------------------------------------------------
(* The theorems.                                                            *)

LEMMA InitGood == Init => EInv
<1> SUFFICES ASSUME Init PROVE EInv
  OBVIOUS
<1>1. ~Editing
  BY DEF Init, Editing, Starts
<1>2. TypeOK
  BY <1>1 DEF Init, TypeOK
<1>3. FlagsGood
  BY <1>1 DEF Init, FlagsGood, BusyFlagged, EditorFlags
<1> QED
  BY <1>2, <1>3 DEF Init, EInv, CopyGood

LEMMA StepKeeps == EInv /\ [Next]_vars => EInv'
<1> SUFFICES ASSUME EInv, [Next]_vars PROVE EInv'
  OBVIOUS
<1>1. CASE UNCHANGED vars
  BY <1>1, AgainKeeps DEF Again
<1>2. ASSUME NEW e \in Opened, Open(e) PROVE EInv'
  BY <1>2, OpenKeeps
<1>3. CASE Compose \/ StringAdd \/ LinkLost \/ Reconnect
  BY <1>3, ComposeKeeps, StringAddKeeps, LinkLostKeeps, ReconnectKeeps
<1>4. CASE Answer
  BY <1>4, ReditKeeps, VeditKeeps, MeditKeeps, HeditKeeps, IceditKeeps, QeditKeeps, SheditKeeps, ZeditKeeps, IeditKeeps,
     CeditKeeps, SeditKeeps, PeditKeeps DEF Answer
<1> QED
  BY <1>1, <1>2, <1>3, <1>4 DEF Next

\* The invariant is more than what is claimed.
LEMMA GoodIsWhole == EInv => CopyWhole /\ BusyFlagged
<1> SUFFICES ASSUME EInv PROVE CopyWhole /\ BusyFlagged
  OBVIOUS
<1>1. ASSUME NEW f \in DOMAIN Mine, mode \in Mine[f]
      PROVE  con = f /\ Editing /\ copy \in CopyType[con]
  <2>1. CASE Editing
    <3>1. con \in DOMAIN Prompts /\ mode \in Prompts[con] /\ copy \in CopyType[con]
      BY <2>1 DEF EInv, TypeOK, Editing, Starts, Prompts
    <3> QED
      BY <1>1, <2>1, <3>1, PromptsDiffer
  <2>2. CASE ~Editing
    <3>1. mode = None
      BY <2>2 DEF EInv, TypeOK
    <3>2. Mine[f] \subseteq Prompts[f] /\ f \in DOMAIN Prompts
      BY DEF Mine, Prompts, ReditPrompts, IeditPrompts, HeditPrompts, QeditPrompts, SheditPrompts, ZeditPrompts,
         HostModes, ShopModes, RoomSaves, ItemSaves, HostSaves
    <3> QED
      BY <1>1, <3>1, <3>2, NoneAssumption DEF NoneAssumption
  <2> QED
    BY <2>1, <2>2
<1>2. mode \in ExitModes \cup RoomExtras \cup RoomSaves => con = "CON_REDIT"
  BY <1>1 DEF Mine
<1>3. mode \in ItemExtras \cup ItemSaves => con = "CON_IEDIT"
  BY <1>1 DEF Mine
<1>4. mode \in HostModes \cup HostSaves => con = "CON_HEDIT"
  BY <1>1 DEF Mine
<1>5. mode \in HuntModes \cup FetchModes => con = "CON_QEDIT"
  BY <1>1 DEF Mine
<1>6. mode \in ShopModes => con = "CON_SHEDIT"
  BY <1>1 DEF Mine
<1>7. mode \in CommandModes => con = "CON_ZEDIT"
  BY <1>1 DEF Mine
<1>8. CursorHolds
  BY <1>2, <1>3, <1>4, <1>5, <1>6, <1>7 DEF EInv, CopyGood, ExtrasGood, ExitGood, StepsGood, CursorGood, ShelfGood,
     LetterGood, CursorHolds, ExtraModes, HostModes, TriggerModes, ShopModes
<1>9. SavedWhole
  <2>1. CASE mode \in HostSaves
    BY <1>4, <2>1 DEF EInv, CopyGood, StepsGood, SavedWhole, HostSaves, TriggerModes
  <2>2. CASE mode \in RoomSaves \cup ItemSaves
    <3>1. con \in {"CON_REDIT", "CON_IEDIT"} /\ mode \notin ExtraModes
      BY <1>2, <1>3, <2>2 DEF RoomSaves, ItemSaves, ExtraModes, RoomExtras, ItemExtras
    <3> QED
      BY <3>1 DEF EInv, CopyGood, ExtrasGood, SavedWhole
  <2>3. mode \in SaveModes => mode \in HostSaves \cup RoomSaves \cup ItemSaves
    BY DEF SaveModes, HostSaves, RoomSaves, ItemSaves
  <2> QED
    BY <2>1, <2>2, <2>3 DEF SavedWhole
<1> QED
  BY <1>8, <1>9 DEF CopyWhole, EInv, FlagsGood

\* Whatever a builder of any number of rooms, extra descriptions, steps and
\* objectives opens, answers, deletes or abandons, a prompt of redit_parse,
\* iedit_parse, hedit_parse, qedit_parse, shedit_parse or zedit_parse writes
\* into something that is there, and a copy that can be saved is whole.
THEOREM CopyWholeAlways == Spec => []CopyWhole
<1>1. Init => EInv
  BY InitGood
<1>2. EInv /\ [Next]_vars => EInv'
  BY StepKeeps
<1>3. EInv => CopyWhole
  BY GoodIsWhole
<1> QED
  BY <1>1, <1>2, <1>3, PTL DEF Spec

\* The flags that keep messages away from a writer are those of what he
\* does, through every editor, letter, broken link and login.
THEOREM BusyFlaggedAlways == Spec => []BusyFlagged
<1>1. Init => EInv
  BY InitGood
<1>2. EInv /\ [Next]_vars => EInv'
  BY StepKeeps
<1>3. EInv => BusyFlagged
  BY GoodIsWhole
<1> QED
  BY <1>1, <1>2, <1>3, PTL DEF Spec

-----------------------------------------------------------------------------
(* The phones.                                                              *)

Distinct(s) == \A i, j \in DOMAIN s : i # j => s[i] # s[j]

\* One record leaves a list of different ones.
LEMMA OneLess ==
  ASSUME NEW S, NEW s \in Seq(S), Distinct(s), NEW k \in DOMAIN s
  PROVE  /\ RemoveAt(s, k) \in Seq(S) /\ Distinct(RemoveAt(s, k))
         /\ ToSet(RemoveAt(s, k)) = ToSet(s) \ {s[k]}
<1> DEFINE t == RemoveAt(s, k)
<1>1. k \in 1 .. Len(s) /\ Len(s) \in Nat /\ DOMAIN s = 1 .. Len(s)
  OBVIOUS
<1>2. /\ SubSeq(s, 1, k - 1) \in Seq(S) /\ Len(SubSeq(s, 1, k - 1)) = k - 1
      /\ \A i \in 1 .. k - 1 : SubSeq(s, 1, k - 1)[i] = s[i]
  BY <1>1
<1>3. /\ SubSeq(s, k + 1, Len(s)) \in Seq(S) /\ Len(SubSeq(s, k + 1, Len(s))) = Len(s) - k
      /\ \A i \in 1 .. Len(s) - k : SubSeq(s, k + 1, Len(s))[i] = s[k + i]
  BY <1>1
<1>4. /\ t \in Seq(S) /\ Len(t) = Len(s) - 1 /\ DOMAIN t = 1 .. Len(s) - 1
      /\ \A i \in DOMAIN t : t[i] = (IF i < k THEN s[i] ELSE s[i + 1])
  <2> DEFINE a == SubSeq(s, 1, k - 1)
             b == SubSeq(s, k + 1, Len(s))
  <2>1. t = a \o b
    BY DEF RemoveAt
  <2>2. /\ a \in Seq(S) /\ Len(a) = k - 1 /\ b \in Seq(S) /\ Len(b) = Len(s) - k
    BY <1>2, <1>3
  <2> HIDE DEF a, b, t
  <2>3. /\ t \in Seq(S) /\ Len(t) = Len(s) - 1 /\ DOMAIN t = 1 .. Len(s) - 1
        /\ \A i \in 1 .. Len(s) - 1 : t[i] = (IF i <= k - 1 THEN a[i] ELSE b[i - (k - 1)])
    <3>1. Len(t) = Len(a) + Len(b) /\ t \in Seq(S)
      BY <2>1, <2>2
    <3>2. \A i \in 1 .. Len(a) + Len(b) : t[i] = (IF i <= Len(a) THEN a[i] ELSE b[i - Len(a)])
      BY <2>1, <2>2
    <3> QED BY <3>1, <3>2, <2>2, <1>1
  <2>4. ASSUME NEW i \in 1 .. Len(s) - 1 PROVE t[i] = (IF i < k THEN s[i] ELSE s[i + 1])
    <3>1. CASE i < k
      BY <1>1, <3>1, <2>3, <1>2 DEF a
    <3>2. CASE i >= k
      <4>1. i - (k - 1) \in 1 .. Len(s) - k /\ k + (i - (k - 1)) = i + 1 /\ ~(i <= k - 1)
        BY <3>2, <1>1
      <4>2. b[i - (k - 1)] = s[i + 1]
        BY <4>1, <1>3 DEF b
      <4> QED BY <4>1, <4>2, <2>3, <3>2, <1>1
    <3> QED BY <3>1, <3>2, <1>1
  <2> QED BY <2>3, <2>4
<1> HIDE DEF t
<1>5. Distinct(t)
  BY <1>1, <1>4 DEF Distinct
<1>6. ASSUME NEW i \in DOMAIN t PROVE t[i] \in ToSet(s) \ {s[k]}
  <2>1. i \in 1 .. Len(s) /\ i + 1 \in 1 .. Len(s)
    BY <1>1, <1>4
  <2>2. i < k => s[i] # s[k]
    BY <2>1, <1>1 DEF Distinct
  <2>3. i >= k => s[i + 1] # s[k]
    BY <2>1, <1>1 DEF Distinct
  <2> QED BY <2>1, <2>2, <2>3, <1>1, <1>4 DEF ToSet
<1>7. ASSUME NEW i \in DOMAIN s, s[i] # s[k] PROVE \E j \in DOMAIN t : t[j] = s[i]
  <2>1. CASE i < k
    BY <2>1, <1>1, <1>4
  <2>2. CASE i > k
    <3>1. i - 1 \in DOMAIN t /\ ~ (i - 1 < k) /\ (i - 1) + 1 = i
      BY <2>2, <1>1, <1>4
    <3> QED BY <3>1, <1>4
  <2>3. i # k
    BY <1>7
  <2> QED BY <2>1, <2>2, <2>3, <1>1
<1>8. ToSet(t) = ToSet(s) \ {s[k]}
  <2>1. \A x \in ToSet(t) : x \in ToSet(s) \ {s[k]}
    BY <1>6 DEF ToSet
  <2>2. \A x \in ToSet(s) \ {s[k]} : x \in ToSet(t)
    BY <1>7 DEF ToSet
  <2> QED BY <2>1, <2>2
<1> QED BY <1>4, <1>5, <1>8 DEF t

\* A record is put in front of a list that has it not.
LEMMA OneMore ==
  ASSUME NEW S, NEW s \in Seq(S), Distinct(s), NEW r \in S, r \notin ToSet(s)
  PROVE  /\ <<r>> \o s \in Seq(S) /\ Distinct(<<r>> \o s)
         /\ ToSet(<<r>> \o s) = ToSet(s) \cup {r}
<1> DEFINE t == <<r>> \o s
<1>1. /\ t \in Seq(S) /\ DOMAIN t = 1 .. Len(s) + 1 /\ DOMAIN s = 1 .. Len(s) /\ Len(s) \in Nat
      /\ t[1] = r /\ \A i \in 2 .. Len(s) + 1 : t[i] = s[i - 1]
  OBVIOUS
<1> HIDE DEF t
<1>2. \A i \in DOMAIN s : s[i] # r
  BY DEF ToSet
<1>3. Distinct(t)
  <2> SUFFICES ASSUME NEW i \in DOMAIN t, NEW j \in DOMAIN t, i < j PROVE t[i] # t[j]
    BY <1>1 DEF Distinct
  <2>1. j - 1 \in DOMAIN s /\ t[j] = s[j - 1]
    BY <1>1
  <2>2. CASE i = 1
    BY <2>1, <2>2, <1>1, <1>2
  <2>3. CASE i # 1
    <3>1. i - 1 \in DOMAIN s /\ t[i] = s[i - 1] /\ i - 1 # j - 1
      BY <2>3, <1>1
    <3> QED BY <3>1, <2>1 DEF Distinct
  <2> QED BY <2>2, <2>3
<1>4. ToSet(t) = ToSet(s) \cup {r}
  <2>1. ASSUME NEW i \in DOMAIN t PROVE t[i] \in ToSet(s) \cup {r}
    <3>1. i = 1 \/ (i - 1 \in DOMAIN s /\ t[i] = s[i - 1])
      BY <1>1
    <3> QED BY <3>1, <1>1 DEF ToSet
  <2>2. ASSUME NEW i \in DOMAIN s PROVE \E j \in DOMAIN t : t[j] = s[i]
    <3>1. i + 1 \in DOMAIN t /\ t[i + 1] = s[i]
      BY <1>1
    <3> QED BY <3>1
  <2>3. 1 \in DOMAIN t
    BY <1>1
  <2>4. \A x \in ToSet(t) : x \in ToSet(s) \cup {r}
    BY <2>1 DEF ToSet
  <2>5. \A x \in ToSet(s) \cup {r} : x \in ToSet(t)
    BY <2>2, <2>3, <1>1 DEF ToSet
  <2> QED BY <2>4, <2>5
<1> QED BY <1>1, <1>3, <1>4 DEF t

PhoneTypes ==
  /\ up \in BOOLEAN
  /\ phone_list \in Seq(Calls!Record)
  /\ dest \in [Calls!Record -> Calls!Record \cup {None}]
  /\ connected \in [Calls!Record -> BOOLEAN]
  /\ switched \in [Phone \cup Fixed -> BOOLEAN]
  /\ here \in SUBSET Calls!Record /\ ghost \in SUBSET Decker

\* A listed record is known to its phone or its decker, or to a ghost.
Known == \A r \in Calls!Listed : r \in here \cup ghost /\ (r \notin Decker => switched[r])

\* Both sides of a call say so.
Linked ==
  \A r \in Calls!Listed :
    /\ dest[r] # None => dest[r] \in Calls!Listed \ {r} /\ dest[dest[r]] = r
    /\ connected[r] => dest[r] # None

Answers == \A p \in here : p \in Decker \cup Phone /\ (p \in Phone => switched[p]) => p \in Calls!Listed

\* Before the boot is over there are houses and vehicles only.
PhoneInv ==
  /\ PhoneTypes
  /\ ~up => here \subseteq Fixed
  /\ broken = "" => Distinct(phone_list) /\ Known /\ Linked /\ Answers

LEMMA ListedRecords ==
  /\ Calls!Listed = ToSet(phone_list) /\ Calls!Listed' = ToSet(phone_list')
  /\ phone_list \in Seq(Calls!Record) => Calls!Listed \in SUBSET Calls!Record
<1>1. Calls!Listed = ToSet(phone_list) /\ Calls!Listed' = ToSet(phone_list')
  BY DEF Calls!Listed, Calls!ToSet, ToSet
<1>2. ASSUME phone_list \in Seq(Calls!Record) PROVE ToSet(phone_list) \in SUBSET Calls!Record
  BY <1>2 DEF ToSet
<1> QED BY <1>1, <1>2

\* What the actions need of a list.
LEMMA Enlisted ==
  ASSUME PhoneInv, broken = "", NEW r \in Calls!Record, r \notin Calls!Listed, NEW n, Calls!Enlist(r, n)
  PROVE  /\ phone_list' \in Seq(Calls!Record) /\ Distinct(phone_list') /\ Linked'
         /\ Calls!Listed' = Calls!Listed \cup {r}
         /\ dest' \in [Calls!Record -> Calls!Record \cup {None}] /\ connected' \in [Calls!Record -> BOOLEAN]
<1>1. phone_list \in Seq(Calls!Record) /\ Distinct(phone_list) /\ r \notin ToSet(phone_list)
  BY ListedRecords DEF PhoneInv, PhoneTypes
<1>2. phone_list' = <<r>> \o phone_list
  BY DEF Calls!Enlist
<1>3. /\ phone_list' \in Seq(Calls!Record) /\ Distinct(phone_list')
      /\ Calls!Listed' = Calls!Listed \cup {r}
  BY <1>1, <1>2, OneMore, ListedRecords
<1>4. /\ dest' \in [Calls!Record -> Calls!Record \cup {None}] /\ connected' \in [Calls!Record -> BOOLEAN]
      /\ dest' = [dest EXCEPT ![r] = None] /\ connected' = [connected EXCEPT ![r] = FALSE]
  BY DEF PhoneInv, PhoneTypes, Calls!Enlist
<1>5. Linked'
  <2> SUFFICES ASSUME NEW k \in Calls!Listed'
               PROVE  /\ dest'[k] # None => dest'[k] \in Calls!Listed' \ {k} /\ dest'[dest'[k]] = k
                      /\ connected'[k] => dest'[k] # None
    BY DEF Linked
  <2>1. Linked /\ Calls!Listed \in SUBSET Calls!Record
    BY ListedRecords DEF PhoneInv, PhoneTypes
  <2>2. dest \in [Calls!Record -> Calls!Record \cup {None}] /\ connected \in [Calls!Record -> BOOLEAN]
    BY DEF PhoneInv, PhoneTypes
  <2>3. CASE k = r
    BY <2>2, <2>3, <1>4
  <2>4. CASE k # r
    <3>1. k \in Calls!Listed
      BY <2>4, <1>3
    <3>2. dest'[k] = dest[k] /\ connected'[k] = connected[k]
      BY <3>1, <2>1, <2>2, <2>4, <1>4
    <3>3. dest[k] # None => dest[k] \in Calls!Listed \ {k} /\ dest[k] # r /\ dest[dest[k]] = k
      BY <3>1, <2>1 DEF Linked
    <3>4. dest[k] # None => dest'[dest[k]] = k
      BY <3>3, <2>1, <2>2, <1>4
    <3>5. connected[k] => dest[k] # None
      BY <3>1, <2>1 DEF Linked
    <3> QED BY <3>2, <3>3, <3>4, <3>5, <1>3
  <2> QED BY <2>3, <2>4
<1> QED BY <1>3, <1>4, <1>5

LEMMA Removed ==
  ASSUME PhoneInv, broken = "", NEW r \in Calls!Listed
  PROVE  /\ Calls!Without(r) \in Seq(Calls!Record) /\ Distinct(Calls!Without(r))
         /\ ToSet(Calls!Without(r)) = Calls!Listed \ {r}
<1> DEFINE k == CHOOSE i \in DOMAIN phone_list : phone_list[i] = r
<1>1. k \in DOMAIN phone_list /\ phone_list[k] = r
  BY DEF Calls!Listed, Calls!ToSet
<1>2. phone_list \in Seq(Calls!Record) /\ Distinct(phone_list)
  BY DEF PhoneInv, PhoneTypes
<1>3. Calls!Without(r) = RemoveAt(phone_list, k)
  BY DEF Calls!Without, Calls!RemoveAt, RemoveAt
<1> HIDE DEF k
<1>4. /\ RemoveAt(phone_list, k) \in Seq(Calls!Record) /\ Distinct(RemoveAt(phone_list, k))
      /\ ToSet(RemoveAt(phone_list, k)) = ToSet(phone_list) \ {phone_list[k]}
  BY <1>1, <1>2, OneLess
<1> QED BY <1>1, <1>3, <1>4, ListedRecords

\* A call that ends leaves the others paired, on the list or on what is left of it.
LEMMA EndedCall ==
  ASSUME PhoneInv, broken = "", NEW r \in Calls!Listed, Calls!EndCall(r),
         Calls!Listed' = Calls!Listed \/ Calls!Listed' = Calls!Listed \ {r}
  PROVE  /\ Linked'
         /\ dest' \in [Calls!Record -> Calls!Record \cup {None}] /\ connected' \in [Calls!Record -> BOOLEAN]
<1>1. /\ dest \in [Calls!Record -> Calls!Record \cup {None}] /\ connected \in [Calls!Record -> BOOLEAN]
      /\ Linked /\ Calls!Listed \in SUBSET Calls!Record
  BY ListedRecords DEF PhoneInv, PhoneTypes
<1>2. /\ dest' = [k \in Calls!Record |-> IF k \in {r, dest[r]} THEN None ELSE dest[k]]
      /\ connected' = [k \in Calls!Record |-> IF k \in {r, dest[r]} THEN FALSE ELSE connected[k]]
  BY DEF Calls!EndCall, Calls!Ended
<1>3. dest' \in [Calls!Record -> Calls!Record \cup {None}] /\ connected' \in [Calls!Record -> BOOLEAN]
  BY <1>1, <1>2
<1>4. ASSUME NEW k \in Calls!Listed'
      PROVE  /\ dest'[k] # None => dest'[k] \in Calls!Listed' \ {k} /\ dest'[dest'[k]] = k
             /\ connected'[k] => dest'[k] # None
  <2>1. k \in Calls!Listed /\ k \in Calls!Record
    BY <1>1
  <2>2. CASE k \in {r, dest[r]}
    BY <2>1, <2>2, <1>2
  <2>3. CASE k \notin {r, dest[r]}
    <3>1. dest'[k] = dest[k] /\ connected'[k] = connected[k]
      BY <2>1, <2>3, <1>2
    <3>2. connected[k] => dest[k] # None
      BY <2>1, <1>1 DEF Linked
    <3>3. ASSUME dest[k] # None PROVE dest[k] \in Calls!Listed' \ {k} /\ dest'[dest[k]] = k
      <4>1. dest[k] \in Calls!Listed \ {k} /\ dest[dest[k]] = k
        BY <2>1, <3>3, <1>1 DEF Linked
      <4>2. dest[k] # r /\ dest[k] # dest[r]
        <5>1. dest[k] # r
          BY <4>1, <2>3
        <5>2. ASSUME dest[k] = dest[r] PROVE FALSE
          <6>1. dest[r] # None /\ dest[dest[r]] = r
            BY <5>2, <3>3, <1>1 DEF Linked
          <6> QED BY <6>1, <5>2, <4>1, <2>3
        <5> QED BY <5>1, <5>2
      <4> QED BY <4>1, <4>2, <1>1, <1>2
    <3> QED BY <3>1, <3>2, <3>3
  <2> QED BY <2>2, <2>3
<1> QED BY <1>3, <1>4 DEF Linked

LEMMA PhoneInit == ASSUME Calls!Init PROVE PhoneInv
<1>1. phone_list = <<>>
  BY DEF Calls!Init
<1>2. Calls!Listed = {}
  <2>1. DOMAIN phone_list = {}
    BY <1>1
  <2> QED BY <2>1, ListedRecords DEF ToSet
<1>3. Distinct(phone_list) /\ Known /\ Linked
  BY <1>1, <1>2 DEF Distinct, Known, Linked
<1>4. here = {} /\ up = FALSE
  BY DEF Calls!Init
<1>5. PhoneTypes
  <2>1. phone_list \in Seq(Calls!Record)
    BY <1>1
  <2>2. /\ dest \in [Calls!Record -> Calls!Record \cup {None}]
        /\ connected \in [Calls!Record -> BOOLEAN]
    BY DEF Calls!Init
  <2> QED BY <1>4, <2>1, <2>2 DEF Calls!Init, PhoneTypes
<1> QED BY <1>3, <1>4, <1>5 DEF PhoneInv, Answers

\* What is on and off the list does not depend on what else there is.
LEMMA KindsOf ==
  /\ Phone \subseteq Calls!Record /\ Fixed \subseteq Calls!Record /\ Decker \subseteq Calls!Record
  /\ \A r \in Calls!Record : r \in Phone \cup Fixed <=> r \notin Decker
  /\ \A r \in Phone : r \notin Fixed
  /\ None \notin Calls!Record
BY CallsAssumption DEF Calls!PhonesAssumption, Calls!Record

LEMMA LoadHouseInv == ASSUME PhoneInv, broken = "", NEW p \in Fixed, Calls!LoadHouse(p) PROVE PhoneInv'
<1>1. p \in Calls!Record /\ p \notin Decker /\ p \notin Phone
  BY KindsOf
<1>2. CASE switched[p] /\ Calls!Enlist(p, Short[p])
  <2>1. p \notin Calls!Listed
    BY <1>1 DEF Calls!LoadHouse, PhoneInv, PhoneTypes, Known
  <2>2. /\ phone_list' \in Seq(Calls!Record) /\ Distinct(phone_list') /\ Linked'
        /\ Calls!Listed' = Calls!Listed \cup {p}
        /\ dest' \in [Calls!Record -> Calls!Record \cup {None}] /\ connected' \in [Calls!Record -> BOOLEAN]
    BY <1>1, <1>2, <2>1, Enlisted
  <2>3. /\ here' = here \cup {p} /\ ~up /\ up' = up /\ switched' = switched /\ ghost' = ghost
    BY DEF Calls!LoadHouse
  <2>4. PhoneTypes'
    BY <1>1, <2>2, <2>3 DEF PhoneInv, PhoneTypes
  <2>5. Known' /\ Answers'
    BY <1>1, <1>2, <2>2, <2>3 DEF PhoneInv, Known, Answers
  <2> QED BY <2>2, <2>3, <2>4, <2>5 DEF PhoneInv
<1>3. CASE UNCHANGED <<phone_list, number, dest, connected>>
  <2>1. /\ here' = here \cup {p} /\ ~up /\ up' = up /\ switched' = switched /\ ghost' = ghost
        /\ Calls!Listed' = Calls!Listed /\ phone_list' = phone_list /\ dest' = dest /\ connected' = connected
    BY <1>3, ListedRecords DEF Calls!LoadHouse
  <2>2. PhoneTypes' /\ Linked' /\ Distinct(phone_list')
    BY <1>1, <2>1 DEF PhoneInv, PhoneTypes, Linked
  <2>3. Known' /\ Answers'
    BY <1>1, <2>1 DEF PhoneInv, Known, Answers
  <2> QED BY <2>1, <2>2, <2>3 DEF PhoneInv
<1> QED BY <1>2, <1>3 DEF Calls!LoadHouse, Calls!lists, Calls!calls

\* A phone or a decker comes into the game with a record.
LEMMA ComesInv ==
  ASSUME PhoneInv, broken = "", NEW r \in Phone \cup Decker, r \notin here \cup ghost, up,
         NEW n, Calls!Enlist(r, n), r \in Phone => switched[r],
         here' = here \cup {r}, UNCHANGED <<up, switched, ghost, broken>>
  PROVE  PhoneInv'
<1>1. r \in Calls!Record
  BY KindsOf
<1>2. r \notin Calls!Listed
  BY DEF PhoneInv, Known
<1>3. /\ phone_list' \in Seq(Calls!Record) /\ Distinct(phone_list') /\ Linked'
      /\ Calls!Listed' = Calls!Listed \cup {r}
      /\ dest' \in [Calls!Record -> Calls!Record \cup {None}] /\ connected' \in [Calls!Record -> BOOLEAN]
  BY <1>1, <1>2, Enlisted
<1>4. PhoneTypes'
  BY <1>1, <1>3 DEF PhoneInv, PhoneTypes
<1>5. Known' /\ Answers'
  BY <1>3 DEF PhoneInv, Known, Answers
<1> QED BY <1>3, <1>4, <1>5 DEF PhoneInv

LEMMA LoadPlayerInv == ASSUME PhoneInv, broken = "", NEW p \in Phone, Calls!LoadPlayer(p) PROVE PhoneInv'
<1>1. p \in Calls!Record /\ p \notin Decker
  BY KindsOf
<1>2. p \notin here \cup ghost
  BY <1>1 DEF Calls!LoadPlayer, PhoneInv, PhoneTypes
<1>3. CASE switched[p]
  BY <1>2, <1>3, ComesInv DEF Calls!LoadPlayer
<1>4. CASE ~ switched[p]
  <2>1. /\ here' = here \cup {p} /\ up' = up /\ up /\ switched' = switched /\ ghost' = ghost
        /\ Calls!Listed' = Calls!Listed /\ phone_list' = phone_list /\ dest' = dest /\ connected' = connected
    BY <1>4, ListedRecords DEF Calls!LoadPlayer, Calls!lists, Calls!calls
  <2>2. PhoneTypes' /\ Linked' /\ Distinct(phone_list')
    BY <1>1, <2>1 DEF PhoneInv, PhoneTypes, Linked
  <2>3. Known' /\ Answers'
    BY <1>1, <1>4, <2>1 DEF PhoneInv, Known, Answers
  <2> QED BY <2>1, <2>2, <2>3 DEF PhoneInv
<1> QED BY <1>3, <1>4

LEMMA do_connectInv == ASSUME PhoneInv, broken = "", NEW c \in Decker, Calls!do_connect(c) PROVE PhoneInv'
<1>1. c \notin Phone
  BY KindsOf
<1> QED BY <1>1, ComesInv DEF Calls!do_connect

LEMMA BootInv == ASSUME PhoneInv, broken = "", Calls!Boot PROVE PhoneInv'
<1>1. /\ up' = TRUE /\ here' = here /\ switched' = switched /\ ghost' = ghost
      /\ Calls!Listed' = Calls!Listed /\ phone_list' = phone_list /\ dest' = dest /\ connected' = connected
  BY ListedRecords DEF Calls!Boot, Calls!lists, Calls!calls
<1> QED BY <1>1 DEF PhoneInv, PhoneTypes, Known, Linked, Answers

\* A record leaves the list.
LEMMA Unlisted ==
  ASSUME PhoneInv, broken = "", NEW r \in Calls!Listed, Calls!Unlist(r)
  PROVE  /\ phone_list' \in Seq(Calls!Record) /\ Distinct(phone_list') /\ Linked'
         /\ Calls!Listed' = Calls!Listed \ {r}
         /\ dest' \in [Calls!Record -> Calls!Record \cup {None}] /\ connected' \in [Calls!Record -> BOOLEAN]
<1>1. phone_list' = Calls!Without(r) /\ Calls!EndCall(r)
  BY DEF Calls!Unlist
<1>2. /\ phone_list' \in Seq(Calls!Record) /\ Distinct(phone_list')
      /\ Calls!Listed' = Calls!Listed \ {r}
  BY <1>1, Removed, ListedRecords
<1> QED BY <1>1, <1>2, EndedCall

LEMMA extract_objInv == ASSUME PhoneInv, broken = "", NEW p \in Phone, Calls!extract_obj(p) PROVE PhoneInv'
<1>1. up /\ up' /\ here' = here \ {p} /\ switched' = switched /\ ghost' = ghost
  BY DEF Calls!extract_obj, PhoneInv, PhoneTypes
<1>2. CASE p \in Calls!Listed
  <2>1. Calls!Unlist(p)
    BY <1>2 DEF Calls!extract_obj
  <2>2. /\ phone_list' \in Seq(Calls!Record) /\ Distinct(phone_list') /\ Linked'
        /\ Calls!Listed' = Calls!Listed \ {p}
        /\ dest' \in [Calls!Record -> Calls!Record \cup {None}] /\ connected' \in [Calls!Record -> BOOLEAN]
    BY <1>2, <2>1, Unlisted
  <2>3. PhoneTypes'
    BY <1>1, <2>2 DEF PhoneInv, PhoneTypes
  <2>4. Known' /\ Answers'
    BY <1>1, <2>2 DEF PhoneInv, Known, Answers
  <2> QED BY <1>1, <2>2, <2>3, <2>4 DEF PhoneInv
<1>3. CASE p \notin Calls!Listed
  <2>1. Calls!Listed' = Calls!Listed /\ phone_list' = phone_list /\ dest' = dest /\ connected' = connected
    BY <1>3, ListedRecords DEF Calls!extract_obj, Calls!lists, Calls!calls
  <2>2. PhoneTypes' /\ Linked' /\ Distinct(phone_list')
    BY <1>1, <2>1 DEF PhoneInv, PhoneTypes, Linked
  <2>3. Known' /\ Answers'
    BY <1>1, <1>3, <2>1 DEF PhoneInv, Known, Answers
  <2> QED BY <1>1, <2>1, <2>2, <2>3 DEF PhoneInv
<1> QED BY <1>2, <1>3

LEMMA extract_iconInv == ASSUME PhoneInv, broken = "", NEW c \in Decker, Calls!extract_icon(c) PROVE PhoneInv'
<1>1. up /\ up' /\ c \in here /\ here' = here \ {c} /\ switched' = switched
  BY DEF Calls!extract_icon, PhoneInv, PhoneTypes
<1>2. c \in Calls!Listed /\ c \notin Phone
  BY <1>1, KindsOf DEF PhoneInv, Answers
<1>3. CASE Calls!Unlist(c) /\ ghost' = ghost
  <2>2. /\ phone_list' \in Seq(Calls!Record) /\ Distinct(phone_list') /\ Linked'
        /\ Calls!Listed' = Calls!Listed \ {c}
        /\ dest' \in [Calls!Record -> Calls!Record \cup {None}] /\ connected' \in [Calls!Record -> BOOLEAN]
    BY <1>2, <1>3, Unlisted
  <2>3. PhoneTypes'
    BY <1>1, <1>3, <2>2 DEF PhoneInv, PhoneTypes
  <2>4. Known' /\ Answers'
    BY <1>1, <1>3, <2>2 DEF PhoneInv, Known, Answers
  <2> QED BY <1>1, <2>2, <2>3, <2>4 DEF PhoneInv
<1>4. CASE ghost' = ghost \cup {c} /\ UNCHANGED <<phone_list, number, dest, connected>>
  <2>1. Calls!Listed' = Calls!Listed /\ phone_list' = phone_list /\ dest' = dest /\ connected' = connected
    BY <1>4, ListedRecords
  <2>2. PhoneTypes' /\ Linked' /\ Distinct(phone_list')
    BY <1>1, <1>4, <2>1 DEF PhoneInv, PhoneTypes, Linked
  <2>3. Known' /\ Answers'
    BY <1>1, <1>4, <2>1 DEF PhoneInv, Known, Answers
  <2> QED BY <1>1, <2>1, <2>2, <2>3 DEF PhoneInv
<1> QED BY <1>3, <1>4 DEF Calls!extract_icon, Calls!lists, Calls!calls

LEMMA SwitchOnInv ==
  ASSUME PhoneInv, broken = "", NEW p \in Phone \cup Fixed, Calls!SwitchOn(p) PROVE PhoneInv'
<1>1. /\ up /\ up' = up /\ p \in here /\ here' = here /\ ghost' = ghost /\ ~ switched[p]
      /\ switched' = [switched EXCEPT ![p] = TRUE] /\ Calls!Enlist(p, Number[p])
  BY DEF Calls!SwitchOn, Calls!Holds
<1>2. p \in Calls!Record /\ p \notin Decker
  BY KindsOf
<1>3. p \notin Calls!Listed
  BY <1>1, <1>2 DEF PhoneInv, Known
<1>4. /\ phone_list' \in Seq(Calls!Record) /\ Distinct(phone_list') /\ Linked'
      /\ Calls!Listed' = Calls!Listed \cup {p}
      /\ dest' \in [Calls!Record -> Calls!Record \cup {None}] /\ connected' \in [Calls!Record -> BOOLEAN]
  BY <1>1, <1>2, <1>3, Enlisted
<1>5. switched \in [Phone \cup Fixed -> BOOLEAN] /\ Calls!Listed \in SUBSET Calls!Record
  BY ListedRecords DEF PhoneInv, PhoneTypes
<1>6. switched'[p] /\ \A q \in Phone \cup Fixed : q # p => switched'[q] = switched[q]
  BY <1>1, <1>5
<1>7. PhoneTypes'
  BY <1>1, <1>4 DEF PhoneInv, PhoneTypes
<1>8. Known'
  BY <1>1, <1>4, <1>5, <1>6, KindsOf DEF PhoneInv, Known
<1>9. Answers'
  BY <1>1, <1>4, <1>6 DEF PhoneInv, Answers
<1> QED BY <1>1, <1>4, <1>7, <1>8, <1>9 DEF PhoneInv

LEMMA SwitchOffInv ==
  ASSUME PhoneInv, broken = "", NEW p \in Phone \cup Fixed, Calls!SwitchOff(p) PROVE PhoneInv'
<1>1. /\ up /\ up' = up /\ here' = here /\ ghost' = ghost /\ switched' = [switched EXCEPT ![p] = FALSE]
      /\ dest' = dest /\ connected' = connected
  BY DEF Calls!SwitchOff, Calls!Holds, Calls!calls
<1>2. p \in Calls!Record /\ p \notin Decker
  BY KindsOf
<1>3. CASE p \notin Calls!Listed
  <2>1. broken' = "null" /\ phone_list' = phone_list
    BY <1>3 DEF Calls!SwitchOff
  <2> QED BY <1>1, <2>1 DEF PhoneInv, PhoneTypes
<1>4. CASE p \in Calls!Listed
  <2>1. dest[p] = None /\ phone_list' = Calls!Without(p)
    BY <1>4 DEF Calls!SwitchOff
  <2>2. /\ phone_list' \in Seq(Calls!Record) /\ Distinct(phone_list')
        /\ Calls!Listed' = Calls!Listed \ {p}
    BY <1>4, <2>1, Removed, ListedRecords
  <2>3. switched \in [Phone \cup Fixed -> BOOLEAN] /\ Calls!Listed \in SUBSET Calls!Record
    BY ListedRecords DEF PhoneInv, PhoneTypes
  <2>4. \A q \in Phone \cup Fixed : q # p => switched'[q] = switched[q]
    BY <1>1, <2>3
  <2>5. ~ switched'[p]
    BY <1>1, <2>3
  <2>6. PhoneTypes'
    BY <1>1, <2>2 DEF PhoneInv, PhoneTypes
  <2>7. Known'
    BY <1>1, <2>2, <2>3, <2>4, KindsOf DEF PhoneInv, Known
  <2>8. Answers'
    BY <1>1, <1>2, <2>2, <2>4, <2>5 DEF PhoneInv, Answers
  <2>9. Linked'
    <3> SUFFICES ASSUME NEW k \in Calls!Listed'
                 PROVE  /\ dest[k] # None => dest[k] \in Calls!Listed' \ {k} /\ dest[dest[k]] = k
                        /\ connected[k] => dest[k] # None
      BY <1>1 DEF Linked
    <3>1. k \in Calls!Listed /\ k # p /\ k # None
      BY <2>2, <2>3, KindsOf
    <3>2. /\ dest[k] # None => dest[k] \in Calls!Listed \ {k} /\ dest[dest[k]] = k
          /\ connected[k] => dest[k] # None
      BY <3>1 DEF PhoneInv, Linked
    <3>3. dest[k] # p
      BY <3>1, <3>2, <2>1, KindsOf, <1>2
    <3> QED BY <3>2, <3>3, <2>2
  <2> QED BY <1>1, <2>2, <2>6, <2>7, <2>8, <2>9 DEF PhoneInv
<1> QED BY <1>3, <1>4

\* Whoever has no call is rung by somebody who has none.
LEMMA RingInv ==
  ASSUME PhoneInv, broken = "", NEW r \in Calls!Listed, NEW k \in Calls!Listed, r # k,
         dest[k] = None, Calls!Ring(r, k), broken' = "" => dest[r] = None
  PROVE  PhoneInv'
<1>1. /\ dest \in [Calls!Record -> Calls!Record \cup {None}] /\ connected \in [Calls!Record -> BOOLEAN]
      /\ Linked /\ Calls!Listed \in SUBSET Calls!Record
  BY ListedRecords DEF PhoneInv, PhoneTypes
<1>2. /\ up' = up /\ here' = here /\ ghost' = ghost /\ switched' = switched /\ phone_list' = phone_list
      /\ Calls!Listed' = Calls!Listed
      /\ dest' = [dest EXCEPT ![r] = k, ![k] = r] /\ connected' = [connected EXCEPT ![r] = TRUE]
  BY ListedRecords DEF Calls!Ring, Calls!lists
<1>3. /\ dest'[r] = k /\ dest'[k] = r /\ \A j \in Calls!Listed \ {r, k} : dest'[j] = dest[j]
      /\ \A j \in Calls!Listed \ {r} : connected'[j] = connected[j]
  BY <1>1, <1>2
<1>4. PhoneTypes'
  BY <1>1, <1>2 DEF PhoneInv, PhoneTypes
<1>5. Known' /\ Answers' /\ Distinct(phone_list')
  BY <1>2 DEF PhoneInv, Known, Answers
<1>6. ASSUME dest[r] = None PROVE Linked'
  <2> SUFFICES ASSUME NEW j \in Calls!Listed
               PROVE  /\ dest'[j] # None => dest'[j] \in Calls!Listed \ {j} /\ dest'[dest'[j]] = j
                      /\ connected'[j] => dest'[j] # None
    BY <1>2 DEF Linked
  <2>1. j # None /\ r # None /\ k # None
    BY <1>1, KindsOf
  <2>2. CASE j = r
    BY <1>3, <2>1, <2>2
  <2>3. CASE j = k
    BY <1>3, <2>1, <2>3
  <2>4. CASE j \notin {r, k}
    <3>1. dest'[j] = dest[j] /\ connected'[j] = connected[j]
      BY <1>3, <2>4
    <3>2. /\ dest[j] # None => dest[j] \in Calls!Listed \ {j} /\ dest[dest[j]] = j
          /\ connected[j] => dest[j] # None
      BY <1>1 DEF Linked
    <3>3. dest[j] \notin {r, k}
      BY <3>2, <2>1, <1>6
    <3>4. dest[j] # None => dest'[dest[j]] = j
      BY <3>2, <3>3, <1>3
    <3> QED BY <3>1, <3>2, <3>4
  <2> QED BY <2>2, <2>3, <2>4
<1> QED BY <1>2, <1>4, <1>5, <1>6 DEF PhoneInv

LEMMA CallInv ==
  ASSUME PhoneInv, broken = "", NEW p \in Phone \cup Fixed, Calls!Call(p) PROVE PhoneInv'
<1>0. PICK n \in {number[r] : r \in Calls!Listed} :
        \E k \in Calls!Called(n) \ {p} : dest[k] = None /\ Calls!Ring(p, k)
  BY DEF Calls!Call
<1>1. PICK k \in Calls!Called(n) \ {p} : dest[k] = None /\ Calls!Ring(p, k)
  BY <1>0
<1>2. k \in Calls!Listed
  BY <1>1, ListedRecords DEF Calls!Called, ToSet
<1>3. p \in Calls!Listed /\ dest[p] = None
  BY DEF Calls!Call
<1> QED BY <1>1, <1>2, <1>3, RingInv

LEMMA do_comcallInv ==
  ASSUME PhoneInv, broken = "", NEW c \in Decker, Calls!do_comcall(c) PROVE PhoneInv'
<1>1. PICK k \in Calls!Listed \ {c} :
        /\ dest[k] = None /\ Calls!Ring(c, k)
        /\ broken' = (IF k \in ghost THEN "freed" ELSE IF dest[c] # None THEN "crossed" ELSE broken)
  BY DEF Calls!do_comcall
<1>2. c \in Calls!Listed
  BY KindsOf DEF Calls!do_comcall, Calls!Holds, PhoneInv, Answers
<1>3. broken' = "" => dest[c] = None
  BY <1>1
<1> QED BY <1>1, <1>2, <1>3, RingInv

LEMMA AnswerInv ==
  ASSUME PhoneInv, broken = "", NEW r \in Calls!Record, Calls!Answer(r) PROVE PhoneInv'
<1>1. /\ dest \in [Calls!Record -> Calls!Record \cup {None}] /\ connected \in [Calls!Record -> BOOLEAN]
      /\ Linked /\ Calls!Listed \in SUBSET Calls!Record
  BY ListedRecords DEF PhoneInv, PhoneTypes
<1>2. /\ r \in Calls!Listed /\ dest[r] # None
      /\ up' = up /\ here' = here /\ ghost' = ghost /\ switched' = switched /\ phone_list' = phone_list
      /\ Calls!Listed' = Calls!Listed /\ dest' = dest
      /\ connected' = [connected EXCEPT ![r] = TRUE, ![dest[r]] = TRUE]
  BY ListedRecords DEF Calls!Answer, Calls!lists
<1>3. PhoneTypes'
  BY <1>1, <1>2 DEF PhoneInv, PhoneTypes
<1>4. Known' /\ Answers' /\ Distinct(phone_list')
  BY <1>2 DEF PhoneInv, Known, Answers
<1>5. dest[r] \in Calls!Listed /\ dest[dest[r]] = r /\ r # None
  BY <1>1, <1>2, KindsOf DEF Linked
<1>6. \A j \in Calls!Listed : connected'[j] => connected[j] \/ j = r \/ j = dest[r]
  BY <1>1, <1>2
<1>7. Linked'
  BY <1>1, <1>2, <1>5, <1>6 DEF Linked
<1> QED BY <1>2, <1>3, <1>4, <1>7 DEF PhoneInv

LEMMA HangUpInv ==
  ASSUME PhoneInv, broken = "", NEW r \in Calls!Record, Calls!HangUp(r) PROVE PhoneInv'
<1>1. /\ r \in Calls!Listed /\ Calls!EndCall(r)
      /\ up' = up /\ here' = here /\ ghost' = ghost /\ switched' = switched /\ phone_list' = phone_list
      /\ Calls!Listed' = Calls!Listed
  BY ListedRecords DEF Calls!HangUp, Calls!lists
<1>2. /\ Linked'
      /\ dest' \in [Calls!Record -> Calls!Record \cup {None}] /\ connected' \in [Calls!Record -> BOOLEAN]
  BY <1>1, EndedCall
<1>3. PhoneTypes'
  BY <1>1, <1>2 DEF PhoneInv, PhoneTypes
<1>4. Known' /\ Answers' /\ Distinct(phone_list')
  BY <1>1 DEF PhoneInv, Known, Answers
<1> QED BY <1>1, <1>2, <1>3, <1>4 DEF PhoneInv

LEMMA PhoneKept ==
  ASSUME PhoneInv, up' = up, phone_list' = phone_list, dest' = dest, connected' = connected,
         switched' = switched, here' = here, ghost' = ghost, broken' = "" => broken = ""
  PROVE  PhoneInv'
<1>1. Calls!Listed' = Calls!Listed
  BY ListedRecords
<1>2. PhoneTypes'
  BY DEF PhoneInv, PhoneTypes
<1>3. broken = "" => Distinct(phone_list') /\ Known' /\ Linked' /\ Answers'
  BY <1>1 DEF PhoneInv, Known, Linked, Answers
<1> QED BY <1>2, <1>3 DEF PhoneInv

LEMMA PhoneInvNext == ASSUME PhoneInv, Calls!Next PROVE PhoneInv'
<1>1. CASE Calls!Halted
  BY <1>1, PhoneKept DEF Calls!Halted, Calls!lists, Calls!calls
<1>2. CASE Calls!Works
  <2> USE <1>2
  <2>0. broken = ""
    BY DEF Calls!Works
  <2>1. ASSUME NEW p \in Fixed, Calls!LoadHouse(p) PROVE PhoneInv'
    BY <2>0, <2>1, LoadHouseInv
  <2>2. ASSUME NEW p \in Phone, Calls!LoadPlayer(p) \/ Calls!extract_obj(p) PROVE PhoneInv'
    BY <2>0, <2>2, LoadPlayerInv, extract_objInv
  <2>3. ASSUME NEW c \in Decker, Calls!do_connect(c) \/ Calls!extract_icon(c) \/ Calls!do_comcall(c) PROVE PhoneInv'
    BY <2>0, <2>3, do_connectInv, extract_iconInv, do_comcallInv
  <2>4. ASSUME NEW p \in Phone \cup Fixed, Calls!SwitchOn(p) \/ Calls!SwitchOff(p) \/ Calls!Call(p) PROVE PhoneInv'
    BY <2>0, <2>4, SwitchOnInv, SwitchOffInv, CallInv
  <2>5. ASSUME NEW r \in Calls!Record, Calls!Answer(r) \/ Calls!HangUp(r) PROVE PhoneInv'
    BY <2>0, <2>5, AnswerInv, HangUpInv
  <2>6. ASSUME Calls!Boot PROVE PhoneInv'
    BY <2>0, <2>6, BootInv
  <2>7. ASSUME Calls!phone_check PROVE PhoneInv'
    BY <2>0, <2>7, PhoneKept DEF Calls!phone_check, Calls!lists, Calls!calls
  <2> QED BY <2>1, <2>2, <2>3, <2>4, <2>5, <2>6, <2>7 DEF Calls!Works
<1> QED BY <1>1, <1>2 DEF Calls!Next

\* A call is one call, whoever rings, hangs up, is destroyed, leaves the game or jacks out
\* (do_phone, do_comcall, extract_obj, extract_icon, phone_check).
THEOREM PhonesAreSound == MCSpec => []PhonesSound
<1>1. MCInit => PhoneInv
  BY PhoneInit DEF MCInit
<1>2. PhoneInv /\ [MCNext]_<<scene, vars, creating, posting, running, phoning>> => PhoneInv'
  <2> SUFFICES ASSUME PhoneInv, [MCNext]_<<scene, vars, creating, posting, running, phoning>>
               PROVE  PhoneInv'
    OBVIOUS
  <2>1. CASE Rings
    BY <2>1, PhoneInvNext DEF Rings
  <2>2. CASE UNCHANGED phoning
    BY <2>2, PhoneKept DEF phoning
  <2> QED BY <2>1, <2>2 DEF MCNext, Edits, Creates, Posts, Works
<1>3. PhoneInv => PhonesSound
  BY DEF PhoneInv, PhonesSound, Calls!PhonesSound, Distinct, Known, Linked, Answers
<1> QED BY <1>1, <1>2, <1>3, PTL DEF MCSpec

-----------------------------------------------------------------------------
(* The runs.                                                                *)

RunTypes(s) ==
  /\ table \in Seq(DOMAIN Jobs[s].goals) /\ Len(table) > 0
  /\ spare2 \in [Jobs[s].johnsons -> 0 .. Len(table) - 1]
  /\ memory \in [Jobs[s].johnsons -> SUBSET Jobs[s].runners]
  /\ questnum \in [Jobs[s].runners -> 0 .. Len(table) - 1]
  /\ complete \in [Jobs[s].runners ->
       {None} \cup UNION {[DOMAIN Jobs[s].goals[v] -> Nat] : v \in DOMAIN Jobs[s].goals}]
  /\ leader \in [Jobs[s].runners -> Jobs[s].runners \cup {None}]
  /\ \A t \in targets : t[1] \in Jobs[s].runners

\* TargetsOwned, Discharged and CountsFit, before the quest of a runner is moved.
Owned == \A t \in targets : t[1] \in left \/ (questnum[t[1]] # 0 /\ table[questnum[t[1]] + 1] = t[2])
Held(s) ==
  \A r \in Jobs[s].runners : questnum[r] # 0 => r \in orphan \/ \E j \in Jobs[s].johnsons : r \in memory[j]
Tallied(s) ==
  \A r \in Jobs[s].runners :
    questnum[r] # 0 => complete[r] \in [DOMAIN Jobs[s].goals[table[questnum[r] + 1]] -> Nat]

RunInv(s) == RunTypes(s) /\ Held(s) /\ (~moved => Owned /\ Tallied(s))

\* A quest that is offered is in the table.
LEMMA Offered ==
  ASSUME NEW s \in JobScenes, RunTypes(s), NEW j \in Jobs[s].johnsons, NEW n
  PROVE  /\ Run(s)!new_quest(j, n) \in SUBSET (0 .. Len(table) - 1)
         /\ \A m \in 0 .. Len(table) - 1 : [spare2 EXCEPT ![j] = m] \in [Jobs[s].johnsons -> 0 .. Len(table) - 1]
         /\ spare2[j] \in 0 .. Len(table) - 1 /\ 0 \in 0 .. Len(table) - 1
<1>1. Run(s)!new_quest(j, n) \in SUBSET (0 .. Len(table) - 1)
  BY DEF Run!new_quest
<1> QED BY <1>1 DEF RunTypes

LEMMA RunInit == ASSUME NEW s \in JobScenes, Run(s)!Init PROVE RunInv(s)
<1>1. Jobs[s].first \in Seq(DOMAIN Jobs[s].goals) /\ Jobs[s].first # <<>>
  BY RunsAssumption DEF Run!QuestsAssumption
<1>2. table \in Seq(DOMAIN Jobs[s].goals) /\ Len(table) > 0
  BY <1>1 DEF Run!Init
<1>3. 0 \in 0 .. Len(table) - 1
  BY <1>2
<1>4. RunTypes(s)
  BY <1>2, <1>3 DEF Run!Init, RunTypes
<1> QED BY <1>4 DEF Run!Init, RunInv, Held, Owned, Tallied

\* What a step leaves alone, but for the quests on offer and the groups.
LEMMA RunKept ==
  ASSUME NEW s \in JobScenes, RunInv(s), table' = table, questnum' = questnum, complete' = complete,
         spare2' \in [Jobs[s].johnsons -> 0 .. Len(table) - 1],
         leader' \in [Jobs[s].runners -> Jobs[s].runners \cup {None}],
         targets' \in SUBSET targets, left' = left, orphan' = orphan, moved' = moved,
         memory' \in [Jobs[s].johnsons -> SUBSET Jobs[s].runners],
         \A j \in Jobs[s].johnsons : \A r \in memory[j] : questnum[r] # 0 => r \in memory'[j]
  PROVE  RunInv(s)'
<1>1. RunTypes(s)'
  BY DEF RunInv, RunTypes
<1>2. Held(s)'
  BY DEF RunInv, Held
<1>3. ~moved => Owned' /\ Tallied(s)'
  BY DEF RunInv, Owned, Tallied
<1> QED BY <1>1, <1>2, <1>3 DEF RunInv

\* A runner is on no run any more.
LEMMA RunEnds ==
  ASSUME NEW s \in JobScenes, RunInv(s), NEW r \in Jobs[s].runners, ~moved, moved' = moved,
         table' = table, spare2' = spare2,
         questnum' = [questnum EXCEPT ![r] = 0], complete' = [complete EXCEPT ![r] = None],
         leader' \in [Jobs[s].runners -> Jobs[s].runners \cup {None}],
         targets' \in SUBSET targets, \A t \in targets' : t[1] = r => r \in left',
         \A x \in left : x = r \/ x \in left', \A x \in orphan : x = r \/ x \in orphan',
         memory' \in [Jobs[s].johnsons -> SUBSET Jobs[s].runners],
         \A j \in Jobs[s].johnsons : \A x \in memory[j] : x = r \/ x \in memory'[j]
  PROVE  RunInv(s)'
<1>1. /\ questnum \in [Jobs[s].runners -> 0 .. Len(table) - 1] /\ 0 \in 0 .. Len(table) - 1
      /\ questnum'[r] = 0 /\ \A x \in Jobs[s].runners : x # r => questnum'[x] = questnum[x] /\ complete'[x] = complete[x]
  BY DEF RunInv, RunTypes
<1>2. /\ questnum' \in [Jobs[s].runners -> 0 .. Len(table) - 1]
      /\ complete' \in [Jobs[s].runners ->
           {None} \cup UNION {[DOMAIN Jobs[s].goals[v] -> Nat] : v \in DOMAIN Jobs[s].goals}]
  BY <1>1 DEF RunInv, RunTypes
<1>3. RunTypes(s)'
  BY <1>2 DEF RunInv, RunTypes
<1>4. Held(s)'
  BY <1>1 DEF RunInv, Held
<1>5. Owned'
  <2> SUFFICES ASSUME NEW t \in targets', t[1] # r
               PROVE  t[1] \in left' \/ (questnum'[t[1]] # 0 /\ table[questnum'[t[1]] + 1] = t[2])
    BY DEF Owned
  <2>1. t \in targets /\ t[1] \in Jobs[s].runners
    BY DEF RunInv, RunTypes
  <2>2. t[1] \in left \/ (questnum[t[1]] # 0 /\ table[questnum[t[1]] + 1] = t[2])
    BY <2>1 DEF RunInv, Owned
  <2> QED BY <2>1, <2>2, <1>1
<1>6. Tallied(s)'
  BY <1>1 DEF RunInv, Tallied
<1> QED BY <1>3, <1>4, <1>5, <1>6 DEF RunInv

LEMMA handle_infoOffers ==
  ASSUME NEW s \in JobScenes, RunTypes(s), NEW j \in Jobs[s].johnsons, Run(s)!handle_info(j)
  PROVE  spare2' \in [Jobs[s].johnsons -> 0 .. Len(table) - 1]
<1>1. CASE spare2' = spare2
  BY <1>1 DEF RunTypes
<1>2. CASE \E n \in {spare2[j]} \cup Run(s)!new_quest(j, spare2[j]) : spare2' = [spare2 EXCEPT ![j] = n]
  <2>1. Run(s)!new_quest(j, spare2[j]) \in SUBSET (0 .. Len(table) - 1) /\ spare2[j] \in 0 .. Len(table) - 1
    BY Offered
  <2>2. PICK n \in 0 .. Len(table) - 1 : spare2' = [spare2 EXCEPT ![j] = n]
    BY <1>2, <2>1
  <2> QED BY <2>2, Offered
<1> QED BY <1>1, <1>2 DEF Run!handle_info

LEMMA IdleInv ==
  ASSUME NEW s \in JobScenes, RunInv(s), NEW j \in Jobs[s].johnsons, Run(s)!Idle(j) PROVE RunInv(s)'
<1>0. RunTypes(s)
  BY DEF RunInv
<1>1. spare2' \in [Jobs[s].johnsons -> 0 .. Len(table) - 1]
  <2>1. PICK n \in IF spare2[j] = 0 THEN Run(s)!new_quest(j, 0) ELSE {spare2[j]} :
          \/ \E m \in {n} \cup Run(s)!new_quest(j, n) : spare2' = [spare2 EXCEPT ![j] = m]
          \/ Run(s)!handle_info(j)
    BY DEF Run!Idle, Run!Offer
  <2>2. n \in 0 .. Len(table) - 1
    BY <1>0, <2>1, Offered
  <2>3. Run(s)!new_quest(j, n) \in SUBSET (0 .. Len(table) - 1)
    BY <1>0, Offered
  <2>4. ASSUME NEW m \in 0 .. Len(table) - 1, spare2' = [spare2 EXCEPT ![j] = m]
        PROVE  spare2' \in [Jobs[s].johnsons -> 0 .. Len(table) - 1]
    BY <1>0, <2>4, Offered
  <2> QED BY <1>0, <2>1, <2>2, <2>3, <2>4, handle_infoOffers
<1>2. /\ table' = table /\ memory' = memory /\ questnum' = questnum /\ complete' = complete
      /\ leader' = leader /\ targets' = targets /\ left' = left /\ orphan' = orphan /\ moved' = moved
  BY DEF Run!Idle
<1> QED BY <1>0, <1>1, <1>2, RunKept DEF RunTypes

\* A johnson forgets one player.
LEMMA Forgotten ==
  ASSUME NEW s \in JobScenes, RunInv(s), NEW j \in Jobs[s].johnsons, NEW r, Run(s)!Forget(j, r)
  PROVE  /\ memory' \in [Jobs[s].johnsons -> SUBSET Jobs[s].runners]
         /\ \A k \in Jobs[s].johnsons : \A x \in memory[k] : x = r \/ x \in memory'[k]
<1>1. memory' = [memory EXCEPT ![j] = memory[j] \ {r}]
  BY DEF Run!Forget
<1> QED BY <1>1 DEF RunInv, RunTypes

LEMMA end_questInv ==
  ASSUME NEW s \in JobScenes, RunInv(s), NEW r \in Jobs[s].runners, ~moved, moved' = moved,
         table' = table, spare2' = spare2, Run(s)!end_quest(r),
         leader' \in [Jobs[s].runners -> Jobs[s].runners \cup {None}],
         memory' \in [Jobs[s].johnsons -> SUBSET Jobs[s].runners],
         \A j \in Jobs[s].johnsons : \A x \in memory[j] : x = r \/ x \in memory'[j]
  PROVE  RunInv(s)'
<1>1. /\ questnum' = [questnum EXCEPT ![r] = 0] /\ complete' = [complete EXCEPT ![r] = None]
      /\ left' = left \ {r} /\ orphan' = orphan \ {r} /\ targets' = {t \in targets : t[1] # r}
  BY DEF Run!end_quest, Run!extract_quest_targets
<1>2. /\ targets' \in SUBSET targets /\ \A t \in targets' : t[1] = r => r \in left'
      /\ \A x \in left : x = r \/ x \in left'
      /\ \A x \in orphan : x = r \/ x \in orphan'
  BY <1>1
<1> QED BY <1>1, <1>2, RunEnds

LEMMA SayQuitInv ==
  ASSUME NEW s \in JobScenes, RunInv(s), ~moved,
         NEW j \in Jobs[s].johnsons, NEW r \in Jobs[s].runners, Run(s)!SayQuit(j, r)
  PROVE  RunInv(s)'
<1>1. /\ table' = table /\ spare2' = spare2 /\ leader' = leader /\ moved' = moved
      /\ Run(s)!end_quest(r) /\ Run(s)!Forget(j, r)
  BY DEF Run!SayQuit
<1> QED BY <1>1, Forgotten, end_questInv DEF RunInv, RunTypes

LEMMA SayDoneInv ==
  ASSUME NEW s \in JobScenes, RunInv(s), ~moved,
         NEW j \in Jobs[s].johnsons, NEW r \in Jobs[s].runners, Run(s)!SayDone(j, r)
  PROVE  RunInv(s)'
<1>1. /\ table' = table /\ spare2' = spare2 /\ leader' = leader /\ moved' = moved
      /\ Run(s)!reward(r) /\ Run(s)!Forget(j, r)
  BY DEF Run!SayDone
<1>2. CASE Run(s)!end_quest(r)
  BY <1>1, <1>2, Forgotten, end_questInv DEF RunInv, RunTypes
<1>3. CASE orphan' = orphan \cup {r} /\ UNCHANGED <<questnum, complete, targets, left>>
  <2>1. RunTypes(s)'
    BY <1>1, <1>3, Forgotten DEF RunInv, RunTypes
  <2>2. \A k \in Jobs[s].johnsons : \A x \in memory[k] : x = r \/ x \in memory'[k]
    BY <1>1, Forgotten
  <2>3. Held(s)'
    BY <1>3, <2>2 DEF RunInv, Held
  <2>4. Owned' /\ Tallied(s)'
    BY <1>1, <1>3 DEF RunInv, Owned, Tallied
  <2> QED BY <2>1, <2>3, <2>4 DEF RunInv
<1> QED BY <1>1, <1>2, <1>3 DEF Run!reward

LEMMA SayWorkInv ==
  ASSUME NEW s \in JobScenes, RunInv(s),
         NEW j \in Jobs[s].johnsons, NEW r \in Jobs[s].runners, Run(s)!SayWork(j, r)
  PROVE  RunInv(s)'
<1>1. /\ table' = table /\ spare2' = spare2 /\ questnum' = questnum /\ complete' = complete /\ leader' = leader
      /\ targets' = targets /\ left' = left /\ orphan' = orphan /\ moved' = moved /\ questnum[r] = 0
  BY DEF Run!SayWork, Run!OnRun
<1>2. CASE Run(s)!Forget(j, r)
  BY <1>1, <1>2, Forgotten, RunKept DEF RunInv, RunTypes
<1>3. CASE memory' = [memory EXCEPT ![j] = memory[j] \cup {r}]
  <2>1. memory' \in [Jobs[s].johnsons -> SUBSET Jobs[s].runners]
    BY <1>3 DEF RunInv, RunTypes
  <2>2. \A k \in Jobs[s].johnsons : \A x \in memory[k] : x \in memory'[k]
    BY <1>3 DEF RunInv, RunTypes
  <2> QED BY <1>1, <2>1, <2>2, RunKept DEF RunInv, RunTypes
<1> QED BY <1>2, <1>3 DEF Run!SayWork

LEMMA SayNoInv ==
  ASSUME NEW s \in JobScenes, RunInv(s),
         NEW j \in Jobs[s].johnsons, NEW r \in Jobs[s].runners, Run(s)!SayNo(j, r)
  PROVE  RunInv(s)'
<1>1. /\ table' = table /\ spare2' = spare2 /\ questnum' = questnum /\ complete' = complete /\ leader' = leader
      /\ targets' = targets /\ left' = left /\ orphan' = orphan /\ moved' = moved /\ questnum[r] = 0
      /\ Run(s)!Forget(j, r)
  BY DEF Run!SayNo, Run!OnRun
<1> QED BY <1>1, Forgotten, RunKept DEF RunInv, RunTypes

LEMMA SayYesInv ==
  ASSUME NEW s \in JobScenes, RunInv(s), ~moved,
         NEW j \in Jobs[s].johnsons, NEW r \in Jobs[s].runners, Run(s)!SayYes(j, r)
  PROVE  RunInv(s)'
<1> DEFINE v == table[spare2[j] + 1]
<1>1. /\ table' = table /\ memory' = memory /\ leader' = leader /\ orphan' = orphan /\ moved' = moved
      /\ questnum[r] = 0 /\ r \in memory[j]
      /\ questnum' = [questnum EXCEPT ![r] = spare2[j]]
      /\ complete' = [complete EXCEPT ![r] = [i \in DOMAIN Jobs[s].goals[v] |-> 0]]
      /\ left' = (IF spare2[j] = 0 THEN left \cup {r} ELSE left)
      /\ Run(s)!handle_info(j)
  BY DEF Run!SayYes, Run!OnRun, Run!JobAt
<1>2. \A t \in targets' : t \in targets \/ (t[1] = r /\ t[2] = v)
  <2>1. PICK loaded \in Run(s)!load_quest_targets(r, v) : targets' = targets \cup loaded
    BY DEF Run!SayYes, Run!JobAt
  <2> DEFINE of(load) == {<<r, v, i>> : i \in {k \in DOMAIN Jobs[s].goals[v] : Jobs[s].goals[v][k].load = load}}
  <2>2. PICK given \in SUBSET of("given") : loaded = of("placed") \cup of("follows") \cup given
    BY <2>1 DEF Run!load_quest_targets
  <2>3. \A load : \A t \in of(load) : t[1] = r /\ t[2] = v
    OBVIOUS
  <2> HIDE DEF of
  <2> QED BY <2>1, <2>2, <2>3
<1>0. RunTypes(s)
  BY DEF RunInv
<1>3. spare2[j] \in 0 .. Len(table) - 1 /\ Len(table) \in Nat
  BY <1>0 DEF RunTypes
<1>4. v \in DOMAIN Jobs[s].goals
  BY <1>0, <1>3 DEF RunTypes
<1>5. spare2' \in [Jobs[s].johnsons -> 0 .. Len(table) - 1]
  BY <1>0, <1>1, <1>3, handle_infoOffers
<1> HIDE DEF v
<1>6. [i \in DOMAIN Jobs[s].goals[v] |-> 0] \in [DOMAIN Jobs[s].goals[v] -> Nat]
  OBVIOUS
<1>7. /\ questnum' \in [Jobs[s].runners -> 0 .. Len(table) - 1]
      /\ questnum'[r] = spare2[j] /\ \A x \in Jobs[s].runners : x # r => questnum'[x] = questnum[x]
  BY <1>0, <1>1, <1>3 DEF RunTypes
<1>8. /\ complete' \in [Jobs[s].runners ->
           {None} \cup UNION {[DOMAIN Jobs[s].goals[w] -> Nat] : w \in DOMAIN Jobs[s].goals}]
      /\ complete'[r] \in [DOMAIN Jobs[s].goals[v] -> Nat]
      /\ \A x \in Jobs[s].runners : x # r => complete'[x] = complete[x]
  BY <1>0, <1>1, <1>3, <1>4, <1>6 DEF RunTypes
<1>9. RunTypes(s)'
  BY <1>0, <1>1, <1>2, <1>3, <1>5, <1>7, <1>8 DEF RunTypes
<1>10. Held(s)'
  BY <1>1, <1>7 DEF RunInv, Held
<1>11. Owned'
  <2> SUFFICES ASSUME NEW t \in targets'
               PROVE  t[1] \in left' \/ (questnum'[t[1]] # 0 /\ table[questnum'[t[1]] + 1] = t[2])
    BY <1>1 DEF Owned
  <2>1. CASE t[1] = r /\ t[2] = v
    BY <2>1, <1>1, <1>7 DEF v
  <2>2. CASE t \in targets
    <3>1. t[1] \in left \/ (questnum[t[1]] # 0 /\ table[questnum[t[1]] + 1] = t[2])
      BY <2>2 DEF RunInv, Owned
    <3>2. t[1] \in Jobs[s].runners
      BY <2>2, <1>0 DEF RunTypes
    <3> QED BY <3>1, <3>2, <1>1, <1>7
  <2> QED BY <2>1, <2>2, <1>2
<1>12. Tallied(s)'
  <2> SUFFICES ASSUME NEW x \in Jobs[s].runners, questnum'[x] # 0
               PROVE  complete'[x] \in [DOMAIN Jobs[s].goals[table[questnum'[x] + 1]] -> Nat]
    BY <1>1 DEF Tallied
  <2>1. CASE x = r
    BY <2>1, <1>7, <1>8 DEF v
  <2>2. CASE x # r
    BY <2>2, <1>7, <1>8 DEF RunInv, Tallied
  <2> QED BY <2>1, <2>2
<1> QED BY <1>9, <1>10, <1>11, <1>12 DEF RunInv

\* A deed is counted for a runner, in the array of his run.
LEMMA DeedInv ==
  ASSUME NEW s \in JobScenes, RunInv(s), ~moved,
         NEW r \in Jobs[s].runners, NEW goal, NEW counts, Run(s)!Deed(r, goal, counts)
  PROVE  RunInv(s)'
<1> DEFINE w == IF questnum[r] # 0 THEN r ELSE leader[r]
<1>0. RunTypes(s)
  BY DEF RunInv
<1>1. /\ table' = table /\ spare2' = spare2 /\ memory' = memory /\ questnum' = questnum /\ leader' = leader
      /\ left' = left /\ orphan' = orphan /\ moved' = moved /\ w # None /\ questnum[w] # 0
  BY DEF Run!Deed, Run!Credited, Run!OnRun
<1>2. w \in Jobs[s].runners
  BY <1>0, <1>1 DEF RunTypes
<1>3. PICK i \in DOMAIN complete[w] :
        /\ complete' = [complete EXCEPT ![w][i] = IF counts THEN @ + 1 ELSE 1]
        /\ targets' \in SUBSET targets
  BY DEF Run!Deed, Run!Credited, Run!OnRun, Run!Lost
<1>4. /\ table[questnum[w] + 1] \in DOMAIN Jobs[s].goals
      /\ complete[w] \in [DOMAIN Jobs[s].goals[table[questnum[w] + 1]] -> Nat]
  <2>1. w \in Jobs[s].runners /\ questnum[w] \in 0 .. Len(table) - 1
    BY <1>0, <1>2 DEF RunTypes
  <2> HIDE DEF w
  <2>2. table[questnum[w] + 1] \in DOMAIN Jobs[s].goals
    BY <1>0, <2>1 DEF RunTypes
  <2> QED BY <1>1, <2>1, <2>2 DEF RunInv, Tallied
<1> HIDE DEF w
<1>5. [complete[w] EXCEPT ![i] = IF counts THEN @ + 1 ELSE 1] \in [DOMAIN Jobs[s].goals[table[questnum[w] + 1]] -> Nat]
  BY <1>3, <1>4
<1>6. complete' = [complete EXCEPT ![w] = [complete[w] EXCEPT ![i] = IF counts THEN @ + 1 ELSE 1]]
  BY <1>3
<1>7. /\ complete' \in [Jobs[s].runners ->
           {None} \cup UNION {[DOMAIN Jobs[s].goals[v] -> Nat] : v \in DOMAIN Jobs[s].goals}]
      /\ complete'[w] \in [DOMAIN Jobs[s].goals[table[questnum[w] + 1]] -> Nat]
      /\ \A x \in Jobs[s].runners : x # w => complete'[x] = complete[x]
  <2> DEFINE U == {None} \cup UNION {[DOMAIN Jobs[s].goals[v] -> Nat] : v \in DOMAIN Jobs[s].goals}
             n == [complete[w] EXCEPT ![i] = IF counts THEN @ + 1 ELSE 1]
  <2>1. complete \in [Jobs[s].runners -> U]
    BY <1>0 DEF RunTypes
  <2>2. n \in U
    BY <1>4, <1>5
  <2>3. complete' = [complete EXCEPT ![w] = n]
    BY <1>6
  <2>4. n \in [DOMAIN Jobs[s].goals[table[questnum[w] + 1]] -> Nat]
    BY <1>5
  <2> HIDE DEF n, U
  <2>5. complete' \in [Jobs[s].runners -> U] /\ complete'[w] = n /\ \A x \in Jobs[s].runners : x # w => complete'[x] = complete[x]
    BY <1>2, <2>1, <2>2, <2>3
  <2> QED BY <2>4, <2>5 DEF U
<1>8. RunTypes(s)'
  BY <1>0, <1>1, <1>3, <1>7 DEF RunTypes
<1>9. Held(s)'
  BY <1>1 DEF RunInv, Held
<1>10. Owned'
  BY <1>1, <1>3 DEF RunInv, Owned
<1>11. Tallied(s)'
  BY <1>1, <1>7 DEF RunInv, Tallied
<1> QED BY <1>8, <1>9, <1>10, <1>11 DEF RunInv

\* Perish, Walk, Enter and Group.
LEMMA ElsewhereInv ==
  ASSUME NEW s \in JobScenes, RunInv(s),
         \/ Run(s)!Perish
         \/ \E r \in Jobs[s].runners :
              \/ Run(s)!Walk(r) \/ Run(s)!Enter(r)
              \/ \E l \in Jobs[s].runners : Run(s)!Group(r, l)
  PROVE  RunInv(s)'
<1>0. RunTypes(s)
  BY DEF RunInv
<1>1. /\ table' = table /\ spare2' = spare2 /\ memory' = memory /\ questnum' = questnum /\ complete' = complete
      /\ left' = left /\ orphan' = orphan /\ moved' = moved /\ targets' \in SUBSET targets
  BY DEF Run!Perish, Run!Walk, Run!Enter, Run!Group
<1>2. leader' \in [Jobs[s].runners -> Jobs[s].runners \cup {None}]
  <2>1. CASE leader' = leader
    BY <2>1, <1>0 DEF RunTypes
  <2>2. CASE \E r, l \in Jobs[s].runners : leader' = [leader EXCEPT ![r] = IF leader[r] = None THEN l ELSE None]
    BY <2>2, <1>0 DEF RunTypes
  <2> QED BY <2>1, <2>2 DEF Run!Perish, Run!Walk, Run!Enter, Run!Group
<1> QED BY <1>0, <1>1, <1>2, RunKept DEF RunTypes

\* Who leaves the game is in no group, and leads none.
LEMMA Departed ==
  ASSUME NEW s \in JobScenes, RunTypes(s), NEW r \in Jobs[s].runners, Run(s)!Departs(r)
  PROVE  /\ table' = table /\ spare2' = spare2 /\ memory' = memory /\ moved' = moved
         /\ leader' \in [Jobs[s].runners -> Jobs[s].runners \cup {None}]
<1>1. /\ table' = table /\ spare2' = spare2 /\ memory' = memory /\ moved' = moved
      /\ leader' = [f \in Jobs[s].runners |-> IF f = r \/ leader[f] = r THEN None ELSE leader[f]]
  BY DEF Run!Departs
<1> QED BY <1>1 DEF RunTypes

LEMMA DoQuitInv ==
  ASSUME NEW s \in JobScenes, RunInv(s), ~moved, NEW r \in Jobs[s].runners, Run(s)!DoQuit(r)
  PROVE  RunInv(s)'
<1>0. RunTypes(s) /\ Run(s)!Departs(r)
  BY DEF RunInv, Run!DoQuit
<1>1. /\ table' = table /\ spare2' = spare2 /\ memory' = memory /\ moved' = moved
      /\ leader' \in [Jobs[s].runners -> Jobs[s].runners \cup {None}]
  BY <1>0, Departed
<1>2. CASE Run(s)!end_quest(r)
  BY <1>0, <1>1, <1>2, end_questInv DEF RunTypes
<1>3. CASE UNCHANGED <<questnum, complete, targets, left, orphan>>
  BY <1>0, <1>1, <1>3, RunKept DEF RunTypes
<1> QED BY <1>2, <1>3 DEF Run!DoQuit

LEMMA RentInv ==
  ASSUME NEW s \in JobScenes, RunInv(s), ~moved, NEW r \in Jobs[s].runners, Run(s)!Rent(r)
  PROVE  RunInv(s)'
<1>0. RunTypes(s) /\ Run(s)!Departs(r)
  BY DEF RunInv, Run!Rent
<1>1. /\ table' = table /\ spare2' = spare2 /\ memory' = memory /\ moved' = moved
      /\ leader' \in [Jobs[s].runners -> Jobs[s].runners \cup {None}]
  BY <1>0, Departed
<1>2. /\ questnum' = [questnum EXCEPT ![r] = 0] /\ complete' = [complete EXCEPT ![r] = None]
      /\ left' = (IF questnum[r] # 0 THEN left \cup {r} ELSE left)
      /\ orphan' = orphan \ {r} /\ targets' = targets
  BY DEF Run!Rent, Run!OnRun
<1>3. \A t \in targets' : t[1] = r => r \in left'
  BY <1>2 DEF RunInv, Owned
<1>4. /\ targets' \in SUBSET targets /\ \A x \in left : x = r \/ x \in left'
      /\ \A x \in orphan : x = r \/ x \in orphan'
      /\ memory' \in [Jobs[s].johnsons -> SUBSET Jobs[s].runners]
      /\ \A j \in Jobs[s].johnsons : \A x \in memory[j] : x = r \/ x \in memory'[j]
  BY <1>0, <1>1, <1>2 DEF RunTypes
<1> QED BY <1>1, <1>2, <1>3, <1>4, RunEnds

\* The new johnson remembers nobody.
LEMMA ReplaceInv ==
  ASSUME NEW s \in JobScenes, RunInv(s), NEW j \in Jobs[s].johnsons, Run(s)!Replace(j) PROVE RunInv(s)'
<1>0. RunTypes(s)
  BY DEF RunInv
<1>1. /\ table' = table /\ questnum' = questnum /\ complete' = complete /\ leader' = leader
      /\ targets' = targets /\ left' = left /\ moved' = moved
      /\ spare2' = [spare2 EXCEPT ![j] = 0] /\ memory' = [memory EXCEPT ![j] = {}]
      /\ orphan' = orphan \cup {r \in memory[j] : questnum[r] # 0 /\ \A k \in Jobs[s].johnsons \ {j} : r \notin memory[k]}
  BY DEF Run!Replace, Run!Offer, Run!OnRun
<1>2. spare2' \in [Jobs[s].johnsons -> 0 .. Len(table) - 1] /\ memory' \in [Jobs[s].johnsons -> SUBSET Jobs[s].runners]
  BY <1>0, <1>1, Offered DEF RunTypes
<1>3. RunTypes(s)'
  BY <1>0, <1>1, <1>2 DEF RunTypes
<1>4. Held(s)'
  <2> SUFFICES ASSUME NEW r \in Jobs[s].runners, questnum[r] # 0, r \notin orphan'
               PROVE  \E k \in Jobs[s].johnsons : r \in memory'[k]
    BY <1>1 DEF Held
  <2>1. PICK k \in Jobs[s].johnsons : r \in memory[k]
    BY <1>1 DEF RunInv, Held
  <2>2. \E m \in Jobs[s].johnsons \ {j} : r \in memory[m]
    BY <1>1, <2>1
  <2> QED BY <1>0, <1>1, <2>2 DEF RunTypes
<1>5. ~moved => Owned' /\ Tallied(s)'
  BY <1>1 DEF RunInv, Owned, Tallied
<1> QED BY <1>1, <1>3, <1>4, <1>5 DEF RunInv

\* A place for a quest is within the table.
LEMMA Place ==
  ASSUME NEW S, NEW q \in Seq(S), NEW v
  PROVE  LET at == Cardinality({w \in Range(q) : w < v}) IN at \in Nat /\ at <= Len(q)
<1>0. Len(q) \in Nat /\ 1 \in Int
  OBVIOUS
<1>1. IsFiniteSet(1 .. Len(q)) /\ Cardinality(1 .. Len(q)) = Len(q)
  BY <1>0, FS_Interval
<1>a. q \in Surjection(1 .. Len(q), Range(q))
  BY DEF Surjection, Range
<1>2. IsFiniteSet(Range(q)) /\ Cardinality(Range(q)) <= Cardinality(1 .. Len(q))
  BY <1>1, <1>a, FS_Surjection
<1>4. /\ IsFiniteSet({w \in Range(q) : w < v})
      /\ Cardinality({w \in Range(q) : w < v}) <= Cardinality(Range(q))
  BY <1>2, FS_Subset
<1>5. Cardinality({w \in Range(q) : w < v}) \in Nat /\ Cardinality(Range(q)) \in Nat
  BY <1>2, <1>4, FS_CardinalityType
<1> QED BY <1>0, <1>1, <1>2, <1>4, <1>5

Insertion(q, at, v) == SubSeq(q, 1, at) \o <<v>> \o SubSeq(q, at + 1, Len(q))

\* What is inserted moves what follows only.
LEMMA Inserted ==
  ASSUME NEW S, NEW q \in Seq(S), NEW v \in S, NEW at \in Nat, at <= Len(q)
  PROVE  /\ Insertion(q, at, v) \in Seq(S) /\ Len(Insertion(q, at, v)) = Len(q) + 1
         /\ \A n \in 1 .. at : Insertion(q, at, v)[n] = q[n]
<1>1. SubSeq(q, 1, at) \in Seq(S) /\ Len(SubSeq(q, 1, at)) = at /\ \A n \in 1 .. at : SubSeq(q, 1, at)[n] = q[n]
  OBVIOUS
<1>2. SubSeq(q, at + 1, Len(q)) \in Seq(S) /\ Len(SubSeq(q, at + 1, Len(q))) = Len(q) - at
  OBVIOUS
<1>3. <<v>> \in Seq(S) /\ Len(<<v>>) = 1
  OBVIOUS
<1> DEFINE a == SubSeq(q, 1, at) b == <<v>> c == SubSeq(q, at + 1, Len(q))
<1> HIDE DEF a, b, c
<1>4. a \in Seq(S) /\ b \in Seq(S) /\ c \in Seq(S) /\ Len(a) = at /\ Len(b) = 1 /\ Len(c) = Len(q) - at
  BY <1>1, <1>2, <1>3 DEF a, b, c
<1>5. a \o b \in Seq(S) /\ Len(a \o b) = at + 1 /\ \A n \in 1 .. at : (a \o b)[n] = a[n]
  <2>1. /\ a \o b \in Seq(S) /\ Len(a \o b) = Len(a) + Len(b)
        /\ \A n \in 1 .. Len(a) + Len(b) : (a \o b)[n] = IF n <= Len(a) THEN a[n] ELSE b[n - Len(a)]
    BY <1>4, ConcatProperties
  <2>2. \A n \in 1 .. at : n \in 1 .. Len(a) + Len(b) /\ n <= Len(a)
    BY <1>4
  <2> QED BY <1>4, <2>1, <2>2
<1>6. (a \o b) \o c \in Seq(S) /\ Len((a \o b) \o c) = Len(q) + 1 /\ \A n \in 1 .. at : ((a \o b) \o c)[n] = (a \o b)[n]
  BY <1>4, <1>5, ConcatProperties
<1>7. \A n \in 1 .. at : ((a \o b) \o c)[n] = q[n]
  BY <1>1, <1>5, <1>6 DEF a
<1>8. Insertion(q, at, v) = (a \o b) \o c
  BY DEF a, b, c, Insertion
<1> QED BY <1>6, <1>7, <1>8

LEMMA InFront ==
  ASSUME NEW s \in JobScenes, NEW q, NEW v
  PROVE  Run(s)!Cardinality({w \in Run(s)!Range(q) : w < v}) = Cardinality({w \in Range(q) : w < v})
<1>1. Run(s)!Range(q) = Range(q)
  BY DEF Run!Range, Range
<1>2. \A S : Run(s)!Cardinality(S) = Cardinality(S)
  BY DEF Run!Cardinality, Cardinality
<1> QED BY <1>1, <1>2

\* A quest behind all that are run, or one that ends the model.
LEMMA boot_one_questInv ==
  ASSUME NEW s \in JobScenes, RunInv(s), ~moved, NEW v \in DOMAIN Jobs[s].goals, Run(s)!boot_one_quest(v)
  PROVE  RunInv(s)'
<1> DEFINE at == Cardinality({w \in Range(table) : w < v})
<1>0. RunTypes(s)
  BY DEF RunInv
<1>1. /\ spare2' = spare2 /\ memory' = memory /\ questnum' = questnum /\ complete' = complete
      /\ leader' = leader /\ targets' = targets /\ left' = left /\ orphan' = orphan
      /\ table' = SubSeq(table, 1, at) \o <<v>> \o SubSeq(table, at + 1, Len(table))
      /\ moved' = \E r \in Jobs[s].runners : questnum[r] # 0 /\ questnum[r] >= at
  BY InFront DEF Run!boot_one_quest, Run!OnRun
<1>2. at \in Nat /\ at <= Len(table)
  BY <1>0, Place DEF RunTypes
<1> HIDE DEF at
<1>3. /\ table' \in Seq(DOMAIN Jobs[s].goals) /\ Len(table') = Len(table) + 1
      /\ \A n \in 1 .. at : table'[n] = table[n]
  <2>1. table \in Seq(DOMAIN Jobs[s].goals)
    BY <1>0 DEF RunTypes
  <2>2. /\ Insertion(table, at, v) \in Seq(DOMAIN Jobs[s].goals) /\ Len(Insertion(table, at, v)) = Len(table) + 1
        /\ \A n \in 1 .. at : Insertion(table, at, v)[n] = table[n]
    <3>1. v \in DOMAIN Jobs[s].goals
      OBVIOUS
    <3> QED BY <1>2, <2>1, <3>1, Inserted, Zenon
  <2>3. table' = Insertion(table, at, v)
    BY <1>1 DEF Insertion
  <2> QED BY <2>2, <2>3
<1>4. 0 .. Len(table) - 1 \in SUBSET (0 .. Len(table') - 1)
  BY <1>0, <1>3 DEF RunTypes
<1>5. RunTypes(s)'
  <2>1. /\ spare2' \in [Jobs[s].johnsons -> 0 .. Len(table') - 1]
        /\ questnum' \in [Jobs[s].runners -> 0 .. Len(table') - 1]
    BY <1>0, <1>1, <1>4 DEF RunTypes
  <2>2. Len(table') > 0
    BY <1>0, <1>3 DEF RunTypes
  <2> QED BY <1>0, <1>1, <1>3, <2>1, <2>2 DEF RunTypes
<1>6. Held(s)'
  BY <1>1 DEF RunInv, Held
<1>7. ASSUME ~moved' PROVE Owned' /\ Tallied(s)'
  <2>1. \A r \in Jobs[s].runners : questnum[r] # 0 => table'[questnum[r] + 1] = table[questnum[r] + 1]
    <3> SUFFICES ASSUME NEW r \in Jobs[s].runners, questnum[r] # 0
                 PROVE  table'[questnum[r] + 1] = table[questnum[r] + 1]
      OBVIOUS
    <3>0. questnum \in [Jobs[s].runners -> 0 .. Len(table) - 1] /\ Len(table) \in Nat
      BY <1>0 DEF RunTypes
    <3>1. questnum[r] \in Nat /\ ~(questnum[r] >= at)
      <4>1. ~(questnum[r] >= at)
        BY <1>1, <1>7, Zenon
      <4> QED BY <3>0, <4>1
    <3>2. questnum[r] + 1 \in 1 .. at
      BY <1>2, <3>1
    <3> QED BY <1>3, <3>2
  <2>2. Owned'
    <3>1. targets' = targets /\ questnum' = questnum /\ left' = left
      BY <1>1
    <3>2. Owned /\ \A t \in targets : t[1] \in Jobs[s].runners
      BY <1>0 DEF RunInv, RunTypes
    <3> QED BY <2>1, <3>1, <3>2 DEF Owned
  <2>3. Tallied(s)'
    BY <1>1, <2>1 DEF RunInv, Tallied
  <2> QED BY <2>2, <2>3
<1> QED BY <1>5, <1>6, <1>7 DEF RunInv

LEMMA reboot_questInv ==
  ASSUME NEW s \in JobScenes, RunInv(s), NEW v, Run(s)!reboot_quest(v) PROVE RunInv(s)'
<1>1. /\ table' = table /\ spare2' = spare2 /\ memory' = memory /\ questnum' = questnum /\ complete' = complete
      /\ leader' = leader /\ targets' = targets /\ left' = left /\ orphan' = orphan /\ moved' = TRUE
  BY DEF Run!reboot_quest
<1> QED BY <1>1 DEF RunInv, RunTypes, Held

LEMMA DeedsInv ==
  ASSUME NEW s \in JobScenes, RunInv(s), ~moved, NEW r \in Jobs[s].runners, Run(s)!Deeds(r) PROVE RunInv(s)'
<1>1. \E goal \in {"kill", "destroy", "carry", "escort", "bring"} : \E counts \in BOOLEAN : Run(s)!Deed(r, goal, counts)
  BY DEF Run!Deeds, Run!check_quest_kill, Run!check_quest_destroy, Run!check_quest_drop, Run!check_quest_destination,
         Run!check_quest_delivery
<1> QED BY <1>1, DeedInv

LEMMA johnsonInv ==
  ASSUME NEW s \in JobScenes, RunInv(s), ~moved, NEW j \in Jobs[s].johnsons, Run(s)!johnson(j) PROVE RunInv(s)'
<1>1. \/ Run(s)!Idle(j)
      \/ \E r \in Jobs[s].runners :
           Run(s)!SayQuit(j, r) \/ Run(s)!SayDone(j, r) \/ Run(s)!SayWork(j, r) \/ Run(s)!SayYes(j, r) \/ Run(s)!SayNo(j, r)
  BY DEF Run!johnson
<1> QED BY <1>1, IdleInv, SayQuitInv, SayDoneInv, SayWorkInv, SayYesInv, SayNoInv

LEMMA RunInvNext ==
  ASSUME NEW s \in JobScenes, RunInv(s), Run(s)!Next PROVE RunInv(s)'
<1>1. CASE ~moved /\ Run(s)!Runs
  <2>1. CASE \E j \in Jobs[s].johnsons : Run(s)!johnson(j) \/ Run(s)!Replace(j)
    BY <1>1, <2>1, johnsonInv, ReplaceInv
  <2>2. CASE \E r \in Jobs[s].runners : Run(s)!Deeds(r) \/ Run(s)!DoQuit(r) \/ Run(s)!Rent(r)
    BY <1>1, <2>2, DeedsInv, DoQuitInv, RentInv
  <2>3. CASE \/ Run(s)!Perish
             \/ \E r \in Jobs[s].runners :
                  \/ Run(s)!Walk(r) \/ Run(s)!Enter(r)
                  \/ \E l \in Jobs[s].runners : Run(s)!Group(r, l)
    BY <2>3, ElsewhereInv
  <2>4. CASE \E v \in DOMAIN Jobs[s].goals : Run(s)!boot_one_quest(v) \/ Run(s)!reboot_quest(v)
    BY <1>1, <2>4, boot_one_questInv, reboot_questInv
  <2> QED BY <1>1, <2>1, <2>2, <2>3, <2>4 DEF Run!Runs
<1>2. CASE UNCHANGED Run(s)!vars
  BY <1>2 DEF Run!vars, RunInv, RunTypes, Held, Owned, Tallied
<1> QED BY <1>1, <1>2 DEF Run!Next

\* What the invariant is for.
LEMMA RunInvSound ==
  ASSUME NEW s \in JobScenes, RunInv(s) PROVE Run(s)!RunsSound
<1>0. RunTypes(s)
  BY DEF RunInv
<1>1. Run(s)!TargetsOwned
  BY DEF RunInv, Owned, Run!TargetsOwned, Run!OnRun, Run!JobOf, Run!JobAt
<1>2. Run(s)!Discharged
  BY DEF RunInv, Held, Run!Discharged, Run!OnRun
<1>3. ASSUME ~moved, NEW r \in Jobs[s].runners, questnum[r] # 0
      PROVE  complete[r] # None /\ DOMAIN complete[r] = DOMAIN Jobs[s].goals[table[questnum[r] + 1]]
  <2>1. complete[r] \in [DOMAIN Jobs[s].goals[table[questnum[r] + 1]] -> Nat]
    BY <1>3 DEF RunInv, Tallied
  <2>2. table[questnum[r] + 1] \in DOMAIN Jobs[s].goals
    BY <1>0, <1>3 DEF RunTypes
  <2>3. None \notin [DOMAIN Jobs[s].goals[table[questnum[r] + 1]] -> Nat]
    BY <2>2, RunsAssumption DEF Run!QuestsAssumption
  <2> QED BY <2>1, <2>3
<1>4. Run(s)!CountsFit
  BY <1>3 DEF Run!CountsFit, Run!OnRun, Run!JobOf, Run!JobAt
<1> QED BY <1>1, <1>2, <1>4 DEF Run!RunsSound

\* In every scene with johnsons, for whatever quests: nothing of a run outlives it unless
\* the run was lost, whoever is on one can end it unless the johnson died or the quest pays
\* nothing, and deeds are counted in an array as long as the run has objectives.
THEOREM RunsAreSound == MCSpec => []RunsSound
<1> DEFINE Inv == \A s \in JobScenes : scene = s => RunInv(s)
<1>1. MCInit => Inv
  <2> SUFFICES ASSUME MCInit, NEW s \in JobScenes, scene = s PROVE RunInv(s)
    OBVIOUS
  <2>1. Run(s)!Init
    BY DEF MCInit, Shows
  <2> QED BY <2>1, RunInit
<1>2. Inv /\ [MCNext]_<<scene, vars, creating, posting, running, phoning>> => Inv'
  <2> SUFFICES ASSUME Inv, [MCNext]_<<scene, vars, creating, posting, running, phoning>>,
                      NEW s \in JobScenes, scene' = s
               PROVE  RunInv(s)'
    OBVIOUS
  <2>1. scene' = scene /\ (Run(s)!Next \/ UNCHANGED running)
    BY DEF MCNext, Edits, Creates, Posts, Works, Rings
  <2>2. RunInv(s)
    BY <2>1
  <2>3. CASE UNCHANGED running
    BY <2>2, <2>3 DEF running, RunInv, RunTypes, Held, Owned, Tallied
  <2> QED BY <2>1, <2>2, <2>3, RunInvNext
<1>3. Inv => RunsSound
  BY RunInvSound DEF RunsSound
<1> QED BY <1>1, <1>2, <1>3, PTL DEF MCSpec

-----------------------------------------------------------------------------
(* The boards.                                                              *)

\* Of a state t and of where its writers are at.
BoardTypes(s, t, ws) ==
  /\ t \in [index : [Post(s)!Board -> Seq(Post(s)!Entry)],
            text : [Post(s)!Slots -> Posters[s].ids \cup {0}],
            taken : SUBSET Post(s)!Slots,
            file : [Post(s)!Board -> Seq([entry : Post(s)!Entry, text : Posters[s].ids \cup {0}])],
            spoilt : BOOLEAN]
  /\ ws \in [Posters[s].writers -> {None} \cup [board : Post(s)!Board, slot : Post(s)!Slots]]
  /\ \A b \in Post(s)!Board : Len(t.index[b]) <= MaxMessages /\ Len(t.file[b]) <= MaxMessages

\* OneAuthor.
Alone(s, t, ws) ==
  \A d \in Posters[s].writers : ws[d] # None =>
    /\ ws[d].slot \in t.taken
    /\ \A e \in Posters[s].writers \ {d} : ws[e] # None => ws[e].slot # ws[d].slot

\* A message has a slot of its own, with its text once that was ended; what is free is empty.
Placed(s, t) ==
  /\ \A b \in Post(s)!Board : \A i \in DOMAIN t.index[b] :
       /\ t.index[b][i].slot \in t.taken /\ t.text[t.index[b][i].slot] \in {0, t.index[b][i].id}
       /\ t.index[b][i].done => t.text[t.index[b][i].slot] = t.index[b][i].id
  /\ \A b, c \in Post(s)!Board : \A i \in DOMAIN t.index[b] : \A j \in DOMAIN t.index[c] :
       t.index[b][i].slot = t.index[c][j].slot => b = c /\ i = j
  /\ \A slot \in Post(s)!Slots : slot \notin t.taken => t.text[slot] = 0

\* The message of a writer is on the board he is at, and nowhere else.
AtDesk(s, t, ws) ==
  \A d \in Posters[s].writers : ws[d] # None =>
    \A b \in Post(s)!Board : \A i \in DOMAIN t.index[b] : t.index[b][i].slot = ws[d].slot => b = ws[d].board

\* PostsKept, of one board.
Listed(t, b) == \A i \in DOMAIN t.file[b] : \E j \in DOMAIN t.index[b] : t.index[b][j].id = t.file[b][i].entry.id
FileBacked(t, b) ==
  /\ \A i \in DOMAIN t.file[b] : t.file[b][i].text \in {0, t.file[b][i].entry.id}
  /\ \A i \in DOMAIN t.index[b] : t.index[b][i].done =>
       \E j \in DOMAIN t.file[b] : t.file[b][j].entry.id = t.index[b][i].id /\ t.file[b][j].text = t.index[b][i].id

BoardGood(s, t, ws) ==
  /\ BoardTypes(s, t, ws) /\ Alone(s, t, ws)
  /\ \A b \in Post(s)!Board : Listed(t, b)
  /\ ~t.spoilt => Placed(s, t) /\ AtDesk(s, t, ws) /\ \A b \in Post(s)!Board : FileBacked(t, b)

LEMMA SlotFacts ==
  ASSUME NEW s \in BoardScenes
  PROVE  /\ Boards \in Nat /\ MaxMessages \in Nat /\ Posters[s].ids \subseteq Nat \ {0}
         /\ Post(s)!Slots \subseteq Nat \ {0} /\ -1 \notin Post(s)!Slots /\ 0 \notin Posters[s].ids
<1>1. Boards \in Nat /\ MaxMessages \in Nat /\ Spare \in Nat /\ Posters[s].ids \subseteq Nat \ {0}
  BY PostsAssumption DEF Post!BoardsAssumption
<1> QED BY <1>1 DEF Post!Slots

\* The smallest of a set of numbers is one of them.
LEMMA Smallest ==
  ASSUME NEW s \in BoardScenes, NEW S \in SUBSET Nat, S # {} PROVE Post(s)!Min(S) \in S
<1>1. PICK x \in S : \A y \in S : ~ (<<y, x>> \in OpToRel(<, Nat))
  BY NatLessThanWellFounded, WFMin
<1>2. \A y \in S : ~ (y < x)
  BY <1>1, Zenon DEF OpToRel
<1>3. \A y \in S : x <= y
  BY <1>2
<1> QED BY <1>3 DEF Post!Min

\* What follows what is taken out moves up.
LEMMA MovedUp ==
  ASSUME NEW S, NEW q \in Seq(S), NEW k \in DOMAIN q
  PROVE  LET t == SubSeq(q, 1, k - 1) \o SubSeq(q, k + 1, Len(q)) IN
         /\ t \in Seq(S) /\ Len(t) = Len(q) - 1 /\ DOMAIN t = 1 .. Len(q) - 1
         /\ \A i \in DOMAIN t : t[i] = (IF i < k THEN q[i] ELSE q[i + 1])
<1> DEFINE a == SubSeq(q, 1, k - 1)
           b == SubSeq(q, k + 1, Len(q))
           t == a \o b
<1>1. k \in 1 .. Len(q) /\ Len(q) \in Nat /\ DOMAIN q = 1 .. Len(q)
  OBVIOUS
<1>2. a \in Seq(S) /\ Len(a) = k - 1 /\ \A i \in 1 .. k - 1 : a[i] = q[i]
  BY <1>1
<1>3. b \in Seq(S) /\ Len(b) = Len(q) - k /\ \A i \in 1 .. Len(q) - k : b[i] = q[k + i]
  BY <1>1
<1> HIDE DEF a, b
<1>4. /\ t \in Seq(S) /\ Len(t) = Len(a) + Len(b)
      /\ \A i \in 1 .. Len(a) + Len(b) : t[i] = IF i <= Len(a) THEN a[i] ELSE b[i - Len(a)]
  BY <1>2, <1>3, ConcatProperties
<1> HIDE DEF t
<1>5. Len(t) = Len(q) - 1 /\ DOMAIN t = 1 .. Len(q) - 1
  BY <1>1, <1>2, <1>3, <1>4
<1>6. ASSUME NEW i \in 1 .. Len(q) - 1 PROVE t[i] = (IF i < k THEN q[i] ELSE q[i + 1])
  <2>1. t[i] = IF i <= k - 1 THEN a[i] ELSE b[i - (k - 1)]
    BY <1>1, <1>2, <1>3, <1>4
  <2>2. CASE i < k
    BY <1>1, <1>2, <2>1, <2>2
  <2>3. CASE i >= k
    <3>1. i - (k - 1) \in 1 .. Len(q) - k /\ k + (i - (k - 1)) = i + 1 /\ ~(i <= k - 1)
      BY <1>1, <2>3
    <3> QED BY <1>3, <2>1, <2>3, <3>1
  <2> QED BY <1>1, <2>2, <2>3
<1> QED BY <1>4, <1>5, <1>6 DEF t, a, b

LEMMA BoardInit == ASSUME NEW s \in BoardScenes, Post(s)!Init PROVE BoardGood(s, Post(s)!Tables, writes)
<1>1. /\ index = [b \in Post(s)!Board |-> <<>>] /\ text = [x \in Post(s)!Slots |-> 0] /\ taken = {}
      /\ writes = [d \in Posters[s].writers |-> None] /\ file = [b \in Post(s)!Board |-> <<>>] /\ spoilt = FALSE
  BY DEF Post!Init
<1> DEFINE t == Post(s)!Tables
<1>2. t = [index |-> index, text |-> text, taken |-> taken, file |-> file, spoilt |-> spoilt]
  BY DEF Post!Tables
<1>3. t.index = index /\ t.text = text /\ t.taken = taken /\ t.file = file /\ t.spoilt = spoilt
  BY <1>2
<1>4. /\ index \in [Post(s)!Board -> Seq(Post(s)!Entry)]
      /\ file \in [Post(s)!Board -> Seq([entry : Post(s)!Entry, text : Posters[s].ids \cup {0}])]
  BY <1>1
<1> HIDE DEF t
<1>5. BoardTypes(s, t, writes)
  <2>1. \A b \in Post(s)!Board : Len(t.index[b]) <= MaxMessages /\ Len(t.file[b]) <= MaxMessages
    BY <1>1, <1>3, SlotFacts
  <2>2. t \in [index : [Post(s)!Board -> Seq(Post(s)!Entry)],
               text : [Post(s)!Slots -> Posters[s].ids \cup {0}],
               taken : SUBSET Post(s)!Slots,
               file : [Post(s)!Board -> Seq([entry : Post(s)!Entry, text : Posters[s].ids \cup {0}])],
               spoilt : BOOLEAN]
    BY <1>1, <1>2, <1>4
  <2>3. writes \in [Posters[s].writers -> {None} \cup [board : Post(s)!Board, slot : Post(s)!Slots]]
    BY <1>1
  <2> QED BY <2>1, <2>2, <2>3 DEF BoardTypes
<1>6. /\ Alone(s, t, writes) /\ Placed(s, t) /\ AtDesk(s, t, writes)
      /\ \A b \in Post(s)!Board : Listed(t, b) /\ FileBacked(t, b)
  BY <1>1, <1>3 DEF Alone, Placed, AtDesk, Listed, FileBacked
<1> QED BY <1>5, <1>6 DEF BoardGood, t

LEMMA Pages ==
  ASSUME NEW s \in BoardScenes, NEW t, NEW ws, BoardTypes(s, t, ws)
  PROVE  /\ t.index \in [Post(s)!Board -> Seq(Post(s)!Entry)]
         /\ t.text \in [Post(s)!Slots -> Posters[s].ids \cup {0}]
         /\ t.taken \in SUBSET Post(s)!Slots /\ t.spoilt \in BOOLEAN
         /\ t.file \in [Post(s)!Board -> Seq([entry : Post(s)!Entry, text : Posters[s].ids \cup {0}])]
         /\ \A b \in Post(s)!Board : \A i \in DOMAIN t.index[b] :
              /\ t.index[b][i] \in Post(s)!Entry /\ t.index[b][i].id \in Posters[s].ids
              /\ t.index[b][i].slot \in Post(s)!Slots \cup {-1} /\ t.index[b][i].done \in BOOLEAN
<1>1. /\ t.index \in [Post(s)!Board -> Seq(Post(s)!Entry)]
      /\ t.text \in [Post(s)!Slots -> Posters[s].ids \cup {0}]
      /\ t.taken \in SUBSET Post(s)!Slots /\ t.spoilt \in BOOLEAN
      /\ t.file \in [Post(s)!Board -> Seq([entry : Post(s)!Entry, text : Posters[s].ids \cup {0}])]
  BY DEF BoardTypes
<1>2. \A b \in Post(s)!Board : \A i \in DOMAIN t.index[b] : t.index[b][i] \in Post(s)!Entry
  BY <1>1
<1>3. \A e \in Post(s)!Entry : e.id \in Posters[s].ids /\ e.slot \in Post(s)!Slots \cup {-1} /\ e.done \in BOOLEAN
  BY DEF Post!Entry
<1> QED BY <1>1, <1>2, <1>3

\* What a step that leaves the file and the texts of the others alone has to show.
LEMMA SavedGood ==
  ASSUME NEW s \in BoardScenes, NEW t, NEW ws, NEW b \in Post(s)!Board,
         BoardTypes(s, t, ws), Alone(s, t, ws),
         ~t.spoilt => Placed(s, t) /\ AtDesk(s, t, ws),
         \A c \in Post(s)!Board \ {b} : Listed(t, c) /\ (~t.spoilt => FileBacked(t, c))
  PROVE  /\ BoardGood(s, Post(s)!Saved(t, b), ws) /\ Post(s)!Saved(t, b).spoilt = t.spoilt
         /\ Post(s)!Saved(t, b).index = t.index
<1> DEFINE u == Post(s)!Saved(t, b)
           entries == t.index[b]
           F == [i \in DOMAIN entries |-> [entry |-> Post(s)!Kept(t, entries[i]), text |-> Post(s)!TextAt(t, entries[i].slot)]]
<1>1. u = [t EXCEPT !.file[b] = F]
  BY DEF Post!Saved
<1>2. /\ t \in [index : [Post(s)!Board -> Seq(Post(s)!Entry)],
                text : [Post(s)!Slots -> Posters[s].ids \cup {0}],
                taken : SUBSET Post(s)!Slots,
                file : [Post(s)!Board -> Seq([entry : Post(s)!Entry, text : Posters[s].ids \cup {0}])],
                spoilt : BOOLEAN]
      /\ entries \in Seq(Post(s)!Entry) /\ Len(entries) <= MaxMessages
  BY DEF BoardTypes
<1>3. ASSUME NEW i \in DOMAIN entries
      PROVE  /\ Post(s)!Kept(t, entries[i]) \in Post(s)!Entry
             /\ Post(s)!Kept(t, entries[i]).id = entries[i].id
             /\ Post(s)!TextAt(t, entries[i].slot) \in Posters[s].ids \cup {0}
  <2>1. /\ t.text \in [Post(s)!Slots -> Posters[s].ids \cup {0}]
        /\ entries[i] \in Post(s)!Entry /\ entries[i].slot \in Post(s)!Slots \cup {-1}
    BY Pages
  <2>2. Post(s)!TextAt(t, entries[i].slot) \in Posters[s].ids \cup {0}
    BY <2>1 DEF Post!TextAt
  <2>3. /\ [entries[i] EXCEPT !.slot = -1] \in Post(s)!Entry
        /\ [entries[i] EXCEPT !.slot = -1].id = entries[i].id
    BY <2>1 DEF Post!Entry
  <2> QED BY <2>1, <2>2, <2>3 DEF Post!Kept
<1> DEFINE X == [entry : Post(s)!Entry, text : Posters[s].ids \cup {0}]
<1>4. /\ F \in Seq(X) /\ Len(F) = Len(entries) /\ DOMAIN F = DOMAIN entries
      /\ \A i \in DOMAIN entries : F[i].entry.id = entries[i].id /\ F[i].text = Post(s)!TextAt(t, entries[i].slot)
  <2>1. DOMAIN entries = 1 .. Len(entries) /\ Len(entries) \in Nat
    BY <1>2
  <2>2. \A i \in DOMAIN entries : F[i] \in X
    BY <1>3
  <2> QED BY <1>3, <2>1, <2>2
<1> HIDE DEF F, X
<1>5. /\ u.index = t.index /\ u.text = t.text /\ u.taken = t.taken /\ u.spoilt = t.spoilt
      /\ u.file = [t.file EXCEPT ![b] = F]
      /\ u = [index |-> t.index, text |-> t.text, taken |-> t.taken, file |-> u.file, spoilt |-> t.spoilt]
  BY <1>1, <1>2
<1>6. /\ u.file \in [Post(s)!Board -> Seq(X)] /\ u.file[b] = F
      /\ \A c \in Post(s)!Board \ {b} : u.file[c] = t.file[c]
  BY <1>2, <1>4, <1>5 DEF X
<1> HIDE DEF u
<1>7. BoardTypes(s, u, ws)
  <2>1. u \in [index : [Post(s)!Board -> Seq(Post(s)!Entry)],
                text : [Post(s)!Slots -> Posters[s].ids \cup {0}],
                taken : SUBSET Post(s)!Slots,
                file : [Post(s)!Board -> Seq([entry : Post(s)!Entry, text : Posters[s].ids \cup {0}])],
                spoilt : BOOLEAN]
    BY <1>2, <1>5, <1>6 DEF X
  <2>2. \A c \in Post(s)!Board : Len(u.index[c]) <= MaxMessages /\ Len(u.file[c]) <= MaxMessages
    <3> SUFFICES ASSUME NEW c \in Post(s)!Board PROVE Len(u.index[c]) <= MaxMessages /\ Len(u.file[c]) <= MaxMessages
      OBVIOUS
    <3>1. Len(t.index[c]) <= MaxMessages /\ Len(t.file[c]) <= MaxMessages
      BY DEF BoardTypes
    <3>2. u.file[c] = t.file[c] \/ (c = b /\ Len(u.file[c]) = Len(t.index[c]))
      BY <1>4, <1>6
    <3>3. u.index[c] = t.index[c]
      BY <1>5
    <3> QED BY <3>1, <3>2, <3>3
  <2> QED BY <2>1, <2>2 DEF BoardTypes
<1>8. Alone(s, u, ws)
  BY <1>5 DEF Alone
<1>9. ~u.spoilt => Placed(s, u) /\ AtDesk(s, u, ws)
  BY <1>5 DEF Placed, AtDesk
<1>10. ASSUME NEW c \in Post(s)!Board PROVE Listed(u, c) /\ (~u.spoilt => FileBacked(u, c))
  <2>1. CASE c # b
    <3>1. u.index[c] = t.index[c] /\ u.spoilt = t.spoilt
      BY <1>5
    <3>2. u.file[c] = t.file[c]
      BY <2>1, <1>6
    <3>3. Listed(t, c) /\ (~t.spoilt => FileBacked(t, c))
      BY <2>1
    <3> QED BY <3>1, <3>2, <3>3 DEF Listed, FileBacked
  <2>2. CASE c = b
    <3>1. Listed(u, b)
      <4>1. /\ DOMAIN u.file[b] = DOMAIN u.index[b]
            /\ \A i \in DOMAIN u.index[b] : u.index[b][i].id = u.file[b][i].entry.id
        <5>1. u.index[b] = entries
          BY <1>5
        <5>2. u.file[b] = F
          BY <1>6
        <5> QED BY <1>4, <5>1, <5>2
      <4> QED BY <4>1 DEF Listed
    <3>2. ASSUME ~u.spoilt PROVE FileBacked(u, b)
      <4>1. \A i \in DOMAIN entries : /\ F[i].text \in {0, entries[i].id}
                                      /\ entries[i].done => F[i].text = entries[i].id
        <5> SUFFICES ASSUME NEW i \in DOMAIN entries
                     PROVE  F[i].text \in {0, entries[i].id} /\ (entries[i].done => F[i].text = entries[i].id)
          OBVIOUS
        <5>1. /\ t.text[entries[i].slot] \in {0, entries[i].id} /\ entries[i].slot \in t.taken
              /\ entries[i].done => t.text[entries[i].slot] = entries[i].id
          <6>1. ~t.spoilt
            BY <3>2, <1>5
          <6> QED BY <6>1 DEF Placed
        <5>2. entries[i].slot # -1
          <6>1. t.taken \in SUBSET Post(s)!Slots
            BY Pages
          <6> QED BY <5>1, <6>1, SlotFacts
        <5> QED BY <1>4, <5>1, <5>2 DEF Post!TextAt
      <4>2. u.index[b] = entries /\ u.file[b] = F
        <5>1. u.index[b] = entries
          BY <1>5
        <5> QED BY <1>6, <5>1
      <4>3. \A i \in DOMAIN F : F[i].text \in {0, F[i].entry.id}
        BY <4>1, <1>4
      <4>4. \A i \in DOMAIN entries : entries[i].done =>
              \E j \in DOMAIN F : F[j].entry.id = entries[i].id /\ F[j].text = entries[i].id
        BY <4>1, <1>4
      <4> HIDE DEF entries
      <4> QED BY <4>2, <4>3, <4>4 DEF FileBacked
    <3> QED BY <2>2, <3>1, <3>2
  <2> QED BY <2>1, <2>2
<1> QED BY <1>5, <1>7, <1>8, <1>9, <1>10 DEF BoardGood, u

LEMMA Changed ==
  ASSUME NEW I, NEW T, NEW K, NEW F,
         NEW t \in [index : I, text : T, taken : K, file : F, spoilt : BOOLEAN], NEW x \in T, NEW k \in K, NEW i \in I
  PROVE  [t EXCEPT !.text = x, !.taken = k, !.index = i] \in [index : I, text : T, taken : K, file : F, spoilt : BOOLEAN]
OBVIOUS

\* A message nobody is at is removed.
LEMMA DeleteGood ==
  ASSUME NEW s \in BoardScenes, NEW t, NEW ws, NEW b \in Post(s)!Board, NEW k \in DOMAIN t.index[b],
         BoardGood(s, t, ws), ~t.spoilt,
         \A d \in Posters[s].writers : ws[d] # None => ws[d].slot # t.index[b][k].slot
  PROVE  BoardGood(s, Post(s)!Delete(t, b, k), ws) /\ ~Post(s)!Delete(t, b, k).spoilt
<1> DEFINE slot == t.index[b][k].slot
           q == t.index[b]
           less == SubSeq(q, 1, k - 1) \o SubSeq(q, k + 1, Len(q))
           u == [t EXCEPT !.text[slot] = 0, !.taken = @ \ {slot}, !.index[b] = less]
<1>1. Post(s)!Delete(t, b, k) = Post(s)!Saved(u, b)
  BY DEF Post!Delete
<1>2. /\ t \in [index : [Post(s)!Board -> Seq(Post(s)!Entry)],
                text : [Post(s)!Slots -> Posters[s].ids \cup {0}],
                taken : SUBSET Post(s)!Slots,
                file : [Post(s)!Board -> Seq([entry : Post(s)!Entry, text : Posters[s].ids \cup {0}])],
                spoilt : BOOLEAN]
      /\ BoardTypes(s, t, ws) /\ Placed(s, t) /\ AtDesk(s, t, ws) /\ Alone(s, t, ws)
      /\ \A c \in Post(s)!Board : Listed(t, c) /\ FileBacked(t, c)
  BY DEF BoardGood, BoardTypes
<1>3. q \in Seq(Post(s)!Entry) /\ Len(q) \in Nat /\ DOMAIN q = 1 .. Len(q) /\ k \in 1 .. Len(q)
  BY <1>2
<1>4. /\ less \in Seq(Post(s)!Entry) /\ Len(less) = Len(q) - 1 /\ DOMAIN less = 1 .. Len(q) - 1
      /\ \A i \in DOMAIN less : less[i] = (IF i < k THEN q[i] ELSE q[i + 1])
  <2> HIDE DEF q
  <2> QED BY <1>3, MovedUp
<1> HIDE DEF less
<1>5. slot \in t.taken /\ slot \in Post(s)!Slots
  <2>1. t.taken \in SUBSET Post(s)!Slots
    BY <1>2, Pages
  <2>2. slot \in t.taken
    BY <1>2 DEF Placed
  <2> QED BY <2>1, <2>2
<1> HIDE DEF slot
<1>6. /\ u.text = [t.text EXCEPT ![slot] = 0] /\ u.taken = t.taken \ {slot} /\ u.index = [t.index EXCEPT ![b] = less]
      /\ u.file = t.file /\ u.spoilt = t.spoilt
  <2>2. u.text = [t.text EXCEPT ![slot] = 0]
    BY <1>2
  <2>3. u.taken = t.taken \ {slot}
    BY <1>2
  <2>4. u.index = [t.index EXCEPT ![b] = less]
    BY <1>2
  <2>5. u.file = t.file /\ u.spoilt = t.spoilt
    BY <1>2
  <2> QED BY <2>2, <2>3, <2>4, <2>5
<1>a. u = [t EXCEPT !.text = [t.text EXCEPT ![slot] = 0], !.taken = t.taken \ {slot}, !.index = [t.index EXCEPT ![b] = less]]
  BY <1>2
<1> HIDE DEF u
<1>7. /\ u.index[b] = less /\ u.index \in [Post(s)!Board -> Seq(Post(s)!Entry)]
      /\ \A c \in Post(s)!Board \ {b} : u.index[c] = t.index[c]
  BY <1>2, <1>4, <1>6
<1>8. /\ u.text[slot] = 0 /\ u.text \in [Post(s)!Slots -> Posters[s].ids \cup {0}]
      /\ \A x \in Post(s)!Slots \ {slot} : u.text[x] = t.text[x]
  BY <1>2, <1>5, <1>6
<1>9. BoardTypes(s, u, ws)
  <2>1. u \in [index : [Post(s)!Board -> Seq(Post(s)!Entry)],
               text : [Post(s)!Slots -> Posters[s].ids \cup {0}],
               taken : SUBSET Post(s)!Slots,
               file : [Post(s)!Board -> Seq([entry : Post(s)!Entry, text : Posters[s].ids \cup {0}])],
               spoilt : BOOLEAN]
    BY <1>2, <1>6, <1>7, <1>8, <1>a, Changed
  <2>2. ASSUME NEW c \in Post(s)!Board PROVE Len(u.index[c]) <= MaxMessages /\ Len(u.file[c]) <= MaxMessages
    <3>1. Len(t.index[c]) <= MaxMessages /\ Len(t.file[c]) <= MaxMessages
      BY <1>2 DEF BoardTypes
    <3>2. c = b => Len(u.index[c]) = Len(t.index[c]) - 1
      BY <1>4, <1>7
    <3>3. u.index[c] = t.index[c] \/ c = b
      BY <1>7
    <3> QED BY <1>3, <1>6, <3>1, <3>2, <3>3, SlotFacts
  <2> QED BY <1>2, <2>1, <2>2 DEF BoardTypes
\* Every message left is an old one.
<1> DEFINE From(c, i) == IF c = b /\ i >= k THEN i + 1 ELSE i
<1>10. ASSUME NEW c \in Post(s)!Board, NEW i \in DOMAIN u.index[c]
       PROVE  /\ From(c, i) \in DOMAIN t.index[c] /\ u.index[c][i] = t.index[c][From(c, i)]
              /\ u.index[c][i].slot # slot /\ i \in Int
  <2>1. CASE c # b
    <3>1. u.index[c] = t.index[c] /\ u.index[c] \in Seq(Post(s)!Entry)
      BY <1>7, <2>1
    <3>2. t.index[c][i].slot # slot
      BY <1>2, <2>1, <3>1 DEF Placed, slot
    <3> QED BY <2>1, <3>1, <3>2
  <2>2. CASE c = b
    <3>1. /\ i \in 1 .. Len(q) - 1 /\ From(c, i) = (IF i < k THEN i ELSE i + 1)
          /\ u.index[c][i] = less[i]
      BY <1>3, <1>4, <1>7, <2>2
    <3>2. From(c, i) \in 1 .. Len(q) /\ From(c, i) # k /\ less[i] = q[From(c, i)]
      BY <1>3, <1>4, <3>1
    <3>3. q[From(c, i)].slot # slot
      BY <1>2, <1>3, <3>2 DEF Placed, slot
    <3> QED BY <1>3, <2>2, <3>1, <3>2, <3>3
  <2> QED BY <2>1, <2>2
<1>11. \A c \in Post(s)!Board : \A i, j \in DOMAIN u.index[c] : From(c, i) = From(c, j) => i = j
  BY <1>3, <1>10
<1> HIDE DEF From
<1>12. Placed(s, u)
  <2>1. ASSUME NEW c \in Post(s)!Board, NEW i \in DOMAIN u.index[c]
        PROVE  /\ u.index[c][i].slot \in u.taken /\ u.text[u.index[c][i].slot] \in {0, u.index[c][i].id}
               /\ u.index[c][i].done => u.text[u.index[c][i].slot] = u.index[c][i].id
    <3>1. /\ u.index[c][i].slot \in t.taken /\ t.text[u.index[c][i].slot] \in {0, u.index[c][i].id}
          /\ u.index[c][i].done => t.text[u.index[c][i].slot] = u.index[c][i].id
          /\ u.index[c][i].slot # slot
      BY <1>2, <1>10 DEF Placed
    <3> QED BY <1>2, <1>6, <1>8, <3>1
  <2>2. ASSUME NEW c \in Post(s)!Board, NEW e \in Post(s)!Board, NEW i \in DOMAIN u.index[c], NEW j \in DOMAIN u.index[e],
               u.index[c][i].slot = u.index[e][j].slot
        PROVE  c = e /\ i = j
    <3>1. c = e /\ From(c, i) = From(e, j)
      BY <1>2, <1>10, <2>2 DEF Placed
    <3> QED BY <1>11, <3>1
  <2>3. \A x \in Post(s)!Slots : x \notin u.taken => u.text[x] = 0
    BY <1>2, <1>6, <1>8 DEF Placed
  <2> QED BY <2>1, <2>2, <2>3 DEF Placed
<1>13. Alone(s, u, ws)
  BY <1>2, <1>6 DEF Alone, slot
<1>14. AtDesk(s, u, ws)
  BY <1>2, <1>10 DEF AtDesk
<1>15. \A c \in Post(s)!Board \ {b} : Listed(u, c) /\ FileBacked(u, c)
  <2> SUFFICES ASSUME NEW c \in Post(s)!Board \ {b} PROVE Listed(u, c) /\ FileBacked(u, c)
    OBVIOUS
  <2>1. u.index[c] = t.index[c] /\ u.file[c] = t.file[c] /\ Listed(t, c) /\ FileBacked(t, c)
    BY <1>2, <1>6, <1>7
  <2> QED BY <2>1 DEF Listed, FileBacked
<1>16. BoardGood(s, Post(s)!Saved(u, b), ws) /\ Post(s)!Saved(u, b).spoilt = u.spoilt
  BY <1>9, <1>12, <1>13, <1>14, <1>15, SavedGood
<1> QED BY <1>1, <1>6, <1>16

LEMMA Board_delete_msgGood ==
  ASSUME NEW s \in BoardScenes, NEW t, NEW b \in Post(s)!Board, NEW k \in DOMAIN t.index[b],
         BoardGood(s, t, writes), ~t.spoilt
  PROVE  BoardGood(s, Post(s)!Board_delete_msg(t, b, k), writes) /\ ~Post(s)!Board_delete_msg(t, b, k).spoilt
<1>1. CASE Post(s)!Board_delete_msg(t, b, k) = t
  BY <1>1
<1>2. CASE ~Post(s)!Written(t.index[b][k].slot) /\ Post(s)!Board_delete_msg(t, b, k) = Post(s)!Delete(t, b, k)
  <2>1. \A d \in Posters[s].writers : writes[d] # None => writes[d].slot # t.index[b][k].slot
    BY <1>2 DEF Post!Written
  <2> QED BY <1>2, <2>1, DeleteGood
<1> QED BY <1>1, <1>2 DEF Post!Board_delete_msg

LEMMA MakeRoomGood ==
  ASSUME NEW s \in BoardScenes, NEW t, NEW b \in Post(s)!Board, BoardGood(s, t, writes), ~t.spoilt
  PROVE  BoardGood(s, Post(s)!MakeRoom(t, b), writes) /\ ~Post(s)!MakeRoom(t, b).spoilt
<1> DEFINE low == {i \in DOMAIN t.index[b] : t.index[b][i].low}
<1>1. low \in SUBSET Nat
  <2>1. t.index \in [Post(s)!Board -> Seq(Post(s)!Entry)]
    BY Pages DEF BoardGood
  <2> QED BY <2>1
<1>2. CASE low # {}
  <2>1. Post(s)!Min(low) \in DOMAIN t.index[b]
    BY <1>1, <1>2, Smallest
  <2>2. /\ BoardGood(s, Post(s)!Board_delete_msg(t, b, Post(s)!Min(low)), writes)
        /\ ~Post(s)!Board_delete_msg(t, b, Post(s)!Min(low)).spoilt
    BY <2>1, Board_delete_msgGood
  <2> QED BY <2>2 DEF Post!MakeRoom
<1>3. CASE low = {}
  BY <1>3 DEF Post!MakeRoom
<1> QED BY <1>2, <1>3

BoardInv(s) == BoardGood(s, Post(s)!Tables, writes)

LEMMA SameFields ==
  ASSUME NEW s \in BoardScenes, NEW r, NEW ws, BoardGood(s, r, ws), NEW v,
         v = [index |-> r.index, text |-> r.text, taken |-> r.taken, file |-> r.file, spoilt |-> r.spoilt]
  PROVE  BoardGood(s, v, ws)
<1>1. v.index = r.index /\ v.text = r.text /\ v.taken = r.taken /\ v.file = r.file /\ v.spoilt = r.spoilt
  OBVIOUS
<1>2. BoardTypes(s, v, ws)
  BY <1>1 DEF BoardGood, BoardTypes
<1>3. Alone(s, v, ws) /\ \A b \in Post(s)!Board : Listed(v, b)
  BY <1>1 DEF BoardGood, Alone, Listed
<1>4. ~v.spoilt => Placed(s, v) /\ AtDesk(s, v, ws) /\ \A b \in Post(s)!Board : FileBacked(v, b)
  BY <1>1 DEF BoardGood, Placed, AtDesk, FileBacked
<1> QED BY <1>2, <1>3, <1>4 DEF BoardGood

LEMMA BecomeGood ==
  ASSUME NEW s \in BoardScenes, NEW r, NEW ws, BoardGood(s, r, ws), Post(s)!Become(r), writes' = ws
  PROVE  BoardInv(s)'
<1>1. Post(s)!Tables' = [index |-> r.index, text |-> r.text, taken |-> r.taken, file |-> r.file, spoilt |-> r.spoilt]
  BY DEF Post!Tables, Post!Become
<1>2. BoardGood(s, Post(s)!Tables', ws)
  BY <1>1, SameFields
<1> QED BY <1>2 DEF BoardInv

\* A slot that is given out is free.
LEMMA find_slotFree ==
  ASSUME NEW s \in BoardScenes, NEW t
  PROVE  Post(s)!find_slot(t) = -1 \/ Post(s)!find_slot(t) \in Post(s)!Slots \ t.taken
<1> DEFINE free == Post(s)!Slots \ t.taken
<1>1. free \in SUBSET Nat
  BY SlotFacts
<1>2. free # {} => Post(s)!Min(free) \in free
  BY <1>1, Smallest
<1> QED BY <1>2 DEF Post!find_slot

\* A message is started in a free slot.
LEMMA StartedGood ==
  ASSUME NEW s \in BoardScenes, NEW t, NEW ws, NEW b \in Post(s)!Board, NEW d \in Posters[s].writers,
         NEW slot \in Post(s)!Slots \ t.taken, NEW new \in Post(s)!Entry, new.slot = slot, ~new.done,
         BoardGood(s, t, ws), ~t.spoilt, Len(t.index[b]) < MaxMessages
  PROVE  BoardGood(s, [t EXCEPT !.taken = @ \cup {slot}, !.index[b] = Append(@, new)],
                   [ws EXCEPT ![d] = [board |-> b, slot |-> slot]])
<1> DEFINE u == [t EXCEPT !.taken = @ \cup {slot}, !.index[b] = Append(@, new)]
           vs == [ws EXCEPT ![d] = [board |-> b, slot |-> slot]]
           q == t.index[b]
           more == Append(q, new)
<1>1. /\ t \in [index : [Post(s)!Board -> Seq(Post(s)!Entry)],
                text : [Post(s)!Slots -> Posters[s].ids \cup {0}],
                taken : SUBSET Post(s)!Slots,
                file : [Post(s)!Board -> Seq([entry : Post(s)!Entry, text : Posters[s].ids \cup {0}])],
                spoilt : BOOLEAN]
      /\ ws \in [Posters[s].writers -> {None} \cup [board : Post(s)!Board, slot : Post(s)!Slots]]
      /\ BoardTypes(s, t, ws) /\ Placed(s, t) /\ AtDesk(s, t, ws) /\ Alone(s, t, ws)
      /\ \A c \in Post(s)!Board : Listed(t, c) /\ FileBacked(t, c)
  BY DEF BoardGood, BoardTypes
<1>2. /\ q \in Seq(Post(s)!Entry) /\ more \in Seq(Post(s)!Entry) /\ Len(more) = Len(q) + 1 /\ Len(q) \in Nat
      /\ DOMAIN q = 1 .. Len(q) /\ DOMAIN more = 1 .. Len(q) + 1
      /\ \A i \in 1 .. Len(q) : more[i] = q[i]
      /\ more[Len(q) + 1] = new
  BY <1>1
<1> HIDE DEF more
<1>3. /\ u.index = [t.index EXCEPT ![b] = more] /\ u.taken = t.taken \cup {slot}
      /\ u.text = t.text /\ u.file = t.file /\ u.spoilt = t.spoilt
  BY <1>1 DEF more
<1>4. u = [t EXCEPT !.text = t.text, !.taken = t.taken \cup {slot}, !.index = [t.index EXCEPT ![b] = more]]
  BY <1>1 DEF more
<1> HIDE DEF u
<1>5. /\ u.index[b] = more /\ u.index \in [Post(s)!Board -> Seq(Post(s)!Entry)]
      /\ \A c \in Post(s)!Board \ {b} : u.index[c] = t.index[c]
  BY <1>1, <1>2, <1>3
<1>6. /\ vs \in [Posters[s].writers -> {None} \cup [board : Post(s)!Board, slot : Post(s)!Slots]]
      /\ vs[d].slot = slot /\ vs[d].board = b /\ \A e \in Posters[s].writers \ {d} : vs[e] = ws[e]
  BY <1>1
<1> HIDE DEF vs
<1>7. BoardTypes(s, u, vs)
  <2>1. u \in [index : [Post(s)!Board -> Seq(Post(s)!Entry)],
               text : [Post(s)!Slots -> Posters[s].ids \cup {0}],
               taken : SUBSET Post(s)!Slots,
               file : [Post(s)!Board -> Seq([entry : Post(s)!Entry, text : Posters[s].ids \cup {0}])],
               spoilt : BOOLEAN]
    <3>1. /\ t.text \in [Post(s)!Slots -> Posters[s].ids \cup {0}] /\ t.taken \cup {slot} \in SUBSET Post(s)!Slots
          /\ [t.index EXCEPT ![b] = more] \in [Post(s)!Board -> Seq(Post(s)!Entry)]
      BY <1>1, <1>3, <1>5
    <3> QED BY <1>1, <1>4, <3>1, Changed
  <2>2. ASSUME NEW c \in Post(s)!Board PROVE Len(u.index[c]) <= MaxMessages /\ Len(u.file[c]) <= MaxMessages
    <3>1. Len(t.index[c]) <= MaxMessages /\ Len(t.file[c]) <= MaxMessages
      BY <1>1 DEF BoardTypes
    <3>2. c = b => Len(u.index[c]) = Len(t.index[c]) + 1
      BY <1>2, <1>5
    <3>3. u.index[c] = t.index[c] \/ c = b
      BY <1>5
    <3> QED BY <1>2, <1>3, <3>1, <3>2, <3>3, SlotFacts
  <2> QED BY <1>6, <2>1, <2>2 DEF BoardTypes
\* A message is an old one, or the new one.
<1>8. ASSUME NEW c \in Post(s)!Board, NEW i \in DOMAIN u.index[c]
      PROVE  \/ i \in DOMAIN t.index[c] /\ u.index[c][i] = t.index[c][i]
             \/ c = b /\ i = Len(q) + 1 /\ u.index[c][i] = new
  <2>1. CASE c # b
    BY <1>5, <2>1
  <2>2. CASE c = b
    BY <1>2, <1>5, <2>2
  <2> QED BY <2>1, <2>2
<1>9. \A c \in Post(s)!Board : \A i \in DOMAIN t.index[c] :
        t.index[c][i].slot \in t.taken /\ t.index[c][i].slot # slot
  BY <1>1 DEF Placed
<1>10. Alone(s, u, vs)
  <2>1. \A e \in Posters[s].writers : ws[e] # None => ws[e].slot \in t.taken
    BY <1>1 DEF Alone
  <2>2. slot \notin t.taken
    BY <1>1
  <2>3. ASSUME NEW e \in Posters[s].writers \ {d}, vs[e] # None
        PROVE  vs[e] = ws[e] /\ vs[e].slot \in t.taken /\ vs[e].slot # slot
    BY <1>6, <2>1, <2>2, <2>3
  <2>4. ASSUME NEW e \in Posters[s].writers, NEW f \in Posters[s].writers \ {e}, vs[e] # None, vs[f] # None
        PROVE  vs[f].slot # vs[e].slot
    <3>1. CASE e = d
      BY <1>6, <2>3, <2>4, <3>1
    <3>2. CASE f = d
      BY <1>6, <2>3, <2>4, <3>2
    <3>3. CASE e # d /\ f # d
      BY <1>1, <2>3, <2>4, <3>3 DEF Alone
    <3> QED BY <3>1, <3>2, <3>3
  <2>5. ASSUME NEW e \in Posters[s].writers, vs[e] # None PROVE vs[e].slot \in u.taken
    BY <1>3, <1>6, <2>3, <2>5
  <2> QED BY <2>4, <2>5 DEF Alone
<1>11. \A c \in Post(s)!Board : Listed(u, c) /\ FileBacked(u, c)
  <2> SUFFICES ASSUME NEW c \in Post(s)!Board PROVE Listed(u, c) /\ FileBacked(u, c)
    OBVIOUS
  <2>1. u.file[c] = t.file[c] /\ Listed(t, c) /\ FileBacked(t, c)
    BY <1>1, <1>3
  <2>2. \A i \in DOMAIN t.index[c] : i \in DOMAIN u.index[c] /\ u.index[c][i] = t.index[c][i]
    <3>1. CASE c # b
      BY <1>5, <3>1
    <3>2. CASE c = b
      BY <1>2, <1>5, <3>2
    <3> QED BY <3>1, <3>2
  <2>3. Listed(u, c)
    BY <2>1, <2>2 DEF Listed
  <2>4. \A i \in DOMAIN u.index[c] : u.index[c][i].done => i \in DOMAIN t.index[c] /\ u.index[c][i] = t.index[c][i]
    BY <1>8
  <2> QED BY <2>1, <2>3, <2>4 DEF FileBacked
<1>12. Placed(s, u)
  <2>1. ASSUME NEW c \in Post(s)!Board, NEW i \in DOMAIN u.index[c]
        PROVE  /\ u.index[c][i].slot \in u.taken /\ u.text[u.index[c][i].slot] \in {0, u.index[c][i].id}
               /\ u.index[c][i].done => u.text[u.index[c][i].slot] = u.index[c][i].id
    <3>1. CASE i \in DOMAIN t.index[c] /\ u.index[c][i] = t.index[c][i]
      BY <1>1, <1>3, <3>1 DEF Placed
    <3>2. CASE u.index[c][i] = new
      BY <1>1, <1>3, <3>2 DEF Placed
    <3> QED BY <1>8, <3>1, <3>2
  <2>2. ASSUME NEW c \in Post(s)!Board, NEW e \in Post(s)!Board, NEW i \in DOMAIN u.index[c], NEW j \in DOMAIN u.index[e],
               u.index[c][i].slot = u.index[e][j].slot
        PROVE  c = e /\ i = j
    <3>1. CASE i \in DOMAIN t.index[c] /\ u.index[c][i] = t.index[c][i] /\ j \in DOMAIN t.index[e] /\ u.index[e][j] = t.index[e][j]
      BY <1>1, <2>2, <3>1 DEF Placed
    <3> QED BY <1>8, <1>9, <2>2, <3>1
  <2>3. \A x \in Post(s)!Slots : x \notin u.taken => u.text[x] = 0
    BY <1>1, <1>3 DEF Placed
  <2> QED BY <2>1, <2>2, <2>3 DEF Placed
<1>13. AtDesk(s, u, vs)
  <2> SUFFICES ASSUME NEW e \in Posters[s].writers, vs[e] # None, NEW c \in Post(s)!Board, NEW i \in DOMAIN u.index[c],
                      u.index[c][i].slot = vs[e].slot
               PROVE  c = vs[e].board
    BY DEF AtDesk
  <2>1. CASE e = d
    BY <1>6, <1>8, <1>9, <2>1
  <2>2. CASE e # d
    <3>1. vs[e] = ws[e] /\ ws[e].slot \in t.taken
      BY <1>1, <1>6, <2>2 DEF Alone
    <3>2. i \in DOMAIN t.index[c] /\ u.index[c][i] = t.index[c][i]
      BY <1>8, <3>1
    <3> QED BY <1>1, <3>1, <3>2 DEF AtDesk
  <2> QED BY <2>1, <2>2
<1>14. BoardGood(s, u, vs)
  BY <1>7, <1>10, <1>11, <1>12, <1>13 DEF BoardGood
<1> QED BY <1>14 DEF u, vs

\* A slot is lost to a post without headline.
LEMMA HeadlessGood ==
  ASSUME NEW s \in BoardScenes, NEW t, NEW ws, NEW slot \in Post(s)!Slots, BoardGood(s, t, ws)
  PROVE  BoardGood(s, [t EXCEPT !.taken = @ \cup {slot}], ws)
<1> DEFINE u == [t EXCEPT !.taken = @ \cup {slot}]
<1>1. t \in [index : [Post(s)!Board -> Seq(Post(s)!Entry)],
             text : [Post(s)!Slots -> Posters[s].ids \cup {0}],
             taken : SUBSET Post(s)!Slots,
             file : [Post(s)!Board -> Seq([entry : Post(s)!Entry, text : Posters[s].ids \cup {0}])],
             spoilt : BOOLEAN]
  BY DEF BoardGood, BoardTypes
<1>2. /\ u.index = t.index /\ u.taken = t.taken \cup {slot} /\ u.text = t.text /\ u.file = t.file /\ u.spoilt = t.spoilt
      /\ u \in [index : [Post(s)!Board -> Seq(Post(s)!Entry)],
                text : [Post(s)!Slots -> Posters[s].ids \cup {0}],
                taken : SUBSET Post(s)!Slots,
                file : [Post(s)!Board -> Seq([entry : Post(s)!Entry, text : Posters[s].ids \cup {0}])],
                spoilt : BOOLEAN]
  BY <1>1
<1> HIDE DEF u
<1>3. BoardTypes(s, u, ws)
  BY <1>2 DEF BoardGood, BoardTypes
<1>4. Alone(s, u, ws) /\ \A b \in Post(s)!Board : Listed(u, b)
  BY <1>2 DEF BoardGood, Alone, Listed
<1>5. ~u.spoilt => Placed(s, u) /\ AtDesk(s, u, ws) /\ \A b \in Post(s)!Board : FileBacked(u, b)
  BY <1>2 DEF BoardGood, Placed, AtDesk, FileBacked
<1>6. BoardGood(s, u, ws)
  BY <1>3, <1>4, <1>5 DEF BoardGood
<1> QED BY <1>6 DEF u

\* The first message of the next board gets a slot that is not its own: that is spoilt.
LEMMA OverflowGood ==
  ASSUME NEW s \in BoardScenes, NEW t, NEW ws, NEW b \in Post(s)!Board, NEW slot \in Post(s)!Slots \cup {-1},
         BoardGood(s, t, ws)
  PROVE  BoardGood(s, Post(s)!Overflow(t, b, slot), ws)
<1>1. CASE Post(s)!Overflow(t, b, slot) = t
  BY <1>1
<1>2. ASSUME b + 1 \in Post(s)!Board, t.index[b + 1] # <<>>,
             Post(s)!Overflow(t, b, slot) = [t EXCEPT !.index[b + 1][1].slot = slot, !.spoilt = TRUE]
      PROVE  BoardGood(s, Post(s)!Overflow(t, b, slot), ws)
  <2> DEFINE u == [t EXCEPT !.index[b + 1][1].slot = slot, !.spoilt = TRUE]
             next == b + 1
             other == [t.index[next][1] EXCEPT !.slot = slot]
             q == [t.index[next] EXCEPT ![1] = other]
  <2>1. /\ t \in [index : [Post(s)!Board -> Seq(Post(s)!Entry)],
                  text : [Post(s)!Slots -> Posters[s].ids \cup {0}],
                  taken : SUBSET Post(s)!Slots,
                  file : [Post(s)!Board -> Seq([entry : Post(s)!Entry, text : Posters[s].ids \cup {0}])],
                  spoilt : BOOLEAN]
        /\ next \in Post(s)!Board
    BY <1>2 DEF BoardGood, BoardTypes
  <2>2. /\ t.index[next] \in Seq(Post(s)!Entry) /\ 1 \in DOMAIN t.index[next]
    BY <1>2, <2>1
  <2>3. other \in Post(s)!Entry /\ other.id = t.index[next][1].id
    <3>1. t.index[next][1] \in Post(s)!Entry
      BY <2>2
    <3> QED BY <3>1 DEF Post!Entry
  <2>4. u.index = [t.index EXCEPT ![next] = q] /\ u.taken = t.taken /\ u.text = t.text /\ u.file = t.file /\ u.spoilt = TRUE
    BY <2>1
  <2>5. u = [[t EXCEPT !.index = [t.index EXCEPT ![next] = q]] EXCEPT !.spoilt = TRUE]
    BY <2>1
  <2> HIDE DEF u, other, next
  <2>6. /\ q \in Seq(Post(s)!Entry) /\ Len(q) = Len(t.index[next]) /\ DOMAIN q = DOMAIN t.index[next]
        /\ \A i \in DOMAIN q : q[i].id = t.index[next][i].id
    <3>1. q[1] = other /\ \A i \in DOMAIN t.index[next] : i # 1 => q[i] = t.index[next][i]
      BY <2>2
    <3>2. q \in Seq(Post(s)!Entry) /\ Len(q) = Len(t.index[next]) /\ DOMAIN q = DOMAIN t.index[next]
      BY <2>2, <2>3
    <3> QED BY <2>3, <3>1, <3>2
  <2> HIDE DEF q
  <2>7. u.index \in [Post(s)!Board -> Seq(Post(s)!Entry)] /\ u.index[next] = q
        /\ \A c \in Post(s)!Board \ {next} : u.index[c] = t.index[c]
    BY <2>1, <2>4, <2>6
  <2>8. BoardTypes(s, u, ws)
    <3>1. u \in [index : [Post(s)!Board -> Seq(Post(s)!Entry)],
                 text : [Post(s)!Slots -> Posters[s].ids \cup {0}],
                 taken : SUBSET Post(s)!Slots,
                 file : [Post(s)!Board -> Seq([entry : Post(s)!Entry, text : Posters[s].ids \cup {0}])],
                 spoilt : BOOLEAN]
      BY <2>1, <2>4, <2>5, <2>7
    <3>2. ASSUME NEW c \in Post(s)!Board PROVE Len(u.index[c]) <= MaxMessages /\ Len(u.file[c]) <= MaxMessages
      <4>1. Len(t.index[c]) <= MaxMessages /\ Len(t.file[c]) <= MaxMessages
        BY DEF BoardGood, BoardTypes
      <4>2. Len(u.index[c]) = Len(t.index[c])
        BY <2>6, <2>7
      <4> QED BY <2>4, <4>1, <4>2
    <3> QED BY <3>1, <3>2 DEF BoardGood, BoardTypes
  <2>9. Alone(s, u, ws)
    BY <2>4 DEF BoardGood, Alone
  <2>10. ASSUME NEW c \in Post(s)!Board PROVE Listed(u, c)
    <3>1. Listed(t, c) /\ u.file[c] = t.file[c]
      BY <2>4 DEF BoardGood
    <3>2. DOMAIN u.index[c] = DOMAIN t.index[c] /\ \A i \in DOMAIN t.index[c] : u.index[c][i].id = t.index[c][i].id
      BY <2>6, <2>7
    <3> QED BY <3>1, <3>2 DEF Listed
  <2>11. BoardGood(s, u, ws)
    BY <2>4, <2>8, <2>9, <2>10 DEF BoardGood
  <2> QED BY <1>2, <2>11 DEF u
<1> QED BY <1>1, <1>2 DEF Post!Overflow

\* A post to a board, in the words of a writer or in answer to another message.
LEMMA PostedInv ==
  ASSUME NEW s \in BoardScenes, BoardInv(s), ~spoilt, NEW d \in Posters[s].writers, NEW b \in Post(s)!Board,
         Post(s)!Board_write_message(d, b) \/ Post(s)!Board_reply_message(d, b)
  PROVE  BoardInv(s)'
<1> DEFINE t == Post(s)!MakeRoom(Post(s)!Tables, b)
           slot == Post(s)!find_slot(t)
<1>1. BoardGood(s, t, writes) /\ ~t.spoilt
  <2>1. ~Post(s)!Tables.spoilt
    BY DEF Post!Tables
  <2> QED BY <2>1, MakeRoomGood DEF BoardInv
<1>2. slot = -1 \/ slot \in Post(s)!Slots \ t.taken
  BY find_slotFree
<1>3. \/ Post(s)!Full(t, b) /\ Post(s)!Become(Post(s)!Overflow(t, b, slot)) /\ writes' = writes
      \/ Post(s)!Become(t) /\ writes' = writes
      \/ ~Post(s)!Full(t, b) /\ slot # -1 /\ (Post(s)!Headless(t, slot) \/ Post(s)!Start(t, d, b, slot))
  BY DEF Post!Board_write_message, Post!Board_reply_message
<1> HIDE DEF t, slot
<1>4. CASE Post(s)!Become(Post(s)!Overflow(t, b, slot)) /\ writes' = writes
  <2>1. BoardGood(s, Post(s)!Overflow(t, b, slot), writes)
    BY <1>1, <1>2, OverflowGood
  <2> QED BY <1>4, <2>1, BecomeGood
<1>5. CASE Post(s)!Become(t) /\ writes' = writes
  BY <1>1, <1>5, BecomeGood
<1>6. CASE slot # -1 /\ Post(s)!Headless(t, slot)
  <2>1. BoardGood(s, [t EXCEPT !.taken = @ \cup {slot}], writes)
    BY <1>1, <1>2, <1>6, HeadlessGood
  <2>2. Post(s)!Become([t EXCEPT !.taken = @ \cup {slot}]) /\ writes' = writes
    BY <1>6 DEF Post!Headless
  <2> QED BY <2>1, <2>2, BecomeGood
<1>7. CASE ~Post(s)!Full(t, b) /\ slot # -1 /\ Post(s)!Start(t, d, b, slot)
  <2> DEFINE unused == Post(s)!Unused(t)
             new == [id |-> Post(s)!Min(unused), slot |-> slot, low |-> d \notin Builder, done |-> FALSE]
  <2>1. unused \in SUBSET Nat /\ unused \in SUBSET Posters[s].ids
    BY SlotFacts DEF Post!Unused
  <2>2. Post(s)!Min(unused) \in Posters[s].ids
    <3>1. unused # {}
      BY <1>7 DEF Post!Start
    <3> QED BY <2>1, <3>1, Smallest
  <2>3. new \in Post(s)!Entry /\ new.slot = slot /\ ~new.done
    BY <1>2, <1>7, <2>2 DEF Post!Entry
  <2>4. Len(t.index[b]) < MaxMessages
    <3>1. Len(t.index[b]) \in Nat
      BY <1>1, Pages DEF BoardGood
    <3> QED BY <1>7, <3>1, SlotFacts DEF Post!Full
  <2>5. /\ Post(s)!Become([t EXCEPT !.taken = @ \cup {slot}, !.index[b] = Append(@, new)])
        /\ writes' = [writes EXCEPT ![d] = [board |-> b, slot |-> slot]]
    BY <1>7 DEF Post!Start
  <2> HIDE DEF new
  <2>6. BoardGood(s, [t EXCEPT !.taken = @ \cup {slot}, !.index[b] = Append(@, new)],
                     [writes EXCEPT ![d] = [board |-> b, slot |-> slot]])
    BY <1>1, <1>2, <1>7, <2>3, <2>4, StartedGood
  <2> QED BY <2>5, <2>6, BecomeGood
<1> QED BY <1>3, <1>4, <1>5, <1>6, <1>7

LEMMA Board_remove_msgInv ==
  ASSUME NEW s \in BoardScenes, BoardInv(s), ~spoilt, NEW b \in Post(s)!Board, Post(s)!Board_remove_msg(b)
  PROVE  BoardInv(s)'
<1>1. Post(s)!Tables.index = index /\ ~Post(s)!Tables.spoilt
  BY DEF Post!Tables
<1>2. PICK i \in DOMAIN index[b] : Post(s)!Become(Post(s)!Board_delete_msg(Post(s)!Tables, b, i)) /\ writes' = writes
  BY DEF Post!Board_remove_msg
<1>3. BoardGood(s, Post(s)!Board_delete_msg(Post(s)!Tables, b, i), writes)
  BY <1>1, Board_delete_msgGood DEF BoardInv
<1> QED BY <1>2, <1>3, BecomeGood

\* Who leaves the editor has no slot any more.
LEMMA LeftGood ==
  ASSUME NEW s \in BoardScenes, NEW t, NEW ws, NEW d, BoardGood(s, t, ws)
  PROVE  BoardGood(s, t, [ws EXCEPT ![d] = None])
<1> DEFINE vs == [ws EXCEPT ![d] = None]
<1>1. ws \in [Posters[s].writers -> {None} \cup [board : Post(s)!Board, slot : Post(s)!Slots]]
  BY DEF BoardGood, BoardTypes
<1>2. /\ vs \in [Posters[s].writers -> {None} \cup [board : Post(s)!Board, slot : Post(s)!Slots]]
      /\ \A e \in Posters[s].writers : vs[e] # None => vs[e] = ws[e]
  BY <1>1
<1> HIDE DEF vs
<1>3. BoardTypes(s, t, vs)
  BY <1>2 DEF BoardGood, BoardTypes
<1>4. Alone(s, t, vs) /\ (~t.spoilt => AtDesk(s, t, vs))
  BY <1>2 DEF BoardGood, Alone, AtDesk
<1>5. BoardGood(s, t, vs)
  BY <1>3, <1>4 DEF BoardGood
<1> QED BY <1>5 DEF vs

\* A writer is the author of the one message that has his slot.
LEMMA AuthorOf ==
  ASSUME NEW s \in BoardScenes, BoardInv(s), ~spoilt, NEW d \in Posters[s].writers, writes[d] # None
  PROVE  /\ writes[d].board \in Post(s)!Board /\ writes[d].slot \in taken
         /\ Post(s)!Author(d) \in Posters[s].ids \cup {0}
         /\ \A c \in Post(s)!Board : \A i \in DOMAIN index[c] :
              index[c][i].slot = writes[d].slot => Post(s)!Author(d) = index[c][i].id
<1> DEFINE own == {index[writes[d].board][i].id :
                     i \in {j \in DOMAIN index[writes[d].board] : index[writes[d].board][j].slot = writes[d].slot}}
<1>1. /\ Post(s)!Tables.index = index /\ Post(s)!Tables.taken = taken /\ Post(s)!Tables.text = text
      /\ Post(s)!Tables.file = file /\ Post(s)!Tables.spoilt = spoilt
  BY DEF Post!Tables
<1>2. /\ BoardTypes(s, Post(s)!Tables, writes) /\ Alone(s, Post(s)!Tables, writes)
      /\ Placed(s, Post(s)!Tables) /\ AtDesk(s, Post(s)!Tables, writes)
  BY <1>1 DEF BoardInv, BoardGood
<1>3. writes[d].board \in Post(s)!Board /\ writes[d].slot \in taken
  <2>1. writes[d] \in [board : Post(s)!Board, slot : Post(s)!Slots]
    BY <1>2 DEF BoardTypes
  <2> QED BY <1>1, <1>2, <2>1 DEF Alone
<1>4. \A c \in Post(s)!Board : \A i \in DOMAIN index[c] : index[c][i].id \in Posters[s].ids
  BY <1>1, <1>2, Pages
<1>5. own \in SUBSET Posters[s].ids /\ own \in SUBSET Nat
  BY <1>3, <1>4, SlotFacts
<1>6. own # {} => Post(s)!Min(own) \in own
  BY <1>5, Smallest
<1>7. Post(s)!Author(d) = IF own = {} THEN 0 ELSE Post(s)!Min(own)
  BY DEF Post!Author
<1>8. Post(s)!Author(d) \in Posters[s].ids \cup {0}
  BY <1>5, <1>6, <1>7
<1>9. ASSUME NEW c \in Post(s)!Board, NEW i \in DOMAIN index[c], index[c][i].slot = writes[d].slot
      PROVE  Post(s)!Author(d) = index[c][i].id
  <2>1. c = writes[d].board
    BY <1>1, <1>2, <1>9 DEF AtDesk
  <2>2. index[c][i].id \in own
    BY <1>9, <2>1
  <2>3. \A j \in DOMAIN index[c] : index[c][j].slot = writes[d].slot => j = i
    BY <1>1, <1>2, <1>9 DEF Placed
  <2>4. \A x \in own : x = index[c][i].id
    BY <2>1, <2>3
  <2> HIDE DEF own
  <2> QED BY <1>6, <1>7, <2>2, <2>4
<1> QED BY <1>3, <1>8, <1>9

\* A text becomes that of the message it belongs to.
LEMMA LineGood ==
  ASSUME NEW s \in BoardScenes, NEW t, NEW ws, BoardGood(s, t, ws), NEW slot \in t.taken, NEW a \in Posters[s].ids \cup {0},
         \A c \in Post(s)!Board : \A i \in DOMAIN t.index[c] : t.index[c][i].slot = slot => a = t.index[c][i].id
  PROVE  BoardGood(s, [t EXCEPT !.text[slot] = a], ws)
<1> DEFINE u == [t EXCEPT !.text[slot] = a]
<1>1. t \in [index : [Post(s)!Board -> Seq(Post(s)!Entry)],
             text : [Post(s)!Slots -> Posters[s].ids \cup {0}],
             taken : SUBSET Post(s)!Slots,
             file : [Post(s)!Board -> Seq([entry : Post(s)!Entry, text : Posters[s].ids \cup {0}])],
             spoilt : BOOLEAN]
  BY DEF BoardGood, BoardTypes
<1>2. u.index = t.index /\ u.taken = t.taken /\ u.text = [t.text EXCEPT ![slot] = a] /\ u.file = t.file /\ u.spoilt = t.spoilt
  BY <1>1
<1>3. u = [t EXCEPT !.text = [t.text EXCEPT ![slot] = a]]
  BY <1>1
<1>4. slot \in Post(s)!Slots
  BY <1>1
<1> HIDE DEF u
<1>5. /\ u.text \in [Post(s)!Slots -> Posters[s].ids \cup {0}] /\ u.text[slot] = a
      /\ \A x \in Post(s)!Slots : x # slot => u.text[x] = t.text[x]
  BY <1>1, <1>2, <1>4
<1>6. u \in [index : [Post(s)!Board -> Seq(Post(s)!Entry)],
             text : [Post(s)!Slots -> Posters[s].ids \cup {0}],
             taken : SUBSET Post(s)!Slots,
             file : [Post(s)!Board -> Seq([entry : Post(s)!Entry, text : Posters[s].ids \cup {0}])],
             spoilt : BOOLEAN]
  BY <1>1, <1>2, <1>3, <1>5
<1>7. BoardTypes(s, u, ws) /\ Alone(s, u, ws) /\ \A b \in Post(s)!Board : Listed(u, b)
  <2>1. BoardTypes(s, u, ws)
    BY <1>2, <1>6 DEF BoardGood, BoardTypes
  <2>2. Alone(s, u, ws)
    BY <1>2 DEF BoardGood, Alone
  <2>3. \A b \in Post(s)!Board : Listed(u, b)
    BY <1>2 DEF BoardGood, Listed
  <2> QED BY <2>1, <2>2, <2>3
<1>8. ASSUME ~u.spoilt PROVE Placed(s, u) /\ AtDesk(s, u, ws) /\ \A b \in Post(s)!Board : FileBacked(u, b)
  <2>1. Placed(s, t) /\ AtDesk(s, t, ws) /\ \A b \in Post(s)!Board : FileBacked(t, b)
    BY <1>2, <1>8 DEF BoardGood
  <2>2. AtDesk(s, u, ws) /\ \A b \in Post(s)!Board : FileBacked(u, b)
    BY <1>2, <2>1 DEF AtDesk, FileBacked
  <2>3. ASSUME NEW c \in Post(s)!Board, NEW i \in DOMAIN u.index[c]
        PROVE  /\ u.index[c][i].slot \in u.taken /\ u.text[u.index[c][i].slot] \in {0, u.index[c][i].id}
               /\ u.index[c][i].done => u.text[u.index[c][i].slot] = u.index[c][i].id
    <3>1. i \in DOMAIN t.index[c] /\ u.index[c][i] = t.index[c][i]
      BY <1>2
    <3>2. /\ t.index[c][i].slot \in t.taken /\ t.text[t.index[c][i].slot] \in {0, t.index[c][i].id}
          /\ t.index[c][i].done => t.text[t.index[c][i].slot] = t.index[c][i].id
      BY <2>1, <3>1 DEF Placed
    <3>3. t.index[c][i].slot \in Post(s)!Slots
      BY <1>1, <3>2
    <3>4. CASE t.index[c][i].slot = slot
      BY <1>2, <1>5, <3>1, <3>2, <3>4
    <3>5. CASE t.index[c][i].slot # slot
      BY <1>2, <1>5, <3>1, <3>2, <3>3, <3>5
    <3> QED BY <3>4, <3>5
  <2>4. \A x \in Post(s)!Slots : x \notin u.taken => u.text[x] = 0
    BY <1>2, <1>5, <2>1 DEF Placed
  <2>5. \A b, c \in Post(s)!Board : \A i \in DOMAIN u.index[b] : \A j \in DOMAIN u.index[c] :
          u.index[b][i].slot = u.index[c][j].slot => b = c /\ i = j
    BY <1>2, <2>1 DEF Placed
  <2> QED BY <2>2, <2>3, <2>4, <2>5 DEF Placed
<1>9. BoardGood(s, u, ws)
  BY <1>7, <1>8 DEF BoardGood
<1> QED BY <1>9 DEF u

LEMMA LineInv ==
  ASSUME NEW s \in BoardScenes, BoardInv(s), ~spoilt, NEW d \in Posters[s].writers, Post(s)!Line(d)
  PROVE  BoardInv(s)'
<1> DEFINE t == Post(s)!Tables
<1>1. t.index = index /\ t.taken = taken /\ t.text = text /\ t.file = file /\ t.spoilt = spoilt
  BY DEF Post!Tables
<1>2. /\ writes[d] # None /\ text' = [text EXCEPT ![writes[d].slot] = Post(s)!Author(d)]
      /\ index' = index /\ taken' = taken /\ writes' = writes /\ file' = file /\ spoilt' = spoilt
  BY DEF Post!Line
<1> DEFINE u == [t EXCEPT !.text[writes[d].slot] = Post(s)!Author(d)]
<1>3. BoardGood(s, u, writes)
  <2>1. /\ writes[d].slot \in t.taken /\ Post(s)!Author(d) \in Posters[s].ids \cup {0}
        /\ \A c \in Post(s)!Board : \A i \in DOMAIN t.index[c] :
             t.index[c][i].slot = writes[d].slot => Post(s)!Author(d) = t.index[c][i].id
    BY <1>1, <1>2, AuthorOf
  <2>2. BoardGood(s, t, writes)
    BY DEF BoardInv
  <2> HIDE DEF t
  <2> QED BY <2>1, <2>2, LineGood
<1>4. u.index = index /\ u.taken = taken /\ u.text = text' /\ u.file = file /\ u.spoilt = spoilt
  BY <1>1, <1>2 DEF Post!Tables
<1> HIDE DEF u
<1>5. Post(s)!Become(u)
  BY <1>2, <1>4 DEF Post!Become
<1> QED BY <1>2, <1>3, <1>5, BecomeGood

LEMMA EndedOne ==
  ASSUME NEW s \in BoardScenes, NEW e \in Post(s)!Entry, NEW z \in BOOLEAN
  PROVE  /\ [e EXCEPT !.done = z] \in Post(s)!Entry /\ [e EXCEPT !.done = z].id = e.id
         /\ [e EXCEPT !.done = z].slot = e.slot /\ [e EXCEPT !.done = z].done = z
BY DEF Post!Entry

\* The messages q of a board, with the one in the slot done.
Ended(q, slot) == [i \in DOMAIN q |-> [q[i] EXCEPT !.done = @ \/ q[i].slot = slot]]

LEMMA EndedMessages ==
  ASSUME NEW s \in BoardScenes, NEW q \in Seq(Post(s)!Entry), NEW slot, NEW ended, ended = Ended(q, slot)
  PROVE  /\ ended \in Seq(Post(s)!Entry) /\ Len(ended) = Len(q) /\ DOMAIN ended = DOMAIN q
         /\ \A i \in DOMAIN q : ended[i].id = q[i].id /\ ended[i].slot = q[i].slot /\ (ended[i].done => q[i].done \/ q[i].slot = slot)
<1> DEFINE z(i) == q[i].done \/ q[i].slot = slot
           one(i) == [q[i] EXCEPT !.done = z(i)]
<1>0. ended = [i \in DOMAIN q |-> one(i)]
  BY DEF Ended
<1>1. ASSUME NEW i \in DOMAIN q
      PROVE  one(i) \in Post(s)!Entry /\ one(i).id = q[i].id /\ one(i).slot = q[i].slot /\ one(i).done = z(i)
  <2>1. q[i] \in Post(s)!Entry /\ z(i) \in BOOLEAN
    OBVIOUS
  <2> HIDE DEF z
  <2> QED BY <2>1, EndedOne
<1>2. \A i \in DOMAIN q : z(i) => q[i].done \/ q[i].slot = slot
  OBVIOUS
<1> HIDE DEF one, z
<1>3. /\ ended \in Seq(Post(s)!Entry) /\ Len(ended) = Len(q) /\ DOMAIN ended = DOMAIN q
      /\ \A i \in DOMAIN q : ended[i] = one(i)
  <2>1. Len(q) \in Nat /\ DOMAIN q = 1 .. Len(q)
    OBVIOUS
  <2> QED BY <1>0, <1>1, <2>1
<1>4. \A i \in DOMAIN q : ended[i].id = q[i].id /\ ended[i].slot = q[i].slot /\ (ended[i].done => q[i].done \/ q[i].slot = slot)
  BY <1>1, <1>2, <1>3
<1> QED BY <1>3, <1>4

\* The text of a message was ended.
LEMMA EndedGood ==
  ASSUME NEW s \in BoardScenes, NEW t, NEW ws, BoardGood(s, t, ws), ~t.spoilt, NEW b \in Post(s)!Board, NEW slot,
         \A i \in DOMAIN t.index[b] : t.index[b][i].slot = slot => t.text[slot] = t.index[b][i].id,
         NEW ended \in Seq(Post(s)!Entry), Len(ended) = Len(t.index[b]), DOMAIN ended = DOMAIN t.index[b],
         \A i \in DOMAIN ended : ended[i].id = t.index[b][i].id /\ ended[i].slot = t.index[b][i].slot /\
              (ended[i].done => t.index[b][i].done \/ t.index[b][i].slot = slot)
  PROVE  BoardGood(s, Post(s)!Saved([t EXCEPT !.index[b] = ended], b), ws)
<1> DEFINE u == [t EXCEPT !.index[b] = ended]
           q == t.index[b]
<1>1. /\ t \in [index : [Post(s)!Board -> Seq(Post(s)!Entry)],
                text : [Post(s)!Slots -> Posters[s].ids \cup {0}],
                taken : SUBSET Post(s)!Slots,
                file : [Post(s)!Board -> Seq([entry : Post(s)!Entry, text : Posters[s].ids \cup {0}])],
                spoilt : BOOLEAN]
      /\ BoardTypes(s, t, ws) /\ Placed(s, t) /\ AtDesk(s, t, ws) /\ Alone(s, t, ws)
      /\ \A c \in Post(s)!Board : Listed(t, c) /\ FileBacked(t, c)
  BY DEF BoardGood, BoardTypes
<1>2. q \in Seq(Post(s)!Entry) /\ Len(q) \in Nat /\ DOMAIN q = 1 .. Len(q)
  BY <1>1
<1>3. \A i \in DOMAIN q : ended[i].id = q[i].id /\ ended[i].slot = q[i].slot /\ (ended[i].done => q[i].done \/ q[i].slot = slot)
  OBVIOUS
<1>5. u.index = [t.index EXCEPT ![b] = ended] /\ u.taken = t.taken /\ u.text = t.text /\ u.file = t.file /\ u.spoilt = t.spoilt
  BY <1>1
<1>6. /\ u.index[b] = ended /\ u.index \in [Post(s)!Board -> Seq(Post(s)!Entry)]
      /\ \A c \in Post(s)!Board \ {b} : u.index[c] = t.index[c]
  BY <1>1, <1>5
<1>7. u = [t EXCEPT !.index = [t.index EXCEPT ![b] = ended]]
  BY <1>1
<1> HIDE DEF u
<1>8. BoardTypes(s, u, ws)
  <2>1. u \in [index : [Post(s)!Board -> Seq(Post(s)!Entry)],
               text : [Post(s)!Slots -> Posters[s].ids \cup {0}],
               taken : SUBSET Post(s)!Slots,
               file : [Post(s)!Board -> Seq([entry : Post(s)!Entry, text : Posters[s].ids \cup {0}])],
               spoilt : BOOLEAN]
    BY <1>1, <1>5, <1>6, <1>7
  <2>2. ASSUME NEW c \in Post(s)!Board PROVE Len(u.index[c]) <= MaxMessages /\ Len(u.file[c]) <= MaxMessages
    <3>1. Len(t.index[c]) <= MaxMessages /\ Len(t.file[c]) <= MaxMessages
      BY <1>1 DEF BoardTypes
    <3>2. Len(u.index[c]) = Len(t.index[c])
      BY <1>6
    <3> QED BY <1>5, <3>1, <3>2
  <2> QED BY <1>1, <2>1, <2>2 DEF BoardTypes
\* The messages are the same but for being done.
<1>9. ASSUME NEW c \in Post(s)!Board, NEW i \in DOMAIN u.index[c]
      PROVE  /\ i \in DOMAIN t.index[c] /\ u.index[c][i].id = t.index[c][i].id /\ u.index[c][i].slot = t.index[c][i].slot
             /\ u.index[c][i].done => t.index[c][i].done \/ t.text[t.index[c][i].slot] = t.index[c][i].id
  <2>1. CASE c # b
    BY <1>6, <2>1
  <2>2. CASE c = b
    <3>1. u.index[c] = ended /\ t.index[c] = q
      BY <1>6, <2>2
    <3>2. i \in DOMAIN q /\ i \in DOMAIN ended
      <4>1. i \in DOMAIN u.index[c]
        OBVIOUS
      <4> QED BY <3>1, <4>1
    <3>3. q[i].slot = slot => t.text[q[i].slot] = q[i].id
      BY <3>2
    <3>4. ended[i].id = q[i].id /\ ended[i].slot = q[i].slot /\ (ended[i].done => q[i].done \/ q[i].slot = slot)
      BY <1>3, <3>2
    <3>5. u.index[c][i] = ended[i] /\ t.index[c][i] = q[i]
      BY <3>1
    <3> HIDE DEF q
    <3> QED BY <3>1, <3>2, <3>3, <3>4, <3>5
  <2> QED BY <2>1, <2>2
<1>10. Placed(s, u)
  <2>1. ASSUME NEW c \in Post(s)!Board, NEW i \in DOMAIN u.index[c]
        PROVE  /\ u.index[c][i].slot \in u.taken /\ u.text[u.index[c][i].slot] \in {0, u.index[c][i].id}
               /\ u.index[c][i].done => u.text[u.index[c][i].slot] = u.index[c][i].id
    <3>1. /\ t.index[c][i].slot \in t.taken /\ t.text[t.index[c][i].slot] \in {0, t.index[c][i].id}
          /\ t.index[c][i].done => t.text[t.index[c][i].slot] = t.index[c][i].id
      BY <1>1, <1>9 DEF Placed
    <3> QED BY <1>5, <1>9, <3>1
  <2>2. \A c, e \in Post(s)!Board : \A i \in DOMAIN u.index[c] : \A j \in DOMAIN u.index[e] :
          u.index[c][i].slot = u.index[e][j].slot => c = e /\ i = j
    BY <1>1, <1>9 DEF Placed
  <2>3. \A x \in Post(s)!Slots : x \notin u.taken => u.text[x] = 0
    BY <1>1, <1>5 DEF Placed
  <2> QED BY <2>1, <2>2, <2>3 DEF Placed
<1>11. Alone(s, u, ws) /\ AtDesk(s, u, ws)
  BY <1>1, <1>5, <1>9 DEF Alone, AtDesk
<1>12. \A c \in Post(s)!Board \ {b} : Listed(u, c) /\ FileBacked(u, c)
  <2> SUFFICES ASSUME NEW c \in Post(s)!Board \ {b} PROVE Listed(u, c) /\ FileBacked(u, c)
    OBVIOUS
  <2>1. u.index[c] = t.index[c] /\ u.file[c] = t.file[c] /\ Listed(t, c) /\ FileBacked(t, c)
    BY <1>1, <1>5, <1>6
  <2> QED BY <2>1 DEF Listed, FileBacked
<1>13. BoardGood(s, Post(s)!Saved(u, b), ws)
  BY <1>8, <1>10, <1>11, <1>12, SavedGood
<1> QED BY <1>13 DEF u

LEMMA FinishInv ==
  ASSUME NEW s \in BoardScenes, BoardInv(s), ~spoilt, NEW d \in Posters[s].writers, Post(s)!Finish(d)
  PROVE  BoardInv(s)'
<1> DEFINE t == Post(s)!Tables
           b == writes[d].board
           slot == writes[d].slot
           a == Post(s)!Author(d)
           ended == Ended(index[b], slot)
           v == [t EXCEPT !.text[slot] = a]
           u == [v EXCEPT !.index[b] = ended]
<1>1. t.index = index /\ t.taken = taken /\ t.text = text /\ t.file = file /\ t.spoilt = spoilt
  BY DEF Post!Tables
<1>2. /\ writes[d] # None /\ writes' = [writes EXCEPT ![d] = None]
      /\ Post(s)!Become(Post(s)!Saved([t EXCEPT !.text[slot] = a, !.index[b] = ended], b))
  BY DEF Post!Finish, Ended
<1>3. /\ b \in Post(s)!Board /\ slot \in t.taken /\ a \in Posters[s].ids \cup {0}
      /\ \A c \in Post(s)!Board : \A i \in DOMAIN t.index[c] : t.index[c][i].slot = slot => a = t.index[c][i].id
  BY <1>1, <1>2, AuthorOf
<1>4. BoardGood(s, t, writes) /\ t.text \in [Post(s)!Slots -> Posters[s].ids \cup {0}] /\ slot \in Post(s)!Slots
  BY <1>3, Pages DEF BoardInv, BoardGood
<1>5. v.index = index /\ v.text[slot] = a /\ v.spoilt = spoilt
  BY <1>1, <1>4 DEF Post!Tables
<1>6. [t EXCEPT !.text[slot] = a, !.index[b] = ended] = u
  BY DEF Post!Tables
<1>7. index[b] \in Seq(Post(s)!Entry)
  BY <1>1, <1>3, <1>4, Pages DEF BoardGood
<1>8. /\ ended \in Seq(Post(s)!Entry) /\ Len(ended) = Len(index[b]) /\ DOMAIN ended = DOMAIN index[b]
      /\ \A i \in DOMAIN index[b] :
           ended[i].id = index[b][i].id /\ ended[i].slot = index[b][i].slot /\ (ended[i].done => index[b][i].done \/ index[b][i].slot = slot)
  <2> HIDE DEF b, slot
  <2> DEFINE q == index[b]
  <2>1. q \in Seq(Post(s)!Entry) /\ ended = Ended(q, slot)
    BY <1>7
  <2> HIDE DEF ended, q
  <2>2. /\ ended \in Seq(Post(s)!Entry) /\ Len(ended) = Len(q) /\ DOMAIN ended = DOMAIN q
        /\ \A i \in DOMAIN q : ended[i].id = q[i].id /\ ended[i].slot = q[i].slot /\ (ended[i].done => q[i].done \/ q[i].slot = slot)
    BY <2>1, EndedMessages
  <2> QED BY <2>2 DEF q
<1> HIDE DEF t, a, b, slot, ended
<1>9. BoardGood(s, v, writes)
  BY <1>3, <1>4, LineGood
<1>10. \A i \in DOMAIN v.index[b] : v.index[b][i].slot = slot => v.text[slot] = v.index[b][i].id
  BY <1>1, <1>3, <1>5
<1> HIDE DEF v
<1>11. BoardGood(s, Post(s)!Saved(u, b), writes)
  <2>1. ~v.spoilt /\ v.index[b] = index[b]
    BY <1>5
  <2>2. /\ ended \in Seq(Post(s)!Entry) /\ Len(ended) = Len(v.index[b]) /\ DOMAIN ended = DOMAIN v.index[b]
        /\ \A i \in DOMAIN ended :
             ended[i].id = v.index[b][i].id /\ ended[i].slot = v.index[b][i].slot /\
               (ended[i].done => v.index[b][i].done \/ v.index[b][i].slot = slot)
    BY <1>8, <2>1
  <2> QED BY <1>3, <1>9, <1>10, <2>1, <2>2, EndedGood
<1> HIDE DEF u
<1>12. BoardGood(s, Post(s)!Saved(u, b), [writes EXCEPT ![d] = None])
  BY <1>11, LeftGood
<1> QED BY <1>2, <1>6, <1>12, BecomeGood

\* "$abort", and the end of a link.
LEMMA LeavesInv ==
  ASSUME NEW s \in BoardScenes, BoardInv(s), NEW d \in Posters[s].writers, Post(s)!Abort(d) \/ Post(s)!LinkLost(d)
  PROVE  BoardInv(s)'
<1> DEFINE t == Post(s)!Tables
           ws == [writes EXCEPT ![d] = None]
           v == [index |-> index, text |-> text, taken |-> taken, file |-> file, spoilt |-> spoilt']
<1>1. t.index = index /\ t.taken = taken /\ t.text = text /\ t.file = file /\ t.spoilt = spoilt
  BY DEF Post!Tables
<1>2. /\ index' = index /\ text' = text /\ taken' = taken /\ file' = file /\ writes' = ws
      /\ spoilt' \in BOOLEAN /\ (spoilt' = spoilt \/ spoilt' = TRUE)
  <2>1. spoilt \in BOOLEAN
    BY <1>1, Pages DEF BoardInv, BoardGood
  <2> QED BY <2>1 DEF Post!Abort, Post!LinkLost
<1>3. BoardGood(s, t, ws)
  BY LeftGood DEF BoardInv
<1> HIDE DEF ws
<1>4. v.index = t.index /\ v.taken = t.taken /\ v.text = t.text /\ v.file = t.file /\ v.spoilt = spoilt'
  BY <1>1
<1>5. BoardTypes(s, v, ws)
  <2>1. v \in [index : [Post(s)!Board -> Seq(Post(s)!Entry)],
               text : [Post(s)!Slots -> Posters[s].ids \cup {0}],
               taken : SUBSET Post(s)!Slots,
               file : [Post(s)!Board -> Seq([entry : Post(s)!Entry, text : Posters[s].ids \cup {0}])],
               spoilt : BOOLEAN]
    BY <1>1, <1>2, <1>3, Pages DEF BoardGood
  <2> HIDE DEF v, t
  <2> QED BY <1>3, <1>4, <2>1 DEF BoardGood, BoardTypes
<1>6. Post(s)!Tables' = v
  BY <1>2 DEF Post!Tables
<1> HIDE DEF v, t
<1>7. BoardGood(s, v, ws)
  <2>1. Alone(s, v, ws) /\ \A b \in Post(s)!Board : Listed(v, b)
    BY <1>3, <1>4 DEF BoardGood, Alone, Listed
  <2>2. ~v.spoilt => Placed(s, v) /\ AtDesk(s, v, ws) /\ \A b \in Post(s)!Board : FileBacked(v, b)
    <3> SUFFICES ASSUME ~v.spoilt PROVE Placed(s, v) /\ AtDesk(s, v, ws) /\ \A b \in Post(s)!Board : FileBacked(v, b)
      OBVIOUS
    <3>1. ~t.spoilt
      BY <1>1, <1>2, <1>4
    <3> QED BY <1>3, <1>4, <3>1 DEF BoardGood, Placed, AtDesk, FileBacked
  <2> QED BY <1>5, <2>1, <2>2 DEF BoardGood
<1> QED BY <1>2, <1>6, <1>7 DEF BoardInv

\* The messages with a text get slots of their own.
LEMMA LoadedSlots ==
  ASSUME NEW s \in BoardScenes
  PROVE  /\ \A l \in Post(s)!Loaded : Post(s)!LoadedSlot(l[1], l[2]) \in Post(s)!Slots
         /\ \A l, m \in Post(s)!Loaded : Post(s)!LoadedSlot(l[1], l[2]) = Post(s)!LoadedSlot(m[1], m[2]) => l = m
<1> DEFINE L == Post(s)!Loaded
           before(l) == {x \in L : x[1] < l[1] \/ (x[1] = l[1] /\ x[2] <= l[2])}
<1>1. Boards \in Nat /\ MaxMessages \in Nat /\ Spare \in Nat
  BY PostsAssumption DEF Post!BoardsAssumption
<1>2. \A l \in L : Post(s)!LoadedSlot(l[1], l[2]) = Cardinality(before(l))
  <2>1. \A S : Post(s)!Cardinality(S) = Cardinality(S)
    BY DEF Post!Cardinality, Cardinality
  <2>2. \A l \in L : Post(s)!LoadedSlot(l[1], l[2]) =
          Post(s)!Cardinality({x \in Post(s)!Loaded : x[1] < l[1] \/ (x[1] = l[1] /\ x[2] <= l[2])})
    BY Zenon DEF Post!LoadedSlot
  <2> QED BY <2>1, <2>2, Zenon
<1>3. /\ IsFiniteSet(1 .. Boards) /\ Cardinality(1 .. Boards) = Boards
      /\ IsFiniteSet(1 .. MaxMessages) /\ Cardinality(1 .. MaxMessages) = MaxMessages
  BY <1>1, FS_Interval
<1>4. /\ IsFiniteSet((1 .. Boards) \X (1 .. MaxMessages))
      /\ Cardinality((1 .. Boards) \X (1 .. MaxMessages)) = Boards * MaxMessages
  <2> DEFINE A == 1 .. Boards
             B == 1 .. MaxMessages
  <2> HIDE DEF A, B
  <2>1. IsFiniteSet(A) /\ IsFiniteSet(B) /\ Cardinality(A) = Boards /\ Cardinality(B) = MaxMessages
    BY <1>3 DEF A, B
  <2>2. IsFiniteSet(A \X B) /\ Cardinality(A \X B) = Cardinality(A) * Cardinality(B)
    BY <2>1, FS_Product
  <2>3. Cardinality(A \X B) = Boards * MaxMessages
    BY <2>1, <2>2
  <2> QED BY <2>2, <2>3 DEF A, B
<1>5. L \in SUBSET ((1 .. Boards) \X (1 .. MaxMessages))
  BY DEF Post!Loaded, Post!Board
<1>6. IsFiniteSet(L) /\ Cardinality(L) <= Boards * MaxMessages /\ Cardinality(L) \in Nat
  BY <1>4, <1>5, FS_Subset, FS_CardinalityType
<1>7. ASSUME NEW l \in L
      PROVE  /\ IsFiniteSet(before(l)) /\ Cardinality(before(l)) <= Cardinality(L) /\ Cardinality(before(l)) \in Nat
             /\ l \in before(l)
  <2>1. before(l) \in SUBSET L
    OBVIOUS
  <2>2. l[1] \in Nat /\ l[2] \in Nat
    BY <1>5
  <2> HIDE DEF L
  <2>3. l \in before(l)
    BY <2>2
  <2> HIDE DEF before
  <2> QED BY <1>6, <2>1, <2>3, FS_Subset, FS_CardinalityType
<1>8. ASSUME NEW l \in L PROVE Cardinality(before(l)) \in Post(s)!Slots
  <2>1. Cardinality(before(l)) # 0
    <3> HIDE DEF before
    <3> QED BY <1>7, FS_EmptySet
  <2>2. Boards * MaxMessages \in Nat
    BY <1>1
  <2>3. Cardinality(before(l)) <= Boards * MaxMessages + Spare
    <3> HIDE DEF before, L
    <3> QED BY <1>1, <1>6, <1>7, <2>2
  <2> HIDE DEF before, L
  <2> QED BY <1>1, <1>7, <2>1, <2>2, <2>3 DEF Post!Slots
<1>9. ASSUME NEW l \in L, NEW m \in L, l[1] < m[1] \/ (l[1] = m[1] /\ l[2] <= m[2]),
             Cardinality(before(l)) = Cardinality(before(m))
      PROVE  l = m
  <2>1. /\ l[1] \in Nat /\ l[2] \in Nat /\ m[1] \in Nat /\ m[2] \in Nat /\ l = <<l[1], l[2]>> /\ m = <<m[1], m[2]>>
        /\ \A x \in L : x[1] \in Nat /\ x[2] \in Nat
    BY <1>5
  <2> HIDE DEF L
  <2>2. before(l) \in SUBSET before(m)
    BY <1>9, <2>1
  <2>3. before(l) = before(m)
    <3> HIDE DEF before
    <3> QED BY <1>7, <1>9, <2>2, FS_Subset
  <2>4. m \in before(l)
    BY <1>7, <2>3
  <2>5. m[1] < l[1] \/ (m[1] = l[1] /\ m[2] <= l[2])
    BY <2>4
  <2>6. l[1] = m[1] /\ l[2] = m[2]
    BY <1>9, <2>1, <2>5
  <2> QED BY <2>1, <2>6
<1>10. ASSUME NEW l \in L, NEW m \in L, Cardinality(before(l)) = Cardinality(before(m)) PROVE l = m
  <2>1. /\ l[1] \in Nat /\ l[2] \in Nat /\ m[1] \in Nat /\ m[2] \in Nat
    BY <1>5
  <2>2. \/ l[1] < m[1] \/ (l[1] = m[1] /\ l[2] <= m[2])
        \/ m[1] < l[1] \/ (m[1] = l[1] /\ m[2] <= l[2])
    BY <2>1
  <2> HIDE DEF before, L
  <2> QED BY <1>9, <1>10, <2>2
<1> HIDE DEF before
<1> QED BY <1>2, <1>8, <1>10

\* The boards are read from their files.
LEMMA RebootInv == ASSUME NEW s \in BoardScenes, BoardInv(s), Post(s)!Reboot PROVE BoardInv(s)'
<1> DEFINE L == Post(s)!Loaded
           at(b, i) == Post(s)!LoadedSlot(b, i)
           texts(slot) == {0} \cup {file[l[1]][l[2]].text : l \in {k \in L : at(k[1], k[2]) = slot}}
           t == Post(s)!Tables
           v == [index |-> index', text |-> text', taken |-> taken', file |-> file, spoilt |-> spoilt']
           X == [entry : Post(s)!Entry, text : Posters[s].ids \cup {0}]
<1>1. /\ t.index = index /\ t.taken = taken /\ t.text = text /\ t.file = file /\ t.spoilt = spoilt
      /\ v.index = index' /\ v.taken = taken' /\ v.text = text' /\ v.file = file /\ v.spoilt = spoilt'
  BY DEF Post!Tables
<1>2. /\ index' = [b \in Post(s)!Board |-> Post(s)!Board_load_board(b)]
      /\ text' = [slot \in Post(s)!Slots |-> Post(s)!Max(texts(slot))]
      /\ taken' = {at(l[1], l[2]) : l \in L}
      /\ writes' = [d \in Posters[s].writers |-> None]
      /\ spoilt' = (spoilt \/ \E b \in Post(s)!Board : \E i \in DOMAIN file[b] : file[b][i].text = 0)
      /\ file' = file
  BY DEF Post!Reboot
<1>3. Post(s)!Tables' = v
  BY <1>2 DEF Post!Tables
<1>4. /\ file \in [Post(s)!Board -> Seq(X)] /\ \A b \in Post(s)!Board : Len(file[b]) <= MaxMessages
      /\ spoilt \in BOOLEAN /\ (~spoilt => \A b \in Post(s)!Board : FileBacked(t, b))
  BY <1>1, Pages DEF BoardInv, BoardGood, BoardTypes
<1> HIDE DEF t, v
<1>5. ASSUME NEW b \in Post(s)!Board, NEW i \in DOMAIN file[b]
      PROVE  /\ file[b][i] \in X /\ (file[b][i].text # 0 => <<b, i>> \in L) /\ (<<b, i>> \in L => file[b][i].text # 0)
  <2>1. file[b] \in Seq(X) /\ Len(file[b]) <= MaxMessages
    BY <1>4
  <2> HIDE DEF X
  <2>2. file[b][i] \in X /\ i \in 1 .. MaxMessages
    BY <2>1, SlotFacts
  <2> QED BY <2>2 DEF Post!Loaded
<1>6. \A l \in L : l[1] \in Post(s)!Board /\ l[2] \in DOMAIN file[l[1]] /\ file[l[1]][l[2]].text # 0
  BY DEF Post!Loaded
<1>7. /\ \A l \in L : at(l[1], l[2]) \in Post(s)!Slots
      /\ \A l, m \in L : at(l[1], l[2]) = at(m[1], m[2]) => l = m
  BY LoadedSlots
<1> HIDE DEF L, at
\* What is read into a slot.
<1>8. ASSUME NEW slot \in Post(s)!Slots, \A l \in L : at(l[1], l[2]) # slot PROVE text'[slot] = 0
  <2>1. texts(slot) = {0}
    BY <1>8
  <2> HIDE DEF texts
  <2>2. Post(s)!Max({0}) = 0
    BY DEF Post!Max
  <2> QED BY <1>2, <2>1, <2>2
<1>9. ASSUME NEW m \in L PROVE text'[at(m[1], m[2])] = file[m[1]][m[2]].text
  <2> DEFINE slot == at(m[1], m[2])
             words == file[m[1]][m[2]].text
  <2>1. texts(slot) = {0, words}
    BY <1>7
  <2>2. words \in Nat \ {0}
    <3>1. file[m[1]][m[2]] \in X /\ words # 0
      BY <1>5, <1>6
    <3>2. words \in Posters[s].ids \cup {0}
      BY <3>1
    <3> QED BY <3>1, <3>2, SlotFacts
  <2> HIDE DEF texts, words
  <2>3. Post(s)!Max({0, words}) = words
    BY <2>2 DEF Post!Max
  <2>4. text'[slot] = Post(s)!Max(texts(slot))
    BY <1>2, <1>7
  <2> QED BY <2>1, <2>3, <2>4 DEF words
<1> HIDE DEF texts
\* What is read onto a board.
<1>10. ASSUME NEW b \in Post(s)!Board
       PROVE  /\ index'[b] \in Seq(Post(s)!Entry) /\ Len(index'[b]) = Len(file[b]) /\ DOMAIN index'[b] = DOMAIN file[b]
              /\ \A i \in DOMAIN file[b] :
                   /\ index'[b][i].id = file[b][i].entry.id /\ index'[b][i].done = file[b][i].entry.done
                   /\ <<b, i>> \in L => index'[b][i].slot = at(b, i)
  <2> DEFINE one(i) == IF <<b, i>> \in L THEN [file[b][i].entry EXCEPT !.slot = at(b, i)] ELSE file[b][i].entry
  <2>1. index'[b] = [i \in DOMAIN file[b] |-> one(i)]
    BY <1>2 DEF Post!Board_load_board, L, at
  <2>2. ASSUME NEW i \in DOMAIN file[b]
        PROVE  /\ one(i) \in Post(s)!Entry /\ one(i).id = file[b][i].entry.id /\ one(i).done = file[b][i].entry.done
               /\ <<b, i>> \in L => one(i).slot = at(b, i)
    <3>1. file[b][i].entry \in Post(s)!Entry
      BY <1>5
    <3>2. <<b, i>> \in L => at(b, i) \in Post(s)!Slots
      BY <1>7
    <3>3. ASSUME NEW e \in Post(s)!Entry, NEW slot \in Post(s)!Slots
          PROVE  /\ [e EXCEPT !.slot = slot] \in Post(s)!Entry /\ [e EXCEPT !.slot = slot].id = e.id
                 /\ [e EXCEPT !.slot = slot].done = e.done /\ [e EXCEPT !.slot = slot].slot = slot
      BY DEF Post!Entry
    <3> QED BY <3>1, <3>2, <3>3
  <2> HIDE DEF one
  <2>3. Len(file[b]) \in Nat /\ DOMAIN file[b] = 1 .. Len(file[b])
    BY <1>4
  <2>4. index'[b] \in Seq(Post(s)!Entry) /\ Len(index'[b]) = Len(file[b]) /\ DOMAIN index'[b] = DOMAIN file[b]
    <3> DEFINE n == Len(file[b])
    <3>1. index'[b] = [i \in 1 .. n |-> one(i)] /\ \A i \in 1 .. n : one(i) \in Post(s)!Entry
      BY <2>1, <2>2, <2>3
    <3>2. index'[b] \in [1 .. n -> Post(s)!Entry]
      BY <3>1
    <3>3. n \in Nat
      BY <2>3
    <3> HIDE DEF n
    <3>4. index'[b] \in Seq(Post(s)!Entry) /\ Len(index'[b]) = n /\ DOMAIN index'[b] = 1 .. n
      BY <3>2, <3>3
    <3> QED BY <2>3, <3>4 DEF n
  <2> QED BY <2>1, <2>2, <2>4
<1>11. BoardTypes(s, v, writes')
  <2>1. index' \in [Post(s)!Board -> Seq(Post(s)!Entry)]
    BY <1>2, <1>10
  <2>2. text' \in [Post(s)!Slots -> Posters[s].ids \cup {0}]
    <3>1. ASSUME NEW slot \in Post(s)!Slots PROVE text'[slot] \in Posters[s].ids \cup {0}
      <4>1. CASE \A l \in L : at(l[1], l[2]) # slot
        BY <1>8, <4>1
      <4>2. ASSUME NEW m \in L, at(m[1], m[2]) = slot PROVE text'[slot] \in Posters[s].ids \cup {0}
        <5>1. file[m[1]][m[2]] \in X
          BY <1>5, <1>6
        <5> QED BY <1>9, <4>2, <5>1
      <4> QED BY <4>1, <4>2
    <3>2. text' = [slot \in Post(s)!Slots |-> text'[slot]]
      BY <1>2
    <3> QED BY <3>1, <3>2
  <2>3. taken' \in SUBSET Post(s)!Slots /\ spoilt' \in BOOLEAN
    BY <1>2, <1>4, <1>7
  <2>4. v \in [index : [Post(s)!Board -> Seq(Post(s)!Entry)],
               text : [Post(s)!Slots -> Posters[s].ids \cup {0}],
               taken : SUBSET Post(s)!Slots,
               file : [Post(s)!Board -> Seq([entry : Post(s)!Entry, text : Posters[s].ids \cup {0}])],
               spoilt : BOOLEAN]
    BY <1>4, <2>1, <2>2, <2>3 DEF v
  <2>5. \A b \in Post(s)!Board : Len(v.index[b]) <= MaxMessages /\ Len(v.file[b]) <= MaxMessages
    BY <1>1, <1>4, <1>10
  <2>6. writes' \in [Posters[s].writers -> {None} \cup [board : Post(s)!Board, slot : Post(s)!Slots]]
    BY <1>2
  <2> QED BY <2>4, <2>5, <2>6 DEF BoardTypes
<1>12. Alone(s, v, writes') /\ AtDesk(s, v, writes')
  BY <1>2 DEF Alone, AtDesk
<1>13. \A b \in Post(s)!Board : Listed(v, b)
  <2> SUFFICES ASSUME NEW b \in Post(s)!Board, NEW i \in DOMAIN v.file[b]
               PROVE  \E j \in DOMAIN v.index[b] : v.index[b][j].id = v.file[b][i].entry.id
    BY DEF Listed
  <2>1. v.file[b] = file[b] /\ v.index[b] = index'[b] /\ DOMAIN index'[b] = DOMAIN file[b]
    BY <1>1, <1>10
  <2>2. i \in DOMAIN file[b]
    BY <2>1
  <2>3. index'[b][i].id = file[b][i].entry.id
    BY <1>10, <2>2
  <2> QED BY <2>1, <2>2, <2>3
<1>14. ASSUME ~spoilt' PROVE Placed(s, v) /\ \A b \in Post(s)!Board : FileBacked(v, b)
  <2>1. ~spoilt /\ \A b \in Post(s)!Board : \A i \in DOMAIN file[b] : file[b][i].text # 0
    BY <1>2, <1>14
  <2>2. ASSUME NEW b \in Post(s)!Board, NEW i \in DOMAIN file[b]
        PROVE  /\ <<b, i>> \in L /\ file[b][i].text = file[b][i].entry.id
               /\ index'[b][i].id = file[b][i].entry.id /\ index'[b][i].slot = at(b, i)
               /\ at(b, i) \in taken' /\ text'[at(b, i)] = file[b][i].entry.id
    <3>1. <<b, i>> \in L
      BY <1>5, <2>1
    <3>2. file[b][i].text = file[b][i].entry.id
      BY <1>1, <1>4, <2>1 DEF FileBacked
    <3>3. at(b, i) \in taken'
      BY <1>2, <3>1
    <3>4. text'[at(b, i)] = file[b][i].text
      BY <1>9, <3>1
    <3> QED BY <1>10, <3>1, <3>2, <3>3, <3>4
  <2>3. \A b \in Post(s)!Board : FileBacked(v, b)
    <3> SUFFICES ASSUME NEW b \in Post(s)!Board PROVE FileBacked(v, b)
      OBVIOUS
    <3>1. v.file[b] = file[b] /\ v.index[b] = index'[b] /\ DOMAIN index'[b] = DOMAIN file[b]
      BY <1>1, <1>10
    <3>2. ASSUME NEW i \in DOMAIN v.file[b] PROVE v.file[b][i].text \in {0, v.file[b][i].entry.id}
      BY <2>2, <3>1
    <3>3. ASSUME NEW i \in DOMAIN v.index[b], v.index[b][i].done
          PROVE  \E j \in DOMAIN v.file[b] : v.file[b][j].entry.id = v.index[b][i].id /\ v.file[b][j].text = v.index[b][i].id
      <4>1. i \in DOMAIN file[b] /\ v.index[b][i] = index'[b][i]
        BY <3>1
      <4>2. file[b][i].entry.id = v.index[b][i].id /\ file[b][i].text = v.index[b][i].id
        BY <2>2, <4>1
      <4> QED BY <3>1, <4>1, <4>2
    <3> QED BY <3>2, <3>3 DEF FileBacked
  <2>4. ASSUME NEW b \in Post(s)!Board, NEW i \in DOMAIN v.index[b]
        PROVE  /\ v.index[b][i].slot \in v.taken /\ v.text[v.index[b][i].slot] \in {0, v.index[b][i].id}
               /\ v.index[b][i].done => v.text[v.index[b][i].slot] = v.index[b][i].id
    <3>1. i \in DOMAIN file[b] /\ v.index[b][i] = index'[b][i]
      BY <1>1, <1>10
    <3> QED BY <1>1, <2>2, <3>1
  <2>5. ASSUME NEW b \in Post(s)!Board, NEW c \in Post(s)!Board, NEW i \in DOMAIN v.index[b], NEW j \in DOMAIN v.index[c],
               v.index[b][i].slot = v.index[c][j].slot
        PROVE  b = c /\ i = j
    <3>1. i \in DOMAIN file[b] /\ v.index[b][i] = index'[b][i] /\ j \in DOMAIN file[c] /\ v.index[c][j] = index'[c][j]
      BY <1>1, <1>10
    <3>2. <<b, i>> \in L /\ <<c, j>> \in L /\ at(b, i) = at(c, j)
      BY <2>2, <2>5, <3>1
    <3>3. <<b, i>> = <<c, j>>
      BY <1>7, <3>2
    <3> QED BY <3>3
  <2>6. \A x \in Post(s)!Slots : x \notin v.taken => v.text[x] = 0
    BY <1>1, <1>2, <1>8
  <2> QED BY <2>3, <2>4, <2>5, <2>6 DEF Placed
<1>15. BoardGood(s, v, writes')
  BY <1>1, <1>11, <1>12, <1>13, <1>14 DEF BoardGood
<1> QED BY <1>3, <1>15 DEF BoardInv

LEMMA BoardInvNext ==
  ASSUME NEW s \in BoardScenes, BoardInv(s), Post(s)!Next PROVE BoardInv(s)'
<1>1. CASE ~spoilt /\ Post(s)!gen_board
  BY <1>1, PostedInv, Board_remove_msgInv DEF Post!gen_board
<1>2. CASE ~spoilt /\ \E d \in Posters[s].writers : Post(s)!string_add(d) \/ Post(s)!LinkLost(d)
  BY <1>2, LineInv, FinishInv, LeavesInv DEF Post!string_add
<1>3. CASE Post(s)!Reboot
  BY <1>3, RebootInv
<1> QED BY <1>1, <1>2, <1>3 DEF Post!Next

LEMMA BoardInvSound == ASSUME NEW s \in BoardScenes, BoardInv(s) PROVE Post(s)!PostsSound
<1> DEFINE t == Post(s)!Tables
<1>1. t.index = index /\ t.taken = taken /\ t.text = text /\ t.file = file /\ t.spoilt = spoilt
  BY DEF Post!Tables
<1>2. /\ BoardTypes(s, t, writes) /\ Alone(s, t, writes) /\ \A b \in Post(s)!Board : Listed(t, b)
      /\ ~spoilt => Placed(s, t) /\ AtDesk(s, t, writes) /\ \A b \in Post(s)!Board : FileBacked(t, b)
  BY <1>1 DEF BoardInv, BoardGood
<1> HIDE DEF t
<1>3. Post(s)!OneAuthor
  BY <1>1, <1>2 DEF Alone, Post!OneAuthor
<1>4. \A l \in Post(s)!All : l[1] \in Post(s)!Board /\ l[2] \in DOMAIN index[l[1]] /\ l = <<l[1], l[2]>>
  BY DEF Post!All
<1>5. ASSUME ~spoilt, NEW l \in Post(s)!All
      PROVE  /\ Post(s)!At(l).slot \in taken /\ text[Post(s)!At(l).slot] \in {0, Post(s)!At(l).id}
             /\ \A m \in Post(s)!All : l # m => Post(s)!At(l).slot # Post(s)!At(m).slot
             /\ Post(s)!At(l).done => \E i \in DOMAIN file[l[1]] :
                   file[l[1]][i].entry.id = Post(s)!At(l).id /\ file[l[1]][i].text = Post(s)!At(l).id
  <2>1. Placed(s, t) /\ FileBacked(t, l[1])
    BY <1>2, <1>4, <1>5
  <2>2. Post(s)!At(l).slot \in taken /\ text[Post(s)!At(l).slot] \in {0, Post(s)!At(l).id}
    BY <1>1, <1>4, <2>1 DEF Placed, Post!At
  <2>3. \A m \in Post(s)!All : Post(s)!At(l).slot = Post(s)!At(m).slot => l[1] = m[1] /\ l[2] = m[2]
    BY <1>1, <1>4, <2>1 DEF Placed, Post!At
  <2>4. \A m \in Post(s)!All : l # m => Post(s)!At(l).slot # Post(s)!At(m).slot
    BY <1>4, <2>3
  <2>5. Post(s)!At(l).done => \E i \in DOMAIN file[l[1]] :
          file[l[1]][i].entry.id = Post(s)!At(l).id /\ file[l[1]][i].text = Post(s)!At(l).id
    BY <1>1, <1>4, <2>1 DEF FileBacked, Post!At
  <2> QED BY <2>2, <2>4, <2>5
<1>6. Post(s)!OwnText
  BY <1>3, <1>5 DEF Post!OwnText
<1>7. \A b \in Post(s)!Board : \A i \in DOMAIN file[b] : \E j \in DOMAIN index[b] : index[b][j].id = file[b][i].entry.id
  BY <1>1, <1>2 DEF Listed
<1>8. Post(s)!PostsKept
  BY <1>5, <1>7 DEF Post!PostsKept
<1> QED BY <1>6, <1>8 DEF Post!PostsSound

\* On any number of boards of any size, whoever writes, replies, removes, aborts or loses the
\* link while others write, and whenever the game reboots: no writer's text is anybody else's,
\* a headline has its own text or none, and every post that was ended is in the file until it
\* is removed and not after, up to the three paths that spoil the table.
THEOREM PostsAreSound == MCSpec => []PostsSound
<1> DEFINE Inv == \A s \in BoardScenes : scene = s => BoardInv(s)
<1>1. MCInit => Inv
  <2> SUFFICES ASSUME MCInit, NEW s \in BoardScenes, scene = s PROVE BoardInv(s)
    OBVIOUS
  <2>1. Post(s)!Init
    BY DEF MCInit, Shows
  <2> QED BY <2>1, BoardInit DEF BoardInv
<1>2. Inv /\ [MCNext]_<<scene, vars, creating, posting, running, phoning>> => Inv'
  <2> SUFFICES ASSUME Inv, [MCNext]_<<scene, vars, creating, posting, running, phoning>>,
                      NEW s \in BoardScenes, scene' = s
               PROVE  BoardInv(s)'
    OBVIOUS
  <2>1. scene' = scene /\ (Post(s)!Next \/ UNCHANGED posting)
    BY DEF MCNext, Edits, Creates, Posts, Works, Rings
  <2>2. BoardInv(s)
    BY <2>1
  <2>3. CASE UNCHANGED posting
    <3>1. Post(s)!Tables' = Post(s)!Tables /\ writes' = writes
      BY <2>3 DEF posting, Post!Tables
    <3> QED BY <2>2, <3>1 DEF BoardInv
  <2> QED BY <2>1, <2>2, <2>3, BoardInvNext
<1>3. Inv => PostsSound
  BY BoardInvSound DEF PostsSound
<1> QED BY <1>1, <1>2, <1>3, PTL DEF MCSpec

-----------------------------------------------------------------------------
(* The creation of a character.                                             *)

Sheet == [race : Creation!Race \cup {Creation!PR_NONE}, tradition : Creation!Traditions \cup {Creation!PR_NONE},
          points : [Creation!Pointed -> Creation!Slot \cup {0}], paid : 0 .. 1, attributes : Int, nuyen : Int]

\* The question that is asked, or that help was asked at.
Stage == IF question = "CCR_AWAIT_CR" THEN back ELSE question

\* PaidOnce, of a character of a tradition.
PaidFor(c, t) ==
  /\ c.race \in Creation!Race /\ c.paid = 1
  /\ \A s \in Creation!Pointed :
       c.points[s] \in Creation!Slot /\ c.points[s] # Creation!RaceSlot[c.race] /\ c.points[s] # Creation!MagicSlot(t)
  /\ \A s, u \in Creation!Pointed : s # u => c.points[s] # c.points[u]
  /\ c.attributes = Creation!attrib_vals[c.points["attrib"]] - Creation!Minima[c.race]
  /\ c.nuyen \in 0 .. Creation!nuyen_vals[c.points["resource"]]

\* Only the race has a priority.
Raced ==
  /\ ch.race \in Creation!Race /\ ch.paid = 0 /\ ch.points = Creation!NoPoints /\ ch.attributes = 0 /\ ch.nuyen = 0
  /\ pr = [Creation!NoPriorities EXCEPT ![Creation!RaceSlot[ch.race]] = "race"]

\* A slot that holds a setting is the slot its points are of, and no other holds it.
Dealt ==
  /\ ch.race \in Creation!Race /\ ch.paid = 0
  /\ \A i \in Creation!Slot : pr[i] = "race" <=> i = Creation!RaceSlot[ch.race]
  /\ \A i, j \in Creation!Slot : pr[i] \in Creation!Setting /\ pr[i] = pr[j] => i = j
  /\ \A i \in Creation!Slot : pr[i] \in Creation!Pointed => ch.points[pr[i]] = i
  /\ ch.attributes = Creation!AttributesOf(ch.points) /\ ch.nuyen = Creation!NuyenOf(ch.points)

CreationInv ==
  /\ Creation!TypeOK /\ ch \in Sheet
  /\ asking = "CON_RMOTD" => ch.tradition \in Creation!Traditions /\ PaidFor(ch, ch.tradition)
  /\ asking = "CON_CCREATE" =>
       /\ Stage \in {"CCR_SEX", "CCR_RACE"} => ch = Creation!NewCharacter /\ pr = Creation!NoPriorities
       /\ Stage \in {"CCR_TYPE", "CCR_ARCHETYPE"} => Raced
       /\ Stage \in {"CCR_PRIORITY", "CCR_ASSIGN"} => Dealt
       /\ Stage \in {"CCR_TRADITION", "CCR_TOTEM"} => PaidFor(ch, "hermetic")
       /\ Stage = "CCR_TOTEM" => ch.tradition = "shamanic"

-----------------------------------------------------------------------------
LEMMA TableValues ==
  /\ \A r \in Creation!Race : Creation!RaceSlot[r] \in 3 .. 5 /\ Creation!Minima[r] \in 6 .. 11
  /\ \A i \in Creation!Slot : Creation!attrib_vals[i] \in 18 .. 30 /\ Creation!nuyen_vals[i] \in Nat
  /\ \A t : Creation!MagicSlot(t) \in 0 .. 2
<1>1. \A r \in Creation!Race : Creation!RaceSlot[r] \in 3 .. 5 /\ Creation!Minima[r] \in 6 .. 11
  BY DEF Creation!Race, Creation!RaceSlot, Creation!Minima
<1>2. \A i \in Creation!Slot : Creation!attrib_vals[i] \in 18 .. 30 /\ Creation!nuyen_vals[i] \in Nat
  <2> SUFFICES ASSUME NEW i \in Creation!Slot
               PROVE  Creation!attrib_vals[i] \in 18 .. 30 /\ Creation!nuyen_vals[i] \in Nat
    OBVIOUS
  <2>1. i = 1 \/ i = 2 \/ i = 3 \/ i = 4 \/ i = 5
    BY DEF Creation!Slot
  <2> QED BY <2>1, SMT DEF Creation!attrib_vals, Creation!nuyen_vals
<1>3. \A t : Creation!MagicSlot(t) \in 0 .. 2
  BY DEF Creation!MagicSlot
<1> QED BY <1>1, <1>2, <1>3, SMT

\* What is bought is paid.
LEMMA Bills == ASSUME NEW n \in Nat, NEW a PROVE Creation!Outfit(n, a) \in 0 .. n
<1>1. ASSUME NEW k \in Nat, NEW m \in 0 .. k, NEW p \in Nat PROVE Creation!Spend(m, p) \in 0 .. k
  BY SMT DEF Creation!Spend
<1>2. ASSUME NEW k \in Nat, NEW m \in 0 .. k, NEW x \in Nat, NEW y \in Nat, NEW z \in Nat
      PROVE  Creation!Best(m, x, y, z) \in 0 .. k
  BY SMT DEF Creation!Best
<1>3. ASSUME NEW m \in Nat PROVE Creation!WeaponAndArmor(m) \in 0 .. m
  <2> DEFINE armed == Creation!Best(m, 1000, 550, 350)
  <2>1. armed \in 0 .. m
    BY <1>2, SMT
  <2>2. Creation!WeaponAndArmor(m) = Creation!Best(armed, 900, 400, 200)
    BY SMT DEF Creation!WeaponAndArmor
  <2> HIDE DEF armed
  <2> QED BY <1>2, <2>1, <2>2, SMT
<1>4. ASSUME NEW k \in Nat, NEW m \in 0 .. k, NEW x \in Nat, NEW y \in Nat, NEW z \in Nat, NEW u \in Nat, NEW w \in Nat
      PROVE  Creation!Spend(Creation!Spend(Creation!Spend(Creation!Spend(Creation!Spend(m, x), y), z), u), w) \in 0 .. k
  <2> DEFINE a1 == Creation!Spend(m, x)
             a2 == Creation!Spend(a1, y)
             a3 == Creation!Spend(a2, z)
             a4 == Creation!Spend(a3, u)
  <2>1. a1 \in 0 .. k
    BY <1>1
  <2> HIDE DEF a1
  <2>2. a2 \in 0 .. k
    BY <1>1, <2>1
  <2> HIDE DEF a2
  <2>3. a3 \in 0 .. k
    BY <1>1, <2>2
  <2> HIDE DEF a3
  <2>4. a4 \in 0 .. k
    BY <1>1, <2>3
  <2> HIDE DEF a4
  <2>5. Creation!Spend(a4, w) \in 0 .. k
    BY <1>1, <2>4
  <2> QED BY <2>5 DEF a1, a2, a3, a4
<1>5. ASSUME NEW m \in Nat PROVE Creation!DeckerGear(m) \in 0 .. m
  <2> DEFINE jacked == Creation!Spend(m, 1000)
  <2>1. jacked \in 0 .. m
    BY <1>1, SMT
  <2>2. Creation!DeckerGear(m) =
          IF jacked > 6800
            THEN Creation!Spend(Creation!Spend(Creation!Spend(Creation!Spend(Creation!Spend(jacked - 6800, 1200), 1200), 800), 800), 800)
            ELSE jacked
    BY SMT DEF Creation!DeckerGear
  <2> HIDE DEF jacked
  <2>3. CASE jacked > 6800
    <3>1. jacked - 6800 \in 0 .. m
      BY <2>1, <2>3, SMT
    <3> DEFINE rest == jacked - 6800
    <3>2. rest \in 0 .. m
      BY <3>1
    <3>3. Creation!DeckerGear(m) =
            Creation!Spend(Creation!Spend(Creation!Spend(Creation!Spend(Creation!Spend(rest, 1200), 1200), 800), 800), 800)
      BY <2>2, <2>3, SMT
    <3> HIDE DEF rest
    <3>4. 800 \in Nat /\ 1200 \in Nat
      OBVIOUS
    <3> QED BY <1>4, <3>2, <3>3, <3>4, SMT
  <2> QED BY <2>1, <2>2, <2>3, SMT
<1>6. Creation!WeaponAndArmor(n) \in 0 .. n /\ Creation!WeaponAndArmor(n) \in Nat
  BY <1>3
<1> DEFINE armed == Creation!WeaponAndArmor(n)
<1>7. Creation!RiggerGear(armed) \in 0 .. n /\ Creation!SamuraiGear(armed) \in 0 .. n
  <2> HIDE DEF armed
  <2>1. armed \in 0 .. n
    BY <1>6 DEF armed
  <2>2. Creation!Best(armed, 2500, 4000, 2000) \in 0 .. n
    BY <1>2, <2>1, SMT
  <2>3. Creation!RiggerGear(armed) \in 0 .. n
    <3> DEFINE a1 == Creation!Spend(armed, 60000)
               a2 == Creation!Spend(a1, 5500)
               a3 == Creation!Spend(a2, 2500)
               a4 == Creation!Spend(a3, 1000)
    <3>1. a1 \in 0 .. n
      BY <1>1, <2>1, SMT
    <3>2. Creation!RiggerGear(armed) = Creation!Spend(a4, 20000)
      BY SMT DEF Creation!RiggerGear
    <3> HIDE DEF a1
    <3>3. a2 \in 0 .. n
      BY <1>1, <3>1, SMT
    <3> HIDE DEF a2
    <3>4. a3 \in 0 .. n
      BY <1>1, <3>3, SMT
    <3> HIDE DEF a3
    <3>5. a4 \in 0 .. n
      BY <1>1, <3>4, SMT
    <3> HIDE DEF a4
    <3> QED BY <1>1, <3>2, <3>5, SMT
  <2> QED BY <2>2, <2>3, SMT DEF Creation!SamuraiGear
<1>8. Creation!DeckerGear(armed) \in 0 .. n
  <2> HIDE DEF armed
  <2>1. armed \in 0 .. n /\ armed \in Nat
    BY <1>6 DEF armed
  <2>2. Creation!DeckerGear(armed) \in 0 .. armed
    BY <1>5, <2>1
  <2> QED BY <2>1, <2>2
<1> QED BY <1>6, <1>7, <1>8 DEF Creation!Outfit

-----------------------------------------------------------------------------
(* An archetype assigns the priorities.                                     *)

\* The points that were given are of slots of their own, which no race and no magic has.
Given(a) ==
  /\ a \in [pr : [Creation!Slot -> Creation!Setting \cup {"race", Creation!PR_NONE}],
            points : [Creation!Pointed -> Creation!Slot \cup {0}]]
  /\ \A s \in Creation!Pointed : a.points[s] # 0 => a.pr[a.points[s]] \in Creation!Pointed
  /\ \A s, u \in Creation!Pointed : s # u /\ a.points[s] # 0 => a.points[s] # a.points[u]

\* What is assigned stays so.
KeepsGiven(a, b) ==
  /\ \A i \in Creation!Slot : a.pr[i] # Creation!PR_NONE => b.pr[i] = a.pr[i]
  /\ \A s \in Creation!Pointed : a.points[s] # 0 => b.points[s] # 0

LEMMA Placing == ASSUME NEW a, Given(a), NEW s \in Creation!Pointed
                 PROVE  LET b == Creation!Place(a, s) IN
                        /\ Given(b) /\ KeepsGiven(a, b)
                        /\ Creation!Free(a.pr) # {} => b.points[s] # 0
                        /\ \A x, y \in Creation!Free(a.pr) : x # y => x \in Creation!Free(b.pr) \/ y \in Creation!Free(b.pr)
<1> DEFINE F == Creation!Free(a.pr)
           b == Creation!Place(a, s)
<1>1. F \subseteq Creation!Slot /\ \A i \in Creation!Slot : i \in F <=> a.pr[i] = Creation!PR_NONE
  BY DEF Creation!Free
<1>2. CASE F = {}
  <2>1. b = a
    BY <1>2 DEF Creation!Place
  <2> QED BY <1>2, <2>1 DEF KeepsGiven
<1>3. CASE F # {}
  <2> DEFINE i == CHOOSE i \in F : \A j \in F : i <= j
  <2>1. \E k \in F : \A j \in F : k <= j
    <3>1. F \subseteq 1 .. 5
      BY <1>1 DEF Creation!Slot
    <3> HIDE DEF F
    <3>2. 1 \in F \/ 2 \in F \/ 3 \in F \/ 4 \in F \/ 5 \in F
      <4>1. PICK k \in F : k \in 1 .. 5
        BY <1>3, <3>1
      <4>2. k = 1 \/ k = 2 \/ k = 3 \/ k = 4 \/ k = 5
        BY <4>1
      <4> QED BY <4>2
    <3>3. PICK k \in 1 .. 5 : k \in F /\ \A j \in 1 .. 5 : j < k => j \notin F
      <4>1. CASE 1 \in F
        BY <4>1
      <4>2. CASE 1 \notin F /\ 2 \in F
        BY <4>2
      <4>3. CASE 1 \notin F /\ 2 \notin F /\ 3 \in F
        BY <4>3
      <4>4. CASE 1 \notin F /\ 2 \notin F /\ 3 \notin F /\ 4 \in F
        BY <4>4
      <4>5. CASE 1 \notin F /\ 2 \notin F /\ 3 \notin F /\ 4 \notin F /\ 5 \in F
        BY <4>5
      <4> QED BY <3>2, <4>1, <4>2, <4>3, <4>4, <4>5
    <3> QED BY <3>1, <3>3
  <2>2. i \in F
    BY <2>1
  <2>3. b = [pr |-> [a.pr EXCEPT ![i] = s], points |-> [a.points EXCEPT ![s] = i]]
    BY <1>3 DEF Creation!Place
  <2> HIDE DEF i, b, F
  <2>4. i \in Creation!Slot /\ a.pr[i] = Creation!PR_NONE /\ i # 0
    BY <1>1, <2>2 DEF Creation!Slot
  <2>5. s \in Creation!Setting /\ s # Creation!PR_NONE
    BY DEF Creation!Setting, Creation!Pointed, Creation!PR_NONE
  <2>6. /\ a.pr \in [Creation!Slot -> Creation!Setting \cup {"race", Creation!PR_NONE}]
        /\ a.points \in [Creation!Pointed -> Creation!Slot \cup {0}]
    BY DEF Given
  <2>7. /\ b.pr[i] = s /\ \A j \in Creation!Slot : j # i => b.pr[j] = a.pr[j]
        /\ b.points[s] = i /\ \A u \in Creation!Pointed : u # s => b.points[u] = a.points[u]
        /\ b.pr \in [Creation!Slot -> Creation!Setting \cup {"race", Creation!PR_NONE}]
        /\ b.points \in [Creation!Pointed -> Creation!Slot \cup {0}]
    BY <2>3, <2>4, <2>5, <2>6
  <2>8. b \in [pr : [Creation!Slot -> Creation!Setting \cup {"race", Creation!PR_NONE}],
               points : [Creation!Pointed -> Creation!Slot \cup {0}]]
    BY <2>3, <2>7
  <2>9. \A u \in Creation!Pointed : a.points[u] # 0 =>
          a.points[u] \in Creation!Slot /\ a.pr[a.points[u]] \in Creation!Pointed /\ a.points[u] # i
    <3>1. Creation!PR_NONE \notin Creation!Pointed
      BY DEF Creation!Pointed, Creation!PR_NONE
    <3> QED BY <2>4, <2>6, <3>1 DEF Given
  <2>10. \A u \in Creation!Pointed : b.points[u] # 0 => b.pr[b.points[u]] \in Creation!Pointed
    BY <2>7, <2>9
  <2>11. \A u, w \in Creation!Pointed : u # w /\ b.points[u] # 0 => b.points[u] # b.points[w]
    BY <2>4, <2>7, <2>9 DEF Given
  <2>12. KeepsGiven(a, b)
    BY <2>4, <2>7 DEF KeepsGiven
  <2>13. \A x, y \in F : x # y => x \in Creation!Free(b.pr) \/ y \in Creation!Free(b.pr)
    <3> SUFFICES ASSUME NEW x \in F, x # i PROVE x \in Creation!Free(b.pr)
      OBVIOUS
    <3> QED BY <1>1, <2>7 DEF Creation!Free
  <2> QED BY <2>4, <2>7, <2>8, <2>10, <2>11, <2>12, <2>13 DEF Given, b, F
<1> QED BY <1>2, <1>3

LEMMA KeepsOn == ASSUME NEW a, NEW b, NEW c, KeepsGiven(a, b), KeepsGiven(b, c) PROVE KeepsGiven(a, c)
  BY DEF KeepsGiven

ThreePlaces(a, s, u, w) == Creation!Place(Creation!Place(Creation!Place(a, s), u), w)

\* With three slots free, attributes, skills and resources get points.
LEMMA ThreePlaced ==
  ASSUME NEW a, Given(a), NEW s \in Creation!Pointed, NEW u \in Creation!Pointed, NEW w \in Creation!Pointed,
         \E x, y, z \in Creation!Free(a.pr) : x # y /\ y # z /\ x # z
  PROVE  /\ Given(ThreePlaces(a, s, u, w)) /\ KeepsGiven(a, ThreePlaces(a, s, u, w))
         /\ ThreePlaces(a, s, u, w).points[s] # 0 /\ ThreePlaces(a, s, u, w).points[u] # 0
         /\ ThreePlaces(a, s, u, w).points[w] # 0
<1> PICK x \in Creation!Free(a.pr), y \in Creation!Free(a.pr), z \in Creation!Free(a.pr) : x # y /\ y # z /\ x # z
  OBVIOUS
<1> DEFINE a1 == Creation!Place(a, s)
           a2 == Creation!Place(a1, u)
           a3 == Creation!Place(a2, w)
<1>1. /\ Given(a1) /\ KeepsGiven(a, a1) /\ a1.points[s] # 0
      /\ \A k, l \in Creation!Free(a.pr) : k # l => k \in Creation!Free(a1.pr) \/ l \in Creation!Free(a1.pr)
  BY Placing
<1> HIDE DEF a1
<1>2. \E k, l \in Creation!Free(a1.pr) : k # l
  BY <1>1
<1>3. /\ Given(a2) /\ KeepsGiven(a1, a2) /\ a2.points[u] # 0
      /\ \A k, l \in Creation!Free(a1.pr) : k # l => k \in Creation!Free(a2.pr) \/ l \in Creation!Free(a2.pr)
  BY <1>1, <1>2, Placing
<1> HIDE DEF a2
<1>4. Creation!Free(a2.pr) # {}
  BY <1>2, <1>3
<1>5. Given(a3) /\ KeepsGiven(a2, a3) /\ a3.points[w] # 0
  BY <1>3, <1>4, Placing
<1> HIDE DEF a3
<1>6. KeepsGiven(a, a2)
  BY <1>1, <1>3, KeepsOn
<1>7. KeepsGiven(a, a3)
  BY <1>5, <1>6, KeepsOn
<1>8. a3.points[s] # 0 /\ a3.points[u] # 0
  BY <1>1, <1>3, <1>5 DEF KeepsGiven
<1>9. a3 = ThreePlaces(a, s, u, w)
  BY DEF a1, a2, a3, ThreePlaces
<1> QED BY <1>5, <1>7, <1>8, <1>9

\* Every setting comes from a slot of its own, whatever archetype is taken.
LEMMA Assigns == ASSUME Creation!TypeOK, Raced, NEW k \in Creation!Archetype
                 PROVE  LET b == Creation!Assigned(pr, ch.points, k)
                            t == Creation!TraditionOf(k) IN
                        /\ Given(b) /\ \A s \in Creation!Pointed : b.points[s] # 0
                        /\ b.pr[Creation!RaceSlot[ch.race]] = "race"
                        /\ \A s \in Creation!Pointed : b.points[s] # Creation!MagicSlot(t)
<1> DEFINE t == Creation!TraditionOf(k)
           r == Creation!RaceSlot[ch.race]
           m == Creation!MagicSlot(t)
           start == [pr |-> Creation!WithMagic(pr, t), points |-> ch.points]
           b == Creation!Assigned(pr, ch.points, k)
<1>1. r \in 3 .. 5 /\ m \in 0 .. 2
  BY TableValues DEF Raced
<1>2. /\ pr \in [Creation!Slot -> Creation!Setting \cup {"race", Creation!PR_NONE}]
      /\ \A i \in Creation!Slot : pr[i] = IF i = r THEN "race" ELSE Creation!PR_NONE
  BY <1>1 DEF Raced, Creation!NoPriorities, Creation!Slot, Creation!TypeOK
<1>3. /\ start.pr \in [Creation!Slot -> Creation!Setting \cup {"race", Creation!PR_NONE}]
      /\ \A i \in Creation!Slot : start.pr[i] = IF i = m THEN "magic" ELSE IF i = r THEN "race" ELSE Creation!PR_NONE
      /\ start.points = ch.points /\ \A s \in Creation!Pointed : ch.points[s] = 0
  <2> HIDE DEF t
  <2> QED BY <1>2 DEF Creation!WithMagic, Creation!Setting, Raced, Creation!NoPoints
<1>4. Given(start)
  <2>1. ch.points \in [Creation!Pointed -> Creation!Slot \cup {0}]
    BY DEF Creation!TypeOK
  <2>2. start \in [pr : [Creation!Slot -> Creation!Setting \cup {"race", Creation!PR_NONE}],
                   points : [Creation!Pointed -> Creation!Slot \cup {0}]]
    BY <1>3, <2>1
  <2> HIDE DEF start
  <2> QED BY <1>3, <2>2 DEF Given
<1>5. /\ b = Creation!Others(IF k = "rigger" THEN Creation!RiggerFirst(start) ELSE start)
      /\ k = "rigger" => m = 0
  BY DEF Creation!Assigned, Creation!TraditionOf, Creation!MagicSlot
<1> HIDE DEF start, t, r, m, b
<1>6. \E x, y, z \in Creation!Free(start.pr) : x # y /\ y # z /\ x # z
  <2>1. \A i \in 1 .. 5 : i # m /\ i # r => i \in Creation!Free(start.pr)
    <3>1. Creation!Slot = 1 .. 5
      BY DEF Creation!Slot
    <3> QED BY <1>3, <3>1 DEF Creation!Free
  <2>2. \E x \in {3, 4} : x # r
    BY <1>1
  <2>3. PICK x \in 3 .. 5, y \in 3 .. 5, z \in 1 .. 2 : x # r /\ y # r /\ x # y /\ z # m
    <3>1. CASE r = 3
      BY <1>1, <3>1
    <3>2. CASE r = 4
      BY <1>1, <3>2
    <3>3. CASE r = 5
      BY <1>1, <3>3
    <3> QED BY <1>1, <3>1, <3>2, <3>3
  <2>4. x \in Creation!Free(start.pr) /\ y \in Creation!Free(start.pr) /\ z \in Creation!Free(start.pr) /\ x # z /\ y # z
    BY <1>1, <2>1, <2>3
  <2> QED BY <2>3, <2>4
<1>7. "attrib" \in Creation!Pointed /\ "skill" \in Creation!Pointed /\ "resource" \in Creation!Pointed
      /\ \A s \in Creation!Pointed : s = "attrib" \/ s = "skill" \/ s = "resource"
  BY DEF Creation!Pointed
<1>8. Given(b) /\ KeepsGiven(start, b) /\ \A s \in Creation!Pointed : b.points[s] # 0
  <2>1. \A s, u, w \in Creation!Pointed :
          /\ Given(ThreePlaces(start, s, u, w)) /\ KeepsGiven(start, ThreePlaces(start, s, u, w))
          /\ ThreePlaces(start, s, u, w).points[s] # 0 /\ ThreePlaces(start, s, u, w).points[u] # 0
          /\ ThreePlaces(start, s, u, w).points[w] # 0
    BY <1>4, <1>6, ThreePlaced
  <2>2. CASE k # "rigger"
    <3>1. b = ThreePlaces(start, "attrib", "skill", "resource")
      BY <1>5, <2>2 DEF Creation!Others, ThreePlaces
    <3>2. Given(b) /\ KeepsGiven(start, b) /\ b.points["attrib"] # 0 /\ b.points["skill"] # 0 /\ b.points["resource"] # 0
      BY <1>7, <2>1, <3>1
    <3> QED BY <1>7, <3>2
  <2>3. CASE k = "rigger"
    <3> DEFINE first == Creation!Place(Creation!Place(Creation!Place(start, "skill"), "resource"), "attrib")
               b1 == Creation!Place(first, "attrib")
               b2 == Creation!Place(b1, "skill")
    <3>1. Given(first) /\ KeepsGiven(start, first) /\ \A s \in Creation!Pointed : first.points[s] # 0
      <4>1. first = ThreePlaces(start, "skill", "resource", "attrib")
        BY DEF ThreePlaces
      <4> HIDE DEF first
      <4>2. /\ Given(first) /\ KeepsGiven(start, first)
            /\ first.points["skill"] # 0 /\ first.points["resource"] # 0 /\ first.points["attrib"] # 0
        BY <1>7, <2>1, <4>1
      <4> QED BY <1>7, <4>2
    <3>2. b = Creation!Place(b2, "resource")
      BY <1>5, <2>3 DEF Creation!Others, Creation!RiggerFirst
    <3> HIDE DEF first
    <3>3. Given(b1) /\ KeepsGiven(first, b1)
      BY <1>7, <3>1, Placing
    <3> HIDE DEF b1
    <3>4. Given(b2) /\ KeepsGiven(b1, b2)
      BY <1>7, <3>3, Placing
    <3> HIDE DEF b2
    <3>5. Given(b) /\ KeepsGiven(b2, b)
      BY <1>7, <3>2, <3>4, Placing
    <3>6. KeepsGiven(first, b2)
      BY <3>3, <3>4, KeepsOn
    <3>7. KeepsGiven(first, b)
      BY <3>5, <3>6, KeepsOn
    <3>8. KeepsGiven(start, b)
      BY <3>1, <3>7, KeepsOn
    <3> QED BY <3>1, <3>5, <3>7, <3>8 DEF KeepsGiven
  <2> QED BY <2>2, <2>3
<1>9. b.pr[r] = "race" /\ (m # 0 => b.pr[m] = "magic")
  <2>1. r \in Creation!Slot /\ (m # 0 => m \in Creation!Slot) /\ r # m
    BY <1>1 DEF Creation!Slot
  <2>2. start.pr[r] = "race" /\ (m # 0 => start.pr[m] = "magic")
    BY <1>3, <2>1
  <2>3. "race" # Creation!PR_NONE /\ "magic" # Creation!PR_NONE
    BY DEF Creation!PR_NONE
  <2> QED BY <1>8, <2>1, <2>2, <2>3 DEF KeepsGiven
<1>10. \A s \in Creation!Pointed : b.points[s] # m
  <2>1. "magic" \notin Creation!Pointed
    BY DEF Creation!Pointed
  <2> QED BY <1>8, <1>9, <2>1 DEF Given
<1> QED BY <1>8, <1>9, <1>10 DEF b, r, m, t

-----------------------------------------------------------------------------
(* create_parse.                                                            *)

\* A priority for each: nothing is left over.
LEMMA AllSpent == ASSUME Creation!TypeOK, Dealt, \A i \in Creation!Slot : pr[i] # Creation!PR_NONE
                  PROVE  \A s \in Creation!Setting : \E i \in Creation!Slot : pr[i] = s
<1> DEFINE r == Creation!RaceSlot[ch.race]
           S == Creation!Setting
<1>1. r = 3 \/ r = 4 \/ r = 5
  <2>1. r \in 3 .. 5
    BY TableValues DEF Dealt
  <2> QED BY <2>1
<1>2. \A i \in 1 .. 5 : i # r => pr[i] \in S
  BY DEF Dealt, Creation!TypeOK, Creation!Slot, Creation!PR_NONE
<1>3. \A i, j \in 1 .. 5 : pr[i] \in S /\ pr[i] = pr[j] => i = j
  BY DEF Dealt, Creation!Slot
<1> HIDE DEF r, S
<1> SUFFICES ASSUME NEW s \in S, \A i \in 1 .. 5 : pr[i] # s PROVE FALSE
  BY DEF S, Creation!Slot
<1>4. \A x \in S : x = "attrib" \/ x = "skill" \/ x = "resource" \/ x = "magic"
  BY DEF S, Creation!Setting
<1>5. ASSUME NEW i \in 1 .. 5, NEW j \in 1 .. 5, NEW k \in 1 .. 5, NEW l \in 1 .. 5,
             i # r, j # r, k # r, l # r, i # j, i # k, i # l, j # k, j # l, k # l
      PROVE  FALSE
  <2> DEFINE x1 == pr[i]
             x2 == pr[j]
             x3 == pr[k]
             x4 == pr[l]
  <2>1. x1 \in S /\ x2 \in S /\ x3 \in S /\ x4 \in S /\ x1 # s /\ x2 # s /\ x3 # s /\ x4 # s
    BY <1>2, <1>5
  <2>2. x1 # x2 /\ x1 # x3 /\ x1 # x4 /\ x2 # x3 /\ x2 # x4 /\ x3 # x4
    BY <1>3, <1>5, <2>1
  <2> HIDE DEF x1, x2, x3, x4
  <2> QED BY <1>4, <2>1, <2>2
<1>6. CASE r = 3
  BY <1>5, <1>6
<1>7. CASE r = 4
  BY <1>5, <1>7
<1>8. CASE r = 5
  BY <1>5, <1>8
<1> QED BY <1>1, <1>6, <1>7, <1>8

LEMMA PaidOnceHolds == CreationInv => PaidOnce
<1> SUFFICES ASSUME CreationInv PROVE Creation!PaidOnce
  BY DEF CreationInv, PaidOnce
<1> SUFFICES ASSUME Creation!Settled
             PROVE  /\ ch.race \in Creation!Race /\ ch.paid = 1
                    /\ \A s \in Creation!Pointed : ch.points[s] \in Creation!Slot
                    /\ LET price == Creation!Price(ch, IF asking = "CON_RMOTD" THEN ch.tradition ELSE "hermetic") IN
                       \A s, t \in DOMAIN price : s # t => price[s] # price[t]
                    /\ asking = "CON_RMOTD" => ch.tradition \in Creation!Traditions
                    /\ ch.attributes = Creation!attrib_vals[ch.points["attrib"]] - Creation!Minima[ch.race] /\ ch.attributes > 0
                    /\ ch.nuyen \in 0 .. Creation!nuyen_vals[ch.points["resource"]]
  BY DEF Creation!PaidOnce
<1> DEFINE t == IF asking = "CON_RMOTD" THEN ch.tradition ELSE "hermetic"
           price == Creation!Price(ch, t)
<1>1. PaidFor(ch, t) /\ (asking = "CON_RMOTD" => ch.tradition \in Creation!Traditions)
  <2>1. CASE asking = "CON_RMOTD"
    BY <2>1 DEF CreationInv
  <2>2. CASE asking # "CON_RMOTD"
    <3>1. asking = "CON_CCREATE" /\ ch.paid > 0
      BY <2>2 DEF Creation!Settled
    <3>2. Creation!TypeOK
      BY DEF CreationInv
    <3>3. Stage \in {"CCR_SEX", "CCR_RACE"} \/ Stage \in {"CCR_TYPE", "CCR_ARCHETYPE"}
            \/ Stage \in {"CCR_PRIORITY", "CCR_ASSIGN"} \/ Stage \in {"CCR_TRADITION", "CCR_TOTEM"}
      BY <3>2 DEF Stage, Creation!TypeOK, Creation!Modes, Creation!Questions
    <3>4. CASE Stage \in {"CCR_SEX", "CCR_RACE"}
      BY <3>1, <3>4 DEF CreationInv, Creation!NewCharacter
    <3>5. CASE Stage \in {"CCR_TYPE", "CCR_ARCHETYPE"}
      BY <3>1, <3>5 DEF CreationInv, Raced
    <3>6. CASE Stage \in {"CCR_PRIORITY", "CCR_ASSIGN"}
      BY <3>1, <3>6 DEF CreationInv, Dealt
    <3>7. CASE Stage \in {"CCR_TRADITION", "CCR_TOTEM"}
      BY <2>2, <3>1, <3>7 DEF CreationInv
    <3> QED BY <3>3, <3>4, <3>5, <3>6, <3>7
  <2> QED BY <2>1, <2>2
<1> HIDE DEF t
<1>2. DOMAIN price = Creation!Pointed \cup {"race", "magic"}
  BY DEF Creation!Price
<1>3. /\ price["race"] = Creation!RaceSlot[ch.race] /\ price["magic"] = Creation!MagicSlot(t)
      /\ \A s \in Creation!Pointed : price[s] = ch.points[s]
  BY DEF Creation!Price, Creation!Pointed
<1>4. Creation!RaceSlot[ch.race] \in 3 .. 5 /\ Creation!Minima[ch.race] \in 6 .. 11 /\ Creation!MagicSlot(t) \in 0 .. 2
  BY <1>1, TableValues DEF PaidFor
<1> HIDE DEF price
<1>5. \A s, u \in DOMAIN price : s # u => price[s] # price[u]
  BY <1>1, <1>2, <1>3, <1>4 DEF PaidFor
<1>6. Creation!attrib_vals[ch.points["attrib"]] \in 18 .. 30
  <2>1. "attrib" \in Creation!Pointed
    BY DEF Creation!Pointed
  <2> QED BY <1>1, <2>1, TableValues DEF PaidFor
<1>7. ch.attributes > 0
  BY <1>1, <1>4, <1>6 DEF PaidFor
<1> QED BY <1>1, <1>5, <1>7 DEF PaidFor, t, price

\* A character that starts, whatever it is hero of.
LEMMA StartsPaid == ASSUME NEW c \in Sheet, c.tradition \in Creation!Traditions, PaidFor(c, c.tradition),
                           CreationInv, Creation!start_game(c)
                    PROVE  CreationInv'
<1>1. /\ asking' = "CON_RMOTD" /\ ch' = c /\ question' = "CCR_SEX" /\ temp' = 0 /\ back' = Creation!PR_NONE
      /\ pr' = Creation!NoPriorities
  BY DEF Creation!start_game, Creation!init_create_vars
<1>2. Creation!TypeOK'
  <2>1. pr' \in [Creation!Slot -> Creation!Setting \cup {"race", Creation!PR_NONE}]
    BY <1>1 DEF Creation!NoPriorities
  <2>2. /\ ch'.race \in Creation!Race \cup {Creation!PR_NONE} /\ ch'.tradition \in Creation!Traditions \cup {Creation!PR_NONE}
        /\ ch'.points \in [Creation!Pointed -> Creation!Slot \cup {0}] /\ ch'.paid \in 0 .. 1
    BY <1>1 DEF Sheet
  <2> QED BY <1>1, <2>1, <2>2 DEF Creation!TypeOK, Creation!Modes
<1> QED BY <1>1, <1>2 DEF CreationInv, PaidFor

\* A new character.
LEMMA BlankGood == ASSUME asking' \in {"CON_CNFPASSWD", "CON_CCREATE"}, ch' = Creation!NewCharacter, Creation!init_create_vars
                   PROVE  CreationInv'
<1>1. /\ question' = "CCR_SEX" /\ temp' = 0 /\ back' = Creation!PR_NONE /\ pr' = Creation!NoPriorities
  BY DEF Creation!init_create_vars
<1>2. /\ ch' \in Sheet /\ ch'.race = Creation!PR_NONE /\ ch'.tradition = Creation!PR_NONE
      /\ ch'.points \in [Creation!Pointed -> Creation!Slot \cup {0}] /\ ch'.paid = 0
  BY DEF Sheet, Creation!NewCharacter, Creation!NoPoints
<1>3. Creation!TypeOK'
  <2>1. pr' \in [Creation!Slot -> Creation!Setting \cup {"race", Creation!PR_NONE}]
    BY <1>1 DEF Creation!NoPriorities
  <2> QED BY <1>1, <1>2, <2>1 DEF Creation!TypeOK, Creation!Modes
<1> QED BY <1>1, <1>2, <1>3 DEF CreationInv, Stage

\* Help, and its end.
LEMMA HelpGood == ASSUME CreationInv, asking = "CON_CCREATE", asking' = asking, temp' = temp, pr' = pr, ch' = ch,
                         \/ /\ question \in Creation!Questions /\ question' = "CCR_AWAIT_CR" /\ back' = question
                         \/ /\ question = "CCR_AWAIT_CR" /\ question' = back /\ back' = Creation!PR_NONE
                  PROVE  CreationInv'
<1>1. Creation!TypeOK
  BY DEF CreationInv
<1>2. Stage' = Stage
  BY <1>1 DEF Stage, Creation!TypeOK, Creation!Questions
<1>3. Creation!TypeOK'
  BY <1>1 DEF Creation!TypeOK, Creation!Questions, Creation!Modes
<1> QED BY <1>2, <1>3 DEF CreationInv, PaidFor, Raced, Dealt

LEMMA CreationInvInit == Creation!Init => CreationInv
<1> SUFFICES ASSUME Creation!Init PROVE CreationInv
  OBVIOUS
<1>1. /\ asking = "CON_CNFPASSWD" /\ question = "CCR_SEX" /\ temp = 0 /\ back = Creation!PR_NONE
      /\ pr = Creation!NoPriorities /\ ch = Creation!NewCharacter
  BY DEF Creation!Init
<1>2. /\ ch \in Sheet /\ ch.race = Creation!PR_NONE /\ ch.tradition = Creation!PR_NONE
      /\ ch.points \in [Creation!Pointed -> Creation!Slot \cup {0}] /\ ch.paid = 0
  BY <1>1 DEF Sheet, Creation!NewCharacter, Creation!NoPoints
<1>3. pr \in [Creation!Slot -> Creation!Setting \cup {"race", Creation!PR_NONE}]
  BY <1>1 DEF Creation!NoPriorities
<1> QED BY <1>1, <1>2, <1>3 DEF CreationInv, Creation!TypeOK, Creation!Modes

\* "Again" and another question of the same stage, or the next one, without anything else.
LEMMA AsksGood == ASSUME CreationInv, asking = "CON_CCREATE", asking' = asking, temp' = temp, back' = back, pr' = pr, ch' = ch,
                         \/ question' = question
                         \/ question = "CCR_SEX" /\ question' = "CCR_RACE"
                         \/ question = "CCR_TYPE" /\ question' = "CCR_ARCHETYPE"
                  PROVE  CreationInv'
<1>1. Creation!TypeOK
  BY DEF CreationInv
<1>2. Creation!TypeOK'
  BY <1>1 DEF Creation!TypeOK, Creation!Questions, Creation!Modes
<1>3. CASE question' = question
  <2>1. Stage' = Stage
    BY <1>3 DEF Stage
  <2> QED BY <1>2, <2>1 DEF CreationInv, PaidFor, Raced, Dealt
<1>4. CASE question = "CCR_SEX" /\ question' = "CCR_RACE"
  <2>1. ch = Creation!NewCharacter /\ pr = Creation!NoPriorities /\ Stage' = "CCR_RACE" /\ ch \in Sheet
    BY <1>4 DEF CreationInv, Stage
  <2> QED BY <1>2, <2>1 DEF CreationInv
<1>5. CASE question = "CCR_TYPE" /\ question' = "CCR_ARCHETYPE"
  <2>1. Raced /\ Stage' = "CCR_ARCHETYPE" /\ ch \in Sheet
    BY <1>5 DEF CreationInv, Stage
  <2> QED BY <1>2, <2>1 DEF CreationInv, Raced
<1> QED BY <1>3, <1>4, <1>5

LEMMA RaceGood == ASSUME CreationInv, Creation!parse_race PROVE CreationInv'
<1>1. asking = "CON_CCREATE" /\ question = "CCR_RACE" /\ Stage = "CCR_RACE"
  BY DEF Creation!parse_race, Creation!At, Stage
<1>2. ch = Creation!NewCharacter /\ pr = Creation!NoPriorities /\ Creation!TypeOK /\ ch \in Sheet
  BY <1>1 DEF CreationInv
<1>3. CASE Creation!Again
  BY <1>1, <1>3, AsksGood DEF Creation!Again, Creation!vars
<1>4. CASE Creation!HelpOn("CCR_RACE")
  BY <1>1, <1>4, HelpGood DEF Creation!HelpOn, Creation!Questions
<1>5. ASSUME NEW r \in Creation!Race, pr' = [pr EXCEPT ![Creation!RaceSlot[r]] = "race"],
             ch' = [ch EXCEPT !.race = r], question' = "CCR_TYPE", UNCHANGED <<asking, temp, back>>
      PROVE  CreationInv'
  <2>1. Creation!RaceSlot[r] \in 1 .. 5
    BY TableValues
  <2>2. ch' \in Sheet /\ ch'.race = r /\ ch'.paid = 0 /\ ch'.points = Creation!NoPoints /\ ch'.tradition = ch.tradition
      /\ ch'.attributes = 0 /\ ch'.nuyen = 0
    BY <1>2, <1>5 DEF Sheet, Creation!NewCharacter
  <2>3. Raced'
    BY <1>2, <1>5, <2>2 DEF Raced
  <2>4. pr' \in [Creation!Slot -> Creation!Setting \cup {"race", Creation!PR_NONE}]
    BY <1>2, <1>5 DEF Creation!TypeOK
  <2>5. Creation!TypeOK'
    <3>1. ch'.points \in [Creation!Pointed -> Creation!Slot \cup {0}]
      BY <2>2 DEF Sheet
    <3> QED BY <1>1, <1>2, <1>5, <2>2, <2>4, <3>1 DEF Creation!TypeOK, Creation!Modes
  <2>6. Stage' = "CCR_TYPE" /\ asking' = "CON_CCREATE"
    BY <1>1, <1>5 DEF Stage
  <2> QED BY <2>2, <2>3, <2>5, <2>6 DEF CreationInv
<1> QED BY <1>3, <1>4, <1>5 DEF Creation!parse_race

\* Priorities instead of an archetype: none of the settings has one.
LEMMA TypeGood == ASSUME CreationInv, Creation!Type PROVE CreationInv'
<1>1. asking = "CON_CCREATE" /\ question = "CCR_TYPE" /\ Stage = "CCR_TYPE"
  BY DEF Creation!Type, Creation!At, Stage
<1>2. Raced /\ Creation!TypeOK /\ ch \in Sheet
  BY <1>1 DEF CreationInv
<1>3. CASE Creation!Again
  BY <1>1, <1>3, AsksGood DEF Creation!Again, Creation!vars
<1>4. CASE Creation!Ask("CCR_ARCHETYPE")
  BY <1>1, <1>4, AsksGood DEF Creation!Ask
<1>5. CASE Creation!priority_menu /\ UNCHANGED <<asking, temp, back, pr, ch>>
  <2>1. question' = "CCR_PRIORITY" /\ Stage' = "CCR_PRIORITY"
    BY <1>5 DEF Creation!priority_menu, Stage
  <2>2. Creation!TypeOK'
    BY <1>1, <1>2, <1>5, <2>1 DEF Creation!TypeOK, Creation!Modes, Creation!Questions
  <2> DEFINE r == Creation!RaceSlot[ch.race]
  <2>3. r \in 3 .. 5
    BY <1>2, TableValues DEF Raced
  <2>4. \A i \in Creation!Slot : pr[i] = IF i = r THEN "race" ELSE Creation!PR_NONE
    BY <1>2, <2>3 DEF Raced, Creation!NoPriorities, Creation!Slot
  <2>5. Dealt'
    <3>1. ch.attributes = Creation!AttributesOf(ch.points) /\ ch.nuyen = Creation!NuyenOf(ch.points)
      BY <1>2 DEF Raced, Creation!AttributesOf, Creation!NuyenOf, Creation!NoPoints, Creation!Pointed
    <3> QED BY <1>2, <1>5, <2>4, <3>1 DEF Dealt, Raced, Creation!Setting, Creation!Pointed, Creation!PR_NONE
  <2> QED BY <1>1, <1>2, <1>5, <2>1, <2>2, <2>5 DEF CreationInv
<1> QED BY <1>3, <1>4, <1>5 DEF Creation!Type

\* set_attributes.
LEMMA Paying == ASSUME NEW c \in Sheet, NEW n \in Int
                PROVE  LET x == [c EXCEPT !.paid = 1, !.attributes = n] IN
                       /\ x \in Sheet /\ x.race = c.race /\ x.tradition = c.tradition /\ x.points = c.points
                       /\ x.paid = 1 /\ x.attributes = n /\ x.nuyen = c.nuyen
<1> DEFINE x == [c EXCEPT !.paid = 1, !.attributes = n]
<1>1. x \in Sheet
  <2> DEFINE R == Creation!Race \cup {Creation!PR_NONE}
             T == Creation!Traditions \cup {Creation!PR_NONE}
             P == [Creation!Pointed -> Creation!Slot \cup {0}]
             Q == 0 .. 1
  <2>1. Sheet = [race : R, tradition : T, points : P, paid : Q, attributes : Int, nuyen : Int] /\ 1 \in Q
    BY DEF Sheet
  <2> HIDE DEF R, T, P, Q
  <2> QED BY <2>1
<1>2. x.race = c.race /\ x.tradition = c.tradition /\ x.points = c.points /\ x.nuyen = c.nuyen
  BY DEF Sheet
<1>3. x.paid = 1 /\ x.attributes = n
  BY DEF Sheet
<1> QED BY <1>1, <1>2, <1>3

\* What an archetype makes of a race.
LEMMA ArchetypePaid == ASSUME Creation!TypeOK, Raced, ch \in Sheet, NEW a \in Creation!Archetype
                       PROVE  LET given == Creation!Assigned(pr, ch.points, a)
                                  t == Creation!TraditionOf(a)
                                  hero == Creation!set_attributes(
                                            [ch EXCEPT !.tradition = t, !.points = given.points,
                                                       !.attributes = Creation!attrib_vals[given.points["attrib"]],
                                                       !.nuyen = Creation!Outfit(Creation!nuyen_vals[given.points["resource"]], a)]) IN
                              /\ hero \in Sheet /\ hero.tradition = t /\ t \in Creation!Traditions /\ PaidFor(hero, t)
                              /\ given.pr \in [Creation!Slot -> Creation!Setting \cup {"race", Creation!PR_NONE}]
<1> DEFINE given == Creation!Assigned(pr, ch.points, a)
           t == Creation!TraditionOf(a)
           attrib == Creation!attrib_vals[given.points["attrib"]]
           worth == Creation!nuyen_vals[given.points["resource"]]
           nuyen == Creation!Outfit(worth, a)
           dressed == [ch EXCEPT !.tradition = t, !.points = given.points, !.attributes = attrib, !.nuyen = nuyen]
           hero == Creation!set_attributes(dressed)
<1>1. /\ Given(given) /\ \A s \in Creation!Pointed : given.points[s] # 0
      /\ given.pr[Creation!RaceSlot[ch.race]] = "race"
      /\ \A s \in Creation!Pointed : given.points[s] # Creation!MagicSlot(t)
  BY Assigns
<1>2. t \in Creation!Traditions
  BY DEF Creation!TraditionOf, Creation!Traditions
<1> HIDE DEF t, given
<1>3. /\ given.points \in [Creation!Pointed -> Creation!Slot \cup {0}]
      /\ given.pr \in [Creation!Slot -> Creation!Setting \cup {"race", Creation!PR_NONE}]
      /\ \A s \in Creation!Pointed : given.points[s] \in Creation!Slot
  BY <1>1 DEF Given
<1>4. "attrib" \in Creation!Pointed /\ "resource" \in Creation!Pointed
  BY DEF Creation!Pointed
<1>5. attrib \in Int /\ worth \in Nat
  BY <1>3, <1>4, TableValues
<1>6. nuyen \in 0 .. worth
  <2> HIDE DEF worth
  <2> QED BY <1>5, Bills
<1>7. /\ ch.race \in Creation!Race /\ ch.paid = 0 /\ Creation!Minima[ch.race] \in Int
  BY TableValues DEF Raced
<1> HIDE DEF attrib, nuyen
<1>8. /\ dressed \in Sheet /\ dressed.race = ch.race /\ dressed.tradition = t /\ dressed.points = given.points
      /\ dressed.paid = 0 /\ dressed.attributes = attrib /\ dressed.nuyen = nuyen
  <2>1. nuyen \in Int
    <3> HIDE DEF worth
    <3> QED BY <1>5, <1>6
  <2> QED BY <1>2, <1>3, <1>5, <1>7, <2>1 DEF Sheet
<1> HIDE DEF dressed
<1>9. /\ hero \in Sheet /\ hero.race = ch.race /\ hero.tradition = t /\ hero.points = given.points
      /\ hero.paid = 1 /\ hero.attributes = attrib - Creation!Minima[ch.race] /\ hero.nuyen = nuyen
  <2>1. hero = [dressed EXCEPT !.paid = 1, !.attributes = attrib - Creation!Minima[ch.race]]
    BY <1>8 DEF Creation!set_attributes, Sheet
  <2>2. attrib - Creation!Minima[ch.race] \in Int
    BY <1>5, <1>7
  <2> HIDE DEF hero
  <2> QED BY <1>8, <2>1, <2>2, Paying
<1> HIDE DEF hero
<1>10. \A s \in Creation!Pointed : given.points[s] # Creation!RaceSlot[ch.race]
  <2>1. "race" \notin Creation!Pointed
    BY DEF Creation!Pointed
  <2> QED BY <1>1, <2>1 DEF Given
<1>11. \A s, u \in Creation!Pointed : s # u => given.points[s] # given.points[u]
  BY <1>1 DEF Given
<1>12. PaidFor(hero, t)
  BY <1>1, <1>3, <1>6, <1>7, <1>9, <1>10, <1>11 DEF PaidFor, attrib, worth
<1> QED BY <1>2, <1>3, <1>9, <1>12 DEF hero, dressed, nuyen, attrib, worth, given, t

LEMMA ArchetypeGood == ASSUME CreationInv, Creation!parse_archetype PROVE CreationInv'
<1>1. asking = "CON_CCREATE" /\ question = "CCR_ARCHETYPE" /\ Stage = "CCR_ARCHETYPE"
  BY DEF Creation!parse_archetype, Creation!At, Stage
<1>2. Raced /\ Creation!TypeOK /\ ch \in Sheet
  BY <1>1 DEF CreationInv
<1>3. CASE Creation!Again
  BY <1>1, <1>3, AsksGood DEF Creation!Again, Creation!vars
<1>4. CASE Creation!HelpOn("CCR_ARCHETYPE")
  BY <1>1, <1>4, HelpGood DEF Creation!HelpOn, Creation!Questions
<1>5. ASSUME NEW a \in Creation!Archetype,
             LET given == Creation!Assigned(pr, ch.points, a)
                 hero == Creation!set_attributes(
                           [ch EXCEPT !.tradition = Creation!TraditionOf(a), !.points = given.points,
                                      !.attributes = Creation!attrib_vals[given.points["attrib"]],
                                      !.nuyen = Creation!Outfit(Creation!nuyen_vals[given.points["resource"]], a)]) IN
             IF a = "shaman" THEN question' = "CCR_TOTEM" /\ pr' = given.pr /\ ch' = hero /\ UNCHANGED <<asking, temp, back>>
                             ELSE Creation!start_game(hero)
      PROVE  CreationInv'
  <2> DEFINE given == Creation!Assigned(pr, ch.points, a)
             t == Creation!TraditionOf(a)
             hero == Creation!set_attributes(
                       [ch EXCEPT !.tradition = t, !.points = given.points,
                                  !.attributes = Creation!attrib_vals[given.points["attrib"]],
                                  !.nuyen = Creation!Outfit(Creation!nuyen_vals[given.points["resource"]], a)])
  <2>1. /\ hero \in Sheet /\ hero.tradition = t /\ t \in Creation!Traditions /\ PaidFor(hero, t)
        /\ given.pr \in [Creation!Slot -> Creation!Setting \cup {"race", Creation!PR_NONE}]
    BY <1>2, ArchetypePaid
  <2>2. \/ a = "shaman" /\ question' = "CCR_TOTEM" /\ pr' = given.pr /\ ch' = hero /\ UNCHANGED <<asking, temp, back>>
        \/ Creation!start_game(hero)
    BY <1>5
  <2>3. a = "shaman" => t = "shamanic"
    BY DEF Creation!TraditionOf
  <2> HIDE DEF given, t, hero
  <2>4. CASE Creation!start_game(hero)
    BY <2>1, <2>4, StartsPaid
  <2>5. CASE a = "shaman" /\ question' = "CCR_TOTEM" /\ pr' = given.pr /\ ch' = hero /\ UNCHANGED <<asking, temp, back>>
    <3>1. /\ ch'.race \in Creation!Race \cup {Creation!PR_NONE} /\ ch'.tradition \in Creation!Traditions \cup {Creation!PR_NONE}
          /\ ch'.points \in [Creation!Pointed -> Creation!Slot \cup {0}] /\ ch'.paid \in 0 .. 1
      BY <2>1, <2>5 DEF Sheet
    <3>2. Creation!TypeOK'
      BY <1>1, <1>2, <2>1, <2>5, <3>1 DEF Creation!TypeOK, Creation!Modes, Creation!Questions
    <3>3. PaidFor(ch', "hermetic")
      BY <2>1, <2>3, <2>5 DEF PaidFor, Creation!MagicSlot
    <3>4. Stage' = "CCR_TOTEM"
      BY <2>5 DEF Stage
    <3> QED BY <1>1, <2>1, <2>3, <2>5, <3>2, <3>3, <3>4 DEF CreationInv, PaidFor
  <2> QED BY <2>2, <2>4, <2>5
<1> QED BY <1>3, <1>4, <1>5 DEF Creation!parse_archetype

LEMMA TotemGood == ASSUME CreationInv, Creation!parse_totem PROVE CreationInv'
<1>1. asking = "CON_CCREATE" /\ question = "CCR_TOTEM" /\ Stage = "CCR_TOTEM"
  BY DEF Creation!parse_totem, Creation!At, Stage
<1>2. PaidFor(ch, "hermetic") /\ ch \in Sheet /\ ch.tradition = "shamanic"
  BY <1>1 DEF CreationInv
<1>3. CASE Creation!Again
  BY <1>1, <1>3, AsksGood DEF Creation!Again, Creation!vars
<1>4. CASE Creation!HelpOn("CCR_TOTEM")
  BY <1>1, <1>4, HelpGood DEF Creation!HelpOn, Creation!Questions
<1>5. CASE Creation!start_game(ch)
  <2>1. PaidFor(ch, ch.tradition) /\ ch.tradition \in Creation!Traditions
    BY <1>2 DEF PaidFor, Creation!MagicSlot, Creation!Traditions
  <2> QED BY <1>2, <1>5, <2>1, StartsPaid
<1> QED BY <1>3, <1>4, <1>5 DEF Creation!parse_totem

LEMMA TraditionGood == ASSUME CreationInv, Creation!Tradition PROVE CreationInv'
<1>1. asking = "CON_CCREATE" /\ question = "CCR_TRADITION" /\ Stage = "CCR_TRADITION"
  BY DEF Creation!Tradition, Creation!At, Stage
<1>2. PaidFor(ch, "hermetic") /\ ch \in Sheet /\ Creation!TypeOK
  BY <1>1 DEF CreationInv
<1>3. ASSUME NEW t \in {"hermetic", "shamanic"}
      PROVE  LET c == [ch EXCEPT !.tradition = t] IN c \in Sheet /\ c.tradition = t /\ PaidFor(c, t)
  <2> DEFINE c == [ch EXCEPT !.tradition = t]
  <2>1. c \in Sheet
    BY <1>2 DEF Sheet, Creation!Traditions
  <2>2. /\ c.tradition = t /\ c.race = ch.race /\ c.paid = ch.paid /\ c.points = ch.points
        /\ c.attributes = ch.attributes /\ c.nuyen = ch.nuyen
    BY <1>2 DEF Sheet
  <2> HIDE DEF c
  <2>3. PaidFor(c, t)
    BY <1>2, <2>2 DEF PaidFor, Creation!MagicSlot
  <2> QED BY <2>1, <2>2, <2>3 DEF c
<1>4. CASE Creation!Again
  BY <1>1, <1>4, AsksGood DEF Creation!Again, Creation!vars
<1>5. CASE Creation!start_game([ch EXCEPT !.tradition = "hermetic"])
  <2> DEFINE c == [ch EXCEPT !.tradition = "hermetic"]
  <2>1. c \in Sheet /\ c.tradition = "hermetic" /\ PaidFor(c, "hermetic") /\ Creation!start_game(c)
    BY <1>3, <1>5
  <2> HIDE DEF c
  <2>2. "hermetic" \in Creation!Traditions
    BY DEF Creation!Traditions
  <2> QED BY <2>1, <2>2, StartsPaid
<1>6. CASE ch' = [ch EXCEPT !.tradition = "shamanic"] /\ question' = "CCR_TOTEM" /\ UNCHANGED <<asking, temp, back, pr>>
  <2>1. ch' \in Sheet /\ ch'.tradition = "shamanic" /\ PaidFor(ch', "shamanic")
    BY <1>3, <1>6
  <2>2. PaidFor(ch', "hermetic")
    BY <2>1 DEF PaidFor, Creation!MagicSlot
  <2>3. /\ ch'.race \in Creation!Race \cup {Creation!PR_NONE} /\ ch'.tradition \in Creation!Traditions \cup {Creation!PR_NONE}
        /\ ch'.points \in [Creation!Pointed -> Creation!Slot \cup {0}] /\ ch'.paid \in 0 .. 1
    BY <2>1 DEF Sheet
  <2>4. Creation!TypeOK'
    BY <1>1, <1>2, <1>6, <2>3 DEF Creation!TypeOK, Creation!Modes, Creation!Questions
  <2>5. Stage' = "CCR_TOTEM"
    BY <1>6 DEF Stage
  <2> QED BY <1>1, <1>6, <2>1, <2>2, <2>4, <2>5 DEF CreationInv, PaidFor
<1> QED BY <1>4, <1>5, <1>6 DEF Creation!Tradition

\* The attributes are paid for once all is spent: every setting has the points of its own slot.
LEMMA SpentPaid == ASSUME Creation!TypeOK, ch \in Sheet, Dealt, \A i \in Creation!Slot : pr[i] # Creation!PR_NONE,
                          NEW t \in Creation!Traditions, Creation!MagicSlot(t) = 0 \/ pr[Creation!MagicSlot(t)] = "magic"
                   PROVE  LET c == Creation!set_attributes(ch)
                              x == [c EXCEPT !.tradition = t] IN
                          /\ c \in Sheet /\ c.race = ch.race /\ c.paid = 1 /\ PaidFor(c, t)
                          /\ x \in Sheet /\ x.tradition = t /\ PaidFor(x, t)
<1> DEFINE c == Creation!set_attributes(ch)
           x == [c EXCEPT !.tradition = t]
           r == Creation!RaceSlot[ch.race]
           m == Creation!MagicSlot(t)
<1>1. r \in 3 .. 5 /\ Creation!Minima[ch.race] \in Int /\ m \in 0 .. 2 /\ Creation!Slot = 1 .. 5
  BY TableValues DEF Dealt, Creation!Slot
<1>2. ASSUME NEW s \in Creation!Pointed PROVE ch.points[s] \in Creation!Slot /\ pr[ch.points[s]] = s
  <2>1. s \in Creation!Setting
    BY DEF Creation!Setting, Creation!Pointed
  <2>2. PICK i \in Creation!Slot : pr[i] = s
    BY <2>1, AllSpent
  <2> QED BY <2>2 DEF Dealt
<1>3. /\ \A s \in Creation!Pointed : ch.points[s] # r /\ ch.points[s] # m
      /\ \A s, u \in Creation!Pointed : s # u => ch.points[s] # ch.points[u]
  <2>1. \A s \in Creation!Pointed : s # "race" /\ s # "magic"
    BY DEF Creation!Pointed
  <2>2. pr[r] = "race" /\ 0 \notin Creation!Slot
    BY <1>1 DEF Dealt
  <2> HIDE DEF r, m
  <2> QED BY <1>2, <2>1, <2>2 DEF m
<1>4. /\ "attrib" \in Creation!Pointed /\ "resource" \in Creation!Pointed
  BY DEF Creation!Pointed
<1>5. /\ ch.attributes = Creation!attrib_vals[ch.points["attrib"]] /\ ch.nuyen = Creation!nuyen_vals[ch.points["resource"]]
  <2>1. ch.points["attrib"] # 0 /\ ch.points["resource"] # 0
    BY <1>1, <1>2, <1>4
  <2> QED BY <2>1 DEF Dealt, Creation!AttributesOf, Creation!NuyenOf
<1>6. ch.nuyen \in 0 .. Creation!nuyen_vals[ch.points["resource"]]
  <2>1. Creation!nuyen_vals[ch.points["resource"]] \in Nat
    BY <1>2, <1>4, TableValues
  <2> QED BY <1>5, <2>1
<1>7. /\ c \in Sheet /\ c.race = ch.race /\ c.paid = 1 /\ c.points = ch.points /\ c.nuyen = ch.nuyen
      /\ c.attributes = ch.attributes - Creation!Minima[ch.race]
  <2>1. ch.attributes \in Int /\ ch.paid = 0
    BY DEF Sheet, Dealt
  <2> DEFINE n == ch.attributes - Creation!Minima[ch.race]
  <2>2. n \in Int
    BY <1>1, <2>1
  <2>3. c = [ch EXCEPT !.paid = 1, !.attributes = n]
    BY <2>1 DEF Creation!set_attributes, Sheet
  <2> HIDE DEF n, c
  <2>4. c \in Sheet /\ c.race = ch.race /\ c.paid = 1 /\ c.points = ch.points /\ c.nuyen = ch.nuyen /\ c.attributes = n
    BY <2>2, <2>3, Paying
  <2> QED BY <2>4 DEF n
<1> HIDE DEF c
<1>8. PaidFor(c, t)
  BY <1>2, <1>3, <1>5, <1>6, <1>7 DEF PaidFor, Dealt
<1>9. /\ x \in Sheet /\ x.tradition = t /\ x.race = c.race /\ x.paid = c.paid /\ x.points = c.points
      /\ x.attributes = c.attributes /\ x.nuyen = c.nuyen
  BY <1>7 DEF Sheet
<1> HIDE DEF x
<1>10. PaidFor(x, t)
  BY <1>8, <1>9 DEF PaidFor
<1> QED BY <1>7, <1>8, <1>9, <1>10 DEF x, c

LEMMA PriorityGood == ASSUME CreationInv, Creation!Priority PROVE CreationInv'
<1>1. asking = "CON_CCREATE" /\ question = "CCR_PRIORITY" /\ Stage = "CCR_PRIORITY"
  BY DEF Creation!Priority, Creation!ChooseSlot, Creation!Continue, Creation!At, Stage
<1>2. Dealt /\ ch \in Sheet /\ Creation!TypeOK
  BY <1>1 DEF CreationInv
<1>3. CASE Creation!Again
  BY <1>1, <1>3, AsksGood DEF Creation!Again, Creation!vars
<1>4. CASE Creation!HelpOn("CCR_PRIORITY")
  BY <1>1, <1>4, HelpGood DEF Creation!HelpOn, Creation!Questions
<1>5. ASSUME NEW i \in Creation!Slot, pr[i] # "race", question' = "CCR_ASSIGN", temp' = i, UNCHANGED <<asking, back, pr, ch>>
      PROVE  CreationInv'
  <2>1. Creation!TypeOK'
    BY <1>1, <1>2, <1>5 DEF Creation!TypeOK, Creation!Modes, Creation!Questions
  <2>2. Stage' = "CCR_ASSIGN"
    BY <1>5 DEF Stage
  <2>3. Dealt'
    BY <1>2, <1>5 DEF Dealt
  <2> QED BY <1>1, <1>2, <1>5, <2>1, <2>2, <2>3 DEF CreationInv
<1>6. CASE Creation!Continue
  <2> DEFINE c == Creation!set_attributes(ch)
             x(t) == [c EXCEPT !.tradition = t]
  <2>1. \A i \in Creation!Slot : pr[i] # Creation!PR_NONE
    BY <1>6 DEF Creation!Continue
  <2>2. \/ pr[1] = "magic" /\ question' = "CCR_TRADITION" /\ ch' = c /\ UNCHANGED <<asking, temp, back, pr>>
        \/ pr[2] = "magic" /\ Creation!start_game(x("adept"))
        \/ Creation!start_game(x("mundane"))
    BY <1>6 DEF Creation!Continue
  <2>3. ASSUME NEW t \in Creation!Traditions, Creation!MagicSlot(t) = 0 \/ pr[Creation!MagicSlot(t)] = "magic"
        PROVE  /\ c \in Sheet /\ c.race = ch.race /\ c.paid = 1 /\ PaidFor(c, t)
               /\ x(t) \in Sheet /\ x(t).tradition = t /\ PaidFor(x(t), t)
    BY <1>2, <2>1, <2>3, SpentPaid
  <2>4. /\ Creation!MagicSlot("hermetic") = 1 /\ Creation!MagicSlot("adept") = 2 /\ Creation!MagicSlot("mundane") = 0
        /\ "hermetic" \in Creation!Traditions /\ "adept" \in Creation!Traditions /\ "mundane" \in Creation!Traditions
    BY DEF Creation!MagicSlot, Creation!Traditions
  <2> HIDE DEF c, x
  <2>5. CASE pr[1] = "magic" /\ question' = "CCR_TRADITION" /\ ch' = c /\ UNCHANGED <<asking, temp, back, pr>>
    <3>1. ch' \in Sheet /\ PaidFor(ch', "hermetic")
      BY <2>3, <2>4, <2>5
    <3>2. /\ ch'.race \in Creation!Race \cup {Creation!PR_NONE} /\ ch'.tradition \in Creation!Traditions \cup {Creation!PR_NONE}
          /\ ch'.points \in [Creation!Pointed -> Creation!Slot \cup {0}] /\ ch'.paid \in 0 .. 1
      BY <3>1 DEF Sheet
    <3>3. Creation!TypeOK'
      BY <1>1, <1>2, <2>5, <3>2 DEF Creation!TypeOK, Creation!Modes, Creation!Questions
    <3>4. Stage' = "CCR_TRADITION"
      BY <2>5 DEF Stage
    <3> QED BY <1>1, <2>5, <3>1, <3>3, <3>4 DEF CreationInv, PaidFor
  <2>6. CASE pr[2] = "magic" /\ Creation!start_game(x("adept"))
    <3> DEFINE hero == x("adept")
    <3>1. hero \in Sheet /\ hero.tradition = "adept" /\ PaidFor(hero, "adept") /\ Creation!start_game(hero)
      BY <2>3, <2>4, <2>6
    <3> HIDE DEF hero
    <3> QED BY <2>4, <3>1, StartsPaid
  <2>7. CASE Creation!start_game(x("mundane"))
    <3> DEFINE hero == x("mundane")
    <3>1. hero \in Sheet /\ hero.tradition = "mundane" /\ PaidFor(hero, "mundane") /\ Creation!start_game(hero)
      BY <2>3, <2>4, <2>7
    <3> HIDE DEF hero
    <3> QED BY <2>4, <3>1, StartsPaid
  <2> QED BY <2>2, <2>5, <2>6, <2>7
<1> QED BY <1>3, <1>4, <1>5, <1>6 DEF Creation!Priority, Creation!ChooseSlot

\* A priority is assigned, moved or cleared.
LEMMA AssignGood == ASSUME CreationInv, Creation!parse_assign PROVE CreationInv'
<1>1. asking = "CON_CCREATE" /\ question = "CCR_ASSIGN" /\ Stage = "CCR_ASSIGN"
  BY DEF Creation!parse_assign, Creation!At, Stage
<1>2. Dealt /\ ch \in Sheet /\ Creation!TypeOK
  BY <1>1 DEF CreationInv
<1>3. /\ temp \in Creation!Slot /\ pr[temp] # "race"
      /\ pr \in [Creation!Slot -> Creation!Setting \cup {"race", Creation!PR_NONE}]
      /\ ch.points \in [Creation!Pointed -> Creation!Slot \cup {0}]
  BY <1>1, <1>2 DEF Creation!TypeOK
<1>4. Creation!Pointed \subseteq Creation!Setting /\ "race" \notin Creation!Setting /\ Creation!PR_NONE \notin Creation!Setting
      /\ "race" # Creation!PR_NONE
  BY DEF Creation!Pointed, Creation!Setting, Creation!PR_NONE
<1>5. ASSUME NEW points \in [Creation!Pointed -> Creation!Slot \cup {0}]
      PROVE  Creation!AttributesOf(points) \in Int /\ Creation!NuyenOf(points) \in Int
  <2>1. "attrib" \in Creation!Pointed /\ "resource" \in Creation!Pointed
    BY DEF Creation!Pointed
  <2>2. /\ points["attrib"] # 0 => Creation!attrib_vals[points["attrib"]] \in Int
        /\ points["resource"] # 0 => Creation!nuyen_vals[points["resource"]] \in Int
    BY <2>1, TableValues
  <2> QED BY <2>2 DEF Creation!AttributesOf, Creation!NuyenOf
<1>6. CASE Creation!Again
  BY <1>1, <1>6, AsksGood DEF Creation!Again, Creation!vars
\* What becomes of a deal.
<1>7. ASSUME pr' \in [Creation!Slot -> Creation!Setting \cup {"race", Creation!PR_NONE}],
             ch' \in Sheet, ch'.race = ch.race, ch'.tradition = ch.tradition, ch'.paid = ch.paid, Dealt',
             Creation!priority_menu, temp' = 0, UNCHANGED <<asking, back>>
      PROVE  CreationInv'
  <2>1. question' = "CCR_PRIORITY" /\ Stage' = "CCR_PRIORITY"
    BY <1>7 DEF Creation!priority_menu, Stage
  <2>2. ch'.points \in [Creation!Pointed -> Creation!Slot \cup {0}]
    BY <1>7 DEF Sheet
  <2>3. Creation!TypeOK'
    BY <1>1, <1>2, <1>7, <2>1, <2>2 DEF Creation!TypeOK, Creation!Modes, Creation!Questions
  <2> QED BY <1>1, <1>7, <2>1, <2>3 DEF CreationInv
<1>8. ASSUME NEW s \in Creation!Setting, pr' = Creation!Moved(s),
             LET points == IF s \in Creation!Pointed THEN [ch.points EXCEPT ![s] = temp] ELSE ch.points IN
             ch' = [ch EXCEPT !.points = points, !.attributes = Creation!AttributesOf(points), !.nuyen = Creation!NuyenOf(points)],
             Creation!priority_menu, temp' = 0, UNCHANGED <<asking, back>>
      PROVE  CreationInv'
  <2> DEFINE points == IF s \in Creation!Pointed THEN [ch.points EXCEPT ![s] = temp] ELSE ch.points
             n == Creation!AttributesOf(points)
             k == Creation!NuyenOf(points)
  <2>1. /\ points \in [Creation!Pointed -> Creation!Slot \cup {0}]
        /\ s \in Creation!Pointed => points[s] = temp
        /\ \A u \in Creation!Pointed : u # s => points[u] = ch.points[u]
    BY <1>3
  <2> HIDE DEF points
  <2>2. n \in Int /\ k \in Int
    BY <1>5, <2>1
  <2>3. ch' = [ch EXCEPT !.points = points, !.attributes = n, !.nuyen = k]
    BY <1>8 DEF points
  <2> HIDE DEF n, k
  <2>4. /\ ch' \in Sheet /\ ch'.race = ch.race /\ ch'.tradition = ch.tradition /\ ch'.paid = ch.paid
        /\ ch'.points = points /\ ch'.attributes = n /\ ch'.nuyen = k
    <3>1. points \in [Creation!Pointed -> Creation!Slot \cup {0}]
      BY <2>1
    <3>2. ch' \in Sheet
      <4> DEFINE R == Creation!Race \cup {Creation!PR_NONE}
                 T == Creation!Traditions \cup {Creation!PR_NONE}
                 P == [Creation!Pointed -> Creation!Slot \cup {0}]
                 Q == 0 .. 1
      <4>1. Sheet = [race : R, tradition : T, points : P, paid : Q, attributes : Int, nuyen : Int] /\ points \in P
        BY <3>1 DEF Sheet
      <4> HIDE DEF R, T, P, Q
      <4> QED BY <1>2, <2>2, <2>3, <4>1
    <3>3. ch'.race = ch.race /\ ch'.tradition = ch.tradition /\ ch'.paid = ch.paid
      BY <1>2, <2>3 DEF Sheet
    <3>4. ch'.points = points /\ ch'.attributes = n /\ ch'.nuyen = k
      BY <1>2, <2>3 DEF Sheet
    <3> QED BY <3>2, <3>3, <3>4
  <2>5. /\ pr'[temp] = s
        /\ \A i \in Creation!Slot : i # temp => pr'[i] = IF pr[i] = s THEN Creation!PR_NONE ELSE pr[i]
        /\ pr' \in [Creation!Slot -> Creation!Setting \cup {"race", Creation!PR_NONE}]
    BY <1>3, <1>8 DEF Creation!Moved
  <2>6. \A i \in Creation!Slot : pr'[i] = "race" <=> i = Creation!RaceSlot[ch.race]
    BY <1>2, <1>3, <1>4, <2>5 DEF Dealt
  <2>7. \A i, j \in Creation!Slot : pr'[i] \in Creation!Setting /\ pr'[i] = pr'[j] => i = j
    BY <1>2, <1>3, <1>4, <2>5 DEF Dealt
  <2>8. \A i \in Creation!Slot : pr'[i] \in Creation!Pointed => points[pr'[i]] = i
    <3> SUFFICES ASSUME NEW i \in Creation!Slot, pr'[i] \in Creation!Pointed PROVE points[pr'[i]] = i
      OBVIOUS
    <3>1. CASE i = temp
      BY <2>1, <2>5, <3>1
    <3>2. CASE i # temp
      <4>1. pr'[i] = pr[i] /\ pr[i] # s
        BY <1>4, <2>5, <3>2
      <4> QED BY <1>2, <2>1, <4>1 DEF Dealt
    <3> QED BY <3>1, <3>2
  <2>9. Dealt'
    BY <1>2, <2>4, <2>6, <2>7, <2>8 DEF Dealt, n, k
  <2> QED BY <1>7, <1>8, <2>4, <2>5, <2>9
<1>9. CASE pr' = [pr EXCEPT ![temp] = Creation!PR_NONE] /\ Creation!priority_menu /\ temp' = 0 /\ UNCHANGED <<asking, back, ch>>
  <2>1. /\ pr' \in [Creation!Slot -> Creation!Setting \cup {"race", Creation!PR_NONE}]
        /\ \A i \in Creation!Slot : pr'[i] = IF i = temp THEN Creation!PR_NONE ELSE pr[i]
    BY <1>3, <1>9
  <2>2. Dealt'
    BY <1>2, <1>3, <1>4, <1>9, <2>1 DEF Dealt
  <2> QED BY <1>2, <1>7, <1>9, <2>1, <2>2
<1> QED BY <1>6, <1>8, <1>9 DEF Creation!parse_assign

LEMMA CreationInvNext == ASSUME CreationInv, Creation!Next PROVE CreationInv'
<1>1. CASE Creation!Enter
  BY <1>1, BlankGood DEF Creation!Enter
<1>2. CASE Creation!LinkLost
  BY <1>2, BlankGood DEF Creation!LinkLost
<1>3. CASE Creation!Another
  BY <1>3, BlankGood DEF Creation!Another
<1>4. CASE Creation!Sex
  <2>1. asking = "CON_CCREATE" /\ question = "CCR_SEX"
    BY <1>4 DEF Creation!Sex, Creation!At
  <2>2. UNCHANGED <<asking, temp, back, pr, ch>> /\ question' \in {question, "CCR_RACE"}
    BY <1>4 DEF Creation!Sex, Creation!Again, Creation!Ask, Creation!vars
  <2> QED BY <2>1, <2>2, AsksGood
<1>5. CASE Creation!AwaitCr
  BY <1>5, HelpGood DEF Creation!AwaitCr, Creation!At
<1> QED
  BY <1>1, <1>2, <1>3, <1>4, <1>5, RaceGood, TypeGood, ArchetypeGood, TotemGood, PriorityGood, AssignGood, TraditionGood
     DEF Creation!Next, Creation!create_parse

\* Whatever is assigned, moved, cleared and looked up, in any order: a character that starts has
\* paid for race, magic, attributes, skills and resources with five different priorities, and for
\* the minima of its race once (create_parse, assign_priorities, parse_assign).
THEOREM PaidOnceAlways == MCSpec => []PaidOnce
<1>1. MCInit => CreationInv
  BY CreationInvInit DEF MCInit
<1>2. CreationInv /\ [MCNext]_<<scene, vars, creating, posting, running, phoning>> => CreationInv'
  <2> SUFFICES ASSUME CreationInv, [MCNext]_<<scene, vars, creating, posting, running, phoning>>
               PROVE  CreationInv'
    OBVIOUS
  <2>1. Creation!Next \/ UNCHANGED creating
    BY DEF MCNext, Edits, Creates, Posts, Works, Rings
  <2>2. CASE UNCHANGED creating
    <3>1. UNCHANGED <<asking, question, temp, back, pr, ch>>
      BY <2>2 DEF creating
    <3> QED BY <3>1 DEF CreationInv, Creation!TypeOK, Stage, PaidFor, Raced, Dealt
  <2> QED BY <2>1, <2>2, CreationInvNext
<1> QED BY <1>1, <1>2, PaidOnceHolds, PTL DEF MCSpec
=============================================================================
