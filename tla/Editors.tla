------------------------------- MODULE Editors -------------------------------
(***************************************************************************)
(* The on-line editors: a builder's descriptor is in one of them (con), at *)
(* one of its prompts (mode), or writes lines of text (writing), and works *)
(* on a copy that is saved or dropped at the end.  nanny gives every line  *)
(* to the parser of the editor, string_add takes it while d->str is set.   *)
(*                                                                         *)
(* A prompt is named as in the code.  What is kept of a copy is what the   *)
(* menus branch on or point into: the exits and extra descriptions of a    *)
(* room, the trigger steps and exits of a host, the objectives of a quest, *)
(* the flags of a command.  Numbers are in range or out of range, names    *)
(* and texts are left out.  The flags of the character (plr) keep messages *)
(* away from a writer; a broken link leaves them, the next login clears.    *)
(***************************************************************************)
EXTENDS Integers, FiniteSets, SequencesExt

CONSTANTS
  Dir,         \* directions of a room
  ExtraMax,    \* bound of the model: extra descriptions of a room or object
  StepMax,     \* bound of the model: trigger steps and exits of a host
  QMAX,        \* QMAX_OBJS and QMAX_MOBS
  ShopMax,     \* MAX_SHOP_OBJ and MAX_SHOP_ROOMS
  Opened,      \* bound of the model: the editors a builder opens
  None

ASSUME EditorsAssumption ==
  /\ Dir # {} /\ ExtraMax \in Nat \ {0} /\ StepMax \in Nat \ {0}
  /\ QMAX \in Nat \ {0} /\ ShopMax \in Nat \ {0} /\ None \notin Dir

VARIABLES
  con,       \* STATE(d)
  mode,      \* d->edit_mode
  writing,   \* d->str is not NULL
  copy,      \* d->edit_room, edit_obj, ..., with the cursors into it
  plr        \* PLR_FLAGS of the character: those of a writer

vars == <<con, mode, writing, copy, plr>>

-----------------------------------------------------------------------------
(* The moves of an editor.                                                  *)

At(m) == mode = m /\ ~writing

Go(m) == mode' = m /\ UNCHANGED <<con, writing, copy, plr>>

\* A line that is refused, or shown a menu again.
Again == UNCHANGED vars

Put(m, c) == mode' = m /\ copy' = c /\ UNCHANGED <<con, writing, plr>>

\* d->str = new (char *): the lines that follow are text.
Write(m) == mode' = m /\ writing' = TRUE /\ UNCHANGED <<con, copy, plr>>

\* Any line is taken.
Taken(ms, back) == mode \in ms /\ ~writing /\ Go(back)

\* A line out of range is asked for again.
Ranged(ms, back) == mode \in ms /\ ~writing /\ (Go(back) \/ Again)

\* Values asked for one after the other.
Chain(ms, back) ==
  \E i \in DOMAIN ms : Ranged({ms[i]}, IF i < Len(ms) THEN ms[i + 1] ELSE back)

\* Saved, or deleted: the state is CON_PLAYING and the pointer NULL.
Customizing == {"CON_PCUSTOMIZE", "CON_ACUSTOMIZE", "CON_FCUSTOMIZE"}
FlagOf(e) ==
  CASE e \in Customizing -> {"CUSTOMIZE"} [] e = "CON_SPELL_CREATE" -> {"SPELL_CREATE"}
    [] e = "CON_PRO_CREATE" -> {} [] OTHER -> {"EDITING"}
Leave ==
  con' = "CON_PLAYING" /\ mode' = None /\ copy' = None /\ plr' = plr \ FlagOf(con) /\ UNCHANGED writing

\* "Do you wish to edit it?" and, after a clone, "save this internally?".
Confirm(edit, save, menu) ==
  \/ At(edit) /\ (Go(menu) \/ Leave \/ Again)
  \/ At(save) /\ (Leave \/ Again)

-----------------------------------------------------------------------------
(* Copies.                                                                  *)

Plain == [kind |-> "plain"]

Whole == [key |-> TRUE, text |-> TRUE]
Bare == [key |-> FALSE, text |-> FALSE]
Extras == [key : BOOLEAN, text : BOOLEAN]
Complete(x) == x.key /\ x.text

RoomCopies ==
  [kind : {"room"}, exits : SUBSET Dir, way : {None}, extras : {<<>>, <<Whole>>, [i \in 1 .. ExtraMax |-> Whole]},
   at : {0}, rated : BOOLEAN]

\* The steps of a trigger are asked for one by one: step, alert, IC; of an
\* exit, host and address.
HostCopies == [kind : {"host"}, triggers : {<<>>, <<3>>}, exits : {<<>>, <<2>>}]

IcCopies == [kind : {"ic"}, subtyped : BOOLEAN]

\* What an objective asks for; n is edit_number2.
Objective == [load : {"none", "mob", "worn", "place"}, obj : {"none", "mob", "place"}]
NoObjective == [load |-> "none", obj |-> "none"]
QuestCopies == [kind : {"quest"}, n : {0}, mobs : {<<>>, <<NoObjective, NoObjective>>}, objs : {<<>>}]

ShopCopies == [kind : {"shop"}, items : 0 .. ShopMax, rooms : 0 .. ShopMax]

\* The menus of a reset command depend on its letter.
CommandCopies == [kind : {"command"}, letter : {"blank", "M", "S", "E", "R", "D"}]

\* type: of an object, while its values are asked for.
ItemCopies == [kind : {"item"}, extras : {<<>>, <<Whole>>}, at : {0}, type : {"plain"}]

SpellCopy == [kind |-> "spell", named |-> FALSE, category |-> "combat"]
ProgramCopy == [kind |-> "program", type |-> "none"]

\* "if something got left out, delete the extra desc when backing out".
Backed == [copy EXCEPT !.extras = IF Complete(@[copy.at]) THEN @ ELSE SubSeq(@, 1, copy.at - 1),
                       !.at = 0]

\* "You can't edit the next extra desc without completing this one."
NextExtra == [copy EXCEPT !.extras = IF copy.at < Len(@) THEN @ ELSE Append(@, Bare), !.at = @ + 1]

FirstExtra == [copy EXCEPT !.extras = IF @ = <<>> THEN <<Bare>> ELSE @, !.at = 1]

-----------------------------------------------------------------------------
(* redit_parse                                                              *)

ReditConfirm == Confirm("REDIT_CONFIRM_EDIT", "REDIT_CONFIRM_SAVESTRING", "REDIT_MAIN_MENU")

\* Mutant: the exit menu is shown without the exit.
ShowExitNoExit(dir) ==
  Put("REDIT_EXIT_MENU", [copy EXCEPT !.way = dir])

\* redit_disp_exit_menu makes the exit it shows.
ShowExit(dir) ==
  Put("REDIT_EXIT_MENU", [copy EXCEPT !.exits = @ \cup {dir}, !.way = dir])

ReditMain ==
  /\ At("REDIT_MAIN_MENU")
  /\ \/ Leave
     \/ \E m \in {"REDIT_NAME", "REDIT_FLAGS", "REDIT_SECTOR", "REDIT_MATRIX"} : Go(m)
     \/ Write("REDIT_DESC")
     \/ \E dir \in Dir : ShowExit(dir)
     \/ Put("REDIT_EXTRADESC_MENU", FirstExtra)
     \/ copy.rated /\ Go("REDIT_LIBRARY_RATING")
     \/ Again

MatrixFields == {"REDIT_ACCESS", "REDIT_TRACE", "REDIT_COMMLINK", "REDIT_ADDRESS"}
MatrixNumbers == {"REDIT_HOST", "REDIT_IO", "REDIT_BASE", "REDIT_PARENT"}

ReditMatrix ==
  \/ At("REDIT_MATRIX") /\ (Go("REDIT_MAIN_MENU") \/ Again \/ \E m \in MatrixFields \cup MatrixNumbers : Go(m))
  \/ Taken(MatrixFields, "REDIT_MATRIX")
  \/ Ranged(MatrixNumbers, "REDIT_MATRIX")

\* Flags and the sector decide whether the room has a rating.
ReditFlags ==
  \/ Taken({"REDIT_NAME"}, "REDIT_MAIN_MENU")
  \/ At("REDIT_FLAGS") /\ (Go("REDIT_MAIN_MENU") \/ \E r \in BOOLEAN : Put("REDIT_FLAGS", [copy EXCEPT !.rated = r]))
  \/ At("REDIT_SECTOR") /\ (Again \/ \E r \in BOOLEAN : Put("REDIT_MAIN_MENU", [copy EXCEPT !.rated = r]))
  \/ At("REDIT_LIBRARY_RATING") /\ (IF copy.rated THEN Go("REDIT_MAIN_MENU") ELSE Again)

ExitFields == {"REDIT_EXIT_KEYWORD", "REDIT_EXIT_KEY", "REDIT_EXIT_KEY_LEV", "REDIT_EXIT_HIDDEN"}
ExitNumbers == {"REDIT_EXIT_NUMBER", "REDIT_EXIT_DOORFLAGS", "REDIT_EXIT_MATERIAL", "REDIT_EXIT_BARRIER"}

ReditExit ==
  \/ /\ At("REDIT_EXIT_MENU")
     /\ \/ Go("REDIT_MAIN_MENU")
        \/ \E m \in ExitFields \cup ExitNumbers : Go(m)
        \/ Write("REDIT_EXIT_DESCRIPTION")
        \/ Put("REDIT_MAIN_MENU", [copy EXCEPT !.exits = @ \ {copy.way}])
        \/ Again
  \/ mode \in ExitFields /\ ~writing /\ ShowExit(copy.way)
  \/ mode \in ExitNumbers /\ ~writing /\ (ShowExit(copy.way) \/ Again)

Extra(menu, key, text, back) ==
  \/ /\ At(menu)
     /\ \/ Put(back, Backed)
        \/ Go(key)
        \/ Write(text)
        \/ Complete(copy.extras[copy.at]) /\ copy.at < ExtraMax /\ Put(menu, NextExtra)
        \/ Again
  \/ At(key) /\ Put(menu, [copy EXCEPT !.extras[copy.at].key = TRUE])

ReditExtra == Extra("REDIT_EXTRADESC_MENU", "REDIT_EXTRADESC_KEY", "REDIT_EXTRADESC_DESCRIPTION", "REDIT_MAIN_MENU")

Redit == con = "CON_REDIT" /\ (ReditConfirm \/ ReditMain \/ ReditMatrix \/ ReditFlags \/ ReditExit \/ ReditExtra)

-----------------------------------------------------------------------------
(* vedit_parse                                                              *)

VeditNames == {"VEDIT_EDIT_NAMELIST", "VEDIT_SHORTDESC", "VEDIT_DESC", "VEDIT_ARRIVE", "VEDIT_LEAVE", "VEDIT_TYPE"}
VeditNumbers == {"VEDIT_HAND", "VEDIT_SP", "VEDIT_ACC", "VEDIT_BOD", "VEDIT_ARMOR", "VEDIT_SIG",
                 "VEDIT_AUTO", "VEDIT_PILOT", "VEDIT_SEAT", "VEDIT_LOAD"}

VeditConfirm == Confirm("VEDIT_CONFIRM_EDIT", "VEDIT_CONFIRM_SAVESTRING", "VEDIT_MAIN_MENU")

VeditMain ==
  \/ At("VEDIT_MAIN_MENU") /\
       (Leave \/ Again \/ Go("VEDIT_ATT") \/ (\E m \in VeditNames : Go(m)) \/ Write("VEDIT_LONGDESC") \/ Write("VEDIT_INSDESC"))
  \/ Taken(VeditNames, "VEDIT_MAIN_MENU")

VeditAttributes ==
  \/ At("VEDIT_ATT") /\ (Go("VEDIT_MAIN_MENU") \/ Again \/ \E m \in VeditNumbers \cup {"VEDIT_COST"} : Go(m))
  \/ Ranged(VeditNumbers, "VEDIT_ATT")
  \/ Taken({"VEDIT_COST"}, "VEDIT_ATT")

Vedit == con = "CON_VEDIT" /\ (VeditConfirm \/ VeditMain \/ VeditAttributes)

-----------------------------------------------------------------------------
(* medit_parse                                                              *)

MeditNames == {"MEDIT_EDIT_NAMELIST", "MEDIT_SHORT_DESCR", "MEDIT_ARRIVE_MSG", "MEDIT_LEAVE_MSG",
               "MEDIT_GENDER", "MEDIT_ATTACK_TYPE"}
MeditNumbers == {"MEDIT_EXPERIENCE", "MEDIT_LEVEL", "MEDIT_BALLISTIC", "MEDIT_IMPACT", "MEDIT_PHYSICAL",
                 "MEDIT_MENTAL", "MEDIT_POSITION", "MEDIT_DEFAULT_POSITION", "MEDIT_WEIGHT", "MEDIT_HEIGHT",
                 "MEDIT_CLASS"}
MeditMenus == {"MEDIT_MOB_FLAGS", "MEDIT_AFF_FLAGS", "MEDIT_ATTRIBUTES", "MEDIT_SKILLS", "MEDIT_NUYEN"}
MeditAbilities == {"MEDIT_BOD", "MEDIT_QUI", "MEDIT_STR", "MEDIT_CHA", "MEDIT_INT", "MEDIT_WIL", "MEDIT_MAG"}
MeditSkill == [MEDIT_SKILL1 |-> "MEDIT_SKILL1_VAL", MEDIT_SKILL2 |-> "MEDIT_SKILL2_VAL", MEDIT_SKILL3 |-> "MEDIT_SKILL3_VAL",
               MEDIT_SKILL4 |-> "MEDIT_SKILL4_VAL", MEDIT_SKILL5 |-> "MEDIT_SKILL5_VAL"]
MeditLevels == { MeditSkill[m] : m \in DOMAIN MeditSkill }

MeditConfirm == Confirm("MEDIT_CONFIRM_EDIT", "MEDIT_CONFIRM_SAVESTRING", "MEDIT_MAIN_MENU")

MeditMain ==
  At("MEDIT_MAIN_MENU") /\
    (Leave \/ Again \/ (\E m \in MeditNames \cup MeditNumbers \cup MeditMenus : Go(m))
       \/ Write("MEDIT_REG_DESCR") \/ Write("MEDIT_LONG_DESCR"))

MeditValues ==
  \/ Taken(MeditNames, "MEDIT_MAIN_MENU")
  \/ Ranged(MeditNumbers, "MEDIT_MAIN_MENU")
  \/ Ranged({"MEDIT_MOB_FLAGS", "MEDIT_AFF_FLAGS"}, "MEDIT_MAIN_MENU")
  \/ Ranged({"MEDIT_NUYEN"}, "MEDIT_CREDSTICK")
  \/ Ranged({"MEDIT_CREDSTICK"}, "MEDIT_MAIN_MENU")

MeditSkills ==
  \/ At("MEDIT_SKILLS") /\ (Go("MEDIT_MAIN_MENU") \/ Again \/ \E m \in DOMAIN MeditSkill : Go(m))
  \/ mode \in DOMAIN MeditSkill /\ ~writing /\ (Go("MEDIT_SKILLS") \/ Go(MeditSkill[mode]) \/ Again)
  \/ Ranged(MeditLevels, "MEDIT_SKILLS")

MeditAttributes ==
  \/ At("MEDIT_ATTRIBUTES") /\ (Go("MEDIT_MAIN_MENU") \/ Again \/ \E m \in MeditAbilities : Go(m))
  \/ Ranged(MeditAbilities, "MEDIT_ATTRIBUTES")

Medit == con = "CON_MEDIT" /\ (MeditConfirm \/ MeditMain \/ MeditValues \/ MeditSkills \/ MeditAttributes)

-----------------------------------------------------------------------------
(* hedit_parse                                                              *)

HeditTexts == {"HEDIT_NAME", "HEDIT_KEYWORDS", "HEDIT_SSTART", "HEDIT_SSTOP"}
HeditSecurity == <<"HEDIT_SECURITY_COLOUR", "HEDIT_SECURITY_RATING", "HEDIT_SECURITY_DIFF">>
HeditSubsystems == {"HEDIT_RATINGS_ACCESS", "HEDIT_RATINGS_CONTROL", "HEDIT_RATINGS_INDEX",
                    "HEDIT_RATINGS_FILES", "HEDIT_RATINGS_SLAVE"}
HeditMenus == {"HEDIT_RATINGS", "HEDIT_EXTRA_MENU", "HEDIT_TRIGGER", "HEDIT_EXIT"}

\* Scramble ratings are asked for with the trapdoor that follows them.
HeditExtras == [HEDIT_EXTRA_ACCESS |-> "HEDIT_EXTRA_ACCESS2", HEDIT_EXTRA_FILES |-> "HEDIT_EXTRA_FILES2",
                HEDIT_EXTRA_SLAVE |-> "HEDIT_EXTRA_SLAVE2"]
HeditTrapdoors == {"HEDIT_EXTRA_CONTROL", "HEDIT_EXTRA_INDEX", "HEDIT_EXTRA_ACCESS2", "HEDIT_EXTRA_FILES2", "HEDIT_EXTRA_SLAVE2"}

HeditConfirm == Confirm("HEDIT_CONFIRM_EDIT", "HEDIT_CONFIRM_SAVESTRING", "HEDIT_MAIN_MENU")

HeditMain ==
  \/ At("HEDIT_MAIN_MENU") /\
       (Leave \/ Again \/ Write("HEDIT_DESC")
          \/ \E m \in HeditTexts \cup HeditMenus \cup {"HEDIT_PARENT", "HEDIT_TYPE", HeditSecurity[1]} : Go(m))
  \/ Taken(HeditTexts, "HEDIT_MAIN_MENU")
  \/ Ranged({"HEDIT_PARENT", "HEDIT_TYPE"}, "HEDIT_MAIN_MENU")
  \/ Chain(HeditSecurity, "HEDIT_MAIN_MENU")

HeditRatings ==
  \/ At("HEDIT_RATINGS") /\ (Go("HEDIT_MAIN_MENU") \/ Again \/ \E m \in HeditSubsystems : Go(m))
  \/ Ranged(HeditSubsystems, "HEDIT_RATINGS")
  \/ At("HEDIT_EXTRA_MENU") /\
       (Go("HEDIT_MAIN_MENU") \/ Again
          \/ \E m \in DOMAIN HeditExtras \cup {"HEDIT_EXTRA_CONTROL", "HEDIT_EXTRA_INDEX"} : Go(m))
  \/ mode \in DOMAIN HeditExtras /\ ~writing /\ Go(HeditExtras[mode])
  \/ Taken(HeditTrapdoors, "HEDIT_EXTRA_MENU")

\* A new step is the head of the list, and so is the one deleted: the loop
\* that should count to the number breaks in its first turn.
HeditTrigger ==
  \/ At("HEDIT_TRIGGER") /\ (Again \/ \E m \in {"HEDIT_MAIN_MENU", "HEDIT_TRIGGER_ADD", "HEDIT_TRIGGER_DEL"} : Go(m))
  \/ /\ At("HEDIT_TRIGGER_ADD")
     /\ \/ Go("HEDIT_TRIGGER")
        \/ Len(copy.triggers) < StepMax /\ Put("HEDIT_TRIGGER_ADD2", [copy EXCEPT !.triggers = <<1>> \o @])
  \/ At("HEDIT_TRIGGER_ADD2") /\ (Again \/ Put("HEDIT_TRIGGER_ADD3", [copy EXCEPT !.triggers[1] = 2]))
  \/ At("HEDIT_TRIGGER_ADD3") /\ (Again \/ Put("HEDIT_TRIGGER", [copy EXCEPT !.triggers[1] = 3]))
  \/ At("HEDIT_TRIGGER_DEL") /\
       (Go("HEDIT_TRIGGER") \/ (copy.triggers # <<>> /\ Put("HEDIT_TRIGGER", [copy EXCEPT !.triggers = Tail(@)])))

HeditExit ==
  \/ At("HEDIT_EXIT") /\ (Again \/ \E m \in {"HEDIT_MAIN_MENU", "HEDIT_EXIT_ADD", "HEDIT_EXIT_DEL"} : Go(m))
  \/ /\ At("HEDIT_EXIT_ADD")
     /\ \/ Go("HEDIT_EXIT")
        \/ Len(copy.exits) < StepMax /\ Put("HEDIT_EXIT_ADD2", [copy EXCEPT !.exits = <<1>> \o @])
  \/ At("HEDIT_EXIT_ADD2") /\ Put("HEDIT_EXIT", [copy EXCEPT !.exits[1] = 2])
  \/ At("HEDIT_EXIT_DEL") /\
       (Go("HEDIT_EXIT") \/ (copy.exits # <<>> /\ Put("HEDIT_EXIT", [copy EXCEPT !.exits = Tail(@)])))

Hedit == con = "CON_HEDIT" /\ (HeditConfirm \/ HeditMain \/ HeditRatings \/ HeditTrigger \/ HeditExit)

-----------------------------------------------------------------------------
(* icedit_parse                                                             *)

IceditTexts == {"ICEDIT_NAME", "ICEDIT_ROOM", "ICEDIT_TRAP", "ICEDIT_EXPERT"}

IceditConfirm == Confirm("ICEDIT_CONFIRM_EDIT", "ICEDIT_CONFIRM_SAVESTRING", "ICEDIT_MAIN_MENU")

\* Only some types of IC have a subtype.
IceditMain ==
  /\ At("ICEDIT_MAIN_MENU")
  /\ \/ Leave
     \/ Write("ICEDIT_DESC")
     \/ \E m \in IceditTexts \cup {"ICEDIT_TYPE", "ICEDIT_OPTION_MENU"} : Go(m)
     \/ copy.subtyped /\ Go("ICEDIT_SUBTYPE")
     \/ Again

IceditValues ==
  \/ Taken(IceditTexts, "ICEDIT_MAIN_MENU")
  \/ Ranged({"ICEDIT_OPTION_MENU", "ICEDIT_RATING", "ICEDIT_SUBTYPE"}, "ICEDIT_MAIN_MENU")
  \/ At("ICEDIT_TYPE") /\ (Again \/ \E s \in BOOLEAN : Put("ICEDIT_RATING", [copy EXCEPT !.subtyped = s]))

Icedit == con = "CON_ICEDIT" /\ (IceditConfirm \/ IceditMain \/ IceditValues)

-----------------------------------------------------------------------------
(* qedit_parse                                                              *)

QeditTexts == {"QEDIT_INTRO", "QEDIT_DECLINE", "QEDIT_QUIT", "QEDIT_FINISH", "QEDIT_SSTRING", "QEDIT_ESTRING", "QEDIT_DONE"}
QeditNumbers == {"QEDIT_JOHNSON", "QEDIT_TIME", "QEDIT_NUYEN", "QEDIT_KARMA", "QEDIT_REWARD"}
QeditReputation == <<"QEDIT_MIN_REP", "QEDIT_MAX_REP">>
QeditHours == <<"QEDIT_SHOUR", "QEDIT_EHOUR">>

QeditConfirm == Confirm("QEDIT_CONFIRM_EDIT", "QEDIT_CONFIRM_SAVESTRING", "QEDIT_MAIN_MENU")

QeditMain ==
  \/ At("QEDIT_MAIN_MENU") /\
       (Leave \/ Again \/ Write("QEDIT_INFO")
          \/ \E m \in QeditTexts \cup QeditNumbers \cup {QeditReputation[1], QeditHours[1], "QEDIT_M_MENU", "QEDIT_O_MENU"} : Go(m))
  \/ Taken(QeditTexts, "QEDIT_MAIN_MENU")
  \/ Ranged(QeditNumbers, "QEDIT_MAIN_MENU")
  \/ Chain(QeditReputation, "QEDIT_MAIN_MENU")
  \/ Chain(QeditHours, "QEDIT_MAIN_MENU")

\* qedit_disp_mob_menu and qedit_disp_obj_menu reset the cursor.
Objectives(m, c) == Put(m, [c EXCEPT !.n = 0])

\* "Enter M# to edit", or the entry after the last.
QeditList(menu, await, vnum, list) ==
  \/ /\ At(menu)
     /\ \/ Go(await)
        \/ Len(copy[list]) < QMAX /\ Put(vnum, [copy EXCEPT !.n = Len(copy[list]), ![list] = Append(@, NoObjective)])
        \/ Go("QEDIT_MAIN_MENU")
        \/ Again
  \/ /\ At(await)
     /\ \/ Objectives(menu, copy)
        \/ \E i \in DOMAIN copy[list] : Put(vnum, [copy EXCEPT !.n = i - 1])

\* The objective the cursor is on.
Set(list, field, value) == [copy EXCEPT ![list][copy.n + 1][field] = value]
Kind(list, field) == copy[list][copy.n + 1][field]

QeditMobs ==
  \/ QeditList("QEDIT_M_MENU", "QEDIT_M_AWAIT_NUMBER", "QEDIT_M_VNUM", "mobs")
  \/ Chain(<<"QEDIT_M_VNUM", "QEDIT_M_NUYEN", "QEDIT_M_KARMA">>, "QEDIT_M_LOAD")
  \/ At("QEDIT_M_LOAD") /\
       (Again \/ Put("QEDIT_M_LDATA", Set("mobs", "load", "place")) \/ Put("QEDIT_M_OBJECTIVE", Set("mobs", "load", "none")))
  \/ Ranged({"QEDIT_M_LDATA"}, "QEDIT_M_OBJECTIVE")
  \/ At("QEDIT_M_OBJECTIVE") /\
       (Again \/ Objectives("QEDIT_M_MENU", Set("mobs", "obj", "none"))
          \/ \E o \in {"place", "mob"} : Put("QEDIT_M_ODATA", Set("mobs", "obj", o)))
  \/ At("QEDIT_M_ODATA") /\ (Again \/ Objectives("QEDIT_M_MENU", copy))

\* 'q' at the M# of a hunt zeroes the entry and takes one off the count: the
\* last entry is dropped whichever the cursor is on.
QeditHunt ==
  /\ At("QEDIT_M_ODATA") /\ Kind("mobs", "obj") = "mob"
  /\ LET zeroed == [copy.mobs EXCEPT ![copy.n + 1] = NoObjective] IN
     Objectives("QEDIT_M_MENU", [copy EXCEPT !.mobs = Front(zeroed)])

QeditObjs ==
  \/ QeditList("QEDIT_O_MENU", "QEDIT_O_AWAIT_NUMBER", "QEDIT_O_VNUM", "objs")
  \/ Chain(<<"QEDIT_O_VNUM", "QEDIT_O_NUYEN", "QEDIT_O_KARMA">>, "QEDIT_O_LOAD")
  \/ At("QEDIT_O_LOAD") /\
       (Again \/ Put("QEDIT_O_OBJECTIVE", Set("objs", "load", "none"))
          \/ \E l \in {"mob", "worn", "place"} : Put("QEDIT_O_LDATA", Set("objs", "load", l)))

\* Where an item is loaded, and what must be done with it.
QeditFetch ==
  \/ Ranged({"QEDIT_O_LDATA"}, IF Kind("objs", "load") = "worn" THEN "QEDIT_O_LDATA2" ELSE "QEDIT_O_OBJECTIVE")
  \/ Ranged({"QEDIT_O_LDATA2"}, "QEDIT_O_OBJECTIVE")
  \/ At("QEDIT_O_OBJECTIVE") /\
       (Again \/ Objectives("QEDIT_O_MENU", Set("objs", "obj", "none"))
          \/ \E o \in {"mob", "place"} : Put("QEDIT_O_ODATA", Set("objs", "obj", o)))
  \/ At("QEDIT_O_ODATA") /\ (Again \/ Objectives("QEDIT_O_MENU", copy))

Qedit == con = "CON_QEDIT" /\ (QeditConfirm \/ QeditMain \/ QeditMobs \/ QeditHunt \/ QeditObjs \/ QeditFetch)

-----------------------------------------------------------------------------
(* shedit_parse                                                             *)

SheditTexts == {"SHEDIT_NO_SUCH_ITEM1", "SHEDIT_NO_SUCH_ITEM2", "SHEDIT_MISSING_CASH1", "SHEDIT_MISSING_CASH2",
                "SHEDIT_DO_NOT_BUY", "SHEDIT_MESSAGE_BUY", "SHEDIT_MESSAGE_SELL"}
SheditNumbers == {"SHEDIT_PROFIT_SELL", "SHEDIT_PROFIT_BUY", "SHEDIT_PERCENTAGE", "SHEDIT_BUY_TYPE_MENU",
                  "SHEDIT_TEMPER", "SHEDIT_BITVECTOR", "SHEDIT_KEEPER", "SHEDIT_WITH_WHO",
                  "SHEDIT_OPEN1", "SHEDIT_CLOSE1", "SHEDIT_OPEN2", "SHEDIT_CLOSE2"}

SheditConfirm == Confirm("SHEDIT_CONFIRM_EDIT", "SHEDIT_CONFIRM_SAVESTRING", "SHEDIT_MAIN_MENU")

\* The lists of goods and of rooms are entered anew.
SheditMain ==
  \/ At("SHEDIT_MAIN_MENU") /\
       (Leave \/ Again \/ (\E m \in SheditTexts \cup SheditNumbers : Go(m))
          \/ Put("SHEDIT_PRODUCING", [copy EXCEPT !.items = 0])
          \/ Put("SHEDIT_IN_ROOM", [copy EXCEPT !.rooms = 0]))
  \/ Taken(SheditTexts, "SHEDIT_MAIN_MENU")
  \/ Ranged(SheditNumbers, "SHEDIT_MAIN_MENU")

\* -1 ends the list, and so does the last place of the array.
SheditList(prompt, list) ==
  At(prompt) /\
    (Go("SHEDIT_MAIN_MENU") \/ Again
       \/ Put(IF copy[list] + 1 >= ShopMax THEN "SHEDIT_MAIN_MENU" ELSE prompt, [copy EXCEPT ![list] = @ + 1]))

Shedit == con = "CON_SHEDIT" /\ (SheditConfirm \/ SheditMain \/ SheditList("SHEDIT_PRODUCING", "items") \/ SheditList("SHEDIT_IN_ROOM", "rooms"))

-----------------------------------------------------------------------------
(* zedit_parse                                                              *)

ZeditData == {"ZEDIT_TOP_OF_ZONE", "ZEDIT_LIFESPAN", "ZEDIT_RESET_MODE", "ZEDIT_SECURITY", "ZEDIT_JURID", "ZEDIT_CONNECTED"}
ZeditTexts == {"ZEDIT_ZONE_NAME", "ZEDIT_ID_LIST"}

\* edit_zon and edit_cmd are allocated by the first answer.
ZeditConfirm ==
  /\ ~writing
  /\ \/ mode \in {"ZEDIT_CONFIRM_EDIT_DATA", "ZEDIT_CONFIRM_CREATE_DATA"} /\ (Leave \/ Again \/ Put("ZEDIT_DATA_MENU", Plain))
     \/ mode \in {"ZEDIT_CONFIRM_ADD_CMD", "ZEDIT_CONFIRM_INSERT_CMD"} /\
          (Leave \/ Again \/ Put("ZEDIT_COMMAND_MENU", [kind |-> "command", letter |-> "blank"]))
     \/ mode = "ZEDIT_CONFIRM_EDIT_CMD" /\ (Leave \/ Again \/ \E c \in CommandCopies : Put("ZEDIT_COMMAND_MENU", c))
     \/ mode \in {"ZEDIT_CONFIRM_SAVEDATA", "ZEDIT_CONFIRM_SAVECMDS"} /\ (Leave \/ Again)

ZeditZone ==
  \/ At("ZEDIT_DATA_MENU") /\ (Again \/ \E m \in ZeditData \cup ZeditTexts \cup {"ZEDIT_CONFIRM_SAVEDATA"} : Go(m))
  \/ Taken(ZeditTexts, "ZEDIT_DATA_MENU")
  \/ Ranged(ZeditData, "ZEDIT_DATA_MENU")

\* What '3', '4' and '5' ask for: M stands for M, O, P, H, N and V, S for S,
\* U, I, G and C.
ZeditArguments ==
  [blank |-> {}, M |-> {"ZEDIT_ARG1", "ZEDIT_ARG2", "ZEDIT_ARG3"}, S |-> {"ZEDIT_ARG1", "ZEDIT_ARG2"},
   E |-> {"ZEDIT_ARG1", "ZEDIT_ARG2", "ZEDIT_WEAR"}, R |-> {"ZEDIT_ARG1", "ZEDIT_REMOVE_ROOM"},
   D |-> {"ZEDIT_DIRECTION_OF_DOOR", "ZEDIT_REMOVE_ROOM", "ZEDIT_DOOR_STATE"}]

ZeditCommand ==
  \/ At("ZEDIT_COMMAND_MENU") /\
       (Again \/ \E m \in ZeditArguments[copy.letter] \cup {"ZEDIT_CMD_TYPE", "ZEDIT_IF_FLAG_CMD", "ZEDIT_CONFIRM_SAVECMDS"} : Go(m))
  \/ Taken({"ZEDIT_ARG1", "ZEDIT_ARG3", "ZEDIT_REMOVE_ROOM"}, "ZEDIT_COMMAND_MENU")
  \/ Ranged({"ZEDIT_ARG2", "ZEDIT_WEAR", "ZEDIT_DOOR_STATE", "ZEDIT_DIRECTION_OF_DOOR", "ZEDIT_IF_FLAG_CMD"}, "ZEDIT_COMMAND_MENU")
  \/ At("ZEDIT_CMD_TYPE") /\ (Again \/ \E c \in CommandCopies : Put("ZEDIT_COMMAND_MENU", c))

Zedit == con = "CON_ZEDIT" /\ (ZeditConfirm \/ ZeditZone \/ ZeditCommand)

-----------------------------------------------------------------------------
(* iedit_parse                                                              *)

IeditTexts == {"IEDIT_EDIT_NAMELIST", "IEDIT_SHORTDESC", "IEDIT_DESC", "IEDIT_WEIGHT", "IEDIT_COST", "IEDIT_TIMER", "IEDIT_TYPE"}
IeditNumbers == {"IEDIT_EXTRAS", "IEDIT_AFF_BITS", "IEDIT_WEAR", "IEDIT_MATERIAL", "IEDIT_RATING"}

\* The types, told apart by what their first answers say: a gun is "armed"
\* for an administrator, a clip stands for everything with three values, a
\* chip for two, a tool for one; a low deck has an MPCP below three.
Types == {"light", "gun", "armed", "bow", "drink", "food", "implant", "deck", "lowdeck",
          "attack", "formula", "clip", "chip", "tool", "radio", "mod", "receiver", "worn", "plain"}

\* iedit_disp_val1_menu to iedit_disp_val10_menu: the types whose value is
\* asked for there; for the others the next menu that asks is shown, or the
\* main menu.
Decks == {"deck", "lowdeck"}
Guns == {"gun", "armed", "bow"}
Asked1 == Types \ {"light", "formula", "radio", "plain"}
Asked2 == (Asked1 \cup {"radio"}) \ {"food", "tool"}
Asked3 == (Asked2 \cup {"light", "formula"}) \ {"chip", "mod"}
Asked4 == Guns \cup Decks \cup {"drink", "food", "attack", "receiver", "worn"}
Asked5 == Guns \cup Decks \cup {"implant", "mod", "receiver", "worn"}
Asked6 == Guns \cup {"implant", "worn"}
Asked7 == Guns \cup Decks \cup {"formula", "worn"}
Asked8 == {"armed", "formula", "worn"}
AskedNames == {"armed"}
Asked == <<Asked1, Asked2, Asked3, Asked4, Asked5, Asked6, Asked7, Asked8, AskedNames, AskedNames>>

ValueModes ==
  <<"IEDIT_VALUE_1", "IEDIT_VALUE_2", "IEDIT_VALUE_3", "IEDIT_VALUE_4", "IEDIT_VALUE_5",
    "IEDIT_VALUE_6", "IEDIT_VALUE_7", "IEDIT_VALUE_8", "IEDIT_VALUE_9", "IEDIT_VALUE_10">>

AskFrom(k, t) ==
  LET asks == { j \in k .. 10 : t \in Asked[j] } IN
  IF asks = {} THEN Put("IEDIT_MAIN_MENU", [copy EXCEPT !.type = "plain"])
               ELSE Put(ValueModes[Min(asks)], [copy EXCEPT !.type = t])

IeditConfirm == Confirm("IEDIT_CONFIRM_EDIT", "IEDIT_CONFIRM_SAVESTRING", "IEDIT_MAIN_MENU")

IeditMain ==
  \/ /\ At("IEDIT_MAIN_MENU")
     /\ \/ Leave
        \/ \E m \in IeditTexts \cup IeditNumbers \cup {"IEDIT_AVAILTN", "IEDIT_PROMPT_APPLY"} : Go(m)
        \/ Write("IEDIT_LONGDESC")
        \/ \E t \in Types : AskFrom(1, t)
        \/ Put("IEDIT_EXTRADESC_MENU", FirstExtra)
        \/ Again
  \/ Taken(IeditTexts, "IEDIT_MAIN_MENU")
  \/ Ranged(IeditNumbers, "IEDIT_MAIN_MENU")
  \/ Taken({"IEDIT_AVAILTN"}, "IEDIT_AVAILDAY")
  \/ Taken({"IEDIT_AVAILDAY"}, "IEDIT_MAIN_MENU")

\* An answer is refused, or taken and the next value asked for.  (A drink
\* that is none is asked for no more, and the poison is.)
Valued(k) == At(ValueModes[k]) /\ (Again \/ AskFrom(k + 1, copy.type))

IeditValue1 == Valued(1)
IeditValue2 == Valued(2)
IeditValue3 == Valued(3)
IeditValue4 == Valued(4)

\* "Reaction upgrade must be between 1 and" a third of the MPCP.
NoReaction == mode = "IEDIT_VALUE_7" /\ copy.type = "lowdeck"
IeditValue7 == ~NoReaction /\ Valued(7)
IeditFittings == Valued(8) \/ Valued(9) \/ Valued(10)

IeditValues ==
  IeditValue1 \/ IeditValue2 \/ IeditValue3 \/ IeditValue4 \/ Valued(5) \/ Valued(6) \/ IeditValue7 \/ IeditFittings

IeditApply ==
  \/ At("IEDIT_PROMPT_APPLY") /\ (Again \/ Go("IEDIT_MAIN_MENU") \/ Go("IEDIT_APPLY"))
  \/ At("IEDIT_APPLY") /\ (Again \/ Go("IEDIT_PROMPT_APPLY") \/ Go("IEDIT_APPLYMOD"))
  \/ Taken({"IEDIT_APPLYMOD"}, "IEDIT_PROMPT_APPLY")

IeditExtra == Extra("IEDIT_EXTRADESC_MENU", "IEDIT_EXTRADESC_KEY", "IEDIT_EXTRADESC_DESCRIPTION", "IEDIT_MAIN_MENU")

Iedit == con = "CON_IEDIT" /\ (IeditConfirm \/ IeditMain \/ IeditValues \/ IeditApply \/ IeditExtra)

-----------------------------------------------------------------------------
(* cedit_parse, sedit_parse, pedit_parse: the editors of the players.       *)

CeditTexts == {"CEDIT_ALIAS", "CEDIT_SHORT_DESC", "CEDIT_HEIGHT", "CEDIT_WEIGHT"}

\* The voice of a body is a line, a persona or a reflection has a text.
Cedit ==
  /\ con \in Customizing
  /\ \/ Confirm("CEDIT_CONFIRM_EDIT", "CEDIT_CONFIRM_SAVESTRING", "CEDIT_MAIN_MENU")
     \/ /\ At("CEDIT_MAIN_MENU")
        /\ \/ Again
           \/ Go("CEDIT_CONFIRM_SAVESTRING")
           \/ \E m \in CeditTexts : Go(m)
           \/ IF con = "CON_FCUSTOMIZE" THEN Go("CEDIT_VOICE") ELSE Write("CEDIT_DESC")
           \/ Write("CEDIT_LONG_DESC")
     \/ Taken(CeditTexts \cup {"CEDIT_VOICE"}, "CEDIT_MAIN_MENU")

Categories == {"combat", "detection", "health", "illusion", "manipulation"}
SeditNumbers == {"SEDIT_EDIT_TARGET", "SEDIT_EDIT_FORCE"}
SeditEffects == [detection |-> "SEDIT_EDIT_DETECTION", health |-> "SEDIT_EDIT_HEALTH",
                 illusion |-> "SEDIT_EDIT_ILLUSION", manipulation |-> "SEDIT_EDIT_MANIPULATION"]
SeditEffectModes == { SeditEffects[c] : c \in DOMAIN SeditEffects }

Sedit ==
  /\ con = "CON_SPELL_CREATE"
  /\ \/ /\ At("SEDIT_MAIN_MENU")
        /\ \/ Leave \* aborted
           \/ IF copy.named THEN Leave ELSE Go("SEDIT_EDIT_NAME")
           \/ \E m \in SeditNumbers \cup {"SEDIT_EDIT_NAME", "SEDIT_EDIT_TYPE", "SEDIT_EDIT_CATEGORY"} : Go(m)
           \/ copy.category # "combat" /\ Go(SeditEffects[copy.category])
           \/ copy.category \in {"combat", "manipulation", "health"} /\ Go("SEDIT_EDIT_BASE_DAMAGE")
           \/ Again
     \/ At("SEDIT_EDIT_NAME") /\ \E named \in BOOLEAN : Put("SEDIT_MAIN_MENU", [copy EXCEPT !.named = named])
     \/ At("SEDIT_EDIT_CATEGORY") /\
          (Again \/ \E c \in Categories : Put("SEDIT_MAIN_MENU", [copy EXCEPT !.category = c]))
     \/ Taken({"SEDIT_EDIT_TYPE"}, "SEDIT_MAIN_MENU")
     \/ Ranged(SeditNumbers \cup SeditEffectModes \cup {"SEDIT_EDIT_BASE_DAMAGE"}, "SEDIT_MAIN_MENU")

\* The design goes to the player; there is no way to drop it.
Pedit ==
  /\ con = "CON_PRO_CREATE"
  /\ \/ /\ At("PEDIT_MENU")
        /\ \/ Leave
           \/ Go("PEDIT_NAME") \/ Go("PEDIT_TYPE")
           \/ copy.type # "none" /\ Go("PEDIT_RATING")
           \/ copy.type = "attack" /\ Go("PEDIT_WOUND")
           \/ Again
     \/ Taken({"PEDIT_NAME"}, "PEDIT_MENU")
     \/ Ranged({"PEDIT_RATING", "PEDIT_WOUND"}, "PEDIT_MENU")
     \/ At("PEDIT_TYPE") /\ (Again \/ \E t \in {"attack", "other"} : Put("PEDIT_MENU", [copy EXCEPT !.type = t]))

-----------------------------------------------------------------------------
(* Opening an editor, writing a text, losing the link.                      *)

\* Where the command that opens an editor starts it, and on what copy: the
\* thing is there, or is to be made, or is a clone to be saved.
Start(modes, copies) == [mode : modes, copy : copies]
StartRedit == Start({"REDIT_MAIN_MENU", "REDIT_CONFIRM_EDIT"}, RoomCopies)
StartRclone == Start({"REDIT_CONFIRM_SAVESTRING"}, RoomCopies)
StartVedit == Start({"VEDIT_MAIN_MENU", "VEDIT_CONFIRM_EDIT"}, {Plain})
StartMedit == Start({"MEDIT_MAIN_MENU", "MEDIT_CONFIRM_EDIT"}, {Plain})
StartMclone == Start({"MEDIT_CONFIRM_SAVESTRING"}, {Plain})
StartIedit == Start({"IEDIT_MAIN_MENU", "IEDIT_CONFIRM_EDIT"}, ItemCopies)
StartIclone == Start({"IEDIT_CONFIRM_SAVESTRING"}, ItemCopies)
StartHedit == Start({"HEDIT_MAIN_MENU", "HEDIT_CONFIRM_EDIT"}, HostCopies)
StartIcedit == Start({"ICEDIT_MAIN_MENU", "ICEDIT_CONFIRM_EDIT"}, IcCopies)
StartQedit == Start({"QEDIT_MAIN_MENU", "QEDIT_CONFIRM_EDIT"}, QuestCopies)
StartShedit == Start({"SHEDIT_MAIN_MENU", "SHEDIT_CONFIRM_EDIT"}, ShopCopies)
StartZedit ==
  Start({"ZEDIT_CONFIRM_EDIT_DATA", "ZEDIT_CONFIRM_CREATE_DATA", "ZEDIT_COMMAND_MENU",
         "ZEDIT_CONFIRM_INSERT_CMD", "ZEDIT_CONFIRM_EDIT_CMD"}, {[kind |-> "command", letter |-> "blank"]})
StartCustomize == Start({"CEDIT_CONFIRM_EDIT"}, {Plain})
StartCreate == Start({"SEDIT_MAIN_MENU"}, {SpellCopy})
StartDesign == Start({"PEDIT_MENU"}, {ProgramCopy})

Starts ==
  [CON_REDIT  |-> StartRedit \cup StartRclone, CON_VEDIT |-> StartVedit,
   CON_MEDIT  |-> StartMedit \cup StartMclone, CON_IEDIT |-> StartIedit \cup StartIclone,
   CON_HEDIT  |-> StartHedit, CON_ICEDIT |-> StartIcedit, CON_QEDIT |-> StartQedit,
   CON_SHEDIT |-> StartShedit, CON_ZEDIT |-> StartZedit,
   CON_PCUSTOMIZE |-> StartCustomize, CON_ACUSTOMIZE |-> StartCustomize, CON_FCUSTOMIZE |-> StartCustomize,
   CON_SPELL_CREATE |-> StartCreate, CON_PRO_CREATE |-> StartDesign]

ASSUME OpenedAssumption == Opened \subseteq DOMAIN Starts

Open(e) ==
  /\ con = "CON_PLAYING" /\ ~writing
  /\ \E start \in Starts[e] : con' = e /\ mode' = start.mode /\ copy' = start.copy
  /\ plr' = plr \cup FlagOf(e) /\ UNCHANGED writing

\* A letter, or a board or the message of the day.
Compose ==
  /\ con = "CON_PLAYING" /\ ~writing
  /\ writing' = TRUE /\ plr' \in {plr \cup {"WRITING", "MAILING"}, plr \cup {"WRITING"}}
  /\ UNCHANGED <<con, mode, copy>>

\* Mutant: no menu is shown after the inside description of a vehicle.
TextMenuForgets ==
  [REDIT_DESC |-> "REDIT_MAIN_MENU", REDIT_EXTRADESC_DESCRIPTION |-> "REDIT_EXTRADESC_MENU",
   REDIT_EXIT_DESCRIPTION |-> "REDIT_EXIT_MENU", VEDIT_LONGDESC |-> "VEDIT_MAIN_MENU"]

\* The menu string_add shows after the text of a prompt.
TextMenu ==
  [REDIT_DESC |-> "REDIT_MAIN_MENU", REDIT_EXTRADESC_DESCRIPTION |-> "REDIT_EXTRADESC_MENU",
   REDIT_EXIT_DESCRIPTION |-> "REDIT_EXIT_MENU", IEDIT_LONGDESC |-> "IEDIT_MAIN_MENU",
   IEDIT_EXTRADESC_DESCRIPTION |-> "IEDIT_EXTRADESC_MENU", MEDIT_LONG_DESCR |-> "MEDIT_MAIN_MENU",
   MEDIT_REG_DESCR |-> "MEDIT_MAIN_MENU", VEDIT_LONGDESC |-> "VEDIT_MAIN_MENU", VEDIT_INSDESC |-> "VEDIT_MAIN_MENU",
   HEDIT_DESC |-> "HEDIT_MAIN_MENU", ICEDIT_DESC |-> "ICEDIT_MAIN_MENU", QEDIT_INFO |-> "QEDIT_MAIN_MENU",
   CEDIT_LONG_DESC |-> "CEDIT_MAIN_MENU", CEDIT_DESC |-> "CEDIT_MAIN_MENU"]

\* string_add: a line more, the last one ('@' or too long), or "$abort",
\* which only a player who is not in an editor can give.
StringAdd ==
  /\ writing
  /\ \/ Again
     \/ /\ con # "CON_PLAYING"
        /\ writing' = FALSE
        /\ mode' = IF mode \in DOMAIN TextMenu THEN TextMenu[mode] ELSE mode
        /\ copy' = IF mode \in {"REDIT_EXTRADESC_DESCRIPTION", "IEDIT_EXTRADESC_DESCRIPTION"}
                     THEN [copy EXCEPT !.extras[copy.at].text = TRUE] ELSE copy
        /\ UNCHANGED <<con, plr>>
     \/ /\ con = "CON_PLAYING"
        /\ writing' = FALSE /\ plr' = plr \ {"WRITING", "MAILING"}
        /\ UNCHANGED <<con, mode, copy>>

\* close_socket keeps the character of a player who is playing or in one of
\* the states from CON_SPELL_CREATE to CON_ZEDIT; the flags stay on it.
LateEditors == {"CON_HEDIT", "CON_ICEDIT", "CON_PRO_CREATE"}
LinkLost ==
  /\ con # "LINKLESS"
  /\ con' = "LINKLESS" /\ mode' = None /\ copy' = None /\ writing' = FALSE
  /\ plr' = IF con \in LateEditors THEN {} ELSE plr

\* Mutant: the flags of the editor are left on the character.
ReconnectKeepsFlags ==
  /\ con = "LINKLESS"
  /\ con' = "CON_PLAYING" /\ plr' = plr \ {"MAILING"}
  /\ UNCHANGED <<mode, writing, copy>>

\* perform_dupe_check gives the player the character back.
Reconnect ==
  /\ con = "LINKLESS"
  /\ con' = "CON_PLAYING" /\ plr' = plr \ {"MAILING", "EDITING", "SPELL_CREATE", "CUSTOMIZE"}
  /\ UNCHANGED <<mode, writing, copy>>

-----------------------------------------------------------------------------
Init == con = "CON_PLAYING" /\ mode = None /\ writing = FALSE /\ copy = None /\ plr = {}

\* nanny
Answer ==
  Redit \/ Vedit \/ Medit \/ Hedit \/ Icedit \/ Qedit \/ Shedit \/ Zedit \/ Iedit \/ Cedit \/ Sedit \/ Pedit

Next ==
  \/ (\E e \in Opened : Open(e)) \/ Compose \/ StringAdd \/ LinkLost \/ Reconnect
  \/ Answer

Spec == Init /\ [][Next]_vars

-----------------------------------------------------------------------------
Editing == con \in DOMAIN Starts
EditorFlags == {"EDITING", "SPELL_CREATE", "CUSTOMIZE"}
PlrFlags == EditorFlags \cup {"WRITING", "MAILING"}

ExitModes == {"REDIT_EXIT_MENU", "REDIT_EXIT_DESCRIPTION"} \cup ExitFields \cup ExitNumbers
RoomExtras == {"REDIT_EXTRADESC_MENU", "REDIT_EXTRADESC_KEY", "REDIT_EXTRADESC_DESCRIPTION"}
ItemExtras == {"IEDIT_EXTRADESC_MENU", "IEDIT_EXTRADESC_KEY", "IEDIT_EXTRADESC_DESCRIPTION"}
ExtraModes == RoomExtras \cup ItemExtras
TriggerModes == {"HEDIT_TRIGGER_ADD2", "HEDIT_TRIGGER_ADD3"}
HuntModes == {"QEDIT_M_VNUM", "QEDIT_M_NUYEN", "QEDIT_M_KARMA", "QEDIT_M_LOAD", "QEDIT_M_LDATA",
              "QEDIT_M_OBJECTIVE", "QEDIT_M_ODATA"}
FetchModes == {"QEDIT_O_VNUM", "QEDIT_O_NUYEN", "QEDIT_O_KARMA", "QEDIT_O_LOAD", "QEDIT_O_LDATA",
               "QEDIT_O_LDATA2", "QEDIT_O_OBJECTIVE", "QEDIT_O_ODATA"}
CommandModes ==
  {"ZEDIT_COMMAND_MENU", "ZEDIT_CMD_TYPE", "ZEDIT_ARG1", "ZEDIT_ARG2", "ZEDIT_ARG3", "ZEDIT_REMOVE_ROOM", "ZEDIT_WEAR",
   "ZEDIT_DOOR_STATE", "ZEDIT_DIRECTION_OF_DOOR", "ZEDIT_IF_FLAG_CMD", "ZEDIT_CONFIRM_SAVECMDS"}

\* The prompts of each editor.
ReditPrompts ==
  {"REDIT_CONFIRM_EDIT", "REDIT_CONFIRM_SAVESTRING", "REDIT_MAIN_MENU", "REDIT_NAME", "REDIT_FLAGS", "REDIT_SECTOR",
   "REDIT_MATRIX", "REDIT_DESC", "REDIT_LIBRARY_RATING"} \cup MatrixFields \cup MatrixNumbers \cup ExitModes \cup RoomExtras
VeditPrompts ==
  {"VEDIT_CONFIRM_EDIT", "VEDIT_CONFIRM_SAVESTRING", "VEDIT_MAIN_MENU", "VEDIT_ATT", "VEDIT_COST", "VEDIT_LONGDESC",
   "VEDIT_INSDESC"} \cup VeditNames \cup VeditNumbers
MeditPrompts ==
  {"MEDIT_CONFIRM_EDIT", "MEDIT_CONFIRM_SAVESTRING", "MEDIT_MAIN_MENU", "MEDIT_REG_DESCR", "MEDIT_LONG_DESCR",
   "MEDIT_CREDSTICK"} \cup MeditNames \cup MeditNumbers \cup MeditMenus \cup MeditAbilities \cup DOMAIN MeditSkill \cup MeditLevels
IeditPrompts ==
  {"IEDIT_CONFIRM_EDIT", "IEDIT_CONFIRM_SAVESTRING", "IEDIT_MAIN_MENU", "IEDIT_LONGDESC", "IEDIT_AVAILTN", "IEDIT_AVAILDAY",
   "IEDIT_PROMPT_APPLY", "IEDIT_APPLY", "IEDIT_APPLYMOD"}
    \cup IeditTexts \cup IeditNumbers \cup ItemExtras \cup { ValueModes[k] : k \in 1 .. 10 }
HeditPrompts ==
  {"HEDIT_CONFIRM_EDIT", "HEDIT_CONFIRM_SAVESTRING", "HEDIT_MAIN_MENU", "HEDIT_DESC", "HEDIT_PARENT", "HEDIT_TYPE",
   "HEDIT_TRIGGER_ADD", "HEDIT_TRIGGER_DEL", "HEDIT_EXIT_ADD", "HEDIT_EXIT_ADD2", "HEDIT_EXIT_DEL"}
    \cup HeditTexts \cup HeditMenus \cup HeditSubsystems \cup DOMAIN HeditExtras \cup HeditTrapdoors \cup TriggerModes
    \cup { HeditSecurity[k] : k \in 1 .. 3 }
IceditPrompts ==
  {"ICEDIT_CONFIRM_EDIT", "ICEDIT_CONFIRM_SAVESTRING", "ICEDIT_MAIN_MENU", "ICEDIT_DESC", "ICEDIT_TYPE", "ICEDIT_SUBTYPE",
   "ICEDIT_RATING", "ICEDIT_OPTION_MENU"} \cup IceditTexts
QeditPrompts ==
  {"QEDIT_CONFIRM_EDIT", "QEDIT_CONFIRM_SAVESTRING", "QEDIT_MAIN_MENU", "QEDIT_INFO", "QEDIT_M_MENU", "QEDIT_O_MENU",
   "QEDIT_M_AWAIT_NUMBER", "QEDIT_O_AWAIT_NUMBER"} \cup QeditTexts \cup QeditNumbers \cup HuntModes \cup FetchModes
    \cup { QeditReputation[k] : k \in 1 .. 2 } \cup { QeditHours[k] : k \in 1 .. 2 }
SheditPrompts ==
  {"SHEDIT_CONFIRM_EDIT", "SHEDIT_CONFIRM_SAVESTRING", "SHEDIT_MAIN_MENU", "SHEDIT_PRODUCING", "SHEDIT_IN_ROOM"}
    \cup SheditTexts \cup SheditNumbers
ZeditPrompts ==
  {"ZEDIT_CONFIRM_EDIT_DATA", "ZEDIT_CONFIRM_CREATE_DATA", "ZEDIT_CONFIRM_ADD_CMD", "ZEDIT_CONFIRM_INSERT_CMD",
   "ZEDIT_CONFIRM_EDIT_CMD", "ZEDIT_CONFIRM_SAVEDATA", "ZEDIT_DATA_MENU"} \cup ZeditData \cup ZeditTexts \cup CommandModes
CeditPrompts ==
  {"CEDIT_CONFIRM_EDIT", "CEDIT_CONFIRM_SAVESTRING", "CEDIT_MAIN_MENU", "CEDIT_VOICE", "CEDIT_DESC", "CEDIT_LONG_DESC"}
    \cup CeditTexts
SeditPrompts ==
  {"SEDIT_MAIN_MENU", "SEDIT_EDIT_NAME", "SEDIT_EDIT_TYPE", "SEDIT_EDIT_CATEGORY", "SEDIT_EDIT_BASE_DAMAGE"}
    \cup SeditNumbers \cup SeditEffectModes
PeditPrompts == {"PEDIT_MENU", "PEDIT_NAME", "PEDIT_TYPE", "PEDIT_RATING", "PEDIT_WOUND"}

Prompts ==
  [CON_REDIT |-> ReditPrompts, CON_VEDIT |-> VeditPrompts, CON_MEDIT |-> MeditPrompts, CON_IEDIT |-> IeditPrompts,
   CON_HEDIT |-> HeditPrompts, CON_ICEDIT |-> IceditPrompts, CON_QEDIT |-> QeditPrompts, CON_SHEDIT |-> SheditPrompts,
   CON_ZEDIT |-> ZeditPrompts,
   CON_PCUSTOMIZE |-> CeditPrompts, CON_ACUSTOMIZE |-> CeditPrompts, CON_FCUSTOMIZE |-> CeditPrompts,
   CON_SPELL_CREATE |-> SeditPrompts, CON_PRO_CREATE |-> PeditPrompts]

ASSUME NoneAssumption == \A e \in DOMAIN Prompts : None \notin Prompts[e]

RoomType ==
  [kind : {"room"}, exits : SUBSET Dir, way : Dir \cup {None}, extras : Seq(Extras), at : Nat, rated : BOOLEAN]
ItemType == [kind : {"item"}, extras : Seq(Extras), at : Nat, type : Types]
HostType == [kind : {"host"}, triggers : Seq(1 .. 3), exits : Seq(1 .. 2)]
QuestType == [kind : {"quest"}, n : Nat, mobs : Seq(Objective), objs : Seq(Objective)]
SpellType == [kind : {"spell"}, named : BOOLEAN, category : Categories]
ProgramType == [kind : {"program"}, type : {"none", "attack", "other"}]

\* What each editor works on.
CopyType ==
  [CON_REDIT |-> RoomType, CON_VEDIT |-> {Plain}, CON_MEDIT |-> {Plain}, CON_IEDIT |-> ItemType,
   CON_HEDIT |-> HostType, CON_ICEDIT |-> IcCopies, CON_QEDIT |-> QuestType, CON_SHEDIT |-> ShopCopies,
   CON_ZEDIT |-> CommandCopies \cup {Plain},
   CON_PCUSTOMIZE |-> {Plain}, CON_ACUSTOMIZE |-> {Plain}, CON_FCUSTOMIZE |-> {Plain},
   CON_SPELL_CREATE |-> SpellType, CON_PRO_CREATE |-> ProgramType]

TypeOK ==
  /\ con \in DOMAIN Starts \cup {"CON_PLAYING", "LINKLESS"}
  /\ writing \in BOOLEAN /\ plr \subseteq PlrFlags
  /\ IF Editing THEN mode \in Prompts[con] /\ copy \in CopyType[con] ELSE mode = None /\ copy = None

\* A builder in an editor can always move on: whatever the prompt, some line
\* leads to another one.  The prompt for the reaction of a deck whose MPCP
\* is below three has no answer, and is the only one.
NoTrap ==
  Editing /\ ~NoReaction =>
    ENABLED ((Answer \/ StringAdd) /\ <<con, mode, writing>>' # <<con, mode, writing>>)

\* What a prompt writes into is there: the exit a builder is editing, the
\* extra description d->misc_data points to, the head of the triggers and
\* of the exits of a host, the objective edit_number2 counts to, the next
\* place of a list of a shop, the command whose letter picks the menu.  Whatever was deleted, abandoned or typed
\* before, the parser writes neither through NULL nor past an array.
CursorHolds ==
  /\ TypeOK
  /\ mode \in ExitModes => copy.way \in copy.exits
  /\ mode \in ExtraModes => copy.at \in DOMAIN copy.extras
  /\ mode = "HEDIT_TRIGGER_ADD2" => copy.triggers # <<>> /\ copy.triggers[1] = 1
  /\ mode = "HEDIT_TRIGGER_ADD3" => copy.triggers # <<>> /\ copy.triggers[1] = 2
  /\ mode = "HEDIT_EXIT_ADD2" => copy.exits # <<>> /\ copy.exits[1] = 1
  /\ mode \in HuntModes => copy.n + 1 \in DOMAIN copy.mobs
  /\ mode \in FetchModes => copy.n + 1 \in DOMAIN copy.objs
  /\ mode = "SHEDIT_PRODUCING" => copy.items < ShopMax
  /\ mode = "SHEDIT_IN_ROOM" => copy.rooms < ShopMax
  /\ mode \in CommandModes => copy \in CommandCopies

\* Where a copy can be saved, nothing in it is half entered: every extra
\* description has its keywords and its text, every trigger its step, alert
\* and IC, every exit of a host its number and its address.
SaveModes ==
  {"REDIT_MAIN_MENU", "REDIT_CONFIRM_SAVESTRING", "IEDIT_MAIN_MENU", "IEDIT_CONFIRM_SAVESTRING",
   "HEDIT_MAIN_MENU", "HEDIT_CONFIRM_SAVESTRING"}
SavedWhole ==
  mode \in SaveModes =>
    IF con = "CON_HEDIT"
      THEN /\ \A i \in DOMAIN copy.triggers : copy.triggers[i] = 3
           /\ \A i \in DOMAIN copy.exits : copy.exits[i] = 2
      ELSE \A i \in DOMAIN copy.extras : Complete(copy.extras[i])

\* A builder's copy is whole: at every prompt, and wherever it can be saved.
CopyWhole == CursorHolds /\ SavedWhole

\* The flags that keep messages from a writer are those of what he does:
\* an editor flag is on the character while its editor is open and at no
\* other time, a letter is being written while PLR_MAILING is on.  Quitting,
\* saving, a broken link and the login that follows keep it so; PLR_WRITING
\* alone can outlive what it stands for, when the link of a writer breaks.
BusyFlagged ==
  con # "LINKLESS" =>
    /\ plr \cap EditorFlags = IF Editing THEN FlagOf(con) ELSE {}
    /\ "MAILING" \in plr => writing
    /\ writing /\ ~Editing => "WRITING" \in plr

=============================================================================
