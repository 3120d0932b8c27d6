------------------------------ MODULE Sessions ------------------------------
(***************************************************************************)
(* The sessions of the game server: every network connection is a          *)
(* descriptor on `descriptor_list', in one of the CON_ states; most of     *)
(* them point at a character cell (`character'), cells point back (`desc'),*)
(* a descriptor that plays another body than its own keeps its own in      *)
(* `original', and `snooping'/`snoop_by' tie descriptors in pairs.  Login, *)
(* switching, quitting, death, idling, link loss and the administrators'   *)
(* commands all rewrite these pointers, in any order, while the main loop  *)
(* of comm.cpp walks the list with a cached `next_d'.                      *)
(*                                                                         *)
(* The tables that every handler changes are one record, `game', so that a *)
(* handler that calls another (a quit closes sockets and extracts the      *)
(* character, which may return a switched player, which may close another  *)
(* socket) is the composition of operators from a game to a game.          *)
(***************************************************************************)
EXTENDS Integers

CONSTANTS
  Desc,        (* descriptors that can be open at once (max_players)         *)
  Cell,        (* char_data cells the pool can hand out                      *)
  Mob,         (* the cells that hold the world's mobiles at boot            *)
  Name,        (* character names                                            *)
  Level,       (* the level of each name                                     *)
  MobLevel,    (* the level the builders gave their mobiles: any number      *)
  InitId,      (* the players known at boot, with their idnums               *)
  MaxId,       (* bound on the idnums given to new players                   *)
  Scenarios,   (* what a run enables: sets of commands and events, each with *)
               (* the names every connection may give at the prompt (one     *)
               (* that gives none stays away) and the cells of its pool      *)
  NULL

ASSUME NullAssumption == NULL \notin Desc \cup Cell \cup Name
ASSUME MobAssumption  == Mob \subseteq Cell
ASSUME ScenarioAssumption ==
  \A s \in Scenarios : s.gives \in [Desc -> SUBSET Name]
ASSUME LevelAssumption == Level \in [Name -> Nat] /\ MobLevel \in Nat
ASSUME IdAssumption ==
  /\ MaxId \in Nat
  /\ DOMAIN InitId \subseteq Name
  /\ \A n \in DOMAIN InitId : InitId[n] \in 1..MaxId
  /\ \A m, n \in DOMAIN InitId : InitId[m] = InitId[n] => m = n

VARIABLES
  game,      (* the tables; see GameType                                     *)
  before,    (* descriptor_list: <<d, e>> when d stands somewhere before e   *)
  phase,     (* where the main loop is                                       *)
  cursor,    (* next_d: the descriptor the command sweep looks at next       *)
  login,     (* history: the name whose password a connection has given      *)
  scenario   (* the one of Scenarios that is played; it never changes        *)

vars == <<game, before, phase, cursor, login, scenario>>

Enabled(cmd) == cmd \in scenario.commands
Gives(d)     == {n \in Name : n \in scenario.gives[d]}

LVL_BUILDER   == 2
LVL_ARCHITECT == 3
LVL_FIXER     == 4
LVL_EXECUTIVE == 6
LVL_DEVELOPER == 7
LVL_ADMIN     == 9
LVL_PRESIDENT == 10

(***************************************************************************)
(* CON_SPELL_CREATE..CON_ZEDIT are "EDITING", and the three later editors, *)
(* CON_HEDIT, CON_ICEDIT and CON_PRO_CREATE, which close_socket and dc     *)
(* treat differently, are "LATE_EDITING".                                  *)
(***************************************************************************)
Menus     == {"MENU", "CHPWD_GETOLD", "CHPWD_GETNEW", "CHPWD_VRFY", "DELCNF1", "DELCNF2"}
QuitMenus == {"QMENU", "QGETOLDPW", "QGETNEWPW", "QVERIFYPW", "QDELCONF1", "QDELCONF2"}
Login     == {"GET_NAME", "NAME_CNFRM", "PASSWORD", "NEWPASSWD", "CNFPASSWD", "CCREATE", "RMOTD"}
InGame    == {"PLAYING", "EDITING", "LATE_EDITING"}
ConState  == {"FREE", "CLOSE"} \cup Menus \cup QuitMenus \cup Login \cup InGame

GameType ==
  [ state     : [Desc -> ConState],                 \* d->connected; "FREE": no such descriptor
    character : [Desc -> Cell \cup {NULL}],
    original  : [Desc -> Cell \cup {NULL}],
    snooping  : [Desc -> Desc \cup {NULL}],
    snoop_by  : [Desc -> Desc \cup {NULL}],
    desc      : [Cell -> Desc \cup {NULL}],         \* ch->desc
    name      : [Cell -> Name \cup {NULL}],         \* ch->player.char_name
    idnum     : [Cell -> -1..MaxId],                \* GET_IDNUM(ch); 0 for mobiles
    npc       : SUBSET Cell,                        \* IS_NPC(ch)
    chars     : SUBSET Cell,                        \* character_list
    alloc     : SUBSET Cell,                        \* cells that are not in the pool
    db        : SUBSET [name : Name, id : 1..MaxId] ] \* the player index

Open(g) == {d \in Desc : g.state[d] # "FREE"}

-----------------------------------------------------------------------------
(* The player index (newdb.cpp), by name and by idnum.                       *)

IdsOf(g, n) == {e.id : e \in {x \in g.db : x.name = n}}

Least(S) == CHOOSE i \in S : \A j \in S : i <= j

\* get_idx_by_name: the table is sorted by idnum and searched from its start.
Known(g, n) == IdsOf(g, n) # {}
IdOf(g, n)  == Least(IdsOf(g, n))

\* find_open_id
NextId(g) == IF g.db = {} THEN 1
             ELSE 1 + CHOOSE i \in {e.id : e \in g.db} : \A e \in g.db : e.id <= i

\* GET_CHAR_NAME: the name of the player who plays the body c
CharName(g, c) ==
  IF g.desc[c] # NULL /\ g.original[g.desc[c]] # NULL
  THEN g.name[g.original[g.desc[c]]]
  ELSE g.name[c]

\* The idnum that SaveChar leaves in c: Update looks the name up and "fixes" an
\* idnum that differs.  Without an entry it reads the slot before the table,
\* and the idnum becomes whatever lies there: no player's, written -1.
SavedId(g, c) ==
  IF c \in g.npc THEN g.idnum[c]
  ELSE IF Known(g, CharName(g, c)) THEN IdOf(g, CharName(g, c)) ELSE -1

SaveChar(g, c) == [g EXCEPT !.idnum[c] = SavedId(g, c)]

-----------------------------------------------------------------------------
(* The cells (memory.cpp): GetCh takes one that is not allocated; DeleteCh   *)
(* clears it and gives it back, whoever still points at it.  A cell leaked   *)
(* by the code, allocated with no pointer left to it, can do nothing more:   *)
(* it is given back too, so that Cell is only a bound on the cells in use.   *)

Referenced(g, c) ==
  c \in g.chars \/ \E d \in Desc : c = g.character[d] \/ c = g.original[d]

\* c->desc was deleted; a handler that uses it is lost
Dangles(g, c) == g.desc[c] # NULL /\ g.desc[c] \notin Open(g)

Pool(g)     == {c \in Cell : c \in scenario.cells /\ c \notin g.alloc}
CanGetCh(g) == Pool(g) # {}
GetCh(g)    == CHOOSE c \in Pool(g) : TRUE

Collect(g) ==
  LET dead == {c \in Cell : c \notin g.alloc \/ ~ Referenced(g, c)}
  IN  [g EXCEPT !.alloc = @ \ dead, !.npc = @ \ dead,
                !.desc  = [c \in Cell |-> IF c \in dead THEN NULL ELSE @[c]],
                !.name  = [c \in Cell |-> IF c \in dead THEN NULL ELSE @[c]],
                !.idnum = [c \in Cell |-> IF c \in dead THEN 0 ELSE @[c]]]

\* A new cell c for descriptor d: a player's (n, i), or one being created.
PutChar(g, c, d, n, i) ==
  [g EXCEPT !.alloc = @ \cup {c}, !.npc = @ \ {c}, !.name[c] = n, !.idnum[c] = i,
            !.desc[c] = d, !.character[d] = c]

-----------------------------------------------------------------------------
(* close_socket (comm.cpp), for every descriptor of D at once: it saves or   *)
(* frees the character, forgets snooping both ways, clears the `desc' of the *)
(* body and of the original, and deletes the descriptor.                     *)

KeepsChar(g, d) == g.state[d] \in {"PLAYING", "EDITING"}

\* Mutant: only the snooped side forgets.
ForgetSnooping_OneSide(g, D) ==
  [g EXCEPT !.snooping = [d \in Desc |-> IF d \in D THEN NULL ELSE @[d]],
            !.snoop_by = [d \in Desc |->
                            IF d \in D \/ \E x \in D : g.snooping[x] = d THEN NULL ELSE @[d]]]

\* Neither side of a snooping that involves D remembers it.
ForgetSnooping(g, D) ==
  LET forget(f, h) ==          \* f, without the links that h gives from D
        [d \in Desc |-> IF d \in D \/ \E x \in D : h[x] = d THEN NULL ELSE f[d]]
  IN  [g EXCEPT !.snooping = forget(@, g.snoop_by), !.snoop_by = forget(@, g.snooping)]

Kept(g, D)  == {g.character[d] : d \in {x \in D : KeepsChar(g, x)}} \ {NULL}
Freed(g, D) == {g.character[d] : d \in {x \in D : ~ KeepsChar(g, x)}} \ {NULL}

\* The bodies that lose their link
Unlinked(g, D) == (Kept(g, D) \cup {g.original[d] : d \in D}) \ {NULL}

CloseSockets(g, D) ==
  LET drop(f) == [d \in Desc |-> IF d \in D THEN NULL ELSE f[d]]
  IN  [ForgetSnooping(g, D) EXCEPT
         !.state     = [d \in Desc |-> IF d \in D THEN "FREE" ELSE @[d]],
         !.character = drop(@),
         !.original  = drop(@),
         !.desc      = [c \in Cell |-> IF c \in Unlinked(g, D) THEN NULL ELSE @[c]],
         !.idnum     = [c \in Cell |-> IF c \in Kept(g, D) THEN SavedId(g, c) ELSE @[c]],
         !.alloc     = @ \ Freed(g, D) ]

CloseSocket(g, d) == CloseSockets(g, {d})

-----------------------------------------------------------------------------
(* do_return (act.wizard.cpp): the player who plays body c goes back to the  *)
(* original; whoever occupies the original meanwhile is disconnected.  (The  *)
(* branch for a rigged vehicle touches no session.)                          *)

\* Mutant: the original does not learn that its player is back.
DoReturn_NoLink(g, c) ==
  LET d == g.desc[c]
  IN  IF d = NULL THEN g
      ELSE IF g.original[d] = NULL THEN g
      ELSE [g EXCEPT !.character[d] = g.original[d], !.original[d] = NULL, !.desc[c] = NULL]

DoReturn(g, c) ==
  LET d == g.desc[c]
      o == g.original[d]
      h == IF g.desc[o] = NULL THEN g ELSE CloseSocket(g, g.desc[o])
  IN  IF d = NULL THEN g
      ELSE IF o = NULL THEN g
      ELSE [h EXCEPT !.character[d] = o, !.original[d] = NULL,
                     !.desc[o] = d, !.desc[c] = NULL]

(* extract_char (handler.cpp): take c out of the game.                       *)

\* A linkless player body whose player is switched elsewhere is returned to.
RecallOwner(g, c) ==
  LET T == {t \in Desc : g.original[t] = c /\ g.character[t] # NULL}
  IN  IF c \in g.npc \/ g.desc[c] # NULL \/ T = {} THEN g
      ELSE DoReturn(g, g.character[CHOOSE t \in T : TRUE])

\* A player is left at the menu, and keeps the cell; a mobile's cell is freed.
\* (A write through a deleted descriptor changes no session.)
LeaveGame(g, c) ==
  IF c \in g.npc
  THEN [g EXCEPT !.alloc = @ \ {c}]
  ELSE IF g.desc[c] \notin Open(g) THEN g
  ELSE [g EXCEPT !.state[g.desc[c]] = IF @ = "QMENU" THEN @ ELSE "MENU"]

RemoveChar(g, c) == [g EXCEPT !.chars = @ \ {c}]

ExtractChar(g, c) ==
  LET g1 == RecallOwner(SaveChar(g, c), c)
      g2 == IF g1.desc[c] = NULL THEN g1 ELSE ForgetSnooping(g1, {g1.desc[c]})
  IN  LeaveGame(DoReturn(RemoveChar(g2, c), c), c)

-----------------------------------------------------------------------------
(* perform_dupe_check (interpreter.cpp), for d that has given its password:  *)
(* every other descriptor of the player is marked CLOSE and lets go of its   *)
(* bodies, one body found on the way (by the order of the list) or linkless  *)
(* in the game is the target, and other linkless bodies are extracted.       *)
(* l is descriptor_list, a set of pairs like `before'.                       *)

\* The descriptor of K that comes first in the list l, if there is one
First(l, K) == {d \in K : \A e \in K \ {d} : <<d, e>> \in l}

\* The other descriptors of player id: switched elsewhere, or in its own body
Away(g, d, id) ==
  {k \in Open(g) \ {d} : g.original[k] # NULL /\ g.idnum[g.original[k]] = id}

\* Mutant: a connection at a prompt is not disconnected.
Here_Playing(g, d, id) ==
  {k \in Open(g) \ {d} : /\ g.state[k] = "PLAYING" /\ g.character[k] # NULL
                         /\ g.idnum[g.character[k]] = id}

Here(g, d, id) ==
  {k \in Open(g) \ {d} : g.character[k] # NULL /\ g.idnum[g.character[k]] = id}
    \ Away(g, d, id)

\* The body the sweep of the descriptors settles on
Usurped(g, l, d, id) ==
  LET away  == Away(g, d, id)
      picks == away \cup {k \in Here(g, d, id) : g.state[k] = "PLAYING"}
      first == CHOOSE k \in First(l, picks) : TRUE
  IN  IF First(l, picks) = {} THEN NULL
      ELSE IF first \in away THEN g.original[first] ELSE g.character[first]

Linkless(g, id, target) ==
  {c \in g.chars \ g.npc : g.idnum[c] = id /\ g.desc[c] = NULL /\ c # target}

\* The descriptors K let go of what they play.
LetGo(g, K) ==
  LET drop(f) == [k \in Desc |-> IF k \in K THEN NULL ELSE f[k]]
  IN  [g EXCEPT !.state     = [k \in Desc |-> IF k \in K THEN "CLOSE" ELSE @[k]],
                !.character = drop(@),
                !.original  = drop(@),
                !.desc = [c \in Cell |-> IF \E k \in K : g.character[k] = c THEN NULL ELSE @[c]]]

\* d takes the body, and its own cell is freed.
Usurp(g, d, body) ==
  [g EXCEPT !.alloc = @ \ {g.character[d]}, !.character[d] = body, !.original[d] = NULL,
            !.desc[body] = d, !.state[d] = "PLAYING"]

DupeCheck(g, l, d) ==
  LET id    == g.idnum[g.character[d]]
      cut   == LetGo(g, Away(g, d, id) \cup Here(g, d, id))
      taken == Usurped(g, l, d, id)
      alone == Linkless(cut, id, taken)
      body  == IF taken # NULL THEN taken
               ELSE IF alone = {} THEN NULL ELSE CHOOSE c \in alone : TRUE
      dups  == alone \ {body}
      left  == [cut EXCEPT
                  !.idnum = [c \in Cell |-> IF c \in dups THEN SavedId(g, c) ELSE @[c]],
                  !.chars = @ \ dups]
  IN  IF body = NULL THEN [left EXCEPT !.state[d] = "RMOTD"] ELSE Usurp(left, d, body)

-----------------------------------------------------------------------------
(***************************************************************************)
(* The main loop (game_loop).  In "commands" it serves every descriptor of *)
(* the list once, reading d->next before it serves d; in "close" it closes *)
(* the descriptors in CON_CLOSE; "poll" is the rest of a pass: heartbeat,  *)
(* accept, and the sweeps that close a descriptor whose own link broke.    *)
(***************************************************************************)

Head(l, K) == IF First(l, K) = {} THEN NULL ELSE CHOOSE d \in First(l, K) : TRUE

Next_d(l, d) == Head(l, {e \in Desc : <<d, e>> \in l})

\* The tables become g: what is closed leaves the list, its history is forgotten.
Become(g) ==
  /\ game' = Collect(g)
  /\ before' = before \cap (Open(g) \X Open(g))
  /\ login' = [d \in Desc |-> IF g.state[d] = "FREE" THEN NULL ELSE login[d]]

Crash == phase' = "crashed" /\ UNCHANGED <<game, before, login>>

InPhase(p, q) == phase = p /\ phase' = q

\* d's turn in the command sweep, with a line of input
Turn(d) ==
  /\ phase = "commands"
  /\ cursor = d
  /\ game.state[d] # "FREE"
  /\ cursor' = Next_d(before, d)

Prompt(d, st) == Turn(d) /\ game.state[d] = st
Do(g)         == Become(g) /\ UNCHANGED phase
Goto(d, st)   == Do([game EXCEPT !.state[d] = st])

NewDescriptor(d) ==
  /\ InPhase("poll", "poll")
  /\ game.state[d] = "FREE"
  /\ Gives(d) # {}
  /\ game' = [game EXCEPT !.state[d] = "GET_NAME"]
  /\ before' = before \cup ({d} \X Open(game))
  /\ UNCHANGED <<cursor, login>>

\* Exceptional, unreadable or unwritable: the input and the output sweep
LinkLost(d) ==
  /\ phase \in {"poll", "close"}
  /\ d \in Open(game)
  /\ Do(CloseSocket(game, d))
  /\ UNCHANGED cursor

StartCommands ==
  /\ InPhase("poll", "commands")
  /\ cursor' = Head(before, Open(game))
  /\ UNCHANGED <<game, before, login>>

NoInput(d) == Turn(d) /\ UNCHANGED <<game, before, phase, login>>

\* next_d was deleted while d was served: the sweep goes on in freed memory.
UseFreedDescriptor(d) ==
  /\ phase = "commands" /\ cursor = d /\ game.state[d] = "FREE"
  /\ Crash
  /\ UNCHANGED cursor

EndCommands ==
  /\ InPhase("commands", "close")
  /\ cursor = NULL
  /\ UNCHANGED <<game, before, cursor, login>>

CloseMarked(d) ==
  /\ InPhase("close", "close")
  /\ game.state[d] = "CLOSE"
  /\ Become(CloseSocket(game, d))
  /\ UNCHANGED cursor

EndClose ==
  /\ InPhase("close", "poll")
  /\ \A d \in Desc : game.state[d] # "CLOSE"
  /\ UNCHANGED <<game, before, cursor, login>>

Crashed == phase = "crashed" /\ UNCHANGED vars

-----------------------------------------------------------------------------
(* nanny (interpreter.cpp): the connections that are not playing.            *)

\* Too many bad names, or no name at all; below the limit the prompt repeats.
BadName(d) == Prompt(d, "GET_NAME") /\ Do(CloseSocket(game, d))

KnownName(d, n) ==
  /\ Prompt(d, "GET_NAME")
  /\ Known(game, n)
  /\ CanGetCh(game)
  /\ LET g == PutChar(game, GetCh(game), d, n, IdOf(game, n))
     IN  Do([g EXCEPT !.state[d] = "PASSWORD"])

NewName(d, n) ==
  /\ Enabled("create")
  /\ Prompt(d, "GET_NAME")
  /\ ~ Known(game, n)
  /\ CanGetCh(game)
  /\ LET c == game.character[d]
         g == IF c = NULL THEN PutChar(game, GetCh(game), d, n, 0)
              ELSE [game EXCEPT !.name[c] = n]
     IN  Do([g EXCEPT !.state[d] = "NAME_CNFRM"])

ConfirmName(d) ==
  /\ Prompt(d, "NAME_CNFRM")
  /\ \/ Goto(d, "NEWPASSWD")
     \/ Goto(d, "CLOSE")                        \* banned site, or wizlock
     \/ Do([game EXCEPT !.state[d] = "GET_NAME", !.name[game.character[d]] = NULL])

NewPassword(d) == Prompt(d, "NEWPASSWD") /\ Goto(d, "CNFPASSWD")

RetypePassword(d) ==
  /\ Prompt(d, "CNFPASSWD")
  /\ \/ Goto(d, "NEWPASSWD")
     \/ Goto(d, "CCREATE")

\* The end of character creation: start_game and PCIndex::CreateChar.
CreateChar(d, n) ==
  /\ Prompt(d, "CCREATE")
  /\ NextId(game) \in 1..MaxId                  \* bound
  /\ n = game.name[game.character[d]]
  /\ LET c == game.character[d]
         e == [name |-> n, id |-> NextId(game)]
         g == [game EXCEPT !.db = @ \cup {e}, !.idnum[c] = e.id, !.state[d] = "RMOTD"]
     IN  /\ game' = SaveChar(g, c)
         /\ login' = [login EXCEPT ![d] = n]
  /\ UNCHANGED <<before, phase>>

NoPassword(d) == Prompt(d, "PASSWORD") /\ Do(CloseSocket(game, d))

WrongPassword(d) ==
  /\ Prompt(d, "PASSWORD")
  /\ \E st \in {"PASSWORD", "CLOSE"} :
       Do([SaveChar(game, game.character[d]) EXCEPT !.state[d] = st])

\* The right password, from a site or at a time that is refused
RefusedLogin(d) ==
  /\ Prompt(d, "PASSWORD")
  /\ Do([SaveChar(game, game.character[d]) EXCEPT !.state[d] = "CLOSE"])

RightPassword(d, n) ==
  /\ Prompt(d, "PASSWORD")
  /\ n = game.name[game.character[d]]
  /\ LET g == SaveChar(game, game.character[d])
     IN  game' = Collect(DupeCheck(g, before, d))
  /\ login' = [login EXCEPT ![d] = n]
  /\ UNCHANGED <<before, phase>>

ReadMotd(d) == Prompt(d, "RMOTD") /\ Goto(d, "MENU")

LeaveMenu(d) ==                    \* extract_char first, when it is affected
  /\ \E st \in {"MENU", "QMENU"} : Prompt(d, st)
  /\ Do(CloseSocket(game, d))

\* '1': the player is loaded again, by name, into another cell.
EnterGame(d) ==
  /\ Prompt(d, "MENU")
  /\ LET n == game.name[game.character[d]]
     IN  IF ~ Known(game, n) THEN Crash         \* LoadChar returned NULL
         ELSE /\ CanGetCh(game)
              /\ LET c == GetCh(game)
                     g == PutChar(game, c, d, n, IdOf(game, n))
                 IN  Do([g EXCEPT !.chars = @ \cup {c}, !.state[d] = "PLAYING"])

Background(d) == Prompt(d, "MENU") /\ Goto(d, "RMOTD")

AskOldPassword(d) ==
  /\ Enabled("chpwd")
  /\ \/ Prompt(d, "MENU") /\ Goto(d, "CHPWD_GETOLD")
     \/ Prompt(d, "QMENU") /\ Goto(d, "QGETOLDPW")

OldPassword(d) ==
  \/ Prompt(d, "CHPWD_GETOLD") /\ \E st \in {"MENU", "CHPWD_GETNEW"} : Goto(d, st)
  \/ Prompt(d, "QGETOLDPW") /\ \E st \in {"QMENU", "QGETNEWPW"} : Goto(d, st)

ChangedPassword(d) ==
  \/ Prompt(d, "CHPWD_GETNEW") /\ Goto(d, "CHPWD_VRFY")
  \/ Prompt(d, "QGETNEWPW") /\ Goto(d, "QVERIFYPW")

MismatchedPassword(d) ==
  \/ Prompt(d, "CHPWD_VRFY") /\ Goto(d, "CHPWD_GETNEW")
  \/ Prompt(d, "QVERIFYPW") /\ Goto(d, "QGETNEWPW")

\* A player who is not authorised yet is sent to the quit menu instead.
VerifyPassword(d, auth) ==
  /\ Prompt(d, "CHPWD_VRFY")
  /\ LET c == game.character[d]
         g == [SaveChar(game, c) EXCEPT !.state[d] = "MENU"]
     IN  IF c = NULL THEN Crash
         ELSE Do(IF auth THEN [ExtractChar(g, c) EXCEPT !.state[d] = "QMENU"] ELSE g)

\* After a quit the player is loaded again first, into a cell that gets no `desc'.
VerifyAfterQuit(d) ==
  /\ Prompt(d, "QVERIFYPW")
  /\ LET n == game.name[game.character[d]]
     IN  IF ~ Known(game, n) THEN Crash
         ELSE /\ CanGetCh(game)
              /\ LET c == GetCh(game)
                     g == [PutChar(game, c, d, n, IdOf(game, n)) EXCEPT !.desc[c] = NULL]
                 IN  Do([ExtractChar(g, c) EXCEPT !.state[d] = "QMENU"])

AskDelete(d) ==
  /\ Enabled("delete")
  /\ \/ Prompt(d, "MENU") /\ Goto(d, "DELCNF1")
     \/ Prompt(d, "QMENU") /\ Goto(d, "QDELCONF1")

DeletePassword(d) ==
  \/ Prompt(d, "DELCNF1") /\ \E st \in {"MENU", "DELCNF2"} : Goto(d, st)
  \/ Prompt(d, "QDELCONF1") /\ \E st \in {"QMENU", "QDELCONF2"} : Goto(d, st)

DoNotDelete(d) ==
  \/ Prompt(d, "DELCNF2") /\ \E st \in {"MENU", "CLOSE"} : Goto(d, st)    \* CLOSE: frozen
  \/ Prompt(d, "QDELCONF2") /\ \E st \in {"QMENU", "CLOSE"} : Goto(d, st)

\* Mutant: the cell of the deleted player stays with the descriptor.
DeleteSelf_KeepsCell(d) ==
  /\ \E st \in {"DELCNF2", "QDELCONF2"} : Prompt(d, st)
  /\ Do([game EXCEPT !.alloc = @ \ {game.character[d]}, !.state[d] = "CLOSE"])

DeleteSelf(d) ==
  /\ \E st \in {"DELCNF2", "QDELCONF2"} : Prompt(d, st)
  /\ LET i == game.idnum[game.character[d]]
     IN  IF \A e \in game.db : e.id # i THEN Crash    \* delete_by_idx(-1)
         ELSE \E db \in {{e \in game.db : e.id # i}, game.db} :        \* kept: NODELETE
                Do([game EXCEPT !.db = db, !.character[d] = NULL, !.state[d] = "CLOSE"])

\* Mutant: a closed connection gets another try.
LineAfterClose_Retries(d) == Prompt(d, "CLOSE") /\ Goto(d, "GET_NAME")

\* A line from a descriptor marked by one that was served before it
LineAfterClose(d) == Prompt(d, "CLOSE") /\ Do(CloseSocket(game, d))

-----------------------------------------------------------------------------
(* command_interpreter: the commands that touch sessions.  A body that lost  *)
(* its link back to the descriptor that plays it gets no command here.       *)

Playing(d, cmd) ==
  /\ Enabled(cmd)
  /\ Prompt(d, "PLAYING")
  /\ game.character[d] # NULL
  /\ game.desc[game.character[d]] = d

LevelOf(c)      == IF c \in game.npc THEN MobLevel ELSE Level[game.name[c]]
IsSenator(c)    == LevelOf(c) >= LVL_BUILDER
RealBody(d)     == IF game.original[d] = NULL THEN game.character[d] ELSE game.original[d]
Access(d, lvl)  == RealBody(d) \notin game.npc /\ LevelOf(RealBody(d)) >= lvl

\* A player leaves for good at the quit menu, an administrator at the menu.
ToQuitMenu(g, c) ==
  IF g.desc[c] \in Open(g) /\ ~ IsSenator(c)
  THEN [g EXCEPT !.state[g.desc[c]] = "QMENU"] ELSE g

Quit(d) ==
  /\ Playing(d, "quit")
  /\ game.character[d] \notin game.npc
  /\ LET c == game.character[d]
         g == SaveChar(game, c)
         others == {k \in Open(g) \ {d} : /\ g.character[k] # NULL
                                          /\ g.idnum[g.character[k]] = g.idnum[c]}
     IN  Do(ExtractChar(ToQuitMenu(CloseSockets(g, others), c), c))

Rent(d) ==
  /\ Playing(d, "rent")
  /\ game.character[d] \notin game.npc
  /\ Do(ExtractChar(ToQuitMenu(game, game.character[d]), game.character[d]))

Return(d) == Playing(d, "return") /\ Do(DoReturn(game, game.character[d]))

\* d leaves the body c for v
Occupy(g, d, c, v) ==
  [g EXCEPT !.character[d] = v, !.original[d] = c, !.desc[v] = d, !.desc[c] = NULL]

Switch(d, v) ==
  /\ Playing(d, "switch")
  /\ Access(d, LVL_FIXER)
  /\ game.original[d] = NULL
  /\ v \in game.chars \ {game.character[d]}
  /\ game.desc[v] = NULL
  /\ v \in game.npc \/ Access(d, LVL_DEVELOPER)
  /\ Do(Occupy(game, d, game.character[d], v))

\* Astral projection and shape change: into a mobile made for the purpose.
Project(d) ==
  /\ Playing(d, "project")
  /\ game.original[d] = NULL
  /\ game.character[d] \notin game.npc
  /\ CanGetCh(game)
  /\ LET v == GetCh(game)
         g == [game EXCEPT !.alloc = @ \cup {v}, !.npc = @ \cup {v}, !.chars = @ \cup {v},
                           !.name[v] = NULL, !.idnum[v] = 0]
     IN  Do(Occupy(g, d, game.character[d], v))

StopSnooping(g, d) ==
  IF g.snooping[d] = NULL THEN g
  ELSE [g EXCEPT !.snoop_by[g.snooping[d]] = NULL, !.snooping[d] = NULL]

Unsnoop(d) ==
  /\ Playing(d, "snoop") /\ Access(d, LVL_EXECUTIVE)
  /\ LET e == game.snooping[d]
     IN  IF e # NULL /\ game.character[e] = NULL /\ game.original[e] = NULL
         THEN Crash                             \* the victim's name is logged
         ELSE Do(StopSnooping(game, d))

\* Mutant: the levels are not compared.
Snoop_AnyLevel(d, v) ==
  LET e == game.desc[v]
  IN  /\ Playing(d, "snoop")
      /\ Access(d, LVL_EXECUTIVE)
      /\ v \in game.chars \ {game.character[d]}
      /\ e # NULL /\ game.snoop_by[e] = NULL /\ game.snooping[e] # d
      /\ Do([StopSnooping(game, d) EXCEPT !.snooping[d] = e, !.snoop_by[e] = d])

Snoop(d, v) ==
  LET e == game.desc[v]
      c == game.character[d]
  IN  /\ Playing(d, "snoop")
      /\ Access(d, LVL_EXECUTIVE)
      /\ v \in game.chars \ {c}
      /\ e # NULL
      /\ game.snoop_by[e] = NULL
      /\ game.snooping[e] # d
      /\ LevelOf(RealBody(e)) < LevelOf(c)
      /\ IF ~ Dangles(game, v)
         THEN Do([StopSnooping(game, d) EXCEPT !.snooping[d] = e, !.snoop_by[e] = d])
         ELSE Crash

\* The on-line editors and creation menus
StartEdit(d) ==
  \E cmd \in {"edit", "late_edit"} :
    /\ Playing(d, cmd)
    /\ game.character[d] \notin game.npc
    /\ Goto(d, IF cmd = "edit" THEN "EDITING" ELSE "LATE_EDITING")

EndEdit(d) == \E st \in {"EDITING", "LATE_EDITING"} : Prompt(d, st) /\ Goto(d, "PLAYING")

\* d's command kills v (raw_kill)
KillByCommand(d, v) ==
  /\ Playing(d, "kill")
  /\ v \in game.chars
  /\ Do(ExtractChar(game, v))

\* dc <name>: the player is extracted first, and the link closed after.
Disconnect(d, v) ==
  /\ Playing(d, "dc")
  /\ Access(d, LVL_EXECUTIVE)
  /\ v \in game.chars \ game.npc
  /\ LevelOf(v) < LevelOf(game.character[d])
  /\ game.desc[v] # NULL
  /\ LET e == game.desc[v]
         g == ExtractChar(IF IsSenator(v) THEN game
                          ELSE [game EXCEPT !.state[e] = "CLOSE"], v)
     IN  IF Dangles(game, v) \/ g.desc[v] = NULL THEN Crash   \* close_socket(NULL)
         ELSE Do(CloseSocket(g, g.desc[v]))

\* dc *: reads d->next of every descriptor it has just deleted.
DisconnectAll(d) ==
  /\ Playing(d, "dc")
  /\ Access(d, LVL_EXECUTIVE)
  /\ LET D == {e \in Open(game) : game.state[e] \notin {"PLAYING", "EDITING"}}
     IN  \/ Do(CloseSockets(game, D))
         \/ D # {} /\ Crash

Purge(d, v) ==
  /\ Playing(d, "purge")
  /\ Access(d, LVL_ARCHITECT)
  /\ v \in game.chars
  /\ v \notin game.npc => /\ LevelOf(game.character[d]) > LevelOf(v)
                          /\ Access(d, LVL_EXECUTIVE)
  /\ LET e == game.desc[v]
         g == IF v \in game.npc \/ e = NULL THEN game
              ELSE [CloseSocket(game, e) EXCEPT !.desc[v] = NULL]
     IN  IF Dangles(game, v) \/ v \notin g.alloc THEN Crash ELSE Do(ExtractChar(g, v))

(* do_copyover and copyover_recover: the players in PLAYING survive into a   *)
(* new process, each loaded again under GET_CHAR_NAME; all else is gone.     *)
Copyover(d) ==
  /\ Playing(d, "copyover")
  /\ Access(d, LVL_ADMIN)
  /\ LET K == {k \in Open(game) : /\ game.state[k] = "PLAYING" /\ game.character[k] # NULL
                                  /\ Known(game, CharName(game, game.character[k]))}
         who(k) == CharName(game, game.character[k])
         clear(S) == [x \in S |-> NULL]
         F == {h \in [K -> Cell \ Mob] : \A j, k \in K : h[j] = h[k] => j = k}
         f == CHOOSE h \in F : TRUE
         in(c) == CHOOSE k \in K : f[k] = c
         used  == {f[k] : k \in K}
     IN  /\ F # {}
         /\ game' = [game EXCEPT
               !.state     = [k \in Desc |-> IF k \in K THEN "PLAYING" ELSE "FREE"],
               !.character = [k \in Desc |-> IF k \in K THEN f[k] ELSE NULL],
               !.original  = clear(Desc),
               !.snooping  = clear(Desc),
               !.snoop_by  = clear(Desc),
               !.desc  = [c \in Cell |-> IF c \in used THEN in(c) ELSE NULL],
               !.name  = [c \in Cell |-> IF c \in used THEN who(in(c)) ELSE NULL],
               !.idnum = [c \in Cell |-> IF c \in used THEN IdOf(game, who(in(c))) ELSE 0],
               !.npc   = Mob,
               !.chars = Mob \cup used,
               !.alloc = Mob \cup used]
         /\ before' = {p \in K \X K : <<p[2], p[1]>> \in before}
         /\ login' = [k \in Desc |-> IF k \in K THEN login[k] ELSE NULL]
  /\ phase' = "poll"

-----------------------------------------------------------------------------
(* The heartbeat: deaths, and check_idling.                                  *)

Die(c) ==
  /\ Enabled("kill")
  /\ InPhase("poll", "poll")
  /\ c \in game.chars
  /\ Become(ExtractChar(game, c))
  /\ UNCHANGED cursor

\* A switched player who sent nothing for long goes back to the original.
IdleReturn(c) ==
  /\ Enabled("idle")
  /\ InPhase("poll", "poll")
  /\ c \in game.chars \cap game.npc
  /\ game.desc[c] # NULL
  /\ game.original[game.desc[c]] # NULL
  /\ Become(DoReturn(game, c))
  /\ UNCHANGED cursor

\* An idle player is disconnected and force-rented, an idle administrator only
\* when linkless.
IdleOut(c) ==
  /\ Enabled("idle")
  /\ phase = "poll"
  /\ c \in game.chars \ game.npc
  /\ IsSenator(c) => game.desc[c] = NULL
  /\ LET e == game.desc[c]
         g == IF e = NULL THEN game ELSE [CloseSocket(game, e) EXCEPT !.desc[c] = NULL]
     IN  IF Dangles(game, c) \/ c \notin g.alloc THEN Crash ELSE Do(ExtractChar(g, c))
  /\ UNCHANGED cursor

-----------------------------------------------------------------------------
Init ==
  /\ game = [ state     |-> [d \in Desc |-> "FREE"],
              character |-> [d \in Desc |-> NULL],
              original  |-> [d \in Desc |-> NULL],
              snooping  |-> [d \in Desc |-> NULL],
              snoop_by  |-> [d \in Desc |-> NULL],
              desc      |-> [c \in Cell |-> NULL],
              name      |-> [c \in Cell |-> NULL],
              idnum     |-> [c \in Cell |-> 0],
              npc       |-> Mob,
              chars     |-> Mob,
              alloc     |-> Mob,
              db        |-> {[name |-> n, id |-> InitId[n]] : n \in DOMAIN InitId} ]
  /\ before = {}
  /\ phase = "poll"
  /\ cursor = NULL
  /\ login = [d \in Desc |-> NULL]
  /\ scenario \in Scenarios

\* What nanny does with a line from d
Nanny(d) ==
  \/ BadName(d) \/ ConfirmName(d) \/ NewPassword(d) \/ RetypePassword(d)
  \/ NoPassword(d) \/ WrongPassword(d) \/ RefusedLogin(d)
  \/ ReadMotd(d) \/ LeaveMenu(d) \/ EnterGame(d) \/ Background(d)
  \/ AskOldPassword(d) \/ OldPassword(d) \/ ChangedPassword(d) \/ MismatchedPassword(d)
  \/ (\E auth \in BOOLEAN : VerifyPassword(d, auth))
  \/ VerifyAfterQuit(d) \/ AskDelete(d) \/ DeletePassword(d) \/ DoNotDelete(d) \/ DeleteSelf(d)
  \/ LineAfterClose(d)
  \/ (\E n \in Gives(d) : KnownName(d, n) \/ NewName(d, n))
  \/ (\E n \in Name : CreateChar(d, n) \/ RightPassword(d, n))

\* What a command of a playing d does
Command(d) ==
  \/ Quit(d) \/ Rent(d) \/ Return(d) \/ Project(d) \/ Unsnoop(d)
  \/ StartEdit(d) \/ EndEdit(d) \/ DisconnectAll(d) \/ Copyover(d)
  \/ (\E v \in Cell : \/ Switch(d, v) \/ Snoop(d, v) \/ KillByCommand(d, v)
                      \/ Disconnect(d, v) \/ Purge(d, v))

\* What the loop does by itself, whoever is connected
Loop ==
  \/ StartCommands \/ EndCommands \/ EndClose
  \/ \E d \in Desc : NoInput(d) \/ UseFreedDescriptor(d) \/ CloseMarked(d)

Step ==
  \/ Loop
  \/ \E d \in Desc : NewDescriptor(d) \/ LinkLost(d) \/ Nanny(d) \/ Command(d)
  \/ \E c \in Cell : Die(c) \/ IdleReturn(c) \/ IdleOut(c)
  \/ Crashed

Next == Step /\ UNCHANGED scenario

Spec == Init /\ [][Next]_vars

\* The loop runs for ever; players need not type anything.
FairSpec == Spec /\ WF_vars(Loop /\ UNCHANGED scenario)

-----------------------------------------------------------------------------
TypeOK ==
  /\ game \in GameType
  /\ before \in SUBSET (Desc \X Desc)
  /\ phase \in {"poll", "commands", "close", "crashed"}
  /\ cursor \in Desc \cup {NULL}
  /\ login \in [Desc -> Name \cup {NULL}]

(***************************************************************************)
(* Snooping comes in pairs: snooping and snoop_by are inverse to each      *)
(* other, and a descriptor that was deleted is on neither side.  Seven     *)
(* places of the code undo half-links (close_socket, extract_char,         *)
(* do_snoop, stop_snooping); a half-link left behind is a write through a  *)
(* deleted descriptor at the next close.                                   *)
(***************************************************************************)
Paired(g) ==
  /\ \A d, e \in Desc : g.snooping[d] = e <=> g.snoop_by[e] = d
  /\ \A d \in Desc : g.state[d] = "FREE" => g.snooping[d] = NULL /\ g.snoop_by[d] = NULL

SnoopSymmetric == Paired(game)

\* The same, of tables whose every field has its type.
SnoopSound == TypeOK /\ SnoopSymmetric

(***************************************************************************)
(* The body of a linked character points at a live descriptor that plays   *)
(* it: no ch->desc of a character in the game dangles or is stale, whether *)
(* its descriptor was closed, usurped, switched away or returned.          *)
(***************************************************************************)
BodyPointsBack ==
  \A c \in game.chars :
    game.desc[c] # NULL =>
      /\ game.desc[c] \in Open(game)
      /\ game.character[game.desc[c]] = c

(***************************************************************************)
(* A descriptor in the game plays a body that is in the game and points    *)
(* back at it: the character a player types for is never one that was      *)
(* extracted, usurped or handed to another descriptor.                     *)
(***************************************************************************)
PlaysItsBody ==
  \A d \in Desc :
    game.state[d] \in InGame =>
      /\ game.character[d] \in game.chars
      /\ game.desc[game.character[d]] = d

(***************************************************************************)
(* The original body of a switched player waits in the game, linkless, for *)
(* one player only, until that player comes back from another body.        *)
(***************************************************************************)
OriginalWaits ==
  \A d \in Desc :
    game.original[d] # NULL =>
      /\ game.character[d] \notin {NULL, game.original[d]}
      /\ game.original[d] \in game.chars \ game.npc
      /\ game.desc[game.original[d]] = NULL
      /\ \A e \in Desc : e # d => game.original[e] # game.original[d]

(***************************************************************************)
(* The three together: descriptors, the bodies they play and the originals *)
(* that wait for them agree in every order of switching, returning,        *)
(* projecting, losing the link and dying.                                  *)
(***************************************************************************)
BodiesLinked == BodyPointsBack /\ PlaysItsBody /\ OriginalWaits

(***************************************************************************)
(* Nothing refers to a cell that went back to the pool: neither the        *)
(* character list nor a descriptor.                                        *)
(***************************************************************************)
NoFreedCell ==
  /\ game.chars \subseteq game.alloc
  /\ \A d \in Desc : {game.character[d], game.original[d]} \subseteq game.alloc \cup {NULL}

(***************************************************************************)
(* A player has at most one body in the game, linked or not: the duplicate *)
(* check of a login, the sockets a quit kills and the reload by name keep  *)
(* a second copy (and with it everything the first one carries) out.       *)
(***************************************************************************)
OneBodyPerPlayer ==
  \A b, c \in game.chars \ game.npc : game.idnum[b] = game.idnum[c] => b = c

(***************************************************************************)
(* Beyond the password prompt there is one connection per player; the      *)
(* others are marked to be closed.                                         *)
(***************************************************************************)
OneSessionPerPlayer ==
  \A d, e \in Open(game) :
    /\ d # e
    /\ login[d] # NULL
    /\ login[d] = login[e]
    => "CLOSE" \in {game.state[d], game.state[e]}

(***************************************************************************)
(* Whoever plays has given the password of the body's name: no pointer     *)
(* shuffle ever lands a connection in another player's body.  (Wizards     *)
(* above LVL_DEVELOPER may switch into one on purpose.)                    *)
(***************************************************************************)
OwnBody ==
  \A d \in Desc :
    game.state[d] \in InGame => game.name[RealBody(d)] = login[d]

(***************************************************************************)
(* A descriptor that was told to close never comes back into the game or   *)
(* to a prompt.                                                            *)
(***************************************************************************)
ClosedStaysClosed ==
  [][\A d \in Desc : game.state[d] = "CLOSE" => game'.state[d] \in {"CLOSE", "FREE"}]_vars

(***************************************************************************)
(* A descriptor that was told to close is closed, and until then it is out *)
(* of the game for good.                                                   *)
(***************************************************************************)
MarkedIsClosed ==
  \A d \in Desc : game.state[d] = "CLOSE" ~> (game.state[d] = "FREE" \/ phase = "crashed")

ClosingEnds == MarkedIsClosed /\ ClosedStaysClosed
=============================================================================
