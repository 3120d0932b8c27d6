-------------------------- MODULE SessionsProofs --------------------------
(***************************************************************************)
(* For any number of connections, cells and players: the tables keep their *)
(* types, and snooping stays symmetric.                                    *)
(*                                                                         *)
(* Both proofs follow the shape of the code.  Each operator from games to  *)
(* games gets a lemma that says what it preserves; an action is then the   *)
(* composition of operators whose lemmas are cited.                        *)
(***************************************************************************)
EXTENDS Sessions, TLAPS, WellFoundedInduction

-----------------------------------------------------------------------------
\* Least, by which the index is searched, finds an element of every non-empty set.
LEMMA LeastInSet ==
  ASSUME NEW S \in SUBSET Nat, S # {}
  PROVE  Least(S) \in S
<1>1. PICK i \in S : \A j \in S : ~ (<<j, i>> \in OpToRel(<, Nat))
  BY NatLessThanWellFounded, WFMin
<1>2. \A j \in S : <<j, i>> \in OpToRel(<, Nat) <=> j < i
  BY DEF OpToRel
<1>3. \A j \in S : ~ (j < i)
  BY <1>1, <1>2, Zenon
<1>4. i \in Nat /\ \A j \in S : j \in Nat
  OBVIOUS
<1>5. \A j \in S : i <= j
  BY <1>3, <1>4
<1> QED
  BY <1>5 DEF Least

(***************************************************************************)
(* The games with the right types in which snooping is symmetric: the set  *)
(* every operator below stays in.                                          *)
(***************************************************************************)
Sound == {g \in GameType : Paired(g)}

-----------------------------------------------------------------------------
(* The player index and the saving of a character.                           *)

\* A known name is found with a valid idnum.
LEMMA IdOfType ==
  ASSUME NEW g \in GameType, NEW n, Known(g, n)
  PROVE  IdOf(g, n) \in 1..MaxId
<1>1. IdsOf(g, n) \subseteq 1..MaxId
  BY DEF GameType, IdsOf
<1>2. IdsOf(g, n) \in SUBSET Nat
  BY <1>1, IdAssumption
<1>3. IdOf(g, n) \in IdsOf(g, n)
  BY <1>2, LeastInSet DEF Known, IdOf
<1> QED
  BY <1>1, <1>3

\* A save leaves a valid idnum, or the -1 that stands for garbage.
LEMMA SavedIdType ==
  ASSUME NEW g \in GameType, NEW c \in Cell
  PROVE  SavedId(g, c) \in -1..MaxId
<1>1. CASE c \in g.npc
  BY <1>1 DEF SavedId, GameType
<1>2. CASE c \notin g.npc /\ Known(g, CharName(g, c))
  BY <1>2, IdOfType, IdAssumption DEF SavedId
<1>3. CASE c \notin g.npc /\ ~ Known(g, CharName(g, c))
  BY <1>3, IdAssumption DEF SavedId
<1> QED
  BY <1>1, <1>2, <1>3

\* A save disturbs neither types nor snooping; NULL is tolerated.
LEMMA SaveCharSound ==
  ASSUME NEW g \in Sound, NEW c \in Cell \cup {NULL}
  PROVE  SaveChar(g, c) \in Sound
<1> DEFINE h == SaveChar(g, c)
<1>1. [g.idnum EXCEPT ![c] = SavedId(g, c)] \in [Cell -> -1..MaxId]
  <2>1. CASE c \in Cell
    BY <2>1, SavedIdType DEF Sound, GameType
  <2>2. CASE c \notin Cell
    BY <2>2 DEF Sound, GameType
  <2> QED
    BY <2>1, <2>2
<1>2. h \in GameType
  BY <1>1 DEF SaveChar, Sound, GameType
<1>3. Paired(h)
  BY DEF SaveChar, Sound, GameType, Paired
<1> QED
  BY <1>2, <1>3 DEF Sound

\* So does giving the leaked cells back.
LEMMA CollectSound ==
  ASSUME NEW g \in Sound
  PROVE  Collect(g) \in Sound
<1>1. 0 \in -1..MaxId
  BY IdAssumption
<1>2. Collect(g) \in GameType
  BY <1>1 DEF Collect, Sound, GameType
<1>3. Paired(Collect(g))
  BY DEF Collect, Sound, GameType, Paired
<1> QED
  BY <1>2, <1>3 DEF Sound

\* A new cell for a descriptor leaves every state and every snooping alone.
LEMMA PutCharSound ==
  ASSUME NEW g \in Sound, NEW c \in Cell, NEW d \in Desc,
         NEW n \in Name \cup {NULL}, NEW i \in -1..MaxId
  PROVE  /\ PutChar(g, c, d, n, i) \in Sound
         /\ PutChar(g, c, d, n, i).state = g.state
<1>1. PutChar(g, c, d, n, i) \in GameType
  BY ZenonT(60) DEF PutChar, Sound, GameType
<1>2. Paired(PutChar(g, c, d, n, i))
  BY DEF PutChar, Sound, GameType, Paired
<1>3. PutChar(g, c, d, n, i).state = g.state
  BY DEF PutChar, Sound, GameType
<1> QED
  BY <1>1, <1>2, <1>3 DEF Sound

\* A cell gets or loses its name.
LEMMA NameSound ==
  ASSUME NEW g \in Sound, NEW c, NEW n \in Name \cup {NULL}
  PROVE  /\ [g EXCEPT !.name[c] = n] \in Sound
         /\ [g EXCEPT !.name[c] = n].state = g.state
<1>1. [g EXCEPT !.name[c] = n] \in GameType
  BY DEF Sound, GameType
<1>2. Paired([g EXCEPT !.name[c] = n])
  BY DEF Sound, GameType, Paired
<1>3. [g EXCEPT !.name[c] = n].state = g.state
  BY DEF Sound, GameType
<1> QED
  BY <1>1, <1>2, <1>3 DEF Sound

\* A descriptor gets a state.
LEMMA StateSound ==
  ASSUME NEW g \in Sound, NEW d \in Desc, NEW st \in ConState \ {"FREE"}
  PROVE  [g EXCEPT !.state[d] = st] \in Sound
<1>1. [g EXCEPT !.state[d] = st] \in GameType
  BY DEF Sound, GameType
<1>2. Paired([g EXCEPT !.state[d] = st])
  BY DEF Sound, GameType, Paired
<1> QED
  BY <1>1, <1>2 DEF Sound

-----------------------------------------------------------------------------
(* Closing sockets.                                                          *)

\* Forgetting both ways leaves the other pairs whole, and D without links.
LEMMA ForgetSnoopingSound ==
  ASSUME NEW g \in Sound, NEW D \in SUBSET Desc
  PROVE  /\ ForgetSnooping(g, D) \in Sound
         /\ \A d \in D : /\ ForgetSnooping(g, D).snooping[d] = NULL
                         /\ ForgetSnooping(g, D).snoop_by[d] = NULL
<1> DEFINE h == ForgetSnooping(g, D)
<1>1. /\ h.snooping = [d \in Desc |-> IF d \in D \/ \E x \in D : g.snoop_by[x] = d
                                      THEN NULL ELSE g.snooping[d]]
      /\ h.snoop_by = [d \in Desc |-> IF d \in D \/ \E x \in D : g.snooping[x] = d
                                      THEN NULL ELSE g.snoop_by[d]]
      /\ h.state = g.state
  BY DEF ForgetSnooping, Sound, GameType
<1>2. h \in GameType
  BY DEF ForgetSnooping, Sound, GameType
<1>3. ASSUME NEW d \in Desc, NEW e \in Desc
      PROVE  h.snooping[d] = e <=> h.snoop_by[e] = d
  <2>1. g.snooping[d] = e <=> g.snoop_by[e] = d
    BY DEF Sound, Paired
  <2>2. d # NULL /\ e # NULL
    BY NullAssumption
  <2> QED
    BY <1>1, <2>1, <2>2 DEF Sound, Paired
<1>4. \A d \in Desc : h.state[d] = "FREE" => h.snooping[d] = NULL /\ h.snoop_by[d] = NULL
  BY <1>1 DEF Sound, Paired
<1>5. \A d \in D : h.snooping[d] = NULL /\ h.snoop_by[d] = NULL
  BY <1>1
<1> QED
  BY <1>2, <1>3, <1>4, <1>5 DEF Sound, Paired

\* A closed descriptor is FREE, so its links must be gone on both sides.
LEMMA CloseSocketsSound ==
  ASSUME NEW g \in Sound, NEW D \in SUBSET Desc
  PROVE  CloseSockets(g, D) \in Sound
<1> DEFINE f == ForgetSnooping(g, D)
           h == CloseSockets(g, D)
<1>1. f \in Sound /\ \A d \in D : f.snooping[d] = NULL /\ f.snoop_by[d] = NULL
  BY ForgetSnoopingSound
<1>2. /\ h.snooping = f.snooping
      /\ h.snoop_by = f.snoop_by
      /\ h.state = [d \in Desc |-> IF d \in D THEN "FREE" ELSE f.state[d]]
  BY <1>1 DEF CloseSockets, Sound, GameType
<1>3. "FREE" \in ConState
  BY DEF ConState
<1>4. [c \in Cell |-> IF c \in Kept(g, D) THEN SavedId(g, c) ELSE f.idnum[c]] \in [Cell -> -1..MaxId]
  BY <1>1, SavedIdType DEF Sound, GameType
<1>5. h \in GameType
  BY <1>1, <1>3, <1>4 DEF CloseSockets, Sound, GameType
<1>6. Paired(h)
  BY <1>1, <1>2 DEF Sound, Paired, GameType
<1> QED
  BY <1>5, <1>6 DEF Sound

-----------------------------------------------------------------------------
(* Returning to the original, and leaving the game.                          *)

\* A return, with the socket that it may close.
LEMMA DoReturnSound ==
  ASSUME NEW g \in Sound, NEW c \in Cell
  PROVE  DoReturn(g, c) \in Sound
<1> DEFINE d == g.desc[c]
           o == g.original[d]
           h == IF g.desc[o] = NULL THEN g ELSE CloseSocket(g, g.desc[o])
           r == [h EXCEPT !.character[d] = o, !.original[d] = NULL,
                          !.desc[o] = d, !.desc[c] = NULL]
<1>1. CASE d = NULL \/ o = NULL
  BY <1>1 DEF DoReturn
<1>2. CASE d # NULL /\ o # NULL
  <2>1. d \in Desc /\ o \in Cell
    BY <1>2 DEF Sound, GameType
  <2>2. h \in Sound
    <3>1. CASE g.desc[o] = NULL
      BY <3>1
    <3>2. CASE g.desc[o] # NULL
      <4>1. {g.desc[o]} \in SUBSET Desc
        BY <2>1, <3>2 DEF Sound, GameType
      <4> QED
        BY <3>2, <4>1, CloseSocketsSound DEF CloseSocket
    <3> QED
      BY <3>1, <3>2
  <2> HIDE DEF h
  <2>3. r \in GameType
    BY <2>1, <2>2 DEF Sound, GameType
  <2>4. Paired(r)
    BY <2>2 DEF Sound, GameType, Paired
  <2>5. DoReturn(g, c) = r
    BY <1>2 DEF DoReturn, h
  <2> QED
    BY <2>3, <2>4, <2>5 DEF Sound
<1> QED
  BY <1>1, <1>2

\* The return that extract_char forces on a switched player
LEMMA RecallOwnerSound ==
  ASSUME NEW g \in Sound, NEW c \in Cell
  PROVE  RecallOwner(g, c) \in Sound
<1> DEFINE T == {t \in Desc : g.original[t] = c /\ g.character[t] # NULL}
           b == g.character[CHOOSE t \in T : TRUE]
<1>1. CASE c \in g.npc \/ g.desc[c] # NULL \/ T = {}
  BY <1>1 DEF RecallOwner
<1>2. CASE ~ (c \in g.npc \/ g.desc[c] # NULL \/ T = {})
  <2>1. (CHOOSE t \in T : TRUE) \in T
    BY <1>2
  <2>2. b \in Cell
    BY <2>1 DEF Sound, GameType
  <2>3. DoReturn(g, b) \in Sound
    BY <2>2, DoReturnSound
  <2> QED
    BY <1>2, <2>3 DEF RecallOwner
<1> QED
  BY <1>1, <1>2

\* A player goes to a menu, a mobile's cell to the pool.
LEMMA LeaveGameSound ==
  ASSUME NEW g \in Sound, NEW c \in Cell
  PROVE  LeaveGame(g, c) \in Sound
<1>1. CASE c \in g.npc
  <2>1. [g EXCEPT !.alloc = @ \ {c}] \in GameType
    BY DEF Sound, GameType
  <2>2. Paired([g EXCEPT !.alloc = @ \ {c}])
    BY DEF Sound, GameType, Paired
  <2> QED
    BY <1>1, <2>1, <2>2 DEF LeaveGame, Sound
<1>2. CASE c \notin g.npc /\ g.desc[c] \notin Open(g)
  BY <1>2 DEF LeaveGame
<1>3. CASE c \notin g.npc /\ g.desc[c] \in Open(g)
  <2> DEFINE d == g.desc[c]
             st == IF g.state[d] = "QMENU" THEN "QMENU" ELSE "MENU"
  <2>1. d \in Desc /\ g.state[d] # "FREE"
    BY <1>3 DEF Open
  <2>2. st \in ConState \ {"FREE"}
    BY DEF ConState, Menus, QuitMenus
  <2>3. [g EXCEPT !.state[d] = st] \in Sound
    BY <2>1, <2>2, StateSound
  <2>4. LeaveGame(g, c) = [g EXCEPT !.state[d] = st]
    BY <1>3, <2>1 DEF LeaveGame, Sound, GameType
  <2> QED
    BY <2>3, <2>4
<1> QED
  BY <1>1, <1>2, <1>3

\* A character leaves character_list.
LEMMA RemoveCharSound ==
  ASSUME NEW g \in Sound, NEW c \in Cell
  PROVE  RemoveChar(g, c) \in Sound
<1>1. RemoveChar(g, c) \in GameType
  BY DEF RemoveChar, Sound, GameType
<1>2. Paired(RemoveChar(g, c))
  BY DEF RemoveChar, Sound, GameType, Paired
<1> QED
  BY <1>1, <1>2 DEF Sound

\* extract_char, the composition of the above
LEMMA ExtractCharSound ==
  ASSUME NEW g \in Sound, NEW c \in Cell
  PROVE  ExtractChar(g, c) \in Sound
<1> DEFINE g1 == RecallOwner(SaveChar(g, c), c)
           g2 == IF g1.desc[c] = NULL THEN g1 ELSE ForgetSnooping(g1, {g1.desc[c]})
           g3 == RemoveChar(g2, c)
           g4 == DoReturn(g3, c)
<1>1. g1 \in Sound
  BY SaveCharSound, RecallOwnerSound
<1>2. g2 \in Sound
  <2>1. CASE g1.desc[c] = NULL
    BY <1>1, <2>1
  <2>2. CASE g1.desc[c] # NULL
    <3>1. {g1.desc[c]} \in SUBSET Desc
      BY <1>1, <2>2 DEF Sound, GameType
    <3> QED
      BY <1>1, <2>2, <3>1, ForgetSnoopingSound
  <2> QED
    BY <2>1, <2>2
<1>3. g3 \in Sound
  BY <1>2, RemoveCharSound
<1>4. g4 \in Sound
  BY <1>3, DoReturnSound
<1>5. LeaveGame(g4, c) \in Sound
  BY <1>4, LeaveGameSound
<1> QED
  BY <1>5 DEF ExtractChar

-----------------------------------------------------------------------------
(* The duplicate check of a login.                                           *)

\* Descriptors that let go of their bodies go to CLOSE, not to FREE: they keep their links.
LEMMA LetGoSound ==
  ASSUME NEW g \in Sound, NEW K \in SUBSET Open(g)
  PROVE  /\ LetGo(g, K) \in Sound
         /\ \A d \in Desc \ K : LetGo(g, K).state[d] = g.state[d]
<1> DEFINE h == LetGo(g, K)
<1>1. /\ h.state = [k \in Desc |-> IF k \in K THEN "CLOSE" ELSE g.state[k]]
      /\ h.snooping = g.snooping
      /\ h.snoop_by = g.snoop_by
  BY DEF LetGo, Sound, GameType
<1>2. "CLOSE" \in ConState
  BY DEF ConState
<1>3. h \in GameType
  BY <1>2 DEF LetGo, Sound, GameType
<1>4. Paired(h)
  BY <1>1 DEF Sound, Paired, Open
<1>5. \A d \in Desc \ K : h.state[d] = g.state[d]
  BY <1>1
<1> QED
  BY <1>3, <1>4, <1>5 DEF Sound

\* A descriptor takes a body over.
LEMMA UsurpSound ==
  ASSUME NEW g \in Sound, NEW d \in Desc, NEW b \in Cell, g.state[d] # "FREE"
  PROVE  Usurp(g, d, b) \in Sound
<1> DEFINE h == Usurp(g, d, b)
<1>1. /\ h.state = [g.state EXCEPT ![d] = "PLAYING"]
      /\ h.snooping = g.snooping
      /\ h.snoop_by = g.snoop_by
  BY DEF Usurp, Sound, GameType
<1>2. "PLAYING" \in ConState
  BY DEF ConState, InGame
<1>3. h \in GameType
  BY <1>2 DEF Usurp, Sound, GameType
<1>4. Paired(h)
  BY <1>1 DEF Sound, GameType, Paired
<1> QED
  BY <1>3, <1>4 DEF Sound

\* The duplicate check settles on a cell or on nothing.
LEMMA UsurpedType ==
  ASSUME NEW g \in Sound, NEW l, NEW d \in Desc, NEW id
  PROVE  Usurped(g, l, d, id) \in Cell \cup {NULL}
<1> DEFINE picks == Away(g, d, id) \cup {k \in Here(g, d, id) : g.state[k] = "PLAYING"}
           first == CHOOSE k \in First(l, picks) : TRUE
<1>1. CASE First(l, picks) = {}
  BY <1>1 DEF Usurped
<1>2. CASE First(l, picks) # {}
  <2>1. first \in First(l, picks)
    BY <1>2
  <2>2. first \in Desc
    BY <2>1 DEF First, Away, Here, Open
  <2>3. Usurped(g, l, d, id) \in {g.original[first], g.character[first]}
    BY <1>2 DEF Usurped
  <2> QED
    BY <2>2, <2>3 DEF Sound, GameType
<1> QED
  BY <1>1, <1>2

\* perform_dupe_check, whichever bodies it finds
LEMMA DupeCheckSound ==
  ASSUME NEW g \in Sound, NEW l, NEW d \in Open(g)
  PROVE  DupeCheck(g, l, d) \in Sound
<1> DEFINE id    == g.idnum[g.character[d]]
           gone  == Away(g, d, id) \cup Here(g, d, id)
           cut   == LetGo(g, gone)
           taken == Usurped(g, l, d, id)
           alone == Linkless(cut, id, taken)
           body  == IF taken # NULL THEN taken
                    ELSE IF alone = {} THEN NULL ELSE CHOOSE c \in alone : TRUE
           dups  == alone \ {body}
           left  == [cut EXCEPT
                       !.idnum = [c \in Cell |-> IF c \in dups THEN SavedId(g, c) ELSE @[c]],
                       !.chars = @ \ dups]
<1>1. d \in Desc /\ g.state[d] # "FREE"
  BY DEF Open
<1>2. gone \in SUBSET Open(g) /\ d \notin gone
  BY DEF Away, Here
<1>3. cut \in Sound /\ cut.state[d] = g.state[d]
  BY <1>1, <1>2, LetGoSound
<1>4. taken \in Cell \cup {NULL}
  BY <1>1, UsurpedType
<1>5. alone \in SUBSET Cell
  BY <1>3 DEF Linkless, Sound, GameType
<1>6. body \in Cell \cup {NULL}
  BY <1>4, <1>5
<1> HIDE DEF cut, taken, alone, body
<1>7. left \in Sound /\ left.state[d] = g.state[d]
  <2>1. \A c \in Cell : SavedId(g, c) \in -1..MaxId
    BY SavedIdType DEF Sound
  <2>2. left \in GameType
    BY <1>3, <2>1 DEF Sound, GameType
  <2>3. Paired(left)
    BY <1>3 DEF Sound, GameType, Paired
  <2>4. left.state = cut.state
    BY <1>3 DEF Sound, GameType
  <2> QED
    BY <1>3, <2>2, <2>3, <2>4 DEF Sound
<1>8. DupeCheck(g, l, d) = IF body = NULL THEN [left EXCEPT !.state[d] = "RMOTD"]
                           ELSE Usurp(left, d, body)
  BY DEF DupeCheck, cut, taken, alone, body
<1> HIDE DEF left
<1>9. "RMOTD" \in ConState \ {"FREE"}
  BY DEF ConState, Login
<1>10. CASE body = NULL
  BY <1>1, <1>7, <1>8, <1>9, <1>10, StateSound
<1>11. CASE body # NULL
  BY <1>1, <1>6, <1>7, <1>8, <1>11, UsurpSound
<1> QED
  BY <1>10, <1>11

-----------------------------------------------------------------------------
(***************************************************************************)
(* The inductive invariant.  Half-links are never left behind because the  *)
(* links of a deleted descriptor are known to be NULL, and a descriptor is *)
(* known to be of the right type wherever a handler finds one in a table:  *)
(* neither part is inductive without the other.                            *)
(***************************************************************************)
Inv == TypeOK /\ SnoopSymmetric

\* The invariant, as membership of game in Sound
LEMMA InvIsSound ==
  Inv <=> /\ game \in Sound
          /\ before \in SUBSET (Desc \X Desc)
          /\ phase \in {"poll", "commands", "close", "crashed"}
          /\ cursor \in Desc \cup {NULL}
          /\ login \in [Desc -> Name \cup {NULL}]
BY DEF Inv, TypeOK, SnoopSymmetric, Sound

\* The same of the next state
LEMMA NextInvIsSound ==
  Inv' <=> /\ game' \in Sound
           /\ before' \in SUBSET (Desc \X Desc)
           /\ phase' \in {"poll", "commands", "close", "crashed"}
           /\ cursor' \in Desc \cup {NULL}
           /\ login' \in [Desc -> Name \cup {NULL}]
BY DEF Inv, TypeOK, SnoopSymmetric, Sound, Paired

\* The head of a list of descriptors is one of them, or NULL.
LEMMA HeadType ==
  ASSUME NEW l, NEW K \in SUBSET Desc
  PROVE  Head(l, K) \in Desc \cup {NULL}
BY DEF Head, First

\* What every turn of the command sweep does, whatever d typed
LEMMA TurnType ==
  ASSUME Inv, NEW d \in Desc, Turn(d)
  PROVE  /\ d \in Open(game)
         /\ cursor' \in Desc \cup {NULL}
BY HeadType DEF Turn, Next_d, Open

\* A handler whose tables are sound keeps the invariant.
LEMMA BecomeStep ==
  ASSUME Inv, NEW g \in Sound, Become(g),
         phase' \in {"poll", "commands", "close", "crashed"}, cursor' \in Desc \cup {NULL}
  PROVE  Inv'
<1>1. game' \in Sound
  BY CollectSound DEF Become
<1>2. before' \in SUBSET (Desc \X Desc) /\ login' \in [Desc -> Name \cup {NULL}]
  BY InvIsSound DEF Become
<1> QED
  BY <1>1, <1>2, NextInvIsSound

\* The same of a handler that runs in d's turn
LEMMA DoStep ==
  ASSUME Inv, NEW d \in Desc, Turn(d), NEW g \in Sound, Do(g)
  PROVE  Inv'
<1>1. cursor' \in Desc \cup {NULL}
  BY TurnType
<1>2. Become(g) /\ phase' \in {"poll", "commands", "close", "crashed"}
  BY InvIsSound DEF Do
<1> QED
  BY <1>1, <1>2, BecomeStep

\* A crash changes no table.
LEMMA CrashStep ==
  ASSUME Inv, cursor' \in Desc \cup {NULL}, Crash
  PROVE  Inv'
BY InvIsSound, NextInvIsSound DEF Crash

\* A change of d's state alone keeps the invariant.
LEMMA GotoStep ==
  ASSUME Inv, NEW d \in Desc, Turn(d), NEW st \in ConState \ {"FREE"}, Goto(d, st)
  PROVE  Inv'
<1>1. d \in Open(game)
  BY TurnType
<1>2. [game EXCEPT !.state[d] = st] \in Sound
  BY <1>1, InvIsSound, StateSound DEF Open
<1> QED
  BY <1>2, DoStep DEF Goto

-----------------------------------------------------------------------------
(* The loop itself.                                                          *)

\* The main loop, new connections and lost links keep the invariant.
LEMMA LoopStep ==
  ASSUME Inv, Loop \/ \E d \in Desc : NewDescriptor(d) \/ LinkLost(d)
  PROVE  Inv'
<1>1. CASE StartCommands
  BY <1>1, InvIsSound, NextInvIsSound, HeadType DEF StartCommands, InPhase, Open
<1>2. CASE EndCommands \/ EndClose
  BY <1>2, InvIsSound, NextInvIsSound DEF EndCommands, EndClose, InPhase
<1>3. ASSUME NEW d \in Desc, NoInput(d) PROVE Inv'
  BY <1>3, TurnType, InvIsSound, NextInvIsSound DEF NoInput
<1>4. ASSUME NEW d \in Desc, UseFreedDescriptor(d) PROVE Inv'
  BY <1>4, CrashStep, InvIsSound DEF UseFreedDescriptor
<1>5. ASSUME NEW d \in Desc, CloseMarked(d) PROVE Inv'
  <2>1. CloseSocket(game, d) \in Sound
    BY InvIsSound, CloseSocketsSound DEF CloseSocket
  <2> QED
    BY <1>5, <2>1, BecomeStep, InvIsSound DEF CloseMarked, InPhase
<1>6. ASSUME NEW d \in Desc, LinkLost(d) PROVE Inv'
  <2>1. CloseSocket(game, d) \in Sound
    BY InvIsSound, CloseSocketsSound DEF CloseSocket
  <2> QED
    BY <1>6, <2>1, BecomeStep, InvIsSound DEF LinkLost, Do
<1>7. ASSUME NEW d \in Desc, NewDescriptor(d) PROVE Inv'
  <2>1. game' = [game EXCEPT !.state[d] = "GET_NAME"] /\ "GET_NAME" \in ConState
    BY <1>7 DEF NewDescriptor, ConState, Login
  <2>2. game' \in GameType
    BY <2>1, InvIsSound DEF Sound, GameType
  <2>3. Paired(game')
    BY <2>1, InvIsSound DEF Sound, GameType, Paired
  <2>4. before' \in SUBSET (Desc \X Desc)
    BY <1>7, InvIsSound DEF NewDescriptor, Open
  <2> QED
    BY <1>7, <2>2, <2>3, <2>4, InvIsSound, NextInvIsSound DEF NewDescriptor, InPhase, Sound
<1> QED
  BY <1>1, <1>2, <1>3, <1>4, <1>5, <1>6, <1>7 DEF Loop

(***************************************************************************)
(* nanny.                                                                  *)
(***************************************************************************)

\* A player loaded by name into a new cell, and the cell taken for it
LEMMA LoadedSound ==
  ASSUME NEW g \in Sound, NEW d \in Desc, NEW n, Known(g, n), CanGetCh(g)
  PROVE  /\ GetCh(g) \in Cell
         /\ PutChar(g, GetCh(g), d, n, IdOf(g, n)) \in Sound
         /\ PutChar(g, GetCh(g), d, n, IdOf(g, n)).state = g.state
<1>1. GetCh(g) \in Cell
  BY DEF CanGetCh, GetCh, Pool
<1>2. n \in Name
  BY DEF Known, IdsOf, Sound, GameType
<1>3. IdOf(g, n) \in -1..MaxId
  BY IdOfType, IdAssumption DEF Sound
<1> QED
  BY <1>1, <1>2, <1>3, PutCharSound

\* A save touches no descriptor.
LEMMA SaveCharState ==
  ASSUME NEW g \in Sound, NEW c
  PROVE  SaveChar(g, c).state = g.state
BY DEF SaveChar, Sound, GameType

\* The steps of nanny that only ask the next question
LEMMA AskStep ==
  ASSUME Inv, NEW d \in Desc,
         \/ NewPassword(d) \/ RetypePassword(d) \/ ReadMotd(d) \/ Background(d)
         \/ AskOldPassword(d) \/ OldPassword(d) \/ ChangedPassword(d)
         \/ MismatchedPassword(d) \/ AskDelete(d) \/ DeletePassword(d) \/ DoNotDelete(d)
  PROVE  Inv'
<1>1. \E st \in (Menus \cup QuitMenus \cup Login \cup {"CLOSE"}) : Turn(d) /\ Goto(d, st)
  <2>1. CASE NewPassword(d) \/ RetypePassword(d) \/ ReadMotd(d) \/ Background(d)
    BY <2>1 DEF NewPassword, RetypePassword, ReadMotd, Background, Prompt, Menus, Login
  <2>2. CASE AskOldPassword(d) \/ OldPassword(d)
    BY <2>2 DEF AskOldPassword, OldPassword, Prompt, Menus, QuitMenus
  <2>3. CASE ChangedPassword(d) \/ MismatchedPassword(d)
    BY <2>3 DEF ChangedPassword, MismatchedPassword, Prompt, Menus, QuitMenus
  <2>4. CASE AskDelete(d) \/ DeletePassword(d)
    BY <2>4 DEF AskDelete, DeletePassword, Prompt, Menus, QuitMenus
  <2>5. CASE DoNotDelete(d)
    BY <2>5 DEF DoNotDelete, Prompt, Menus, QuitMenus
  <2> QED
    BY <2>1, <2>2, <2>3, <2>4, <2>5
<1>2. Menus \cup QuitMenus \cup Login \cup {"CLOSE"} \subseteq ConState \ {"FREE"}
  BY DEF ConState, Menus, QuitMenus, Login
<1> QED
  BY <1>1, <1>2, GotoStep

\* The steps of nanny that close the connection
LEMMA LeaveStep ==
  ASSUME Inv, NEW d \in Desc,
         BadName(d) \/ NoPassword(d) \/ LeaveMenu(d) \/ LineAfterClose(d)
  PROVE  Inv'
<1>1. Turn(d) /\ Do(CloseSocket(game, d))
  BY DEF BadName, NoPassword, LeaveMenu, LineAfterClose, Prompt
<1>2. CloseSocket(game, d) \in Sound
  BY InvIsSound, CloseSocketsSound DEF CloseSocket
<1> QED
  BY <1>1, <1>2, DoStep

\* The name of a connection, until its password is asked for
LEMMA NameStep ==
  ASSUME Inv, NEW d \in Desc,
         ConfirmName(d) \/ \E n \in Name : KnownName(d, n) \/ NewName(d, n)
  PROVE  Inv'
<1>1. game \in Sound
  BY InvIsSound
<1>2. {"GET_NAME", "NAME_CNFRM", "PASSWORD", "NEWPASSWD", "CLOSE"} \subseteq ConState \ {"FREE"}
  BY DEF ConState, Login
<1>4. ASSUME ConfirmName(d) PROVE Inv'
  <2>1. Turn(d)
    BY <1>4 DEF ConfirmName, Prompt
  <2>2. CASE Goto(d, "NEWPASSWD") \/ Goto(d, "CLOSE")
    BY <1>2, <2>1, <2>2, GotoStep
  <2>3. CASE Do([game EXCEPT !.state[d] = "GET_NAME", !.name[game.character[d]] = NULL])
    <3> DEFINE g == [game EXCEPT !.state[d] = "GET_NAME"]
    <3>1. g \in Sound
      BY <1>1, <1>2, <2>1, StateSound DEF Turn
    <3>2. [g EXCEPT !.name[game.character[d]] = NULL] \in Sound
      BY <3>1, NameSound
    <3>3. [g EXCEPT !.name[game.character[d]] = NULL]
          = [game EXCEPT !.state[d] = "GET_NAME", !.name[game.character[d]] = NULL]
      BY <1>1 DEF Sound, GameType
    <3> QED
      BY <2>1, <2>3, <3>2, <3>3, DoStep
  <2> QED
    BY <1>4, <2>2, <2>3 DEF ConfirmName
<1>5. ASSUME NEW n \in Name, KnownName(d, n) PROVE Inv'
  <2> DEFINE g == PutChar(game, GetCh(game), d, n, IdOf(game, n))
  <2>1. g \in Sound /\ g.state = game.state
    BY <1>1, <1>5, LoadedSound DEF KnownName
  <2>2. Turn(d) /\ Do([g EXCEPT !.state[d] = "PASSWORD"])
    BY <1>5 DEF KnownName, Prompt
  <2> HIDE DEF g
  <2>3. [g EXCEPT !.state[d] = "PASSWORD"] \in Sound
    BY <1>2, <2>1, <2>2, StateSound DEF Turn
  <2> QED
    BY <2>2, <2>3, DoStep
<1>6. ASSUME NEW n \in Name, NewName(d, n) PROVE Inv'
  <2> DEFINE c == game.character[d]
             g == IF c = NULL THEN PutChar(game, GetCh(game), d, n, 0)
                  ELSE [game EXCEPT !.name[c] = n]
  <2>1. GetCh(game) \in Cell
    BY <1>6 DEF NewName, CanGetCh, GetCh, Pool
  <2>2. g \in Sound /\ g.state = game.state
    <3>1. CASE c = NULL
      <4>1. 0 \in -1..MaxId
        BY IdAssumption
      <4> QED
        BY <1>1, <2>1, <3>1, <4>1, PutCharSound
    <3>2. CASE c # NULL
      BY <1>1, <3>2, NameSound
    <3> QED
      BY <3>1, <3>2
  <2>3. Turn(d) /\ Do([g EXCEPT !.state[d] = "NAME_CNFRM"])
    BY <1>6 DEF NewName, Prompt
  <2> HIDE DEF g
  <2>4. [g EXCEPT !.state[d] = "NAME_CNFRM"] \in Sound
    BY <1>2, <2>2, <2>3, StateSound DEF Turn
  <2> QED
    BY <2>3, <2>4, DoStep
<1> QED
  BY <1>4, <1>5, <1>6


\* The steps of nanny around the password prompt
LEMMA PasswordStep ==
  ASSUME Inv, NEW d \in Desc,
         \/ WrongPassword(d) \/ RefusedLogin(d)
         \/ \E n \in Name : CreateChar(d, n) \/ RightPassword(d, n)
  PROVE  Inv'
<1> DEFINE c == game.character[d]
<1>1. game \in Sound /\ c \in Cell \cup {NULL}
  BY InvIsSound DEF Sound, GameType
<1>2. {"PASSWORD", "CLOSE", "RMOTD"} \subseteq ConState \ {"FREE"}
  BY DEF ConState, Login
<1>3. SaveChar(game, c) \in Sound /\ SaveChar(game, c).state = game.state
  BY <1>1, SaveCharSound, SaveCharState
<1>4. ASSUME WrongPassword(d) \/ RefusedLogin(d) PROVE Inv'
  <2>1. Turn(d) /\ \E st \in {"PASSWORD", "CLOSE"} :
                     Do([SaveChar(game, game.character[d]) EXCEPT !.state[d] = st])
    BY <1>4 DEF WrongPassword, RefusedLogin, Prompt
  <2>2. PICK st \in {"PASSWORD", "CLOSE"} : Do([SaveChar(game, c) EXCEPT !.state[d] = st])
    BY <2>1
  <2>3. [SaveChar(game, c) EXCEPT !.state[d] = st] \in Sound
    BY <1>2, <1>3, <2>1, StateSound DEF Turn
  <2> QED
    BY <2>1, <2>2, <2>3, DoStep
<1>5. ASSUME NEW n \in Name, RightPassword(d, n) PROVE Inv'
  <2>1. Turn(d)
    BY <1>5 DEF RightPassword, Prompt
  <2>2. d \in Open(SaveChar(game, c))
    BY <1>3, <2>1 DEF Turn, Open
  <2>3. game' = Collect(DupeCheck(SaveChar(game, c), before, d))
    BY <1>5 DEF RightPassword
  <2>4. game' \in Sound
    BY <1>3, <2>2, <2>3, DupeCheckSound, CollectSound
  <2> QED
    BY <1>5, <2>1, <2>4, TurnType, InvIsSound, NextInvIsSound DEF RightPassword
<1>6. ASSUME NEW n \in Name, CreateChar(d, n) PROVE Inv'
  <2> DEFINE e == [name |-> n, id |-> NextId(game)]
             g == [game EXCEPT !.db = @ \cup {e}, !.idnum[c] = e.id, !.state[d] = "RMOTD"]
  <2>1. Turn(d) /\ NextId(game) \in 1..MaxId
    BY <1>6 DEF CreateChar, Prompt
  <2>2. e \in [name : Name, id : 1..MaxId] /\ e.id \in -1..MaxId
    BY <2>1, IdAssumption
  <2> HIDE DEF e
  <2>3. g \in GameType
    BY <1>1, <1>2, <2>2 DEF Sound, GameType
  <2>4. Paired(g)
    BY <1>1, <2>1 DEF Sound, GameType, Paired, Turn
  <2>5. game' = SaveChar(g, c)
    BY <1>6 DEF CreateChar, e
  <2>6. game' \in Sound
    BY <1>1, <2>3, <2>4, <2>5, SaveCharSound DEF Sound
  <2> QED
    BY <1>6, <2>1, <2>6, TurnType, InvIsSound, NextInvIsSound DEF CreateChar
<1> QED
  BY <1>4, <1>5, <1>6

\* The steps of nanny that load, save, extract or delete a player
LEMMA PlayerStep ==
  ASSUME Inv, NEW d \in Desc,
         \/ EnterGame(d) \/ VerifyAfterQuit(d) \/ DeleteSelf(d)
         \/ \E auth \in BOOLEAN : VerifyPassword(d, auth)
  PROVE  Inv'
<1> DEFINE c == game.character[d]
           n == game.name[c]
           new == GetCh(game)
           put == PutChar(game, new, d, n, IdOf(game, n))
<1>1. game \in Sound /\ c \in Cell \cup {NULL}
  BY InvIsSound DEF Sound, GameType
<1>2. {"MENU", "QMENU", "PLAYING", "CLOSE"} \subseteq ConState \ {"FREE"}
  BY DEF ConState, Menus, QuitMenus, InGame
<1>3. ASSUME Turn(d), Crash PROVE Inv'
  BY <1>3, TurnType, CrashStep
<1>4. ASSUME Known(game, n), CanGetCh(game) PROVE new \in Cell /\ put \in Sound
  BY <1>1, <1>4, LoadedSound
<1> HIDE DEF put, new
<1>5. ASSUME EnterGame(d) PROVE Inv'
  <2> DEFINE g == [put EXCEPT !.chars = @ \cup {new}, !.state[d] = "PLAYING"]
             h == [put EXCEPT !.chars = @ \cup {new}]
  <2>1. Turn(d)
    BY <1>5 DEF EnterGame, Prompt
  <2>2. \/ ~ Known(game, n) /\ Crash
        \/ Known(game, n) /\ CanGetCh(game) /\ Do(g)
    BY <1>5 DEF EnterGame, put, new
  <2>3. ASSUME Known(game, n), CanGetCh(game) PROVE g \in Sound
    <3>1. h \in GameType
      BY <1>4, <2>3 DEF Sound, GameType
    <3>2. Paired(h)
      BY <1>4, <2>3 DEF Sound, GameType, Paired
    <3>3. [h EXCEPT !.state[d] = "PLAYING"] \in Sound
      BY <1>2, <3>1, <3>2, StateSound DEF Sound
    <3>4. g = [h EXCEPT !.state[d] = "PLAYING"]
      BY <1>4, <2>3 DEF Sound, GameType
    <3> QED
      BY <3>3, <3>4
  <2> QED
    BY <1>3, <2>1, <2>2, <2>3, DoStep
<1>6. ASSUME VerifyAfterQuit(d) PROVE Inv'
  <2> DEFINE g == [put EXCEPT !.desc[new] = NULL]
             h == [ExtractChar(g, new) EXCEPT !.state[d] = "QMENU"]
  <2>1. Turn(d)
    BY <1>6 DEF VerifyAfterQuit, Prompt
  <2>2. \/ ~ Known(game, n) /\ Crash
        \/ Known(game, n) /\ CanGetCh(game) /\ Do(h)
    BY <1>6 DEF VerifyAfterQuit, put, new
  <2>3. ASSUME Known(game, n), CanGetCh(game) PROVE h \in Sound
    <3>1. g \in GameType
      BY <1>4, <2>3 DEF Sound, GameType
    <3>2. Paired(g)
      BY <1>4, <2>3 DEF Sound, GameType, Paired
    <3>3. ExtractChar(g, new) \in Sound
      BY <1>4, <2>3, <3>1, <3>2, ExtractCharSound DEF Sound
    <3> QED
      BY <1>2, <3>3, StateSound
  <2> QED
    BY <1>3, <2>1, <2>2, <2>3, DoStep
<1>7. ASSUME DeleteSelf(d) PROVE Inv'
  <2> DEFINE i == game.idnum[c]
             rest == {e \in game.db : e.id # i}
             g(db) == [game EXCEPT !.db = db, !.character[d] = NULL, !.state[d] = "CLOSE"]
  <2>1. Turn(d)
    BY <1>7 DEF DeleteSelf, Prompt
  <2>2. Crash \/ \E db \in {rest, game.db} : Do(g(db))
    BY <1>7 DEF DeleteSelf
  <2>3. ASSUME NEW db \in {rest, game.db} PROVE g(db) \in Sound
    <3>1. g(db) \in GameType
      BY <1>1, <1>2 DEF Sound, GameType
    <3>2. Paired(g(db))
      BY <1>1 DEF Sound, GameType, Paired
    <3> QED
      BY <3>1, <3>2 DEF Sound
  <2> QED
    BY <1>3, <2>1, <2>2, <2>3, DoStep
<1>8. ASSUME NEW auth \in BOOLEAN, VerifyPassword(d, auth) PROVE Inv'
  <2> DEFINE g == [SaveChar(game, c) EXCEPT !.state[d] = "MENU"]
             h == [ExtractChar(g, c) EXCEPT !.state[d] = "QMENU"]
  <2>1. Turn(d)
    BY <1>8 DEF VerifyPassword, Prompt
  <2>2. \/ Crash
        \/ c # NULL /\ Do(IF auth THEN h ELSE g)
    BY <1>8, Zenon DEF VerifyPassword
  <2>3. Crash \/ (c # NULL /\ Do(h)) \/ Do(g)
    <3>1. CASE auth
      BY <2>2, <3>1, Zenon
    <3>2. CASE ~ auth
      BY <2>2, <3>2, Zenon
    <3> QED
      BY <3>1, <3>2
  <2>4. g \in Sound
    BY <1>1, <1>2, SaveCharSound, StateSound
  <2>5. ASSUME c # NULL PROVE h \in Sound
    <3>1. ExtractChar(g, c) \in Sound
      BY <1>1, <2>4, <2>5, ExtractCharSound
    <3> QED
      BY <1>2, <3>1, StateSound
  <2> QED
    BY <1>3, <2>1, <2>3, <2>4, <2>5, DoStep
<1> QED
  BY <1>5, <1>6, <1>7, <1>8

\* Every line that nanny handles keeps the invariant.
LEMMA NannyStep ==
  ASSUME Inv, NEW d \in Desc, Nanny(d)
  PROVE  Inv'
<1>1. Gives(d) \subseteq Name
  BY DEF Gives
<1>2. \/ NewPassword(d) \/ RetypePassword(d) \/ ReadMotd(d) \/ Background(d)
      \/ AskOldPassword(d) \/ OldPassword(d) \/ ChangedPassword(d)
      \/ MismatchedPassword(d) \/ AskDelete(d) \/ DeletePassword(d) \/ DoNotDelete(d)
      \/ BadName(d) \/ NoPassword(d) \/ LeaveMenu(d) \/ LineAfterClose(d)
      \/ ConfirmName(d) \/ (\E n \in Name : KnownName(d, n) \/ NewName(d, n))
      \/ WrongPassword(d) \/ RefusedLogin(d)
      \/ (\E n \in Name : CreateChar(d, n) \/ RightPassword(d, n))
      \/ EnterGame(d) \/ VerifyAfterQuit(d) \/ DeleteSelf(d)
      \/ (\E auth \in BOOLEAN : VerifyPassword(d, auth))
  BY <1>1 DEF Nanny
<1> QED
  BY <1>2, AskStep, LeaveStep, NameStep, PasswordStep, PlayerStep


-----------------------------------------------------------------------------
(* The commands.                                                             *)

\* A player is marked for the quit menu.
LEMMA ToQuitMenuSound ==
  ASSUME NEW g \in Sound, NEW c \in Cell
  PROVE  ToQuitMenu(g, c) \in Sound
<1>1. "QMENU" \in ConState \ {"FREE"}
  BY DEF ConState, QuitMenus
<1>2. CASE g.desc[c] \in Open(g) /\ ~ IsSenator(c)
  BY <1>1, <1>2, StateSound DEF ToQuitMenu, Open
<1>3. CASE ~ (g.desc[c] \in Open(g) /\ ~ IsSenator(c))
  BY <1>3 DEF ToQuitMenu
<1> QED
  BY <1>2, <1>3

\* A player moves to another body.
LEMMA OccupySound ==
  ASSUME NEW g \in Sound, NEW d \in Desc, NEW c \in Cell, NEW v \in Cell
  PROVE  Occupy(g, d, c, v) \in Sound
<1>1. Occupy(g, d, c, v) \in GameType
  BY DEF Occupy, Sound, GameType
<1>2. Paired(Occupy(g, d, c, v))
  BY DEF Occupy, Sound, GameType, Paired
<1> QED
  BY <1>1, <1>2 DEF Sound

\* Both ends of a snooping are forgotten, and none else.
LEMMA StopSnoopingSound ==
  ASSUME NEW g \in Sound, NEW d \in Desc
  PROVE  /\ StopSnooping(g, d) \in Sound
         /\ StopSnooping(g, d).state = g.state
         /\ StopSnooping(g, d).snooping[d] = NULL
         /\ \A e \in Desc : g.snoop_by[e] = NULL => StopSnooping(g, d).snoop_by[e] = NULL
<1> DEFINE x == g.snooping[d]
           h == [g EXCEPT !.snoop_by[x] = NULL, !.snooping[d] = NULL]
<1>1. CASE x = NULL
  BY <1>1 DEF StopSnooping
<1>2. CASE x # NULL
  <2>1. x \in Desc
    BY <1>2 DEF Sound, GameType
  <2>2. h \in GameType
    BY <2>1 DEF Sound, GameType
  <2>3. /\ h.snooping = [g.snooping EXCEPT ![d] = NULL]
        /\ h.snoop_by = [g.snoop_by EXCEPT ![x] = NULL]
        /\ h.state = g.state
    BY DEF Sound, GameType
  <2>4. ASSUME NEW a \in Desc, NEW b \in Desc
        PROVE  h.snooping[a] = b <=> h.snoop_by[b] = a
    <3>1. /\ g.snooping[a] = b <=> g.snoop_by[b] = a
          /\ g.snooping[d] = b <=> g.snoop_by[b] = d
          /\ g.snooping[a] = x <=> g.snoop_by[x] = a
      BY <2>1 DEF Sound, Paired
    <3>2. g.snoop_by[x] = d
      BY <2>1 DEF Sound, Paired
    <3>3. a # NULL /\ b # NULL
      BY NullAssumption
    <3> QED
      BY <2>1, <2>3, <3>1, <3>2, <3>3 DEF Sound, GameType
  <2>5. \A a \in Desc : h.state[a] = "FREE" => h.snooping[a] = NULL /\ h.snoop_by[a] = NULL
    BY <2>1, <2>3 DEF Sound, GameType, Paired
  <2>6. h \in Sound
    BY <2>2, <2>4, <2>5 DEF Sound, Paired
  <2>7. StopSnooping(g, d) = h
    BY <1>2 DEF StopSnooping
  <2>8. \A e \in Desc : g.snoop_by[e] = NULL => h.snoop_by[e] = NULL
    BY <2>1, <2>3 DEF Sound, GameType
  <2> QED
    BY <2>3, <2>6, <2>7, <2>8 DEF Sound, GameType
<1> QED
  BY <1>1, <1>2

\* d, who snoops nobody, and e, whom nobody snoops, are paired.
LEMMA PairSound ==
  ASSUME NEW g \in Sound, NEW d \in Desc, NEW e \in Desc,
         g.state[d] # "FREE", g.state[e] # "FREE",
         g.snooping[d] = NULL, g.snoop_by[e] = NULL
  PROVE  [g EXCEPT !.snooping[d] = e, !.snoop_by[e] = d] \in Sound
<1> DEFINE h == [g EXCEPT !.snooping[d] = e, !.snoop_by[e] = d]
<1>1. h \in GameType
  BY DEF Sound, GameType
<1>2. /\ h.snooping = [g.snooping EXCEPT ![d] = e]
      /\ h.snoop_by = [g.snoop_by EXCEPT ![e] = d]
      /\ h.state = g.state
  BY DEF Sound, GameType
<1>3. ASSUME NEW a \in Desc, NEW b \in Desc
      PROVE  h.snooping[a] = b <=> h.snoop_by[b] = a
  <2>1. /\ g.snooping[a] = b <=> g.snoop_by[b] = a
        /\ g.snooping[d] = b <=> g.snoop_by[b] = d
        /\ g.snooping[a] = e <=> g.snoop_by[e] = a
    BY DEF Sound, Paired
  <2>2. a # NULL /\ b # NULL
    BY NullAssumption
  <2> QED
    BY <1>2, <2>1, <2>2 DEF Sound, GameType
<1>4. \A a \in Desc : h.state[a] = "FREE" => h.snooping[a] = NULL /\ h.snoop_by[a] = NULL
  BY <1>2 DEF Sound, GameType, Paired
<1> QED
  BY <1>1, <1>3, <1>4 DEF Sound, Paired


\* A player's link is closed, and the body forgets it.
LEMMA UnlinkedSound ==
  ASSUME NEW g \in Sound, NEW e \in Desc, NEW v \in Cell
  PROVE  [CloseSocket(g, e) EXCEPT !.desc[v] = NULL] \in Sound
<1>1. CloseSocket(g, e) \in Sound
  BY CloseSocketsSound DEF CloseSocket
<1>2. [CloseSocket(g, e) EXCEPT !.desc[v] = NULL] \in GameType
  BY <1>1 DEF Sound, GameType
<1>3. Paired([CloseSocket(g, e) EXCEPT !.desc[v] = NULL])
  BY <1>1 DEF Sound, GameType, Paired
<1> QED
  BY <1>2, <1>3 DEF Sound

\* A player who types a command plays a body.
LEMMA PlayingType ==
  ASSUME Inv, NEW d \in Desc, NEW cmd, Playing(d, cmd)
  PROVE  Turn(d) /\ d \in Open(game) /\ game \in Sound /\ game.character[d] \in Cell
BY TurnType, InvIsSound DEF Playing, Prompt, Sound, GameType

\* The commands that a player gives about his own body
LEMMA OwnBodyStep ==
  ASSUME Inv, NEW d \in Desc,
         Quit(d) \/ Rent(d) \/ Return(d) \/ Project(d) \/ Unsnoop(d) \/ StartEdit(d) \/ EndEdit(d)
  PROVE  Inv'
<1> DEFINE c == game.character[d]
<1>1. ASSUME Quit(d) PROVE Inv'
  <2> DEFINE g == SaveChar(game, c)
             others == {k \in Open(g) \ {d} : /\ g.character[k] # NULL
                                              /\ g.idnum[g.character[k]] = g.idnum[c]}
  <2>1. Turn(d) /\ game \in Sound /\ c \in Cell
    BY <1>1, PlayingType DEF Quit
  <2>2. Do(ExtractChar(ToQuitMenu(CloseSockets(g, others), c), c))
    BY <1>1 DEF Quit
  <2>3. g \in Sound
    BY <2>1, SaveCharSound
  <2>4. others \in SUBSET Desc
    BY DEF Open
  <2> HIDE DEF g, others
  <2>5. CloseSockets(g, others) \in Sound
    BY <2>3, <2>4, CloseSocketsSound
  <2>6. ToQuitMenu(CloseSockets(g, others), c) \in Sound
    BY <2>1, <2>5, ToQuitMenuSound
  <2>7. ExtractChar(ToQuitMenu(CloseSockets(g, others), c), c) \in Sound
    BY <2>1, <2>6, ExtractCharSound
  <2> QED
    BY <2>1, <2>2, <2>7, DoStep
<1>2. ASSUME Rent(d) PROVE Inv'
  <2>1. Turn(d) /\ game \in Sound /\ c \in Cell
    BY <1>2, PlayingType DEF Rent
  <2>2. ExtractChar(ToQuitMenu(game, c), c) \in Sound
    BY <2>1, ToQuitMenuSound, ExtractCharSound
  <2> QED
    BY <1>2, <2>1, <2>2, DoStep DEF Rent
<1>3. ASSUME Return(d) PROVE Inv'
  <2>1. Turn(d) /\ game \in Sound /\ c \in Cell
    BY <1>3, PlayingType DEF Return
  <2> QED
    BY <1>3, <2>1, DoReturnSound, DoStep DEF Return
<1>4. ASSUME Project(d) PROVE Inv'
  <2> DEFINE v == GetCh(game)
             g == [game EXCEPT !.alloc = @ \cup {v}, !.npc = @ \cup {v}, !.chars = @ \cup {v},
                               !.name[v] = NULL, !.idnum[v] = 0]
  <2>1. Turn(d) /\ game \in Sound /\ c \in Cell
    BY <1>4, PlayingType DEF Project
  <2>2. v \in Cell
    BY <1>4 DEF Project, CanGetCh, GetCh, Pool
  <2>3. Do(Occupy(g, d, c, v))
    BY <1>4 DEF Project
  <2> HIDE DEF v
  <2>4. g \in GameType
    <3>1. 0 \in -1..MaxId
      BY IdAssumption
    <3> QED
      BY <2>1, <2>2, <3>1 DEF Sound, GameType
  <2>5. Paired(g)
    BY <2>1 DEF Sound, GameType, Paired
  <2>6. Occupy(g, d, c, v) \in Sound
    BY <2>1, <2>2, <2>4, <2>5, OccupySound DEF Sound
  <2> QED
    BY <2>1, <2>3, <2>6, DoStep
<1>5. ASSUME Unsnoop(d) PROVE Inv'
  <2>1. Turn(d) /\ game \in Sound
    BY <1>5, PlayingType DEF Unsnoop
  <2>2. Crash \/ Do(StopSnooping(game, d))
    BY <1>5 DEF Unsnoop
  <2> QED
    BY <2>1, <2>2, TurnType, CrashStep, StopSnoopingSound, DoStep
<1>6. ASSUME StartEdit(d) PROVE Inv'
  <2>1. Turn(d) /\ \E st \in {"EDITING", "LATE_EDITING"} : Goto(d, st)
    BY <1>6 DEF StartEdit, Playing, Prompt
  <2>2. {"EDITING", "LATE_EDITING"} \subseteq ConState \ {"FREE"}
    BY DEF ConState, InGame
  <2> QED
    BY <2>1, <2>2, GotoStep
<1>7. ASSUME EndEdit(d) PROVE Inv'
  <2>1. Turn(d) /\ Goto(d, "PLAYING")
    BY <1>7 DEF EndEdit, Prompt
  <2>2. "PLAYING" \in ConState \ {"FREE"}
    BY DEF ConState, InGame
  <2> QED
    BY <2>1, <2>2, GotoStep
<1> QED
  BY <1>1, <1>2, <1>3, <1>4, <1>5, <1>6, <1>7

\* The commands that a player gives about the body v
LEMMA OtherBodyStep ==
  ASSUME Inv, NEW d \in Desc, NEW v \in Cell,
         Switch(d, v) \/ Snoop(d, v) \/ KillByCommand(d, v) \/ Disconnect(d, v) \/ Purge(d, v)
  PROVE  Inv'
<1> DEFINE c == game.character[d]
           e == game.desc[v]
<1>1. game \in Sound /\ e \in Desc \cup {NULL}
  BY InvIsSound DEF Sound, GameType
<1>2. ASSUME Turn(d), Crash PROVE Inv'
  BY <1>2, TurnType, CrashStep
<1>3. ASSUME Switch(d, v) PROVE Inv'
  <2>1. Turn(d) /\ c \in Cell
    BY <1>3, PlayingType DEF Switch
  <2>2. Occupy(game, d, c, v) \in Sound
    BY <1>1, <2>1, OccupySound
  <2> QED
    BY <1>3, <2>1, <2>2, DoStep DEF Switch
<1>4. ASSUME Snoop(d, v) PROVE Inv'
  <2> DEFINE g == StopSnooping(game, d)
             h == [g EXCEPT !.snooping[d] = e, !.snoop_by[e] = d]
  <2>1. Turn(d) /\ d \in Open(game)
    BY <1>4, PlayingType DEF Snoop
  <2>2. e \in Desc /\ game.snoop_by[e] = NULL
    BY <1>1, <1>4 DEF Snoop
  <2>3. Crash \/ (e \in Open(game) /\ Do(h))
    BY <1>4 DEF Snoop, Dangles
  <2>4. ASSUME e \in Open(game) PROVE h \in Sound
    <3>1. g \in Sound /\ g.state = game.state /\ g.snooping[d] = NULL /\ g.snoop_by[e] = NULL
      BY <1>1, <2>2, StopSnoopingSound
    <3> HIDE DEF g
    <3>2. g.state[d] # "FREE" /\ g.state[e] # "FREE"
      BY <2>1, <2>4, <3>1 DEF Open
    <3> QED
      BY <2>2, <3>1, <3>2, PairSound
  <2> QED
    BY <1>2, <2>1, <2>3, <2>4, DoStep
<1>5. ASSUME KillByCommand(d, v) PROVE Inv'
  <2>1. Turn(d) /\ ExtractChar(game, v) \in Sound
    BY <1>1, <1>5, PlayingType, ExtractCharSound DEF KillByCommand
  <2> QED
    BY <1>5, <2>1, DoStep DEF KillByCommand
<1>6. ASSUME Disconnect(d, v) PROVE Inv'
  <2> DEFINE k == IF IsSenator(v) THEN game ELSE [game EXCEPT !.state[e] = "CLOSE"]
             g == ExtractChar(k, v)
  <2>1. Turn(d) /\ e \in Desc
    BY <1>1, <1>6, PlayingType DEF Disconnect
  <2>2. Crash \/ (g.desc[v] # NULL /\ Do(CloseSocket(g, g.desc[v])))
    BY <1>6 DEF Disconnect
  <2>3. k \in Sound
    <3>1. "CLOSE" \in ConState \ {"FREE"}
      BY DEF ConState
    <3> QED
      BY <1>1, <2>1, <3>1, StateSound
  <2>4. g \in Sound
    BY <2>3, ExtractCharSound
  <2> HIDE DEF g
  <2>5. ASSUME g.desc[v] # NULL PROVE CloseSocket(g, g.desc[v]) \in Sound
    <3>1. {g.desc[v]} \in SUBSET Desc
      BY <2>4, <2>5 DEF Sound, GameType
    <3> QED
      BY <2>4, <3>1, CloseSocketsSound DEF CloseSocket
  <2> QED
    BY <1>2, <2>1, <2>2, <2>5, DoStep
<1>7. ASSUME Purge(d, v) PROVE Inv'
  <2> DEFINE k == [CloseSocket(game, e) EXCEPT !.desc[v] = NULL]
             g == IF v \in game.npc \/ e = NULL THEN game ELSE k
  <2>1. Turn(d)
    BY <1>7, PlayingType DEF Purge
  <2>2. Crash \/ Do(ExtractChar(g, v))
    BY <1>7 DEF Purge
  <2>3. e # NULL => k \in Sound
    BY <1>1, UnlinkedSound
  <2> HIDE DEF k
  <2>4. g \in Sound
    BY <1>1, <2>3
  <2> QED
    BY <1>2, <2>1, <2>2, <2>4, ExtractCharSound, DoStep
<1> QED
  BY <1>3, <1>4, <1>5, <1>6, <1>7


\* The commands about every connection at once
LEMMA EverybodyStep ==
  ASSUME Inv, NEW d \in Desc, DisconnectAll(d) \/ Copyover(d)
  PROVE  Inv'
<1>1. game \in Sound
  BY InvIsSound
<1>2. ASSUME DisconnectAll(d) PROVE Inv'
  <2> DEFINE D == {e \in Open(game) : game.state[e] \notin {"PLAYING", "EDITING"}}
  <2>1. Turn(d)
    BY <1>2, PlayingType DEF DisconnectAll
  <2>2. Crash \/ Do(CloseSockets(game, D))
    BY <1>2 DEF DisconnectAll
  <2>3. D \in SUBSET Desc
    BY DEF Open
  <2>4. CloseSockets(game, D) \in Sound
    BY <1>1, <2>3, CloseSocketsSound
  <2> QED
    BY <2>1, <2>2, <2>4, TurnType, CrashStep, DoStep
<1>3. ASSUME Copyover(d) PROVE Inv'
  <2> DEFINE K == {k \in Open(game) : /\ game.state[k] = "PLAYING" /\ game.character[k] # NULL
                                      /\ Known(game, CharName(game, game.character[k]))}
             who(k) == CharName(game, game.character[k])
             clear(S) == [x \in S |-> NULL]
             F == {h \in [K -> Cell \ Mob] : \A j, k \in K : h[j] = h[k] => j = k}
             f == CHOOSE h \in F : TRUE
             in(c) == CHOOSE k \in K : f[k] = c
             used  == {f[k] : k \in K}
             state == [k \in Desc |-> IF k \in K THEN "PLAYING" ELSE "FREE"]
             character == [k \in Desc |-> IF k \in K THEN f[k] ELSE NULL]
             desc == [c \in Cell |-> IF c \in used THEN in(c) ELSE NULL]
             name == [c \in Cell |-> IF c \in used THEN who(in(c)) ELSE NULL]
             idnum == [c \in Cell |-> IF c \in used THEN IdOf(game, who(in(c))) ELSE 0]
  <2>1. /\ F # {}
        /\ game' = [game EXCEPT
               !.state     = state,
               !.character = character,
               !.original  = clear(Desc),
               !.snooping  = clear(Desc),
               !.snoop_by  = clear(Desc),
               !.desc  = desc,
               !.name  = name,
               !.idnum = idnum,
               !.npc   = Mob,
               !.chars = Mob \cup used,
               !.alloc = Mob \cup used]
        /\ before' = {p \in K \X K : <<p[2], p[1]>> \in before}
        /\ login' = [k \in Desc |-> IF k \in K THEN login[k] ELSE NULL]
        /\ phase' = "poll"
    BY <1>3 DEF Copyover
  <2>2. Turn(d)
    BY <1>3, PlayingType DEF Copyover
  <2>3. K \subseteq Desc
    BY DEF Open
  <2>4. f \in [K -> Cell]
    BY <2>1
  <2>5. used \subseteq Cell /\ \A c \in used : in(c) \in K
    <3> HIDE DEF K, f
    <3>1. used \subseteq Cell
      BY <2>4
    <3>2. \A c \in used : \E k \in K : f[k] = c
      OBVIOUS
    <3> QED
      BY <3>1, <3>2
  <2>6. \A k \in K : /\ who(k) \in Name
                     /\ IdOf(game, who(k)) \in -1..MaxId
    <3> SUFFICES ASSUME NEW k \in K
                 PROVE  who(k) \in Name /\ IdOf(game, who(k)) \in -1..MaxId
      OBVIOUS
    <3>1. Known(game, who(k))
      OBVIOUS
    <3>2. who(k) \in Name
      BY <1>1, <3>1 DEF Known, IdsOf, Sound, GameType
    <3>3. IdOf(game, who(k)) \in 1..MaxId
      BY <1>1, <3>1, IdOfType DEF Sound
    <3> QED
      BY <3>2, <3>3, IdAssumption
  <2> HIDE DEF K, f, who, used, in, F
  <2>7. state \in [Desc -> ConState] /\ character \in [Desc -> Cell \cup {NULL}]
    BY <2>4 DEF ConState, InGame
  <2>8. desc \in [Cell -> Desc \cup {NULL}] /\ name \in [Cell -> Name \cup {NULL}]
    BY <2>3, <2>5, <2>6
  <2>9. idnum \in [Cell -> -1..MaxId]
    <3>1. 0 \in -1..MaxId
      BY IdAssumption
    <3> QED
      BY <2>5, <2>6, <3>1
  <2> HIDE DEF state, character, desc, name, idnum
  <2>10. game' \in GameType
    BY <1>1, <2>1, <2>5, <2>7, <2>8, <2>9, MobAssumption DEF Sound, GameType
  <2>11. Paired(game')
    BY <1>1, <2>1, NullAssumption DEF Sound, GameType, Paired
  <2>12. before' \in SUBSET (Desc \X Desc) /\ login' \in [Desc -> Name \cup {NULL}]
    BY <2>1, <2>3, InvIsSound
  <2> QED
    BY <2>1, <2>2, <2>10, <2>11, <2>12, TurnType, NextInvIsSound DEF Sound
<1> QED
  BY <1>2, <1>3

\* Every command keeps the invariant.
LEMMA CommandStep ==
  ASSUME Inv, NEW d \in Desc, Command(d)
  PROVE  Inv'
BY OwnBodyStep, OtherBodyStep, EverybodyStep DEF Command

-----------------------------------------------------------------------------
(* The heartbeat.                                                            *)

\* Every pulse of the heartbeat keeps the invariant.
LEMMA PulseStep ==
  ASSUME Inv, NEW c \in Cell, Die(c) \/ IdleReturn(c) \/ IdleOut(c)
  PROVE  Inv'
<1> DEFINE e == game.desc[c]
           k == [CloseSocket(game, e) EXCEPT !.desc[c] = NULL]
           g == IF e = NULL THEN game ELSE k
<1>1. game \in Sound /\ e \in Desc \cup {NULL}
  BY InvIsSound DEF Sound, GameType
<1>2. cursor' = cursor /\ phase' \in {phase, "crashed"}
  BY DEF Die, IdleReturn, IdleOut, InPhase, Do, Crash
<1>3. cursor' \in Desc \cup {NULL} /\ phase' \in {"poll", "commands", "close", "crashed"}
  BY <1>2, InvIsSound
<1>4. CASE Die(c)
  BY <1>1, <1>3, <1>4, ExtractCharSound, BecomeStep DEF Die
<1>5. CASE IdleReturn(c)
  BY <1>1, <1>3, <1>5, DoReturnSound, BecomeStep DEF IdleReturn
<1>6. CASE IdleOut(c)
  <2>1. Crash \/ Become(ExtractChar(g, c))
    BY <1>6 DEF IdleOut, Do
  <2>2. e # NULL => k \in Sound
    BY <1>1, UnlinkedSound
  <2> HIDE DEF k
  <2>3. g \in Sound
    BY <1>1, <2>2
  <2>4. ExtractChar(g, c) \in Sound
    BY <2>3, ExtractCharSound
  <2> QED
    BY <1>3, <2>1, <2>4, CrashStep, BecomeStep
<1> QED
  BY <1>4, <1>5, <1>6

-----------------------------------------------------------------------------
(* The theorems.                                                             *)

\* The invariant holds at boot.
LEMMA InitInv == Init => Inv
<1> SUFFICES ASSUME Init PROVE Inv
  OBVIOUS
<1>1. "FREE" \in ConState /\ 0 \in -1..MaxId
  BY IdAssumption DEF ConState
<1>2. game.db \in SUBSET [name : Name, id : 1..MaxId]
  BY IdAssumption DEF Init
<1>3. game \in GameType
  BY <1>1, <1>2, MobAssumption DEF Init, GameType
<1>4. Paired(game)
  BY NullAssumption DEF Init, Paired
<1> QED
  BY <1>3, <1>4 DEF Init, Inv, TypeOK, SnoopSymmetric

\* Every step keeps the invariant.
LEMMA NextInv == Inv /\ [Next]_vars => Inv'
<1> SUFFICES ASSUME Inv, [Next]_vars PROVE Inv'
  OBVIOUS
<1>1. CASE UNCHANGED vars
  BY <1>1, InvIsSound, NextInvIsSound DEF vars
<1>2. CASE Crashed
  BY <1>1, <1>2 DEF Crashed
<1>3. CASE Loop \/ \E d \in Desc : NewDescriptor(d) \/ LinkLost(d)
  BY <1>3, LoopStep
<1>4. CASE \E d \in Desc : Nanny(d) \/ Command(d)
  BY <1>4, NannyStep, CommandStep
<1>5. CASE \E c \in Cell : Die(c) \/ IdleReturn(c) \/ IdleOut(c)
  BY <1>5, PulseStep
<1> QED
  BY <1>1, <1>2, <1>3, <1>4, <1>5 DEF Next, Step

\* The inductive invariant holds for ever.
THEOREM InvHolds == Spec => []Inv
BY InitInv, NextInv, PTL DEF Spec

\* Every table keeps its type, whatever the players, their links and the clock do.
THEOREM TypeCorrect == Spec => []TypeOK
BY InvHolds, PTL DEF Inv

(***************************************************************************)
(* Snooping is symmetric, and a deleted descriptor is on neither side: no  *)
(* order of logins, switches, returns, kills, purges, link losses and      *)
(* closes of any number of connections leaves a half-link behind.          *)
(***************************************************************************)
THEOREM SnoopingSymmetric == Spec => []SnoopSymmetric
BY InvHolds, PTL DEF Inv

\* Types and snooping at once (close_socket, extract_char, do_snoop, stop_snooping).
THEOREM SnoopStaysSound == Spec => []SnoopSound
<1>1. Inv => SnoopSound
  BY DEF Inv, SnoopSound
<1> QED
  BY <1>1, InvHolds, PTL


=============================================================================
