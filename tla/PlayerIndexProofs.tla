-------------------------- MODULE PlayerIndexProofs --------------------------
(***************************************************************************)
(* For any players, connections and sizes: the index keeps its type, stays *)
(* sorted in memory and on disk, fits its table, and agrees with its file  *)
(* whenever nothing waits to be saved.                                     *)
(***************************************************************************)
EXTENDS MCPlayerIndex, TLAPS, WellFoundedInduction, SequenceTheorems

-----------------------------------------------------------------------------
(* Sorted sequences of entries.                                              *)

Table == { t \in Seq(Entry) : SortedById(t) }

\* First, by which the table is searched, finds an element or says 0.
LEMMA FirstInSet ==
  ASSUME NEW S \in SUBSET Nat, S # {}
  PROVE  First(S) \in S /\ \A j \in S : First(S) <= j
<1>1. PICK i \in S : \A j \in S : ~ (<<j, i>> \in OpToRel(<, Nat))
  BY NatLessThanWellFounded, WFMin
<1>2. \A j \in S : <<j, i>> \in OpToRel(<, Nat) <=> j < i
  BY DEF OpToRel
<1>3. \A j \in S : ~ (j < i)
  BY <1>1, <1>2, Zenon
<1>4. \A j \in S : i \in Nat /\ j \in Nat
  OBVIOUS
<1>5. \A j \in S : i <= j
  BY <1>3, <1>4
<1> QED
  BY <1>5 DEF First

\* A search by name or number gives a slot of the table, or 0.
LEMMA SlotFound ==
  ASSUME NEW t \in Seq(Entry), NEW S, S \subseteq 1 .. Len(t)
  PROVE  /\ First(S) \in 0 .. Len(t)
         /\ First(S) # 0 => First(S) \in S /\ First(S) \in 1 .. Len(t)
<1>1. CASE S = {}
  BY <1>1 DEF First
<1>2. CASE S # {}
  <2>1. Len(t) \in Nat
    BY LenProperties
  <2>2. S \in SUBSET Nat
    BY <2>1
  <2>3. First(S) \in S
    BY <1>2, <2>2, FirstInSet
  <2>4. First(S) \in 1 .. Len(t)
    BY <2>3
  <2> QED
    BY <2>1, <2>3, <2>4
<1> QED
  BY <1>1, <1>2

\* Changing the flags of an entry moves nobody.
LEMMA FlagsKeepOrder ==
  ASSUME NEW t \in Table, NEW u \in Seq(Entry), Len(u) = Len(t),
         \A i \in 1 .. Len(t) : u[i].id = t[i].id
  PROVE  u \in Table
BY DEF Table, SortedById

\* Entries taken from a sorted table in their order are sorted.
LEMMA PickedInOrder ==
  ASSUME NEW t \in Table, NEW u \in Seq(Entry), NEW f \in [1 .. Len(u) -> 1 .. Len(t)],
         \A i, j \in 1 .. Len(u) : i < j => f[i] < f[j],
         \A i \in 1 .. Len(u) : u[i] = t[f[i]]
  PROVE  u \in Table
<1>1. ASSUME NEW i \in 1 .. Len(u), NEW j \in 1 .. Len(u), i < j
      PROVE  u[i].id < u[j].id
  BY <1>1 DEF Table, SortedById
<1> QED
  BY <1>1 DEF Table, SortedById

\* A part of a sorted table is sorted: what is left of a file in a crash.
LEMMA PartSorted ==
  ASSUME NEW t \in Table, NEW n \in 0 .. Len(t)
  PROVE  SubSeq(t, 1, n) \in Table
<1> DEFINE u == SubSeq(t, 1, n)
           f == [i \in 1 .. n |-> i]
<1>1. t \in Seq(Entry) /\ Len(t) \in Nat
  BY LenProperties DEF Table
<1>2. u \in Seq(Entry) /\ Len(u) = n /\ \A i \in 1 .. n : u[i] = t[i]
  BY <1>1, SubSeqProperties, ElementOfSeq
<1> HIDE DEF u
<1>3. f \in [1 .. Len(u) -> 1 .. Len(t)]
  BY <1>1, <1>2
<1>4. \A i, j \in 1 .. Len(u) : i < j => f[i] < f[j]
  BY <1>2
<1>5. \A i \in 1 .. Len(u) : u[i] = t[f[i]]
  BY <1>2
<1> HIDE DEF f
<1>6. u \in Table
  BY <1>2, <1>3, <1>4, <1>5, PickedInOrder
<1> QED
  BY <1>6 DEF u

\* What RemoveAt does to a sequence, slot by slot.
LEMMA RemovedSlots ==
  ASSUME NEW t \in Seq(Entry), NEW i \in 1 .. Len(t)
  PROVE  /\ RemoveAt(t, i) \in Seq(Entry)
         /\ Len(RemoveAt(t, i)) = Len(t) - 1
         /\ \A j \in 1 .. Len(t) - 1 : RemoveAt(t, i)[j] = t[IF j < i THEN j ELSE j + 1]
<1> DEFINE a == SubSeq(t, 1, i - 1)
           b == SubSeq(t, i + 1, Len(t))
<1>1. Len(t) \in Nat
  BY LenProperties
<1>2. a \in Seq(Entry) /\ Len(a) = i - 1 /\ \A j \in 1 .. i - 1 : a[j] = t[j]
  BY <1>1, SubSeqProperties, ElementOfSeq
<1>3. b \in Seq(Entry) /\ Len(b) = Len(t) - i /\ \A j \in 1 .. Len(t) - i : b[j] = t[i + j]
  BY <1>1, SubSeqProperties, ElementOfSeq
<1>4. RemoveAt(t, i) = a \o b
  BY DEF RemoveAt
<1> HIDE DEF a, b
<1>41. Len(a) + Len(b) = Len(t) - 1
  BY <1>1, <1>2, <1>3
<1>42. /\ a \o b \in Seq(Entry) /\ Len(a \o b) = Len(a) + Len(b)
       /\ \A j \in 1 .. Len(a) + Len(b) :
            (a \o b)[j] = IF j <= Len(a) THEN a[j] ELSE b[j - Len(a)]
  BY <1>2, <1>3, ConcatProperties
<1>5. /\ a \o b \in Seq(Entry) /\ Len(a \o b) = Len(t) - 1
      /\ \A j \in 1 .. Len(t) - 1 :
           (a \o b)[j] = IF j <= i - 1 THEN a[j] ELSE b[j - (i - 1)]
  BY <1>2, <1>41, <1>42
<1>6. ASSUME NEW j \in 1 .. Len(t) - 1
      PROVE  (a \o b)[j] = t[IF j < i THEN j ELSE j + 1]
  <2>1. CASE j < i
    BY <1>1, <1>2, <1>5, <2>1
  <2>2. CASE ~ (j < i)
    <3>1. j - (i - 1) \in 1 .. Len(t) - i /\ i + (j - (i - 1)) = j + 1
      BY <1>1, <2>2
    <3>2. ~ (j <= i - 1)
      BY <1>1, <2>2
    <3>4. (a \o b)[j] = b[j - (i - 1)]
      BY <1>5, <3>2
    <3>3. b[j - (i - 1)] = t[j + 1]
      BY <1>3, <3>1
    <3> QED
      BY <2>2, <3>3, <3>4
  <2> QED
    BY <2>1, <2>2
<1> QED
  BY <1>4, <1>5, <1>6

\* Deleting an entry leaves the others in order.
LEMMA RemoveKeepsOrder ==
  ASSUME NEW t \in Table, NEW i \in 1 .. Len(t)
  PROVE  RemoveAt(t, i) \in Table /\ Len(RemoveAt(t, i)) = Len(t) - 1
<1> DEFINE u == RemoveAt(t, i)
           f == [j \in 1 .. Len(t) - 1 |-> IF j < i THEN j ELSE j + 1]
<1>1. t \in Seq(Entry) /\ Len(t) \in Nat
  BY LenProperties DEF Table
<1>2. u \in Seq(Entry) /\ Len(u) = Len(t) - 1 /\ \A j \in 1 .. Len(t) - 1 : u[j] = t[f[j]]
  BY <1>1, RemovedSlots
<1> HIDE DEF u
<1>3. f \in [1 .. Len(u) -> 1 .. Len(t)]
  BY <1>1, <1>2
<1>4. \A j, k \in 1 .. Len(u) : j < k => f[j] < f[k]
  BY <1>1, <1>2
<1> HIDE DEF f
<1>5. u \in Table
  BY <1>2, <1>3, <1>4, PickedInOrder
<1> QED
  BY <1>2, <1>5 DEF u

\* Slot -1 deleted: the first entry is overwritten, the others keep their order.
LEMMA TailKeepsOrder ==
  ASSUME NEW t \in Table, t # <<>>
  PROVE  Tail(t) \in Table /\ Len(Tail(t)) = Len(t) - 1
<1> DEFINE u == Tail(t)
           f == [j \in 1 .. Len(t) - 1 |-> j + 1]
<1>1. t \in Seq(Entry) /\ Len(t) \in Nat
  BY LenProperties DEF Table
<1>2. u \in Seq(Entry) /\ Len(u) = Len(t) - 1 /\ \A j \in 1 .. Len(u) : u[j] = t[f[j]]
  BY <1>1, HeadTailProperties
<1> HIDE DEF u
<1>3. f \in [1 .. Len(u) -> 1 .. Len(t)]
  BY <1>1, <1>2
<1>4. \A j, k \in 1 .. Len(u) : j < k => f[j] < f[k]
  BY <1>1, <1>2
<1> HIDE DEF f
<1>5. u \in Table
  BY <1>2, <1>3, <1>4, PickedInOrder
<1> QED
  BY <1>2, <1>5 DEF u

\* A new player gets a number above all others and goes to the end.
LEMMA InsertKeepsOrder ==
  ASSUME NEW t \in Table, NEW e \in Entry, \A i \in 1 .. Len(t) : t[i].id < e.id
  PROVE  /\ InsertAt(t, Len(t) + 1, e) \in Table
         /\ Len(InsertAt(t, Len(t) + 1, e)) = Len(t) + 1
<1> DEFINE a == SubSeq(t, 1, Len(t) + 1 - 1)
           b == SubSeq(t, Len(t) + 1, Len(t))
           c == a \o <<e>>
           r == c \o b
<1>1. t \in Seq(Entry) /\ Len(t) \in Nat
  BY LenProperties DEF Table
<1>2. a = t
  BY <1>1, SubSeqFull
<1>3. b = <<>>
  BY <1>1, SubSeqEmpty
<1>4. InsertAt(t, Len(t) + 1, e) = r
  BY DEF InsertAt
<1> HIDE DEF a, b
<1>5. <<e>> \in Seq(Entry) /\ Len(<<e>>) = 1 /\ <<e>>[1] = e
  OBVIOUS
<1>6. /\ c \in Seq(Entry) /\ Len(c) = Len(t) + 1
      /\ \A j \in 1 .. Len(t) + 1 : c[j] = IF j <= Len(t) THEN t[j] ELSE <<e>>[j - Len(t)]
  BY <1>1, <1>2, <1>5, ConcatProperties
<1> HIDE DEF c
<1>7. r = c
  BY <1>3, <1>6, ConcatEmptySeq
<1>8. \A j \in 1 .. Len(t) : c[j] = t[j]
  BY <1>1, <1>6
<1>9. c[Len(t) + 1] = e
  BY <1>1, <1>5, <1>6
<1>10. ASSUME NEW i \in 1 .. Len(c), NEW j \in 1 .. Len(c), i < j
       PROVE  c[i].id < c[j].id
  <2>1. CASE j = Len(t) + 1
    BY <1>1, <1>6, <1>8, <1>9, <1>10, <2>1
  <2>2. CASE j # Len(t) + 1
    BY <1>1, <1>6, <1>8, <1>10, <2>2 DEF Table, SortedById
  <2> QED
    BY <2>1, <2>2
<1>11. c \in Table
  BY <1>6, <1>10 DEF Table, SortedById
<1> QED
  BY <1>4, <1>6, <1>7, <1>11

-----------------------------------------------------------------------------
(* The inductive invariant: the three properties need the types, and the     *)
(* types need to know what the write under way is for.                       *)
BusySound ==
  /\ busy.step = "remove" => busy.slot # 0
  /\ busy.step = "charsave" => busy.conn # NULL
  /\ busy.conn # NULL => sess[busy.conn].place # "out"
  /\ phase = "down" => busy = Idle
  /\ phase = "clearing" => pos # 0

IInv == TypeOK /\ IndexSorted /\ FitsTable /\ FileCurrent /\ BusySound

BusyType(n) == [step : {"idle", "remove", "write", "charsave"},
                slot : 0 .. n, conn : Conn \cup {NULL}]

\* Whatever a save of the index leaves to be done.
LEMMA SaveRecords ==
  ASSUME NEW c \in Conn \cup {NULL}, NEW n \in Nat, NEW b,
         b \in {Busy("write", 0, c), AfterSave(c)}
  PROVE  /\ b \in BusyType(n) /\ b.step \in {"idle", "write", "charsave"}
         /\ b.conn = c
         /\ b.step = "charsave" => c # NULL
         /\ b = Idle => c = NULL
<1>1. CASE b = Busy("write", 0, c)
  BY <1>1 DEF BusyType, Busy, Idle
<1>2. CASE b = Busy("charsave", 0, c) /\ c # NULL
  BY <1>2 DEF BusyType, Busy, Idle
<1>3. CASE b = Idle /\ c = NULL
  BY <1>3 DEF BusyType, Busy, Idle
<1> QED
  BY <1>1, <1>2, <1>3 DEF AfterSave

\* What a step may do to the table under an unchanged file.
TabStep ==
  /\ tab' \in Table /\ Len(tab') = Len(tab)
  /\ needs_save' \in BOOLEAN
  /\ ~needs_save' => ~needs_save /\ Known(tab') = Known(tab)

LEMMA TablesSorted ==
  ASSUME IInv
  PROVE  tab \in Table /\ index \in Table /\ Len(tab) \in Nat
BY LenProperties DEF IInv, TypeOK, IndexSorted, Table

LEMMA NameSlot ==
  ASSUME IInv, NEW n
  PROVE  /\ IdxByName(n) \in 0 .. Len(tab)
         /\ IdxByName(n) # 0 => IdxByName(n) \in 1 .. Len(tab)
                                /\ tab[IdxByName(n)] \in Entry
<1> DEFINE S == { i \in 1 .. Len(tab) : tab[i].name = n }
<1>1. tab \in Seq(Entry) /\ S \subseteq 1 .. Len(tab)
  BY DEF IInv, TypeOK
<1>2. First(S) \in 0 .. Len(tab) /\ (First(S) # 0 => First(S) \in 1 .. Len(tab))
  BY <1>1, SlotFound
<1> QED
  BY <1>1, <1>2, ElementOfSeq DEF IdxByName

LEMMA NumberSlot ==
  ASSUME IInv, NEW k
  PROVE  /\ IdxById(k) \in 0 .. Len(tab)
         /\ IdxById(k) # 0 => IdxById(k) \in 1 .. Len(tab)
                              /\ tab[IdxById(k)] \in Entry
<1> DEFINE S == { i \in 1 .. Len(tab) : tab[i].id = k }
<1>1. tab \in Seq(Entry) /\ S \subseteq 1 .. Len(tab)
  BY DEF IInv, TypeOK
<1>2. First(S) \in 0 .. Len(tab) /\ (First(S) # 0 => First(S) \in 1 .. Len(tab))
  BY <1>1, SlotFound
<1> QED
  BY <1>1, <1>2, ElementOfSeq DEF IdxById

\* One entry changes its flags, and the index remembers if it has to be saved.
LEMMA FlagStep ==
  ASSUME IInv, NEW i \in 1 .. Len(tab), NEW e \in Entry,
         e.id = tab[i].id, e.name = tab[i].name,
         tab' = [tab EXCEPT ![i] = e],
         needs_save' = (needs_save \/ tab[i].nodelete # e.nodelete)
  PROVE  TabStep
<1>1. tab \in Seq(Entry) /\ tab \in Table /\ Len(tab) \in Nat
  BY TablesSorted DEF Table
<1>2. /\ tab' \in Seq(Entry) /\ Len(tab') = Len(tab)
      /\ \A j \in 1 .. Len(tab) : tab'[j] = IF j = i THEN e ELSE tab[j]
  BY <1>1, ExceptSeq
<1>3. tab' \in Table
  BY <1>1, <1>2, FlagsKeepOrder
<1>4. needs_save' \in BOOLEAN
  BY DEF IInv, TypeOK, Entry
<1>5. ASSUME ~needs_save'  PROVE  ~needs_save /\ Known(tab') = Known(tab)
  <2>1. ~needs_save /\ tab[i].nodelete = e.nodelete
    BY <1>5
  <2>2. DOMAIN tab = 1 .. Len(tab) /\ DOMAIN tab' = 1 .. Len(tab)
    BY <1>1, <1>2, LenProperties
  <2>3. \A j \in 1 .. Len(tab) :
          /\ tab'[j].name = tab[j].name
          /\ tab'[j].id = tab[j].id
          /\ tab'[j].nodelete = tab[j].nodelete
    BY <1>2, <2>1
  <2> QED
    BY <2>1, <2>2, <2>3 DEF Known
<1> QED
  BY <1>2, <1>3, <1>4, <1>5 DEF TabStep

\* update_by_idx, on a slot of the table or on slot -1.
LEMMA UpdateStep ==
  ASSUME IInv, NEW b, b.nodelete \in BOOLEAN, Update(b)
  PROVE  TabStep
<1> DEFINE i == IdxByName(b.name)
           e == [tab[i] EXCEPT !.nodelete = b.nodelete]
<1>1. CASE i = 0
  BY <1>1, TablesSorted DEF Update, TabStep, IInv, TypeOK
<1>2. CASE i # 0
  <2>1. i \in 1 .. Len(tab) /\ tab[i] \in Entry
    BY <1>2, NameSlot
  <2>2. e \in Entry /\ e.id = tab[i].id /\ e.name = tab[i].name /\ e.nodelete = b.nodelete
    BY <2>1 DEF Entry
  <2>3. tab' = [tab EXCEPT ![i] = e]
        /\ needs_save' = (needs_save \/ tab[i].nodelete # e.nodelete)
    BY <1>2, <2>2 DEF Update
  <2> QED
    BY <2>1, <2>2, <2>3, FlagStep
<1> QED
  BY <1>1, <1>2

\* A step that changes flags under an unchanged file keeps all but the types
\* of the other variables.
LEMMA TabStepSound ==
  ASSUME IInv, TabStep, UNCHANGED <<entry_size, index, phase>>
  PROVE  /\ tab' \in Seq(Entry) /\ needs_save' \in BOOLEAN
         /\ IndexSorted' /\ FitsTable' /\ FileCurrent'
BY DEF IInv, TabStep, Table, IndexSorted, FitsTable, FileCurrent

\* The number a player has after an update.
LEMMA SyncedType ==
  ASSUME IInv, NEW b
  PROVE  Synced(b) \subseteq 0 .. MaxId
<1>1. CASE IdxByName(b.name) = 0
  BY <1>1 DEF Synced
<1>2. CASE IdxByName(b.name) # 0
  <2>1. tab[IdxByName(b.name)].id \in 1 .. MaxId
    BY <1>2, NameSlot DEF Entry, Id
  <2> QED
    BY <1>2, <2>1, ConstantsAssumption DEF Synced
<1> QED
  BY <1>1, <1>2

-----------------------------------------------------------------------------
(* The actions that leave the index file alone and start no write.           *)

Session == [place : Places, name : Name \cup {NULL}, id : 0 .. MaxId, nodelete : BOOLEAN]

Files == [Name -> {"none", "plain", "protected"}]

SessSound == sess \in [Conn -> Session] /\ \A c \in Conn : sess[c].place # "out" => sess[c].name \in Name

LEMMA SessTyped ==
  ASSUME IInv
  PROVE  SessSound /\ pfile \in Files
BY DEF IInv, TypeOK, SessSound, Session, Files

LEMMA NoTabStep ==
  ASSUME IInv, UNCHANGED <<tab, needs_save>>
  PROVE  TabStep
BY TablesSorted DEF TabStep, IInv, TypeOK

LEMMA QuietStep ==
  ASSUME IInv, TabStep, SessSound', pfile' \in Files, busy' = Idle,
         UNCHANGED <<entry_size, index, phase, pos>>
  PROVE  IInv'
<1>1. /\ tab' \in Seq(Entry) /\ needs_save' \in BOOLEAN
      /\ IndexSorted' /\ FitsTable' /\ FileCurrent'
  BY TabStepSound
<1>2. Len(tab') \in Nat
  BY <1>1, LenProperties
<1>3. busy' \in [step : {"idle", "remove", "write", "charsave"},
                 slot : 0 .. Len(tab'), conn : Conn \cup {NULL}]
  BY <1>2 DEF Idle, Busy
<1>4. TypeOK'
  BY <1>1, <1>3 DEF IInv, TypeOK, SessSound, Session, Files
<1>5. BusySound'
  BY DEF IInv, BusySound, Idle, Busy
<1> QED
  BY <1>1, <1>4, <1>5 DEF IInv

\* A player loaded from his file.
LEMMA LoadedType ==
  ASSUME IInv, NEW n \in Name, NEW place \in Places, IdxByName(n) # 0
  PROVE  Loaded(place, n) \in Session /\ Loaded(place, n).name = n
<1>1. tab[IdxByName(n)].id \in 1 .. MaxId
  BY NameSlot DEF Entry, Id
<1>2. tab[IdxByName(n)].id \in 0 .. MaxId
  BY <1>1, ConstantsAssumption
<1> QED
  BY <1>2 DEF Loaded, Session

\* One connection gets a player, or another state of its player.
LEMMA OneSession ==
  ASSUME IInv, NEW c \in Conn, NEW b \in Session, b.place # "out" => b.name \in Name,
         sess' = [sess EXCEPT ![c] = b]
  PROVE  SessSound'
BY SessTyped DEF SessSound

LEMMA SaveCharStep ==
  ASSUME IInv, NEW b, b.nodelete \in BOOLEAN, SaveChar(b)
  PROVE  TabStep /\ pfile' \in Files
<1>1. TabStep
  BY UpdateStep DEF SaveChar
<1>2. FileOf(b.nodelete) \in {"plain", "protected"}
  BY DEF FileOf
<1> QED
  BY <1>1, <1>2, SessTyped DEF SaveChar, Files

LEMMA LoginStep ==
  ASSUME IInv, NEW c \in Conn, NEW n \in Name, Login(c, n)
  PROVE  IInv'
<1> DEFINE i == IdxByName(n)
           e == [tab[i] EXCEPT !.stale = FALSE]
<1>1. i \in 1 .. Len(tab) /\ tab[i] \in Entry
  BY NameSlot DEF Login, Loads
<1>2. e \in Entry /\ e.id = tab[i].id /\ e.name = tab[i].name /\ e.nodelete = tab[i].nodelete
  BY <1>1 DEF Entry
<1>3. tab' = [tab EXCEPT ![i] = e] /\ needs_save' = (needs_save \/ tab[i].nodelete # e.nodelete)
  BY <1>2 DEF Login, IInv, TypeOK
<1>4. TabStep
  BY <1>1, <1>2, <1>3, FlagStep
<1>5. Loaded("password", n) \in Session /\ Loaded("password", n).name = n
  BY LoadedType DEF Login, Loads, Places
<1>6. SessSound'
  BY <1>5, OneSession DEF Login
<1>7. pfile' \in Files
  BY SessTyped DEF Login
<1> QED
  BY <1>4, <1>6, <1>7, QuietStep DEF Login, Playing

LEMMA PasswordStep ==
  ASSUME IInv, NEW c \in Conn, Password(c)
  PROVE  IInv'
<1>1. SessSound /\ sess[c] \in Session /\ sess[c].name \in Name
  BY SessTyped DEF SessSound, Password
<1>2. TabStep /\ pfile' \in Files
  BY <1>1, SaveCharStep DEF Password, Session
<1>3. PICK k \in Synced(sess[c]) :
       LET same == { d \in Conn \ {c} : sess[d].place # "out" /\ sess[d].id = k }
           live == { d \in same : sess[d].place = "play" }
       IN  \E mine \in (IF live = {} THEN {AtMenu(sess[c], k)}
                        ELSE { sess[d] : d \in live }) :
             sess' = [d \in Conn |-> IF d = c THEN mine
                                     ELSE IF d \in same THEN Out ELSE sess[d]]
  BY DEF Password
<1>4. k \in 0 .. MaxId
  BY <1>3, SyncedType
<1> DEFINE same == { d \in Conn \ {c} : sess[d].place # "out" /\ sess[d].id = k }
           live == { d \in same : sess[d].place = "play" }
<1>5. PICK mine \in (IF live = {} THEN {AtMenu(sess[c], k)} ELSE { sess[d] : d \in live }) :
        sess' = [d \in Conn |-> IF d = c THEN mine ELSE IF d \in same THEN Out ELSE sess[d]]
  BY <1>3
<1>6. AtMenu(sess[c], k) \in Session /\ AtMenu(sess[c], k).name \in Name
  BY <1>1, <1>4 DEF AtMenu, Session, Places
<1>7. \A d \in live : sess[d] \in Session /\ sess[d].name \in Name
  BY <1>1 DEF SessSound
<1>8. mine \in Session /\ mine.name \in Name
  BY <1>5, <1>6, <1>7
<1>9. Out \in Session /\ Out.place = "out"
  BY ConstantsAssumption DEF Out, Session, Places
<1>10. SessSound'
  BY <1>1, <1>5, <1>8, <1>9 DEF SessSound
<1> QED
  BY <1>2, <1>10, QuietStep DEF Password, Playing

LEMMA SavesStep ==
  ASSUME IInv, Playing, NEW c \in Conn, NEW b \in Session, b.name \in Name, Saves(c, b)
  PROVE  IInv'
<1>1. TabStep /\ pfile' \in Files
  BY SaveCharStep DEF Saves, Session
<1>2. PICK k \in Synced(b) : sess' = [sess EXCEPT ![c] = [b EXCEPT !.id = k]]
  BY DEF Saves
<1>3. k \in 0 .. MaxId
  BY <1>2, SyncedType
<1>4. [b EXCEPT !.id = k] \in Session /\ [b EXCEPT !.id = k].name \in Name
  BY <1>3 DEF Session
<1>5. SessSound'
  BY <1>2, <1>4, OneSession
<1> QED
  BY <1>1, <1>5, QuietStep DEF Saves, Playing

LEMMA SavePlayerStep ==
  ASSUME IInv, NEW c \in Conn, SavePlayer(c)
  PROVE  IInv'
<1>1. sess[c] \in Session /\ sess[c].name \in Name
  BY SessTyped DEF SessSound, SavePlayer
<1> QED
  BY <1>1, SavesStep DEF SavePlayer

LEMMA SetNodeleteStep ==
  ASSUME IInv, NEW c \in Conn, NEW on \in BOOLEAN, SetNodelete(c, on)
  PROVE  IInv'
<1>1. sess[c] \in Session /\ sess[c].name \in Name
  BY SessTyped DEF SessSound, SetNodelete
<1>2. [sess[c] EXCEPT !.nodelete = on] \in Session
      /\ [sess[c] EXCEPT !.nodelete = on].name \in Name
  BY <1>1 DEF Session
<1> QED
  BY <1>2, SavesStep DEF SetNodelete

LEMMA EnterGameStep ==
  ASSUME IInv, NEW c \in Conn, EnterGame(c)
  PROVE  IInv'
<1>1. sess[c].name \in Name
  BY SessTyped DEF SessSound, EnterGame
<1>2. Loaded("play", sess[c].name) \in Session /\ Loaded("play", sess[c].name).name \in Name
  BY <1>1, LoadedType DEF EnterGame, Loads, Places
<1>3. SessSound'
  BY <1>2, OneSession DEF EnterGame
<1>4. TabStep /\ pfile' \in Files
  BY NoTabStep, SessTyped DEF EnterGame
<1> QED
  BY <1>3, <1>4, QuietStep DEF EnterGame, Playing

LEMMA AtMenuType ==
  ASSUME NEW b \in Session, b.name \in Name, NEW k \in 0 .. MaxId
  PROVE  AtMenu(b, k) \in Session /\ AtMenu(b, k).name \in Name
BY DEF AtMenu, Session, Places

LEMMA OutType == Out \in Session /\ Out.place = "out"
BY ConstantsAssumption DEF Out, Session, Places

LEMMA QuitToMenuStep ==
  ASSUME IInv, NEW c \in Conn, QuitToMenu(c)
  PROVE  IInv'
<1>1. sess[c] \in Session /\ sess[c].name \in Name
  BY SessTyped DEF SessSound, QuitToMenu
<1>2. TabStep /\ pfile' \in Files
  BY <1>1, SaveCharStep DEF QuitToMenu, Session
<1>3. PICK k \in Synced(sess[c]) : sess' = [sess EXCEPT ![c] = AtMenu(sess[c], k)]
  BY DEF QuitToMenu
<1>4. AtMenu(sess[c], k) \in Session /\ AtMenu(sess[c], k).name \in Name
  BY <1>1, SyncedType, AtMenuType
<1>5. SessSound'
  BY <1>3, <1>4, OneSession
<1> QED
  BY <1>2, <1>5, QuietStep DEF QuitToMenu, Playing

LEMMA LeaveStep ==
  ASSUME IInv, NEW c \in Conn, Leave(c)
  PROVE  IInv'
<1>1. sess[c] \in Session /\ sess[c].name \in Name
  BY SessTyped DEF SessSound, Leave
<1>2. TabStep /\ pfile' \in Files
  <2>1. CASE sess[c].place = "play"
    BY <1>1, <2>1, SaveCharStep DEF Leave, Session
  <2>2. CASE sess[c].place # "play"
    BY <2>2, NoTabStep, SessTyped DEF Leave
  <2> QED
    BY <2>1, <2>2
<1>3. SessSound'
  BY OutType, OneSession DEF Leave
<1> QED
  BY <1>2, <1>3, QuietStep DEF Leave, Playing

LEMMA NewNameStep ==
  ASSUME IInv, NEW c \in Conn, NEW n \in Name, NewName(c, n)
  PROVE  IInv'
<1> DEFINE b == [Out EXCEPT !.place = "new", !.name = n]
<1>1. b \in Session /\ b.name \in Name
  BY OutType DEF Session, Places
<1>2. SessSound'
  BY <1>1, OneSession DEF NewName
<1>3. TabStep /\ pfile' \in Files
  BY NoTabStep, SessTyped DEF NewName
<1> QED
  BY <1>2, <1>3, QuietStep DEF NewName, Playing

LEMMA SetFileNodeleteStep ==
  ASSUME IInv, NEW n \in Name, NEW on \in BOOLEAN, SetFileNodelete(n, on)
  PROVE  IInv'
<1> DEFINE b == [Loaded("play", n) EXCEPT !.nodelete = on]
<1>1. b.nodelete \in BOOLEAN /\ SaveChar(b)
  BY DEF Loaded, SetFileNodelete
<1> HIDE DEF b
<1>2. TabStep /\ pfile' \in Files
  BY <1>1, SaveCharStep
<1>3. SessSound'
  BY SessTyped DEF SetFileNodelete, SessSound
<1> QED
  BY <1>2, <1>3, QuietStep DEF SetFileNodelete, Playing

LEMMA LookAtFileStep ==
  ASSUME IInv, NEW n \in Name, LookAtFile(n)
  PROVE  IInv'
<1> DEFINE i == IdxByName(n)
           f == Loaded("play", n).nodelete
           e == [tab[i] EXCEPT !.stale = FALSE, !.nodelete = f]
<1>1. i \in 1 .. Len(tab) /\ tab[i] \in Entry /\ f \in BOOLEAN
  BY NameSlot DEF LookAtFile, Loads, Loaded
<1>2. e \in Entry /\ e.id = tab[i].id /\ e.name = tab[i].name /\ e.nodelete = f
  BY <1>1 DEF Entry
<1>3. tab \in [1 .. Len(tab) -> Entry]
  BY LenProperties DEF IInv, TypeOK
<1>4. tab' = [tab EXCEPT ![i] = e]
  BY <1>1, <1>3 DEF LookAtFile
<1>5. needs_save' = (needs_save \/ tab[i].nodelete # e.nodelete)
  BY <1>2 DEF LookAtFile
<1>6. TabStep
  BY <1>1, <1>2, <1>4, <1>5, FlagStep
<1>7. FileOf(f) \in {"none", "plain", "protected"}
  BY DEF FileOf
<1>8. pfile' \in Files
  BY <1>7, SessTyped DEF LookAtFile, Files
<1>9. SessSound'
  BY SessTyped DEF LookAtFile, SessSound
<1> QED
  BY <1>6, <1>8, <1>9, QuietStep DEF LookAtFile, Playing

LEMMA FirstSaveStep ==
  ASSUME IInv, FirstSave
  PROVE  IInv'
<1> DEFINE c == busy.conn
           b == sess[c]
<1>1. c \in Conn /\ b \in Session /\ b.name \in Name
  BY SessTyped DEF IInv, TypeOK, BusySound, SessSound, FirstSave
<1>2. TabStep /\ pfile' \in Files
  BY <1>1, SaveCharStep DEF FirstSave, Session
<1>3. PICK k \in Synced(b) : sess' = [sess EXCEPT ![c] = AtMenu(b, k)]
  BY DEF FirstSave
<1>4. AtMenu(b, k) \in Session /\ AtMenu(b, k).name \in Name
  BY <1>1, SyncedType, AtMenuType
<1>5. SessSound'
  BY <1>1, <1>3, <1>4, OneSession
<1> QED
  BY <1>2, <1>5, QuietStep DEF FirstSave

-----------------------------------------------------------------------------
(* Boots and crashes.                                                        *)

LEMMA MonthStep ==
  ASSUME IInv, Month
  PROVE  IInv'
<1> DEFINE t == index
           u == [i \in DOMAIN t |-> [t[i] EXCEPT !.stale = TRUE]]
<1>1. t \in Seq(Entry) /\ t \in Table /\ Len(t) \in Nat /\ DOMAIN t = 1 .. Len(t)
  BY TablesSorted, LenProperties DEF Table
<1>11. \A i \in 1 .. Len(t) : t[i] \in Entry
  BY <1>1, ElementOfSeq
<1>2. \A i \in 1 .. Len(t) : [t[i] EXCEPT !.stale = TRUE] \in Entry
  BY <1>11 DEF Entry
<1>3. u \in Seq(Entry) /\ Len(u) = Len(t)
  BY <1>1, <1>2
<1>4. \A i \in 1 .. Len(t) : u[i].id = t[i].id
  BY <1>1, <1>11 DEF Entry
<1>5. u \in Table
  BY <1>1, <1>3, <1>4, FlagsKeepOrder
<1>6. index' \in Seq(Entry) /\ index' = u
  BY <1>3 DEF Month, IInv, TypeOK
<1> QED
  BY <1>5, <1>6
  DEF Month, IInv, TypeOK, IndexSorted, Table, FitsTable, FileCurrent, BusySound

LEMMA CrashStep ==
  ASSUME IInv, Crash
  PROVE  IInv'
<1>1. index' \in Seq(Entry) /\ index' \in Table
  <2>1. CASE busy.step = "write"
    <3>1. PICK k \in 0 .. Len(tab) : index' = SubSeq(tab, 1, k)
      BY <2>1 DEF Crash
    <3>2. SubSeq(tab, 1, k) \in Table
      BY TablesSorted, PartSorted
    <3> QED
      BY <3>1, <3>2 DEF Table
  <2>2. CASE busy.step # "write"
    BY <2>2, TablesSorted DEF Crash, IInv, TypeOK
  <2> QED
    BY <2>1, <2>2
<1>2. <<>> \in Seq(Entry) /\ Len(<<>>) = 0 /\ SortedById(<<>>)
  BY DEF SortedById
<1>3. SessSound'
  BY OutType DEF Crash, SessSound
<1>31. busy' \in [step : {"idle", "remove", "write", "charsave"},
                 slot : 0 .. Len(tab'), conn : Conn \cup {NULL}]
  BY <1>2 DEF Crash, Idle, Busy
<1>32. pfile' \in Files
  BY SessTyped DEF Crash
<1>4. TypeOK'
  BY <1>1, <1>2, <1>3, <1>31, <1>32 DEF Crash, TypeOK, SessSound, Session, Files
<1> QED
  BY <1>1, <1>2, <1>4
  DEF Crash, IInv, IndexSorted, Table, FitsTable, FileCurrent, BusySound, Idle, Busy

LEMMA BootStep ==
  ASSUME IInv, Boot
  PROVE  IInv'
<1>1. tab' = index
  BY TablesSorted DEF Boot, SortById, Table
<1>2. tab' \in Table /\ tab' \in Seq(Entry) /\ Len(tab') \in Nat
  BY <1>1, TablesSorted, LenProperties DEF Table
<1>3. entry_size' \in Nat /\ Len(tab') <= entry_size'
  BY <1>1, <1>2, ConstantsAssumption DEF Boot
<1>4. busy = Idle
  BY DEF IInv, BusySound, Boot
<1>41. busy' \in [step : {"idle", "remove", "write", "charsave"},
                 slot : 0 .. Len(tab'), conn : Conn \cup {NULL}]
  BY <1>2, <1>4 DEF Boot, Idle, Busy
<1>42. SessSound' /\ pfile' \in Files
  BY SessTyped DEF Boot, SessSound
<1>43. index' \in Seq(Entry)
  BY DEF Boot, IInv, TypeOK
<1>5. TypeOK'
  BY <1>2, <1>3, <1>41, <1>42, <1>43 DEF Boot, TypeOK, SessSound, Session, Files
<1>6. BusySound' /\ FileCurrent'
  BY <1>1, <1>4 DEF Boot, BusySound, FileCurrent, Idle, Busy
<1> QED
  BY <1>1, <1>2, <1>3, <1>5, <1>6 DEF Boot, IInv, IndexSorted, Table, FitsTable

LEMMA OpenedStep ==
  ASSUME IInv, Opened
  PROVE  IInv'
<1>1. SessSound' /\ pfile' \in Files
  BY SessTyped DEF Opened, SessSound
<1>2. TypeOK'
  BY <1>1 DEF Opened, IInv, TypeOK, SessSound, Session, Files
<1>3. BusySound' /\ FileCurrent'
  BY DEF Opened, IInv, BusySound, FileCurrent, Idle, Busy
<1> QED
  BY <1>2, <1>3 DEF Opened, IInv, IndexSorted, FitsTable

-----------------------------------------------------------------------------
(* The actions that write the index.                                         *)

\* An unlinked player file: the entry that goes is known.
LEMMA UnlinkStep ==
  ASSUME IInv, TabStep, SessSound', NEW i \in 1 .. Len(tab), Unlink(tab, i),
         pos' \in Nat, pos' = pos \/ pos' # 0, phase # "down", UNCHANGED <<entry_size, index, phase>>
  PROVE  IInv'
<1>1. /\ tab' \in Seq(Entry) /\ needs_save' \in BOOLEAN
      /\ IndexSorted' /\ FitsTable' /\ FileCurrent'
  BY TabStepSound
<1>2. Len(tab) \in Nat /\ Len(tab') = Len(tab)
  BY TablesSorted DEF TabStep
<1>3. busy' \in [step : {"idle", "remove", "write", "charsave"},
                 slot : 0 .. Len(tab'), conn : Conn \cup {NULL}]
  BY <1>2 DEF Unlink, Busy
<1>4. pfile' \in Files
  BY SessTyped DEF Unlink, Files
<1>5. TypeOK'
  BY <1>1, <1>3, <1>4 DEF IInv, TypeOK, SessSound, Session, Files
<1>6. BusySound'
  BY DEF IInv, BusySound, Unlink, Busy
<1> QED
  BY <1>1, <1>5, <1>6 DEF IInv

\* A save that begins: the index will be written again, or is marked for it.
LEMMA StartSaveStep ==
  ASSUME IInv, NEW c \in Conn \cup {NULL}, StartSave(c),
         tab' \in Table, entry_size' \in Nat, Len(tab') <= entry_size',
         SessSound', c # NULL => sess'[c].place # "out",
         pfile' \in Files, phase # "down", UNCHANGED <<phase, pos>>
  PROVE  IInv'
<1>1. tab' \in Seq(Entry) /\ Len(tab') \in Nat /\ SortedById(tab')
  BY LenProperties DEF Table
<1>2. <<>> \in Seq(Entry) /\ SortedById(<<>>)
  BY DEF SortedById
<1>3. index' \in Seq(Entry) /\ SortedById(index')
  <2>1. CASE index' = <<>>
    BY <1>2, <2>1
  <2>2. CASE UNCHANGED index
    BY <2>2 DEF IInv, TypeOK, IndexSorted
  <2> QED
    BY <2>1, <2>2 DEF StartSave
<1>4. busy' \in {Busy("write", 0, c), AfterSave(c)}
  BY DEF StartSave
<1>5. /\ busy' \in BusyType(Len(tab')) /\ busy'.step \in {"idle", "write", "charsave"}
      /\ busy'.conn = c /\ (busy'.step = "charsave" => c # NULL)
  BY <1>1, <1>4, SaveRecords
<1>6. BusySound'
  BY <1>5 DEF IInv, BusySound
<1>7. needs_save' = TRUE
  BY DEF StartSave
<1>8. TypeOK'
  BY <1>1, <1>3, <1>5, <1>7 DEF IInv, TypeOK, SessSound, Session, Files, BusyType
<1> QED
  BY <1>1, <1>3, <1>6, <1>7, <1>8 DEF IInv, IndexSorted, FitsTable, FileCurrent

LEMMA WriteIndexStep ==
  ASSUME IInv, WriteIndex
  PROVE  IInv'
<1>1. index' \in Seq(Entry)
      /\ index' = tab
  BY DEF WriteIndex, IInv, TypeOK
<1>2. SessSound' /\ pfile' \in Files
  BY SessTyped DEF WriteIndex, SessSound
<1>3. busy.conn \in Conn \cup {NULL} /\ Len(tab') \in Nat
  BY TablesSorted DEF IInv, TypeOK, WriteIndex
<1>4. /\ busy' \in BusyType(Len(tab')) /\ busy'.step \in {"idle", "write", "charsave"}
      /\ busy'.conn = busy.conn /\ (busy'.step = "charsave" => busy.conn # NULL)
  BY <1>3, SaveRecords DEF WriteIndex
<1>5. TypeOK'
  BY <1>1, <1>2, <1>4 DEF WriteIndex, IInv, TypeOK, SessSound, Session, Files, BusyType
<1>6. phase # "down"
  BY DEF WriteIndex, IInv, BusySound, Idle, Busy
<1>7. BusySound'
  BY <1>4, <1>6 DEF WriteIndex, IInv, BusySound
<1> QED
  BY <1>1, <1>5, <1>7 DEF WriteIndex, IInv, IndexSorted, FitsTable, FileCurrent

LEMMA RemoveEntryStep ==
  ASSUME IInv, RemoveEntry
  PROVE  IInv'
<1>1. tab \in Table /\ Len(tab) \in Nat /\ busy.slot \in 1 .. Len(tab)
  BY TablesSorted DEF IInv, TypeOK, BusySound, RemoveEntry
<1>2. tab' \in Table /\ Len(tab') = Len(tab) - 1
  BY <1>1, RemoveKeepsOrder DEF RemoveEntry
<1>3. entry_size' \in Nat /\ Len(tab') <= entry_size'
  BY <1>1, <1>2 DEF RemoveEntry, IInv, TypeOK, FitsTable
<1>4. SessSound' /\ pfile' \in Files
  BY SessTyped DEF RemoveEntry, SessSound
<1>5. phase # "down"
  BY DEF RemoveEntry, IInv, BusySound, Idle, Busy
<1> QED
  BY <1>2, <1>3, <1>4, <1>5, StartSaveStep DEF RemoveEntry

LEMMA ClearByTimeStep ==
  ASSUME IInv, ClearByTime
  PROVE  IInv'
<1>1. TabStep
  BY NoTabStep DEF ClearByTime
<1>2. SessSound'
  BY SessTyped DEF ClearByTime, SessSound
<1>3. CASE tab[pos].stale /\ ~tab[pos].nodelete
  <2>1. Len(tab) \in Nat
    BY TablesSorted
  <2>2. pos \in 1 .. Len(tab) /\ pos' \in Nat /\ pos' # 0
    BY <2>1 DEF ClearByTime, IInv, TypeOK, BusySound
  <2> QED
    BY <1>1, <1>2, <1>3, <2>2, UnlinkStep DEF ClearByTime
<1>4. CASE ~ (tab[pos].stale /\ ~tab[pos].nodelete)
  <2>1. pfile' \in Files /\ pos' \in Nat /\ pos' # 0 /\ busy' = busy
    BY <1>4, SessTyped DEF ClearByTime, IInv, TypeOK
  <2>2. TypeOK'
    BY <1>2, <2>1 DEF ClearByTime, IInv, TypeOK, SessSound, Session, Files
  <2>3. BusySound' /\ FileCurrent'
    BY <2>1 DEF ClearByTime, IInv, BusySound, FileCurrent
  <2> QED
    BY <2>2, <2>3 DEF ClearByTime, IInv, IndexSorted, FitsTable
<1> QED
  BY <1>3, <1>4

\* The new number is above all others, and belongs at the end.
LEMMA OpenIdAbove ==
  ASSUME IInv
  PROVE  /\ FindOpenId \in Nat \ {0}
         /\ \A i \in 1 .. Len(tab) : tab[i].id < FindOpenId
         /\ InsertSlot(FindOpenId) = Len(tab) + 1
<1>1. tab \in Table /\ tab \in Seq(Entry) /\ Len(tab) \in Nat
  BY TablesSorted DEF Table
<1>20. \A i \in 1 .. Len(tab) : tab[i] \in Entry
  BY <1>1, ElementOfSeq
<1>2. \A i \in 1 .. Len(tab) : tab[i].id \in Nat
  BY <1>20, ConstantsAssumption DEF Entry, Id
<1>3. CASE tab = <<>>
  BY <1>1, <1>3 DEF FindOpenId, InsertSlot
<1>4. CASE tab # <<>>
  <2>1. Len(tab) \in 1 .. Len(tab)
    BY <1>1, <1>4, EmptySeq
  <2>2. \A i \in 1 .. Len(tab) : i # Len(tab) => tab[i].id < tab[Len(tab)].id
    BY <1>1, <2>1 DEF Table, SortedById
  <2>3. \A i \in 1 .. Len(tab) : tab[i].id < tab[Len(tab)].id + 1
    BY <1>2, <2>1, <2>2
  <2>4. FindOpenId = tab[Len(tab)].id + 1
    BY <1>4 DEF FindOpenId
  <2>5. { i \in 1 .. Len(tab) : tab[i].id > FindOpenId } = {}
    BY <1>2, <2>1, <2>3, <2>4
  <2> QED
    BY <1>2, <2>1, <2>3, <2>4, <2>5 DEF InsertSlot
<1> QED
  BY <1>3, <1>4

LEMMA CreateCharStep ==
  ASSUME IInv, NEW c \in Conn, CreateChar(c)
  PROVE  IInv'
<1> DEFINE k == FindOpenId
           info == [name |-> sess[c].name, id |-> k, nodelete |-> FALSE, stale |-> FALSE]
<1>1. sess[c] \in Session /\ sess[c].name \in Name /\ sess[c].place = "new"
  BY SessTyped DEF SessSound, CreateChar
<1>2. k \in 1 .. MaxId
  BY OpenIdAbove, ConstantsAssumption DEF CreateChar
<1>3. info \in Entry /\ info.id = k
  BY <1>1, <1>2 DEF Entry, Id
<1>4. tab' = InsertAt(tab, Len(tab) + 1, info)
  BY OpenIdAbove DEF CreateChar
<1>5. tab' \in Table /\ Len(tab') = Len(tab) + 1
  BY <1>3, <1>4, OpenIdAbove, TablesSorted, InsertKeepsOrder
<1>6. entry_size' \in Nat /\ Len(tab') <= entry_size'
  BY <1>5, TablesSorted, ConstantsAssumption
  DEF CreateChar, NeedsRoom, IInv, TypeOK, FitsTable
<1>7. k \in 0 .. MaxId
  BY <1>2, ConstantsAssumption
<1>8. [sess[c] EXCEPT !.id = k] \in Session /\ [sess[c] EXCEPT !.id = k].name \in Name
      /\ [sess[c] EXCEPT !.id = k].place # "out"
  BY <1>1, <1>7 DEF Session
<1>9. sess' = [sess EXCEPT ![c] = [sess[c] EXCEPT !.id = k]]
  BY <1>1, SessTyped DEF CreateChar, SessSound
<1>10. SessSound' /\ sess'[c].place # "out"
  BY <1>8, <1>9, OneSession, SessTyped DEF SessSound
<1>11. pfile' \in Files /\ phase # "down"
  BY SessTyped DEF CreateChar, Playing
<1> QED
  BY <1>5, <1>6, <1>10, <1>11, StartSaveStep DEF CreateChar

LEMMA DeleteSelfStep ==
  ASSUME IInv, NEW c \in Conn, DeleteSelf(c)
  PROVE  IInv'
<1> DEFINE i == IdxById(sess[c].id)
<1>1. SessSound'
  BY OutType, OneSession DEF DeleteSelf
<1>2. CASE UNCHANGED <<tab, needs_save, index, pfile, busy>>
  BY <1>1, <1>2, NoTabStep, SessTyped, QuietStep DEF DeleteSelf, Playing
<1>3. CASE i # 0 /\ Unlink(tab, i) /\ UNCHANGED <<tab, needs_save, index>>
  <2>1. i \in 1 .. Len(tab)
    BY <1>3, NumberSlot
  <2> QED
    BY <1>1, <1>3, <2>1, NoTabStep, UnlinkStep DEF DeleteSelf, Playing, IInv, TypeOK
<1>4. CASE tab # <<>> /\ tab' = Tail(tab) /\ StartSave(NULL) /\ UNCHANGED pfile
  <2>1. tab' \in Table /\ Len(tab') = Len(tab) - 1
    BY <1>4, TablesSorted, TailKeepsOrder
  <2>2. entry_size' \in Nat /\ Len(tab') <= entry_size'
    BY <2>1, TablesSorted DEF DeleteSelf, IInv, TypeOK, FitsTable
  <2>3. pfile' \in Files
    BY <1>4, SessTyped
  <2> QED
    BY <1>1, <1>4, <2>1, <2>2, <2>3, StartSaveStep DEF DeleteSelf, Playing
<1> QED
  BY <1>2, <1>3, <1>4 DEF DeleteSelf

LEMMA SetFileDeletedStep ==
  ASSUME IInv, NEW n \in Name, SetFileDeleted(n)
  PROVE  IInv'
<1> DEFINE i == IdxByName(n)
           b == Loaded("play", n)
<1>1. b.nodelete \in BOOLEAN
  BY DEF Loaded
<1>2. TabStep
  BY <1>1, UpdateStep DEF SetFileDeleted
<1>3. SessSound'
  BY SessTyped DEF SetFileDeleted, SessSound
<1>4. CASE b.nodelete
  BY <1>2, <1>3, <1>4, SessTyped, QuietStep DEF SetFileDeleted, Playing
<1>5. CASE ~b.nodelete
  <2>1. i \in 1 .. Len(tab)
    BY NameSlot DEF SetFileDeleted, Loads
  <2> QED
    BY <1>2, <1>3, <1>5, <2>1, UnlinkStep DEF SetFileDeleted, Playing, IInv, TypeOK
<1> QED
  BY <1>1, <1>4, <1>5

-----------------------------------------------------------------------------
LEMMA IInvInit ==
  ASSUME Init
  PROVE  IInv
<1>1. PICK t \in InitIndex :
        /\ index = t
        /\ pfile = [n \in Name |->
                      LET S == { i \in 1 .. Len(t) : t[i].name = n }
                      IN  IF S = {} THEN "none" ELSE FileOf(t[First(S)].nodelete)]
  BY DEF Init
<1>2. t \in Seq(Entry) /\ SortedById(t)
  BY ConstantsAssumption
<1>3. pfile \in Files
  BY <1>1 DEF Files, FileOf
<1>4. <<>> \in Seq(Entry) /\ Len(<<>>) = 0 /\ SortedById(<<>>)
  BY DEF SortedById
<1>5. SessSound
  BY OutType DEF Init, SessSound
<1>6. busy \in BusyType(Len(tab))
  BY <1>4 DEF Init, Idle, Busy, BusyType
<1>7. TypeOK
  BY <1>1, <1>2, <1>3, <1>4, <1>5, <1>6
  DEF Init, TypeOK, SessSound, Session, Files, BusyType
<1> QED
  BY <1>1, <1>2, <1>4, <1>7
  DEF Init, IInv, IndexSorted, FitsTable, FileCurrent, BusySound, Idle, Busy

LEMMA IInvStep ==
  ASSUME IInv, Next
  PROVE  IInv'
<1>1. ASSUME NEW c \in Conn, Play(c)  PROVE IInv'
  BY <1>1, LoginStep, NewNameStep, PasswordStep, SavePlayerStep, EnterGameStep,
     QuitToMenuStep, LeaveStep, CreateCharStep, DeleteSelfStep, SetNodeleteStep
  DEF Play
<1>2. ASSUME NEW n \in Name, Administer(n)  PROVE IInv'
  BY <1>2, SetFileNodeleteStep, SetFileDeletedStep, LookAtFileStep DEF Administer
<1>3. CASE Booting
  BY <1>3, BootStep, ClearByTimeStep, OpenedStep DEF Booting
<1>4. CASE Writing
  BY <1>4, RemoveEntryStep, WriteIndexStep, FirstSaveStep DEF Writing
<1> QED
  BY <1>1, <1>2, <1>3, <1>4, MonthStep, CrashStep DEF Next

LEMMA IInvStutter ==
  ASSUME IInv, UNCHANGED vars
  PROVE  IInv'
<1>1. SessSound' /\ TypeOK'
  BY SessTyped DEF IInv, TypeOK, SessSound, vars
<1> QED
  BY <1>1 DEF IInv, IndexSorted, FitsTable, FileCurrent, BusySound, vars

LEMMA IInvAlways == Spec => []IInv
<1>1. IInv /\ [Next]_vars => IInv'
  BY IInvStep, IInvStutter
<1> QED
  BY <1>1, IInvInit, PTL DEF Spec

\* Every table, file and session keeps its type.
THEOREM TypeCorrect == Spec => []TypeOK
<1>1. IInv => TypeOK
  BY DEF IInv
<1> QED
  BY <1>1, IInvAlways, PTL

\* Whatever is created, deleted from any slot, torn off by a crash or loaded
\* again, the table and its file stay strictly sorted by number: the binary
\* search of get_idx_by_id may rely on it.
THEOREM StaysSorted == Spec => []IndexSorted
<1>1. IInv => IndexSorted
  BY DEF IInv
<1> QED
  BY <1>1, IInvAlways, PTL

\* sorted_insert never writes behind the slots that were allocated.
THEOREM StaysInTable == Spec => []FitsTable
<1>1. IInv => FitsTable
  BY DEF IInv
<1> QED
  BY <1>1, IInvAlways, PTL

\* The table is sorted and fits, for any number of names, numbers and free slots.
THEOREM IndexStaysSound == Spec => []IndexSound
<1>1. TypeOK /\ IndexSorted /\ FitsTable => IndexSound
  BY DEF IndexSound
<1> QED
  BY <1>1, TypeCorrect, StaysSorted, StaysInTable, PTL

\* While nothing waits to be saved, the next boot will know exactly the players
\* of the table.  After a crash in the middle of a save that is the table which
\* the boot made of the lines that were whole: whoever stood behind them is in
\* neither (build_player_table, load's loop over the file).
THEOREM FileAgrees == Spec => []FileCurrent
<1>1. IInv => FileCurrent
  BY DEF IInv
<1> QED
  BY <1>1, IInvAlways, PTL

-----------------------------------------------------------------------------
(* The rooms players lease (Houses, in the scene of MCPlayerIndex).          *)

\* Of the first n of a list: whoever is among them is one of G, and is there once.
Kept(l, G, n) ==
  \A i, j \in Leases!Slot : i < n /\ j < n =>
    /\ l[i] \in G \cup {Nobody}
    /\ i # j /\ l[i] = l[j] => l[i] = Nobody

\* The list the game goes by; a free room has none.
ListKept(r) ==
  up /\ ~loose[r] => /\ Kept(rec[r].guests, invited[r], rec[r].num)
                     /\ rec[r].owner = Nobody => rec[r].num = 0

\* The file, if it is going to be read.
FileKept(r) ==
  ~loose[r] /\ ctl[r].owner # Nobody /\ gfile[r] # NULL => Kept(gfile[r], invited[r], MaxGuests)

LeaseInv ==
  /\ Leases!HousesType /\ Leases!LeaseKept
  /\ \A r \in Room : ListKept(r) /\ FileKept(r)

\* The least of a set of numbers.
LEMMA LeastNumber ==
  ASSUME NEW S \in SUBSET Nat, S # {}
  PROVE  \E i \in S : \A j \in S : i <= j
<1>1. PICK i \in S : \A j \in S : ~ (<<j, i>> \in OpToRel(<, Nat))
  BY NatLessThanWellFounded, WFMin
<1>2. \A j \in S : <<j, i>> \in OpToRel(<, Nat) <=> j < i
  BY DEF OpToRel
<1>3. \A j \in S : ~ (j < i)
  BY <1>1, <1>2, Zenon
<1> QED BY <1>3

\* What is said of 0 and passed on from number to number holds up to the bound.
LEMMA UpTo ==
  ASSUME NEW N \in Nat, NEW T, 0 \in T, \A j \in 1 .. N : j - 1 \in T => j \in T
  PROVE  \A j \in 0 .. N : j \in T
<1> SUFFICES ASSUME {j \in 0 .. N : j \notin T} # {} PROVE FALSE
  OBVIOUS
<1>1. PICK i \in {j \in 0 .. N : j \notin T} : \A j \in {k \in 0 .. N : k \notin T} : i <= j
  <2>1. {j \in 0 .. N : j \notin T} \in SUBSET Nat
    OBVIOUS
  <2> QED BY <2>1, LeastNumber
<1>2. i # 0 /\ i \in 0 .. N /\ i \notin T
  OBVIOUS
<1>3. i - 1 \in T
  BY <1>1, <1>2
<1> QED BY <1>2, <1>3

\* A function on 0 .. N can be given by what each of its values makes of the one before.
Steps(N, V, a, next) == N \in Nat /\ a \in V /\ next \in [1 .. N -> [V -> V]]
Made(N, V, a, next) ==
  \E f \in [0 .. N -> V] : /\ f[0] = a
                           /\ \A j \in 1 .. N : f[j] = next[j][f[j - 1]]

LEMMA StepByStep ==
  ASSUME NEW N, NEW V, NEW a, NEW next, Steps(N, V, a, next)
  PROVE  Made(N, V, a, next)
<1> USE DEF Steps
<1> DEFINE Good(n, f) == f[0] = a /\ \A j \in 1 .. n : f[j] = next[j][f[j - 1]]
           T == {n \in 0 .. N : \E f \in [0 .. N -> V] : Good(n, f)}
<1>1. 0 \in T
  <2> DEFINE f == [j \in 0 .. N |-> a]
  <2>1. f \in [0 .. N -> V] /\ f[0] = a /\ 0 \in 0 .. N
    OBVIOUS
  <2>2. \A j \in 1 .. 0 : FALSE
    OBVIOUS
  <2> HIDE DEF f
  <2> QED BY <2>1, <2>2
<1>2. ASSUME NEW n \in 1 .. N, n - 1 \in T PROVE n \in T
  <2>1. PICK f \in [0 .. N -> V] : Good(n - 1, f)
    BY <1>2
  <2> DEFINE g == [f EXCEPT ![n] = next[n][f[n - 1]]]
  <2>2. f[n - 1] \in V /\ next[n] \in [V -> V]
    OBVIOUS
  <2>3. g \in [0 .. N -> V]
    BY <2>2
  <2>4. (\A j \in 0 .. n - 1 : g[j] = f[j]) /\ g[n] = next[n][f[n - 1]]
    OBVIOUS
  <2>5. g[n] = next[n][g[n - 1]]
    <3>1. n - 1 \in 0 .. n - 1
      OBVIOUS
    <3> HIDE DEF g
    <3> QED BY <2>4, <3>1
  <2>6. Good(n, g)
    <3>1. g[0] = a
      BY <2>1, <2>4
    <3>2. ASSUME NEW j \in 1 .. n, j # n PROVE g[j] = next[j][g[j - 1]]
      <4>1. j \in 1 .. n - 1 /\ j - 1 \in 0 .. n - 1 /\ j \in 0 .. n - 1
        BY <3>2
      <4>2. g[j] = f[j] /\ g[j - 1] = f[j - 1] /\ f[j] = next[j][f[j - 1]]
        BY <4>1, <2>4, <2>1
      <4> QED BY <4>2
    <3> HIDE DEF g
    <3> QED BY <3>1, <3>2, <2>5
  <2>7. n \in 0 .. N
    OBVIOUS
  <2> HIDE DEF g, Good
  <2> QED BY <2>3, <2>6, <2>7, Zenon
<1>3. N \in T
  <2>1. \A j \in 1 .. N : j - 1 \in T => j \in T
    BY <1>2, Zenon
  <2> HIDE DEF T
  <2>2. \A j \in 0 .. N : j \in T
    BY <1>1, <2>1, UpTo, Zenon
  <2> QED BY <2>2
<1> QED BY <1>3 DEF Made
\* House_list_guests leaves a shorter list, and the rest as it was.
LEMMA ShownList ==
  ASSUME NEW h \in Leases!Record
  PROVE  \E k \in 0 .. h.num : Leases!Shown(h) = [h EXCEPT !.num = k]
<1>0. h.num \in 0 .. MaxGuests /\ MaxGuests \in Nat
  BY LeasesAssumption DEF Leases!HousesAssumption, Leases!Record
<1> DEFINE V == 0 .. h.num
           less(j, v) == IF j - 1 < v /\ h.guests[j - 1] \notin exists THEN v - 1 ELSE v
           next == [j \in 1 .. MaxGuests |-> [v \in V |-> less(j, v)]]
           Body(f) == [j \in 0 .. MaxGuests |-> IF j = 0 THEN h.num
                         ELSE IF j - 1 < f[j - 1] /\ h.guests[j - 1] \notin exists
                              THEN f[j - 1] - 1 ELSE f[j - 1]]
           num == CHOOSE f : f = Body(f)
<1>1. \A j \in 1 .. MaxGuests, v \in V : less(j, v) \in V
  BY <1>0
<1>2. next \in [1 .. MaxGuests -> [V -> V]] /\ h.num \in V
  BY <1>1, <1>0
<1>3. \A j \in 1 .. MaxGuests, v \in V : next[j][v] = less(j, v)
  OBVIOUS
<1>4. PICK f \in [0 .. MaxGuests -> V] : f[0] = h.num /\ \A j \in 1 .. MaxGuests : f[j] = next[j][f[j - 1]]
  <2> HIDE DEF next, V
  <2>1. Steps(MaxGuests, V, h.num, next)
    BY <1>0, <1>2 DEF Steps
  <2> QED BY <2>1, StepByStep DEF Made
<1>5. \A j \in 1 .. MaxGuests : f[j] = less(j, f[j - 1])
  <2> SUFFICES ASSUME NEW j \in 1 .. MaxGuests PROVE f[j] = less(j, f[j - 1])
    OBVIOUS
  <2>1. f[j - 1] \in V /\ f[j] = next[j][f[j - 1]]
    <3>1. j - 1 \in 0 .. MaxGuests
      BY <1>0
    <3> HIDE DEF V, next
    <3> QED BY <1>4, <3>1
  <2> HIDE DEF V, next, less
  <2> QED BY <2>1, <1>3
<1>6. f = Body(f)
  BY <1>4, <1>5
<1>7. num = Body(num)
  <2> HIDE DEF Body
  <2> QED BY <1>6
<1>8. \A j \in 0 .. MaxGuests : num[j] \in V
  <2> DEFINE T == {j \in 0 .. MaxGuests : num[j] \in V}
  <2>1. 0 \in T
    <3> HIDE DEF num
    <3> QED BY <1>7, <1>0
  <2>2. ASSUME NEW j \in 1 .. MaxGuests, j - 1 \in T PROVE j \in T
    <3>1. num[j] = less(j, num[j - 1])
      <4>1. j \in 0 .. MaxGuests /\ j # 0
        BY <1>0
      <4>2. num[j] = Body(num)[j]
        <5> HIDE DEF num, Body
        <5> QED BY <1>7
      <4> HIDE DEF num
      <4> QED BY <4>1, <4>2
    <3>2. num[j - 1] \in V
      BY <2>2
    <3> HIDE DEF num, less, V
    <3> QED BY <3>1, <3>2, <1>1
  <2>3. \A j \in 0 .. MaxGuests : j \in T
    <3> HIDE DEF T
    <3> QED BY <2>1, <2>2, <1>0, UpTo
  <2> QED BY <2>3
<1>9. Leases!Shown(h) = [h EXCEPT !.num = num[MaxGuests]]
  BY Zenon DEF Leases!Shown
<1>10. num[MaxGuests] \in 0 .. h.num
  BY <1>8, <1>0
<1> HIDE DEF num
<1> QED BY <1>9, <1>10

\* House_load: a number stays one, and so does what replaces a number of 0.
LEMMA CountedNum ==
  ASSUME NEW k \in 0 .. MaxGuests, NEW g \in Leases!Guests
  PROVE  Leases!Counted(k, g) \in 0 .. MaxGuests
<1>0. MaxGuests \in Nat
  BY LeasesAssumption DEF Leases!HousesAssumption
<1> DEFINE V == 0 .. MaxGuests
           less(j, v) == IF g[j - 1] = Nobody /\ v = 0 THEN j - 1 ELSE v
           next == [j \in 1 .. MaxGuests |-> [v \in V |-> less(j, v)]]
           Body(f) == [j \in 0 .. MaxGuests |-> IF j = 0 THEN k
                         ELSE IF g[j - 1] = Nobody /\ f[j - 1] = 0 THEN j - 1 ELSE f[j - 1]]
           num == CHOOSE f : f = Body(f)
<1>1. \A j \in 1 .. MaxGuests, v \in V : less(j, v) \in V
  BY <1>0
<1>2. next \in [1 .. MaxGuests -> [V -> V]] /\ k \in V
  BY <1>1, <1>0
<1>3. \A j \in 1 .. MaxGuests, v \in V : next[j][v] = less(j, v)
  OBVIOUS
<1>4. PICK f \in [0 .. MaxGuests -> V] : f[0] = k /\ \A j \in 1 .. MaxGuests : f[j] = next[j][f[j - 1]]
  <2> HIDE DEF next, V
  <2>1. Steps(MaxGuests, V, k, next)
    BY <1>0, <1>2 DEF Steps
  <2> QED BY <2>1, StepByStep DEF Made
<1>5. \A j \in 1 .. MaxGuests : f[j] = less(j, f[j - 1])
  <2> SUFFICES ASSUME NEW j \in 1 .. MaxGuests PROVE f[j] = less(j, f[j - 1])
    OBVIOUS
  <2>1. f[j - 1] \in V /\ f[j] = next[j][f[j - 1]]
    <3>1. j - 1 \in 0 .. MaxGuests
      BY <1>0
    <3> HIDE DEF V, next
    <3> QED BY <1>4, <3>1
  <2> HIDE DEF V, next, less
  <2> QED BY <2>1, <1>3
<1>6. f = Body(f)
  BY <1>4, <1>5
<1>7. num = Body(num)
  <2> HIDE DEF Body
  <2> QED BY <1>6
<1>8. \A j \in 0 .. MaxGuests : num[j] \in V
  <2> DEFINE T == {j \in 0 .. MaxGuests : num[j] \in V}
  <2>1. 0 \in T
    <3> HIDE DEF num
    <3> QED BY <1>7, <1>0
  <2>2. ASSUME NEW j \in 1 .. MaxGuests, j - 1 \in T PROVE j \in T
    <3>1. num[j] = less(j, num[j - 1])
      <4>1. j \in 0 .. MaxGuests /\ j # 0
        BY <1>0
      <4>2. num[j] = Body(num)[j]
        <5> HIDE DEF num, Body
        <5> QED BY <1>7
      <4> HIDE DEF num
      <4> QED BY <4>1, <4>2
    <3>2. num[j - 1] \in V
      BY <2>2
    <3> HIDE DEF num, less, V
    <3> QED BY <3>1, <3>2, <1>1
  <2>3. \A j \in 0 .. MaxGuests : j \in T
    <3> HIDE DEF T
    <3> QED BY <2>1, <2>2, <1>0, UpTo
  <2> QED BY <2>3
<1>9. Leases!Counted(k, g) = num[MaxGuests]
  BY Zenon DEF Leases!Counted
<1>10. num[MaxGuests] \in 0 .. MaxGuests
  BY <1>8, <1>0
<1> HIDE DEF num
<1> QED BY <1>9, <1>10
\* What the two files are given.
LEMMA ControlsOf ==
  ASSUME NEW f \in [Room -> Leases!Record]
  PROVE  /\ Leases!Controls(f) \in [Room -> Leases!Control]
         /\ \A r \in Room : /\ Leases!Controls(f)[r].owner = f[r].owner
                            /\ f[r].owner # Nobody => Leases!Controls(f)[r].paid = f[r].paid
<1>1. MaxPaid \in Nat
  BY LeasesAssumption DEF Leases!HousesAssumption
<1>2. \A r \in Room : f[r] \in Leases!Record
  OBVIOUS
<1> QED BY <1>1, <1>2 DEF Leases!Controls, Leases!Control, Leases!Record

LEMMA SavedList ==
  ASSUME NEW h \in Leases!Record
  PROVE  /\ Leases!Saved(h) \in Leases!Guests
         /\ \A j \in Leases!Slot :
              Leases!Saved(h)[j] = IF j < h.num - 1 THEN h.guests[j] ELSE Nobody
  BY DEF Leases!Saved, Leases!Guests, Leases!Record

\* The names kept from a list are kept in its file, and in a shorter list.
LEMMA SavedKept ==
  ASSUME NEW h \in Leases!Record, NEW G, Kept(h.guests, G, h.num)
  PROVE  Kept(Leases!Saved(h), G, MaxGuests)
<1>0. MaxGuests \in Nat /\ h.num \in 0 .. MaxGuests
  BY LeasesAssumption DEF Leases!HousesAssumption, Leases!Record
<1> DEFINE l == Leases!Saved(h)
<1>1. SUFFICES ASSUME NEW i \in Leases!Slot, NEW j \in Leases!Slot
               PROVE  /\ l[i] \in G \cup {Nobody}
                      /\ i # j /\ l[i] = l[j] => l[i] = Nobody
  BY DEF Kept
<1>2. /\ l[i] = IF i < h.num - 1 THEN h.guests[i] ELSE Nobody
      /\ l[j] = IF j < h.num - 1 THEN h.guests[j] ELSE Nobody
  BY SavedList
<1>3. i \in Int /\ j \in Int
  BY DEF Leases!Slot
<1> HIDE DEF l
<1> QED BY <1>0, <1>2, <1>3 DEF Kept

LEMMA KeptShorter ==
  ASSUME NEW l, NEW G, NEW H, G \subseteq H, NEW m \in Int, NEW n \in Int, m <= n, Kept(l, G, n)
  PROVE  Kept(l, H, m)
  BY DEF Kept, Leases!Slot

\* Who is taken off a list is off it, and nobody else.
LEMMA UnlistedList ==
  ASSUME NEW h \in Leases!Record, NEW q \in Player, Leases!Listed(h, q)
  PROVE  LET u == Leases!Unlisted(h, q)
         IN  /\ u \in Leases!Record
             /\ u.owner = h.owner /\ u.paid = h.paid /\ u.num = h.num - 1
             /\ \A G : Kept(h.guests, G, h.num) => Kept(u.guests, G \ {q}, u.num)
<1>0. /\ MaxGuests \in Nat /\ h.num \in 0 .. MaxGuests /\ h.guests \in Leases!Guests
      /\ Nobody \notin Player
  BY LeasesAssumption DEF Leases!HousesAssumption, Leases!Record
<1> DEFINE P(j) == h.guests[j] = q /\ \A i \in 0 .. j - 1 : h.guests[i] # q
           k == CHOOSE j \in Leases!Slot : P(j)
           g == [j \in Leases!Slot |-> IF j < k \/ j >= h.num THEN h.guests[j]
                                       ELSE IF j + 1 \in Leases!Slot THEN h.guests[j + 1] ELSE Nobody]
<1>1. PICK m \in Leases!Slot : m < h.num /\ h.guests[m] = q
  BY DEF Leases!Listed
<1>2. k \in Leases!Slot /\ P(k)
  <2> DEFINE T == {j \in Leases!Slot : h.guests[j] = q}
  <2>1. T \in SUBSET Nat /\ T # {}
    BY <1>1 DEF Leases!Slot
  <2>2. PICK i \in T : \A j \in T : i <= j
    BY <2>1, LeastNumber
  <2>3. i \in Leases!Slot /\ P(i)
    <3>1. \A j \in 0 .. i - 1 : j \in Leases!Slot /\ ~(i <= j)
      BY <1>0 DEF Leases!Slot
    <3> QED BY <3>1, <2>2
  <2> HIDE DEF P, T
  <2> QED BY <2>3
<1>3. k \in Nat /\ k < h.num
  <2>1. k \in Nat /\ m \in Nat
    BY <1>2 DEF Leases!Slot
  <2>2. ~(m \in 0 .. k - 1)
    BY <1>1, <1>2
  <2> HIDE DEF k
  <2> QED BY <2>1, <2>2, <1>1, <1>0
<1>4. Leases!Unlisted(h, q) = [h EXCEPT !.num = h.num - 1, !.guests = g]
  <2> HIDE DEF k
  <2>1. k = CHOOSE j \in Leases!Slot : h.guests[j] = q /\ \A i \in 0 .. j - 1 : h.guests[i] # q
    BY DEF k
  <2> QED BY <2>1 DEF Leases!Unlisted
<1> HIDE DEF k, P
<1>5. g \in Leases!Guests
  BY <1>0 DEF Leases!Guests
<1>6. ASSUME NEW G, Kept(h.guests, G, h.num), NEW i \in Leases!Slot, i < h.num - 1
      PROVE  \E a \in Leases!Slot :
               /\ a = (IF i < k THEN i ELSE i + 1)
               /\ g[i] = h.guests[a] /\ a < h.num /\ h.guests[a] # q
               /\ h.guests[a] \in G \cup {Nobody}
  <2>1. i \in Nat /\ k \in Leases!Slot
    BY <1>2 DEF Leases!Slot
  <2> DEFINE a == IF i < k THEN i ELSE i + 1
  <2>2. a \in Leases!Slot /\ a < h.num /\ a # k
    BY <2>1, <1>0, <1>3, <1>6 DEF Leases!Slot
  <2>3. g[i] = h.guests[a]
    BY <2>1, <2>2, <1>6, <1>3, <1>0
  <2>4. h.guests[k] = q /\ q # Nobody
    BY <1>2, <1>0 DEF P
  <2>5. h.guests[a] # q
    BY <2>2, <2>4, <1>3, <1>6, <2>1 DEF Kept
  <2>6. h.guests[a] \in G \cup {Nobody}
    BY <2>2, <1>6 DEF Kept
  <2> HIDE DEF g
  <2> QED BY <2>2, <2>3, <2>5, <2>6
<1>7. ASSUME NEW G, Kept(h.guests, G, h.num) PROVE Kept(g, G \ {q}, h.num - 1)
  <2> HIDE DEF g
  <2> SUFFICES ASSUME NEW i \in Leases!Slot, NEW j \in Leases!Slot, i < h.num - 1, j < h.num - 1
               PROVE  /\ g[i] \in (G \ {q}) \cup {Nobody}
                      /\ i # j /\ g[i] = g[j] => g[i] = Nobody
    BY DEF Kept
  <2>1. PICK a \in Leases!Slot : /\ a = (IF i < k THEN i ELSE i + 1)
               /\ g[i] = h.guests[a] /\ a < h.num /\ h.guests[a] # q
               /\ h.guests[a] \in G \cup {Nobody}
    BY <1>6, <1>7
  <2>2. PICK b \in Leases!Slot : /\ b = (IF j < k THEN j ELSE j + 1)
               /\ g[j] = h.guests[b] /\ b < h.num
    BY <1>6, <1>7
  <2>3. i # j => a # b
    BY <2>1, <2>2, <1>3 DEF Leases!Slot
  <2>4. a # b /\ h.guests[a] = h.guests[b] => h.guests[a] = Nobody
    BY <2>1, <2>2, <1>7 DEF Kept
  <2> QED BY <2>1, <2>2, <2>3, <2>4
<1>8. [h EXCEPT !.num = h.num - 1, !.guests = g] \in Leases!Record
  <2>1. h.num - 1 \in 0 .. MaxGuests
    BY <1>0, <1>3
  <2> HIDE DEF g
  <2> QED BY <2>1, <1>5 DEF Leases!Record
<1> HIDE DEF g
<1> QED BY <1>4, <1>7, <1>8 DEF Leases!Record
-----------------------------------------------------------------------------
LEMMA LeaseInvInit == Leases!Init => LeaseInv
<1> SUFFICES ASSUME Leases!Init PROVE LeaseInv
  OBVIOUS
<1>0. MaxGuests \in Nat /\ MaxPaid \in Nat
  BY LeasesAssumption DEF Leases!HousesAssumption
<1>1. Leases!NoGuests \in Leases!Guests
  BY DEF Leases!NoGuests, Leases!Guests
<1>2. Leases!HousesType
  BY <1>0, <1>1 DEF Leases!Init, Leases!HousesType, Leases!Record, Leases!Control
<1>3. Leases!LeaseKept
  BY DEF Leases!Init, Leases!LeaseKept
<1>4. \A r \in Room : ListKept(r) /\ FileKept(r)
  BY DEF Leases!Init, ListKept, FileKept, Kept, Leases!Slot
<1> QED BY <1>2, <1>3, <1>4 DEF LeaseInv

LEMMA LeaseInvStutter ==
  ASSUME LeaseInv, UNCHANGED leaseVars
  PROVE  LeaseInv'
<1>1. Leases!HousesType'
  BY DEF LeaseInv, leaseVars, Leases!HousesType
<1>2. Leases!LeaseKept'
  BY DEF LeaseInv, leaseVars, Leases!LeaseKept
<1>3. \A r \in Room : (ListKept(r) /\ FileKept(r))'
  BY DEF LeaseInv, leaseVars, ListKept, FileKept, Kept
<1> QED BY <1>1, <1>2, <1>3 DEF LeaseInv

\* A room whose records a step leaves alone.
LEMMA RoomAlone ==
  ASSUME LeaseInv, NEW r \in Room, up' => up,
         rec'[r] = rec[r], gfile'[r] = gfile[r], loose'[r] = loose[r],
         invited'[r] = invited[r], ctl'[r].owner = ctl[r].owner
  PROVE  (ListKept(r) /\ FileKept(r))'
  BY DEF LeaseInv, ListKept, FileKept, Kept

\* The tenant's records go to the two files, in either order, or to one of them.
\* A room other than s is as it was.
Written(s, R, N, G, L) ==
  /\ R \in Leases!Record /\ N \in Leases!Guests \cup {NULL} /\ G \in SUBSET Player /\ L \in BOOLEAN
  /\ rec' = [rec EXCEPT ![s] = R]
  /\ \/ ctl' = Leases!Controls(rec') /\ gfile' \in {gfile, [gfile EXCEPT ![s] = N]}
     \/ ctl' = ctl /\ up' = FALSE /\ gfile' = [gfile EXCEPT ![s] = N]
  /\ up' \in BOOLEAN /\ exists' = exists /\ wld' = wld
  /\ isHouse' \in [Room -> BOOLEAN] /\ \A r \in Room \ {s} : isHouse'[r] = isHouse[r]
  /\ R.owner # Nobody => isHouse'[s]
  /\ invited' = [invited EXCEPT ![s] = G] /\ loose' = [loose EXCEPT ![s] = L]

LEMMA WrittenKept ==
  ASSUME LeaseInv, up, NEW s \in Room, NEW R, NEW N, NEW G, NEW L, Written(s, R, N, G, L),
         (ListKept(s) /\ FileKept(s))'
  PROVE  LeaseInv'
<1> USE DEF LeaseInv, Written
<1>1. rec' \in [Room -> Leases!Record] /\ rec'[s] = R
  BY DEF Leases!HousesType
<1> DEFINE C == Leases!Controls(rec')
<1>0. /\ C \in [Room -> Leases!Control]
      /\ \A r \in Room : /\ C[r].owner = rec'[r].owner
                         /\ rec'[r].owner # Nobody => C[r].paid = rec'[r].paid
  BY <1>1, ControlsOf
<1> HIDE DEF C
<1>10. ctl' = C \/ (ctl' = ctl /\ ~up')
  BY DEF C
<1>2. ctl' \in [Room -> Leases!Control]
  BY <1>0, <1>10 DEF Leases!HousesType
<1>3. gfile' \in [Room -> Leases!Guests \cup {NULL}]
  BY DEF Leases!HousesType
<1>4. invited' \in [Room -> SUBSET Player] /\ loose' \in [Room -> BOOLEAN]
  BY DEF Leases!HousesType
<1>5. Leases!HousesType'
  BY <1>1, <1>2, <1>3, <1>4 DEF Leases!HousesType
<1>6. \A r \in Room : up' => /\ ctl'[r].owner = rec'[r].owner
                             /\ rec'[r].owner # Nobody => ctl'[r].paid = rec'[r].paid
  BY <1>0, <1>10
<1>7. \A r \in Room \ {s} : rec'[r] = rec[r]
  BY DEF Leases!HousesType
<1>8. Leases!LeaseKept'
  BY <1>1, <1>6, <1>7 DEF Leases!LeaseKept
<1>9. ASSUME NEW r \in Room \ {s} PROVE (ListKept(r) /\ FileKept(r))'
  <2>1. rec'[r] = rec[r] /\ gfile'[r] = gfile[r] /\ loose'[r] = loose[r] /\ invited'[r] = invited[r]
    BY DEF Leases!HousesType
  <2>2. ctl'[r].owner = ctl[r].owner
    BY <1>0, <1>10, <2>1 DEF Leases!LeaseKept
  <2> QED BY <2>1, <2>2, RoomAlone
<1> QED BY <1>5, <1>8, <1>9
\* What is known of a room before a step.
LEMMA RoomTyped ==
  ASSUME LeaseInv, NEW r \in Room
  PROVE  /\ rec[r] \in Leases!Record /\ rec[r].num \in 0 .. MaxGuests /\ rec[r].paid \in 0 .. MaxPaid
         /\ rec[r].guests \in Leases!Guests /\ ctl[r] \in Leases!Control
         /\ MaxGuests \in Nat /\ MaxPaid \in Nat /\ MaxPaid > 0 /\ Nobody \notin Player
         /\ invited[r] \in SUBSET Player /\ loose[r] \in BOOLEAN /\ exists \subseteq Player
         /\ up \in BOOLEAN /\ isHouse \in [Room -> BOOLEAN]
         /\ gfile[r] \in Leases!Guests \cup {NULL} /\ NULL \notin Leases!Guests
<1>1. rec[r] \in Leases!Record /\ ctl[r] \in Leases!Control
  BY DEF LeaseInv, Leases!HousesType
<1>2. NULL \notin Leases!Guests
  BY LeasesAssumption DEF Leases!HousesAssumption, Leases!Guests, Leases!Slot
<1>3. MaxGuests \in Nat /\ MaxPaid \in Nat /\ MaxPaid > 0 /\ Nobody \notin Player
  BY LeasesAssumption DEF Leases!HousesAssumption
<1> QED BY <1>1, <1>2, <1>3 DEF LeaseInv, Leases!HousesType, Leases!Record

LEMMA LeasedKept ==
  ASSUME LeaseInv, NEW p \in Player, NEW r \in Room, Leases!Lease(p, r)
  PROVE  LeaseInv'
<1> DEFINE R == [rec[r] EXCEPT !.owner = p, !.paid = 1]
<1>1. up /\ p \in exists /\ rec[r].owner = Nobody
  BY DEF Leases!Lease
<1>2. rec' = [rec EXCEPT ![r] = R] /\ R \in Leases!Record /\ R.owner = p
  <2>1. rec' = [rec EXCEPT ![r] = R]
    BY DEF Leases!Lease, LeaseInv, Leases!HousesType
  <2>2. R \in Leases!Record /\ R.owner = p
    <3>1. 1 \in 0 .. MaxPaid /\ 0 \in 0 .. MaxGuests
      BY RoomTyped
    <3>2. rec[r] \in [owner: Player \cup {Nobody}, paid: 0 .. MaxPaid, num: 0 .. MaxGuests,
                      guests: Leases!Guests]
      BY RoomTyped DEF Leases!Record
    <3>3. R \in Leases!Record
      BY <3>1, <3>2 DEF Leases!Record
    <3> QED BY <3>2, <3>3
  <2> QED BY <2>1, <2>2
<1>3. rec'[r] = R
  BY <1>2 DEF LeaseInv, Leases!HousesType
<1> DEFINE N == Leases!Saved(rec'[r])
<1>4. N \in Leases!Guests
  BY <1>2, <1>3, SavedList
<1>5. gfile' = [gfile EXCEPT ![r] = N] /\ up' \in BOOLEAN
      /\ (ctl' = Leases!Controls(rec') \/ (ctl' = ctl /\ up' = FALSE))
  BY DEF Leases!Lease, Leases!FileThenControl, Leases!CrashSave
<1>6. /\ isHouse' = [isHouse EXCEPT ![r] = TRUE] /\ invited' = [invited EXCEPT ![r] = {}]
      /\ loose' = loose /\ wld' = wld /\ exists' = exists
  BY DEF Leases!Lease
<1>7. gfile'[r] = N /\ invited'[r] = {} /\ loose'[r] = loose[r]
  BY <1>5, <1>6 DEF LeaseInv, Leases!HousesType
<1>8. ~loose[r] => R.num = 0
  BY <1>1 DEF LeaseInv, ListKept
<1>9. ~loose[r] => Kept(R.guests, {}, R.num)
  BY <1>8 DEF Kept, Leases!Slot
<1>10. ~loose[r] => Kept(N, {}, MaxGuests)
  BY <1>2, <1>3, <1>9, SavedKept
<1>11. (ListKept(r) /\ FileKept(r))'
  <2> HIDE DEF R, N
  <2> QED BY <1>3, <1>7, <1>8, <1>9, <1>10 DEF ListKept, FileKept
<1>12. loose' = [loose EXCEPT ![r] = loose[r]] /\ loose[r] \in BOOLEAN
  BY <1>6 DEF LeaseInv, Leases!HousesType
<1>13. isHouse' \in [Room -> BOOLEAN] /\ isHouse'[r] /\ \A s \in Room \ {r} : isHouse'[s] = isHouse[s]
  BY <1>6 DEF LeaseInv, Leases!HousesType
<1> HIDE DEF R, N
<1>14. Written(r, R, N, {}, loose[r])
  BY <1>2, <1>4, <1>5, <1>6, <1>12, <1>13 DEF Written
<1> QED BY <1>1, <1>11, <1>14, WrittenKept

\* The tenant leaves, or the room is taken from him: no guests, and no file but after a crash.
LEMMA LeftKept ==
  ASSUME LeaseInv, NEW r \in Room, up, Leases!Left(r),
         \/ Leases!ControlThenFile(rec', [gfile EXCEPT ![r] = NULL])
         \/ Leases!FileThenControl(rec', [gfile EXCEPT ![r] = NULL])
  PROVE  LeaseInv'
<1> DEFINE R == [rec[r] EXCEPT !.owner = Nobody, !.num = 0]
<1>2. rec' = [rec EXCEPT ![r] = R] /\ R \in Leases!Record /\ R.owner = Nobody /\ R.num = 0
  <2>1. rec' = [rec EXCEPT ![r] = R]
    BY DEF Leases!Left, LeaseInv, Leases!HousesType
  <2>2. R \in Leases!Record /\ R.owner = Nobody /\ R.num = 0
    <3>1. 1 \in 0 .. MaxPaid /\ 0 \in 0 .. MaxGuests
      BY RoomTyped
    <3>2. rec[r] \in [owner: Player \cup {Nobody}, paid: 0 .. MaxPaid, num: 0 .. MaxGuests,
                      guests: Leases!Guests]
      BY RoomTyped DEF Leases!Record
    <3>3. R \in Leases!Record
      BY <3>1, <3>2 DEF Leases!Record
    <3> QED BY <3>2, <3>3
  <2> QED BY <2>1, <2>2
<1>3. rec'[r] = R /\ rec' \in [Room -> Leases!Record]
  BY <1>2 DEF LeaseInv, Leases!HousesType
<1>4. \/ ctl' = Leases!Controls(rec') /\ gfile' \in {gfile, [gfile EXCEPT ![r] = NULL]}
      \/ ctl' = ctl /\ up' = FALSE /\ gfile' = [gfile EXCEPT ![r] = NULL]
  BY DEF Leases!ControlThenFile, Leases!FileThenControl
<1>5. up' \in BOOLEAN
  BY DEF Leases!ControlThenFile, Leases!FileThenControl
<1>6. /\ isHouse' = [isHouse EXCEPT ![r] = FALSE] /\ invited' = [invited EXCEPT ![r] = {}]
      /\ loose' = [loose EXCEPT ![r] = FALSE] /\ wld' = wld /\ exists' = exists
  BY DEF Leases!Left
<1>7. ctl'[r].owner = Nobody \/ gfile'[r] = NULL
  <2>1. Leases!Controls(rec')[r].owner = Nobody
    BY <1>2, <1>3, ControlsOf
  <2>2. [gfile EXCEPT ![r] = NULL][r] = NULL
    BY DEF LeaseInv, Leases!HousesType
  <2> QED BY <1>4, <2>1, <2>2
<1>8. (ListKept(r) /\ FileKept(r))'
  <2> HIDE DEF R
  <2>1. Kept(R.guests, invited'[r], R.num)
    BY <1>2 DEF Kept, Leases!Slot
  <2> QED BY <1>2, <1>3, <1>7, <2>1 DEF ListKept, FileKept
<1>9. isHouse' \in [Room -> BOOLEAN] /\ \A s \in Room \ {r} : isHouse'[s] = isHouse[s]
  BY <1>6 DEF LeaseInv, Leases!HousesType
<1> HIDE DEF R
<1>10. Written(r, R, NULL, {}, FALSE)
  BY <1>2, <1>4, <1>5, <1>6, <1>9 DEF Written
<1> QED BY <1>8, <1>10, WrittenKept

LEMMA PaidKept ==
  ASSUME LeaseInv, NEW p \in Player, NEW r \in Room, Leases!Pay(p, r)
  PROVE  LeaseInv'
<1> DEFINE R == [rec[r] EXCEPT !.paid = rec[r].paid + 1]
<1>1. up /\ p \in exists /\ rec[r].owner = p /\ rec[r].paid < MaxPaid
  BY DEF Leases!Pay
<1>2. rec' = [rec EXCEPT ![r] = R] /\ R \in Leases!Record /\ R.owner = p
      /\ R.num = rec[r].num /\ R.guests = rec[r].guests
  BY <1>1, RoomTyped DEF Leases!Pay, LeaseInv, Leases!HousesType, Leases!Record
<1>3. rec'[r] = R /\ rec' \in [Room -> Leases!Record]
  BY <1>2 DEF LeaseInv, Leases!HousesType
<1>4. /\ ctl' = Leases!Controls(rec') /\ gfile' = gfile /\ up' = up /\ isHouse' = isHouse
      /\ wld' = wld /\ exists' = exists /\ invited' = invited /\ loose' = loose
  BY DEF Leases!Pay
<1>5. ctl'[r].owner = ctl[r].owner
  BY <1>1, <1>2, <1>3, <1>4, ControlsOf DEF LeaseInv, Leases!LeaseKept
<1>6. (ListKept(r) /\ FileKept(r))'
  <2> HIDE DEF R
  <2>1. p # Nobody
    BY RoomTyped
  <2> QED BY <1>1, <1>2, <1>3, <1>4, <1>5, <2>1 DEF ListKept, FileKept, LeaseInv
<1>7. invited' = [invited EXCEPT ![r] = invited[r]] /\ loose' = [loose EXCEPT ![r] = loose[r]]
      /\ up' \in BOOLEAN /\ isHouse' \in [Room -> BOOLEAN]
  BY <1>4 DEF LeaseInv, Leases!HousesType
<1>8. isHouse'[r]
  BY <1>1, <1>4, RoomTyped DEF LeaseInv, Leases!LeaseKept
<1>9. \A s \in Room \ {r} : isHouse'[s] = isHouse[s]
  BY <1>4
<1> HIDE DEF R
<1>10. Written(r, R, NULL, invited[r], loose[r])
  BY <1>2, <1>4, <1>7, <1>8, <1>9, RoomTyped DEF Written
<1> QED BY <1>1, <1>6, <1>10, WrittenKept
\* do_house: the list that is written is the list that was asked for.
LEMMA HouseKept ==
  ASSUME LeaseInv, NEW p \in Player, NEW r \in Room, NEW q \in Player, Leases!House(p, r, q)
  PROVE  LeaseInv'
<1> DEFINE h == rec[r]
           R == rec'[r]
           N == Leases!Saved(R)
           G == invited'[r]
<1>1. up /\ q \in exists /\ rec[r].owner = p /\ isHouse[r] /\ p # Nobody /\ q # Nobody
  BY RoomTyped DEF Leases!House
<1>2. /\ R \in Leases!Record /\ R.owner = p /\ rec' = [rec EXCEPT ![r] = R]
      /\ ~loose[r] => Kept(R.guests, G, R.num)
      /\ invited' = [invited EXCEPT ![r] = G]
      /\ G \in SUBSET Player
      /\ ~up' => invited[r] \subseteq G
  <2>1. CASE Leases!Listed(h, q) /\ rec' = [rec EXCEPT ![r] = Leases!Unlisted(h, q)]
    <3>1. R = Leases!Unlisted(h, q) /\ rec' = [rec EXCEPT ![r] = R]
      BY <2>1 DEF LeaseInv, Leases!HousesType
    <3>2. /\ R \in Leases!Record /\ R.owner = h.owner /\ R.num = h.num - 1
          /\ \A H : Kept(h.guests, H, h.num) => Kept(R.guests, H \ {q}, R.num)
      <4> DEFINE u == Leases!Unlisted(h, q)
      <4>1. h \in Leases!Record /\ Leases!Listed(h, q)
        BY <2>1, RoomTyped
      <4> HIDE DEF h
      <4>2. /\ u \in Leases!Record /\ u.owner = h.owner /\ u.num = h.num - 1
            /\ \A H : Kept(h.guests, H, h.num) => Kept(u.guests, H \ {q}, u.num)
        BY <4>1, UnlistedList
      <4>3. R = u
        BY <3>1
      <4> HIDE DEF u, R
      <4> QED BY <4>2, <4>3
    <3>3. /\ G = IF up' THEN invited[r] \ {q} ELSE invited[r]
          /\ invited' = [invited EXCEPT ![r] = G]
      BY <2>1 DEF Leases!House, LeaseInv, Leases!HousesType
    <3>4. ~loose[r] => Kept(h.guests, invited[r], h.num)
      BY <1>1 DEF LeaseInv, ListKept
    <3> HIDE DEF R, G, h
    <3>5. ~loose[r] => Kept(R.guests, invited[r] \ {q}, R.num)
      BY <3>2, <3>4
    <3>6. ~loose[r] => Kept(R.guests, G, R.num)
      BY <3>3, <3>5 DEF Kept
    <3> QED BY <1>1, <3>1, <3>2, <3>3, <3>6, RoomTyped DEF h
  <2>2. CASE /\ ~Leases!Listed(h, q) /\ h.num < MaxGuests
             /\ rec' = [rec EXCEPT ![r].num = @ + 1, ![r].guests[h.num] = q]
    <3> DEFINE g == [h.guests EXCEPT ![h.num] = q]
               h1 == [h EXCEPT !.num = h.num + 1]
               h2 == [h1 EXCEPT !.guests = g]
    <3>1. h \in [owner: Player \cup {Nobody}, paid: 0 .. MaxPaid, num: 0 .. MaxGuests, guests: Leases!Guests]
      BY RoomTyped DEF Leases!Record
    <3>2. h.num \in Leases!Slot /\ h.num + 1 \in 0 .. MaxGuests
      BY <2>2, RoomTyped DEF Leases!Slot
    <3>3. g \in Leases!Guests
      BY <3>1, <3>2 DEF Leases!Guests
    <3>4. h1 \in Leases!Record /\ h1.num = h.num + 1 /\ h1.owner = h.owner /\ h1.guests = h.guests
      BY <3>1, <3>2 DEF Leases!Record
    <3>5. h2 \in Leases!Record /\ h2.num = h.num + 1 /\ h2.owner = h.owner /\ h2.guests = g
      <4> HIDE DEF g, h1
      <4> QED BY <3>3, <3>4 DEF Leases!Record
    <3>6. rec' = [[rec EXCEPT ![r] = h1] EXCEPT ![r] = h2]
      <4>1. [rec EXCEPT ![r].num = @ + 1] = [rec EXCEPT ![r] = h1]
        BY DEF LeaseInv, Leases!HousesType
      <4>2. rec' = [[rec EXCEPT ![r].num = @ + 1] EXCEPT ![r].guests[h.num] = q]
        BY <2>2
      <4>3. rec' = [[rec EXCEPT ![r] = h1] EXCEPT ![r].guests[h.num] = q]
        BY <4>1, <4>2
      <4>4. [rec EXCEPT ![r] = h1][r] = h1
        BY DEF LeaseInv, Leases!HousesType
      <4> HIDE DEF h1
      <4>5. rec' = [[rec EXCEPT ![r] = h1] EXCEPT ![r] = [h1 EXCEPT !.guests = [h1.guests EXCEPT ![h.num] = q]]]
        BY <4>3, <4>4
      <4> QED BY <4>5, <3>4
    <3>7. R = h2 /\ rec' = [rec EXCEPT ![r] = R]
      <4> HIDE DEF h1, h2
      <4> QED BY <3>6 DEF LeaseInv, Leases!HousesType
    <3>8. /\ G = invited[r] \cup {q} /\ invited' = [invited EXCEPT ![r] = G]
      BY <2>2 DEF Leases!House, LeaseInv, Leases!HousesType
    <3>9. ~loose[r] => Kept(R.guests, G, R.num)
      <4> SUFFICES ASSUME ~loose[r] PROVE Kept(g, invited[r] \cup {q}, h.num + 1)
        BY <3>5, <3>7, <3>8
      <4>1. Kept(h.guests, invited[r], h.num)
        BY <1>1 DEF LeaseInv, ListKept
      <4>2. \A j \in Leases!Slot : j < h.num => h.guests[j] # q
        BY <2>2 DEF Leases!Listed
      <4>3. \A j \in Leases!Slot : g[j] = IF j = h.num THEN q ELSE h.guests[j]
        BY <3>1, <3>2 DEF Leases!Guests
      <4>4. \A j \in Leases!Slot : j < h.num + 1 => j = h.num \/ j < h.num
        BY <3>2 DEF Leases!Slot
      <4> HIDE DEF g, h
      <4> QED BY <4>1, <4>2, <4>3, <4>4 DEF Kept
    <3> HIDE DEF R, G, h, h2
    <3> QED BY <1>1, <3>5, <3>7, <3>8, <3>9, RoomTyped DEF h
  <2> QED BY <2>1, <2>2 DEF Leases!House
<1>3. /\ N \in Leases!Guests /\ (~loose[r] => Kept(N, G, MaxGuests))
  <2> HIDE DEF R, G
  <2> QED BY <1>2, SavedList, SavedKept
<1>4. /\ ctl' = Leases!Controls(rec') /\ gfile' \in {gfile, [gfile EXCEPT ![r] = N]}
      /\ up' \in BOOLEAN /\ isHouse' = isHouse /\ loose' = loose /\ wld' = wld /\ exists' = exists
  BY DEF Leases!House, Leases!ControlThenFile, Leases!CrashSave
<1>5. up' => gfile' = [gfile EXCEPT ![r] = N]
  BY DEF Leases!House, Leases!ControlThenFile, Leases!CrashSave
<1>6. ctl'[r].owner = p /\ ctl[r].owner = p
  <2>1. rec' \in [Room -> Leases!Record]
    BY <1>2 DEF LeaseInv, Leases!HousesType
  <2> QED BY <2>1, <1>1, <1>2, <1>4, ControlsOf DEF LeaseInv, Leases!LeaseKept
<1>7. FileKept(r)'
  <2> SUFFICES ASSUME ~loose[r], gfile'[r] # NULL PROVE Kept(gfile'[r], G, MaxGuests)
    BY <1>4 DEF FileKept
  <2>1. gfile'[r] = N \/ (gfile'[r] = gfile[r] /\ ~up')
    BY <1>4, <1>5 DEF LeaseInv, Leases!HousesType
  <2>2. gfile'[r] = gfile[r] => Kept(gfile[r], invited[r], MaxGuests)
    BY <1>1, <1>6 DEF LeaseInv, FileKept
  <2>3. ~up' /\ gfile'[r] = gfile[r] => Kept(gfile[r], G, MaxGuests)
    BY <2>2, <1>2 DEF Kept
  <2> HIDE DEF N, G
  <2> QED BY <2>1, <2>3, <1>3
<1>8. ListKept(r)'
  BY <1>1, <1>2, <1>4 DEF ListKept
<1>9. Written(r, R, N, G, loose[r])
  <2>1. loose' = [loose EXCEPT ![r] = loose[r]] /\ isHouse' \in [Room -> BOOLEAN] /\ loose[r] \in BOOLEAN
    BY <1>4 DEF LeaseInv, Leases!HousesType
  <2> HIDE DEF R, N, G
  <2> QED BY <1>1, <1>2, <1>3, <1>4, <2>1 DEF Written
<1> HIDE DEF R, N, G
<1> QED BY <1>1, <1>7, <1>8, <1>9, WrittenKept
\* House_list_guests: a shorter list in memory only.
LEMMA ListedKept ==
  ASSUME LeaseInv, NEW p \in Player, NEW r \in Room, Leases!ListGuests(p, r)
  PROVE  LeaseInv'
<1> DEFINE R == Leases!Shown(rec[r])
<1>1. up /\ rec[r].owner = p /\ p # Nobody /\ rec' = [rec EXCEPT ![r] = R]
      /\ UNCHANGED <<ctl, gfile, isHouse, wld, exists, up, invited, loose>>
  BY RoomTyped DEF Leases!ListGuests
<1>2. PICK k \in 0 .. rec[r].num : R = [rec[r] EXCEPT !.num = k]
  BY RoomTyped, ShownList
<1>3. rec[r] \in [owner: Player \cup {Nobody}, paid: 0 .. MaxPaid, num: 0 .. MaxGuests, guests: Leases!Guests]
  BY RoomTyped DEF Leases!Record
<1>4. k \in 0 .. MaxGuests /\ k <= rec[r].num /\ k \in Int /\ rec[r].num \in Int
  BY RoomTyped
<1>5. /\ R \in Leases!Record /\ R.owner = rec[r].owner /\ R.paid = rec[r].paid
      /\ R.num = k /\ R.guests = rec[r].guests
  <2> HIDE DEF R
  <2> QED BY <1>2, <1>3, <1>4 DEF Leases!Record
<1> HIDE DEF R
<1>6. rec'[r] = R /\ rec' \in [Room -> Leases!Record] /\ \A s \in Room \ {r} : rec'[s] = rec[s]
  BY <1>1, <1>5 DEF LeaseInv, Leases!HousesType
<1>7. Leases!HousesType'
  BY <1>1, <1>6 DEF LeaseInv, Leases!HousesType
<1>8. Leases!LeaseKept'
  BY <1>1, <1>5, <1>6 DEF LeaseInv, Leases!LeaseKept
<1>9. ASSUME NEW s \in Room PROVE (ListKept(s) /\ FileKept(s))'
  <2>1. CASE s # r
    BY <1>1, <1>6, <2>1, RoomAlone
  <2>2. CASE s = r
    <3>1. ~loose[r] => Kept(R.guests, invited[r], R.num)
      <4>1. ~loose[r] => Kept(rec[r].guests, invited[r], rec[r].num)
        BY <1>1 DEF LeaseInv, ListKept
      <4> QED BY <4>1, <1>4, <1>5 DEF Kept, Leases!Slot
    <3>2. ListKept(r)'
      BY <1>1, <1>5, <1>6, <3>1 DEF ListKept
    <3>3. FileKept(r)'
      BY <1>1 DEF LeaseInv, FileKept, Kept
    <3> QED BY <2>2, <3>2, <3>3
  <2> QED BY <2>1, <2>2
<1> QED BY <1>7, <1>8, <1>9 DEF LeaseInv

\* House_save_all: the list of the game goes to the file.
LEMMA SavedRoomKept ==
  ASSUME LeaseInv, NEW r \in Room, Leases!SaveRoom(r)
  PROVE  LeaseInv'
<1> DEFINE N == Leases!Saved(rec[r])
<1>1. up /\ gfile' = [gfile EXCEPT ![r] = N]
      /\ UNCHANGED <<rec, ctl, isHouse, wld, exists, up, invited, loose>>
  BY DEF Leases!SaveRoom, Leases!CrashSave
<1>2. N \in Leases!Guests
  BY RoomTyped, SavedList
<1>3. ~loose[r] => Kept(N, invited[r], MaxGuests)
  BY <1>1, RoomTyped, SavedKept DEF LeaseInv, ListKept
<1> HIDE DEF N
<1>4. gfile'[r] = N /\ \A s \in Room \ {r} : gfile'[s] = gfile[s]
  BY <1>1 DEF LeaseInv, Leases!HousesType
<1>5. Leases!HousesType'
  BY <1>1, <1>2 DEF LeaseInv, Leases!HousesType
<1>6. Leases!LeaseKept'
  BY <1>1 DEF LeaseInv, Leases!LeaseKept
<1>7. ASSUME NEW s \in Room PROVE (ListKept(s) /\ FileKept(s))'
  <2>1. CASE s # r
    BY <1>1, <1>4, <2>1, RoomAlone
  <2>2. CASE s = r
    <3>1. ListKept(r)'
      BY <1>1 DEF LeaseInv, ListKept, Kept
    <3>2. FileKept(r)'
      BY <1>1, <1>3, <1>4 DEF FileKept
    <3> QED BY <2>2, <3>1, <3>2
  <2> QED BY <2>1, <2>2
<1> QED BY <1>5, <1>6, <1>7 DEF LeaseInv

\* Time passes for both the records and their file.
LEMMA PeriodKept ==
  ASSUME LeaseInv, Leases!Period
  PROVE  LeaseInv'
<1> DEFINE less(h) == [h EXCEPT !.paid = IF h.paid > 0 THEN h.paid - 1 ELSE 0]
<1>1. /\ rec' = [r \in Room |-> less(rec[r])] /\ ctl' = [r \in Room |-> less(ctl[r])]
      /\ UNCHANGED <<gfile, isHouse, wld, exists, up, invited, loose>>
  BY DEF Leases!Period
<1>2. \A r \in Room : rec'[r] = less(rec[r]) /\ ctl'[r] = less(ctl[r])
  BY <1>1
<1>3. ASSUME NEW r \in Room
      PROVE  /\ rec'[r] \in Leases!Record /\ ctl'[r] \in Leases!Control
             /\ rec'[r].owner = rec[r].owner /\ rec'[r].num = rec[r].num
             /\ rec'[r].guests = rec[r].guests /\ ctl'[r].owner = ctl[r].owner
             /\ rec[r].paid = ctl[r].paid => rec'[r].paid = ctl'[r].paid
  <2>1. MaxPaid \in Nat
    BY RoomTyped
  <2>2. rec[r] \in Leases!Record /\ ctl[r] \in Leases!Control
    BY RoomTyped
  <2>3. less(rec[r]) \in Leases!Record /\ less(ctl[r]) \in Leases!Control
    BY <2>1, <2>2 DEF Leases!Record, Leases!Control
  <2>4. /\ less(rec[r]).owner = rec[r].owner /\ less(rec[r]).num = rec[r].num
        /\ less(rec[r]).guests = rec[r].guests /\ less(ctl[r]).owner = ctl[r].owner
        /\ rec[r].paid = ctl[r].paid => less(rec[r]).paid = less(ctl[r]).paid
    BY <2>2 DEF Leases!Record, Leases!Control
  <2> HIDE DEF less
  <2> QED BY <2>3, <2>4, <1>2
<1>4. rec' \in [Room -> Leases!Record] /\ ctl' \in [Room -> Leases!Control]
  <2> HIDE DEF less
  <2> QED BY <1>1, <1>2, <1>3
<1>5. Leases!HousesType'
  BY <1>1, <1>4 DEF LeaseInv, Leases!HousesType
<1> HIDE DEF less
<1>6. Leases!LeaseKept'
  BY <1>1, <1>3 DEF LeaseInv, Leases!LeaseKept
<1>7. \A r \in Room : (ListKept(r) /\ FileKept(r))'
  BY <1>1, <1>3 DEF LeaseInv, ListKept, FileKept, Kept
<1> QED BY <1>5, <1>6, <1>7 DEF LeaseInv

\* Players come and go, the world is written, the game ends.
LEMMA OthersKept ==
  ASSUME LeaseInv, \/ Leases!WriteWorld \/ Leases!Crash
                   \/ \E p \in Player : Leases!Delete(p) \/ Leases!NewPlayer(p)
  PROVE  LeaseInv'
<1>1. /\ UNCHANGED <<rec, ctl, gfile, isHouse, invited, loose>>
      /\ up' \in BOOLEAN /\ (up' => up) /\ exists' \in SUBSET Player /\ wld' \in [Room -> BOOLEAN]
  BY DEF Leases!WriteWorld, Leases!Crash, Leases!Delete, Leases!NewPlayer, LeaseInv, Leases!HousesType
<1>2. Leases!HousesType'
  BY <1>1 DEF LeaseInv, Leases!HousesType
<1>3. Leases!LeaseKept'
  BY <1>1 DEF LeaseInv, Leases!LeaseKept
<1>4. \A r \in Room : (ListKept(r) /\ FileKept(r))'
  BY <1>1 DEF LeaseInv, ListKept, FileKept, Kept
<1> QED BY <1>2, <1>3, <1>4 DEF LeaseInv

\* House_boot: what is read was kept; what is not read is loose, or no list at all.
LEMMA BootKept ==
  ASSUME LeaseInv, Leases!Boot
  PROVE  LeaseInv'
<1>1. PICK junk \in Leases!Guests : rec' = [r \in Room |-> Leases!Booted(r, junk)]
  BY DEF Leases!Boot
<1>2. /\ up' = TRUE /\ ctl' = Leases!Controls(rec') /\ wld' = wld /\ exists' = exists
      /\ gfile' = [r \in Room |-> IF Leases!Lives(r) THEN gfile[r] ELSE NULL]
      /\ isHouse' = [r \in Room |-> wld[r] \/ Leases!Lives(r)]
      /\ invited' = [r \in Room |-> IF Leases!Lives(r) THEN invited[r] ELSE {}]
      /\ loose' = [r \in Room |-> loose[r] \/ ((~Leases!Lives(r) \/ gfile[r] = NULL) /\ ctl[r].num > 0)]
  BY DEF Leases!Boot
<1>3. ASSUME NEW r \in Room
      PROVE  /\ Leases!Lives(r) \in BOOLEAN /\ (Leases!Lives(r) => ctl[r].owner # Nobody)
             /\ ctl[r].owner \in Player \cup {Nobody} /\ ctl[r].num \in 0 .. MaxGuests
             /\ ctl[r].paid \in 0 .. MaxPaid
  BY RoomTyped DEF Leases!Lives, Leases!Control
<1>4. ASSUME NEW r \in Room, Leases!Lives(r) /\ gfile[r] # NULL
      PROVE  /\ rec'[r] \in Leases!Record /\ rec'[r].owner = ctl[r].owner
             /\ rec'[r].guests = gfile[r]
  <2>1. rec'[r] = [owner |-> ctl[r].owner, paid |-> ctl[r].paid, guests |-> gfile[r],
                   num |-> Leases!Counted(ctl[r].num, gfile[r])]
    BY <1>1, <1>4 DEF Leases!Booted
  <2>2. gfile[r] \in Leases!Guests
    BY <1>4, RoomTyped
  <2>3. Leases!Counted(ctl[r].num, gfile[r]) \in 0 .. MaxGuests
    BY <1>3, <2>2, CountedNum
  <2> QED BY <1>3, <2>1, <2>2, <2>3 DEF Leases!Record
<1>5. ASSUME NEW r \in Room, ~(Leases!Lives(r) /\ gfile[r] # NULL)
      PROVE  /\ rec'[r] \in Leases!Record
             /\ rec'[r].owner = IF Leases!Lives(r) THEN ctl[r].owner ELSE Nobody
             /\ rec'[r].num = ctl[r].num
  <2>1. rec'[r] = [owner |-> IF Leases!Lives(r) THEN ctl[r].owner ELSE Nobody, paid |-> ctl[r].paid,
                   num |-> ctl[r].num, guests |-> junk]
    BY <1>1, <1>5 DEF Leases!Booted
  <2> QED BY <1>3, <2>1 DEF Leases!Record
<1>6. rec' \in [Room -> Leases!Record]
  BY <1>1, <1>4, <1>5
<1>7. /\ ctl' \in [Room -> Leases!Control]
      /\ \A r \in Room : /\ ctl'[r].owner = rec'[r].owner
                         /\ rec'[r].owner # Nobody => ctl'[r].paid = rec'[r].paid
  BY <1>2, <1>6, ControlsOf
<1>8. Leases!HousesType'
  <2>1. gfile' \in [Room -> Leases!Guests \cup {NULL}]
    BY <1>2 DEF LeaseInv, Leases!HousesType
  <2>2. isHouse' \in [Room -> BOOLEAN] /\ invited' \in [Room -> SUBSET Player] /\ loose' \in [Room -> BOOLEAN]
    BY <1>2, <1>3 DEF LeaseInv, Leases!HousesType
  <2> QED BY <1>2, <1>6, <1>7, <2>1, <2>2 DEF LeaseInv, Leases!HousesType
<1>9. Leases!LeaseKept'
  <2>1. \A r \in Room : rec'[r].owner # Nobody => isHouse'[r]
    BY <1>2, <1>4, <1>5
  <2> QED BY <2>1, <1>7 DEF Leases!LeaseKept
<1>10. ASSUME NEW r \in Room PROVE (ListKept(r) /\ FileKept(r))'
  <2> SUFFICES ASSUME ~loose'[r]
               PROVE  /\ Kept(rec'[r].guests, invited'[r], rec'[r].num)
                      /\ rec'[r].owner = Nobody => rec'[r].num = 0
                      /\ ctl'[r].owner # Nobody /\ gfile'[r] # NULL => Kept(gfile'[r], invited'[r], MaxGuests)
    BY DEF ListKept, FileKept
  <2>1. ~loose[r] /\ ((Leases!Lives(r) /\ gfile[r] # NULL) \/ ~(ctl[r].num > 0))
    BY <1>2, <1>3
  <2>2. CASE Leases!Lives(r) /\ gfile[r] # NULL
    <3>1. Kept(gfile[r], invited[r], MaxGuests)
      BY <2>1, <2>2, <1>3 DEF LeaseInv, FileKept
    <3>2. invited'[r] = invited[r] /\ gfile'[r] = gfile[r] /\ rec'[r].guests = gfile[r]
          /\ rec'[r].owner # Nobody
      BY <1>2, <1>3, <1>4, <2>2
    <3>3. rec'[r].num \in 0 .. MaxGuests /\ MaxGuests \in Nat
      BY <1>6, RoomTyped DEF Leases!Record
    <3>4. Kept(gfile[r], invited[r], rec'[r].num)
      BY <3>1, <3>3 DEF Kept, Leases!Slot
    <3> QED BY <3>1, <3>2, <3>4
  <2>3. CASE ~(Leases!Lives(r) /\ gfile[r] # NULL)
    <3>1. rec'[r].num = 0
      BY <2>1, <2>3, <1>3, <1>5
    <3>2. gfile'[r] = NULL
      BY <2>3, <1>2
    <3>3. Kept(rec'[r].guests, invited'[r], rec'[r].num)
      BY <3>1 DEF Kept, Leases!Slot
    <3> QED BY <3>1, <3>2, <3>3
  <2> QED BY <2>2, <2>3
<1> QED BY <1>8, <1>9, <1>10 DEF LeaseInv

LEMMA LeaseInvNext ==
  ASSUME LeaseInv, Leases!Next
  PROVE  LeaseInv'
<1>1. ASSUME NEW r \in Room, Leases!Destroy(r) PROVE LeaseInv'
  BY <1>1, LeftKept DEF Leases!Destroy
<1>2. ASSUME NEW r \in Room, NEW p \in Player, Leases!Leave(p, r) PROVE LeaseInv'
  BY <1>2, LeftKept DEF Leases!Leave
<1> QED BY <1>1, <1>2, LeasedKept, PaidKept, HouseKept, ListedKept, SavedRoomKept, PeriodKept,
           OthersKept, BootKept DEF Leases!Next

LEMMA LeaseInvSound == LeaseInv => Leases!LeasesSound
<1> SUFFICES ASSUME LeaseInv PROVE Leases!NoStrangers
  BY DEF LeaseInv, Leases!LeasesSound
<1>1. ASSUME NEW r \in Room, NEW p \in Player, up, ~loose[r], Leases!CanEnter(p, r)
      PROVE  p \in Admin \cup {rec[r].owner} \cup invited[r]
  <2>1. CASE Leases!Listed(rec[r], p)
    <3>1. p # Nobody
      BY RoomTyped
    <3> QED BY <1>1, <2>1, <3>1 DEF Leases!Listed, LeaseInv, ListKept, Kept
  <2> QED BY <1>1, <2>1 DEF Leases!CanEnter
<1> QED BY <1>1 DEF Leases!NoStrangers

\* Any number of rooms, players and guests, and a crash or reboot whenever it happens: nobody
\* enters a leased room but its owner and who was asked in and not turned out since
\* (House_can_enter), and while the game runs the control file has every lease as the table
\* has it, its room closed to others (House_save_control, House_boot).
THEOREM LeasesAreSound == MCSpec => []LeasesSound
<1> DEFINE I == scene = "houses" => LeaseInv
<1>1. MCInit => I
  BY LeaseInvInit DEF MCInit
<1>2. I /\ [MCNext]_allVars => I'
  <2> SUFFICES ASSUME I, [MCNext]_allVars, scene' = "houses" PROVE LeaseInv'
    OBVIOUS
  <2>1. CASE LeaseStep
    BY <2>1, LeaseInvNext DEF LeaseStep
  <2>2. CASE IndexStep
    BY <2>2, LeaseInvStutter DEF IndexStep
  <2>3. CASE StowStep
    BY <2>3 DEF StowStep
  <2>4. CASE UNCHANGED allVars
    BY <2>4, LeaseInvStutter DEF allVars
  <2> QED BY <2>1, <2>2, <2>3, <2>4 DEF MCNext
<1>3. I => LeasesSound
  BY LeaseInvSound DEF LeasesSound
<1> QED BY <1>1, <1>2, <1>3, PTL DEF MCSpec
=============================================================================
