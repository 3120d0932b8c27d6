------------------------------- MODULE Houses -------------------------------
(***************************************************************************)
(* Leased rooms: the landlords' records, the guests, and the two files     *)
(* they are kept in (house.cpp).  The control file holds every record but  *)
(* the guests; the guests are in the file of the room.  They are written   *)
(* one after the other and read together when the game boots.              *)
(***************************************************************************)
EXTENDS Integers, FiniteSets

CONSTANTS
  Room,       \* the rooms landlords let
  Player,     \* idnums
  Admin,      \* those of LVL_ADMIN, who enter everywhere
  MaxGuests,  \* MAX_GUESTS
  MaxPaid,    \* bound of the model: for how many periods one pays in advance
  Nobody,     \* the idnum 0
  None

HousesAssumption ==
  /\ Admin \subseteq Player /\ Nobody \notin Player
  /\ MaxGuests \in Nat /\ MaxGuests > 1 /\ MaxPaid \in Nat \ {0}
  /\ None \notin [0 .. MaxGuests - 1 -> Player \cup {Nobody}]

VARIABLES
  rec,      \* house_control_rec: owner, paid (periods left), num (num_of_guests)
            \* and guests
  ctl,      \* the control file: owner, paid and num of every room
  gfile,    \* the guests in the file of the room, None when there is no file
  isHouse,  \* ROOM_HOUSE
  wld,      \* ROOM_HOUSE in the world file
  exists,   \* who is in the player index
  up,       \* the game runs
  invited,  \* history: whom the tenant has put on the list and not taken off
  loose     \* history: a record with guests was taken over without them

leaseVars == <<rec, ctl, gfile, isHouse, wld, exists, up, invited, loose>>

Slot == 0 .. MaxGuests - 1
Guests == [Slot -> Player \cup {Nobody}]
NoGuests == [j \in Slot |-> Nobody]

Record  == [owner: Player \cup {Nobody}, paid: 0 .. MaxPaid, num: 0 .. MaxGuests, guests: Guests]
Control == [owner: Player \cup {Nobody}, paid: 0 .. MaxPaid, num: 0 .. MaxGuests]

HousesType ==
  /\ rec \in [Room -> Record] /\ ctl \in [Room -> Control]
  /\ gfile \in [Room -> Guests \cup {None}]
  /\ isHouse \in [Room -> BOOLEAN] /\ wld \in [Room -> BOOLEAN]
  /\ exists \in SUBSET Player /\ up \in BOOLEAN
  /\ invited \in [Room -> SUBSET Player] /\ loose \in [Room -> BOOLEAN]

Init ==
  /\ rec = [r \in Room |-> [owner |-> Nobody, paid |-> 0, num |-> 0, guests |-> NoGuests]]
  /\ ctl = [r \in Room |-> [owner |-> Nobody, paid |-> 0, num |-> 0]]
  /\ gfile = [r \in Room |-> None]
  /\ isHouse = [r \in Room |-> FALSE] /\ wld = [r \in Room |-> FALSE]
  /\ exists = Player /\ up = TRUE
  /\ invited = [r \in Room |-> {}] /\ loose = [r \in Room |-> FALSE]

-----------------------------------------------------------------------------
(***************************************************************************)
(* The two files.                                                          *)
(***************************************************************************)

\* House_save_control: of a room that is free the date is 0.
Controls(f) ==
  [r \in Room |-> [owner |-> f[r].owner, num |-> f[r].num,
                   paid |-> IF f[r].owner = Nobody THEN 0 ELSE f[r].paid]]

\* The [GUESTS] that House_save writes: all but the last.
Saved(h) == [j \in Slot |-> IF j < h.num - 1 THEN h.guests[j] ELSE Nobody]

\* One file, then the other: the program may be killed in between.
ControlThenFile(f, g) ==
  /\ ctl' = Controls(f)
  /\ \/ up' = TRUE /\ gfile' = g
     \/ up' = FALSE /\ UNCHANGED gfile
FileThenControl(f, g) ==
  /\ gfile' = g
  /\ \/ up' = TRUE /\ ctl' = Controls(f)
     \/ up' = FALSE /\ UNCHANGED ctl

\* House_crashsave
CrashSave(f, r) == [gfile EXCEPT ![r] = Saved(f[r])]

-----------------------------------------------------------------------------
(***************************************************************************)
(* The landlord.  What it costs is left out: a lease or a payment that     *)
(* cannot be paid for changes nothing.                                     *)
(***************************************************************************)
Lease(p, r) ==
  /\ up /\ p \in exists /\ rec[r].owner = Nobody
  /\ rec' = [rec EXCEPT ![r].owner = p, ![r].paid = 1]
  /\ isHouse' = [isHouse EXCEPT ![r] = TRUE]
  /\ FileThenControl(rec', CrashSave(rec', r))
  /\ invited' = [invited EXCEPT ![r] = {}]
  /\ UNCHANGED <<wld, exists, loose>>

Left(r) ==
  /\ rec' = [rec EXCEPT ![r].owner = Nobody, ![r].num = 0]
  /\ isHouse' = [isHouse EXCEPT ![r] = FALSE]
  /\ invited' = [invited EXCEPT ![r] = {}]
  /\ loose' = [loose EXCEPT ![r] = FALSE]
  /\ UNCHANGED <<wld, exists>>

Leave(p, r) ==
  /\ up /\ p \in exists /\ rec[r].owner = p
  /\ Left(r) /\ ControlThenFile(rec', [gfile EXCEPT ![r] = None])

\* hcontrol destroy, of any room of the landlords.
Destroy(r) ==
  /\ up
  /\ Left(r) /\ FileThenControl(rec', [gfile EXCEPT ![r] = None])

Pay(p, r) ==
  /\ up /\ p \in exists /\ rec[r].owner = p /\ rec[r].paid < MaxPaid
  /\ rec' = [rec EXCEPT ![r].paid = @ + 1] /\ ctl' = Controls(rec') /\ up' = up
  /\ UNCHANGED <<gfile, isHouse, wld, exists, invited, loose>>

-----------------------------------------------------------------------------
(***************************************************************************)
(* The list of guests.                                                     *)
(***************************************************************************)
Listed(h, q) == \E j \in Slot : j < h.num /\ h.guests[j] = q

\* Off the list: those behind q move up. Into the last place moves what lies behind
\* the array, which is beyond the number of guests and never looked at.
\* Mutant: the list is made shorter and nobody moves up.
Unlisted_Short(h, q) == [h EXCEPT !.num = @ - 1]
Unlisted(h, q) ==
  LET k == CHOOSE j \in Slot : h.guests[j] = q /\ \A i \in 0 .. j - 1 : h.guests[i] # q
  IN  [h EXCEPT !.num = @ - 1,
                !.guests = [j \in Slot |-> IF j < k \/ j >= h.num THEN @[j]
                                           ELSE IF j + 1 \in Slot THEN @[j + 1] ELSE Nobody]]

\* do_house: q goes off the list, or else onto it while there is room.
House(p, r, q) ==
  /\ up /\ {p, q} \subseteq exists /\ p # q /\ isHouse[r] /\ rec[r].owner = p
  /\ \/ /\ Listed(rec[r], q)
        /\ rec' = [rec EXCEPT ![r] = Unlisted(@, q)]
     \/ /\ ~Listed(rec[r], q) /\ rec[r].num < MaxGuests
        /\ rec' = [rec EXCEPT ![r].num = @ + 1, ![r].guests[rec[r].num] = q]
  /\ ControlThenFile(rec', CrashSave(rec', r))
  /\ invited' = [invited EXCEPT ![r] = IF ~Listed(rec[r], q) THEN @ \cup {q}
                                       ELSE IF up' THEN @ \ {q} ELSE @]
  /\ UNCHANGED <<isHouse, wld, exists, loose>>

\* House_list_guests: for everyone who is not in the index any more, as it
\* comes to him, the list is made shorter at its end.
Shown(h) ==
  LET num[j \in 0 .. MaxGuests] ==
        IF j = 0 THEN h.num
        ELSE IF j - 1 < num[j - 1] /\ h.guests[j - 1] \notin exists
             THEN num[j - 1] - 1 ELSE num[j - 1]
  IN  [h EXCEPT !.num = num[MaxGuests]]

ListGuests(p, r) ==
  /\ up /\ p \in exists /\ isHouse[r] /\ rec[r].owner = p
  /\ rec' = [rec EXCEPT ![r] = Shown(@)]
  /\ UNCHANGED <<ctl, gfile, isHouse, wld, exists, up, invited, loose>>

\* House_save_all, of a room that something was moved in or out of.
SaveRoom(r) ==
  /\ up /\ isHouse[r] /\ rec[r].owner # Nobody
  /\ gfile' = CrashSave(rec, r)
  /\ UNCHANGED <<rec, ctl, isHouse, wld, exists, up, invited, loose>>

\* do_decorate and the room editor write the flags of every room of the zone.
WriteWorld ==
  /\ up /\ wld' = isHouse
  /\ UNCHANGED <<rec, ctl, gfile, isHouse, exists, up, invited, loose>>

-----------------------------------------------------------------------------
(***************************************************************************)
(* Time, deletion, crash and boot.                                         *)
(***************************************************************************)
Period ==
  LET less(f) == [r \in Room |-> [f[r] EXCEPT !.paid = IF @ > 0 THEN @ - 1 ELSE 0]]
  IN  /\ rec' = less(rec) /\ ctl' = less(ctl)
      /\ UNCHANGED <<gfile, isHouse, wld, exists, up, invited, loose>>

Delete(p) ==
  /\ up /\ p \in exists \ Admin
  /\ exists' = exists \ {p}
  /\ UNCHANGED <<rec, ctl, gfile, isHouse, wld, up, invited, loose>>

\* The number of the player who was the last in the index is given to a new one.
NewPlayer(p) ==
  /\ up /\ p \notin exists
  /\ exists' = exists \cup {p}
  /\ UNCHANGED <<rec, ctl, gfile, isHouse, wld, up, invited, loose>>

Crash ==
  /\ up /\ up' = FALSE
  /\ UNCHANGED <<rec, ctl, gfile, isHouse, wld, exists, invited, loose>>

\* House_load: a number of 0 is replaced by the first free place, and by the
\* next when that is the first of all.
Counted(num, guests) ==
  LET n[j \in 0 .. MaxGuests] ==
        IF j = 0 THEN num
        ELSE IF guests[j - 1] = Nobody /\ n[j - 1] = 0 THEN j - 1 ELSE n[j - 1]
  IN  n[MaxGuests]

\* One room in House_boot.  The guests of a new record that are not read from a
\* file are what lay in the memory.
Lives(r) == ctl[r].owner \in exists /\ ctl[r].paid > 0
Booted(r, junk) ==
  IF Lives(r) /\ gfile[r] # None
  THEN [owner |-> ctl[r].owner, paid |-> ctl[r].paid, guests |-> gfile[r],
        num |-> Counted(ctl[r].num, gfile[r])]
  ELSE [owner |-> IF Lives(r) THEN ctl[r].owner ELSE Nobody, paid |-> ctl[r].paid,
        num |-> ctl[r].num, guests |-> junk]

Boot ==
  /\ ~up /\ up' = TRUE
  /\ \E junk \in Guests : rec' = [r \in Room |-> Booted(r, junk)]
  /\ ctl' = Controls(rec')
  /\ gfile' = [r \in Room |-> IF Lives(r) THEN gfile[r] ELSE None]
  /\ isHouse' = [r \in Room |-> wld[r] \/ Lives(r)]
  /\ invited' = [r \in Room |-> IF Lives(r) THEN invited[r] ELSE {}]
  /\ loose' = [r \in Room |-> loose[r] \/ ((~Lives(r) \/ gfile[r] = None) /\ ctl[r].num > 0)]
  /\ UNCHANGED <<wld, exists>>

Next ==
  \/ \E r \in Room :
       \/ Destroy(r) \/ SaveRoom(r)
       \/ \E p \in Player :
            \/ Lease(p, r) \/ Leave(p, r) \/ Pay(p, r) \/ ListGuests(p, r)
            \/ \E q \in Player : House(p, r, q)
  \/ WriteWorld \/ Period \/ Crash \/ Boot
  \/ \E p \in Player : Delete(p) \/ NewPlayer(p)

-----------------------------------------------------------------------------
(***************************************************************************)
(* What must hold.                                                         *)
(***************************************************************************)

\* House_can_enter
CanEnter(p, r) == p \in Admin \/ p = rec[r].owner \/ Listed(rec[r], p)

\* Nobody walks into a leased room whom the tenant has not put on the list, or
\* has taken off: not after the guests were shown, saved, lost and read again, a
\* crash between the two files, or the end of an earlier lease.  But where a
\* record was taken over with a number of guests and without the guests, the
\* list is whatever lay in the memory.
NoStrangers ==
  \A r \in Room, p \in Player :
    up /\ rec[r].owner # Nobody /\ ~loose[r] /\ CanEnter(p, r) =>
      p \in Admin \cup {rec[r].owner} \cup invited[r]

\* Every leased room is closed to others (ROOM_HOUSE), and its record is in the
\* control file, so that no crash ends or moves a lease.
LeaseKept ==
  up => \A r \in Room :
          /\ rec[r].owner # Nobody => isHouse[r]
          /\ ctl[r].owner = rec[r].owner
          /\ rec[r].owner # Nobody => ctl[r].paid = rec[r].paid

LeasesSound == HousesType /\ NoStrangers /\ LeaseKept
=============================================================================
