------------------------------- MODULE Phones -------------------------------
(***************************************************************************)
(* The telephones of act.comm.cpp and the commlinks of deckers.  A phone   *)
(* that is switched on has a record on phone_list, and so has everybody in *)
(* the matrix; a call is two records that point at each other.  Records    *)
(* are made by the command, by the loading of players, of houses and of    *)
(* vehicles, and by jacking in; they go with the phone or with the icon.   *)
(*                                                                         *)
(* A record is named by its phone, or by its decker.  Whom a ring reaches  *)
(* is the first record with the number, so the order of the list is kept.  *)
(***************************************************************************)
EXTENDS Naturals, SequencesExt

CONSTANTS
  Phone,     (* the phones of players                                        *)
  Fixed,     (* the phones that lie in houses and parked vehicles            *)
  Decker,
  Number,    (* the number a phone has when it is switched on, "%04d%04d", a *)
             (* decker's jackpoint has                                       *)
  Short,     (* the number a phone has when its house is loaded, "%d%d"      *)
  NULL

Record == Phone \cup Fixed \cup Decker

PhonesAssumption ==
  /\ Phone \cap Fixed = {} /\ (Phone \cup Fixed) \cap Decker = {} /\ NULL \notin Record

VARIABLES
  up,          (* has the boot loaded all houses and vehicles?               *)
  phone_list,  (* the records, the newest first                              *)
  number, dest, connected,
  switched,    (* value 2 of the phones (value 7 of implanted ones)          *)
  here,        (* the phones in the world, the deckers in the matrix         *)
  ghost,       (* history: listed records whose icon has been freed          *)
  broken       (* history: where the code follows a null or freed pointer    *)

vars == <<up, phone_list, number, dest, connected, switched, here, ghost, broken>>
calls == <<dest, connected>>
lists == <<phone_list, number>>

Listed == ToSet(phone_list)

\* The first record with this number.
Called(n) == {phone_list[i] : i \in {i \in DOMAIN phone_list :
                /\ number[phone_list[i]] = n
                /\ \A j \in 1 .. (i - 1) : number[phone_list[j]] # n}}

-----------------------------------------------------------------------------
\* A new record at the head of the list.
Enlist(r, n) ==
  /\ phone_list' = <<r>> \o phone_list
  /\ number' = [number EXCEPT ![r] = n]
  /\ dest' = [dest EXCEPT ![r] = NULL]
  /\ connected' = [connected EXCEPT ![r] = FALSE]

\* Both sides of r's call are idle again.
\* Mutant: the other side is left as it is.
Ended_Here(r) == {r}
Ended(r) == {r, dest[r]}

EndCall(r) ==
  /\ dest' = [k \in Record |-> IF k \in Ended(r) THEN NULL ELSE dest[k]]
  /\ connected' = [k \in Record |-> IF k \in Ended(r) THEN FALSE ELSE connected[k]]

\* Every message to the other side asks its persona first.
Reaches(r) == broken' = IF dest[r] \in ghost THEN "freed" ELSE broken

\* REMOVE_FROM_LIST
Without(r) == RemoveAt(phone_list, CHOOSE i \in DOMAIN phone_list : phone_list[i] = r)

\* The record goes, and the call with it.
Unlist(r) ==
  /\ phone_list' = Without(r)
  /\ EndCall(r) /\ Reaches(r)
  /\ UNCHANGED number

-----------------------------------------------------------------------------
\* House_load and the vehicles: no second record with the number.
LoadHouse(p) ==
  /\ ~up /\ p \notin here
  /\ here' = here \cup {p}
  /\ IF switched[p] /\ \A r \in Listed : number[r] # Short[p]
     THEN Enlist(p, Short[p])
     ELSE UNCHANGED <<lists, calls>>
  /\ UNCHANGED <<up, switched, ghost, broken>>

Boot == /\ ~up /\ Fixed \subseteq here
        /\ up' = TRUE
        /\ UNCHANGED <<lists, calls, switched, here, ghost, broken>>

\* load_char, when the player enters the game.
LoadPlayer(p) ==
  /\ up /\ p \in Phone \ here
  /\ here' = here \cup {p}
  /\ IF switched[p] THEN Enlist(p, Number[p]) ELSE UNCHANGED <<lists, calls>>
  /\ UNCHANGED <<up, switched, ghost, broken>>

\* extract_obj: the phone is destroyed, or its owner leaves with it.
extract_obj(p) ==
  /\ up /\ p \in here \cap Phone
  /\ here' = here \ {p}
  /\ IF p \in Listed THEN Unlist(p) ELSE UNCHANGED <<lists, calls, broken>>
  /\ UNCHANGED <<up, switched, ghost>>

\* do_connect.
do_connect(c) ==
  /\ up /\ c \in Decker \ (here \cup ghost)
  /\ here' = here \cup {c}
  /\ Enlist(c, Number[c])
  /\ UNCHANGED <<up, switched, ghost, broken>>

\* extract_icon looks at the persona of the head of the list only.
extract_icon(c) ==
  /\ up /\ c \in here \cap Decker
  /\ here' = here \ {c}
  /\ IF Head(phone_list) = c
     THEN Unlist(c) /\ UNCHANGED ghost
     ELSE ghost' = ghost \cup {c} /\ UNCHANGED <<lists, calls, broken>>
  /\ UNCHANGED <<up, switched>>

-----------------------------------------------------------------------------
\* Who can give commands to the record r: the holder of its phone, or its decker.
Holds(r) == up /\ r \in here

\* "phone on", "phone off"; a phone whose house found its number taken has no record.
SwitchOn(p) ==
  /\ Holds(p) /\ p \notin Decker /\ ~switched[p]
  /\ switched' = [switched EXCEPT ![p] = TRUE]
  /\ Enlist(p, Number[p])
  /\ UNCHANGED <<up, here, ghost, broken>>

SwitchOff(p) ==
  /\ Holds(p) /\ p \notin Decker /\ switched[p] /\ (p \in Listed => dest[p] = NULL)
  /\ switched' = [switched EXCEPT ![p] = FALSE]
  /\ IF p \in Listed
     THEN phone_list' = Without(p) /\ UNCHANGED broken
     ELSE broken' = "null" /\ UNCHANGED phone_list
  /\ UNCHANGED <<up, number, calls, here, ghost>>

Ring(r, k) ==
  /\ dest' = [dest EXCEPT ![r] = k, ![k] = r]
  /\ connected' = [connected EXCEPT ![r] = TRUE]
  /\ UNCHANGED <<up, lists, switched, here, ghost>>

\* "call <number>".
Call(p) ==
  /\ Holds(p) /\ p \notin Decker /\ p \in Listed /\ dest[p] = NULL
  /\ \E n \in {number[r] : r \in Listed} : \E k \in Called(n) \ {p} :
       /\ dest[k] = NULL
       /\ Ring(p, k)
       /\ broken' = IF k \in ghost THEN "freed" ELSE broken

\* The commlink of a decker looks for a free line on his grid, and not at his own line.
do_comcall(c) ==
  /\ Holds(c) /\ c \in Decker
  /\ \E k \in Listed \ {c} :
       /\ dest[k] = NULL
       /\ Ring(c, k)
       /\ broken' = IF k \in ghost THEN "freed" ELSE IF dest[c] # NULL THEN "crossed" ELSE broken

Answer(r) ==
  /\ Holds(r) /\ r \in Listed /\ ~connected[r] /\ dest[r] # NULL
  /\ connected' = [connected EXCEPT ![r] = TRUE, ![dest[r]] = TRUE]
  /\ Reaches(r)
  /\ UNCHANGED <<up, lists, dest, switched, here, ghost>>

HangUp(r) ==
  /\ Holds(r) /\ r \in Listed /\ dest[r] # NULL
  /\ EndCall(r) /\ Reaches(r)
  /\ UNCHANGED <<up, lists, switched, here, ghost>>

\* phone_check rings every phone that waits for an answer.
phone_check ==
  /\ \E k \in Listed \cap ghost : dest[k] # NULL /\ ~connected[k]
  /\ broken' = "freed"
  /\ UNCHANGED <<up, lists, calls, switched, here, ghost>>

-----------------------------------------------------------------------------
Init ==
  /\ up = FALSE /\ phone_list = <<>> /\ number = Number
  /\ dest = [r \in Record |-> NULL] /\ connected = [r \in Record |-> FALSE]
  /\ switched \in [Phone \cup Fixed -> BOOLEAN]
  /\ here = {} /\ ghost = {} /\ broken = ""

\* The process does not get past such a pointer.
Halted == broken # "" /\ UNCHANGED <<up, lists, calls, switched, here, ghost, broken>>

Works ==
  /\ broken = ""
  /\ \/ \E p \in Fixed : LoadHouse(p)
     \/ \E p \in Phone : LoadPlayer(p) \/ extract_obj(p)
     \/ \E c \in Decker : do_connect(c) \/ extract_icon(c) \/ do_comcall(c)
     \/ \E p \in Phone \cup Fixed : SwitchOn(p) \/ SwitchOff(p) \/ Call(p)
     \/ \E r \in Record : Answer(r) \/ HangUp(r)
     \/ Boot \/ phone_check

Next == Works \/ Halted

-----------------------------------------------------------------------------
\* phone_list and the calls: a record once, of a phone that is on and in the world or of a
\* decker (or of one whose record extract_icon has missed); whoever calls or is called is on
\* the list, and his partner's call is the same one; nobody is connected to nobody, which
\* talking would follow.
PhonesSound ==
  broken = "" =>
    /\ \A r \in Listed : r \in here \cup ghost /\ (r \notin Decker => switched[r])
    /\ \A i, j \in DOMAIN phone_list : i # j => phone_list[i] # phone_list[j]
    /\ \A r \in Listed : dest[r] # NULL => dest[r] \in Listed \ {r} /\ dest[dest[r]] = r
    /\ \A r \in Listed : connected[r] => dest[r] # NULL
    /\ \A p \in here : p \in Decker \cup Phone /\ (p \in Phone => switched[p]) => p \in Listed
=============================================================================
