------------------------------- MODULE Taxis -------------------------------
(***************************************************************************)
(* The cabs of transport.cpp.  A cab is a room with a driver in it; it     *)
(* stops in a street by making a pair of exits, and closes its door when a *)
(* passenger has paid or when it has been found empty.  The driver keeps a *)
(* list of the passengers he remembers, one state and one destination; he  *)
(* answers in mobile_activity, between the commands of the players.        *)
(*                                                                         *)
(* What a ride costs is a choice: a passenger has the nuyen or has not.    *)
(***************************************************************************)
EXTENDS Naturals

CONSTANTS
  Cab,       (* the rooms FIRST_CAB .. LAST_CAB, by number                    *)
  Street,    (* rooms where cabs stop; every one of them is a destination     *)
  Way,       (* the directions north .. northwest                             *)
  Rev,       (* rev_dir                                                       *)
  Taken,     (* directions that an exit of the street's own has taken         *)
  Rider,
  Most,      (* bound on how long a ride takes, in rounds of the driver       *)
  None

CabsAssumption ==
  /\ Cab \subseteq Nat /\ Cab \cap Street = {} /\ None \notin Cab \cup Street
  /\ Rev \in [Way -> Way] /\ \A w \in Way : Rev[Rev[w]] = w
  /\ Most \in Nat

VARIABLES
  exit,      (* the exit of a street in a direction: a cab, or None           *)
  door,      (* the exit of a cab: a street, or None                          *)
  active,    (* GET_ACTIVE of the driver                                      *)
  spare1,    (* the time a ride still takes                                   *)
  spare2,    (* the destination agreed on                                     *)
  memory,    (* whom the driver remembers                                     *)
  in,        (* where a rider is: a street, a cab, or None                    *)
  paid,      (* history: the cab and the destination a rider has paid for     *)
  hailed,    (* history: cabs that opened a door while their drivers drove    *)
  broken     (* history: where the code hangs, or a door is lost              *)

vars == <<exit, door, active, spare1, spare2, memory, in, paid, hailed, broken>>
roads == <<exit, door, hailed>>
driver == <<active, spare1, spare2, memory>>

Aboard(c) == {p \in Rider : in[p] = c}

Doorless(c) == \A w \in Way : door[c][w] = None
Free(r) == {w \in Way \ Taken[r] : exit[r][w] = None}

-----------------------------------------------------------------------------
\* Both exits are made, over whatever was there.
open_taxi_door(r, w, c) ==
  /\ exit' = [exit EXCEPT ![r][w] = c]
  /\ door' = [door EXCEPT ![c][Rev[w]] = r]
  /\ broken' = IF door[c][Rev[w]] = None THEN broken ELSE "lost"

\* Mutant: the street keeps its half of the door.
close_taxi_doors_Half(c) ==
  /\ exit' = exit
  /\ door' = [door EXCEPT ![c] = [w \in Way |-> None]]
  /\ hailed' = hailed \ {c}
  /\ UNCHANGED broken

\* Every door of a cab, each with its half in the street.
close_taxi_doors(c) ==
  /\ exit' = [r \in Street |-> [w \in Way |-> IF exit[r][w] = c /\ door[c][Rev[w]] = r THEN None ELSE exit[r][w]]]
  /\ door' = [door EXCEPT ![c] = [w \in Way |-> None]]
  /\ hailed' = hailed \ {c}
  /\ broken' = IF \A w \in Way : door[c][w] # None => exit[door[c][w]][Rev[w]] = c THEN broken ELSE "null"

-----------------------------------------------------------------------------
\* The first cab without passengers and without a door stops; what its driver
\* has in mind is not asked.
do_hail(p) ==
  /\ in[p] \in Street /\ Free(in[p]) # {}
  /\ \E c \in Cab :
       /\ Aboard(c) = {} /\ Doorless(c)
       /\ \A b \in Cab : b < c => ~(Aboard(b) = {} /\ Doorless(b))
       /\ \E w \in Free(in[p]) : open_taxi_door(in[p], w, c)
       /\ hailed' = IF active[c] = "DRIVING" THEN hailed \cup {c} ELSE hailed
  /\ UNCHANGED <<driver, in, paid>>

\* taxi_leaves: an empty cab closes its doors, whatever its driver has in mind.
taxi_leaves(c) ==
  /\ Aboard(c) = {} /\ ~Doorless(c)
  /\ close_taxi_doors(c)
  /\ UNCHANGED <<driver, in, paid>>

\* A direction is a command to the driver first: he forgets who turns to go,
\* whether there is a way or not.
Walk(p, w) ==
  \/ /\ in[p] \in Street /\ exit[in[p]][w] # None
     /\ in' = [in EXCEPT ![p] = exit[in[p]][w]]
     /\ UNCHANGED <<roads, driver, paid, broken>>
  \/ /\ in[p] \in Cab
     /\ memory' = IF active[in[p]] = "DRIVING" THEN memory ELSE [memory EXCEPT ![in[p]] = @ \ {p}]
     /\ in' = IF door[in[p]][w] = None THEN in ELSE [in EXCEPT ![p] = door[in[p]][w]]
     /\ paid' = IF door[in[p]][w] = None THEN paid ELSE [paid EXCEPT ![p] = None]
     /\ UNCHANGED <<roads, active, spare1, spare2, broken>>

\* "say <destination>", to a driver who awaits one from somebody new.
SayDestination(p, r) ==
  LET c == in[p] IN
  /\ c \in Cab /\ active[c] = "AWAIT_CMD" /\ p \notin memory[c]
  /\ active' = [active EXCEPT ![c] = "REPLY_DEST"]
  /\ spare2' = [spare2 EXCEPT ![c] = r]
  /\ \E cost \in 1 .. Most : spare1' = [spare1 EXCEPT ![c] = cost]
  /\ memory' = [memory EXCEPT ![c] = @ \cup {p}]
  /\ UNCHANGED <<roads, in, paid, broken>>

\* The answer of somebody the driver remembers, or did when he last looked.
Answers(p) == in[p] \in Cab /\ active[in[p]] = "AWAIT_YESNO" /\ p \in memory[in[p]]

SayYes(p) ==
  LET c == in[p] IN
  /\ Answers(p)
  /\ \/ /\ active' = [active EXCEPT ![c] = "REPLY_NOTOK"]
        /\ UNCHANGED <<roads, paid, broken>>
     \/ /\ active' = [active EXCEPT ![c] = "DRIVING"]
        /\ paid' = [paid EXCEPT ![p] = <<c, spare2[c]>>]
        /\ close_taxi_doors(c)
  /\ UNCHANGED <<spare1, spare2, memory, in>>

SayNo(p) ==
  /\ Answers(p)
  /\ active' = [active EXCEPT ![in[p]] = "REPLY_TOOBAD"]
  /\ UNCHANGED <<roads, spare1, spare2, memory, in, paid, broken>>

-----------------------------------------------------------------------------
(* The driver's turn in mobile_activity.                                    *)

Known(c) == Aboard(c) \cap memory[c]

\* Nobody he remembers is there.
Waits(c) ==
  /\ Known(c) = {}
  /\ active' = [active EXCEPT ![c] = "AWAIT_CMD"]
  /\ spare1' = [spare1 EXCEPT ![c] = 0] /\ spare2' = [spare2 EXCEPT ![c] = None]
  /\ UNCHANGED <<roads, memory, paid, broken>>

Asks(c) ==
  /\ Known(c) # {} /\ active[c] = "REPLY_DEST"
  /\ active' = [active EXCEPT ![c] = "AWAIT_YESNO"]
  /\ UNCHANGED <<roads, spare1, spare2, memory, paid, broken>>

Refuses(c) ==
  /\ active[c] \in {"REPLY_NOTOK", "REPLY_TOOBAD"}
  /\ \E p \in Known(c) : memory' = [memory EXCEPT ![c] = @ \ {p}]
  /\ active' = [active EXCEPT ![c] = "AWAIT_CMD"]
  /\ spare1' = [spare1 EXCEPT ![c] = 0] /\ spare2' = [spare2 EXCEPT ![c] = None]
  /\ UNCHANGED <<roads, paid, broken>>

Drives(c) ==
  /\ Known(c) # {} /\ active[c] = "DRIVING" /\ spare1[c] > 0
  /\ spare1' = [spare1 EXCEPT ![c] = @ - 1]
  /\ UNCHANGED <<roads, active, spare2, memory, paid, broken>>

\* The loop that looks for a free direction has no end when there is none.
Stops(c) ==
  /\ active[c] = "DRIVING" /\ spare1[c] = 0
  /\ \E p \in Known(c) : memory' = [memory EXCEPT ![c] = @ \ {p}]
  /\ active' = [active EXCEPT ![c] = "AWAIT_CMD"]
  /\ spare2' = [spare2 EXCEPT ![c] = None] /\ UNCHANGED spare1
  /\ paid' = [p \in Rider |-> IF paid[p] = <<c, spare2[c]>> /\ in[p] = c THEN None ELSE paid[p]]
  /\ IF Free(spare2[c]) = {}
     THEN broken' = "hangs" /\ UNCHANGED roads
     ELSE (\E w \in Free(spare2[c]) : open_taxi_door(spare2[c], w, c)) /\ UNCHANGED hailed

taxi(c) == (Waits(c) \/ Asks(c) \/ Refuses(c) \/ Drives(c) \/ Stops(c)) /\ UNCHANGED in

-----------------------------------------------------------------------------
\* A passenger quits, dies or is taken away; comes back, or comes into a street.
Leave(p) ==
  /\ in[p] # None
  /\ in' = [in EXCEPT ![p] = None] /\ paid' = [paid EXCEPT ![p] = None]
  /\ UNCHANGED <<roads, driver, broken>>

Arrive(p) ==
  /\ in[p] = None
  /\ \E r \in Street : in' = [in EXCEPT ![p] = r]
  /\ UNCHANGED <<roads, driver, paid, broken>>

Init ==
  /\ exit = [r \in Street |-> [w \in Way |-> None]]
  /\ door = [c \in Cab |-> [w \in Way |-> None]]
  /\ active = [c \in Cab |-> "AWAIT_CMD"]
  /\ spare1 = [c \in Cab |-> 0] /\ spare2 = [c \in Cab |-> None]
  /\ memory = [c \in Cab |-> {}]
  /\ in = [p \in Rider |-> None] /\ paid = [p \in Rider |-> None]
  /\ hailed = {} /\ broken = ""

Speaks(p) == SayYes(p) \/ SayNo(p) \/ \E r \in Street : SayDestination(p, r)

Next ==
  /\ broken = ""
  /\ \/ \E p \in Rider : do_hail(p) \/ Speaks(p) \/ Leave(p) \/ Arrive(p) \/ \E w \in Way : Walk(p, w)
     \/ \E c \in Cab : taxi_leaves(c) \/ taxi(c)

\* mobile_activity gives every driver his turn, whatever the players do.
Turn(c) == broken = "" /\ taxi(c)

-----------------------------------------------------------------------------
TypeOK ==
  /\ exit \in [Street -> [Way -> Cab \cup {None}]]
  /\ door \in [Cab -> [Way -> Street \cup {None}]]
  /\ active \in [Cab -> {"AWAIT_CMD", "REPLY_DEST", "AWAIT_YESNO", "REPLY_NOTOK", "REPLY_TOOBAD", "DRIVING"}]
  /\ spare1 \in [Cab -> 0 .. Most] /\ spare2 \in [Cab -> Street \cup {None}]
  /\ memory \in [Cab -> SUBSET Rider]
  /\ in \in [Rider -> Street \cup Cab \cup {None}]

\* open_taxi_door and close_taxi_door: the two halves of a door lead to each other.
HalvesMeet ==
  \A c \in Cab, r \in Street, w \in Way : door[c][Rev[w]] = r <=> exit[r][w] = c

\* A driver who drives knows where to, and who has paid him and stays aboard is
\* being driven there, whatever other passengers say, do and remember.
RidePaid ==
  \A p \in Rider : paid[p] # None =>
    LET c == in[p] IN paid[p] = <<c, spare2[c]>> /\ active[c] = "DRIVING" /\ p \in memory[c]

\* A cab has one door at most, and none on the way, whoever hails, speaks, gets in and
\* out; but for a cab that was empty when somebody hailed it while its driver drove.
OneDoor ==
  \A c \in Cab \ hailed :
    /\ \A v, w \in Way : door[c][v] # None /\ door[c][w] # None => v = w
    /\ active[c] = "DRIVING" => Doorless(c)

\* Only such a cab ever gets a door over another one, and no half is closed alone.
CabsSound ==
  /\ broken = "" => TypeOK /\ HalvesMeet /\ OneDoor /\ RidePaid
  /\ broken # "null"
  /\ broken = "lost" => hailed # {}

\* Who has paid gets out at the destination, or leaves the cab by another way.
PaidArrives == \A p \in Rider : paid[p] # None ~> (paid[p] = None \/ broken # "")
=============================================================================
