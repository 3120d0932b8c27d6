# AwakeMUD in TLA+

Models, model-checking runs and proofs about the game server in `src/src/`
(C++, derived from CircleMUD 3).  The server is one process with one thread: a
`select` loop (`game_loop`, comm.cpp) that accepts connections, reads input,
serves one line of every connection, writes output, and calls `heartbeat` for
everything that happens by the clock.  The repository has no tests.  There is
no data race to find; what is hard here is *long sequences of legal steps by
several players over shared, hand-maintained pointers*: lists walked with a
cached next pointer while the handler unlinks the next element, back pointers
kept by hand, files rewritten in several writes.

## 1. Inventory

| part | source | state | operations | hard behaviour |
|---|---|---|---|---|
| main loop, descriptors | comm.cpp | `descriptor_list`, `d->connected`, `character`, `original`, `snooping`, `snoop_by` | accept, read, serve, write, close, copyover | a handler closes the descriptor the sweep has cached; lost links at any point |
| login and menus | interpreter.cpp, class.cpp | `STATE(d)`, the half-created character | `nanny`, `perform_dupe_check` | several connections of one player at different prompts; create and delete races |
| switching, snooping, dc, purge | act.wizard.cpp | `ch->desc`, `d->original`, snoop pairs | `do_switch`, `do_return`, `do_snoop`, `do_dc`, `do_purge` | the original dies, is occupied or is logged into meanwhile |
| quit, rent, project, idle, death | act.other.cpp, spec_procs.cpp, limits.cpp, fight.cpp, handler.cpp | `character_list`, cells | `do_quit`, `extract_char`, `check_idling`, `die` | extraction returns other players and closes other sockets |
| cell pools | memory.cpp | stacks of free cells | `GetCh`, `DeleteCh`, `ClearCh` | use of a cell given back |
| player index | newdb.cpp, newdb.h | a table sorted by idnum, its file | `LoadChar`, `SaveChar`, `CreateChar`, `DeleteChar`, `clear_by_time` | idnums reused after a deletion; index -1; a crash during `Save` |
| mail | mail.cpp | blocks of a file, free list, index by recipient | `store_mail`, `read_delete`, `scan_file` | a crash between two block writes; blocks shared by two letters |
| table lookups | db.cpp, act.social.cpp, newdb.cpp | tables sorted by number | `real_room` ... `real_host`, `find_action`, `get_idx_by_id` | a dozen copies of one loop, each with its own ends |
| output and input buffers | comm.cpp | small and large output buffers, pool, input queue | `write_to_output`, `process_output`, `process_input` | overflow, partial writes |
| string editor, OLC editors | modify.cpp, olc.cpp, *edit.cpp | `d->str`, `d->edit_*` copies, cursors into them | `string_add`, `*_parse` | a menu keeps a pointer into a copy that other menus change; a link lost in the middle |
| character creation | class.cpp | `d->ccr`, the new character | `create_parse` | priorities set, moved and cleared in any order |
| boards | boards.cpp | `msg_index`, `msg_storage`, the boards' files | `Board_write_message`, `Board_remove_msg`, save, load | a message is removed while its text is being written |
| quests | quest.cpp, qedit.cpp | `quest_table`, a johnson's offer and memory, `GET_QUEST` | `johnson`, `check_quest_*`, `end_quest` | the offer changes between question and answer; runs that outlive their johnson |
| shops | shop.cpp | the keeper's objects, till, account, `SHOP_SORT` | `shopping_*`, `sort_keeper_objs` | prices without a bound, objects that leave uncounted |
| phones | act.comm.cpp, newmatrix.cpp | `phone_list`, `dest`, `connected` | `do_phone`, `do_comcall`, `extract_icon` | two calls cross; one side is extracted |
| fights | fight.cpp | `combat_list`, `next_combat_list`, `FIGHTING` | `set_fighting`, `stop_fighting`, `perform_violence` | a fighter dies while the list is walked |
| objects | handler.cpp, act.obj.cpp | carried, worn, contained, in a room, in a vehicle | `obj_to_*`, `obj_from_*`, `extract_obj` | an object in two places; weight that drifts |
| sustained spells | newmagic.cpp, handler.cpp | `ch->affected` on the victim's and the caster's side, `GET_SUSTAINED`, the light of rooms | `do_cast`, `sustain_spell`, `do_release`, `affect_remove`, `affect_update` | the two sides find each other by a number that others share; removals inside a walk |
| online creation | olc.cpp, redit.cpp, iedit.cpp, medit.cpp, vedit.cpp, zedit.cpp | tables sorted by vnum, everything that keeps a place in them | `redit_parse` and its likes, `do_rdelete`, `do_dig` | every stored rnum has to be renumbered by hand |
| vehicles | act.drive.cpp, act.movement.cpp, fight.cpp, handler.cpp | people and seats, driver, rigger, chases, subscriber lists | `do_drive`, `do_control`, `do_chase`, `move_vehicle`, `process_autonav`, `chkdmg` | `move_vehicle` calls itself over lists it changes; drivers and riggers who leave |
| transports | transport.cpp | state of elevators, cabs and trains | call, move, open, close | a caller who waits for ever; a second pair of doors |
| houses and their contents | house.cpp, limits.cpp, db.cpp, newdb.cpp | `house_control`, the guests, `ROOM_HOUSE`; lists of things with their depths | `landlord_spec`, `do_house`, `hcontrol_*`, `House_crashsave`, `House_boot`, the four writers and five readers of things | one record in two files, a crash between them; containment rebuilt from depths |
| matrix | newmatrix.cpp | hosts, icons and programs | commands and heartbeat updates | owners who leave while they are pointed at |
| world, zones, mobiles | db.cpp, mobact.cpp | prototypes, counts, reset commands | boot, `reset_zone` | counts that drift from the instances |

`PROJECT.json` lists every part with what is modelled of it, and every hazard
with its line.

What makes each part correct:

- *Sessions*: descriptors and bodies point at each other and at live cells, a
  player has one body and one session, nobody lands in another player's body,
  snoop links are paired and run in no circle, what is told to close is closed.
- *Table lookups*: each loop finds the slot of a number that is there, says -1
  otherwise, ends, and its answer depends on no slot outside its table.
- *Player index*: the table stays sorted by number, so that its binary search
  works; it never outgrows its slots; the file agrees with it whenever nothing
  waits to be saved.
- *Mail*: a block belongs to one letter or to the free list; each letter reaches
  its addressee whole, once, in order.
- *Fights*: `combat_list` holds exactly those who fight, nobody attacks somebody
  who is gone, and the round passes nobody over and ends.
- *Objects*: containment is a forest, each object is in one place, and the
  weights and counts kept beside it are the sums of what they count.
- *Sustained spells*: nobody sustains more than his sorcery allows, nobody pays
  for a spell that is over, none works unpaid while its caster's own entries are
  left alone, and the light of a room has a source.
- *Online creation*: every place in a table that is kept anywhere names what it
  named when it was stored, whatever is inserted and deleted since.
- *Vehicles*: everybody is in one place and no vehicle holds more people than it
  has seats; a vehicle lists exactly those that chase it; a rigger and what he
  rigs point at each other; a vehicle on its way by autonav that is left empty is stopped.
- *Editors*: a prompt writes to something that is there, a saved copy is whole,
  some answer leads on from each prompt, and the flags say who is busy.
- *Character creation*: five settings are paid for with five priorities.
- *Boards*: under a headline is its own text, and a reboot loses no post.
- *Quests*: nothing of a run outlives it, and whoever is on one can end it.
- *Shops*: no customer owes anything, and trade makes no nuyen.
- *Phones*: `dest` is symmetric, and names nobody who is not on the list.
- *Houses*: only the owner and those he asked in enter, no crash ends or moves a lease, and
  what lies in a house, a vehicle or a pocket comes back inside what it lay in.
- *Transports*: doors are pairs of exits where the car stands, one pair of them, and whoever is on
  the way gets there.

## 2. Modules

| module | models | status |
|---|---|---|
| `Sessions` | descriptors, characters, originals, snooping; login, commands, heartbeat and main loop | modelled |
| `SessionsProofs` | types, paired snooping and the duplicate check, for all constants | proved |
| `TableSearch` | the four kinds of binary search, turn by turn | modelled |
| `TableSearchProofs` | right answers, and which reads leave the table, for tables of any length; the doors of elevators and cabs | proved |
| `PlayerIndex` | the table of players, its file, the players' files, boots and crashes | modelled |
| `Houses` | the landlords' records, the guests, the two files they are in | modelled |
| `Belongings` | how things in things are written with their depths and built again | modelled |
| `PlayerIndexProofs` | types, order, size and agreement of the index with its file; leases | proved |
| `MailSpec` | the post office a player sees: boxes of letters and a counter | abstract specification |
| `Mail` | the file of blocks, free list and index, write by write, with crashes | modelled; implements `MailSpec` |
| `MailProofs` | types, free list, index, chains, and that everyone gets his own letter | proved |
| `Combat` | `combat_list`, its cursor, and everything that joins, leaves or moves a fight | modelled |
| `CombatProofs` | types, the exact list, sound foes, shrinking rounds, for all constants | proved |
| `Objects` | the lists of things, their weights and counters, and the commands between them | modelled |
| `Magic` | sustained spells on both sides, their counts, the light they make | modelled |
| `Olc` | rooms, prototypes and zone commands under insertion and deletion | modelled |
| `OlcProofs` | sorted tables, exits, instances, commands and people under insertion, for all constants and all scenes that leave alone what the editors forget | proved |
| `Vehicles` | seats, drivers, riggers, chases as a stack of calls, the autonav, wrecks | modelled |
| `VehiclesProofs` | types, seats, chases and remote control, for all constants | proved |
| `Editors` | the prompts of the fourteen editors, the copy they work on, the string editor | modelled |
| `EditorsProofs` | whole copies and true flags; priorities paid once, boards, runs, and calls, in every scene of `MCEditors` | proved |
| `Creation` | the questions of character creation, priorities and what they pay for | modelled |
| `Boards` | boards, the table of texts, their files | modelled |
| `Quests` | johnsons, runs and their targets | modelled |
| `Shops` | a keeper, his stock, till and account, his customers | modelled |
| `Phones` | `phone_list` and the calls, commlinks included | modelled |
| `Elevators`, `Taxis` | the two transports that answer players | modelled |
| `MCEnds`, `MCEditors`, `MCPlayerIndex`, `MCObjects` | small machines side by side, each in its scenes | |
| other `MC*` | the instances for TLC | |

`PlayerIndex` stands on `TableSearch`: it takes `IdxById` as "the slot with
this number, if any", which is what `TableSearchProofs` shows of the loop on a
sorted table, and `PlayerIndexProofs` shows that the table is sorted.
`Sessions` sees the index as a set of records with `find_open_id` and the
search by name: the part of `PlayerIndex` that logins observe while the process
runs.

`Olc` takes `RealIn` as "the slot with this number, if any" on the same ground:
its type invariant says that the tables stay sorted.  The modules share no
variables: each has the part of a character it needs, and what the others do to
that part (death, quitting, walking) is an action of its own in each.
`MCEnds`, `MCEditors`, `MCPlayerIndex` and `MCObjects` instantiate several modules, with
`INSTANCE`, and a scene picks the one that moves.  What they instantiate them with are
constants of their own wherever a theorem is about them, so that it holds for any players,
boards, quests, telephones, floors, streets and rooms.

## 3. Sessions

`game` is one record holding the tables every handler rewrites; an operator
from games to games stands for a C++ function (`CloseSocket`, `DoReturn`,
`ExtractChar`, `DupeCheck`, ...), and an action is a composition of them plus
the position of the main loop.

| variable | code |
|---|---|
| `game.state[d]` | `d->connected`; `"FREE"`: no such descriptor. The editors up to `CON_ZEDIT` are `"EDITING"`, the three later ones `"LATE_EDITING"` |
| `game.character`, `original`, `snooping`, `snoop_by` | the fields of `descriptor_data` |
| `game.desc`, `name`, `idnum`, `npc` | the fields of `char_data`; a mobile has `MobLevel`, whatever its builder wrote |
| `game.chars`, `alloc` | `character_list`, the cells not in the pool |
| `game.db` | the player index, as a set of (name, idnum) |
| `before` | the order of `descriptor_list` |
| `phase`, `cursor` | where `game_loop` is, and the `next_d` it has cached |
| `login` | history: the name whose password a connection has given |
| `scenario` | which commands a behaviour uses and who may give which name; fixed at the start |

A handler runs to its end (one thread), so one action is one line of input
served, one heartbeat event, or one turn of a sweep.  The command sweep serves
`cursor` and moves it to the descriptor after it *before* the handler runs,
which is how a handler can delete the descriptor that is served next.  A path
on which the code dereferences a null or deleted pointer goes to the phase
`"crashed"`, where nothing more happens; the invariants are checked there too,
as the comment of `UseFreedDescriptor` says of one such path.

`do_snoop` compares the level of the victim's *player* with that of the *body* the snooper is
in, and `do_switch` compares no levels at all.  So three administrators cannot close a circle
by the levels, switch and return as they may, unless one of them begins to snoop from a mobile
of a high level: then the circle closes, and a line that is written to one of them goes round
for ever.  `MCSessions` keeps the history `lent` (who began from a borrowed body), and
`SnoopAcyclic` is asked of all others.  `do_advance`, which changes a player's level while he
plays, is not modelled.

Abstractions.  Input text is a choice of outcome; bans, wizlock and the
authorised flag are choices; character creation is one prompt (its questions are
`Creation`).  A cell that is
allocated and referenced by nothing is collected, so that `Cell` bounds the
cells in use and not the code's leaks.  When a cell is taken, any free one
stands for the pool's top.  `SaveChar` of a character without a record reads
the slot before the table; the idnum it leaves is written -1.  Idling, death
and commands that kill are enabled at any time rather than by timers.
What a descriptor edits is in `Editors`; what it reads and writes is left out.

## 4. TableSearch

The code has a dozen copies of one loop, and they differ in four ways: how the
middle is computed, where `top` starts, and whether the bounds are compared
before or after the slot is read (`kind`).  A step is one turn of the loop.
`Read` says what a slot yields: the number in it, 0 in the spare slots that
`index_boot` cleared behind the last quest, and anything outside the
allocation.  So `Correct` holds only if the answer does not depend on what lies
there.  `InBounds` says which loop looks there at all: those that halve by
shifting (`real_room` and most others, `real_quest`), at slot -1 and at no other,
and only for a number below the first one of the table.  Tables are the sorted functions on `0 .. n-1`; that they are sorted is
the promise of the loaders, and for the player index it is proved
(`StaysSorted`).

## 5. PlayerIndex

| variable | code |
|---|---|
| `tab`, `entry_size`, `needs_save` | `PCIndex::tab[0 .. entry_cnt-1]`, `entry_size`, `needs_save`; slot *i* is entry *i*+1 |
| `index` | the index file: its whole lines |
| `pfile[n]` | whether the file of player `n` exists and has the no-delete flag |
| `sess[c]` | what connection `c` holds: at the password, creating, at the menu, in the game |
| `phase`, `pos` | down, in `clear_by_time` at entry `pos`, or up |
| `busy` | `delete_by_idx`, `CreateChar` and `Save` between two of their writes |

`Save` cuts the file to nothing and then writes it; a crash in between leaves
any prefix.  Of the lines that were whole, that is: on a last line without its
newline, `GetLine` meets the end of the file, and the loop of `load` ends there as
if it had read `END`.  The boot goes on with the players of the whole lines, and
those on the cut line and behind it are gone without a word (nothing waits to be
saved, and `clear_by_time` judges those that are left).  `FileCurrent` says that
file and table have the same players then too; that some are lost is the code.  `clear_by_time` deletes from the table it walks, so it passes over the
entry that moves into the slot.  The menu deletes by number: when the number is
gone from the table, slot -1 looks protected or every entry moves down; both
are behaviours of `DeleteSelf`.  The time of the last logon is compared with a
month only at boot, and grows old only between two processes (`Month`).

`Houses`: `rec` is `house_control_rec`; the control file (`ctl`) has a record without its
guests, which are in the file of the room (`gfile`), and a boot puts the two together
(`Booted`).  `House_save` writes all guests but the last, `House_load` reads a number of 0
as "count them", `House_list_guests` shortens the list at its end for each guest it cannot
find, wherever he stands in it, and a lease that has run out keeps its number at the boot that
ends it.  So who is on the list changes in ways no tenant asked for;
`NoStrangers` says that none of them lets anybody in who was not asked.  `loose` marks a
record with a number but without guests that a boot took over: the places of the list were
never written, and are anybody.  A step that writes both files does so in the order of the
code, and may end between them (`ControlThenFile`, `FileThenControl`).

`Belongings`: `tree` says in what a thing lies.  A writer walks it depth first and notes each
thing with its depth; a reader puts each thing into the last one that was less deep
(`PutBack`).  The four writers and five readers of the code are copies of the two loops and
differ in when they run and what they skip: things that are not rented (`norent`), empty
storage rooms, and the storage room with the highest number, which is never read
(`nr < top_of_world`).  When the prototype of a container is gone (`Lapsing`), what followed it
goes where the reader's climb happens to end (`upset`), or the climb follows a null pointer
and the boot ends (`stuck`).

## 6. Mail

| variable | code |
|---|---|
| `file` | the blocks of the mail file: kind, the block that is named next, which part of which letter the text is |
| `free_list`, `mail_index` | the lists of those names; positions are block numbers from 1 |
| `call` | the function that is running and its locals: `store_mail` between two writes, `read_delete` at its header or in its loop, `scan_file` at a block |
| `given` | the mail object the last step gave to a player |
| `torn` | history: did a process end between a link and the block it names |

Every `write_to_file` is a step, and `Die` may come between any two; the next
process begins with `scan_file`, block by block.  A deleted block keeps its
text, as on the disk.  `store_mail` writes the link to a new block before the
block: a crash there leaves a link that boot neither follows nor clears, so the
block it names is free and named at once.  From then on another letter's text,
or what the buffer held, can be appended to the first one, and a link to a header
or a deleted block keeps `read_delete` in its loop for ever (`"loop"`).
The other properties are stated of files that were not torn
(`~torn`), and `torn` becomes true by that one crash only: crashes at every
other write are among the behaviours they hold of.

`MailSpec` knows no blocks: a box of letters for each player, a counter that
writes or gives one letter at a time.  Its crash may cut the letter being
written and lose the one being read, and puts the letters of a box in another
order, which is what a boot does: `scan_file` finds them in the order of the
file.  `Mail` implements it under the mapping at the end of the module: a
letter of the box is a chain of the file, as long as the chain is.

The model is of the build in which a `long` has four bytes: with eight, both
block types are padded beyond `BLOCK_SIZE` and the assertion in `store_mail`
ends the server with the first letter.  What `fread` leaves in the buffer behind
the end of the file is any text and any link (`FollowIntoNothing`), more than
what could lie there.  The editor in which a letter is written and the
postmaster's fees are not part of this module (the editor is in `Editors`).

## 7. Combat

`f` is one record; an operator from a state of the fights to the set of states
it may leave stands for a C++ function whose outcome depends on dice, equipment
or sight.

| field | code |
|---|---|
| `list`, `ahead` | `combat_list`: who is on it, and who stands before whom |
| `next` | `next_combat_list`, the cached cursor of `perform_violence` |
| `fighting`, `fveh` | `FIGHTING(ch)`, `FIGHTING_VEH(ch)` |
| `approach` | `AFF_APPROACH`: the fighter still has to close the distance |
| `pos`, `well` | the position, and whether `update_pos` would let the character stand |
| `place` | the room; `"menu"` and `"pool"`: out of the game |
| `due` | history: who was on the list when the round began, stayed, and has had no turn |
| `broken` | history: where the code follows a freed or cleared cell |

The list is a set and an order, not a chain of pointers: `stop_fighting` moves
the cursor off whoever it takes out, which is what keeps the walk whole, and the
mutant of `NextAfter` is the code without that line.  A turn may kill, rescue,
make flee, call assistants to the head of the list, or make another room answer
a shot.  Two paths leave the list unsound, and the model stops there: a mobile
that attacks a vehicle has no `FIGHTING`, so `extract_char` leaves it on the list
while its cell is cleared (`"cut"`); and a shooter who dies of his own shot
before `ranged_response` runs is attacked as a ghost (`"ghost"`).  The
properties are stated of what is not broken (`Sound`), so they hold up to that
step and say nothing after it.

## 8. Objects

`o` is one record with the pointers of every object (`carrier`, `worn`, `inobj`,
`room`) and what the code keeps beside them: `IS_CARRYING_N` and `_W`, the
weight of every container and of what surrounds it, the load of the vehicle,
the free pockets of a vest and the tag that says which pocket a thing takes, the
count of a quiver, the readied flag of a holster.  Each `obj_to_*` and `obj_from_*`
is an operator (`ToChar`, `FromObj`, ...), each command an action composed of
them in the code's order: `Put`, `Get`, `GetRoom`, `Drop`, `Give`, `Steal`,
`Wear`, `Remove`, `Ready`, `Draw`, `Holster`, `Reload`, `Attach`, `Throw`,
`Shoot`, `Patch`, `Operate`, `Doctor`, `Save`, `Die`, `Perish`, `Destroy`, `Ride`,
`Wreck`, `Spill`.

`OnePlace` and `BurdenExact` hold until the code follows a null carrier, puts a
held clip into a gun, or loops in `has_ammo` (`broken`); `drift` and `leak` mark
the two ways in which the code changes a weight behind `calc_weight`'s back, and
the sums are asked of all others.  `KeptSomewhere` says that only drawing and
throwing can leave a thing on no list: `draw_weapon` and `remove_throwing` equip
a hand that is full, and `equip_char` then refuses without giving the thing back.

## 9. Magic

| field | code |
|---|---|
| `list` | `character_list`, the newest first |
| `aff[c]` | `ch->affected`: type, caster's or victim's side, `sustained_by` |
| `sus[c]` | `GET_SUSTAINED` |
| `room`, `master`, `charm` | `in_room`, `ch->master`, `AFF_CHARM` |
| `light[r]` | `world[r].light[1]`, counted up and down by hand |
| `full`, `crashed` | history: whose list was full when an entry came; the server has recursed to death |
| `unpaid` | history: pairs of a caster and a victim between whom an entry may be without its other half |

`affect_remove` finds the other side of a spell as the code does: the first on
`character_list` whose number is the entry's, and the first of his entries that
matches.  Mobiles of one prototype share a number, so the wrong one may be found.
`AffectUpdate` is the whole walk of `affect_update`, removals included.  Dice are
choices, and a cast that fails changes nothing.  The entry that a removal frees
under the walk's feet is taken to be intact, as it is until the allocator gives it
out again.  An entry taken off the *caster's* own list (he saves, leaves, dies, is unaffected,
appears, resists, takes an antidote) does not end the spell on the victim, who keeps it
without anybody paying: `affect_remove` looks for a caster's entry on the other side,
whichever side it takes off.  What he sustains on the caster in his turn is then unpaid in
the same way.  `unpaid` marks these pairs, and `EffectHasCost` is asked of all others.
Ending `influence` on a conjured spirit calls `stop_follower`, which
ends `influence` (`crashed`).  Left out: spell locks, astral bodies, vehicles,
the spell queue, combat spells and drain.

## 10. Olc

| variable | code |
|---|---|
| `world` | the table of rooms: number, people and things in it, vehicles, exits (rnum and vnum) |
| `index[k]` | the vnums of the prototypes of mobiles, objects, vehicles |
| `at`, `was` | `in_room`, `GET_WAS_IN` of a builder in an editor |
| `inst`, `vlist` | the prototype of an instance; `veh_list` |
| `zone`, `start` | the zone's commands; `r_mortal_start_room` |
| `desk[b]` | the state of b's editor: `edit_number`, `edit_room`, the command |

`isa`, `means` and `home` are history: what a number stood for when it was
stored.  Insertion shifts the table (`InsertAt`) and then every keeper of an
rnum has its own loop in the code and its own operator here: `Shifted` (who is in a
later room), `Known` (the instances an editor finds), `RenumberZone` with the
letters each editor knows (`Renumbered`), `BumpDoors`, the start room, `was`.
`rdelete` has its own loops, which forget more.  The properties ask that each
number still names what it named.

What the code forgets is kept out of the passing scenes, and each of these is a
fact about the code: the people in the last room, whom `redit` does not renumber; two
builders who create one room (the second save finds it and writes the number 0 over
it); vehicles that come or go while their room is edited; vehicles, start rooms and
editors below a deleted room; commands copied into `zedit` while another builder
inserts; the letters S, V, U, I, C, N and H (never renumbered).

Each of these is a predicate of a scene in `Olc` (`FirstKept`, `OneMaker`,
`WritesAlone`, `NothingDeleted`, `NoVehicles`, `LastEmpty`), and the theorems of
`OlcProofs` name the ones they need.  `MCOlc` calls the five scenes that satisfy all
of them `Calm` and says so in the assumption `CalmIsProved`, which TLC evaluates: the
theorems speak of the scenes that run.  The other two, `Traffic` (vehicles)
and `Deleted` (`rdelete`), are narrower about what else happens.

## 11. Vehicles

`g` is one record: who plays and where (`list`, `room`), where each vehicle is and who
sits in it (`at`, `people`, `seating`), who drives, rigs or controls it from afar
(`pilot`, `rig`, `remote`, `rigging`, `rigger`), chases (`following`, `followers`), the
autonav (`dest`), and the subscriber lists (`sub`, `subscribe`).

A command is one step, except `move_vehicle`.  It walks the list of the chasers with a
cached next pointer and lets the driver of each move, by a command of his own that calls
`move_vehicle` again; these calls may end chases, wreck or empty vehicles, and move the
one that is being walked.  `stack` holds the calls in progress with their locals, and
`NextChaser`, `ChaserMoves`, `ChaserTested` and `EndMove` are its turns.  `depth` bounds
the stack.

`g.up` becomes FALSE where the code follows a null pointer or one to a purged vehicle,
and the behaviour ends there.  `process_autonav` looks at vehicles with a destination only:
one without, whose driver is taken away (a summons, `goto`, death), goes on at its speed for
ever, and at that speed nobody can climb in (act.movement.cpp:977).  The model has it so, and
`UnmannedStops` asks nothing of it.  A rigger who is extracted leaves `Ghost` behind in the
vehicle's pointer.  What the model keeps as the code has it: a wreck that stands throws
out those who come later on `character_list`, whoever they sit with (`Scrambled`); seats
are not given back when people are hurled out of a car, so a vehicle may count fewer
seats than it has free (`SeatsCounted` asks that it never counts more); `point_update`
takes the owner from a wreck, but not from the last ones of `veh_list`.

Left out: mounts and gunners, towing, loads, upgrades, mobiles that drive.

## 12. Editors

A builder's descriptor is in an editor (`con`), at a prompt (`mode`), perhaps writing
lines of text (`writing`), with a copy of what he edits.  An action is what one line of
input does at a prompt, with every way the parser has of taking it.  Of a copy the model
keeps what menus branch on or point into: the exit and the extra description under the
cursor, the steps of a trigger that is half entered, the number of the objective, the
places left in the lists of a shop, the letter of a command.  `plr` are the flags which
keep messages from a writer, and `LinkLost` and `Reconnect` the two ways in which they
can be left behind.  `NoTrap` leaves out one prompt, which is a fact about the code: the
reaction upgrade of a deck whose MPCP is below three accepts no number.

## 13. Creation, boards, quests, shops

`Creation`: `pr` are the five priorities A to E, `ch.points` the priority each setting
was paid with.  An archetype assigns them by itself.

`Boards`: `index` and `text` are `msg_index` and `msg_storage`; a message is on the board
before its text is written, and `writes` says into which slot a writer's lines go.  Three
paths of the code spoil the table, and the properties are asked of the states before
(`spoilt`): `$abort` frees a text to which the table still points; a message without text
comes back from the file with a slot it does not own; and a post to a board full of
messages that are never removed writes over the slot of the next board's first message.

`Quests`: a johnson has a quest on offer (`spare2`), a state of the conversation
(`spare1`) and a `memory`; a player has a quest by its index.  `left` marks targets of a
run that renting, a broken link or index 0 (which means "none") made nobody's; `orphan`
marks runs whose johnson died or pays nothing; `spoilt` that a builder's new quest moved
the table under a runner (in `MCEditors`: `moved`).

`Shops`: `negotiate` is done in the code's integer arithmetic.  `made` counts the nuyen
that came into being: the growth of the account, and what a doctor pays for an implant
without losing it.  The successes of a keeper who bargains well are a negative number for the
customer, and sixteen of them turn the price of a purchase negative: he takes the thing and is
paid for it, out of the till or the account, which may fall below nothing.  `Luck` has such a
number, and `beaten` marks that it happened; `Solvent` then still asks that no customer owes,
and the sums (`made`) are asked throughout.  `robbed` marks that `do_steal` took a thing off the keeper without
counting it in `SHOP_SORT`.

## 14. Phones, elevators, cabs

`Phones`: a record of `phone_list` is named by its phone or its decker; `number` is written
with zeros when a phone is switched on and without when its house is loaded, so two
houses can have one number.  `broken` says where the behaviour ends: `"freed"` (a call
reaches the icon of a decker who left, whose record `extract_icon` missed), `"null"` (a
phone without a record is switched off), `"crossed"` (a commlink calls while it is in a
call, and the old partner keeps half of it).

`Elevators`: a car, its landings, and the pair of exits that is made and deleted with each
stop.  The loop which looks for the floor that called runs one slot too far
(`temp <= num_floors`); what lies there is taken not to be the number of a landing.
`Taxis`: cabs, their doors, and the driver's state, destination and memory.  A cab whose
riders got out while the driver drove can be hailed, and arrives with the door of where it was
hailed still open: a cab with two doors to two streets.  `hailed` marks it until its doors are
closed, and `OneDoor` (one door at most, and none while the driver drives) is asked
of all others.  `"lost"`: the second door was made over the first, and the street keeps a door
that leads into a cab without one, which happens to hailed cabs only; `"hangs"`: the loop which
looks for a free direction has no end where there is none; `"null"`: a door without its
other half is closed.

## 15. Runs

| run | instance | asks |
|---|---|---|
| `pair` | 2 connections, four scenarios: a player and a wizard who switches and snoops; creation and deletion; one player who projects, edits, idles, rents and dies; an implementor who switches, disconnects, purges and makes a copyover | types and whole snoop links (`SnoopSound`), bodies, descriptors and originals linked (`BodiesLinked`), no freed cell in use (`NoFreedCell`) |
| `trio` | 3 connections: of one player in and out of a projection; of administrators of three levels who snoop, switch into a mobile above them all, and return | no circle but of those who began from a borrowed body (`SnoopAcyclic`); one body, one session, one's own body (`OwnersInOrder`) |
| `index` | three scenes: 2 connections, 2 names, 2 numbers, one spare slot, and three index files at the first boot; a room, three players, two guests; four things, two of them containers, in five kinds of places | types, order and size (`IndexSound`), agreement with the file (`FileCurrent`); who may enter, and leases that last (`LeasesSound`); what is read is what was written (`BelongingsSound`) |
| `mail` | 2 players, letters of one, two and three blocks, a file of 4 blocks, `FairSpec` | free list, index and chains agree (`FileSound`), everyone gets his letters as `MailSpec` says (`KeepsPromise`), reading ends (`ReadsEnd`) |
| `fight` | a shooter, a melee fighter and a mobile, two rooms | the list (`ListSound`), the foes (`FoesSound`), the cursor (`NobodySkipped`), and that a round shrinks (`RoundShrinks`) |
| `objects` | three scenes: 2 characters, a vehicle, ten kits of three things; a shop; a doctor | one place for each thing (`OnePlace`), sums and pockets (`BurdenExact`), nothing lost but by draw and throw (`KeptSomewhere`); `ShopSound` |
| `magic` | 2 players, 2 mobiles of one prototype, two rooms, eight scenes | the bound of sorcery (`SorceryBound`), cost, effect and light (`EffectsPaired`), the recount (`UpdateExact`) |
| `olc` | 2 builders, 2 things, seven scenes | sorted tables; people (`InRoomTrue`), exits (`WaysTrue`), instances and commands (`NamesTrue`) keep their meaning |
| `drive` | 3 players, 2 cars and a bike, 2 rooms, six scenes: cyberdecks and remote control; chases of three; chases at high speed; the autonav; wrecks; shots | `SeatsCounted`, `ChasersListed`, `ControlTrue`, `UnmannedStops` |
| `menus` | seven scenes: one builder in all editors; creation; a player and a builder at two boards; a builder alone who fills one; a runner between two johnsons; two runners and one; a player's phone, two in houses and a decker | `NoTrap`, `CopyWhole`, `BusyFlagged`; `PaidOnce`; `PostsSound`; `RunsSound`; `PhonesSound` |
| `ends` | four scenes: every lookup in every sorted table of up to five numbers; two connections of one player who quits, dies and changes the password; an elevator of four floors, one blocked, and two persons; a cab and two riders in two streets with room for two doors each | right answers, and no read outside but of slot -1 (`LookupSound`), doors in pairs, one for a cab (`DoorsSound`); lookups return, what is told to close is closed, who is on the way arrives (`EverythingEnds`) |
| `v_spells` | the scenes of `magic` | disagreement, below |

`OwnersInOrder` leaves out two scenarios where the code does let a player have two
bodies or play another's: creation (two connections may create one name, and both
records come to play under the idnum of the first), and implementors who may occupy a
player's body on purpose.

Finding: `v_spells`.  `save_char` strips every spell and puts none "back in", as its
comment says, because the array it restores from is only ever cleared.  Players are
saved every hour.

Disagreements that the models reach and no run asks about: `redit` renumbers who stands
in the rooms after a new one, but not in the last of them; `close_socket` frees
the character of a player whose link breaks in `CON_HEDIT`, `CON_ICEDIT` or
`CON_PRO_CREATE`; `do_quit` closes the descriptor that `game_loop` has cached
(`UseFreedDescriptor`); `real_room`, `real_quest` and `find_action` read slot -1
for a number below the first; the no-delete flag reaches the index file only when
somebody is created or deleted; a crash in the middle of `Save` costs the players
behind the cut, and no boot says so; a crash between a link and its block mixes
letters (`torn`); an administrator who snoops from a mobile's body closes a circle (`lent`);
a keeper who bargains well pays his customers (`beaten`); a spell outlives the entry that pays for
it (`unpaid`); a cab has doors to two streets (`hailed`); a vehicle without a driver or a
destination goes on for ever; `save_char` implants the cyberware a player only carries; and what
`spoilt`, `robbed`, `orphan`, `broken` and `g.up` stand for in sections 7 to 14.

Bounds.  Sessions: two connections, or three where three are needed (a cycle of
three snoopers; a player at two connections while a third logs in), reach every
pair of roles a descriptor can have towards another, since the functions look at
one descriptor, its victim and the occupant of a body.  The cells of a scenario are enough
for a character, an original and a body in creation for each; `Snoopers` has nobody lose his link while he plays, in the
scenes of three administrators; `MaxId` bounds the
numbers given out.  Scenarios combine the commands that touch the same pointers;
all commands at once are out of TLC's reach.  Losing the link in a late editor is
in no run: the code does free a character in the game there.  Lookups: five numbers reach
both parities of the middle twice and both ends.  Index: `Slots` of 1 makes the table full
after one insertion, and two numbers are enough for a number to be deleted and given out
again.  Houses: one room, since rooms share nothing but the file written in one piece; three
players are an owner, a guest who is last on the list and one who is not, `MaxGuests` 2 has
the list empty, part full and full, `MaxPaid` 1 a lease paid and run out.  Belongings: four
things and two containers have two in one, one in the other, and a thing beside; two orders
of the lists are a list and its reverse; `Lapsing` takes away nothing, a container, or what
is in one.  Mail: `MaxBlocks` of 4 has the file full, the free list empty, and a
letter of three blocks laid over the freed blocks of two others; a letter is
posted again only when it no longer lies in the file.  Fight: three characters
are an attacker, a victim and somebody between them on the list, who can be the
cached one; two rooms are here and elsewhere.  Objects: three things nest as deep
as the code's loops look (a thing in a thing in a thing), and the kits are the
combinations some command treats together.  Magic: `MaxAffect` is 3 for the
code's 32, so that lists fill; `SusMax` and `Dark` stop counts that could grow
without end; the scenes have one spell of each sort the handlers tell apart.
Olc: three or four rooms have a first, a last and one between; `max` bounds the
commands of the zone.  Vehicles: three make a chase of a chaser, and a leader with two;
`depth` 3 lets a chaser's move move its own chaser (2 where there are three players);
one purge is enough for a pointer to what is gone.  Editors: `ExtraMax` 2 and `StepMax` 3
have a first, a last and a full list; `QMAX` 2 and `ShopMax` 3 stand for the code's lengths of
lists.  Boards: two of two messages, `Spare` 0 for the code's 5, so that the table of texts fills;
`Id` bounds the messages at a time and `Leaks` the slots lost.  Quests: `Most` bounds the
counters, `Timer` the timer of a target.  Shops: the prices are small numbers for which a quarter and
the quotients of `negotiate` round differently; `Luck` has a keeper who wins by 25, one who wins
or loses by none, and a customer who wins by five; `Shelf`, `Rich` and `Mint` bound the stock,
a customer's nuyen and the nuyen made.  Taxis: `Most` bounds a ride.

`DescSymmetry`, `MCSymmetry` and `CharSymmetry` permute sets of model values that the
specifications treat alike, in runs without liveness.  `CHECK_DEADLOCK FALSE` stands in
`ends`, where a lookup has returned and a cab may hang, in `magic`, where the server
may have recursed to death, and in `index`, where a boot may end at a null pointer.

Fairness.  The server is one thread and never blocks longer than a pulse, so what it
does by itself is weakly fair, and no player, link, crash or clock is: the sweeps of the main
loop (`S!Loop`), the turns of a search, the steps of `read_delete` (the thread does nothing
else until it returns; the process may die all the same), the turns of `move_vehicle`
(`Walks`), the elevator's turn in every round of combat (`Lift!Serves`), the driver's in
`mobile_activity` (`Cabs!Turn`).  `Autonav(v)` is strongly fair: `process_autonav` comes round with
every `PULSE_ZONE` whatever happens between, but cannot run while commands keep `move_vehicle`
on the stack, so its enabledness comes and goes.

## 16. Proofs

Each theorem holds for all values of the constants that satisfy the named
assumptions of its module.

`SessionsProofs` (`TypeCorrect`, `SnoopingSymmetric`, `SnoopStaysSound`,
`DupeCheckSound`).  A game is
*sound* when it has its types and snooping is paired; each operator of the model
has a lemma that it maps sound games to sound games, and each action cites the
lemmas of the operators it is composed of.  Neither conjunct is inductive
alone: `close_socket` follows `snooping` to the descriptor whose `snoop_by` it
clears, which needs the type, and a deleted descriptor has to be known to be
unlinked when it is reused.

`TableSearchProofs` (`SearchCorrect`, `SearchInBounds`, `SearchSound`).  The invariant says that
the number sought, if it is in the table, lies between `bot` and `top`, and
where the bounds can be when the loop looks once more.  `DoorsAreSound` is about the two
transports of `MCEnds`.  For elevators `LiftInv` adds that the car is never sent to a blocked
floor, and that nothing is left to count down unless it moves: it stops where it was sent, so
that is what keeps doors out of walls.  For cabs `CabInv` adds that whoever has paid sits in a
cab, that a driver with something in mind has a destination, and where a cab that nobody hailed
on its way can have a door in each state of its driver (`CabFew`, `DoorsFew`).

`PlayerIndexProofs` (`TypeCorrect`, `StaysSorted`, `StaysInTable`, `IndexStaysSound`,
`FileAgrees`).  The inductive invariant adds `BusySound`: what a write under way still has to do
to a slot that exists.  `find_open_id` takes one more than the last number, which
is above all others because the table is sorted; a crash leaves a prefix, and a
prefix of a sorted table is sorted.  `LeasesAreSound` is about `Houses`: `LeaseInv` says
of each room that the guests up to the number (`ListKept`), *and* all those in the file of the
room, if a boot is going to read it (`FileKept`), were asked in and are there once.  The second
is what a crash between the two files needs: who is taken off the list counts as asked in until
both have been written.  What the loops over guests compute is bounded recursion over slots;
`UpTo` and `StepByStep` derive each value from the one before.

`MailProofs` (`TypeCorrect`, `FileStaysExact` with its three parts, `FileStaysSound`,
`EveryoneHisOwnLetter`).  `Bounds` says that every list, link
and call names a block of the file or the one behind its end, and that there is
room for what is still missing of a letter.  `InHand` says what the call under way
knows: that the block it will link is the part it wrote last, the block it will
fill is free but for the one link, and the block it will read is the next part of
what it has read.  None of the four properties is inductive alone: a block from
the free list is nobody's because the list is exact *and* no chain names a free
block, and that stays so because a freed block was named by the block freed
before it only.  `PopUnnamed` and `FreeingSound` are these two arguments.

`CombatProofs` (`TypeAlways`, `ListAlways`, `ListSoundAlways`, `FoesAlways`,
`NobodySkippedAlways`, `RoundShrinksAlways`), for a finite set of characters.
The inductive invariant `Good` says, of a state that is not broken: the list is
exactly those who are busy (`Exact`), it is strictly and totally ordered
(`Ordered`), who fights and who is fought are in the world (`Live`), who closes a
distance has a foe (`Chasing`), and the cursor is on the list or null (`Pointed`).
Stopping a *set* of fighters, joining, relocating, extracting and wounding each
have one lemma that they keep it; a command is a composition of them, and its
proof cites their lemmas.  The list alone is not inductive: `extract_char` finds
the attackers of a character through the list, so that nobody attacks a ghost
only because everybody who attacks is on it.  `RoundShrinks` needs the order as
well: who joins in the middle of a round stands before the cursor.  `NobodySkipped`
needs one conjunct more (`Waiting`): whoever is due stands at the cursor or behind it.  A
blow that takes the cursor off the list moves it to the next one who stays, and a finite
line has a first: nobody stands between the old cursor and the new.

`VehiclesProofs` (`TypeCorrect`, `SeatsCountedAlways`, `ChasersListedAlways`,
`ControlTrueAlways`).  The inductive invariant `VInv` is `Sound(g)`, the types of the stack,
and that a call with moves left knows pilot and chaser.  `Sound` adds to the three
properties what they lean on: that what is rigged belongs to the rigger, so that
`do_control` takes no vehicle from another one (`Linked`); that everybody who sits
somewhere plays, and in one place (`Placed`); and that the lists of live vehicles are
exact while purged ones are not asked about (`Chased`).  Every handler is made of a few
changes (a chase ended, people hurled out, bodies extracted, a rigger released, a list
rebuilt); each has one lemma about any record that is sound, and the calls of
`move_vehicle` need nothing of each other: whatever a call inside changed, the record is
sound when the outer one goes on.

`EditorsProofs` (`CopyWholeAlways`, `BusyFlaggedAlways`).  What can be saved is whole
because a copy is whole where nobody looks, too: at each prompt all entries but the one
under the cursor are complete (`ExtrasGood`, `StepsGood`, ...).  A prompt that writes
belongs to one editor, which is what the type invariant is for.  The flags need that in
an editor no letter is being written, and without a link nothing is.

The module has the theorems about the other machines of `MCEditors` as well, each for any
constants of its scenes:

- `PhonesAreSound`.  `PhoneInv`: until a line is crossed, everybody on `phone_list` has a phone
  that is switched on or a persona (`Known`); whoever is in a call is the partner of his partner,
  who is on the list too, and only who is in a call is connected (`Linked`); and a player's phone that is here and on has its record,
  as a decker in the matrix has (`Answers`); of phones in houses that is not so.
- `RunsAreSound`.  `RunInv`: who is on a run is remembered by a johnson, or orphaned (`Held`);
  targets are those of the run their owner is on, or left behind (`Owned`); the counters are as
  long as the run has objectives (`Tallied`).  The last two hold until a builder moves the table.
- `PostsAreSound`.  `BoardInv` (`BoardGood`): entries have slots of their own, a text behind a
  finished entry is its own, a free slot is empty, a writer's entry is on his board, and a file has
  the entry's text or none.  That a boot finds a slot for each entry it reads, and another one each
  time, is a counting argument over the slots given out so far.
- `PaidOnceAlways`.  `CreationInv` says stage by stage what the sheet owes: nothing but a race
  before the priorities are dealt (`Raced`); then a priority that holds a setting is the one its
  points are of, and no other one holds it (`Dealt`); at the end each of the five is paid
  (`PaidFor`).  That "done" is only taken when all five are dealt is a pigeonhole argument over
  the five priorities; an archetype deals by itself and gives only what is still free.

`OlcProofs` (`TablesAlways`, `WaysTrueAlways`, `NamesTrueAlways`, `InRoomTrueAlways`), for
any builders, things and scenes.  The invariant comes in layers, each inductive only over
those before it.  `TablesInv`: tables sorted, what nobody deletes still in them, and the copy
of a room that exists with its own number; `ListedInv`: a builder is on the list of his room or
of a later one, which is all that is true of the builder in the last room, and enough for
him to be in some room.  `WaysInv`: exits, start room and ways back.  `NamesInv`: the numbers
of instances and commands, the command on a builder's desk included, which
nobody renumbers.  For the people, `LastInv` (the last room, in which nobody is, stays the
last one, and nobody's way leads into it) and `Settled` (each list is exactly those whose
`in_room` says so, and a builder in a room's editor is on none); `SpaceInv` bounds the zone.  A
save is proved once for any table: where a number goes in, what `Bump` makes of the slots
behind it, and that `RealIn` of every other number moves along (`InsertNumber`,
`RemoveShape`).  What a save does to the people is an equation between two lists: those
that `Shifted` finds in the rooms after the new one are those whose `in_room` was at or
behind the place (`InsertHoused`, where the empty last room is used).

No hypothesis is for convenience; each names something the code does not do.
`FirstKept`: rnum 0 means "not found" to the editors, so that saving the first entry of a
table inserts it a second time.  `OneMaker`: a second builder's save of a room made
meanwhile writes number 0 over it.  `NothingDeleted`: `rdelete` renumbers neither the start room
nor ways back, and turns the exits into the deleted room to the one before it.  `WritesAlone`: the command
in an editor keeps its rnums while others insert.  `NoVehicles`: the commands that
load vehicles are renumbered by no editor, and `vedit` cuts `veh_list`, by which the
others find the instances.  `LastEmpty`: the loops over people end at the slot that was
the last one before the table grew.

Model-checked only, and why:

- `BodiesLinked`, `NoFreedCell`, `OwnersInOrder`: they hold in the scenarios and not for all
  commands together, which the scenarios are there to keep apart (section 3).  TLC shows that
  an implementor who switches and projects ends in a body somebody waits for, and that with
  purges by others a freed cell is used; a theorem would have to list the combinations that
  leave each of them alone, and would be a theorem about the scenarios.  `SnoopAcyclic` is
  bound to a scenario in the same way.
- `ShopSound`, `BurdenExact`: sums over what a keeper owns or a character carries.
  `BelongingsSound`: what two loops over a tree compute.  `KeepsPromise`: lengths of chains.  All
  are induction over data, which the prover does not have.
- `NoTrap` needs `ENABLED`; `EverythingEnds`, `ReadsEnd` and `UnmannedStops` are liveness under
  fairness.
- `OnePlace`, `KeptSomewhere`, `SorceryBound`, `EffectsPaired`, `UpdateExact`: open.  Nothing known
  stands in the way of the first two; the others are asked of scenes with one spell of each sort,
  and a general statement needs the same induction over the list of a character's effects.
- Vehicles and deleted rooms in `Olc`, which the hypotheses above leave out.

## 17. Not modelled

Text: parsing, formatting, colour and paging; the output buffers and input queues that
hold it, which no other part reads (a line of input is a choice of command in every
module); the formats of the world and player files.  newmail.cpp is not built.  What other
programs do with the files.

The matrix (newmatrix.cpp): hosts, icons, programs and IC are a second world with its own
fights, lists and timers, as large as fight.cpp; only its commlinks are here.  Of houses the
keys, atriums and prices are left out.  Followers and groups: the master of a charmed
or conjured follower is in `Magic`, the list that movement walks is not.  Regeneration is
arithmetic on one character at a time; what `point_update` does to others (idle players,
subscriber lists) is in `Sessions` and `Vehicles`.  Zone resets: `Olc` has the commands and
their numbers, not what they load and the counts they compare.  Mobile activity: what a
mobile decides is a choice in `Combat` and `Taxis`; the special procedures of other mobiles
are left out.  The monorail, ferry, bus and light rail are timetables over fixed rooms.
Wizard commands that report, or set a field of one record; commands that only print;
bans (their outcome is a choice in `Sessions`); weather and time, a counter; path
finding, which runs to its end within one command; bit fields and lists, which are sets
and sequences here; tables of constants.
