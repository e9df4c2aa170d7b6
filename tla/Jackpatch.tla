------------------------------ MODULE Jackpatch ------------------------------
(***************************************************************************)
(* jackpatch, the client that remembers the connections of the JACK graph  *)
(* and makes them again when their ports come back (src/src/jackpatch.c).  *)
(*                                                                         *)
(* Three parties act: JACK and its user (ports appear and vanish, the user *)
(* connects and disconnects), the JACK callback that queues a notification *)
(* per port, and the main loop, which handles one OSC message or one       *)
(* notification at a time.  Loading a project and saving it ask JACK many  *)
(* questions in turn, and the graph changes between the answers: each      *)
(* question is a step of its own here.                                     *)
(***************************************************************************)
EXTENDS Naturals, Sequences, FiniteSets

CONSTANTS
    OutPorts, InPorts,  \* the ports that can exist
    Projects,           \* the projects that can be opened
    DiskAtStart,        \* their files: a set of lines, or NoFile
    Modes,              \* how the program is started: "nsm", "monitor", "save"
    MaxOpens,           \* bound: opens in one life, each adds to known_ports
    RingSize,           \* bound: notifications that are under way at a time
    NoFile, None

Ports == OutPorts \cup InPorts
Pairs == Ports \X Ports
Lines == [left : Ports, dir : {"<", ">", "|"}, right : Ports]

ASSUME PortsAreDirected == OutPorts \cap InPorts = {}
ASSUME FilesAreLines ==
    /\ \A lines \in SUBSET Lines : lines # NoFile
    /\ DiskAtStart \in [Projects -> {NoFile} \cup SUBSET Lines]
ASSUME BoundsAreNumbers == MaxOpens \in Nat /\ RingSize \in Nat
ASSUME NoneIsNothing == None \notin Projects \cup Modes

VARIABLES
    ports,           \* JACK: the ports that exist
    conns,           \* JACK: the pairs <<output, input>> that are connected
    port_ringbuffer, \* the notifications not handled yet, in order
    known_ports,     \* how many entries the list has for each port
    patch_list,      \* a set of patch_records
    client_active,
    project_file,
    disk,
    mode,            \* None while the program is not running
    phase,           \* where the main loop is
    todo,            \* the ports left in the loop over jack_get_ports
    src_found,       \* the record of which only the destination is still looked up
    table,           \* the connections snapshot has gathered
    opens,           \* counts towards MaxOpens
    promised,        \* history: pairs loaded or saved, not disconnected since
    introduced,      \* history: register_prexisting_ports has run in this life
    calm             \* history: the save began, and went on, with JACK at rest

jack == <<ports, conns>>
lists == <<known_ports, patch_list>>
files == <<project_file, disk>>
loop == <<phase, todo, src_found, table>>
life == <<client_active, mode, opens>>
history == <<promised, introduced, calm>>
vars == <<jack, port_ringbuffer, lists, files, loop, life, history>>

Patch(pair, active) == [src |-> pair[1], dst |-> pair[2], active |-> active]
PatchRecords == [src : Ports, dst : Ports, active : BOOLEAN]
Pair(pr) == <<pr.src, pr.dst>>
PatchPairs == {Pair(pr) : pr \in patch_list}
Idle == phase = "listening" /\ mode # None

-----------------------------------------------------------------------------
(* The patch list and the list of known ports. *)

\* The records of a line. Of the two that "||" makes only the second has its
\* member active set: the first keeps what malloc returned.
process_patch(l, uninitialized) ==
    LET forth == <<l.left, l.right>>
        back  == <<l.right, l.left>>
    IN  CASE l.dir = ">" -> {Patch(forth, FALSE)}
          [] l.dir = "<" -> {Patch(back, FALSE)}
          [] l.dir = "|" -> {Patch(back, uninitialized), Patch(forth, FALSE)}

find_known_port(p) == known_ports'[p] > 0

\* jack_connect succeeds, or says EEXIST, for an output and an input there are.
jack_connect(pr) == pr.src \in ports \cap OutPorts /\ pr.dst \in ports \cap InPorts

connect_path(pr) ==
    /\ ~pr.active
    /\ find_known_port(pr.src) /\ find_known_port(pr.dst)
    /\ jack_connect(pr)

Matches(pr, p) == p \in {pr.src, pr.dst}

\* Mutant: a vanished port leaves its patches active.
InactivateNothing(p) == patch_list' = patch_list

inactivate_patch(p) ==
    patch_list' = {IF Matches(pr, p) THEN [pr EXCEPT !.active = FALSE] ELSE pr
                       : pr \in patch_list}

handle_new_port(p) ==
    /\ known_ports' = [known_ports EXCEPT ![p] = @ + 1]
    /\ LET made == {pr \in patch_list : Matches(pr, p) /\ connect_path(pr)}
       IN  /\ conns' = conns \cup {Pair(pr) : pr \in made}
           /\ patch_list' = {[pr EXCEPT !.active = @ \/ pr \in made]
                                 : pr \in patch_list}

\* Mutant: a port that is not in the list is taken off it.
RemoveUnknown(p) ==
    /\ known_ports' = [known_ports EXCEPT ![p] = @ - 1]
    /\ inactivate_patch(p)

remove_known_port(p) ==
    /\ known_ports' = [known_ports EXCEPT ![p] = IF @ > 0 THEN @ - 1 ELSE 0]
    /\ inactivate_patch(p)

-----------------------------------------------------------------------------
(* JACK and its user. *)

\* The callback runs while jackpatch is an active client of JACK.
port_registration_callback(reg, p) ==
    IF client_active
    THEN /\ Len(port_ringbuffer) < RingSize
         /\ port_ringbuffer' = Append(port_ringbuffer, [reg |-> reg, port |-> p])
    ELSE UNCHANGED port_ringbuffer

PortAppears(p) ==
    /\ p \notin ports
    /\ ports' = ports \cup {p}
    /\ port_registration_callback(TRUE, p)
    /\ calm' = FALSE
    /\ UNCHANGED <<conns, lists, files, loop, life, promised, introduced>>

PortVanishes(p) ==
    /\ p \in ports
    /\ ports' = ports \ {p}
    /\ conns' = {c \in conns : p \notin {c[1], c[2]}}
    /\ port_registration_callback(FALSE, p)
    /\ calm' = FALSE
    /\ UNCHANGED <<lists, files, loop, life, promised, introduced>>

UserConnects(src, dst) ==
    /\ {src, dst} \subseteq ports
    /\ <<src, dst>> \notin conns
    /\ conns' = conns \cup {<<src, dst>>}
    /\ UNCHANGED <<ports, port_ringbuffer, lists, files, loop, life, history>>

UserDisconnects(c) ==
    /\ c \in conns
    /\ conns' = conns \ {c}
    /\ promised' = promised \ {c}
    /\ UNCHANGED <<ports, port_ringbuffer, lists, files, loop, life, introduced, calm>>

-----------------------------------------------------------------------------
(* Loading a project. *)

\* A pair is worth a promise if JACK can connect it at all.
Promise(pairs) == pairs \cap (OutPorts \X InPorts)

read_config(lines) ==
    /\ \E u \in BOOLEAN :
           patch_list' = UNION {process_patch(l, u) : l \in lines}
    /\ promised' = Promise({Pair(pr) : pr \in patch_list'})

Load(p) ==
    /\ disk[p] # NoFile
    /\ read_config(disk[p])
    /\ phase' = "opening"

\* Mutant: a new project keeps the patches of the former one.
BlankKeepsPatches(next) == UNCHANGED patch_list /\ promised' = {} /\ phase' = next

Blank(next) ==
    /\ patch_list' = {} /\ promised' = {}
    /\ phase' = next

\* No project can be opened while the file cannot be read.
OpenFails(p) ==
    /\ disk[p] # NoFile
    /\ UNCHANGED <<patch_list, promised, phase, client_active, project_file>>

\* project_file is assigned after the ports have been gone through; nothing
\* reads it before that.
osc_open(p) ==
    /\ Idle /\ mode = "nsm" /\ opens < MaxOpens
    /\ opens' = opens + 1
    /\ \/ Load(p) /\ client_active' = TRUE /\ project_file' = p
       \/ /\ disk[p] = NoFile
          /\ Blank("listening") /\ client_active' = TRUE /\ project_file' = p
       \/ OpenFails(p)
    /\ UNCHANGED <<jack, port_ringbuffer, known_ports, disk, mode, todo, src_found, table,
                   introduced, calm>>

\* main(): under NSM the project comes with osc_open; the two command line
\* modes name their file and activate the client at once.
Start(m, p) ==
    /\ mode = None
    /\ mode' = m
    /\ \/ m = "nsm" /\ Blank("listening") /\ UNCHANGED <<client_active, project_file>>
       \/ m # "nsm" /\ client_active' = TRUE /\ project_file' = p /\ Load(p)
       \/ /\ m = "monitor" /\ client_active' = TRUE
          /\ Blank("listening") /\ UNCHANGED project_file
       \/ /\ m = "save" /\ client_active' = TRUE
          /\ Blank("saving") /\ project_file' = p
    /\ UNCHANGED <<jack, port_ringbuffer, known_ports, disk, todo, src_found, table, opens,
                   introduced, calm>>

register_prexisting_ports ==
    /\ phase = "opening"
    /\ phase' = "preexisting" /\ todo' = ports
    /\ introduced' = TRUE
    /\ UNCHANGED <<jack, port_ringbuffer, lists, files, src_found, table, life,
                   promised, calm>>

PreexistingPort(p) ==
    /\ phase = "preexisting" /\ p \in todo
    /\ todo' = todo \ {p}
    /\ handle_new_port(p)
    /\ UNCHANGED <<ports, port_ringbuffer, files, phase, src_found, table,
                   life, history>>

PreexistingDone ==
    /\ phase = "preexisting" /\ todo = {}
    /\ phase' = IF mode = "save" THEN "saving" ELSE "listening"
    /\ UNCHANGED <<jack, port_ringbuffer, lists, files, todo, src_found, table, life, history>>

-----------------------------------------------------------------------------
(* The main loop, and the way out. *)

\* One turn of the loop of check_for_new_ports.
check_for_new_ports ==
    /\ Idle /\ mode # "save"
    /\ client_active /\ port_ringbuffer # <<>>
    /\ port_ringbuffer' = Tail(port_ringbuffer)
    /\ LET n == Head(port_ringbuffer)
       IN  IF n.reg THEN handle_new_port(n.port)
           ELSE remove_known_port(n.port) /\ UNCHANGED conns
    /\ UNCHANGED <<ports, files, loop, life, history>>

\* What ends with the process. Files and the JACK graph stay.
Ends ==
    /\ mode' = None /\ client_active' = FALSE /\ project_file' = None
    /\ port_ringbuffer' = <<>>
    /\ known_ports' = [p \in Ports |-> 0]
    /\ patch_list' = {} /\ opens' = 0
    /\ promised' = {} /\ introduced' = FALSE
    /\ UNCHANGED <<jack, disk, calm>>

\* A signal was caught, or --save is done.
die == Idle /\ Ends /\ UNCHANGED loop

\* SIGKILL in the middle of an open or a save: the file may be empty by then.
\* (To a program that listens it does what die does.)
Killed ==
    /\ mode # None /\ phase # "listening" /\ Ends
    /\ phase' = "listening" /\ todo' = {} /\ src_found' = {} /\ table' = {}

-----------------------------------------------------------------------------
(* Saving. *)

\* JACK has no output port, or the file cannot be written: the answer is "OK".
SnapshotReturns ==
    /\ phase' = "listening"
    /\ UNCHANGED <<disk, todo, src_found, table, calm>>

SnapshotBegins ==
    /\ ports \cap OutPorts # {}
    /\ phase' = "remember"
    /\ todo' = ports \cap OutPorts
    /\ src_found' = {} /\ table' = {}
    /\ disk' = [disk EXCEPT ![project_file] = {}]
    /\ calm' = (introduced /\ port_ringbuffer = <<>>)

snapshot ==
    /\ \/ Idle /\ mode = "nsm" /\ project_file # None
       \/ phase = "saving"
    /\ SnapshotReturns \/ SnapshotBegins
    /\ UNCHANGED <<jack, port_ringbuffer, lists, project_file, life, promised, introduced>>

\* A record goes to the table if a port of it is missing: the source is looked
\* up first, the destination only if the source was there.
FindSource(pr) ==
    /\ phase = "remember" /\ src_found = {} /\ pr \in patch_list
    /\ IF pr.src \in ports
       THEN src_found' = {pr} /\ UNCHANGED <<patch_list, table>>
       ELSE /\ patch_list' = patch_list \ {pr}
            /\ table' = table \cup {Pair(pr)}
            /\ UNCHANGED src_found
    /\ UNCHANGED <<jack, port_ringbuffer, known_ports, files, phase, todo, life,
                   history>>

\* Mutant: only the source of a patch is looked for.
DestinationIgnored(pr) ==
    /\ src_found' = {} /\ patch_list' = patch_list \ {pr}
    /\ UNCHANGED <<jack, port_ringbuffer, known_ports, files, phase, todo, table,
                   life, history>>

FindDestination(pr) ==
    /\ src_found' = {} /\ patch_list' = patch_list \ {pr}
    /\ table' = IF pr.dst \in ports THEN table ELSE table \cup {Pair(pr)}
    /\ UNCHANGED <<jack, port_ringbuffer, known_ports, files, phase, todo, life,
                   history>>

RememberDone ==
    /\ phase = "remember" /\ patch_list = {}
    /\ patch_list' = {Patch(c, FALSE) : c \in table}
    /\ phase' = "collect"
    /\ UNCHANGED <<jack, port_ringbuffer, known_ports, files, todo, src_found, table,
                   life, history>>

Collect(p) ==
    /\ phase = "collect" /\ p \in todo
    /\ todo' = todo \ {p}
    /\ LET found == {c \in conns : c[1] = p}
       IN  /\ table' = table \cup found
           /\ patch_list' = patch_list \cup {Patch(c, FALSE) : c \in found}
    /\ UNCHANGED <<jack, port_ringbuffer, known_ports, files, phase, src_found,
                   life, history>>

\* What the user disconnected while the save went on is not promised.
SnapshotEnd ==
    /\ phase = "collect" /\ todo = {}
    /\ disk' = [disk EXCEPT ![project_file] =
                   {[left |-> c[1], dir |-> ">", right |-> c[2]] : c \in table}]
    /\ phase' = "listening" /\ table' = {}
    /\ promised' = {c \in Promise(PatchPairs) :
                       c \in promised \cup conns \/ ~({c[1], c[2]} \subseteq ports)}
    /\ UNCHANGED <<jack, port_ringbuffer, lists, project_file, todo, src_found, life,
                   introduced, calm>>

-----------------------------------------------------------------------------
Init ==
    /\ ports \in SUBSET Ports /\ conns = {}
    /\ port_ringbuffer = <<>>
    /\ known_ports = [p \in Ports |-> 0] /\ patch_list = {}
    /\ client_active = FALSE /\ project_file = None
    /\ disk = DiskAtStart
    /\ mode = None /\ phase = "listening"
    /\ todo = {} /\ src_found = {} /\ table = {}
    /\ opens = 0 /\ promised = {} /\ introduced = FALSE /\ calm = FALSE

Environment ==
    \/ \E p \in Ports : PortAppears(p) \/ PortVanishes(p)
    \/ \E src \in OutPorts, dst \in InPorts : UserConnects(src, dst)
    \/ \E c \in conns : UserDisconnects(c)

Requests ==
    \/ \E m \in Modes, p \in Projects : Start(m, p)
    \/ \E p \in Projects : osc_open(p)
    \/ snapshot
    \/ die

Loading ==
    \/ register_prexisting_ports
    \/ \E p \in todo : PreexistingPort(p)
    \/ PreexistingDone

Writing ==
    \/ \E pr \in patch_list : FindSource(pr)
    \/ \E pr \in src_found : FindDestination(pr)
    \/ RememberDone
    \/ \E p \in todo : Collect(p)
    \/ SnapshotEnd

Next ==
    \/ Environment \/ Requests \/ Loading \/ Writing
    \/ check_for_new_ports \/ Killed

Spec == Init /\ [][Next]_vars

-----------------------------------------------------------------------------
(* Properties. *)

TypeOK ==
    /\ ports \subseteq Ports /\ conns \subseteq ports \X ports
    /\ port_ringbuffer \in Seq([reg : BOOLEAN, port : Ports])
    /\ Len(port_ringbuffer) <= RingSize
    /\ known_ports \in [Ports -> Nat]
    /\ patch_list \subseteq PatchRecords
    /\ project_file \in Projects \cup {None}
    /\ disk \in [Projects -> {NoFile} \cup SUBSET Lines]
    /\ mode \in Modes \cup {None}
    /\ phase \in {"listening", "opening", "preexisting", "saving", "remember", "collect"}
    /\ todo \subseteq Ports /\ src_found \subseteq PatchRecords /\ table \subseteq Pairs
    /\ client_active \in BOOLEAN /\ introduced \in BOOLEAN /\ calm \in BOOLEAN
    /\ opens \in 0 .. MaxOpens /\ promised \subseteq Pairs

\* Between two messages the list in memory says what the project's file says,
\* whichever loads, saves, refused loads and failed saves came before.
LinePairs(lines) == UNION {{Pair(pr) : pr \in process_patch(l, FALSE)} : l \in lines}
ListIsFile ==
    Idle /\ mode = "nsm" /\ project_file # None =>
        PatchPairs = IF disk[project_file] = NoFile THEN {}
                     ELSE LinePairs(disk[project_file])

AllRestored ==
    \A c \in promised \cap PatchPairs : {c[1], c[2]} \subseteq ports => c \in conns

\* With every notification handled, each saved connection whose two ports exist
\* is there again, in whatever order its ports came and went, unless the user
\* took it away.  register_prexisting_ports has to have run in this life.
Restored ==
    Idle /\ introduced /\ mode # "save" /\ port_ringbuffer = <<>> => AllRestored

\* No save forgets a connection that was loaded or saved before and that the
\* user has not taken away: "We don't want to lose connections that are just
\* temporarily not present" (jackpatch.c:530).
NothingForgotten == [][SnapshotEnd => promised \subseteq PatchPairs']_vars

\* So it is while JACK is at rest: nothing under way when the save begins, and
\* no port coming or going until it ends.
CalmSaveForgetsNothing ==
    [][SnapshotEnd /\ calm => promised \subseteq PatchPairs']_vars

=============================================================================
