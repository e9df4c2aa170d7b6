# New Session Manager: a verification project

TLA+ models of the programs in `src/src`, the TLC runs that check them on small
instances, and theorems about them that TLAPS proves for every instance.

New Session Manager (NSM) opens, saves and closes *sessions*: groups of music
programs ("clients") that are started, told to save, and stopped together. The
programs talk OSC over UDP. `nsmd` is the daemon in the middle; GUIs, clients
and other tools send it requests.

## 1. Inventory

| Component | State | Operations | Interacts with |
|---|---|---|---|
| **nsmd, sessions and clients** (`nsmd.cpp`) | list of `Client`, `session_path`, `session_name`, `pending_operation`, `session.nsm` files, lock files | `/nsm/server/` add, announce, save, open, new, duplicate, close, abort, quit; `/reply`, `/error`; `/nsm/gui/client/` stop, remove, resume, save; SIGCHLD; SIGINT/SIGTERM; `--load-session` | clients by fork/exec, signals and OSC; the file system; other nsmds through lock files |
| **nsmd, GUI mirror** (`nsmd.cpp`) | `gui_is_active`, `gui_addr`, labels, dirty flags, progress | gui_announce, announce_gui, list, broadcast, client status messages | GUIs |
| **lock files between daemons** (`nsmd.cpp`, `file.cpp`) | `$XDG_RUNTIME_DIR/nsm/<name><hash>` | look, write, delete | several nsmds at once |
| **nsm-legacy-gui** | its copy of the client list and of the session list | shows what nsmd reports, asks for operations, may start nsmd | nsmd |
| **nsm-proxy** | pid of the proxied process, its settings, pid of its GUI | open, save, start, kill, show/hide GUI, SIGCHLD | nsmd, proxied process, nsm-proxy-gui |
| **nsm-proxy-gui** | the fields of a dialog | sends settings, shows updates | nsm-proxy |
| **jackpatch** | list of patches, list of known ports, ring buffer of port notifications | open, save, port registration (JACK thread), connect | nsmd, JACK |
| **Endpoint, Thread** | OSC server, methods, peers | receive, send | used by nsmd and the GUI |
| **nsm.h, pynsm** | address of nsmd, what nsmd told the client | client side of the protocol | nsmd, the application |
| **file, debug, FL widgets** | none that a protocol depends on | helpers, logging, layout | |

### What is hard

*Nesting.* nsmd has one thread, but every operation blocks in one of three
loops (`wait_for_replies`, `wait_for_announce`, `wait_for_killed_clients_to_die`),
and each of them handles SIGCHLD and **runs every queued OSC handler**. A request
that arrives in the middle of another one is executed inside it. What keeps them
apart is `pending_operation`, which each handler tests and resets by hand, which
save tests but does not set, quit and the signal handlers do not test, and the
load of `--load-session` does not set.

*Failure and order.* Clients die, hang, answer late or with errors, are started
by nsmd or by hand, and may announce themselves at any time, also while nsmd is
closing. Answers carry no number: `/reply` clears whatever is pending. A load has
already given up the lock and the name of the open session when it finds that it
cannot go on. A session may be read-only, unreadable or held by another nsmd.

*Lookups.* Clients are found by walks through a list by id, name, pid or
address, each returning the first match, while several clients may match. A
client's name is that of its executable until it announces itself under another
one, so the same client is found by different names at different times.

*jackpatch against JACK.* Ports come and go in a thread of JACK, which only queues
notifications; the main loop handles one of them, or one OSC message, at a time.
Loading and saving ask JACK many questions in turn, and the graph changes between
the answers. What is in memory, in the file and in JACK are three different things.

*Two copies of one list.* A GUI is told of every client once and then only of what
changes, by nsmd's handlers as they go, in the middle of operations; it looks
clients up by ids that nsmd changes, and its clicks are about a list that may have
changed since. Nothing is ever compared or sent again.

*Several daemons.* A lock file is looked for at the beginning of a load and
written at its end, and deleted by name; between two system calls of one daemon
another one runs, or the first is killed, or told to quit: the handlers of SIGINT
and SIGTERM close the session right there, also between two sessions.

*nsm-proxy against its children.* They exit at any time; one SIGCHLD may stand for
several; nsm-proxy knows one pid of each kind, overwrites it, and takes any
child it does not know for the program.

`PROJECT.json` lists 40 such hazards at their lines with the properties that
would catch them going wrong.

### What makes the components correct

* nsmd: one operation at a time; a lock file exactly for the open session;
  foreign sessions untouched; no two clients on one project path; a load serves every entry of
  the session file and leaves no client on the old session; it never waits for
  an answer that nobody owes; every operation ends; every death is noticed;
  closing a session closes its clients; quit saves.
* what a user relies on, whatever happens inside: one session at most, replaced by
  one operation at a time; a finished operation has its lock file; nothing that
  exists is created again; nsmd ends with neither a session nor a lock file.
* lock files: two daemons never have one session open; a lock file means that
  somebody has the session; nobody takes the lock of another.
* GUI: with the messages in flight, its client list is that of nsmd.
* nsm-proxy: it has at most one process, knows whether it runs, and lives as
  long as it.
* jackpatch: a saved connection is restored when both ports are there, and is
  not forgotten while one of them is missing.

## 2. Plan

Done (section 3 describes them):

1. `Nsmd`: the daemon, its clients and its files; `NsmdProofs`, `NsmdClientProofs`.
2. `Jackpatch`: patches, known ports, notifications, load and save against a JACK
   graph that changes; `JackpatchProofs`.
3. `NsmProxy`: the proxied program, its windows, signals and restarts;
   `NsmProxyProofs`.
4. `Session`, the abstract specification of what nsmd promises about sessions;
   `Nsmd` implements it (a PROPERTY of `nsmd_switch`, and a theorem of
   `NsmdSessionProofs`).
5. `SessionLock`: several daemons, their lock files, crashes and reboots;
   `SessionLockProofs`.
6. `GuiMirror`: the client list of nsmd and the copy of a GUI; `GuiMirrorProofs`.

Left, in this order:

7. `NsmClient`: nsm.h and pynsm as the client `Nsmd` assumes.
8. `main` with `--detach`, where the child may record its parent's pid too late.

The runs are kept to a dozen, so a new one takes the place of the one that says
least.

## 3. Modules

| Module | What it is |
|---|---|
| `Nsmd` | state, actions, fairness and properties of the daemon and its client processes |
| `MCNsmd` | session files and announced names for the configurations `MCNsmd*.cfg` |
| `NsmdProofs` | types, nesting of handlers, foreign sessions |
| `Session` | what nsmd promises about sessions, without clients, waits or nesting |
| `NsmdSessionProofs` | the lock file of the open session; `Nsmd` implements `Session` |
| `NsmdClientProofs` | the ways the client list changes; projects are kept apart, no wait is in vain, a load serves every entry of its file |
| `SequenceLemmas` | induction on natural numbers, `RemoveAt`, `FlattenSeq` |
| `SessionLock` | several daemons, their lock files and what they do to session files |
| `MCSessionLock` | names and hashes for the configurations `MCSessionLock*.cfg` |
| `SessionLockProofs` | types, exclusion, and what lock files mean |
| `GuiMirror` | nsmd's client list, what a GUI is told of it, and what the GUI makes of that |
| `MCGuiMirror` | session files for `MCGuiMirror.cfg` |
| `GuiMirrorProofs` | types, and that the GUI shows the clients and the session |
| `Jackpatch` | jackpatch, JACK and its user |
| `MCJackpatch` | files of the configurations `MCJackpatch*.cfg` |
| `JackpatchProofs` | types, the list and the file, restored connections, saves |
| `NsmProxy` | nsm-proxy and its children |
| `MCNsmProxy` | the constraint of the configurations `MCNsmProxy*.cfg` |
| `NsmProxyProofs` | types, the program, the windows |

`Nsmd`, `Jackpatch` and `NsmProxy` are separate programs. `Nsmd` holds a client as nsmd sees it (a process
that announces, answers or does not); `Jackpatch` and `NsmProxy` hold nsmd as these
two clients see it (it sends open after the announcement, then save, show, hide,
and SIGTERM at any time). `SessionLock` and `GuiMirror` look at nsmd from two sides
`Nsmd` does not have: other daemons beside it, and a GUI in front of it. Both keep
the course of nsmd's operations and leave out what their side cannot see.

### Nsmd: state and code

| Variable | Code |
|---|---|
| `client` | `std::list<Client*> client`; a record has id, program (by its executable), pid, active, `smart` (capabilities not NULL), pending command, error, `addr` (the process whose port is stored) |
| `session_path`, `session_name` | the globals of these names; a failed load leaves them different |
| `pending_operation` | the global of that name |
| `stack` | the C++ call stack of handlers, innermost first, each with its argument and the place it has reached |
| `cursor`, `wanted` | the iterators of the loops that erase, the rest of `new_clients` |
| `file`, `locks` | `session.nsm` of each session, the lock files |
| `proc` | the client processes: state, commands they have not answered, project, whether they were ever signalled |
| `exited` | nsmd has called `exit` |

A frame of `stack` moves from one *place* (`pc`) to the next:

    save       ->  replies    ->  saved      command_all_clients_to_save, wait_for_replies
    load       ->  killed     ->  purge      load_session_file: quit those not wanted, wait
    switch     ->  announce   ->  opening  ->  loaded      ... switch and launch, wait, wait, lock
    close      ->  killed     ->  purge  ->  clear  ->  closed | create      close_session
    create                                   the rest of new

`replies`, `killed`, `announce` and `opening` are the wait loops. In these, and when
nsmd is idle, `Listening` holds: requests start new frames, clients announce,
answer, die and are reaped. At all other places only the innermost frame moves,
which is what one thread does; but `Quit`, which is `/nsm/server/quit` and the handler of SIGINT and
SIGTERM, comes in between any two steps. `open` is save, load; `duplicate` is save, copy, load;
`new` is save, close, create; `close` is save, close; `abort` and `quit` are close.

### Nsmd: abstractions

* A program is its executable and announces one name, `Pretty` of it, which may be another
  program's. The name of a client (`Name`) is its executable before it has announced itself
  and the announced name from then on, also after it has stopped, as in the code; so
  `smart`, set at the same place and for good, says which. Lookups by name, the
  entries of a session file and project paths use `Name`, `Expected` the executable.
* Labels, dirty flags, progress, GUI visibility, `launch_error` and
  everything only sent to a GUI are left out, and so are broadcast and list.
* A session is its path and its own simple name, so lock files of two sessions
  never collide (in the code they do for equal hashes).
* A client answers in the order it was asked, or dies without; answers of a dead
  process may still be on their way (`Corpse`). Messages to a dead port are lost,
  and so is an open for a client without an address (what liblo does with NULL is left out).
  Messages of live processes are not lost (everything is on one host).
* Timeouts are choices: a wait for replies may end at any time, a wait for
  announcements too (5 s), a wait for killed clients with the SIGKILL of its
  last round. After the SIGKILL nsmd does not look again.
* `pre_existing` is left out: a client launched by the loop has a reply pending
  as well. A wait for nobody is skipped.
* fork fails when `Pids` are used up, and stores the pid -1, as the code does.
* `generate_client_id` is an id that is not in the list; with none left the
  request is not made.
* `erase()` at the end of a list: libstdc++ goes on at `begin()`.
* cp of duplicate copies session.nsm or fails. What new writes to a read-only place is
  not there afterwards; the session is open all the same.
* A signal comes between two steps of `Nsmd`; between two system calls of one step it is
  `SessionLock` that has it.
* An announce with an incompatible API version changes nothing and is left out.

### Session, and how Nsmd maps to it

`Session` has requests that start (`Start`), fail (`GiveUp`, `Refuse`), take a session
(`Take`) and end (`Opened`, `Closed`, `Create`), the copy of a duplicate (`Copy`),
the close (`CloseSession`), `Quit` and `End`. In `Nsmd`:

| Session | Nsmd |
|---|---|
| `session` | `session_path` |
| `operation` | `pending_operation`; `TAKEN` as long as a load on the stack is past the point where it cannot fail |
| `existing` | the sessions whose `file` is not absent |
| `locked` | the sessions not held by another nsmd for which there is a lock file of any name |
| `quitting`, `ended` | a quit is on the stack; `exited` |

All of a handler's steps on clients, waits, deaths and nested save, add, announce and
GUI requests are stutters. `Refuse` drops the lock of the session that stays open:
that is what the code does, and the abstract specification says so.

### SessionLock: state and code

| Variable | Code |
|---|---|
| `session_path`, `session_name` | the globals of each daemon |
| `phase`, `op`, `target` | how far a daemon is, between two system calls, in which operation on which session |
| `lock` | the lock files, by the file name of `get_lock_file_name`: simple name and hash; who wrote it and for which session |
| `saved`, `dirs` | the sessions with a `session.nsm`, the directories |
| `crashed`, `slips` | history: a daemon was killed; what has gone past the lock files |

A load is `DropLock` (the own lock file goes), `Rename` (`set_name`), `Refused` or `Take`
(`stat`, then `session_path`), the waits ("loading"), `LoadEnd` (`write_lock_file`). A close ends with
`Unlink` and `CloseEnd`. new goes on with `Mkdir`, `TakeNew`, `NameNew`, `WriteLock`, `WriteSession`, in the
order of the code: the lock is written before the session file, which may fail. `Quit` is the request in
a wait and the signal handler at any other point: it runs `close_session` on whatever
`session_path` is then, waits for clients included, and deletes the lock file that the name and
the path of that moment give. In the middle of a load it closes the session that is being loaded;
in the phases `Between` two sessions it closes one that has no lock file of this daemon, which
another daemon may open and lock in the meantime, and `slips` records "interrupted". `Crash` takes a
daemon at any point; `Start` and `Reboot` follow. `NameOf` and `HashOf` are constants, so two sessions may share
either.

*Abstractions.* Clients are left out; a wait is a phase that ends at some time and
in which only quit is heard (what else runs there does not touch these files
while `pending_operation` is set). A lock file can be written. Sessions do not
become unreadable. The session of `--load-session` is opened like any other.
`slips` guards no action.

### GuiMirror: state and code

| Variable | Code |
|---|---|
| `client` | the list in nsmd: id, program (by its executable), `status` (by what a GUI makes of it), whether there is a process, `active`, `smart`, the pending command |
| `session_path`, `session_name` | the globals of nsmd |
| `phase`, `op`, `target`, `wanted`, `cursor` | the operation, its wait or loop, the iterators |
| `gui` | a GUI listens at `gui_addr` |
| `channel`, `clicks` | UDP messages on their way to the GUI and to nsmd |
| `view` | the GUI: its `NSM_Client` widgets in the order of `clients_pack`, and the session name |
| `amiss` | history: ids about which nsmd has misled this GUI; `None` for the name of a session it does not have |

`osc_handler` handles one message; `cb_button` is a click on a button that is shown;
`GuiLeaves` and `announce_gui` are the end of a GUI and the coming of another one, in
any phase. In "idle", "saving", "killed" and "opening" nsmd hears every message; the other
phases are the steps of its loops, between which the GUI may run and leave.

*Abstractions.* Status strings are what a GUI shows for them: up, stopped, removed.
Labels, progress, dirty flags, visibility and log messages are left out; so are
`launch_error`, failing forks, lock files and answers to requests. A load fails or
succeeds by choice. Messages arrive in order (one host) and are not lost. With
`MaxQueue` = 0 the next handler of nsmd that sends runs when the GUI has caught up, but all
messages of one handler are in flight together, the GUI may leave among them, and
clicks are handled any time later; `Caught`, of which the properties speak, is what the GUI will show at the
end of them. One handler is one step because no other handler of nsmd runs inside
it outside the waits.

*Two names.* nsmd presents a client by its executable when it launches it (`New`) and by
the announced name when it announces itself (`NewName`), and a GUI that comes later by the
executable and then, if the client is active, by the name; each time the GUI shows the last it was
told. So the name on screen depends on what a GUI was there to hear: a client that was stopped is
shown under its name by a GUI that knew it before and under its executable by one that comes
afterwards, and one that is resumed is shown by its executable until it announces itself again, though
nsmd has kept its name. `MirrorOfClients` therefore asks for one of the two names of *that* client
(`Titles`); everything else a GUI shows it asks for exactly.

*When the copy goes wrong.* `MirrorOfClients` excludes five things the code does, each
for the ids concerned, and `SessionShown` a sixth; `amiss` records them:

* `clear_clients` (nsmd.cpp:316) deletes clients without a word: a client that
  arrives while a session closes stays in the GUI as a ghost.
* `command_client_to_switch` (821) sends the status under the new id before the
  message that renames the widget, and the GUI's `client_by_id` takes the last match:
  when two clients swap ids, widgets are renamed twice or not at all.
* a stopped client that the purge has skipped (finding `nsmd_skipped`) is "switched",
  and shown as running.
* a GUI that comes when no session is open is not told of clients left in the list.
* a GUI that comes while a switch has given one id to two clients is told of both,
  but shows one widget, even when one of the two has got another id.
* after a refused load a GUI that comes is told the name of the session that
  was not loaded.

And two that the model follows without a property: a reply of a process that has
died since makes the client look running; and after a load was refused with no
session open, `announce_gui` adds to a NULL `session_path` (2558, 2559), where the model
lets nsmd end.

### Jackpatch: state and code

| Variable | Code |
|---|---|
| `ports`, `conns` | the JACK graph |
| `port_ringbuffer` | `port_ringbuffer`, and the `dequeue_new_port` loop that empties it |
| `known_ports` | how many entries the list `known_ports` has for a port: it may have two |
| `patch_list` | `patch_list`; of a `patch_record` the two ports and `active` |
| `client_active`, `project_file` | the globals of these names |
| `disk` | the files, each the set of its lines |
| `mode`, `opens` | how the program was started; opens so far |
| `phase`, `todo`, `src_found`, `table` | where `osc_open` and `snapshot` are in their loops over ports, records and connections |

`osc_open` reads the file, then `register_prexisting_ports` takes the list of ports
and `PreexistingPort` handles them one by one. `snapshot` truncates the file and
takes the list of ports (`SnapshotBegins`), decides record by record what is
only missing, looking for the source (`FindSource`) and then for the destination
(`FindDestination`, of the record in `src_found`), asks output by output for connections (`Collect`), and
writes (`SnapshotEnd`). Between any two of these JACK may change. A notification
(`check_for_new_ports`), a request or a signal is handled only when the program
listens. `promised`, `introduced` and `calm` are history variables: the connections
that were loaded or saved and that the user has not taken away; whether this life
went through the existing ports; whether a save ran with JACK at rest. They guard
no action.

*Abstractions.* A port is a model value, its direction known; a line is its two
ports and its arrow, so parsing, name lengths and the formatting of a name are
left out. The first record of a `||` line has a member that `malloc` left
uninitialized: a choice. The ring buffer does not overflow: the environment stops
at `RingSize`. SIGKILL, which nsmd sends to a client that is slow to quit, may come at
any step (`Killed`) and leaves an empty file in the middle of a save; the signals
jackpatch handles are acted on between two messages. The order within `patch_list` and of lines in the file makes no difference to a
property.

### NsmProxy: state and code

| Variable | Code |
|---|---|
| `child` | the processes nsm-proxy has forked and not waited for: program or window, how it ended, whether it was sent a signal to quit (a history member) |
| `sigchld` | SIGCHLD is pending at `signal_fd` |
| `pid`, `gui_pid` | `_pid`, `gui_pid` |
| `executable`, `config`, `project_file`, `opened` | the settings, the file with them, `project_file`, and that `osc_open` ran |
| `die_now`, `phase` | `die_now`; the main loop: signals, waiting for children, one message, end of a round |
| `gui_told` | the last `/nsm/client/gui_is_shown` or `..._hidden` |
| `window_seen`, `doubled` | history: a window was opened, and one beside another |

A round is `ReadSignalFd`, `handle_sigchld` for each child that has exited until
`NoMoreChildren`, one of the `osc_` handlers or `NoMessage`, then `NextRound` or
`die`. A child may end (`ChildEnds`) between any two steps, also while
`handle_sigchld` goes on; `signal_handler` is SIGTERM or SIGINT. `window_seen`
guards the buttons: only a window sends them.

*Abstractions.* The settings are whether they name a program. Label, arguments,
error text and the save signal's number are left out; a program that is killed by
its save signal ends as "crashed". fork does not fail and gives a pid that is not
in use and is neither `_pid` nor `gui_pid`. A window that is told to close may take
any time to. `told` says that a signal to quit was sent, not that it had an effect: between
fork and exec a child still has nsm-proxy's handler, which swallows SIGTERM, and
a program that missed it like this runs on, told.

## 4. Runs

| Run | Configuration | Shows |
|---|---|---|
| `nsmd_switch` | `MCNsmd.cfg` | TypeOK, OneOperation, LockOnlyForOpenSession, LockHeldWhileOpen, OthersKeepTheirSessions, ProjectsStayApart, LoadServesEveryEntry, NoVainWait, KeepsItsPromise |
| `nsmd_progress` | `MCNsmdProgress.cfg` | OperationsEnd, DeathNoticed |
| `nsmd_twins` | `MCNsmdTwins.cfg` | finding: NobodyLeftBehind fails |
| `nsmd_orphans` | `MCNsmdOrphans.cfg` | finding: NoOrphans fails |
| `nsmd_skipped` | `MCNsmdSkipped.cfg` | finding: OnlySwitchersSwitch fails |
| `session_lock` | `MCSessionLock.cfg` | TypeOK, Exclusive, NewSessionIsFree, LocksHaveHolders, LockIsItsWriters |
| `session_lock_race` | `MCSessionLockRace.cfg` | finding: OneDaemonPerSession fails |
| `gui_mirror` | `MCGuiMirror.cfg` | TypeOK, MirrorOfClients, SessionShown |
| `jackpatch` | `MCJackpatch.cfg` | TypeOK, ListIsFile, Restored, CalmSaveForgetsNothing |
| `jackpatch_forgets` | `MCJackpatchForgets.cfg` | finding: NothingForgotten fails |
| `nsm_proxy` | `MCNsmProxy.cfg` | TypeOK, ProgramNotLost, NothingOutlives, WindowStateTold, ProgramEndsProxy |
| `nsm_proxy_crash` | `MCNsmProxyCrash.cfg` | finding: PidMeansRunning fails |

**Bounds.** `nsmd_switch` has two sessions to switch between, whose files need a
switch-capable program with different ids and, in one of them, a program that
cannot switch and whose id is that of the other file's client; a third session is
locked. The switch-capable program announces a name of its own. Two processes, two clients, three requests and two nested handlers are
enough for a request inside each wait of another one, for a switch there and
back with a failure between, for a fork that fails, and for a client that dies
and is resumed while nsmd waits. `nsmd_progress` has a write-protected session, an
unreadable one and one to create (whose session file cannot be written), and a client that was
started by hand. `MCNsmdNames.cfg` (below) has three clients of one program, of which nsmd can start two, and
a third process, started by hand.
`MaxClients`, `MaxRequests`, `MaxDepth` and `MaxBacklog` bound the model only.

`session_lock` has two daemons (an incident between two is all the properties speak of;
the theorems are for any number) and three sessions: one that can be opened, one of the
same simple name elsewhere that is unreadable, and one that does not exist yet
and whose lock file has the name of the first's by an equal hash. Nothing else is
bounded. Daemons are symmetric. `gui_mirror` has a program that can switch and has an optional
GUI and one that never announces itself, two ids, and files that give the ids both
ways round, so that a switch swaps them; two clients are what ghosts, swaps and
skipped clients need, and `MaxClients`, `MaxQueue` and `MaxClicks` bound the rest. No
operation begins and no client is added once `amiss` has more than `MaxAmiss` ids, 0 in the run;
what is in progress goes on to its end, and aborting, quitting, clicks, answers and deaths are
never held up. `CONSTRAINT Followed` cuts behaviours where the GUI is wrong about both ids, and keeps
the user to another session than the open one and, after a refused load, to one more try; it halves
the state space. The theorems need none of these bounds.

`jackpatch` has one output and one input. The records of different connections do not
influence each other, only their ports do, and each record is tried on its own.
The first file names the connection in all three ways a line can, the second does not exist yet; with three opens in a life a port is known
more than once, and three notifications under way are enough for a port that
goes, comes and goes unseen. `nsm_proxy` has room for three children: a window, the
program and a copy it must not start. `MaxChildren` bounds what can be started;
`CONSTRAINT OneWindow` cuts behaviours at the second window that is opened beside
one not waited for: all properties but `TypeOK` say so (`doubled`). Beyond it they
fail. The exit of a window whose pid was overwritten is taken for the program's:
it ends nsm-proxy, or, when the window failed as it started, opens another one,
without end if that fails as well.

**Fairness.** `WF(Daemon)`: nsmd is one process that is always scheduled, its
waits are counted loops (`while ( n )`, 30 rounds), so each of them ends. For each
process `WF(Reap \/ PurgeDead)`: every wait and the main loop read the signalfd and
call `purge_dead_clients`. Nothing is assumed of users and clients: they may hang,
never announce, never answer.

`NsmProxy`: `WF(MainLoop)`, because the loop never blocks for good: `signal_fd` is
non-blocking and the wait for a message ends after 500 ms; and `WF` of the wait
for each child, because `handle_sigchld` goes on until `waitpid` has nothing left.
Children need not end and nsmd need not send anything. `Jackpatch` has no liveness
property: what it promises is stated for when it has caught up
(`port_ringbuffer = <<>>`). `SessionLock` and `GuiMirror` have none either: no daemon,
user or GUI need ever go on.

**Findings.** Six statements of the documentation and of comments do not hold.
The runs print the shortest scenario.

* nsmd: with two instances of a program the second one is left on the old session;
  clients added while a session closes survive; a client that cannot switch
  and has stopped may be skipped by the purge and be given an entry of the next
  session, which is then never started.
* several daemons: two may open one session, because the lock file is looked for
  before the waits of a load and written after them. `Exclusive` says what is
  left of the promise: without a refused open, such an overlap, colliding names or a
  signal between two sessions, no two daemons work on one session.
* jackpatch: a save that is handled after a port came back and before its
  notification forgets the connection of that port (`CalmSaveForgetsNothing` says
  that nothing else does).
* nsm-proxy: after a program was killed by a signal such as SIGSEGV, `_pid` is
  still set and `start()` takes it for running.

Met on the way, without a run of their own:

* Two clients may work on one project path (`UniqueProjects`, which says what
  `docs/src/api/index.adoc:463` promises of the `client_id`; `MCNsmdNames.cfg` shows how it fails): the id is
  compared with those of other clients only when it is made up, and announcing changes the name it
  goes with. In the scenario a client that could not be started keeps its id under
  the executable's name, another client of the program is switched to that id under the
  announced one, and a process that announces itself is given the first client's place.
  `ProjectsStayApart` says that nothing but an announcement under a new name does that.
* A refused open deletes the lock file of the session that stays open (`Refuse` of `Session`, the slip "refused" of `SessionLock`).
* A SIGTERM that comes after the own lock file was deleted and before the new session is taken
  makes nsmd close the old session unlocked, for up to 30 s, and then delete a lock file of the name it has
  by then, which may be another daemon's (the slip "interrupted": without it `Exclusive` and
  `LockIsItsWriters` are violated).
* A process that a load starts for an entry whose id another running client
  has takes over that client's record, and the running one's pid is forgotten (`launch`, 695).
* `/nsm/server/quit` does not save, though `docs/src/api/index.adoc:766` says so.
* Abort or close during the load of `--load-session` leaves a lock file that belongs to nobody.
* In a new project jackpatch never goes through the ports that exist already (`Restored` asks for
  `introduced`).

## 5. Theorems

TLAPS proves, for any number of programs, sessions, clients, processes and
requests and any depth of nesting, from `ConstantsAssumption` alone (what a
configuration must satisfy: types, and that a session another nsmd has open or
whose file cannot be read has a file):

* `TypeCorrect`: `TypeOK`.
* `OneOperationAtATime`: `OneOperation`. It is not inductive: when a save returns it
  resets `pending_operation`, which is only right because no guarded operation
  is below a save. `ControlInv` adds that, where each handler may be in its
  course, and that all frames but the innermost are in a wait or have been cut off by a quit for good.
* `OthersAreSafe`: `OthersKeepTheirSessions`. Rests on `FilesInv`: a session file never
  goes away, so the test for `session.nsm` in new and duplicate keeps them from
  sessions that are locked.
* `ProjectsAreKeptApart`: `ProjectsStayApart`. `ListStep` shows that a step keeps every client's
  project and address, erases one client, adds one under an id that nobody has, or is a
  switch or an announcement, and that the client a switch gives an id to has it already or
  no client of its name has it. So every path that is shared after a step and was not before is that of a
  client which the step has renamed.
* `NeverWaitsInVain`: `NoVainWait`. Answers are not matched with commands, so it needs
  `AddressInv`: the address of a client is that of a process that has announced, and no two
  clients share one (launch keeps the address in the client it reuses). Then an
  answer ends the wait for the one client at its address, and `Owing` says
  that nothing but an answer shortens what a process that is alive still owes.
* `LoadsEveryEntry`: `LoadServesEveryEntry`. `LoadInv`: a load that waits for the clients it
  closes, or purges them, wants what is in the file. A save that nests in this wait
  would rewrite that file; `pending_operation` keeps it out, except of
  `--load-session`, which sets none, but has no client to wait for and so never waits
  there; and a quit that comes between the steps of a load cuts it off for good (`CutOff`), so
  nothing is claimed of what is below it. In the loop `Progress` says that the rest of the file is wanted and what came
  before it is served, and a client that is served is never picked again.

and, if no session is given with `--load-session` (with one they do not hold: that
load sets no `pending_operation`, and abort or close may run inside it):

* `NoLockLeftBehind`: `LockOnlyForOpenSession`. `HolderInv`: from the step that takes the
  session on, the target of a load is the open session, because nothing that
  runs inside its waits can open or close a session but quit, which then exits.
* `OpenSessionIsLocked`: `LockHeldWhileOpen`. `HeldInv`: the lock file is missing only while
  such a load is in progress.
* `PromiseIsKept`: `KeepsItsPromise`, that is, `Nsmd` implements `Session`. Every
  action is shown to be a step of `Session` or to leave its variables alone. That needs the
  invariants above and `ExistInv`: the open session has its file, the one that new or
  duplicate is going to make still has none, and once a close is done no handler on the
  stack finds a session open; so at that point no lock file of nsmd is left.

The proofs go by one step per action, grouped by what an action does to
the stack (goes on, returns, starts a handler, leaves it alone).

About `SessionLock`, for any number of daemons, sessions, names and hashes, from
`SessionLockAssumption` (types, and that an unreadable session has a file):

* `TypeCorrect`: `TypeOK`. `DaemonsExclude`: `Exclusive`. `LocksStayWithWriters`:
  `LockIsItsWriters`. `NewIsFree`: `NewSessionIsFree`. `EveryLockHasHolder`:
  `LocksHaveHolders`.

`Exclusive` is inductive only with what makes a lock file trustworthy: as long as nothing
has gone past the lock files (`slips`), a daemon's name belongs to its path unless it is
about to look (`NamesAgree`), a settled daemon's lock file exists and
tells of it (`LockHeld`), and no two daemons are in the window of one
lock file, nor one in the window of another's (`WindowClear`); together `LockInv`. `NewSessionIsFree`
rests on the directories instead: whoever has a session, or a lock file of it, has a directory of
it (`DirsInv`), and `mkdir` fails for one that exists, so the daemon between `mkdir` and
`write_lock_file` is alone (`WritesFresh`). `LocksHaveHolders` needs that, until a
crash, the daemon that wrote a lock file last is settled on that session
(`HeldBy`): it deletes the file before it leaves, whatever else has gone wrong.

About `NsmProxy`, for any number of children, from `MaxChildrenAssumption` (a
positive bound):

* `TypeCorrect`: `TypeOK`. `ProgramIsNotLost`: `ProgramNotLost`. `NothingIsLeft`:
  `NothingOutlives`. `WindowStateIsTold`: `WindowStateTold`.

None of the last three is inductive. `OneOfEach` is: until a second window is opened
beside one not waited for, every child that has not been waited for, running or
not, is the one that `gui_pid` or `_pid` names. So a child that is reaped and is not
the window was the program, and the window that opens instead of it is the only
one. `NothingBeforeOpen` says that osc_open, which may overwrite either pid, finds no child;
`GuiPidIsChild`, that `gui_pid` is 0 or a child, so that a fork has a free pid.

About `Jackpatch`, for any ports, projects and files, any number of opens and of
notifications under way, from the assumptions of the module (types, and that no
port is both an output and an input):

* `TypeCorrect`: `TypeOK`. `ListIsFileHolds`: `ListIsFile`, with `ListInv`: also while a
  save goes on, what the list, the table and the file say to each other.

and, if no file has a `||` line whose first record is one that JACK would connect
(`NothingUndefined`, as in the file of the run; with such a line `Restored` fails, since
the uninitialized member may say that the patch is active already):

* `RestoredHolds`: `Restored`. `CalmSaveForgetsNothingHolds`: `CalmSaveForgetsNothing`.

`PromiseInv` says that a promise that is not kept though both ports exist has one of
them still to come: its notification is in the ring buffer, or the loop of
`register_prexisting_ports` has yet to reach it. When that port is handled and the
other is neither known nor to come, `KnownInv` is broken; when both are known, the patch
is tried, unless it is active, and then `ActiveInv` says that one of its ports has
vanished unnoticed, so it is announced again behind that notification. `CalmInv` follows a
save through the list, the table and the ports left.

About `GuiMirror`, for any programs, ids, sessions and session files, any length of the client
list and of the queues, and any `MaxAmiss`, from `GuiMirrorAssumption` (types, dumb programs
have no capabilities, and NULL is no session, id or operation):

* `TypeCorrect`: `TypeOK`. `SessionIsShown`: `SessionShown`. `ListIsMirrored`:
  `MirrorOfClients`. All from `MirrorInvariant`.

The GUI may be any number of messages late, so everything is said of `Caught`, what it will
show. A step of the GUI does not change that (`CatchHead`), and a step of nsmd adds the
messages it sends (`CatchConcat`). The proof has three layers:

1. What one message does to the widgets of its id (`HandledNew`, `HandledStatus`,
   `HandledOptionalGui`, `HandledSwitch`), and that it touches no other (`AboutOne`).
2. What nsmd says with a change of a client: `Tells(id, A, B, ms)`, a GUI that showed A of this id
   shows B after ms. `SaveReport`, `QuitReport`, `LaunchReport`, `AnnounceReport`, `AllReport`,
   `StatusReport` and `RemoveReport` prove it of every handler. They need `Sane`, which is where the handlers
   depend on each other: a client that is reported as removed before it leaves the
   list (`command_client_to_quit`) has no process and no capabilities, so the next thing
   said of it, if any, presents it as new; and an active client is reported as stopped only while
   it is being killed, so it is not switched.
3. What a change of the list and its messages do to the whole (`ListChanged`, `ListAdded`,
   `ListRemoved`, `ListCleared`, `ListAll`, `ListSwitched`), and one lemma for each action.

`MirrorOfClients` needs that a GUI that is gone has left nothing in the queue (`Alone`).
`SessionShown` is not inductive: a load takes its session on and tells its name only at
its end, so `NameShown` speaks of every phase but those of a load (`Loading`), and `Control` says that
in those the name and the path are those of one session and that no other operation can be there.

`Catch` and `FlattenSeq` are recursive. What is proved of them is proved by induction all the same:
tlapm has no backend that instantiates the induction theorems of its library, which take an operator, but
`SequenceLemmas` proves induction for the members of a set (from the least element, `WFMin`), and a
property is then the set of numbers that have it.

Only model-checked: liveness (`OperationsEnd`, `DeathNoticed`, `ProgramEndsProxy`),
which is out of the prover's reach. Every invariant and every action property that a passing run
checks is a theorem.

## 6. Not modelled

Everything section 2 still plans, and: Endpoint and Thread (wrappers whose use
by nsmd is part of `Nsmd`), file and debug helpers, FL widgets, parsing of
command lines, the values of nsm-proxy's settings, the names of JACK ports. Memory
errors (a client is used after it was deleted in
`handle_client_process_death`) have no effect in the model.

## 7. Running it

    tlc -workers 2 -config MCNsmd.cfg MCNsmd
    tlc -workers 2 -config MCNsmdNames.cfg MCNsmd
    tlc -workers 2 -config MCSessionLock.cfg MCSessionLock
    tlc -workers 2 -config MCGuiMirror.cfg MCGuiMirror
    tlc -workers 2 -config MCJackpatch.cfg MCJackpatch
    tlc -workers 2 -config MCNsmProxy.cfg MCNsmProxy
    tlapm NsmdProofs.tla
    tlapm SequenceLemmas.tla
    tlapm NsmdSessionProofs.tla
    tlapm NsmdClientProofs.tla
    tlapm GuiMirrorProofs.tla
    tlapm SessionLockProofs.tla
    tlapm NsmProxyProofs.tla
    tlapm JackpatchProofs.tla
