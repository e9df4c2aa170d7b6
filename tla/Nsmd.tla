-------------------------------- MODULE Nsmd --------------------------------
(***************************************************************************)
(* The session daemon nsmd (src/nsmd.cpp): its list of clients, the open   *)
(* session, the server operations (save, open, new, duplicate, close,      *)
(* abort, quit, --load-session), and the client processes it starts, stops *)
(* and talks to over OSC.                                                  *)
(*                                                                         *)
(* nsmd is single threaded, but every operation blocks in one of three     *)
(* wait loops, and each of these loops runs SIGCHLD handling and every     *)
(* queued OSC handler: operations NEST.  `stack` holds one frame per       *)
(* handler in progress, the innermost one first.  Handlers and processes   *)
(* take steps only while nsmd listens (it is idle, or its innermost frame  *)
(* is in a wait loop); between two waits nsmd runs alone, which loses      *)
(* nothing because it reads no process state there.  Only a signal that    *)
(* makes nsmd quit comes in between any two steps.                         *)
(***************************************************************************)
EXTENDS Integers, SequencesExt

CONSTANTS
    Progs,         \* client programs, by the basename of their executables
    Pretty,        \* the name each program announces
    Switching,     \* the programs that announce the ":switch:" capability
    Ids,           \* the ids generate_client_id draws from, and those in files
    Sessions,      \* session directories; a session's simple name is its own
    Erring,        \* the programs that may answer a command with an error
    None,          \* the NULL pointer
    Absent,        \* contents of a session.nsm that does not exist
    InitFiles,     \* the session files on disk when nsmd starts
    LockedByOther, \* sessions another nsmd has open: their lock file exists
    ReadOnly,      \* sessions whose session.nsm cannot be written
    Unreadable,    \* sessions whose session.nsm cannot be read
    LoadAtStart,   \* the argument of --load-session, or None
    Pids,          \* bound: the processes there can be; then fork() fails
    Outside,       \* the Pids that run before nsmd and are not its children
    OutsideProg,   \* the program those processes run
    MaxClients,    \* bound: /nsm/server/add only below this list length
    MaxRequests,   \* bound: requests of the user and of server-control clients
    MaxDepth,      \* bound: handlers in progress at once
    MaxBacklog     \* bound: commands a process may have unanswered

VARIABLES
    client,            \* std::list<Client*> client, as a sequence of records
    session_path,      \* the open session, or None
    session_name,      \* its simple name, or None
    pending_operation, \* the guard the guarded operations set
    stack,             \* handlers in progress, innermost first
    cursor,            \* the iterator of purge_inactive_clients, clear_clients
    wanted,            \* load_session_file's new_clients still to be served
    file,              \* session.nsm of every session: a list of entries
    locks,             \* lock files, each <<simple name, session path>>
    proc,              \* the client processes, by pid
    exited,            \* nsmd has terminated
    requests           \* requests made, for the bound alone

vars == <<client, session_path, session_name, pending_operation, stack,
          cursor, wanted, file, locks, proc, exited, requests>>

----------------------------------------------------------------------------
(* Types                                                                   *)

Commands == {"NONE", "QUIT", "KILL", "SAVE", "OPEN", "START"}

\* struct Client, without the fields that are only shown to the user. `smart`
\* is `capabilities != NULL`; its name is Name, below; `addr` is the pid of the
\* process whose port is stored, 0 for a null address. A pid of -1 is what a
\* failed fork() stores.
ClientRecords ==
    [id : Ids, prog : Progs, pid : Pids \cup {0, -1}, active : BOOLEAN,
     smart : BOOLEAN, pending : Commands, error : BOOLEAN, addr : Pids \cup {0}]

\* Client names: launch() knows the executable only, announce brings the other.
Names == Progs \cup {Pretty[prog] : prog \in Progs}

\* A line name:executable:id of session.nsm.
Entries == [name : Names, prog : Progs, id : Ids]

\* A process: `todo` are the commands it has not answered (of a dead process:
\* those whose answer may still be in nsmd's socket), `project` the session of the
\* last project it was told to open, `signalled` whether nsmd ever sent it
\* SIGTERM or SIGKILL. A "lone" process was refused by announce.
ProcStates == {"unborn", "starting", "up", "lone", "zombie", "gone"}

ProcRecords ==
    [state : ProcStates, prog : Progs, todo : Seq({"open", "save"}),
     project : Sessions \cup {None}, signalled : BOOLEAN]

\* The operations that refuse to start while pending_operation is set.
Guarded == {"open", "new", "duplicate", "close", "abort"}
Ops == Guarded \cup {"save", "quit", "load"}
WaitPcs == {"replies", "killed", "announce", "opening"}
RunPcs == {"save", "saved", "load", "purge", "switch", "loaded", "close",
           "clear", "closed", "create"}
Frames == [op : Ops, pc : WaitPcs \cup RunPcs, target : Sessions \cup {None}]

\* The value of pending_operation a guarded operation sets: abort is a CLOSE.
Operation(op) ==
    CASE op = "open" -> "OPEN" [] op = "new" -> "NEW"
      [] op = "duplicate" -> "DUPLICATE" [] OTHER -> "CLOSE"

ASSUME ConstantsAssumption ==
    /\ DOMAIN Pretty = Progs
    /\ Switching \subseteq Progs /\ Erring \subseteq Progs
    /\ Pids \subseteq Nat \ {0} /\ Outside \subseteq Pids
    /\ OutsideProg \in Progs
    /\ None \notin Sessions
    /\ Absent \notin Seq(Entries)
    /\ InitFiles \in [Sessions -> Seq(Entries) \cup {Absent}]
    /\ LockedByOther \subseteq Sessions /\ Unreadable \subseteq Sessions
    /\ \A s \in LockedByOther \cup Unreadable : InitFiles[s] # Absent
    /\ LoadAtStart \in Sessions \cup {None}

TypeOK ==
    /\ client \in Seq(ClientRecords)
    /\ session_path \in Sessions \cup {None}
    /\ session_name \in Sessions \cup {None}
    /\ pending_operation \in {"NONE", "OPEN", "NEW", "DUPLICATE", "CLOSE"}
    /\ stack \in Seq(Frames)
    /\ cursor \in Nat \ {0}
    /\ wanted \in Seq(Entries)
    /\ file \in [Sessions -> Seq(Entries) \cup {Absent}]
    /\ locks \subseteq (Sessions \X Sessions)
    /\ proc \in [Pids -> ProcRecords]
    /\ exited \in BOOLEAN
    /\ requests \in Nat

----------------------------------------------------------------------------
(* Processes                                                               *)

Process(state, prog) ==
    [state |-> state, prog |-> prog, todo |-> <<>>, project |-> None,
     signalled |-> FALSE]

Running == {p \in Pids : proc[p].state \in {"starting", "up", "lone"}}

\* What is left of a process: answers it gave that nsmd has not read. A child
\* is a zombie until nsmd reaps it.
Corpse(p) ==
    [Process(IF p \in Outside THEN "gone" ELSE "zombie", proc[p].prog)
        EXCEPT !.todo = proc[p].todo]

\* kill(pid, SIGTERM): the process is asked to die and may do so at any time.
Signal(ps) ==
    [p \in Pids |-> IF p \in ps \cap Running
                    THEN [proc[p] EXCEPT !.signalled = TRUE] ELSE proc[p]]

\* A UDP message to the port of process p; nobody reads it once p is dead.
Send(ps, command) ==
    [p \in Pids |-> IF p \in ps \cap Running
                    THEN [proc[p] EXCEPT !.todo = Append(@, command)]
                    ELSE proc[p]]

\* To a null address, which a client that never announced itself has, nothing
\* can be sent (what liblo does with one is not modelled).
SendOpen(p) ==
    [q \in Pids |-> IF q = p /\ p \in Running
                    THEN [proc[q] EXCEPT !.todo = Append(@, "open"),
                                         !.project = session_path]
                    ELSE proc[q]]

----------------------------------------------------------------------------
(* The client list                                                         *)

\* c->name: launch() makes it the basename of the executable, announce, which
\* also brings the capabilities, replaces it for good.
Name(c) == IF c.smart THEN Pretty[c.prog] ELSE c.prog

\* name.id, the last part of the path of a client's project.
Project(c) == <<Name(c), c.id>>

\* Every lookup of nsmd returns the FIRST match of a walk through the list.
First(S, i) == i \in S /\ \A j \in S : i <= j

ById(id) == {i \in DOMAIN client : client[i].id = id}
ByName(name) == {i \in DOMAIN client : Name(client[i]) = name}
ByAddress(p) == {i \in DOMAIN client : client[i].addr = p}
ByPid(p) == {i \in DOMAIN client : client[i].pid = p}

\* The slot announce looks for: same executable, launched, not announced yet.
Expected(prog) ==
    {i \in DOMAIN client : /\ client[i].prog = prog
                           /\ ~client[i].active /\ client[i].pending = "START"}

\* generate_client_id retries until the id is not in the list.
AnyIds == Ids

FreshIds == Ids \ {client[i].id : i \in DOMAIN client}

ClientList ==
    [i \in DOMAIN client |->
        [name |-> Name(client[i]), prog |-> client[i].prog, id |-> client[i].id]]

CanSwitch(c) == c.smart /\ c.prog \in Switching

HasErrors == \E i \in DOMAIN client : client[i].active /\ client[i].error

RepliesStillPending ==
    \E i \in DOMAIN client : client[i].active /\ client[i].pending # "NONE"

KilledAlive(cl) ==
    \E i \in DOMAIN cl : cl[i].pending \in {"QUIT", "KILL"} /\ cl[i].pid > 0

\* launch(): reuse the client of that id if there is one, else append a new
\* one; what was in the reused one (name, active, capabilities, addr, error)
\* stays, and so does its executable, whichever is run.
Enlist(prog, id, pid) ==
    \/ \E i \in DOMAIN client :
          /\ First(ById(id), i)
          /\ client' = [client EXCEPT ![i].pending = "START", ![i].pid = pid]
    \/ /\ ById(id) = {}
       /\ client' = Append(client,
             [id |-> id, prog |-> prog, pid |-> pid, active |-> FALSE,
              smart |-> FALSE, pending |-> "START", error |-> FALSE, addr |-> 0])

Unborn == {p \in Pids : proc[p].state = "unborn"}

Launch(prog, id) ==
    \/ \E p \in Unborn :
          /\ First(Unborn, p)
          /\ proc' = [proc EXCEPT ![p] = Process("starting", prog)]
          /\ Enlist(prog, id, p)
    \/ /\ Unborn = {}
       /\ Enlist(prog, id, -1)
       /\ UNCHANGED proc

HandleDeathKeepPid(p) ==
    \/ ByPid(p) = {} /\ UNCHANGED client
    \/ \E i \in DOMAIN client :
          /\ First(ByPid(p), i)
          /\ client' = [client EXCEPT ![i].pending = "NONE", ![i].active = FALSE]

\* handle_client_process_death: a client told to quit leaves the list, any
\* other stays as a stopped client. Capabilities and address are kept.
HandleDeath(p) ==
    \/ ByPid(p) = {} /\ UNCHANGED client
    \/ \E i \in DOMAIN client :
          /\ First(ByPid(p), i)
          /\ client' = IF client[i].pending = "QUIT" THEN RemoveAt(client, i)
                       ELSE [client EXCEPT ![i].pending = "NONE",
                                           ![i].active = FALSE, ![i].pid = 0]

\* command_client_to_quit on the clients at `which`. A client that announced
\* in an earlier life but is not active gets neither branch of the code.
Quits(i) == client[i].active \/ (~client[i].smart /\ client[i].pid > 0)

CommandQuit(which) ==
    /\ client' = [i \in DOMAIN client |->
                    IF i \in which /\ Quits(i)
                    THEN [client[i] EXCEPT !.pending = "QUIT"] ELSE client[i]]
    /\ proc' = Signal({client[i].pid : i \in {j \in which : Quits(j)}})

----------------------------------------------------------------------------
(* Handlers in progress                                                    *)

Top == Head(stack)

Listening == ~exited /\ (stack # <<>> => Top.pc \in WaitPcs)

Push(op, target, pc) ==
    stack' = <<[op |-> op, target |-> target, pc |-> pc]>> \o stack

AtOneOf(pcs) == ~exited /\ stack # <<>> /\ Top.pc \in pcs

At(pc) == AtOneOf({pc})

Goto(pc) == stack' = [stack EXCEPT ![1].pc = pc]

\* A handler returns. Every handler that can wait leaves pending_operation at
\* NONE; only load_session_file called from main() does not touch it.
Return ==
    /\ stack' = Tail(stack)
    /\ pending_operation' = IF Top.op = "load" THEN pending_operation ELSE "NONE"

ReturnUnchanged ==
    /\ Return
    /\ UNCHANGED <<client, session_path, session_name, cursor, wanted, file,
                   locks, proc, exited, requests>>

\* A step that leaves the session and the files as they are, by a user who
\* asked for it or by nsmd and the processes.
SameFiles == UNCHANGED <<session_path, session_name, file, locks, exited>>
SameSession == SameFiles /\ UNCHANGED requests
Asked == requests < MaxRequests /\ requests' = requests + 1

\* A step that leaves the handlers in progress as they are.
SameControl == UNCHANGED <<pending_operation, stack, cursor, wanted>>

----------------------------------------------------------------------------
(* Server operations: how each handler starts                              *)

BeginUnguarded(op, target, pc) ==
    /\ Listening /\ Len(stack) < MaxDepth /\ Asked
    /\ Push(op, target, pc)
    /\ pending_operation' = IF op \in Guarded THEN Operation(op)
                            ELSE pending_operation
    /\ UNCHANGED <<client, cursor, wanted, proc>> /\ SameFiles

\* A handler that waits, from the test of pending_operation to its first
\* call that changes state.
Begin(op, target, pc) ==
    /\ Listening /\ Len(stack) < MaxDepth /\ Asked
    /\ pending_operation = "NONE"
    /\ Push(op, target, pc)
    /\ pending_operation' = IF op \in Guarded THEN Operation(op)
                            ELSE pending_operation
    /\ UNCHANGED <<client, cursor, wanted, proc>> /\ SameFiles

\* Bound: no process gets a backlog beyond MaxBacklog.
BacklogFree == \A p \in Running : Len(proc[p].todo) < MaxBacklog

\* save tests pending_operation but never sets it.
Save == session_path # None /\ BacklogFree /\ Begin("save", None, "save")

Open(s) ==
    /\ BacklogFree
    /\ Begin("open", s, IF session_path # None THEN "save" ELSE "load")

NewUnchecked(s) ==
    /\ BacklogFree
    /\ Begin("new", s, IF session_path # None THEN "save" ELSE "create")

New(s) ==
    /\ file[s] = Absent /\ BacklogFree
    /\ Begin("new", s, IF session_path # None THEN "save" ELSE "create")

Duplicate(s) ==
    /\ session_path # None /\ file[s] = Absent /\ BacklogFree
    /\ Begin("duplicate", s, "save")

Close == session_path # None /\ BacklogFree /\ Begin("close", None, "save")

Abort == session_path # None /\ Begin("abort", None, "close")

\* quit, SIGINT and SIGTERM, and the death of nsmd's parent: no test at all.
\* A signal also interrupts a handler that does not wait, between any two of its
\* steps (within a step: SessionLock, where a step is one system call). One that
\* comes when quit is about to call exit() ends in the same call.
Quit ==
    /\ ~exited /\ Len(stack) < MaxDepth /\ Asked
    /\ stack # <<>> => ~(Top.op = "quit" /\ Top.pc = "closed")
    /\ Push("quit", None, "close")
    /\ UNCHANGED <<client, cursor, wanted, proc, pending_operation>> /\ SameFiles

----------------------------------------------------------------------------
(* command_all_clients_to_save and wait_for_replies                        *)

CommandSave ==
    /\ At("save")
    /\ IF session_path \in ReadOnly
       THEN Goto("saved") /\ UNCHANGED <<client, file, proc>>
       ELSE /\ file' = [file EXCEPT ![session_path] = ClientList]
            /\ client' = [i \in DOMAIN client |->
                            IF client[i].active
                            THEN [client[i] EXCEPT !.pending = "SAVE"]
                            ELSE client[i]]
            /\ proc' = Send({client[i].addr : i \in
                               {j \in DOMAIN client : client[j].active}}, "save")
            /\ Goto("replies")
    /\ UNCHANGED <<session_path, session_name, pending_operation, cursor,
                   wanted, locks, exited, requests>>

AfterReplies == Goto(IF Top.pc = "replies" THEN "saved" ELSE "loaded")

\* Both waits for replies, of a save and of the end of a load.
RepliesDone ==
    /\ AtOneOf({"replies", "opening"})
    /\ ~RepliesStillPending
    /\ AfterReplies
    /\ UNCHANGED <<client, proc, pending_operation, cursor, wanted>> /\ SameSession

\* 60 seconds have passed: the clients that did not reply are passed over.
RepliesTimeout ==
    /\ AtOneOf({"replies", "opening"})
    /\ RepliesStillPending
    /\ AfterReplies
    /\ UNCHANGED <<client, proc, pending_operation, cursor, wanted>> /\ SameSession

\* The handler goes on after its save. open and duplicate stop if a client
\* has an error, duplicate copies the session directory with cp -R, which may
\* fail (or copy into a directory that is there) and is not checked.
AfterSave ==
    /\ At("saved")
    /\ \/ Top.op = "save" /\ Return /\ UNCHANGED file
       \/ Top.op \in {"open", "duplicate"} /\ HasErrors /\ Return /\ UNCHANGED file
       \/ /\ Top.op \in {"open", "duplicate"} /\ ~HasErrors
          /\ \/ UNCHANGED file
             \/ /\ Top.op = "duplicate"
                /\ file' = [file EXCEPT ![Top.target] = file[session_path]]
          /\ Goto("load") /\ UNCHANGED pending_operation
       \/ /\ Top.op \in {"new", "close"}
          /\ Goto("close") /\ UNCHANGED <<file, pending_operation>>
    /\ UNCHANGED <<client, session_path, session_name, cursor, wanted, locks,
                   proc, exited, requests>>

----------------------------------------------------------------------------
(* close_session                                                           *)

\* wait_for_killed_clients_to_die returns at once if nothing is left to kill.
GotoKilled == IF KilledAlive(client') THEN Goto("killed") /\ UNCHANGED cursor
              ELSE Goto("purge") /\ cursor' = 1

\* Where the handler goes on after close_session.
AfterClose == IF Top.op = "new" THEN "create" ELSE "closed"

\* close_session up to its wait. Without a session it returns at once.
CloseBegin ==
    /\ At("close")
    /\ IF session_path = None
       THEN Goto(AfterClose) /\ UNCHANGED <<client, proc, cursor>>
       ELSE CommandQuit(DOMAIN client) /\ GotoKilled
    /\ UNCHANGED <<pending_operation, wanted>> /\ SameSession

KilledDone ==
    /\ At("killed") /\ ~KilledAlive(client)
    /\ Goto("purge") /\ cursor' = 1
    /\ UNCHANGED <<client, proc, pending_operation, wanted>> /\ SameSession

\* 30 rounds have passed: SIGKILL to every client that has a process. After
\* the last round nsmd does not look again whether anybody is left to kill.
KilledTimeout ==
    /\ At("killed")
    /\ proc' = LET victims == {client[i].pid : i \in DOMAIN client} \cap Running IN
               [p \in Pids |-> IF p \in victims THEN Corpse(p) ELSE proc[p]]
    /\ Goto("purge") /\ cursor' = 1
    /\ UNCHANGED <<client, pending_operation, wanted>> /\ SameSession

NextPosBack(erased) == IF erased THEN cursor - 1 ELSE cursor + 1

\* One turn of the loops of purge_inactive_clients and clear_clients. erase()
\* returns the next element and the loop header steps over it; from end(),
\* which erasing the last element returns, ++ of a libstdc++ list goes to
\* begin().
NextPos(erased) == IF erased /\ cursor = Len(client) THEN 1 ELSE cursor + 1

PurgeStep ==
    /\ At("purge") /\ cursor <= Len(client)
    /\ LET inactive == ~client[cursor].active IN
       /\ client' = IF inactive THEN RemoveAt(client, cursor) ELSE client
       /\ cursor' = NextPos(inactive)
    /\ UNCHANGED <<proc, pending_operation, stack, wanted>> /\ SameSession

\* After the purge, close_session clears the list, load_session_file goes on.
PurgeEnd ==
    /\ At("purge") /\ cursor > Len(client)
    /\ Goto(IF Top.op \in {"open", "duplicate", "load"} THEN "switch" ELSE "clear")
    /\ cursor' = 1
    /\ UNCHANGED <<client, proc, pending_operation, wanted>> /\ SameSession

ClearStep ==
    /\ At("clear") /\ cursor <= Len(client)
    /\ client' = RemoveAt(client, cursor)
    /\ cursor' = NextPos(TRUE)
    /\ UNCHANGED <<proc, pending_operation, stack, wanted>> /\ SameSession

\* The end of close_session: the lock file of the names at hand is deleted.
ClearEnd ==
    /\ At("clear") /\ cursor > Len(client)
    /\ locks' = locks \ {<<session_name, session_path>>}
    /\ session_path' = None /\ session_name' = None
    /\ Goto(AfterClose)
    /\ cursor' = 1
    /\ UNCHANGED <<client, pending_operation, wanted, file, proc, exited, requests>>

Closed == At("closed") /\ Top.op # "quit" /\ ReturnUnchanged

\* handle_signal_clean_exit calls exit() from whatever it interrupted.
CleanExit ==
    /\ At("closed") /\ Top.op = "quit"
    /\ exited' = TRUE /\ stack' = <<>>
    /\ UNCHANGED <<client, session_path, session_name, pending_operation,
                   cursor, wanted, file, locks, proc, requests>>

CreateFailsPending ==
    /\ At("create") /\ stack' = Tail(stack)
    /\ UNCHANGED <<client, session_path, session_name, pending_operation, cursor,
                   wanted, file, locks, proc, exited, requests>>

\* The rest of new. mkpath fails if the directory is already there. A lock
\* file is written without a look at the one that may exist, and session.nsm
\* without a look at the result: the session is open with or without it.
CreateFails == At("create") /\ ReturnUnchanged

CreateSession ==
    /\ At("create")
    /\ session_path' = Top.target /\ session_name' = Top.target
    /\ locks' = locks \cup {<<Top.target, Top.target>>}
    /\ file' = IF Top.target \in ReadOnly THEN file
               ELSE [file EXCEPT ![Top.target] = ClientList]
    /\ Return
    /\ UNCHANGED <<client, cursor, wanted, proc, exited, requests>>

----------------------------------------------------------------------------
(* load_session_file                                                       *)

\* The clients load_session_file keeps: capable of switch, and not more of a
\* name than the file has, in list order.
Rank(i) == Cardinality({j \in 1..i : /\ Name(client[j]) = Name(client[i])
                                     /\ CanSwitch(client[j])})
Wanted(entries, name) ==
    Cardinality({k \in DOMAIN entries : entries[k].name = name})
Surplus(entries) ==
    {i \in DOMAIN client : \/ ~CanSwitch(client[i])
                           \/ Rank(i) > Wanted(entries, Name(client[i]))}

OwnLockKept == locks

OwnLockDropped ==
    IF session_path # None /\ session_name # None
    THEN locks \ {<<session_name, session_path>>} ELSE locks

LoadNoFile == At("load") /\ file[Top.target] = Absent /\ ReturnUnchanged

\* The session is locked, or its file cannot be opened: by then the own lock
\* file is deleted and session_name is the new name.
LoadRefused ==
    /\ At("load") /\ file[Top.target] # Absent
    /\ \/ <<Top.target, Top.target>> \in OwnLockDropped
       \/ Top.target \in Unreadable
    /\ locks' = OwnLockDropped
    /\ session_name' = Top.target
    /\ Return
    /\ UNCHANGED <<client, session_path, cursor, wanted, file, proc, exited,
                   requests>>

LoadBeginUnchecked ==
    /\ At("load") /\ file[Top.target] # Absent /\ Top.target \notin Unreadable
    /\ locks' = OwnLockDropped
    /\ session_name' = Top.target /\ session_path' = Top.target
    /\ wanted' = file[Top.target]
    /\ CommandQuit(Surplus(file[Top.target])) /\ GotoKilled
    /\ UNCHANGED <<pending_operation, file, exited, requests>>

LoadBegin ==
    /\ At("load") /\ file[Top.target] # Absent
    /\ <<Top.target, Top.target>> \notin OwnLockDropped
    /\ Top.target \notin Unreadable
    /\ locks' = OwnLockDropped
    /\ session_name' = Top.target /\ session_path' = Top.target
    /\ wanted' = file[Top.target]
    /\ CommandQuit(Surplus(file[Top.target]))
    /\ GotoKilled
    /\ UNCHANGED <<pending_operation, file, exited, requests>>

\* The client an entry of the file may be served by: the same name and id if
\* there is one, else the first of that name.
Candidate(e, i) ==
    LET same == ById(e.id) \cap ByName(e.name) IN
    First(IF same # {} THEN same ELSE ByName(e.name), i)

SwitchClientOldId ==
    /\ At("switch") /\ wanted # <<>>
    /\ \E i \in DOMAIN client :
          /\ Candidate(Head(wanted), i) /\ client[i].pending = "NONE"
          /\ client' = [client EXCEPT ![i].pending = "OPEN"]
          /\ proc' = SendOpen(client[i].addr)
    /\ wanted' = Tail(wanted)
    /\ UNCHANGED <<pending_operation, stack, cursor>> /\ SameSession

\* One turn of the loop over new_clients. A client started by this loop is
\* not pre_existing, but it also has a reply pending, so that flag of the code
\* tells nothing more.
SwitchClient ==
    /\ At("switch") /\ wanted # <<>>
    /\ \E i \in DOMAIN client :
          /\ Candidate(Head(wanted), i) /\ client[i].pending = "NONE"
          /\ client' = [client EXCEPT ![i].id = Head(wanted).id,
                                      ![i].pending = "OPEN"]
          /\ proc' = SendOpen(client[i].addr)
    /\ wanted' = Tail(wanted)
    /\ UNCHANGED <<pending_operation, stack, cursor>> /\ SameSession

LaunchClient ==
    /\ At("switch") /\ wanted # <<>>
    /\ \A i \in DOMAIN client :
          Candidate(Head(wanted), i) => client[i].pending # "NONE"
    /\ Launch(Head(wanted).prog, Head(wanted).id)
    /\ wanted' = Tail(wanted)
    /\ UNCHANGED <<pending_operation, stack, cursor>> /\ SameSession

SwitchEnd ==
    /\ At("switch") /\ wanted = <<>>
    /\ Goto("announce")
    /\ UNCHANGED <<client, proc, pending_operation, cursor, wanted>> /\ SameSession

\* wait_for_announce: everybody has announced, or 5 seconds have passed.
AnnounceEnd ==
    /\ At("announce") /\ Goto("opening")
    /\ UNCHANGED <<client, proc, pending_operation, cursor, wanted>> /\ SameSession

LoadEndUnlocked == At("loaded") /\ ReturnUnchanged

\* The lock file is written, unconditionally, for the name the load began with.
LoadEnd ==
    /\ At("loaded")
    /\ locks' = locks \cup {<<Top.target, Top.target>>}
    /\ Return
    /\ UNCHANGED <<client, session_path, session_name, cursor, wanted, file,
                   proc, exited, requests>>

----------------------------------------------------------------------------
(* Handlers that return at once                                            *)

Add(prog) ==
    /\ Listening /\ Asked /\ session_path # None /\ Len(client) < MaxClients
    /\ \E id \in FreshIds : Launch(prog, id)
    /\ SameControl /\ SameFiles

\* announce, by a process that has not announced yet. An expected client gets
\* the name its program announces in place of the one it had (smart').
Announce(p) ==
    /\ Listening /\ proc[p].state = "starting" /\ session_path # None
    /\ \/ \E i \in DOMAIN client :
             /\ First(Expected(proc[p].prog), i)
             /\ client' = [client EXCEPT ![i].pid = p, ![i].addr = p,
                             ![i].smart = TRUE, ![i].active = TRUE,
                             ![i].pending = "OPEN"]
       \/ /\ Expected(proc[p].prog) = {}
          /\ \E id \in FreshIds : client' = Append(client,
                [id |-> id, prog |-> proc[p].prog, pid |-> p, active |-> TRUE,
                 smart |-> TRUE, pending |-> "OPEN", error |-> FALSE, addr |-> p])
    /\ proc' = [proc EXCEPT ![p].state = "up", ![p].project = session_path,
                            ![p].todo = Append(@, "open")]
    /\ SameControl /\ SameSession

AnnounceRefused(p) ==
    /\ Listening /\ proc[p].state = "starting" /\ session_path = None
    /\ proc' = [proc EXCEPT ![p].state = "lone"]
    /\ UNCHANGED client /\ SameControl /\ SameSession

\* /reply and /error answer the oldest command of the process, but all they
\* do is to clear whatever command is pending on the client at that address.
Answer(p, ok) ==
    /\ Listening /\ proc[p].todo # <<>>
    /\ proc' = [proc EXCEPT ![p].todo = Tail(@)]
    /\ \/ ByAddress(p) = {} /\ UNCHANGED client
       \/ \E i \in DOMAIN client :
             /\ First(ByAddress(p), i)
             /\ client' = [client EXCEPT ![i].error = ~ok, ![i].pending = "NONE"]
    /\ SameControl /\ SameSession

\* The GUI's per-client requests.
Stop(i) ==
    /\ Listening /\ Asked /\ First(ById(client[i].id), i) /\ client[i].pid > 0
    /\ client' = [client EXCEPT ![i].pending = "KILL"]
    /\ proc' = Signal({client[i].pid})
    /\ SameControl /\ SameFiles

Stopped(c) == c.pid = 0 /\ ~c.active

Remove_(i) ==
    /\ Listening /\ Asked /\ First(ById(client[i].id), i) /\ Stopped(client[i])
    /\ client' = RemoveAt(client, i)
    /\ UNCHANGED proc /\ SameControl /\ SameFiles

Resume(i) ==
    /\ Listening /\ Asked /\ First(ById(client[i].id), i) /\ Stopped(client[i])
    /\ Launch(client[i].prog, client[i].id)
    /\ SameControl /\ SameFiles

ClientSaveUnsent(i) ==
    /\ Listening /\ Asked /\ First(ById(client[i].id), i) /\ client[i].active
    /\ BacklogFree
    /\ client' = [client EXCEPT ![i].pending = "SAVE"]
    /\ UNCHANGED proc /\ SameControl /\ SameFiles

ClientSave(i) ==
    /\ Listening /\ Asked /\ First(ById(client[i].id), i) /\ client[i].active
    /\ BacklogFree
    /\ client' = [client EXCEPT ![i].pending = "SAVE"]
    /\ proc' = Send({client[i].addr}, "save")
    /\ SameControl /\ SameFiles

----------------------------------------------------------------------------
(* Processes die, and nsmd notices                                         *)

\* A process exits, on a signal, by itself or because exec failed. Answers it
\* gave may still be on their way; a child waits to be reaped.
Exit(p) ==
    /\ Listening /\ p \in Running
    /\ proc' = [proc EXCEPT ![p] = Corpse(p)]
    /\ UNCHANGED client /\ SameControl /\ SameSession

\* handle_sigchld, for one child.
Reap(p) ==
    /\ Listening /\ proc[p].state = "zombie"
    /\ proc' = [proc EXCEPT ![p].state = "gone"]
    /\ HandleDeath(p)
    /\ SameControl /\ SameSession

\* purge_dead_clients, for one client whose pid no longer exists.
PurgeDead(p) ==
    /\ Listening /\ proc[p].state = "gone" /\ ByPid(p) # {}
    /\ HandleDeath(p)
    /\ UNCHANGED proc /\ SameControl /\ SameSession

----------------------------------------------------------------------------
(* Specification                                                           *)

\* With --load-session, main() calls load_session_file before its loop.
Init ==
    /\ client = <<>> /\ wanted = <<>> /\ cursor = 1
    /\ session_path = None /\ session_name = None
    /\ pending_operation = "NONE"
    /\ stack = IF LoadAtStart = None THEN <<>>
               ELSE <<[op |-> "load", target |-> LoadAtStart, pc |-> "load"]>>
    /\ file = InitFiles
    /\ locks = {<<s, s>> : s \in LockedByOther}
    /\ proc = [p \in Pids |->
                  Process(IF p \in Outside THEN "starting" ELSE "unborn",
                          OutsideProg)]
    /\ exited = FALSE
    /\ requests = 0

\* What nsmd does by itself, in the handler in progress.
Daemon ==
    \/ CommandSave \/ RepliesDone \/ RepliesTimeout \/ AfterSave
    \/ CloseBegin \/ KilledDone \/ KilledTimeout
    \/ PurgeStep \/ PurgeEnd \/ ClearStep \/ ClearEnd \/ Closed \/ CleanExit
    \/ CreateFails \/ CreateSession
    \/ LoadNoFile \/ LoadRefused \/ LoadBegin
    \/ SwitchClient \/ LaunchClient \/ SwitchEnd \/ AnnounceEnd \/ LoadEnd

Request ==
    \/ Save \/ Close \/ Abort \/ Quit
    \/ \E s \in Sessions : Open(s) \/ New(s) \/ Duplicate(s)
    \/ \E prog \in Progs : Add(prog)
    \/ \E i \in DOMAIN client : Stop(i) \/ Remove_(i) \/ Resume(i) \/ ClientSave(i)

Environment ==
    \E p \in Pids : \/ Announce(p) \/ AnnounceRefused(p)
                    \/ Answer(p, TRUE)
                    \/ proc[p].prog \in Erring /\ Answer(p, FALSE)
                    \/ Exit(p) \/ Reap(p) \/ PurgeDead(p)

\* The main loop finds nothing to do, or nsmd is gone.
Idle == stack = <<>> /\ UNCHANGED vars

Next == Daemon \/ Request \/ Environment \/ Idle

Spec == Init /\ [][Next]_vars

\* nsmd goes on as long as it has something to do: its waits are counted loops
\* and handlers terminate. Every wait reaps dead children and purges clients
\* whose process is gone. Nothing is assumed of users or client processes.
Fairness ==
    /\ WF_vars(Daemon)
    /\ \A p \in Pids : WF_vars(Reap(p) \/ PurgeDead(p))

FairSpec == Spec /\ Fairness

----------------------------------------------------------------------------
(* Properties                                                              *)

\* Only saves are in progress: the session is neither being loaded nor being
\* closed.
Settled == ~exited /\ \A k \in DOMAIN stack : stack[k].op = "save"

\* pending_operation tells the truth: it is set exactly while one of the
\* guarded operations is in progress, names that operation, and no second
\* guarded operation is in progress, however handlers nest in the wait loops.
OneOperation ==
    ~exited =>
      /\ (pending_operation = "NONE") <=>
             \A k \in DOMAIN stack : stack[k].op \notin Guarded
      /\ \A k \in DOMAIN stack : stack[k].op \in Guarded =>
            /\ pending_operation = Operation(stack[k].op)
            /\ \A j \in DOMAIN stack \ {k} : stack[j].op \notin Guarded

\* nsmd leaves no lock file behind: a lock file that is not another nsmd's is
\* that of the session open now, also after failed loads, switches and exit.
LockOnlyForOpenSession ==
    \A l \in locks : \/ l[1] = l[2] /\ l[1] \in LockedByOther
                     \/ l = <<session_name, session_path>>

\* A session that is open and settled has its lock file, unless a failed load
\* has given it the name of another session (load_session_file deletes the
\* lock file and calls set_name before it knows that it can load).
LockHeldWhileOpen ==
    Settled /\ session_path # None /\ session_name = session_path
        => <<session_path, session_path>> \in locks

\* What another nsmd has open stays with it: its lock file is never deleted,
\* and its session is never opened, created or duplicated here.
OthersKeepTheirSessions ==
    \A s \in LockedByOther : <<s, s>> \in locks /\ session_path # s

\* The project paths of more than one client.
Shared ==
    {Project(client[i]) : i \in {k \in DOMAIN client :
        \E j \in DOMAIN client \ {k} : Project(client[j]) = Project(client[k])}}

\* Clients come to share a project path only where one of them announces itself
\* under a name it did not have before: neither launch and switch nor a session
\* loaded over leftovers of the last one, with any names and ids in its file,
\* gives a client the path of another one.  (That the last case does happen is
\* what UniqueProjects, below, shows.)
ProjectsStayApart ==
    [][\A path \in Shared' \ Shared :
          \E i \in DOMAIN client : /\ i \in DOMAIN client'
                                   /\ Name(client'[i]) # Name(client[i])
                                   /\ Project(client'[i]) = path]_vars

\* The loop that switches clients and launches the missing ones leaves, for
\* every entry of the session file it has passed, a client of that id which
\* was told to open the project or to start.  (Not always of the entry's
\* program: launch looks a client up by its id alone.)
LoadServesEveryEntry ==
    At("switch") =>
        \A k \in 1..(Len(file[Top.target]) - Len(wanted)) :
            \E i \in DOMAIN client : /\ client[i].id = file[Top.target][k].id
                                     /\ client[i].pending \in {"OPEN", "START"}

\* nsmd never waits in vain for a living client: while a save or an open is
\* pending on an active client, the process at its address still owes an
\* answer, although answers are not matched with commands.
NoVainWait ==
    \A i \in DOMAIN client :
        /\ client[i].active
        /\ client[i].pending \in {"SAVE", "OPEN"}
        /\ client[i].addr \in Running
        => proc[client[i].addr].todo # <<>>

\* Every guarded operation ends, whatever clients do: pending_operation, which
\* refuses all further operations, does not stay set.
OperationsEnd ==
    pending_operation # "NONE" ~> pending_operation = "NONE" \/ exited

\* Every child that dies is reaped and its client told so: no client keeps the
\* pid of a dead process.
DeathNoticed ==
    \A p \in Pids : proc[p].state = "zombie" ~> ByPid(p) = {} \/ exited

----------------------------------------------------------------------------
(* The session, as a user sees it                                          *)

\* A load that has taken its session: it will write the lock file of its target.
Loading(f) ==
    /\ f.op \in {"open", "duplicate"}
    /\ f.pc \in {"killed", "purge", "switch", "announce", "opening", "loaded"}

SessionOperation ==
    IF exited THEN "NONE"
    ELSE IF \E k \in DOMAIN stack : Loading(stack[k]) THEN "TAKEN"
    ELSE pending_operation

SessionsOnDisk == {s \in Sessions : file[s] # Absent}

OwnLocks == {s \in Sessions \ LockedByOther : \E l \in locks : l[2] = s}

Leaving == exited \/ \E k \in DOMAIN stack : stack[k].op = "quit"

Promise == INSTANCE Session WITH
    Others <- LockedByOther, session <- session_path,
    operation <- SessionOperation, existing <- SessionsOnDisk,
    locked <- OwnLocks, quitting <- Leaving, ended <- exited

\* Through all its waits, nested handlers and failures nsmd keeps what Session
\* promises: a session is only replaced by the one operation in progress, by one
\* that exists and that no other nsmd has locked; once it has been taken the
\* operation ends with its lock file or with nsmd; nothing that exists is
\* created; and nsmd does not terminate with a session or a lock file.
KeepsItsPromise == Promise!Spec

----------------------------------------------------------------------------
(* What the documentation promises and the code does not keep              *)

\* nsmd.cpp, where load_session_file hands an entry to a client of the last
\* session: "since we already shutdown clients not capable of 'switch', we can
\* assume that these are". So whoever the loop picks announced that capability.
OnlySwitchersSwitch ==
    At("switch") /\ wanted # <<>> =>
        \A i \in DOMAIN client :
            Candidate(Head(wanted), i) /\ client[i].pending = "NONE"
            => CanSwitch(client[i])

\* nsmd.cpp, on the load of a session while another is open: clients are
\* switched if they support it, otherwise closed and opened again. So when the
\* loop over the clients wanted is done, no client that had answered all its
\* commands still works on the old session.
NobodyLeftBehind ==
    At("switch") /\ wanted = <<>> =>
        \A i \in DOMAIN client :
            /\ client[i].active /\ client[i].pending = "NONE"
            /\ client[i].addr \in Running
            => proc[client[i].addr].project = session_path

\* docs/src/api/index.adoc, on the client_id that goes with every "open": it is
\* the name the client announced and a unique identifier. So no two clients of
\* the list have one project path.
UniqueProjects ==
    \A i, j \in DOMAIN client : Project(client[i]) = Project(client[j]) => i = j

\* CHANGELOG 1.6.1: all clients of the session are closed when closing the
\* session. A child that survives nsmd was at least told to terminate.
NoOrphans ==
    exited => \A p \in Running \ Outside : proc[p].signalled
=============================================================================
