----------------------------- MODULE SessionLock -----------------------------
(***************************************************************************)
(* Several session daemons of one user and what keeps two of them from     *)
(* opening one session: the lock files in the run-time directory           *)
(* (src/nsmd.cpp, src/file.cpp).                                           *)
(*                                                                         *)
(* A daemon is cut down to what it does to lock files, session files and   *)
(* directories, one system call at a time: between two of its calls the    *)
(* other daemons run, any of them may be killed, and the handlers of       *)
(* SIGINT and SIGTERM may close the session that session_path points to at *)
(* the time.  Clients are left to the module Nsmd; here a wait for clients *)
(* is a phase that ends at some time, in which no request but quit is      *)
(* heard.                                                                  *)
(***************************************************************************)
EXTENDS Integers, FiniteSets

CONSTANTS
    Daemons,    \* the nsmd processes there can be at a time
    Sessions,   \* absolute session paths
    NameOf,     \* set_name: the simple name, the last part of a path
    HashOf,     \* simple_hash of a path: djb2 modulo 65521
    InitSaved,  \* the sessions on disk
    Unreadable, \* those of them whose session.nsm cannot be opened
    None        \* the NULL pointer

VARIABLES
    session_path, \* of every daemon: the open session, or None
    session_name, \* of every daemon: its simple name, or that of a failed load
    phase,        \* of every daemon: how far it is in an operation
    op,           \* of every daemon: the operation, if the phase serves several
    target,       \* of every daemon: the session to open or to create
    lock,         \* the lock files: the session and the daemon they tell of
    saved,        \* the sessions with a session.nsm
    dirs,         \* the session directories
    crashed,      \* history: a daemon was killed since the machine came up
    slips         \* history: what has gone past the lock files

vars == <<session_path, session_name, phase, op, target, lock, saved, dirs,
          crashed, slips>>
history == <<crashed, slips>>
disk == <<saved, dirs>>

----------------------------------------------------------------------------
(* Types                                                                   *)

Names == {NameOf[s] : s \in Sessions}
LockFiles == Names \X {HashOf[s] : s \in Sessions}

\* The phases of one daemon.  "save", "loading", "close" and "abandon" are waits
\* for clients; "abandon" is the close_session of a quit that interrupts a load.
\* In between, session_path points to a session whose lock file is gone or not
\* written yet.
Waits == {"save", "loading", "close", "abandon"}
Between == {"rename", "check", "name", "lock", "unlinked"}
Phases == Waits \cup Between \cup {"gone", "idle", "drop", "copy", "mkdir",
                                   "write", "nsm"}
Ops == {"open", "new", "duplicate", "close", "quit"}
Slips == {"refused", "raced", "collided", "interrupted"}

ASSUME SessionLockAssumption ==
    /\ None \notin Sessions /\ None \notin Names
    /\ None \notin [session : Sessions, daemon : Daemons]
    /\ InitSaved \subseteq Sessions /\ Unreadable \subseteq InitSaved

TypeOK ==
    /\ session_path \in [Daemons -> Sessions \cup {None}]
    /\ session_name \in [Daemons -> Names \cup {None}]
    /\ phase \in [Daemons -> Phases]
    /\ op \in [Daemons -> Ops \cup {None}]
    /\ target \in [Daemons -> Sessions \cup {None}]
    /\ lock \in [LockFiles -> [session : Sessions, daemon : Daemons] \cup {None}]
    /\ saved \subseteq Sessions /\ dirs \subseteq Sessions
    /\ crashed \in BOOLEAN
    /\ slips \subseteq Slips

----------------------------------------------------------------------------
(* Lock files                                                              *)

\* get_lock_file_name
LockFile(name, path) == <<name, HashOf[path]>>
LockOf(s) == LockFile(NameOf[s], s)

NeverUnlocked(d) == lock

\* delete_lock_file of the names the daemon has at hand. A failed load leaves
\* it with the path of one session and the name of another, a signal in the
\* middle of new with a path and no name: no lock file is called "(null)".
Unlocked(d) ==
    IF session_name[d] = None THEN lock
    ELSE [lock EXCEPT ![LockFile(session_name[d], session_path[d])] = None]

\* write_lock_file truncates whatever is there.
Locked(d, s) == [lock EXCEPT ![LockOf(s)] = [session |-> s, daemon |-> d]]

\* d has looked for the lock file of its target and not written it yet; the
\* daemon that is told to quit by then closes the session all the same.
InWindow(d) == phase[d] \in {"loading", "abandon"}
WindowOn(d, s) == InWindow(d) /\ LockOf(session_path[d]) = LockOf(s)

Goto(d, p) == phase' = [phase EXCEPT ![d] = p]

SameNames == UNCHANGED <<session_path, session_name>>

----------------------------------------------------------------------------
(* Requests                                                                *)

Begin(d, o, s) ==
    /\ phase[d] = "idle"
    /\ op' = [op EXCEPT ![d] = o] /\ target' = [target EXCEPT ![d] = s]
    /\ UNCHANGED <<lock, crashed, slips>> /\ UNCHANGED disk /\ SameNames

Open(d, s) ==
    /\ Begin(d, "open", s)
    /\ Goto(d, IF session_path[d] # None THEN "save" ELSE "drop")

\* session_already_exists: no session.nsm. A directory may be there.
New(d, s) ==
    /\ s \notin saved /\ Begin(d, "new", s)
    /\ Goto(d, IF session_path[d] # None THEN "save" ELSE "mkdir")

Duplicate(d, s) ==
    /\ session_path[d] # None /\ s \notin saved
    /\ Begin(d, "duplicate", s) /\ Goto(d, "save")

\* close saves, abort does not; the files see no difference.
Close(d) ==
    /\ session_path[d] # None
    /\ Begin(d, "close", None) /\ Goto(d, "save")

\* quit is heard in the waits, and the handlers of SIGINT and SIGTERM run between
\* any two steps: close_session and exit, whatever was going on. Between two
\* sessions they close one that has no lock file.
Quit(d) ==
    /\ phase[d] # "gone"
    /\ Goto(d, CASE session_path[d] = None -> "gone"
                 [] InWindow(d)            -> "abandon"
                 [] OTHER                  -> "close")
    /\ op' = [op EXCEPT ![d] = "quit"]
    /\ slips' = IF session_path[d] # None /\ phase[d] \in Between
                THEN slips \cup {"interrupted"} ELSE slips
    /\ UNCHANGED <<session_path, session_name, target, lock, saved, dirs, crashed>>

----------------------------------------------------------------------------
(* The operations go on                                                    *)

\* The save is done; clients with errors stop open and duplicate.
SaveDone(d) ==
    /\ phase[d] = "save"
    /\ \/ op[d] \in {"open", "duplicate"} /\ Goto(d, "idle")
       \/ op[d] = "open" /\ Goto(d, "drop")
       \/ op[d] = "duplicate" /\ Goto(d, "copy")
       \/ op[d] \in {"new", "close"} /\ Goto(d, "close")
    /\ UNCHANGED <<op, target, lock, crashed, slips>> /\ UNCHANGED disk /\ SameNames

\* cp -R of duplicate. Into a directory that exists it copies to a subdirectory.
\* A quit before this step is one that also ends the cp.
Copy(d) ==
    /\ phase[d] = "copy" /\ Goto(d, "drop")
    /\ \/ UNCHANGED disk
       \/ /\ target[d] \notin dirs
          /\ dirs' = dirs \cup {target[d]} /\ saved' = saved \cup {target[d]}
    /\ UNCHANGED <<op, target, lock, crashed, slips>> /\ SameNames

\* The end of close_session: the lock file goes, then the path and the name.
Unlink(d) ==
    /\ phase[d] \in {"close", "abandon"} /\ Goto(d, "unlinked")
    /\ lock' = Unlocked(d)
    /\ UNCHANGED <<op, target, crashed, slips>> /\ UNCHANGED disk /\ SameNames

CloseEnd(d) ==
    /\ phase[d] = "unlinked"
    /\ session_path' = [session_path EXCEPT ![d] = None]
    /\ session_name' = [session_name EXCEPT ![d] = None]
    /\ Goto(d, CASE op[d] = "new" -> "mkdir" [] op[d] = "quit" -> "gone"
                 [] OTHER -> "idle")
    /\ UNCHANGED <<op, target, lock, crashed, slips>> /\ UNCHANGED disk

\* load_session_file, first part: the own lock file goes, then the name changes.
DropLock(d) ==
    /\ phase[d] = "drop"
    /\ IF target[d] \in saved
       THEN /\ lock' = IF session_path[d] # None THEN Unlocked(d) ELSE lock
            /\ Goto(d, "rename")
       ELSE Goto(d, "idle") /\ UNCHANGED lock
    /\ UNCHANGED <<op, target, crashed, slips>> /\ UNCHANGED disk /\ SameNames

\* Mutant: set_name takes the whole path for the simple name.
RenameToPath(d) ==
    /\ phase[d] = "rename" /\ Goto(d, "check")
    /\ session_name' = [session_name EXCEPT ![d] = target[d]]
    /\ UNCHANGED <<session_path, op, target, lock, crashed, slips>>
    /\ UNCHANGED disk

Rename(d) ==
    /\ phase[d] = "rename" /\ Goto(d, "check")
    /\ session_name' = [session_name EXCEPT ![d] = NameOf[target[d]]]
    /\ UNCHANGED <<session_path, op, target, lock, crashed, slips>>
    /\ UNCHANGED disk

\* Locked, or session.nsm cannot be opened: the load is given up. The session
\* that was open stays open, without its lock file and under the new name.
Refused(d) ==
    /\ phase[d] = "check"
    /\ lock[LockOf(target[d])] # None \/ target[d] \in Unreadable
    /\ Goto(d, "idle")
    /\ slips' = IF session_path[d] # None THEN slips \cup {"refused"} ELSE slips
    /\ UNCHANGED <<op, target, lock, crashed>> /\ UNCHANGED disk /\ SameNames

TakeUnchecked(d) ==
    /\ phase[d] = "check"
    /\ session_path' = [session_path EXCEPT ![d] = target[d]]
    /\ Goto(d, "loading")
    /\ UNCHANGED <<session_name, op, target, lock, crashed, slips>> /\ UNCHANGED disk

\* stat finds no lock file: the session is taken.
Take(d) ==
    /\ phase[d] = "check"
    /\ lock[LockOf(target[d])] = None /\ target[d] \notin Unreadable
    /\ session_path' = [session_path EXCEPT ![d] = target[d]]
    /\ Goto(d, "loading")
    /\ slips' = IF \E e \in Daemons \ {d} : WindowOn(e, target[d])
                THEN slips \cup {"raced"} ELSE slips
    /\ UNCHANGED <<session_name, op, target, lock, crashed>> /\ UNCHANGED disk

\* The clients have been switched, started and told to open: at last the lock
\* file is written, without another look.
LoadEnd(d) ==
    /\ phase[d] = "loading"
    /\ lock' = Locked(d, target[d])
    /\ Goto(d, "idle")
    /\ UNCHANGED <<op, target, crashed, slips>> /\ UNCHANGED disk /\ SameNames

MkdirAnyway(d) ==
    /\ phase[d] = "mkdir"
    /\ dirs' = dirs \cup {target[d]} /\ Goto(d, "write")
    /\ UNCHANGED <<op, target, lock, saved, crashed, slips>> /\ SameNames

\* mkpath( spath, true ) of new fails if the directory exists.
Mkdir(d) ==
    /\ phase[d] = "mkdir"
    /\ IF target[d] \in dirs THEN Goto(d, "idle") /\ UNCHANGED dirs
       ELSE dirs' = dirs \cup {target[d]} /\ Goto(d, "write")
    /\ UNCHANGED <<op, target, lock, saved, crashed, slips>> /\ SameNames

\* new takes the session, names it, and writes its lock file without a look.
TakeNew(d) ==
    /\ phase[d] = "write" /\ Goto(d, "name")
    /\ session_path' = [session_path EXCEPT ![d] = target[d]]
    /\ UNCHANGED <<session_name, op, target, lock, crashed, slips>>
    /\ UNCHANGED disk

NameNew(d) ==
    /\ phase[d] = "name" /\ Goto(d, "lock")
    /\ session_name' = [session_name EXCEPT ![d] = NameOf[target[d]]]
    /\ UNCHANGED <<session_path, op, target, lock, crashed, slips>>
    /\ UNCHANGED disk

WriteLock(d) ==
    LET s == target[d] IN
    /\ phase[d] = "lock" /\ Goto(d, "nsm")
    /\ lock' = Locked(d, s)
    /\ slips' = IF lock[LockOf(s)] # None \/ \E e \in Daemons : WindowOn(e, s)
                THEN slips \cup {"collided"} ELSE slips
    /\ UNCHANGED <<op, target, crashed>> /\ UNCHANGED disk /\ SameNames

\* save_session_file of new; whether it could write is not asked.
WriteSession(d) ==
    /\ phase[d] = "nsm" /\ Goto(d, "idle")
    /\ saved' \in {saved, saved \cup {target[d]}}
    /\ UNCHANGED <<op, target, lock, dirs, crashed, slips>> /\ SameNames

----------------------------------------------------------------------------
(* Crash and restart                                                       *)

Forget(D) ==
    /\ session_path' = [d \in Daemons |-> IF d \in D THEN None ELSE session_path[d]]
    /\ session_name' = [d \in Daemons |-> IF d \in D THEN None ELSE session_name[d]]
    /\ phase' = [d \in Daemons |-> IF d \in D THEN "gone" ELSE phase[d]]

\* SIGKILL, or an error in nsmd: lock files stay.
Crash(d) ==
    /\ phase[d] # "gone"
    /\ Forget({d}) /\ crashed' = TRUE
    /\ UNCHANGED <<op, target, lock, saved, dirs, slips>>

Fresh(d) ==
    /\ session_path' = [session_path EXCEPT ![d] = None]
    /\ session_name' = [session_name EXCEPT ![d] = None]
    /\ Goto(d, "idle")

StartUnlocking(d) ==
    /\ phase[d] = "gone" /\ Fresh(d)
    /\ lock' = [l \in LockFiles |-> None]
    /\ UNCHANGED <<op, target, crashed, slips>> /\ UNCHANGED disk

\* A user starts nsmd: it does not look at lock files that are left.
Start(d) ==
    /\ phase[d] = "gone" /\ Fresh(d)
    /\ UNCHANGED <<op, target, lock, crashed, slips>> /\ UNCHANGED disk

\* The machine goes down and comes up; the run-time directory is in memory.
Reboot ==
    /\ Forget(Daemons) /\ lock' = [l \in LockFiles |-> None]
    /\ crashed' = FALSE /\ slips' = {}
    /\ UNCHANGED <<op, target, saved, dirs>>

----------------------------------------------------------------------------
(* Specification                                                           *)

Init ==
    /\ session_path = [d \in Daemons |-> None]
    /\ session_name = [d \in Daemons |-> None]
    /\ phase = [d \in Daemons |-> "gone"]
    /\ op = [d \in Daemons |-> None] /\ target = [d \in Daemons |-> None]
    /\ lock = [l \in LockFiles |-> None]
    /\ saved = InitSaved /\ dirs = InitSaved
    /\ crashed = FALSE /\ slips = {}

\* What a daemon does by itself.
Step(d) ==
    \/ SaveDone(d) \/ Copy(d) \/ Unlink(d) \/ CloseEnd(d)
    \/ DropLock(d) \/ Rename(d) \/ Refused(d) \/ Take(d) \/ LoadEnd(d)
    \/ Mkdir(d) \/ TakeNew(d) \/ NameNew(d) \/ WriteLock(d) \/ WriteSession(d)

Request(d) ==
    \/ \E s \in Sessions : Open(d, s) \/ New(d, s) \/ Duplicate(d, s)
    \/ Close(d) \/ Quit(d)

Next ==
    \/ \E d \in Daemons : Step(d) \/ Request(d) \/ Crash(d) \/ Start(d)
    \/ Reboot

Spec == Init /\ [][Next]_vars

----------------------------------------------------------------------------
(* Properties                                                              *)

\* d works on its session, and does not stand between two.
Works(d) == session_path[d] # None /\ phase[d] \notin Between

\* No two daemons work on one session, unless one of four things happened
\* since the machine came up: an open was refused while a session was open (it
\* had already given up that session's lock file), a signal came between two
\* sessions (the handler closes one without its lock file, and takes its time), a
\* daemon looked for a lock file between another's look and its write, or new
\* wrote over a lock file of the same name. Crashes, quits and signals while a
\* session is loaded, saved, copied or closed, and failed copies are none of these.
Exclusive ==
    slips = {} =>
        \A d, e \in Daemons :
            Works(d) /\ Works(e) /\ session_path[d] = session_path[e] => d = e

\* new writes its lock file without a look, and yet never over that of the
\* session it creates nor while another daemon has it: mkdir, which fails for a
\* directory that exists, decides who may. So only colliding names collide.
Creating(d) == phase[d] \in {"write", "name", "lock"}
NewSessionIsFree ==
    \A d \in Daemons : Creating(d) =>
        /\ LET l == lock[LockOf(target[d])] IN l # None => l.session # target[d]
        /\ \A e \in Daemons \ {d} : session_path[e] # target[d]

\* Until somebody crashes, a lock file means what the code takes it for: a
\* daemon has that session. Refused opens, races, collisions and signals at any
\* time leave no lock file behind.
LocksHaveHolders ==
    ~crashed =>
        \A l \in LockFiles : lock[l] # None =>
            \E d \in Daemons : session_path[d] = lock[l].session

\* A lock file goes or changes only by a step of the daemon it tells of, or
\* with the machine: nobody takes the lock of another, also not that of a daemon
\* that crashed, unless one of the four things has happened.
LockIsItsWriters ==
    [][\A l \in LockFiles :
          lock[l] # None /\ lock'[l] # lock[l] /\ slips' = {} =>
              LET d == lock[l].daemon IN
              \/ session_path[d] = lock[l].session /\ phase'[d] # phase[d]
              \/ \A e \in Daemons : phase'[e] = "gone"]_vars

----------------------------------------------------------------------------
(* What the documentation promises and the code does not keep              *)

\* docs, "Lockfiles": "prevent accidental write-access to the same session by
\* different nsm-daemons". A daemon is idle when it takes requests.
OneDaemonPerSession ==
    \A d, e \in Daemons :
        /\ phase[d] = "idle" /\ phase[e] = "idle"
        /\ session_path[d] # None /\ session_path[d] = session_path[e]
        => d = e
=============================================================================
