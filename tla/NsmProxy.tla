------------------------------ MODULE NsmProxy ------------------------------
(***************************************************************************)
(* nsm-proxy, the client that runs a program without NSM support           *)
(* (src/src/nsm-proxy.cpp).  It has two kinds of children, the program and *)
(* the windows of nsm-proxy-gui, and knows one pid of each.                *)
(*                                                                         *)
(* The main loop goes round: look for SIGCHLD, wait for the children that  *)
(* have exited, handle at most one message, leave if die_now is set.       *)
(* Children exit at any time, with any status, between any two steps.      *)
(***************************************************************************)
EXTENDS Naturals, FiniteSets

CONSTANTS
    MaxChildren,  \* bound: children at a time
    None

ASSUME MaxChildrenAssumption == MaxChildren \in Nat \ {0}

\* Two pids more than there can be children: nsm-proxy may hold stale ones.
Pids == 1 .. MaxChildren + 2

\* How a child ends: exit( 0 ), another exit status, one of the four signals
\* that handle_sigchld asks for, or any other signal.
Ends == {"zero", "nonzero", "stopped", "crashed"}

VARIABLES
    child,        \* the children that have not been waited for
    sigchld,      \* SIGCHLD is pending at signal_fd
    pid,          \* _pid, or 0
    gui_pid,
    executable,   \* _executable is not NULL
    config,       \* the file: None, or whether it names an executable
    project_file, \* whether it is set
    opened,       \* the open that follows the announcement has been handled
    die_now,
    phase,        \* where the main loop is
    gui_told,     \* the last of gui_is_shown, gui_is_hidden sent to nsmd
    window_seen,  \* a window was opened: messages of it may be under way
    doubled       \* history: a window was opened beside another, in this life

processes == <<child, sigchld>>
settings == <<executable, config, project_file, opened>>
history == <<window_seen, doubled>>
vars == <<processes, pid, gui_pid, settings, die_now, phase, gui_told, history>>

Children == DOMAIN child
Running(c) == c \in Children /\ child[c].end = None
Exited == {c \in Children : child[c].end # None}
Windows == {c \in Children : child[c].kind = "gui" /\ Running(c)}
Programs == {c \in Children : child[c].kind = "program" /\ Running(c)}

\* kill( p, signal ) for a pid that may be gone. told is for the properties: the
\* signal was sent, effective or not. A child that has not reached its exec yet
\* still has nsm-proxy's signal_handler, which swallows SIGHUP, SIGINT and SIGTERM.
Signalled(ch, p) ==
    [c \in DOMAIN ch |-> IF c = p THEN [ch[c] EXCEPT !.told = TRUE] ELSE ch[c]]

Forked(ch, p, kind) ==
    [c \in DOMAIN ch \cup {p} |->
        IF c = p THEN [kind |-> kind, end |-> None, told |-> FALSE] ELSE ch[c]]

NoChildren == [c \in {} |-> None]

\* fork(): which of the free pids it is makes no difference.
fork == CHOOSE p \in Pids : p \notin Children \cup {pid, gui_pid}

-----------------------------------------------------------------------------
(* Methods of NSM_Proxy, and show_gui and hide_gui. *)

\* dump( project_file ): before the first open has ended the path names no
\* directory, and fopen fails; it may fail at any time.
dump ==
    \/ project_file /\ config' = executable'
    \/ UNCHANGED config

show_gui(ch) ==
    /\ child' = Forked(ch, fork, "gui")
    /\ gui_pid' = fork
    /\ gui_told' = "shown"
    /\ window_seen' = TRUE
    /\ doubled' = (doubled \/ \E c \in DOMAIN ch : ch[c].kind = "gui")

\* Mutant: start() does not ask whether the program is running.
StartAgain(hide) ==
    /\ Cardinality(Children) < MaxChildren
    /\ pid' = fork
    /\ child' = Forked(IF hide THEN Signalled(child, gui_pid) ELSE child,
                       fork, "program")

\* start(): what happens to the children, and whether it returned true.
start(hide) ==
    IF pid # 0
    THEN /\ child' = IF hide THEN Signalled(child, gui_pid) ELSE child
         /\ UNCHANGED pid
    ELSE /\ Cardinality(Children) < MaxChildren
         /\ pid' = fork
         /\ child' = Forked(IF hide THEN Signalled(child, gui_pid) ELSE child,
                            fork, "program")

-----------------------------------------------------------------------------
(* OSC handlers. *)

Message == phase = "messages" /\ phase' = "end"

\* nsmd sends open as soon as nsm-proxy has announced itself, before anything
\* else, and sends no second one: nsm-proxy does not announce :switch:.
osc_open ==
    /\ Message /\ ~opened /\ opened' = TRUE
    /\ \/ /\ config # None
          /\ executable' = (executable \/ config)
          /\ dump
          /\ IF executable' THEN start(FALSE) ELSE UNCHANGED <<child, pid>>
          /\ project_file' = TRUE /\ gui_told' = "hidden"
          /\ UNCHANGED <<gui_pid, history>>
       \/ /\ config = None
          /\ show_gui(child)
          /\ project_file' = TRUE
          /\ UNCHANGED <<pid, executable, config>>
       \/ /\ config # None  \* the file cannot be opened
          /\ UNCHANGED <<child, pid, gui_pid, executable, config, project_file,
                         gui_told, history>>
    /\ UNCHANGED <<sigchld, die_now>>

osc_save ==
    /\ Message /\ opened
    /\ executable' = executable /\ dump
    /\ UNCHANGED <<processes, pid, gui_pid, project_file, opened, die_now, gui_told, history>>

osc_show_gui ==
    /\ Message /\ opened
    /\ Cardinality(Children) < MaxChildren
    /\ show_gui(child)
    /\ UNCHANGED <<sigchld, pid, settings, die_now>>

osc_hide_gui ==
    /\ Message /\ opened
    /\ child' = Signalled(child, gui_pid)
    /\ gui_told' = "hidden"
    /\ UNCHANGED <<sigchld, pid, gui_pid, settings, die_now, history>>

\* The buttons of a window, which may be closed by now.
osc_start ==
    /\ Message /\ window_seen
    /\ executable' = TRUE
    /\ \/ dump
       \/ project_file /\ config' = executable  \* the second dump fails
    /\ start(TRUE)
    /\ UNCHANGED <<sigchld, gui_pid, project_file, opened, die_now, gui_told, history>>

osc_kill ==
    /\ Message /\ window_seen
    /\ child' = Signalled(child, pid)
    /\ UNCHANGED <<sigchld, pid, gui_pid, settings, die_now, gui_told, history>>

\* 500 ms without a message, or one that changes nothing modelled here.
NoMessage ==
    /\ Message
    /\ UNCHANGED <<processes, pid, gui_pid, settings, die_now, gui_told, history>>

-----------------------------------------------------------------------------
(* The main loop. *)

ReadSignalFd ==
    /\ phase = "signals"
    /\ phase' = IF sigchld THEN "reaping" ELSE "messages"
    /\ sigchld' = FALSE
    /\ UNCHANGED <<child, pid, gui_pid, settings, die_now, gui_told, history>>

\* Mutant: the entry of a child that is gone stays.
KeptEntry(c) == [d \in Children |-> IF d = c THEN None ELSE child[d]]

Reaped(c) == [d \in Children \ {c} |-> child[d]]

\* The branches of handle_sigchld for a child it does not know as its window.
handle_client_death(c) ==
    /\ child[c].end = "nonzero"
    /\ show_gui(Reaped(c))
    /\ pid' = 0
    /\ UNCHANGED die_now

NormalEnd(c) ==
    /\ child[c].end \in {"zero", "stopped"}
    /\ child' = Reaped(c)
    /\ die_now' = TRUE
    /\ UNCHANGED <<pid, gui_pid, gui_told, history>>

OtherSignal(c) ==
    /\ child[c].end = "crashed"
    /\ child' = Reaped(c)
    /\ UNCHANGED <<pid, gui_pid, die_now, gui_told, history>>

\* Mutant: nsmd is not told.
ClosedInSilence(c) ==
    /\ child' = Reaped(c)
    /\ gui_pid' = 0
    /\ UNCHANGED <<pid, die_now, gui_told, history>>

WindowClosed(c) ==
    /\ child' = Reaped(c)
    /\ gui_pid' = 0
    /\ gui_told' = "hidden"
    /\ UNCHANGED <<pid, die_now, history>>

handle_sigchld(c) ==
    /\ phase = "reaping" /\ c \in Exited
    /\ IF c = gui_pid THEN WindowClosed(c)
       ELSE handle_client_death(c) \/ NormalEnd(c) \/ OtherSignal(c)
    /\ UNCHANGED <<sigchld, settings, phase>>

\* Mutant: a signal stands for one child.
OneChildASignal ==
    /\ phase = "reaping"
    /\ phase' = "messages"
    /\ UNCHANGED <<processes, pid, gui_pid, settings, die_now, gui_told, history>>

NoMoreChildren ==
    /\ phase = "reaping" /\ Exited = {}
    /\ phase' = "messages"
    /\ UNCHANGED <<processes, pid, gui_pid, settings, die_now, gui_told, history>>

NextRound ==
    /\ phase = "end" /\ ~die_now
    /\ phase' = "signals"
    /\ UNCHANGED <<processes, pid, gui_pid, settings, die_now, gui_told, history>>

\* Mutant: only the program is stopped.
WindowsLeftOpen ==
    /\ phase = "end" /\ die_now
    /\ child' = Signalled(child, pid)
    /\ phase' = "dead"
    /\ UNCHANGED <<sigchld, pid, gui_pid, settings, die_now, gui_told, history>>

die ==
    /\ phase = "end" /\ die_now
    /\ child' = Signalled(Signalled(child, gui_pid), pid)
    /\ phase' = "dead"
    /\ UNCHANGED <<sigchld, pid, gui_pid, settings, die_now, gui_told, history>>

-----------------------------------------------------------------------------
(* The others: the children, nsmd that sends SIGTERM, and starts it again. *)

ChildEnds(c, end) ==
    /\ Running(c) /\ phase # "dead"
    /\ child' = [child EXCEPT ![c].end = end]
    /\ sigchld' = TRUE
    /\ UNCHANGED <<pid, gui_pid, settings, die_now, phase, gui_told, history>>

signal_handler ==
    /\ phase # "dead" /\ ~die_now
    /\ die_now' = TRUE
    /\ UNCHANGED <<processes, pid, gui_pid, settings, phase, gui_told, history>>

Restart ==
    /\ phase = "dead"
    /\ child' = NoChildren /\ sigchld' = FALSE
    /\ pid' = 0 /\ gui_pid' = 0
    /\ executable' = FALSE /\ project_file' = FALSE /\ opened' = FALSE
    /\ die_now' = FALSE /\ phase' = "signals"
    /\ gui_told' = "hidden" /\ window_seen' = FALSE /\ doubled' = FALSE
    /\ UNCHANGED config

Init ==
    /\ child = NoChildren /\ sigchld = FALSE
    /\ pid = 0 /\ gui_pid = 0
    /\ executable = FALSE /\ project_file = FALSE /\ opened = FALSE
    /\ die_now = FALSE /\ phase = "signals"
    /\ gui_told = "hidden" /\ window_seen = FALSE /\ doubled = FALSE
    /\ config \in {None, TRUE, FALSE}

Handlers ==
    \/ osc_open \/ osc_save \/ osc_show_gui \/ osc_hide_gui
    \/ osc_start \/ osc_kill \/ NoMessage

MainLoop ==
    \/ ReadSignalFd \/ NoMoreChildren \/ Handlers \/ NextRound \/ die

Next ==
    \/ MainLoop
    \/ \E c \in Children : handle_sigchld(c)
    \/ \E c \in Children, end \in Ends : ChildEnds(c, end)
    \/ signal_handler
    \/ Restart

\* The loop never blocks for good: signal_fd is non-blocking, and the wait for
\* a message ends after 500 ms.  waitpid gets to every child in the end.
Spec ==
    /\ Init /\ [][Next]_vars
    /\ WF_vars(MainLoop)
    /\ \A c \in Pids : WF_vars(handle_sigchld(c))

-----------------------------------------------------------------------------
(* Properties. *)

ChildRecords ==
    [kind : {"gui", "program"}, end : Ends \cup {None}, told : BOOLEAN]

TypeOK ==
    /\ Children \subseteq Pids /\ \A c \in Children : child[c] \in ChildRecords
    /\ Cardinality(Children) <= MaxChildren
    /\ pid \in Pids \cup {0} /\ gui_pid \in Pids \cup {0}
    /\ config \in {None, TRUE, FALSE}
    /\ phase \in {"signals", "reaping", "messages", "end", "dead"}
    /\ gui_told \in {"shown", "hidden"}
    /\ {sigchld, executable, project_file, opened, die_now} \subseteq BOOLEAN
    /\ {window_seen, doubled} \subseteq BOOLEAN

\* While no second window was opened beside one that had not been waited for,
\* there is at most one copy of the program, and the next kill reaches it: over
\* crashes, restarts of the program and children that exit between two steps.
ProgramNotLost == ~doubled => Programs \subseteq {pid}

\* nsm-proxy leaves no child behind that it has not sent a signal to, whatever
\* was started between the cause of its end and its end. (That the child heeds
\* it is not claimed: see Signalled.)
NothingOutlives ==
    phase = "dead" /\ ~doubled => \A c \in Programs \cup Windows : child[c].told

\* What nsmd, and so every session GUI, was last told of the window is true:
\* shown while there is one to wait for, hidden only when it was told to close.
WindowStateTold ==
    ~doubled => /\ gui_told = "shown" => gui_pid \in Children
                /\ gui_told = "hidden" => \A c \in Windows : child[c].told

\* A program that ended in order ends nsm-proxy, although one SIGCHLD may stand
\* for several children and one may come while the last is being handled.  With
\* a second window nsm-proxy may never leave handle_sigchld: two windows that
\* fail as they start are each taken for the program, and replaced.
ProgramEndsProxy ==
    (\E c \in Exited : child[c].kind = "program" /\ child[c].end \in {"zero", "stopped"})
        ~> (phase = "dead" \/ doubled)

\* The pid in _pid is that of a child that has not been waited for, so that
\* start() is right to take it for a running program: "if ( _pid ) /* already
\* running */ return true" (nsm-proxy.cpp:140).
PidMeansRunning == pid # 0 /\ ~die_now => pid \in Children

=============================================================================
