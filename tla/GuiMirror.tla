----------------------------- MODULE GuiMirror ------------------------------
(***************************************************************************)
(* nsmd and a GUI: the client list of the daemon (src/nsmd.cpp) and the    *)
(* copy of it that nsm-legacy-gui keeps (src/nsm-legacy-gui.cpp) from the  *)
(* messages nsmd sends with every change.                                  *)
(*                                                                         *)
(* nsmd tells a GUI everything once, when it announces itself, and then    *)
(* only what changes; the GUI asks for nothing again.  Messages are UDP on *)
(* one host: they arrive in the order they were sent, after any delay.     *)
(* The operations of nsmd are those of the module Nsmd with what is not    *)
(* shown left out: lock files, projects, answers and errors.               *)
(***************************************************************************)
EXTENDS Integers, SequencesExt

CONSTANTS
    Progs,      \* client programs, by their executables
    Pretty,     \* the name each program announces
    Switching,  \* those that announce ":switch:"
    HavingGui,  \* those that announce ":optional-gui:"
    Dumb,       \* those that never announce
    Ids,        \* client ids
    Sessions,   \* sessions, each also its own simple name
    Contents,   \* the client lists a session.nsm may have
    None,       \* the NULL pointer; no session
    MaxClients, \* bound: nothing is added beyond this list length
    MaxQueue,   \* bound: nsmd goes on while no more messages are in flight
    MaxClicks,  \* bound: clicks in flight
    MaxAmiss    \* bound: nothing begins while the GUI is wrong about more ids

VARIABLES
    client,       \* std::list<Client*> client
    session_path, \* the open session, or None
    session_name, \* its simple name, or that of a failed load
    phase,        \* what nsmd does, or waits for
    op,           \* the operation in progress, or None
    target,       \* its session
    wanted,       \* new_clients still to be served by a load
    cursor,       \* the iterator of purge_inactive_clients, clear_clients
    gui,          \* a GUI is at gui_addr
    channel,      \* messages from nsmd to the GUI
    view,         \* what the GUI shows
    clicks,       \* messages from the GUI to nsmd
    amiss         \* history: the ids nsmd has left this GUI wrong about; None
                  \* if it told this GUI the name of a session it does not have

vars == <<client, session_path, session_name, phase, op, target, wanted, cursor,
          gui, channel, view, clicks, amiss>>

----------------------------------------------------------------------------
(* Types                                                                   *)

\* The status strings by what a GUI makes of them: "removed" takes the client
\* away, "stopped" shows the buttons remove and resume, any other (launch, open,
\* ready, error, save, noop, switch, quit) shows stop.
Status == {"up", "stopped", "removed"}

\* `pid` is whether a process is known, `smart` whether capabilities are, "BUSY"
\* is OPEN or SAVE.
ClientRecords ==
    [id : Ids, prog : Progs, status : Status, pid : BOOLEAN, active : BOOLEAN,
     smart : BOOLEAN, pending : {"NONE", "START", "BUSY", "KILL", "QUIT"}]

\* Client names: launch knows the executable only, announce brings the other.
Names == Progs \cup {Pretty[prog] : prog \in Progs}

Entries == [name : Names, prog : Progs, id : Ids]
Widgets == [id : Ids, name : Names, stopped : BOOLEAN, gui : BOOLEAN]
Views == [widgets : Seq(Widgets), session : Sessions \cup {None}]
Messages ==
    [path : {"new"}, id : Ids, arg : Names]
    \cup [path : {"status"}, id : Ids, arg : Status]
    \cup [path : {"has_optional_gui"}, id : Ids]
    \cup [path : {"switch"}, id : Ids, arg : Ids]
    \cup [path : {"name"}, arg : Sessions \cup {None}]
Buttons == {"save", "stop", "remove", "resume"}

\* In "saving", "killed" and "opening" nsmd waits and hears every message.
Waits == {"idle", "saving", "killed", "opening"}
Runs == {"load", "purge", "clear", "switch", "create", "gone"}
Ops == {"open", "new", "close", "quit"}

ASSUME GuiMirrorAssumption ==
    /\ DOMAIN Pretty = Progs
    /\ Switching \subseteq Progs \ Dumb /\ HavingGui \subseteq Progs \ Dumb
    /\ None \notin Sessions \cup Ids \cup Ops /\ Contents \subseteq Seq(Entries)
    /\ {MaxClients, MaxQueue, MaxClicks, MaxAmiss} \subseteq Nat

TypeOK ==
    /\ client \in Seq(ClientRecords)
    /\ {session_path, session_name, target} \subseteq Sessions \cup {None}
    /\ phase \in Waits \cup Runs /\ op \in Ops \cup {None}
    /\ wanted \in Seq(Entries) /\ cursor \in Nat \ {0}
    /\ gui \in BOOLEAN
    /\ channel \in Seq(Messages) /\ view \in Views
    /\ clicks \in Seq([button : Buttons, id : Ids])
    /\ amiss \subseteq Ids \cup {None}

----------------------------------------------------------------------------
(* The GUI: osc_handler                                                    *)

\* client_by_id walks the widgets from the last one.
Shows(v, id) == {k \in DOMAIN v.widgets : v.widgets[k].id = id}
ById(v, id) == CHOOSE k \in Shows(v, id) : \A j \in Shows(v, id) : j <= k

\* client_new: a new widget, unless one has the id.
ClientNew(v, m) ==
    IF Shows(v, m.id) # {}
    THEN [v EXCEPT !.widgets[ById(v, m.id)].name = m.arg]
    ELSE [v EXCEPT !.widgets = Append(@,
            [id |-> m.id, name |-> m.arg, stopped |-> FALSE, gui |-> FALSE])]

\* client_pending_command.
ClientStatus(v, m) ==
    LET k == ById(v, m.id) IN
    IF m.arg = "removed" THEN [v EXCEPT !.widgets = RemoveAt(@, k)]
    ELSE [v EXCEPT !.widgets[k].stopped = (m.arg = "stopped")]

\* A message of a client the GUI does not know is only logged.
Handled(v, m) ==
    CASE m.path = "name" -> [v EXCEPT !.session = m.arg]
      [] m.path = "new"  -> ClientNew(v, m)
      [] m.path \notin {"name", "new"} /\ Shows(v, m.id) = {} -> v
      [] m.path = "status" /\ Shows(v, m.id) # {} -> ClientStatus(v, m)
      [] m.path = "has_optional_gui" /\ Shows(v, m.id) # {} ->
            [v EXCEPT !.widgets[ById(v, m.id)].gui = TRUE]
      [] m.path = "switch" /\ Shows(v, m.id) # {} ->
            [v EXCEPT !.widgets[ById(v, m.id)].id = m.arg]

Blank == [widgets |-> <<>>, session |-> None]

daemon == <<client, session_path, session_name, phase, op, target, wanted,
            cursor>>

osc_handler ==
    /\ channel # <<>>
    /\ view' = Handled(view, Head(channel)) /\ channel' = Tail(channel)
    /\ UNCHANGED <<gui, clicks, amiss>> /\ UNCHANGED daemon

\* NSM_Client::cb_button. Which buttons there are depends on stopped().
cb_button ==
    /\ gui /\ Len(clicks) < MaxClicks
    /\ \E k \in DOMAIN view.widgets :
       \E b \in IF view.widgets[k].stopped THEN {"remove", "resume"}
                ELSE {"save", "stop"} :
          clicks' = Append(clicks, [button |-> b, id |-> view.widgets[k].id])
    /\ UNCHANGED <<gui, channel, view, amiss>> /\ UNCHANGED daemon

\* The GUI ends, or another one is about to take its place at gui_addr: nsmd
\* does not notice, and goes on to send messages.
GuiLeaves ==
    /\ gui /\ gui' = FALSE
    /\ channel' = <<>> /\ view' = Blank /\ amiss' = {}
    /\ UNCHANGED clicks /\ UNCHANGED daemon

----------------------------------------------------------------------------
(* Messages to the GUI                                                     *)

\* c->name: the executable, until announce replaces it for good.
Name(c) == IF c.smart THEN Pretty[c.prog] ELSE c.prog

\* launch, and announce_gui of any client, send "new" with the executable, announce,
\* and announce_gui of an active client once more, with the name.
New(c) == [path |-> "new", id |-> c.id, arg |-> c.prog]
NewName(c) == [path |-> "new", id |-> c.id, arg |-> Name(c)]
StatusOf(id, s) == [path |-> "status", id |-> id, arg |-> s]
OptionalGui(c) == [path |-> "has_optional_gui", id |-> c.id]
SwitchTo(old, new) == [path |-> "switch", id |-> old, arg |-> new]
SessionName(s) == [path |-> "name", arg |-> s]

Send(ms) == channel' = IF gui THEN channel \o ms ELSE channel

\* nsmd says nothing, or the wrong thing, about clients of these ids.
Misled(ids) == amiss' = IF gui THEN amiss \cup ids ELSE amiss

\* nsmd tells the name of the session; whatever it told before is put right.
Rename(s) == Send(<<SessionName(s)>>) /\ amiss' = amiss \ {None}

HasGui(c) == c.smart /\ c.prog \in HavingGui

----------------------------------------------------------------------------
(* The client list                                                         *)

First(S, i) == i \in S /\ \A j \in S : i <= j

WithId(id) == {i \in DOMAIN client : client[i].id = id}
ByName(name) == {i \in DOMAIN client : Name(client[i]) = name}
FreshIds == Ids \ {client[i].id : i \in DOMAIN client}

CanSwitch(c) == c.smart /\ c.prog \in Switching
KilledAlive(cl) ==
    \E i \in DOMAIN cl : cl[i].pending \in {"QUIT", "KILL"} /\ cl[i].pid

\* launch: the client of that id, whatever its program, or else a new one.
Launch(prog, id) ==
    \/ \E i \in DOMAIN client :
          /\ First(WithId(id), i)
          /\ client' = [client EXCEPT ![i].pending = "START", ![i].pid = TRUE,
                                      ![i].status = "up"]
          /\ Send(<<New(client[i]), StatusOf(id, "up")>>)
    \/ LET c == [id |-> id, prog |-> prog, status |-> "up", pid |-> TRUE,
                 active |-> FALSE, smart |-> FALSE, pending |-> "START"] IN
       /\ WithId(id) = {} /\ client' = Append(client, c)
       /\ Send(<<New(c), StatusOf(id, "up")>>)

\* command_client_to_save, for one client: "save" or, to a dumb one, "noop".
Saves(c) == c.active \/ (~c.smart /\ c.pid)
Saved(c) ==
    CASE c.active -> [c EXCEPT !.status = "up", !.pending = "BUSY"]
      [] ~c.active /\ Saves(c) -> [c EXCEPT !.status = "up"]
      [] ~Saves(c) -> c
SaveMessages(c) == IF Saves(c) THEN <<StatusOf(c.id, "up")>> ELSE <<>>

\* command_client_to_quit, for one client. A dumb client without a process is
\* reported as removed long before it leaves the list; nothing is done about
\* one that is not dumb and not active.
Quit(c) ==
    CASE Saves(c) -> [c EXCEPT !.status = "up", !.pending = "QUIT"]
      [] ~Saves(c) /\ ~c.smart -> [c EXCEPT !.status = "removed"]
      [] ~Saves(c) /\ c.smart -> c
QuitMessages(c) ==
    IF Saves(c) \/ ~c.smart THEN <<StatusOf(c.id, Quit(c).status)>> ELSE <<>>

CommandQuit(surplus) ==
    LET messages == [i \in DOMAIN client |->
                        IF i \in surplus THEN QuitMessages(client[i]) ELSE <<>>] IN
    /\ client' = [i \in DOMAIN client |->
                    IF i \in surplus THEN Quit(client[i]) ELSE client[i]]
    /\ Send(FlattenSeq(messages))

CommandSave ==
    /\ client' = [i \in DOMAIN client |-> Saved(client[i])]
    /\ Send(FlattenSeq([i \in DOMAIN client |-> SaveMessages(client[i])]))

----------------------------------------------------------------------------
(* Operations                                                              *)

SameSession == UNCHANGED <<session_path, session_name>>
SameControl == SameSession /\ UNCHANGED <<phase, op, target, wanted, cursor>>
SameGui == UNCHANGED <<gui, view>>

Room == Len(channel) <= MaxQueue
Listening == phase \in Waits /\ Room
Free == Listening /\ op = None
Usable == Cardinality(amiss \cap Ids) <= MaxAmiss

Goto(p) == phase' = p

Return == Goto("idle") /\ op' = None /\ target' = None

\* wait_for_killed_clients_to_die returns at once if there are none.
GotoKilled == Goto(IF KilledAlive(client') THEN "killed" ELSE "purge") /\ cursor' = 1

Save ==
    /\ Free /\ session_path # None
    /\ CommandSave
    /\ SameControl /\ SameGui /\ UNCHANGED <<clicks, amiss>>

\* open, new and close begin with a save, if there is a session. (duplicate is
\* an open of a session that has just been written, abort a close.)
Begin(o, s, p) ==
    /\ Free /\ Usable
    /\ op' = o /\ target' = s
    /\ IF session_path # None THEN CommandSave /\ Goto("saving")
       ELSE Goto(p) /\ UNCHANGED <<client, channel>>
    /\ SameSession /\ SameGui /\ UNCHANGED <<wanted, cursor, clicks, amiss>>

Open(s) == Begin("open", s, "load")
NewSession(s) == Begin("new", s, "create")
Close == session_path # None /\ Begin("close", None, "saving")

\* The replies are there, or 60 seconds are over. Errors stop an open.
SaveDone ==
    /\ phase = "saving" /\ Room
    /\ \/ /\ op = "open" /\ UNCHANGED <<client, channel, cursor>>
          /\ Return \/ (Goto("load") /\ UNCHANGED <<op, target>>)
       \/ /\ op \in {"new", "close"} /\ UNCHANGED <<op, target>>
          /\ CommandQuit(DOMAIN client) /\ GotoKilled
    /\ SameSession /\ SameGui /\ UNCHANGED <<wanted, clicks, amiss>>

\* abort, and quit, which tests nothing and interrupts any wait.
AbortOrQuit(o) ==
    /\ Listening
    /\ o = "quit" \/ (op = None /\ session_path # None)
    /\ op' = o /\ target' = None /\ wanted' = <<>>
    /\ IF session_path = None
       THEN Goto("gone") /\ UNCHANGED <<client, channel, cursor>>
       ELSE CommandQuit(DOMAIN client) /\ GotoKilled
    /\ SameSession /\ SameGui /\ UNCHANGED <<clicks, amiss>>

\* Nobody is left to wait for, or SIGKILL has been sent to those who are.
KilledDone ==
    /\ phase = "killed" /\ Room
    /\ Goto("purge") /\ cursor' = 1
    /\ SameSession /\ SameGui
    /\ UNCHANGED <<client, op, target, wanted, channel, clicks, amiss>>

NextPosBack(erased) == IF erased THEN cursor - 1 ELSE cursor + 1

\* erase() returns the next client, the loop steps over it; from end() it goes
\* on at begin().
NextPos(erased) == IF erased /\ cursor = Len(client) THEN 1 ELSE cursor + 1

PurgeStep ==
    /\ phase = "purge" /\ cursor <= Len(client) /\ Room
    /\ LET c == client[cursor] IN
       IF c.active
       THEN cursor' = NextPos(FALSE) /\ UNCHANGED <<client, channel>>
       ELSE /\ cursor' = NextPos(TRUE) /\ client' = RemoveAt(client, cursor)
            /\ Send(<<StatusOf(c.id, "removed")>>)
    /\ SameSession /\ SameGui
    /\ UNCHANGED <<phase, op, target, wanted, clicks, amiss>>

PurgeEnd ==
    /\ phase = "purge" /\ cursor > Len(client)
    /\ Goto(IF op = "open" THEN "switch" ELSE "clear") /\ cursor' = 1
    /\ SameSession /\ SameGui
    /\ UNCHANGED <<client, op, target, wanted, channel, clicks, amiss>>

\* clear_clients does not tell the GUI.
ClearStep ==
    /\ phase = "clear" /\ cursor <= Len(client)
    /\ client' = RemoveAt(client, cursor) /\ cursor' = NextPos(TRUE)
    /\ IF client[cursor].status = "removed" THEN UNCHANGED amiss
       ELSE Misled({client[cursor].id})
    /\ SameSession /\ SameGui
    /\ UNCHANGED <<phase, op, target, wanted, channel, clicks>>

\* The end of close_session, and of the operation unless that is new.
ClosedInSilence ==
    /\ phase = "clear" /\ cursor > Len(client)
    /\ session_path' = None /\ session_name' = None
    /\ \/ op = "new" /\ Goto("create") /\ UNCHANGED <<op, target>>
       \/ op = "quit" /\ Goto("gone") /\ UNCHANGED <<op, target>>
       \/ op = "close" /\ Return
    /\ cursor' = 1
    /\ SameGui /\ UNCHANGED <<client, wanted, channel, clicks, amiss>>

Closed ==
    /\ phase = "clear" /\ cursor > Len(client)
    /\ session_path' = None /\ session_name' = None
    /\ Rename(None)
    /\ \/ op = "new" /\ Goto("create") /\ UNCHANGED <<op, target>>
       \/ op = "quit" /\ Goto("gone") /\ UNCHANGED <<op, target>>
       \/ op = "close" /\ Return
    /\ cursor' = 1
    /\ SameGui /\ UNCHANGED <<client, wanted, clicks>>

\* The rest of new, unless mkpath fails.
Create ==
    /\ phase = "create" /\ Return /\ Room
    /\ \/ SameSession /\ UNCHANGED <<channel, amiss>>
       \/ session_path' = target /\ session_name' = target /\ Rename(target)
    /\ SameGui /\ UNCHANGED <<client, wanted, cursor, clicks>>

----------------------------------------------------------------------------
(* load_session_file                                                       *)

\* No such file, or, when set_name has been called, locked or not readable.
LoadFails ==
    /\ phase = "load" /\ Return
    /\ session_name' \in {session_name, target}
    /\ SameGui
    /\ UNCHANGED <<client, session_path, wanted, cursor, channel, clicks, amiss>>

Rank(i) == Cardinality({j \in 1..i : /\ Name(client[j]) = Name(client[i])
                                     /\ CanSwitch(client[j])})
Wanted(entries, name) ==
    Cardinality({k \in DOMAIN entries : entries[k].name = name})
Surplus(entries) ==
    {i \in DOMAIN client : \/ ~CanSwitch(client[i])
                           \/ Rank(i) > Wanted(entries, Name(client[i]))}

LoadBegin(entries) ==
    /\ phase = "load" /\ Room
    /\ session_path' = target /\ session_name' = target
    /\ wanted' = entries
    /\ CommandQuit(Surplus(entries)) /\ GotoKilled
    /\ SameGui /\ UNCHANGED <<op, target, clicks, amiss>>

Candidate(e, i) ==
    LET same == WithId(e.id) \cap ByName(e.name) IN
    First(IF same # {} THEN same ELSE ByName(e.name), i)

\* command_client_to_switch sends the status under the new id before it tells
\* of that id; while two clients have one id, the GUI may rename the other.
SwitchClient ==
    /\ phase = "switch" /\ wanted # <<>> /\ Room
    /\ \E i \in DOMAIN client :
          LET old == client[i].id
              new == Head(wanted).id
              others == {client[j].id : j \in DOMAIN client \ {i}} IN
          /\ Candidate(Head(wanted), i) /\ client[i].pending = "NONE"
          /\ client' = [client EXCEPT ![i].id = new, ![i].pending = "BUSY",
                                      ![i].status = "up"]
          /\ Send(<<StatusOf(new, "up"), SwitchTo(old, new)>>)
          /\ IF client[i].active /\ {old, new} \cap (others \cup amiss) = {}
             THEN UNCHANGED amiss ELSE Misled({old, new})
    /\ wanted' = Tail(wanted)
    /\ SameSession /\ SameGui /\ UNCHANGED <<phase, op, target, cursor, clicks>>

LaunchClient ==
    /\ phase = "switch" /\ wanted # <<>> /\ Room
    /\ \A i \in DOMAIN client :
          Candidate(Head(wanted), i) => client[i].pending # "NONE"
    /\ Launch(Head(wanted).prog, Head(wanted).id)
    /\ wanted' = Tail(wanted)
    /\ SameSession /\ SameGui /\ UNCHANGED <<phase, op, target, cursor, clicks, amiss>>

SwitchEnd ==
    /\ phase = "switch" /\ wanted = <<>> /\ Goto("opening")
    /\ SameSession /\ SameGui
    /\ UNCHANGED <<client, op, target, wanted, cursor, channel, clicks, amiss>>

\* wait_for_announce and wait_for_replies are over.
LoadEnd ==
    /\ phase = "opening" /\ Room /\ Return
    /\ Rename(session_name)
    /\ SameSession /\ SameGui
    /\ UNCHANGED <<client, wanted, cursor, clicks>>

----------------------------------------------------------------------------
(* Messages and deaths of clients                                          *)

\* A handler that returns at once: it changes the list and tells of it.
ByTheWay == SameControl /\ SameGui /\ UNCHANGED amiss

Add(prog) ==
    /\ Listening /\ session_path # None /\ Len(client) < MaxClients /\ Usable
    /\ \E id \in FreshIds : Launch(prog, id)
    /\ ByTheWay /\ UNCHANGED clicks

\* The slot announce looks for, by the executable.
Expected(prog) ==
    {i \in DOMAIN client : /\ client[i].prog = prog
                           /\ ~client[i].active /\ client[i].pending = "START"}

\* announce, of a client that was launched or of one started by hand.
Announce(prog) ==
    LET Announced(c) == [c EXCEPT !.pid = TRUE, !.smart = TRUE, !.active = TRUE,
                                  !.status = "up", !.pending = "BUSY"]
        Messages_(c) == <<NewName(c), StatusOf(c.id, "up")>>
                        \o (IF HasGui(c) THEN <<OptionalGui(c)>> ELSE <<>>) IN
    /\ Listening /\ session_path # None
    /\ \/ \E i \in DOMAIN client :
             /\ First(Expected(prog), i)
             /\ client' = [client EXCEPT ![i] = Announced(@)]
             /\ Send(Messages_(client'[i]))
       \/ /\ Expected(prog) = {} /\ Len(client) < MaxClients
          /\ \E id \in FreshIds :
                LET c == Announced([id |-> id, prog |-> prog, status |-> "up",
                            pid |-> TRUE, active |-> TRUE, smart |-> TRUE,
                            pending |-> "BUSY"]) IN
                client' = Append(client, c) /\ Send(Messages_(c))
    /\ ByTheWay /\ UNCHANGED clicks

\* reply and error, also one that a process sent before it died: then the GUI
\* shows a client without a process as if it had one.
Answer(i) ==
    /\ Listening /\ client[i].smart
    /\ client' = [client EXCEPT ![i].status = "up", ![i].pending = "NONE"]
    /\ Send(<<StatusOf(client[i].id, "up")>>)
    /\ ByTheWay /\ UNCHANGED clicks

\* A process dies and handle_client_process_death hears of it.
Dies(i) ==
    /\ Listening /\ client[i].pid
    /\ \/ /\ client[i].pending = "QUIT" /\ client' = RemoveAt(client, i)
          /\ Send(<<StatusOf(client[i].id, "removed")>>)
       \/ /\ client[i].pending # "QUIT"
          /\ client' = [client EXCEPT ![i].status = "stopped", ![i].pid = FALSE,
                           ![i].active = FALSE, ![i].pending = "NONE"]
          /\ Send(<<StatusOf(client[i].id, "stopped")>>)
    /\ ByTheWay /\ UNCHANGED clicks

----------------------------------------------------------------------------
(* Messages of the GUI                                                     *)

\* get_client_by_id, for a click; there may be no such client any more.
Clicked(button) ==
    /\ Listening /\ clicks # <<>> /\ Head(clicks).button = button
    /\ clicks' = Tail(clicks) /\ ByTheWay

Target(i) == First(WithId(Head(clicks).id), i)
Stopped(c) == ~c.pid /\ ~c.active

\* command_client_to_stop: "stopped" before the process is.
Stop ==
    /\ Clicked("stop")
    /\ \/ \E i \in DOMAIN client :
             /\ Target(i) /\ client[i].pid
             /\ client' = [client EXCEPT ![i].status = "stopped",
                                         ![i].pending = "KILL"]
             /\ Send(<<StatusOf(client[i].id, "stopped")>>)
       \/ /\ \A i \in DOMAIN client : Target(i) => ~client[i].pid
          /\ UNCHANGED <<client, channel>>

Remove_ ==
    /\ Clicked("remove")
    /\ \/ \E i \in DOMAIN client :
             /\ Target(i) /\ Stopped(client[i])
             /\ client' = RemoveAt(client, i)
             /\ Send(<<StatusOf(client[i].id, "removed")>>)
       \/ /\ \A i \in DOMAIN client : Target(i) => ~Stopped(client[i])
          /\ UNCHANGED <<client, channel>>

Resume ==
    /\ Clicked("resume")
    /\ \/ \E i \in DOMAIN client :
             /\ Target(i) /\ Stopped(client[i])
             /\ Launch(client[i].prog, client[i].id)
       \/ /\ \A i \in DOMAIN client : Target(i) => ~Stopped(client[i])
          /\ UNCHANGED <<client, channel>>

ClientSave ==
    /\ Clicked("save")
    /\ \/ \E i \in DOMAIN client :
             /\ Target(i) /\ client[i].active
             /\ client' = [client EXCEPT ![i] = Saved(@)]
             /\ Send(SaveMessages(client[i]))
       \/ /\ \A i \in DOMAIN client : Target(i) => ~client[i].active
          /\ UNCHANGED <<client, channel>>

AnnouncedNoStatus(c) ==
    <<New(c)>> \o (IF HasGui(c) THEN <<OptionalGui(c)>> ELSE <<>>)
    \o (IF c.active THEN <<NewName(c)>> ELSE <<>>)

\* What announce_gui says of one client.
AllOf(c) ==
    <<New(c), StatusOf(c.id, c.status)>>
    \o (IF HasGui(c) THEN <<OptionalGui(c)>> ELSE <<>>)
    \o (IF c.active THEN <<NewName(c)>> ELSE <<>>)

\* Ids that several clients of the list have.
Shared == {client[p[1]].id : p \in {q \in (DOMAIN client) \X (DOMAIN client) :
                                /\ q[1] # q[2]
                                /\ client[q[1]].id = client[q[2]].id}}

\* gui_announce of a GUI that has just started. Of clients that are left from
\* a closed session it is not told. With a name and no path nsmd is lost: it
\* adds the length of the session root to the NULL pointer and reads there.
announce_gui ==
    /\ Listening /\ ~gui
    /\ IF session_name # None /\ session_path = None
       THEN Goto("gone") /\ UNCHANGED <<gui, channel, amiss>>
       ELSE /\ gui' = TRUE /\ UNCHANGED phase
            /\ channel' = IF session_name = None THEN <<SessionName(None)>>
                          ELSE FlattenSeq([i \in DOMAIN client |-> AllOf(client[i])])
                               \o <<SessionName(session_name)>>
            /\ amiss' = IF session_name = None THEN {client[i].id : i \in DOMAIN client}
                        ELSE Shared \cup (IF session_name = session_path THEN {} ELSE {None})
    /\ SameSession
    /\ UNCHANGED <<client, op, target, wanted, cursor, view, clicks>>

----------------------------------------------------------------------------
(* Specification                                                           *)

\* nsmd was started by a GUI, or without one.
Init ==
    /\ client = <<>> /\ wanted = <<>> /\ cursor = 1
    /\ session_path = None /\ session_name = None
    /\ phase = "idle" /\ op = None /\ target = None
    /\ \/ gui = TRUE /\ channel = <<SessionName(None)>>
       \/ gui = FALSE /\ channel = <<>>
    /\ view = Blank /\ clicks = <<>> /\ amiss = {}

Operation ==
    \/ Save \/ Close \/ AbortOrQuit("close") \/ AbortOrQuit("quit")
    \/ \E s \in Sessions : Open(s) \/ NewSession(s)

Daemon ==
    \/ SaveDone \/ KilledDone \/ PurgeStep \/ PurgeEnd \/ ClearStep \/ Closed
    \/ Create \/ LoadFails \/ \E entries \in Contents : LoadBegin(entries)
    \/ SwitchClient \/ LaunchClient \/ SwitchEnd \/ LoadEnd

Clients ==
    \/ \E prog \in Progs : Add(prog)
    \/ \E prog \in Progs \ Dumb : Announce(prog)
    \/ \E i \in DOMAIN client : Answer(i) \/ Dies(i)

Gui ==
    \/ osc_handler \/ cb_button \/ GuiLeaves \/ announce_gui
    \/ Stop \/ Remove_ \/ Resume \/ ClientSave

Idle == phase = "gone" /\ UNCHANGED vars

Next == Operation \/ Daemon \/ Clients \/ Gui \/ Idle

Spec == Init /\ [][Next]_vars

----------------------------------------------------------------------------
(* Properties                                                              *)

\* What a GUI shows when it has handled the messages.
Catch(v, messages) ==
    LET after[k \in 0..Len(messages)] ==
            IF k = 0 THEN v ELSE Handled(after[k - 1], messages[k])
    IN after[Len(messages)]

\* What it will show of what is in flight.
Caught == Catch(view, channel)

\* It shows W of an id, and shows it once.
Shown(v, id, W) ==
    /\ \A j, k \in Shows(v, id) : j = k
    /\ {v.widgets[k] : k \in Shows(v, id)} = W

\* What it should show of a client, under one of the names it goes by: its
\* executable, and the name it has announced once it has. Which of them depends on
\* the messages this GUI was there to hear.
Titles(c) == {c.prog, Name(c)}
Image(c, title) ==
    IF c.status = "removed" THEN {}
    ELSE {[id |-> c.id, name |-> title, stopped |-> c.status = "stopped",
           gui |-> HasGui(c)]}

\* Wherever nsmd is, in whatever operation, and however late the GUI: with the
\* messages in flight it shows each client of the list once, under a name of that
\* client's, with the buttons and the optional GUI it has, and no other. This holds
\* for a GUI that was there from the start and for one that announces itself in the
\* middle of a load or a close, for every id but those of clear_clients, of clients
\* that meet on one id in a switch, of clients that are switched though they have
\* stopped, and of clients left in the list of a closed session. (Not always under
\* the name nsmd has for it: a client that has announced itself and is launched once
\* more, or is stopped when the GUI comes, is shown by its executable.)
MirrorOfClients ==
    gui => LET shown == Caught IN
           \A id \in Ids \ amiss :
              LET S == WithId(id) IN
              /\ \A i, j \in S : i = j
              /\ S = {} => Shown(shown, id, {})
              /\ \A i \in S : \E title \in Titles(client[i]) :
                    Shown(shown, id, Image(client[i], title))

\* Between operations the GUI shows the session that is open, or that none is,
\* whoever opened it and whenever the GUI came; unless a load was refused.
SessionShown ==
    gui /\ op = None /\ phase = "idle" /\ None \notin amiss
        => Caught.session = session_path

=============================================================================
