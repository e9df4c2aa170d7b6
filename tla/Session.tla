------------------------------ MODULE Session -------------------------------
(***************************************************************************)
(* What nsmd promises about sessions, whatever it does to keep it: at most *)
(* one session is open and one operation in progress, an operation on a    *)
(* session ends with its lock file in place, and only sessions that other  *)
(* daemons have not locked are opened, only new ones created.              *)
(*                                                                         *)
(* There are no clients here, no waits and no handlers inside handlers.    *)
(* Nsmd implements this specification.                                     *)
(***************************************************************************)
CONSTANTS
    Sessions, \* session directories
    Others,   \* those another nsmd has locked
    None      \* no session

VARIABLES
    session,   \* the open session, or None
    operation, \* the operation in progress, which refuses all others
    existing,  \* the sessions on disk
    locked,    \* the sessions this nsmd has a lock file for
    quitting,  \* it was told to terminate
    ended      \* it has terminated

vars == <<session, operation, existing, locked, quitting, ended>>

\* "TAKEN" is an open or duplicate that has become the open session and has yet to
\* start and open its clients. It cannot fail any more.
Operations == {"NONE", "OPEN", "NEW", "DUPLICATE", "CLOSE", "TAKEN"}

Init ==
    /\ session = None /\ operation = "NONE" /\ locked = {}
    /\ existing \in SUBSET Sessions /\ Others \subseteq existing
    /\ quitting = FALSE /\ ended = FALSE

During(ops) == ~ended /\ operation \in ops

\* The operation that was in progress is over.
Over == operation' = "NONE"
SameSession == UNCHANGED <<session, locked>>
SameRest == UNCHANGED <<existing, quitting, ended>>

\* A request is accepted: nothing else is going on, and there is a session to
\* duplicate or close.
Start(o) ==
    /\ During({"NONE"}) /\ o \in Operations \ {"NONE", "TAKEN"}
    /\ o \in {"DUPLICATE", "CLOSE"} => session # None
    /\ operation' = o
    /\ SameSession /\ SameRest

\* Clients had errors, or there is no such session: nothing has changed.
GiveUp == During({"OPEN", "DUPLICATE"}) /\ Over /\ SameSession /\ SameRest

\* The session is locked or cannot be read. The open one stays open, and its
\* lock file is deleted.
Refuse ==
    /\ During({"OPEN", "DUPLICATE"}) /\ Over
    /\ locked' = {} /\ UNCHANGED session /\ SameRest

\* A copy of the open session is made, where there was none.
Copy(s) ==
    /\ During({"DUPLICATE"}) /\ session # None
    /\ s \in Sessions \ existing
    /\ existing' = existing \cup {s}
    /\ SameSession /\ UNCHANGED <<operation, quitting, ended>>

\* A session takes the place of the open one.
Take(s) ==
    /\ During({"OPEN", "DUPLICATE"}) /\ operation' = "TAKEN"
    /\ s \in existing \ Others
    /\ session' = s /\ locked' = {} /\ SameRest

\* Its clients are there.
Opened ==
    /\ During({"TAKEN"}) /\ Over
    /\ locked' = {session} /\ UNCHANGED session /\ SameRest

\* The open session is closed, for good or for another one.
CloseSession ==
    /\ During({"NEW", "CLOSE"}) \/ (quitting /\ ~ended)
    /\ session' = None /\ locked' = {}
    /\ UNCHANGED operation /\ SameRest

\* Nothing is open any more; a new session may not have been possible.
Closed ==
    /\ During({"NEW", "CLOSE"}) /\ session = None /\ locked = {} /\ Over
    /\ SameSession /\ SameRest

\* A new session where there was none, and where there is still none on disk
\* if its file cannot be written.
Create(s) ==
    /\ During({"NEW"}) /\ session = None /\ locked = {} /\ Over
    /\ s \in Sessions \ existing
    /\ existing' \in {existing, existing \cup {s}}
    /\ session' = s /\ locked' = {s}
    /\ UNCHANGED <<quitting, ended>>

\* It may be told to terminate in the middle of anything, and closes the
\* session first.
Quit ==
    /\ ~ended /\ quitting' = TRUE
    /\ SameSession /\ UNCHANGED <<operation, existing, ended>>

End ==
    /\ quitting /\ ~ended /\ session = None /\ locked = {}
    /\ ended' = TRUE /\ Over
    /\ SameSession /\ UNCHANGED <<existing, quitting>>

Next ==
    \/ \E o \in Operations : Start(o)
    \/ GiveUp \/ Refuse \/ Opened \/ CloseSession \/ Closed
    \/ \E s \in Sessions : Copy(s) \/ Take(s) \/ Create(s)
    \/ Quit \/ End

Spec == Init /\ [][Next]_vars
=============================================================================
