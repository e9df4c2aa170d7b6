--------------------------- MODULE NsmdClientProofs ---------------------------
(***************************************************************************)
(* What nsmd's list of clients says about projects and processes: clients  *)
(* come to share a project only where one announces another name, no two   *)
(* have the same address, and nsmd never waits in vain for a client that   *)
(* is alive. Last, load_session_file                                       *)
(* serves every entry of the session file: the loop over new_clients       *)
(* starts with all of them, whatever happens while nsmd waits for the      *)
(* clients it closes, and takes back nothing it has done.                  *)
(***************************************************************************)
EXTENDS NsmdProofs

----------------------------------------------------------------------------
(* The ways the list changes                                               *)

\* No client comes or goes, none changes its project or its address.
SameProjects ==
    /\ DOMAIN client' = DOMAIN client
    /\ \A i \in DOMAIN client : /\ client'[i].prog = client[i].prog
                                /\ client'[i].smart = client[i].smart
                                /\ client'[i].id = client[i].id
                                /\ client'[i].addr = client[i].addr

\* nsmd waits for the client to save or to open.
Waiting(c) == c.active /\ c.pending \in {"SAVE", "OPEN"}

\* Nor does nsmd begin to wait for a client.
Kept ==
    /\ SameProjects
    /\ \A i \in DOMAIN client : Waiting(client'[i]) => Waiting(client[i])

Removed == \E k \in DOMAIN client : client' = RemoveAt(client, k)

\* A client is added under an id no client has.
Added(c) == client' = Append(client, c) /\ ById(c.id) = {}

\* Where the client that is now the i-th was before the k-th was erased.
Before(k, i) == IF i < k THEN i ELSE i + 1

\* When entry k is removed, each entry that stays is one of the old ones, and
\* no two are the same one.
LEMMA RemovedFacts ==
    ASSUME client \in Seq(ClientRecords), NEW k \in DOMAIN client, client' = RemoveAt(client, k)
    PROVE  /\ \A i \in DOMAIN client' : /\ Before(k, i) \in DOMAIN client
                                        /\ client'[i] = client[Before(k, i)]
           /\ \A i, j \in DOMAIN client' : Before(k, i) = Before(k, j) => i = j
<1>1. /\ client' \in Seq(ClientRecords) /\ Len(client') = Len(client) - 1
      /\ \A j \in 1..(Len(client) - 1) :
            client'[j] = IF j < k THEN client[j] ELSE client[j + 1]
  BY RemoveAtFacts
<1>2. DOMAIN client = 1..Len(client) /\ DOMAIN client' = 1..(Len(client) - 1) /\ Len(client) \in Nat
  BY <1>1
<1> QED
  BY <1>1, <1>2 DEF Before

\* A client that is added is the last, and the others stay in their places.
LEMMA AddedFacts ==
    ASSUME client \in Seq(ClientRecords), NEW c \in ClientRecords, client' = Append(client, c)
    PROVE  /\ DOMAIN client' = DOMAIN client \cup {Len(client) + 1}
           /\ Len(client) + 1 \notin DOMAIN client
           /\ client'[Len(client) + 1] = c
           /\ \A i \in DOMAIN client : client'[i] = client[i]
BY AppendProperties

\* One client of the list changes.
LEMMA ChangedFacts ==
    ASSUME client \in Seq(ClientRecords), NEW i \in DOMAIN client, NEW r,
           client' = [client EXCEPT ![i] = r]
    PROVE  /\ DOMAIN client' = DOMAIN client /\ client'[i] = r
           /\ \A j \in DOMAIN client : j # i => client'[j] = client[j]
OBVIOUS

\* Nobody has an identifier that was just generated.
LEMMA FreshMeansNone ==
    ASSUME NEW id \in FreshIds PROVE ById(id) = {}
BY DEF FreshIds, ById

\* launch() reuses the client of an id or adds one that has no address yet.
LEMMA Enlisted ==
    ASSUME client \in Seq(ClientRecords), NEW prog \in Progs, NEW id \in Ids,
           NEW pid \in Pids \cup {0, -1}, Enlist(prog, id, pid)
    PROVE  \/ \E i \in DOMAIN client :
                 /\ DOMAIN client' = DOMAIN client
                 /\ client'[i] = [client[i] EXCEPT !.pending = "START", !.pid = pid]
                 /\ \A j \in DOMAIN client : j # i => client'[j] = client[j]
                 /\ client[i].id = id
           \/ \E c \in ClientRecords : /\ Added(c) /\ c.id = id
                                       /\ c.addr = 0 /\ c.pending = "START"
<1>1. CASE \E i \in DOMAIN client :
              /\ First(ById(id), i)
              /\ client' = [client EXCEPT ![i].pending = "START", ![i].pid = pid]
  <2>1. PICK i \in DOMAIN client :
           /\ First(ById(id), i)
           /\ client' = [client EXCEPT ![i] = [client[i] EXCEPT !.pending = "START", !.pid = pid]]
    BY <1>1
  <2>2. client[i].id = id
    BY <2>1 DEF First, ById
  <2> QED
    BY <2>1, <2>2, ChangedFacts
<1>2. CASE /\ ById(id) = {}
           /\ client' = Append(client,
                 [id |-> id, prog |-> prog, pid |-> pid, active |-> FALSE,
                  smart |-> FALSE, pending |-> "START", error |-> FALSE, addr |-> 0])
  <2> DEFINE c == [id |-> id, prog |-> prog, pid |-> pid, active |-> FALSE,
                   smart |-> FALSE, pending |-> "START", error |-> FALSE, addr |-> 0]
  <2>1. c \in ClientRecords /\ c.id = id /\ c.addr = 0 /\ c.pending = "START"
    BY DEF ClientRecords, Commands
  <2> HIDE DEF c
  <2>2. Added(c)
    BY <1>2, <2>1 DEF Added, c
  <2> QED
    BY <2>1, <2>2
<1> QED
  BY <1>1, <1>2 DEF Enlist

\* A launch keeps the list, or adds a client that has not announced itself.
LEMMA LaunchedList ==
    ASSUME client \in Seq(ClientRecords), NEW prog \in Progs, NEW id \in Ids, Launch(prog, id)
    PROVE  Kept \/ \E c \in ClientRecords : Added(c) /\ c.addr = 0
<1>1. PICK pid \in Pids \cup {0, -1} : Enlist(prog, id, pid)
  BY DEF Launch, Unborn
<1>2. CASE \E i \in DOMAIN client :
              /\ DOMAIN client' = DOMAIN client
              /\ client'[i] = [client[i] EXCEPT !.pending = "START", !.pid = pid]
              /\ \A j \in DOMAIN client : j # i => client'[j] = client[j]
  <2>1. PICK i \in DOMAIN client :
              /\ DOMAIN client' = DOMAIN client
              /\ client'[i] = [client[i] EXCEPT !.pending = "START", !.pid = pid]
              /\ \A j \in DOMAIN client : j # i => client'[j] = client[j]
    BY <1>2
  <2>2. client[i] \in ClientRecords
    OBVIOUS
  <2>3. /\ client'[i].prog = client[i].prog /\ client'[i].smart = client[i].smart
        /\ client'[i].id = client[i].id
        /\ client'[i].addr = client[i].addr /\ client'[i].pending = "START"
    BY <2>1, <2>2 DEF ClientRecords
  <2>4. ~Waiting(client'[i])
    BY <2>3 DEF Waiting
  <2> QED
    BY <2>1, <2>3, <2>4 DEF Kept, SameProjects
<1>3. CASE \E c \in ClientRecords : Added(c) /\ c.addr = 0
  BY <1>3
<1>4. \/ \E i \in DOMAIN client :
            /\ DOMAIN client' = DOMAIN client
            /\ client'[i] = [client[i] EXCEPT !.pending = "START", !.pid = pid]
            /\ \A j \in DOMAIN client : j # i => client'[j] = client[j]
            /\ client[i].id = id
      \/ \E c \in ClientRecords : /\ Added(c) /\ c.id = id
                                  /\ c.addr = 0 /\ c.pending = "START"
  BY <1>1, Enlisted
<1> QED
  BY <1>2, <1>3, <1>4

\* One client gets other values in fields that are not about its project or address.
LEMMA KeptOne ==
    ASSUME client \in Seq(ClientRecords), NEW i \in DOMAIN client, NEW r,
           client' = [client EXCEPT ![i] = r],
           r.prog = client[i].prog, r.smart = client[i].smart,
           r.id = client[i].id, r.addr = client[i].addr,
           ~Waiting(r)
    PROVE  Kept
BY ChangedFacts DEF Kept, SameProjects

\* Telling clients to quit keeps the list.
LEMMA CommandedList ==
    ASSUME client \in Seq(ClientRecords), NEW which, CommandQuit(which)
    PROVE  Kept
<1>1. \A i \in DOMAIN client : client[i] \in ClientRecords
  OBVIOUS
<1> QED
  BY <1>1 DEF CommandQuit, Kept, SameProjects, Waiting, ClientRecords

\* A death keeps the list or removes one entry.
LEMMA DeathList ==
    ASSUME client \in Seq(ClientRecords), NEW p, HandleDeath(p)
    PROVE  Kept \/ Removed
<1>1. CASE UNCHANGED client
  BY <1>1 DEF Kept, SameProjects
<1>2. CASE \E i \in DOMAIN client : client' = RemoveAt(client, i)
  BY <1>2 DEF Removed
<1>3. CASE \E i \in DOMAIN client :
              client' = [client EXCEPT ![i].pending = "NONE", ![i].active = FALSE, ![i].pid = 0]
  <2>1. PICK i \in DOMAIN client :
           client' = [client EXCEPT ![i] = [client[i] EXCEPT !.pending = "NONE",
                                                !.active = FALSE, !.pid = 0]]
    BY <1>3
  <2>2. client[i] \in ClientRecords
    OBVIOUS
  <2> DEFINE r == [client[i] EXCEPT !.pending = "NONE", !.active = FALSE, !.pid = 0]
  <2>3. /\ r.prog = client[i].prog /\ r.smart = client[i].smart
        /\ r.id = client[i].id /\ r.addr = client[i].addr /\ ~Waiting(r)
    BY <2>2 DEF ClientRecords, Waiting
  <2> HIDE DEF r
  <2> QED
    BY <2>1, <2>3, KeptOne DEF r
<1> QED
  BY <1>1, <1>2, <1>3 DEF HandleDeath

\* An answer keeps the list.
LEMMA AnsweredList ==
    ASSUME client \in Seq(ClientRecords), NEW p \in Pids, NEW ok \in BOOLEAN, Answer(p, ok)
    PROVE  Kept
<1>1. CASE UNCHANGED client
  BY <1>1 DEF Kept, SameProjects
<1>2. CASE \E i \in DOMAIN client :
              client' = [client EXCEPT ![i].error = ~ok, ![i].pending = "NONE"]
  <2>1. PICK i \in DOMAIN client :
           client' = [client EXCEPT ![i] = [client[i] EXCEPT !.error = ~ok, !.pending = "NONE"]]
    BY <1>2
  <2>2. client[i] \in ClientRecords
    OBVIOUS
  <2> DEFINE r == [client[i] EXCEPT !.error = ~ok, !.pending = "NONE"]
  <2>3. /\ r.prog = client[i].prog /\ r.smart = client[i].smart
        /\ r.id = client[i].id /\ r.addr = client[i].addr /\ ~Waiting(r)
    BY <2>2 DEF ClientRecords, Waiting
  <2> HIDE DEF r
  <2> QED
    BY <2>1, <2>3, KeptOne DEF r
<1> QED
  BY <1>1, <1>2 DEF Answer

\* Stopping a client keeps the list.
LEMMA StoppedList ==
    ASSUME client \in Seq(ClientRecords), NEW i \in DOMAIN client, Stop(i)
    PROVE  Kept
<1>1. client[i] \in ClientRecords
  OBVIOUS
<1> DEFINE r == [client[i] EXCEPT !.pending = "KILL"]
<1>2. /\ r.prog = client[i].prog /\ r.smart = client[i].smart
      /\ r.id = client[i].id /\ r.addr = client[i].addr /\ ~Waiting(r)
  BY <1>1 DEF ClientRecords, Waiting
<1>3. client' = [client EXCEPT ![i] = r]
  BY DEF Stop
<1> HIDE DEF r
<1> QED
  BY <1>2, <1>3, KeptOne

\* A save: every client told to save is sent the message.
Saving == CommandSave \/ \E i \in DOMAIN client : ClientSave(i)

\* A save changes no client's project.
LEMMA SavedList ==
    ASSUME client \in Seq(ClientRecords), Saving
    PROVE  SameProjects
<1>1. \A i \in DOMAIN client : client[i] \in ClientRecords
  OBVIOUS
<1>2. CASE UNCHANGED client
  BY <1>2 DEF SameProjects
<1>3. CASE client' = [i \in DOMAIN client |->
                        IF client[i].active THEN [client[i] EXCEPT !.pending = "SAVE"]
                        ELSE client[i]]
  BY <1>1, <1>3 DEF SameProjects, ClientRecords
<1>4. CASE \E i \in DOMAIN client :
              client' = [client EXCEPT ![i] = [client[i] EXCEPT !.pending = "SAVE"]]
  BY <1>1, <1>4 DEF SameProjects, ClientRecords
<1> QED
  BY <1>2, <1>3, <1>4 DEF Saving, CommandSave, ClientSave

\* What a step does to the list.
LEMMA ListStep ==
    ASSUME TypeOK, [Next]_vars
    PROVE  \/ Kept \/ Removed
           \/ \E c \in ClientRecords : Added(c) /\ c.addr = 0
           \/ Saving \/ SwitchClient
           \/ \E p \in Pids : Announce(p)
<1>1. client \in Seq(ClientRecords)
  BY DEF TypeOK
<1>2. CASE UNCHANGED client
  BY <1>2 DEF Kept, SameProjects
<1>3. CASE CommandSave
  BY <1>3 DEF Saving
<1>4. CASE CloseBegin \/ LoadBegin
  BY <1>1, <1>2, <1>4, CommandedList DEF CloseBegin, LoadBegin
<1>5. CASE PurgeStep \/ ClearStep
  <2>1. cursor \in Nat \ {0} /\ cursor <= Len(client)
    BY <1>5 DEF PurgeStep, ClearStep, TypeOK
  <2>2. cursor \in DOMAIN client
    BY <1>1, <2>1
  <2> QED
    BY <1>2, <1>5, <2>2 DEF PurgeStep, ClearStep, Removed
<1>6. CASE LaunchClient
  BY <1>1, <1>6, WantedType, LaunchedList DEF LaunchClient, TypeOK
<1>7. CASE \E prog \in Progs : Add(prog)
  BY <1>1, <1>7, FreshIdsType, LaunchedList DEF Add
<1>8. ASSUME NEW i \in DOMAIN client, Stop(i) \/ Remove_(i) \/ Resume(i) \/ ClientSave(i)
      PROVE  Kept \/ Removed \/ Saving \/ \E c \in ClientRecords : Added(c) /\ c.addr = 0
  <2>1. CASE Stop(i) \/ ClientSave(i)
    BY <1>1, <2>1, StoppedList DEF Saving
  <2>2. CASE Remove_(i)
    BY <2>2 DEF Remove_, Removed
  <2>3. CASE Resume(i)
    BY <1>1, <2>3, ClientFieldType, LaunchedList DEF Resume
  <2> QED
    BY <1>8, <2>1, <2>2, <2>3
<1>9. ASSUME NEW p \in Pids, \/ AnnounceRefused(p) \/ Answer(p, TRUE) \/ Answer(p, FALSE)
                             \/ Exit(p) \/ Reap(p) \/ PurgeDead(p)
      PROVE  Kept \/ Removed
  <2>1. CASE Answer(p, TRUE) \/ Answer(p, FALSE)
    BY <1>1, <2>1, AnsweredList
  <2>2. CASE Reap(p) \/ PurgeDead(p)
    BY <1>1, <2>2, DeathList DEF Reap, PurgeDead
  <2>3. CASE AnnounceRefused(p) \/ Exit(p)
    BY <2>3 DEF AnnounceRefused, Exit, Kept, SameProjects
  <2> QED
    BY <1>9, <2>1, <2>2, <2>3
<1>10. CASE \/ RepliesDone \/ RepliesTimeout \/ AfterSave \/ KilledDone \/ KilledTimeout
            \/ PurgeEnd \/ ClearEnd \/ Closed \/ CleanExit \/ CreateFails \/ CreateSession
            \/ LoadNoFile \/ LoadRefused \/ SwitchEnd \/ AnnounceEnd \/ LoadEnd
            \/ Idle \/ UNCHANGED vars
  BY <1>2, <1>10 DEF RepliesDone, RepliesTimeout, AfterSave, KilledDone, KilledTimeout,
     PurgeEnd, ClearEnd, Closed, CleanExit, CreateFails, CreateSession, LoadNoFile,
     LoadRefused, SwitchEnd, AnnounceEnd, LoadEnd, Idle, ReturnUnchanged, vars
<1>11. CASE \/ Save \/ Close \/ Abort \/ Quit
            \/ \E s \in Sessions : Open(s) \/ New(s) \/ Duplicate(s)
  BY <1>2, <1>11 DEF Save, Close, Abort, Quit, Open, New, Duplicate, Begin
<1> QED
  BY <1>3, <1>4, <1>5, <1>6, <1>7, <1>8, <1>9, <1>10, <1>11
  DEF Next, Daemon, Request, Environment


----------------------------------------------------------------------------
(* No two clients come to the same project but by an announcement          *)

\* The client that serves the next entry of the file takes the entry's id: it
\* has it already, or no client of its name has it.
LEMMA SwitchedProject ==
    ASSUME TypeOK, SwitchClient
    PROVE  \E i \in DOMAIN client :
              /\ DOMAIN client' = DOMAIN client
              /\ client'[i] = [client[i] EXCEPT !.id = Head(wanted).id, !.pending = "OPEN"]
              /\ \A j \in DOMAIN client : j # i => client'[j] = client[j]
              /\ proc' = SendOpen(client[i].addr)
              /\ \/ client[i].id = Head(wanted).id
                 \/ \A j \in DOMAIN client : ~(/\ Name(client[j]) = Name(client[i])
                                              /\ client[j].id = Head(wanted).id)
<1> DEFINE e == Head(wanted)
           same == ById(e.id) \cap ByName(e.name)
<1>1. PICK i \in DOMAIN client :
         /\ First(IF same # {} THEN same ELSE ByName(e.name), i)
         /\ client' = [client EXCEPT ![i] = [client[i] EXCEPT !.id = e.id, !.pending = "OPEN"]]
         /\ proc' = SendOpen(client[i].addr)
  BY DEF SwitchClient, Candidate
<1>2. client \in Seq(ClientRecords)
  BY DEF TypeOK
<1>3. /\ DOMAIN client' = DOMAIN client
      /\ client'[i] = [client[i] EXCEPT !.id = e.id, !.pending = "OPEN"]
      /\ \A j \in DOMAIN client : j # i => client'[j] = client[j]
  BY <1>1, <1>2, ChangedFacts
<1>4. \/ client[i].id = e.id
      \/ \A j \in DOMAIN client : ~(Name(client[j]) = Name(client[i]) /\ client[j].id = e.id)
  <2>1. CASE same # {}
    BY <1>1, <2>1 DEF First, ById
  <2>2. CASE same = {}
    <3>1. Name(client[i]) = e.name
      BY <1>1, <2>2 DEF First, ByName
    <3> QED
      BY <2>2, <3>1 DEF ById, ByName
  <2> QED
    BY <2>1, <2>2
<1> HIDE DEF e
<1> QED
  BY <1>1, <1>3, <1>4 DEF e

\* announce takes the first client that was launched and waits for this
\* program, or adds one under a fresh id.
LEMMA Announced ==
    ASSUME TypeOK, NEW p \in Pids, Announce(p)
    PROVE  \/ \E i \in DOMAIN client :
                 /\ DOMAIN client' = DOMAIN client
                 /\ client'[i] = [client[i] EXCEPT !.pid = p, !.addr = p, !.smart = TRUE,
                                                   !.active = TRUE, !.pending = "OPEN"]
                 /\ \A j \in DOMAIN client : j # i => client'[j] = client[j]
           \/ \E c \in ClientRecords : Added(c) /\ c.addr = p
<1>1. client \in Seq(ClientRecords) /\ proc[p].prog \in Progs
  BY ProcFieldType DEF TypeOK
<1>2. CASE \E i \in DOMAIN client :
              client' = [client EXCEPT ![i].pid = p, ![i].addr = p, ![i].smart = TRUE,
                                       ![i].active = TRUE, ![i].pending = "OPEN"]
  <2>1. PICK i \in DOMAIN client :
           client' = [client EXCEPT ![i].pid = p, ![i].addr = p, ![i].smart = TRUE,
                                    ![i].active = TRUE, ![i].pending = "OPEN"]
    BY <1>2, Zenon
  <2>2. client' = [client EXCEPT ![i] = [client[i] EXCEPT !.pid = p, !.addr = p,
                     !.smart = TRUE, !.active = TRUE, !.pending = "OPEN"]]
    BY <2>1
  <2> QED
    BY <1>1, <2>2, ChangedFacts
<1>3. CASE \E id \in FreshIds : client' = Append(client,
              [id |-> id, prog |-> proc[p].prog, pid |-> p, active |-> TRUE, smart |-> TRUE,
               pending |-> "OPEN", error |-> FALSE, addr |-> p])
  <2>1. PICK id \in FreshIds : client' = Append(client,
              [id |-> id, prog |-> proc[p].prog, pid |-> p, active |-> TRUE, smart |-> TRUE,
               pending |-> "OPEN", error |-> FALSE, addr |-> p])
    BY <1>3
  <2> DEFINE c == [id |-> id, prog |-> proc[p].prog, pid |-> p, active |-> TRUE, smart |-> TRUE,
                   pending |-> "OPEN", error |-> FALSE, addr |-> p]
  <2>2. c \in ClientRecords /\ c.id = id /\ c.addr = p
    BY <1>1, FreshIdsType DEF ClientRecords, Commands
  <2> HIDE DEF c
  <2>3. Added(c)
    BY <2>1, <2>2, FreshMeansNone DEF Added, c
  <2> QED
    BY <2>2, <2>3
<1> QED
  BY <1>2, <1>3, Zenon DEF Announce

\* A path that two clients have and no two clients had is that of one that
\* announced itself under a name it did not have.
StayApart ==
    \A path \in Shared' \ Shared :
        \E i \in DOMAIN client : /\ i \in DOMAIN client'
                                 /\ Name(client'[i]) # Name(client[i])
                                 /\ Project(client'[i]) = path

\* A shared path is one that two clients have.
LEMMA SharedByTwo ==
    \A path : path \in Shared <=>
        \E i, j \in DOMAIN client : /\ i # j
                                    /\ Project(client[i]) = path /\ Project(client[j]) = path
BY DEF Shared

\* The same of the list after a step.
LEMMA SharedByTwoNext ==
    \A path : path \in Shared' <=>
        \E i, j \in DOMAIN client' : /\ i # j
                                     /\ Project(client'[i]) = path /\ Project(client'[j]) = path
BY DEF Shared, Project, Name

\* Every client keeps its name and its id.
LEMMA SameStaysApart ==
    ASSUME SameProjects
    PROVE  StayApart
<1>1. \A i \in DOMAIN client : Project(client'[i]) = Project(client[i])
  BY DEF SameProjects, Project, Name
<1> QED
  BY <1>1, SharedByTwo, SharedByTwoNext DEF SameProjects, StayApart

\* A client leaves the list.
LEMMA RemovedStaysApart ==
    ASSUME TypeOK, Removed
    PROVE  StayApart
<1>1. PICK k \in DOMAIN client : client' = RemoveAt(client, k)
  BY DEF Removed
<1>2. /\ \A i \in DOMAIN client' : /\ Before(k, i) \in DOMAIN client
                                   /\ client'[i] = client[Before(k, i)]
      /\ \A i, j \in DOMAIN client' : Before(k, i) = Before(k, j) => i = j
  BY <1>1, RemovedFacts DEF TypeOK
<1>3. SUFFICES ASSUME NEW path \in Shared' PROVE path \in Shared
  BY DEF StayApart
<1>4. PICK i, j \in DOMAIN client' :
         i # j /\ Project(client'[i]) = path /\ Project(client'[j]) = path
  BY SharedByTwoNext
<1> QED
  BY <1>2, <1>4, SharedByTwo

\* A client is added under an identifier nobody has.
LEMMA AddedStaysApart ==
    ASSUME TypeOK, NEW c \in ClientRecords, Added(c)
    PROVE  StayApart
<1>1. \A i \in DOMAIN client : client[i].id # c.id
  BY DEF Added, ById
<1>2. /\ DOMAIN client' = DOMAIN client \cup {Len(client) + 1}
      /\ client'[Len(client) + 1] = c
      /\ \A i \in DOMAIN client : client'[i] = client[i]
  BY AddedFacts DEF Added, TypeOK
<1>3. \A i \in DOMAIN client : Project(client[i]) # Project(c)
  BY <1>1 DEF Project
<1>4. SUFFICES ASSUME NEW path \in Shared' PROVE path \in Shared
  BY DEF StayApart
<1>5. PICK i, j \in DOMAIN client' :
         i # j /\ Project(client'[i]) = path /\ Project(client'[j]) = path
  BY SharedByTwoNext
<1>6. i \in DOMAIN client /\ j \in DOMAIN client
  BY <1>2, <1>3, <1>5
<1> QED
  BY <1>2, <1>5, <1>6, SharedByTwo

\* One client changes: it gets another name, or keeps its project, or comes to
\* one that nobody has.
LEMMA ChangedStaysApart ==
    ASSUME NEW i \in DOMAIN client, DOMAIN client' = DOMAIN client,
           \A j \in DOMAIN client : j # i => client'[j] = client[j],
           \/ Name(client'[i]) # Name(client[i])
           \/ Project(client'[i]) = Project(client[i])
           \/ \A j \in DOMAIN client : Project(client[j]) # Project(client'[i])
    PROVE  StayApart
<1>1. SUFFICES ASSUME NEW path \in Shared', path \notin Shared
               PROVE  Name(client'[i]) # Name(client[i]) /\ Project(client'[i]) = path
  BY DEF StayApart
<1>2. PICK j, k \in DOMAIN client :
         j # k /\ Project(client'[j]) = path /\ Project(client'[k]) = path
  BY SharedByTwoNext
<1>3. j = i \/ k = i
  BY <1>1, <1>2, SharedByTwo
<1>4. PICK l \in DOMAIN client : l # i /\ Project(client[l]) = path
  BY <1>2, <1>3
<1>5. Project(client'[i]) = path
  BY <1>2, <1>3
<1> QED
  BY <1>1, <1>4, <1>5, SharedByTwo

\* No step brings clients together but an announcement.
LEMMA ProjectsStep ==
    ASSUME TypeOK, [Next]_vars
    PROVE  StayApart
<1>1. client \in Seq(ClientRecords)
  BY DEF TypeOK
<1>2. CASE Kept \/ Saving
  BY <1>1, <1>2, SavedList, SameStaysApart DEF Kept
<1>3. CASE Removed
  BY <1>3, RemovedStaysApart
<1>4. CASE \E c \in ClientRecords : Added(c)
  BY <1>4, AddedStaysApart
<1>5. CASE SwitchClient
  <2>1. PICK i \in DOMAIN client :
           /\ DOMAIN client' = DOMAIN client
           /\ client'[i] = [client[i] EXCEPT !.id = Head(wanted).id, !.pending = "OPEN"]
           /\ \A j \in DOMAIN client : j # i => client'[j] = client[j]
           /\ \/ client[i].id = Head(wanted).id
              \/ \A j \in DOMAIN client : ~(/\ Name(client[j]) = Name(client[i])
                                           /\ client[j].id = Head(wanted).id)
    BY <1>5, SwitchedProject
  <2>2. client[i] \in ClientRecords
    BY <1>1
  <2>3. /\ client'[i].prog = client[i].prog /\ client'[i].smart = client[i].smart
        /\ client'[i].id = Head(wanted).id
    BY <2>1, <2>2 DEF ClientRecords
  <2>4. \/ Project(client'[i]) = Project(client[i])
        \/ \A j \in DOMAIN client : Project(client[j]) # Project(client'[i])
    BY <2>1, <2>3 DEF Project, Name
  <2> QED
    BY <2>1, <2>4, ChangedStaysApart
<1>6. ASSUME NEW p \in Pids, Announce(p)
      PROVE  StayApart
  <2>1. CASE \E i \in DOMAIN client :
                /\ DOMAIN client' = DOMAIN client
                /\ client'[i] = [client[i] EXCEPT !.pid = p, !.addr = p, !.smart = TRUE,
                                                  !.active = TRUE, !.pending = "OPEN"]
                /\ \A j \in DOMAIN client : j # i => client'[j] = client[j]
    <3>1. PICK i \in DOMAIN client :
                /\ DOMAIN client' = DOMAIN client
                /\ client'[i] = [client[i] EXCEPT !.pid = p, !.addr = p, !.smart = TRUE,
                                                  !.active = TRUE, !.pending = "OPEN"]
                /\ \A j \in DOMAIN client : j # i => client'[j] = client[j]
      BY <2>1
    <3>2. client[i] \in ClientRecords
      BY <1>1
    <3>3. client'[i].id = client[i].id
      BY <3>1, <3>2 DEF ClientRecords
    <3>4. \/ Name(client'[i]) # Name(client[i])
          \/ Project(client'[i]) = Project(client[i])
      BY <3>3 DEF Project
    <3> QED
      BY <3>1, <3>4, ChangedStaysApart
  <2>2. CASE \E c \in ClientRecords : Added(c) /\ c.addr = p
    BY <2>2, AddedStaysApart
  <2> QED
    BY <1>6, <2>1, <2>2, Announced
<1> QED
  BY <1>2, <1>3, <1>4, <1>5, <1>6, ListStep

\* Launch, switch, resume and a session loaded over leftovers of the last one
\* bring no two clients to one project path, name.id, whatever names and ids the
\* files hold: launch adds a client only under an id nobody has, announce under a
\* fresh one, and a switch gives an id to a client only if none of its name has
\* it. What is left is the client that announces a name it did not have.
THEOREM ProjectsAreKeptApart == Spec => ProjectsStayApart
<1>1. TypeOK /\ [Next]_vars => StayApart
  BY ProjectsStep
<1>2. StayApart <=> \A path \in Shared' \ Shared :
                       \E i \in DOMAIN client : /\ i \in DOMAIN client'
                                                /\ Name(client'[i]) # Name(client[i])
                                                /\ Project(client'[i]) = path
  BY DEF StayApart
<1> QED
  BY <1>1, <1>2, TypeCorrect, PTL DEF Spec, ProjectsStayApart

----------------------------------------------------------------------------
(* nsmd never waits in vain                                                *)

\* The address of a client is that of a process that has announced, and no two
\* clients have the same: a process announces once, and launch keeps the
\* address of the client it reuses.
AddressInv ==
    /\ \A i \in DOMAIN client :
          client[i].addr # 0 => proc[client[i].addr].state \notin {"unborn", "starting"}
    /\ \A i, j \in DOMAIN client :
          client[i].addr # 0 /\ client[i].addr = client[j].addr => i = j

Alive == {"starting", "up", "lone"}

\* No process takes back its announcement, and one that is alive was so before
\* with no more answers given, or has just been started.
Owing(p) ==
    /\ proc'[p].state \in {"unborn", "starting"} => proc[p].state \in {"unborn", "starting"}
    /\ proc'[p].state \in Alive =>
          \/ proc[p].state = "unborn" /\ proc'[p].state = "starting"
          \/ /\ proc[p].state \in Alive
             /\ proc[p].todo # <<>> => proc'[p].todo # <<>>

\* A process that is not touched owes what it owed.
LEMMA SameOwing ==
    ASSUME NEW p, proc'[p] = proc[p]
    PROVE  Owing(p)
BY DEF Owing

\* A dead process owes nothing.
LEMMA CorpseOwing ==
    ASSUME NEW p, proc'[p] = Corpse(p)
    PROVE  Owing(p)
BY DEF Owing, Corpse, Process, Alive

\* Of a process only other fields change, or a command is added.
LEMMA ToldOwing ==
    ASSUME NEW p, proc[p] \in ProcRecords, proc'[p].state = proc[p].state,
           proc'[p].todo = proc[p].todo \/ \E command : proc'[p].todo = Append(proc[p].todo, command)
    PROVE  Owing(p)
<1>1. proc[p].todo \in Seq({"open", "save"})
  BY DEF ProcRecords
<1> QED
  BY <1>1 DEF Owing

\* A signal takes no command from a process that goes on living.
LEMMA SignalOwing ==
    ASSUME TypeOK, NEW ps, proc' = Signal(ps)
    PROVE  \A p \in Pids : Owing(p)
<1> TAKE p \in Pids
<1>1. proc[p] \in ProcRecords
  BY ProcFieldType
<1>2. proc'[p].state = proc[p].state /\ proc'[p].todo = proc[p].todo
  BY <1>1 DEF Signal, ProcRecords
<1> QED
  BY <1>1, <1>2, ToldOwing

\* A sequence to which something was appended is not empty.
LEMMA AppendNotEmpty ==
    ASSUME NEW S, NEW s \in Seq(S), NEW x \in S
    PROVE  Append(s, x) # <<>>
BY AppendProperties

\* Whoever is sent a command has something to answer, if it is alive to get it.
LEMMA SendOwing ==
    ASSUME TypeOK, NEW ps, NEW command \in {"open", "save"}, proc' = Send(ps, command)
    PROVE  \A p \in Pids : /\ Owing(p)
                           /\ p \in ps /\ proc'[p].state \in Alive => proc'[p].todo # <<>>
<1> TAKE p \in Pids
<1>1. proc[p] \in ProcRecords /\ proc[p].todo \in Seq({"open", "save"})
  BY ProcFieldType
<1>2. CASE p \in ps \cap Running
  <2>1. proc'[p] = [proc[p] EXCEPT !.todo = Append(@, command)]
    BY <1>2 DEF Send
  <2>2. proc'[p].state = proc[p].state /\ proc'[p].todo = Append(proc[p].todo, command)
    BY <1>1, <2>1 DEF ProcRecords
  <2> QED
    BY <1>1, <2>2, ToldOwing, AppendNotEmpty
<1>3. CASE p \notin ps \cap Running
  <2>1. proc'[p] = proc[p]
    BY <1>3 DEF Send
  <2> QED
    BY <1>3, <2>1, SameOwing DEF Running, Alive
<1> QED
  BY <1>2, <1>3

\* The open command takes no other command away, and its receiver has
\* something to answer.
LEMMA SendOpenOwing ==
    ASSUME TypeOK, NEW a, proc' = SendOpen(a)
    PROVE  \A p \in Pids : /\ Owing(p)
                           /\ p = a /\ proc'[p].state \in Alive => proc'[p].todo # <<>>
<1> TAKE p \in Pids
<1>1. proc[p] \in ProcRecords /\ proc[p].todo \in Seq({"open", "save"})
  BY ProcFieldType
<1>2. CASE p = a /\ p \in Running
  <2>1. proc'[p] = [proc[p] EXCEPT !.todo = Append(@, "open"), !.project = session_path]
    BY <1>2 DEF SendOpen
  <2>2. proc'[p].state = proc[p].state /\ proc'[p].todo = Append(proc[p].todo, "open")
    BY <1>1, <2>1 DEF ProcRecords
  <2> QED
    BY <1>1, <2>2, ToldOwing, AppendNotEmpty
<1>3. CASE ~(p = a /\ p \in Running)
  <2>1. proc'[p] = proc[p]
    BY <1>3 DEF SendOpen
  <2> QED
    BY <1>3, <2>1, SameOwing DEF Running, Alive
<1> QED
  BY <1>2, <1>3

\* A launch takes no command from a process.
LEMMA LaunchOwing ==
    ASSUME TypeOK, NEW prog, NEW id, Launch(prog, id)
    PROVE  \A p \in Pids : Owing(p)
<1>1. CASE UNCHANGED proc
  BY <1>1, SameOwing
<1>2. CASE \E q \in Unborn : proc' = [proc EXCEPT ![q] = Process("starting", prog)]
  <2>1. PICK q \in Unborn : proc' = [proc EXCEPT ![q] = Process("starting", prog)]
    BY <1>2
  <2>2. proc[q].state = "unborn" /\ proc'[q].state = "starting"
    BY <2>1 DEF Unborn, Process, TypeOK
  <2>3. Owing(q)
    BY <2>2 DEF Owing, Alive
  <2>4. \A p \in Pids : p # q => proc'[p] = proc[p]
    BY <2>1 DEF TypeOK
  <2> QED
    BY <2>3, <2>4, SameOwing
<1> QED
  BY <1>1, <1>2 DEF Launch

\* An announced process has something to answer, and the others owe what they
\* owed.
LEMMA AnnounceOwing ==
    ASSUME TypeOK, NEW q \in Pids, Announce(q)
    PROVE  /\ \A p \in Pids : Owing(p)
           /\ proc[q].state = "starting" /\ proc'[q].todo # <<>>
           /\ proc'[q].state \notin {"unborn", "starting"}
<1>1. proc[q] \in ProcRecords /\ proc[q].todo \in Seq({"open", "save"})
  BY ProcFieldType
<1>2. proc' = [proc EXCEPT ![q] = [proc[q] EXCEPT !.state = "up", !.project = session_path,
                                                  !.todo = Append(@, "open")]]
  BY DEF Announce
<1>3. proc'[q] = [proc[q] EXCEPT !.state = "up", !.project = session_path,
                                 !.todo = Append(@, "open")]
  BY <1>2 DEF TypeOK
<1>4. proc'[q].state = "up" /\ proc'[q].todo = Append(proc[q].todo, "open")
  BY <1>1, <1>3 DEF ProcRecords
<1>5. proc'[q].todo # <<>> /\ proc[q].state = "starting"
  BY <1>1, <1>4, AppendNotEmpty DEF Announce
<1>6. Owing(q)
  BY <1>4, <1>5 DEF Owing, Alive
<1>7. \A p \in Pids : p # q => proc'[p] = proc[p]
  BY <1>2 DEF TypeOK
<1> QED
  BY <1>4, <1>5, <1>6, <1>7, SameOwing

\* An answer takes a command only from the process that gives it.
LEMMA AnswerOwing ==
    ASSUME TypeOK, NEW q \in Pids, NEW ok, Answer(q, ok)
    PROVE  /\ \A p \in Pids \ {q} : Owing(p)
           /\ proc'[q].state = proc[q].state
<1>1. proc[q] \in ProcRecords
  BY ProcFieldType
<1>2. proc' = [proc EXCEPT ![q] = [proc[q] EXCEPT !.todo = Tail(@)]]
  BY DEF Answer
<1>3. proc'[q] = [proc[q] EXCEPT !.todo = Tail(@)]
  BY <1>2 DEF TypeOK
<1>4. proc'[q].state = proc[q].state
  BY <1>1, <1>3 DEF ProcRecords
<1>5. \A p \in Pids : p # q => proc'[p] = proc[p]
  BY <1>2 DEF TypeOK
<1> QED
  BY <1>4, <1>5, SameOwing

\* A refusal, an exit, a reaped or a purged death takes no command from a
\* process that lives.
LEMMA LifeOwing ==
    ASSUME TypeOK, NEW q \in Pids,
           AnnounceRefused(q) \/ Exit(q) \/ Reap(q) \/ PurgeDead(q)
    PROVE  \A p \in Pids : Owing(p)
<1>1. CASE PurgeDead(q)
  BY <1>1, SameOwing DEF PurgeDead
<1>2. CASE Exit(q)
  <2>1. proc' = [proc EXCEPT ![q] = Corpse(q)]
    BY <1>2 DEF Exit
  <2>2. proc'[q] = Corpse(q) /\ \A p \in Pids : p # q => proc'[p] = proc[p]
    BY <2>1 DEF TypeOK
  <2> QED
    BY <2>2, CorpseOwing, SameOwing
<1>3. CASE AnnounceRefused(q)
  <2>1. proc' = [proc EXCEPT ![q] = [proc[q] EXCEPT !.state = "lone"]]
        /\ proc[q].state = "starting"
    BY <1>3 DEF AnnounceRefused
  <2>2. proc'[q] = [proc[q] EXCEPT !.state = "lone"]
        /\ \A p \in Pids : p # q => proc'[p] = proc[p]
    BY <2>1 DEF TypeOK
  <2>3. proc'[q].state = "lone" /\ proc'[q].todo = proc[q].todo
    BY <2>2, ProcFieldType DEF ProcRecords
  <2>4. Owing(q)
    BY <2>1, <2>3 DEF Owing, Alive
  <2> QED
    BY <2>2, <2>4, SameOwing
<1>4. CASE Reap(q)
  <2>1. proc' = [proc EXCEPT ![q] = [proc[q] EXCEPT !.state = "gone"]]
    BY <1>4 DEF Reap
  <2>2. proc'[q] = [proc[q] EXCEPT !.state = "gone"]
        /\ \A p \in Pids : p # q => proc'[p] = proc[p]
    BY <2>1 DEF TypeOK
  <2>3. proc'[q].state = "gone"
    BY <2>2, ProcFieldType DEF ProcRecords
  <2>4. Owing(q)
    BY <2>3 DEF Owing, Alive
  <2> QED
    BY <2>2, <2>4, SameOwing
<1> QED
  BY <1>1, <1>2, <1>3, <1>4

\* The kill after the timeout takes no command from a process that goes on
\* living.
LEMMA KilledOwing ==
    ASSUME TypeOK, KilledTimeout
    PROVE  \A p \in Pids : Owing(p)
<1>1. PICK victims : proc' = [p \in Pids |-> IF p \in victims THEN Corpse(p) ELSE proc[p]]
  BY DEF KilledTimeout
<1>2. \A p \in Pids : proc'[p] = Corpse(p) \/ proc'[p] = proc[p]
  BY <1>1
<1> QED
  BY <1>2, CorpseOwing, SameOwing

\* A save takes no command from a process.
LEMMA CommandSaveOwing ==
    ASSUME TypeOK, CommandSave
    PROVE  \A p \in Pids : Owing(p)
BY SendOwing, SameOwing DEF CommandSave

\* Only an answer leaves a process with less to answer.
LEMMA ProcStep ==
    ASSUME TypeOK, [Next]_vars
    PROVE  \/ \A p \in Pids : Owing(p)
           \/ \E q \in Pids : Answer(q, TRUE) \/ Answer(q, FALSE)
<1>1. CASE UNCHANGED proc
  BY <1>1, SameOwing
<1>2. CASE CommandSave
  BY <1>2, CommandSaveOwing
<1>3. CASE CloseBegin \/ LoadBegin
  BY <1>1, <1>3, SignalOwing DEF CloseBegin, LoadBegin, CommandQuit
<1>4. CASE KilledTimeout
  BY <1>4, KilledOwing
<1>5. CASE SwitchClient
  <2>1. \E a : proc' = SendOpen(a)
    BY <1>5 DEF SwitchClient
  <2> QED
    BY <2>1, SendOpenOwing
<1>6. CASE LaunchClient \/ \E prog \in Progs : Add(prog)
  BY <1>6, LaunchOwing DEF LaunchClient, Add
<1>7. ASSUME NEW i \in DOMAIN client, Stop(i) \/ Remove_(i) \/ Resume(i) \/ ClientSave(i)
      PROVE  \A p \in Pids : Owing(p)
  <2>1. CASE Stop(i)
    BY <2>1, SignalOwing DEF Stop
  <2>2. CASE Remove_(i)
    <3>1. UNCHANGED proc
      BY <2>2, Zenon DEF Remove_
    <3> QED
      BY <3>1, SameOwing
  <2>3. CASE Resume(i)
    BY <2>3, LaunchOwing DEF Resume
  <2>4. CASE ClientSave(i)
    <3>1. proc' = Send({client[i].addr}, "save")
      BY <2>4 DEF ClientSave
    <3> QED
      BY <3>1, SendOwing
  <2> QED
    BY <1>7, <2>1, <2>2, <2>3, <2>4
<1>8. ASSUME NEW q \in Pids,
             Announce(q) \/ AnnounceRefused(q) \/ Exit(q) \/ Reap(q) \/ PurgeDead(q)
      PROVE  \A p \in Pids : Owing(p)
  BY <1>8, AnnounceOwing, LifeOwing
<1>9. CASE \/ RepliesDone \/ RepliesTimeout \/ AfterSave \/ KilledDone
           \/ PurgeStep \/ PurgeEnd \/ ClearStep \/ ClearEnd \/ Closed \/ CleanExit
           \/ CreateFails \/ CreateSession \/ LoadNoFile \/ LoadRefused \/ SwitchEnd
           \/ AnnounceEnd \/ LoadEnd \/ Idle \/ UNCHANGED vars
  BY <1>1, <1>9 DEF RepliesDone, RepliesTimeout, AfterSave, KilledDone, PurgeStep,
     PurgeEnd, ClearStep, ClearEnd, Closed, CleanExit, CreateFails, CreateSession,
     LoadNoFile, LoadRefused, SwitchEnd, AnnounceEnd, LoadEnd, Idle, ReturnUnchanged, vars
<1>10. CASE \/ Save \/ Close \/ Abort \/ Quit
            \/ \E s \in Sessions : Open(s) \/ New(s) \/ Duplicate(s)
  BY <1>1, <1>10 DEF Save, Close, Abort, Quit, Open, New, Duplicate, Begin
<1> QED
  BY <1>2, <1>3, <1>4, <1>5, <1>6, <1>7, <1>8, <1>9, <1>10
  DEF Next, Daemon, Request, Environment

\* What a client that stays keeps: its process has announced, and if nsmd was
\* waiting for it, it still owes an answer.
LEMMA StaysServed ==
    ASSUME TypeOK, AddressInv, NoVainWait, NEW i \in DOMAIN client,
           \A p \in Pids : Owing(p)
    PROVE  /\ client[i].addr # 0 => proc'[client[i].addr].state \notin {"unborn", "starting"}
           /\ Waiting(client[i]) /\ client[i].addr \in Running' => proc'[client[i].addr].todo # <<>>
<1>1. client[i].addr \in Pids \cup {0} /\ 0 \notin Pids
  BY ClientFieldType, ConstantsAssumption DEF TypeOK
<1>2. CASE client[i].addr \in Pids
  <2>1. Owing(client[i].addr)
    BY <1>2
  <2>2. proc[client[i].addr].state \notin {"unborn", "starting"}
    BY <1>1, <1>2 DEF AddressInv
  <2>3. Waiting(client[i]) /\ client[i].addr \in Running => proc[client[i].addr].todo # <<>>
    BY DEF NoVainWait, Waiting
  <2> QED
    BY <1>2, <2>1, <2>2, <2>3 DEF Owing, Alive, Running
<1> QED
  BY <1>1, <1>2 DEF Running

\* A client that waits after a save waited before, or was just sent the
\* command.
LEMMA SavingServes ==
    ASSUME TypeOK, Saving, NEW i \in DOMAIN client,
           Waiting(client'[i]), client[i].addr \in Running'
    PROVE  Waiting(client[i]) \/ proc'[client[i].addr].todo # <<>>
<1>1. client \in Seq(ClientRecords) /\ client[i] \in ClientRecords
  BY DEF TypeOK
<1>2. client[i].addr \in Pids /\ proc'[client[i].addr].state \in Alive
  BY DEF Running, Alive
<1>3. CASE CommandSave /\ session_path \notin ReadOnly
  <2>1. CASE client[i].active
    <3> DEFINE ps == {client[j].addr : j \in {k \in DOMAIN client : client[k].active}}
    <3>1. proc' = Send(ps, "save") /\ client[i].addr \in ps
      BY <1>3, <2>1 DEF CommandSave
    <3> HIDE DEF ps
    <3> QED
      BY <1>2, <3>1, SendOwing
  <2>2. CASE ~client[i].active
    BY <1>3, <2>2 DEF CommandSave, Waiting
  <2> QED
    BY <2>1, <2>2
<1>4. CASE UNCHANGED client
  BY <1>4
<1>5. ASSUME NEW j \in DOMAIN client, ClientSave(j)
      PROVE  Waiting(client[i]) \/ proc'[client[i].addr].todo # <<>>
  <2>1. CASE i = j
    <3>1. proc' = Send({client[i].addr}, "save")
      BY <1>5, <2>1 DEF ClientSave
    <3> QED
      BY <1>2, <3>1, SendOwing
  <2>2. CASE i # j
    <3>1. client'[i] = client[i]
      BY <1>5, <2>2 DEF ClientSave
    <3> QED
      BY <3>1
  <2> QED
    BY <2>1, <2>2
<1> QED
  BY <1>3, <1>4, <1>5 DEF Saving, CommandSave

Served == AddressInv /\ NoVainWait

\* The clients that stay are served, those that are new have no address.
LEMMA KeptServed ==
    ASSUME TypeOK, Served, Kept, \A p \in Pids : Owing(p)
    PROVE  Served'
<1>1. \A i \in DOMAIN client :
         /\ client[i].addr # 0 => proc'[client[i].addr].state \notin {"unborn", "starting"}
         /\ Waiting(client[i]) /\ client[i].addr \in Running' => proc'[client[i].addr].todo # <<>>
  BY StaysServed DEF Served
<1>2. AddressInv'
  BY <1>1 DEF Served, AddressInv, Kept, SameProjects
<1>3. NoVainWait'
  BY <1>1 DEF NoVainWait, Waiting, Kept, SameProjects
<1> QED
  BY <1>2, <1>3 DEF Served

\* Removing an entry keeps every waiting client served.
LEMMA RemovedServed ==
    ASSUME TypeOK, Served, Removed, \A p \in Pids : Owing(p)
    PROVE  Served'
<1>1. \A i \in DOMAIN client :
         /\ client[i].addr # 0 => proc'[client[i].addr].state \notin {"unborn", "starting"}
         /\ Waiting(client[i]) /\ client[i].addr \in Running' => proc'[client[i].addr].todo # <<>>
  BY StaysServed DEF Served
<1>2. PICK k \in DOMAIN client : client' = RemoveAt(client, k)
  BY DEF Removed
<1>3. client \in Seq(ClientRecords)
  BY DEF TypeOK
<1>4. /\ \A i \in DOMAIN client' : /\ Before(k, i) \in DOMAIN client
                                   /\ client'[i] = client[Before(k, i)]
      /\ \A i, j \in DOMAIN client' : Before(k, i) = Before(k, j) => i = j
  BY <1>2, <1>3, RemovedFacts
<1>5. AddressInv'
  BY <1>1, <1>4 DEF Served, AddressInv
<1>6. NoVainWait'
  BY <1>1, <1>4 DEF NoVainWait, Waiting
<1> QED
  BY <1>5, <1>6 DEF Served

\* A client is added without an address, or with that of the process q that
\* announces itself and owes the answer to open.
LEMMA AddedServed ==
    ASSUME TypeOK, Served, \A p \in Pids : Owing(p), NEW c \in ClientRecords, Added(c),
           \/ c.addr = 0
           \/ \E q \in Pids : /\ c.addr = q /\ proc[q].state = "starting"
                              /\ proc'[q].state \notin {"unborn", "starting"}
                              /\ proc'[q].todo # <<>>
    PROVE  Served'
<1>1. \A i \in DOMAIN client :
         /\ client[i].addr # 0 => proc'[client[i].addr].state \notin {"unborn", "starting"}
         /\ Waiting(client[i]) /\ client[i].addr \in Running' => proc'[client[i].addr].todo # <<>>
  BY StaysServed DEF Served
<1>2. /\ DOMAIN client' = DOMAIN client \cup {Len(client) + 1}
      /\ client'[Len(client) + 1] = c
      /\ \A i \in DOMAIN client : client'[i] = client[i]
  BY AddedFacts DEF Added, TypeOK
<1>3. c.addr # 0 => \A i \in DOMAIN client : client[i].addr # c.addr
  BY DEF Served, AddressInv
<1>4. 0 \notin Running'
  BY ConstantsAssumption DEF Running
<1>5. AddressInv'
  BY <1>1, <1>2, <1>3 DEF Served, AddressInv
<1>6. NoVainWait'
  BY <1>1, <1>2, <1>4 DEF NoVainWait, Waiting
<1> QED
  BY <1>5, <1>6 DEF Served

\* A save keeps every waiting client served.
LEMMA SavingServed ==
    ASSUME TypeOK, Served, Saving, \A p \in Pids : Owing(p)
    PROVE  Served'
<1>1. \A i \in DOMAIN client :
         /\ client[i].addr # 0 => proc'[client[i].addr].state \notin {"unborn", "starting"}
         /\ Waiting(client[i]) /\ client[i].addr \in Running' => proc'[client[i].addr].todo # <<>>
         /\ Waiting(client'[i]) /\ client[i].addr \in Running'
               => Waiting(client[i]) \/ proc'[client[i].addr].todo # <<>>
  BY StaysServed, SavingServes DEF Served
<1>2. SameProjects
  BY SavedList DEF TypeOK
<1>3. AddressInv'
  BY <1>1, <1>2 DEF Served, AddressInv, SameProjects
<1>4. NoVainWait'
  BY <1>1, <1>2 DEF NoVainWait, Waiting, SameProjects
<1> QED
  BY <1>3, <1>4 DEF Served

\* Switching a client keeps every waiting client served.
LEMMA SwitchServed ==
    ASSUME TypeOK, Served, SwitchClient
    PROVE  Served'
<1>1. PICK i \in DOMAIN client :
         /\ DOMAIN client' = DOMAIN client
         /\ client'[i] = [client[i] EXCEPT !.id = Head(wanted).id, !.pending = "OPEN"]
         /\ \A j \in DOMAIN client : j # i => client'[j] = client[j]
         /\ proc' = SendOpen(client[i].addr)
  BY SwitchedProject
<1>2. \A p \in Pids : /\ Owing(p)
                      /\ p = client[i].addr /\ proc'[p].state \in Alive => proc'[p].todo # <<>>
  BY <1>1, SendOpenOwing
<1>3. \A j \in DOMAIN client :
         /\ client[j].addr # 0 => proc'[client[j].addr].state \notin {"unborn", "starting"}
         /\ Waiting(client[j]) /\ client[j].addr \in Running' => proc'[client[j].addr].todo # <<>>
  BY <1>2, StaysServed DEF Served
<1>4. client[i] \in ClientRecords
  BY DEF TypeOK
<1>5. client'[i].addr = client[i].addr
  BY <1>1, <1>4 DEF ClientRecords
<1>6. client[i].addr \in Running' => proc'[client[i].addr].todo # <<>>
  BY <1>2 DEF Running, Alive
<1>7. DOMAIN client' = DOMAIN client /\ \A j \in DOMAIN client : j # i => client'[j] = client[j]
  BY <1>1
<1>8. \A j \in DOMAIN client : client'[j].addr = client[j].addr
  BY <1>5, <1>7
<1>9. AddressInv'
  BY <1>3, <1>7, <1>8 DEF Served, AddressInv
<1>10. NoVainWait'
  BY <1>3, <1>5, <1>6, <1>7 DEF NoVainWait, Waiting
<1> QED
  BY <1>9, <1>10 DEF Served

\* An announcement keeps every waiting client served.
LEMMA AnnounceServed ==
    ASSUME TypeOK, Served, NEW p \in Pids, Announce(p)
    PROVE  Served'
<1>1. /\ \A q \in Pids : Owing(q)
      /\ proc[p].state = "starting" /\ proc'[p].todo # <<>>
      /\ proc'[p].state \notin {"unborn", "starting"}
  BY AnnounceOwing
<1>2. ASSUME NEW i \in DOMAIN client, DOMAIN client' = DOMAIN client,
             client'[i] = [client[i] EXCEPT !.pid = p, !.addr = p, !.smart = TRUE,
                                            !.active = TRUE, !.pending = "OPEN"],
             \A j \in DOMAIN client : j # i => client'[j] = client[j]
      PROVE  Served'
  <2>1. \A j \in DOMAIN client :
           /\ client[j].addr # 0 => proc'[client[j].addr].state \notin {"unborn", "starting"}
           /\ Waiting(client[j]) /\ client[j].addr \in Running'
                 => proc'[client[j].addr].todo # <<>>
    BY <1>1, StaysServed DEF Served
  <2>2. client[i] \in ClientRecords
    BY DEF TypeOK
  <2>3. client'[i].addr = p
    BY <1>2, <2>2 DEF ClientRecords
  <2>4. DOMAIN client' = DOMAIN client /\ \A j \in DOMAIN client : j # i => client'[j] = client[j]
    BY <1>2
  <2>5. p # 0 /\ \A j \in DOMAIN client : client[j].addr # p
    BY <1>1, ConstantsAssumption DEF Served, AddressInv
  <2>6. AddressInv'
    BY <1>1, <2>1, <2>3, <2>4, <2>5 DEF Served, AddressInv
  <2>7. NoVainWait'
    BY <1>1, <2>1, <2>3, <2>4 DEF NoVainWait, Waiting
  <2> QED
    BY <2>6, <2>7 DEF Served
<1>3. CASE \E c \in ClientRecords : Added(c) /\ c.addr = p
  BY <1>1, <1>3, AddedServed
<1>4. \/ \E i \in DOMAIN client :
            /\ DOMAIN client' = DOMAIN client
            /\ client'[i] = [client[i] EXCEPT !.pid = p, !.addr = p, !.smart = TRUE,
                                              !.active = TRUE, !.pending = "OPEN"]
            /\ \A j \in DOMAIN client : j # i => client'[j] = client[j]
      \/ \E c \in ClientRecords : Added(c) /\ c.addr = p
  BY Announced
<1> QED
  BY <1>2, <1>3, <1>4

\* The one client at the address of the process that answers is waited for no
\* longer; what the others are waited for is as it was.
LEMMA AnswerServed ==
    ASSUME TypeOK, Served, NEW q \in Pids, NEW ok \in BOOLEAN, Answer(q, ok)
    PROVE  Served'
<1>1. client \in Seq(ClientRecords) /\ q # 0
  BY ConstantsAssumption DEF TypeOK
<1>2. Kept
  BY <1>1, AnsweredList
<1>3. (\A p \in Pids \ {q} : Owing(p)) /\ proc'[q].state = proc[q].state
  BY AnswerOwing
<1>4. \A i \in DOMAIN client : client[i].addr \in Pids \cup {0}
  BY <1>1, ClientFieldType
<1>5. AddressInv'
  BY <1>2, <1>3, <1>4 DEF Served, AddressInv, Kept, SameProjects, Owing
<1>6. ASSUME NEW i \in DOMAIN client, client[i].addr = q
      PROVE  ~Waiting(client'[i])
  <2>1. \A j \in ByAddress(q) : j = i
    BY <1>1, <1>6 DEF Served, AddressInv, ByAddress
  <2>2. PICK j \in ByAddress(q) :
           client' = [client EXCEPT ![j].error = ~ok, ![j].pending = "NONE"]
    BY <1>6 DEF Answer, First, ByAddress
  <2>3. client[i] \in ClientRecords
    BY <1>1
  <2>4. client'[i].pending = "NONE"
    BY <2>1, <2>2, <2>3 DEF ClientRecords
  <2> QED
    BY <2>4 DEF Waiting
<1>7. ASSUME NEW i \in DOMAIN client, client[i].addr # q, Waiting(client[i]),
             client[i].addr \in Running'
      PROVE  proc'[client[i].addr].todo # <<>>
  <2>1. client[i].addr \in Pids \ {q} /\ Owing(client[i].addr)
    BY <1>3, <1>7 DEF Running
  <2>2. proc[client[i].addr].state \notin {"unborn", "starting"}
    BY <1>1, <2>1, ConstantsAssumption DEF Served, AddressInv
  <2>3. client[i].addr \in Running => proc[client[i].addr].todo # <<>>
    BY <1>7 DEF Served, NoVainWait, Waiting
  <2> QED
    BY <1>7, <2>1, <2>2, <2>3 DEF Owing, Alive, Running
<1>8. NoVainWait'
  BY <1>2, <1>6, <1>7 DEF NoVainWait, Waiting, Kept, SameProjects
<1> QED
  BY <1>5, <1>8 DEF Served

\* Every step keeps every waiting client served.
LEMMA ServedStep ==
    ASSUME TypeOK, Served, [Next]_vars
    PROVE  Served'
<1>1. CASE \E q \in Pids : Answer(q, TRUE) \/ Answer(q, FALSE)
  BY <1>1, AnswerServed
<1>2. CASE \A p \in Pids : Owing(p)
  <2>1. CASE Kept \/ Removed \/ Saving
    BY <1>2, <2>1, KeptServed, RemovedServed, SavingServed
  <2>2. CASE \E c \in ClientRecords : Added(c) /\ c.addr = 0
    BY <1>2, <2>2, AddedServed
  <2>3. CASE SwitchClient \/ \E p \in Pids : Announce(p)
    BY <2>3, SwitchServed, AnnounceServed
  <2> QED
    BY <2>1, <2>2, <2>3, ListStep
<1> QED
  BY <1>1, <1>2, ProcStep

\* nsmd never waits in vain for a living client: while a save or an open is
\* pending on an active client whose process is alive, that process still owes
\* an answer, although /reply and /error are not matched with the commands they
\* answer but clear whatever is pending on the client at that address.
THEOREM NeverWaitsInVain == Spec => []NoVainWait
<1>1. Init => Served
  BY DEF Init, Served, AddressInv, NoVainWait
<1>2. TypeOK /\ Served /\ [Next]_vars => Served'
  BY ServedStep
<1>3. Served => NoVainWait
  BY DEF Served
<1> QED
  BY <1>1, <1>2, <1>3, TypeCorrect, PTL DEF Spec
----------------------------------------------------------------------------
(* A load: the invariant                                                     *)

Loaders == {"open", "duplicate", "load"}

\* A client of this id has been told to open the project or to start.
IdServed(id) == \E i \in DOMAIN client : /\ client[i].id = id
                                         /\ client[i].pending \in {"OPEN", "START"}

\* What is wanted is the rest of the file, and what came before it is served.
Progress(entries) ==
    /\ entries \in Seq(Entries) /\ Len(wanted) <= Len(entries)
    /\ \A k \in 1..Len(wanted) : wanted[k] = entries[Len(entries) - Len(wanted) + k]
    /\ \A k \in 1..(Len(entries) - Len(wanted)) : IdServed(entries[k].id)

\* --load-session finds no clients, so it has none to wait for. A load that has
\* not begun its loop wants all that is in the file.
LoadFrame(f) ==
    /\ f.op = "load" => f.pc # "killed" /\ (f.pc = "load" => client = <<>>)
    /\ f.op \in Loaders /\ f.pc \in {"killed", "purge"} => wanted = file[f.target]
    /\ f.op \in Loaders /\ f.pc = "switch" => Progress(file[f.target])

\* A frame below a quit will not go on, so nothing is known of it any more.
LoadInv ==
    \A k \in DOMAIN stack : /\ CutOff(k) \/ LoadFrame(stack[k])
                            /\ stack[k].op = "load" => k = Len(stack)

----------------------------------------------------------------------------
(* Handlers that wait below others                                         *)

\* The innermost handler goes on: what is known of loads is known of it.
LEMMA TopLoad ==
    ASSUME ControlInv, LoadInv, stack # <<>>
    PROVE  LoadFrame(stack[1])
<1>1. 1 \in DOMAIN stack /\ DOMAIN stack = 1..Len(stack)
  BY TopFacts DEF ControlInv
<1> QED
  BY <1>1 DEF LoadInv, CutOff

\* A frame that neither runs the loop nor is about to load.
LEMMA QuietFrame ==
    ASSUME NEW f, LoadFrame(f), f.pc \notin {"switch", "load"}, UNCHANGED <<file, wanted>>
    PROVE  LoadFrame(f)'
BY DEF LoadFrame

Writers == \/ CommandSave \/ AfterSave \/ CreateSession
           \/ LoadBegin \/ SwitchClient \/ LaunchClient

\* Every other step leaves the session files and the list of wanted entries
\* alone.
LEMMA NonWriters ==
    ASSUME [Next]_vars, ~Writers
    PROVE  UNCHANGED <<file, wanted>>
<1>1. UNCHANGED file
  BY OtherActions DEF FileActions, Writers, ClearEnd, CleanExit, LoadRefused, LoadEnd
<1>2. CASE \/ RepliesDone \/ RepliesTimeout \/ CloseBegin \/ KilledDone \/ KilledTimeout
           \/ PurgeStep \/ PurgeEnd \/ ClearStep \/ ClearEnd \/ Closed \/ CleanExit
           \/ CreateFails \/ LoadNoFile \/ LoadRefused \/ SwitchEnd \/ AnnounceEnd
           \/ LoadEnd \/ Idle \/ UNCHANGED vars
  BY <1>1, <1>2 DEF RepliesDone, RepliesTimeout, CloseBegin, KilledDone, KilledTimeout,
     PurgeStep, PurgeEnd, ClearStep, ClearEnd, Closed, CleanExit, CreateFails, LoadNoFile,
     LoadRefused, SwitchEnd, AnnounceEnd, LoadEnd, Idle, ReturnUnchanged, vars
<1>3. CASE Request
  BY <1>1, <1>3 DEF Request, Save, Close, Abort, Quit, Open, New, Duplicate, Begin, Add,
     Stop, Remove_, Resume, ClientSave, SameControl
<1>4. CASE Environment
  BY <1>1, <1>4 DEF Environment, Announce, AnnounceRefused, Answer, Exit, Reap, PurgeDead,
     SameControl
<1> QED
  BY <1>2, <1>3, <1>4 DEF Next, Daemon, Writers

\* Who writes session files or the list of wanted clients is a guarded
\* operation, a save, or --load-session.
LEMMA WriterOp ==
    ASSUME ControlInv, Writers
    PROVE  /\ stack # <<>> /\ Top = stack[1] /\ 1 \in DOMAIN stack
           /\ Top.pc \in RunPcs
           /\ Top.op \in Guarded \cup {"save", "load"}
<1>1. stack # <<>> /\ Top.pc \in {"save", "saved", "create", "load", "switch"}
  BY DEF Writers, CommandSave, AfterSave, CreateSession, LoadBegin, SwitchClient,
     LaunchClient, At, AtOneOf
<1>2. Top.op \in Ops /\ Top.pc \in PcsOf(Top.op)
  BY <1>1, TopValid DEF ValidFrame
<1>3. Top.op \in Guarded \cup {"save", "load"}
  BY <1>1, <1>2 DEF Ops, Guarded, PcsOf, SavePcs, LatePcs, ClosePcs
<1> QED
  BY <1>1, <1>3, TopFacts DEF ControlInv, RunPcs

\* Below the innermost handler nothing changes for a load that waits for
\* clients to die: only quit nests in it.
LEMMA BelowFrame ==
    ASSUME ControlInv, LoadInv, [Next]_vars
    PROVE  \A f : (\E k \in DOMAIN stack : k # 1 /\ ~CutOff(k) /\ f = stack[k])
                    => LoadFrame(f)'
<1> SUFFICES ASSUME NEW f, NEW k \in DOMAIN stack, k # 1, ~CutOff(k), f = stack[k]
             PROVE  LoadFrame(f)'
  OBVIOUS
<1>1. /\ f.pc \in WaitPcs /\ ValidFrame(f) /\ LoadFrame(f)
      /\ DOMAIN stack = 1..Len(stack) /\ Len(stack) \in Nat
  BY TopFacts DEF ControlInv, LoadInv
<1>2. f.pc \notin {"switch", "load", "purge"}
  BY <1>1 DEF WaitPcs
<1>3. CASE f.pc = "killed" /\ f.op \in {"open", "duplicate"} /\ Writers
  <2>1. 1 \in DOMAIN stack /\ stack[1].op \in Guarded \cup {"save", "load"}
    BY <1>3, WriterOp
  <2>2. stack[1].op \notin Guarded
    BY <1>3, <2>1 DEF ControlInv, OneOperation, Guarded
  <2>3. stack[1].op # "save"
    BY <1>1, <1>3, <2>1 DEF ControlInv, Guarded
  <2>4. stack[1].op # "load"
    BY <1>1, <2>1 DEF LoadInv
  <2> QED
    BY <2>1, <2>2, <2>3, <2>4
<1>4. CASE ~Writers
  BY <1>1, <1>2, <1>4, NonWriters, QuietFrame
<1>5. CASE ~(f.pc = "killed" /\ f.op \in {"open", "duplicate"})
  BY <1>1, <1>2, <1>5 DEF LoadFrame, Loaders
<1> QED
  BY <1>3, <1>4, <1>5

----------------------------------------------------------------------------
(* The loop                                                                *)

\* A client that was told to open or start is left alone by the loop.
LEMMA ServedStays ==
    ASSUME TypeOK, SwitchClient \/ LaunchClient
    PROVE  \A id : IdServed(id) \/ id = Head(wanted).id => IdServed(id)'
<1>1. client \in Seq(ClientRecords)
  BY DEF TypeOK
<1>2. ASSUME NEW i \in DOMAIN client, DOMAIN client' = DOMAIN client,
             \A j \in DOMAIN client : j # i => client'[j] = client[j],
             client'[i].id = Head(wanted).id, client'[i].pending \in {"OPEN", "START"},
             client[i].pending \in {"OPEN", "START"} => client'[i].id = client[i].id
      PROVE  \A id : IdServed(id) \/ id = Head(wanted).id => IdServed(id)'
  BY <1>2 DEF IdServed
<1>3. CASE SwitchClient
  <2>1. PICK i \in DOMAIN client :
           /\ client[i].pending = "NONE"
           /\ client' = [client EXCEPT ![i] = [client[i] EXCEPT !.id = Head(wanted).id,
                                                                !.pending = "OPEN"]]
    BY <1>3 DEF SwitchClient
  <2>2. client[i] \in ClientRecords
    BY <1>1
  <2>3. client'[i].id = Head(wanted).id /\ client'[i].pending = "OPEN"
    BY <2>1, <2>2 DEF ClientRecords
  <2> QED
    BY <1>2, <2>1, <2>3
<1>4. CASE LaunchClient
  <2>1. Head(wanted).prog \in Progs /\ Head(wanted).id \in Ids
    BY <1>4, WantedType DEF LaunchClient, TypeOK
  <2>2. PICK pid \in Pids \cup {0, -1} : Enlist(Head(wanted).prog, Head(wanted).id, pid)
    BY <1>4 DEF LaunchClient, Launch, Unborn
  <2>3. \/ \E i \in DOMAIN client :
              /\ DOMAIN client' = DOMAIN client
              /\ client'[i] = [client[i] EXCEPT !.pending = "START", !.pid = pid]
              /\ \A j \in DOMAIN client : j # i => client'[j] = client[j]
              /\ client[i].id = Head(wanted).id
        \/ \E c \in ClientRecords : /\ Added(c) /\ c.id = Head(wanted).id
                                    /\ c.addr = 0 /\ c.pending = "START"
    BY <1>1, <2>1, <2>2, Enlisted
  <2>4. ASSUME NEW i \in DOMAIN client, DOMAIN client' = DOMAIN client,
               client'[i] = [client[i] EXCEPT !.pending = "START", !.pid = pid],
               \A j \in DOMAIN client : j # i => client'[j] = client[j],
               client[i].id = Head(wanted).id
        PROVE  \A id : IdServed(id) \/ id = Head(wanted).id => IdServed(id)'
    <3>1. client[i] \in ClientRecords
      BY <1>1
    <3>2. client'[i].id = client[i].id /\ client'[i].pending = "START"
      BY <2>4, <3>1 DEF ClientRecords
    <3> QED
      BY <1>2, <2>4, <3>2
  <2>5. ASSUME NEW c \in ClientRecords, Added(c), c.id = Head(wanted).id, c.pending = "START"
        PROVE  \A id : IdServed(id) \/ id = Head(wanted).id => IdServed(id)'
    <3>1. /\ DOMAIN client' = DOMAIN client \cup {Len(client) + 1}
          /\ client'[Len(client) + 1] = c
          /\ \A i \in DOMAIN client : client'[i] = client[i]
      BY <1>1, <2>5, AddedFacts DEF Added
    <3> QED
      BY <2>5, <3>1 DEF IdServed
  <2> QED
    BY <2>3, <2>4, <2>5
<1> QED
  BY <1>3, <1>4

\* The two loops of load_session_file bring the list closer to the file,
\* never farther from it.
LEMMA LoopProgress ==
    ASSUME TypeOK, SwitchClient \/ LaunchClient
    PROVE  \A entries : Progress(entries) => Progress(entries)'
<1> SUFFICES ASSUME NEW entries, Progress(entries)
             PROVE  Progress(entries)'
  OBVIOUS
<1>1. wanted \in Seq(Entries) /\ wanted # <<>> /\ wanted' = Tail(wanted)
  BY DEF SwitchClient, LaunchClient, TypeOK
<1>2. /\ wanted' \in Seq(Entries) /\ Len(wanted') = Len(wanted) - 1 /\ Len(wanted) \in Nat
      /\ Head(wanted) = wanted[1] /\ \A k \in 1..Len(wanted') : wanted'[k] = wanted[k + 1]
      /\ Len(wanted) >= 1
  BY <1>1, HeadTailProperties
<1>3. /\ entries \in Seq(Entries) /\ Len(entries) \in Nat /\ Len(wanted) <= Len(entries)
      /\ \A k \in 1..Len(wanted) : wanted[k] = entries[Len(entries) - Len(wanted) + k]
      /\ \A k \in 1..(Len(entries) - Len(wanted)) : IdServed(entries[k].id)
  BY DEF Progress
<1>4. ASSUME NEW k \in 1..Len(wanted')
      PROVE  wanted'[k] = entries[Len(entries) - Len(wanted') + k]
  <2>1. k + 1 \in 1..Len(wanted) /\ wanted'[k] = wanted[k + 1]
    BY <1>2
  <2>2. wanted[k + 1] = entries[Len(entries) - Len(wanted) + (k + 1)]
    BY <1>3, <2>1
  <2>3. Len(entries) - Len(wanted) + (k + 1) = Len(entries) - Len(wanted') + k
    BY <1>2, <1>3
  <2> QED
    BY <2>1, <2>2, <2>3
<1>5. ASSUME NEW k \in 1..(Len(entries) - Len(wanted'))
      PROVE  IdServed(entries[k].id)'
  <2>1. CASE k \in 1..(Len(entries) - Len(wanted))
    BY <1>3, <2>1, ServedStays
  <2>2. CASE k = Len(entries) - Len(wanted) + 1
    <3>1. entries[k] = Head(wanted)
      BY <1>2, <1>3, <2>2
    <3> QED
      BY <3>1, ServedStays
  <2>3. k \in 1..(Len(entries) - Len(wanted)) \/ k = Len(entries) - Len(wanted) + 1
    <3>1. Len(entries) \in Nat /\ Len(wanted) \in Nat
      BY <1>2, <1>3
    <3>2. Len(entries) - Len(wanted') = Len(entries) - Len(wanted) + 1
      BY <1>2, <3>1
    <3> QED
      BY <1>5, <3>1, <3>2
  <2> QED
    BY <2>1, <2>2, <2>3
<1>6. Len(wanted') <= Len(entries)
  BY <1>2, <1>3
<1> QED
  BY <1>3, <1>4, <1>5, <1>6 DEF Progress

----------------------------------------------------------------------------
(* The innermost handler                                                   *)

\* A load begins: it wants the whole file, and --load-session has no client
\* that it would have to wait for.
LEMMA LoadBegins ==
    ASSUME TypeOK, ControlInv, FilesInv, LoadInv, LoadBegin
    PROVE  LoadFrame(stack[1])'
<1>1. /\ stack # <<>> /\ stack \in Seq(Frames) /\ Top = stack[1] /\ Top.pc = "load"
      /\ 1 \in DOMAIN stack
  BY TopFacts DEF LoadBegin, At, AtOneOf, ControlInv
<1>2. LoadFrame(stack[1])
  BY <1>1, TopLoad
<1>3. Goto("killed") \/ Goto("purge")
  BY DEF LoadBegin, GotoKilled
<1>4. /\ stack'[1].op = Top.op /\ stack'[1].target = Top.target
      /\ stack'[1].pc \in {"killed", "purge"}
      /\ Goto("killed") => stack'[1].pc = "killed"
  BY <1>1, <1>3, GotoFacts DEF Pcs, WaitPcs, RunPcs
<1>5. wanted' = file'[Top.target]
  BY DEF LoadBegin
<1>6. Top.op = "load" => stack'[1].pc = "purge"
  <2> SUFFICES ASSUME Top.op = "load" PROVE Goto("purge")
    BY <1>1, GotoFacts DEF Pcs, WaitPcs, RunPcs
  <2>1. client = <<>>
    BY <1>1, <1>2 DEF LoadFrame
  <2>2. DOMAIN client' = {}
    BY <2>1 DEF LoadBegin, CommandQuit
  <2>3. ~KilledAlive(client')
    BY <2>2 DEF KilledAlive
  <2> QED
    BY <2>3 DEF LoadBegin, GotoKilled
<1> QED
  BY <1>4, <1>5, <1>6 DEF LoadFrame

\* The innermost handler goes on.
LEMMA TopGoesOn ==
    ASSUME TypeOK, ControlInv, FilesInv, LoadInv, Continues, [Next]_vars,
           \/ CommandSave \/ RepliesDone \/ RepliesTimeout \/ AfterSave
           \/ CloseBegin \/ KilledDone \/ KilledTimeout \/ PurgeEnd \/ ClearEnd
           \/ SwitchEnd \/ AnnounceEnd
    PROVE  LoadFrame(stack[1])'
<1>1. /\ stack # <<>> /\ stack \in Seq(Frames) /\ Top = stack[1] /\ 1 \in DOMAIN stack
      /\ ValidFrame(Top) /\ Top.op \in Ops
  BY TopFacts, TopValid DEF Continues, ControlInv
<1>2. LoadFrame(Top)
  BY <1>1, TopLoad
<1>3. ASSUME NEW pc \in Pcs, Goto(pc)
      PROVE  stack'[1].op = Top.op /\ stack'[1].target = Top.target /\ stack'[1].pc = pc
  BY <1>1, <1>3, GotoFacts
<1> USE DEF Pcs, WaitPcs, RunPcs
<1>4. CASE \/ CommandSave \/ RepliesDone \/ RepliesTimeout \/ ClearEnd
           \/ SwitchEnd \/ AnnounceEnd
  <2>1. \E pc \in {"saved", "replies", "loaded", "create", "closed", "announce", "opening"} :
           Goto(pc)
    BY <1>4 DEF CommandSave, RepliesDone, RepliesTimeout, AfterReplies, ClearEnd, AfterClose,
       SwitchEnd, AnnounceEnd
  <2>2. stack'[1].pc \notin {"load", "killed", "purge", "switch"}
    BY <1>3, <2>1
  <2> QED
    BY <2>2 DEF LoadFrame
<1>5. CASE AfterSave
  <2>1. Top.op # "load"
    BY <1>5 DEF AfterSave
  <2>2. DOMAIN stack' = DOMAIN stack
    BY <1>1, GotoFacts, PcsOfFacts DEF Continues
  <2>3. ~Return
    BY <1>1, <2>2, PopFacts DEF Return
  <2>4. \E pc \in {"load", "close"} : Goto(pc)
    BY <1>5, <2>3 DEF AfterSave
  <2> QED
    BY <1>3, <2>1, <2>4 DEF LoadFrame
<1>6. CASE CloseBegin
  <2>1. Top.op \in {"new", "close", "abort", "quit"}
    BY <1>1, <1>6 DEF CloseBegin, At, AtOneOf, ValidFrame, PcsOf, Ops, Guarded, SavePcs,
       LatePcs, ClosePcs
  <2>2. \E pc \in Pcs : Goto(pc)
    BY <1>6 DEF CloseBegin, GotoKilled, AfterClose
  <2> QED
    BY <1>3, <2>1, <2>2 DEF LoadFrame, Loaders
<1>7. CASE KilledDone \/ KilledTimeout
  <2>1. Top.pc = "killed" /\ Goto("purge") /\ UNCHANGED <<file, wanted>>
    BY <1>7 DEF KilledDone, KilledTimeout, At, AtOneOf, SameSession, SameFiles
  <2> QED
    BY <1>2, <1>3, <2>1 DEF LoadFrame
<1>8. CASE PurgeEnd
  <2>1. /\ Top.pc = "purge" /\ UNCHANGED <<file, wanted>>
        /\ IF Top.op \in {"open", "duplicate", "load"} THEN Goto("switch") ELSE Goto("clear")
    BY <1>8 DEF PurgeEnd, At, AtOneOf, SameSession, SameFiles
  <2>2. CASE Top.op \in Loaders
    <3>1. stack'[1].pc = "switch" /\ stack'[1].target = Top.target
      BY <1>3, <2>1, <2>2 DEF Loaders
    <3>2. wanted' = file'[Top.target] /\ wanted' \in Seq(Entries)
      BY <1>2, <2>1, <2>2 DEF LoadFrame, TypeOK
    <3>3. \A entries : entries = wanted' => Progress(entries)'
      <4> SUFFICES ASSUME NEW entries, entries = wanted' PROVE Progress(entries)'
        OBVIOUS
      <4>1. entries \in Seq(Entries) /\ Len(entries) = Len(wanted') /\ Len(entries) \in Nat
        BY <3>2
      <4> QED
        BY <4>1 DEF Progress
    <3> QED
      BY <3>1, <3>2, <3>3 DEF LoadFrame
  <2>3. CASE Top.op \notin Loaders
    BY <1>3, <2>1, <2>3 DEF LoadFrame, Loaders
  <2> QED
    BY <2>2, <2>3
<1> QED
  BY <1>4, <1>5, <1>6, <1>7, <1>8

\* A step that leaves the handlers in progress as they are.
LEMMA TopUntouched ==
    ASSUME TypeOK, ControlInv, LoadInv, [Next]_vars, Untouched, stack # <<>>
    PROVE  LoadFrame(stack[1])'
<1>1. /\ Top = stack[1] /\ 1 \in DOMAIN stack /\ LoadFrame(stack[1])
      /\ UNCHANGED stack /\ ~exited
  BY TopFacts, TopLoad DEF ControlInv, Untouched
<1>2. CASE UNCHANGED vars
  BY <1>1, <1>2 DEF vars, LoadFrame, Progress, IdServed
<1>3. CASE SwitchClient \/ LaunchClient
  <2>1. Top.pc = "switch" /\ UNCHANGED file
    BY <1>3 DEF SwitchClient, LaunchClient, At, AtOneOf, SameSession, SameFiles
  <2>2. \A entries : Progress(entries) => Progress(entries)'
    BY <1>3, LoopProgress
  <2> QED
    BY <1>1, <2>1, <2>2 DEF LoadFrame
<1>4. CASE ~Writers /\ Top.pc \notin {"switch", "load"}
  <2>1. UNCHANGED <<file, wanted>>
    BY <1>4, NonWriters
  <2>2. LoadFrame(stack[1])'
    BY <1>1, <1>4, <2>1 DEF LoadFrame
  <2> QED
    BY <2>2
<1>5. CASE Top.pc \in {"switch", "load"} /\ ~SwitchClient /\ ~LaunchClient /\ Next
  <2>1. ~Listening /\ ~Idle
    BY <1>1, <1>5 DEF Listening, WaitPcs, Idle
  <2>2. ~Quit
    <3>1. ASSUME Quit PROVE DOMAIN stack' = 1..(Len(stack) + 1) /\ Len(stack) \in Nat
      BY <3>1, PushFacts DEF Quit, ControlInv, Ops, Pcs, RunPcs
    <3>2. DOMAIN stack = 1..Len(stack)
      BY DEF ControlInv
    <3>3. Quit => FALSE
      <4> SUFFICES ASSUME Quit PROVE FALSE
        OBVIOUS
      <4>1. Len(stack) + 1 \in DOMAIN stack' /\ Len(stack) \in Nat
        BY <3>1
      <4> QED
        BY <1>1, <3>2, <4>1
    <3> QED
      BY <3>3
  <2>2a. ~Request /\ ~Environment
    BY <2>1, <2>2 DEF Request, Save, Close, Abort, Open, New, Duplicate, Begin, Add, Stop,
       Remove_, Resume, ClientSave, Environment, Announce, AnnounceRefused, Answer, Exit,
       Reap, PurgeDead
  <2>3. LoadNoFile \/ LoadRefused \/ LoadBegin \/ SwitchEnd
    BY <1>5, <2>1, <2>2a DEF Next, Daemon, At, AtOneOf, CommandSave, RepliesDone,
       RepliesTimeout, AfterSave, CloseBegin, KilledDone, KilledTimeout, PurgeStep, PurgeEnd,
       ClearStep, ClearEnd, Closed, CleanExit, CreateFails, CreateSession, AnnounceEnd, LoadEnd
  <2>4. \/ stack' = Tail(stack)
        \/ \E pc \in {"killed", "purge", "announce"} : Goto(pc)
    BY <2>3 DEF LoadNoFile, LoadRefused, LoadBegin, SwitchEnd, ReturnUnchanged, Return, GotoKilled
  <2>5. CASE stack' = Tail(stack)
    BY <1>1, <2>5, PopFacts DEF ControlInv
  <2>6. CASE \E pc \in {"killed", "purge", "announce"} : Goto(pc)
    <3>1. stack'[1].pc \in {"killed", "purge", "announce"}
      BY <2>6, GotoFacts DEF ControlInv, Pcs, WaitPcs, RunPcs
    <3> QED
      BY <1>1, <1>5, <3>1
  <2> QED
    BY <2>4, <2>5, <2>6
<1>6. CASE Writers /\ ~SwitchClient /\ ~LaunchClient
  <2>1. CommandSave \/ AfterSave \/ CreateSession \/ LoadBegin
    BY <1>6 DEF Writers
  <2>2. CASE stack' = Tail(stack)
    BY <1>1, <2>2, PopFacts DEF ControlInv
  <2>3. CASE \E pc \in Pcs \ {Top.pc} : Goto(pc)
    <3>1. stack'[1].pc # Top.pc
      BY <2>3, GotoFacts DEF ControlInv
    <3> QED
      BY <1>1, <3>1
  <2> QED
    BY <2>1, <2>2, <2>3 DEF CommandSave, AfterSave, CreateSession, LoadBegin, GotoKilled,
       Return, At, AtOneOf, Pcs, WaitPcs, RunPcs
<1> QED
  BY <1>2, <1>3, <1>4, <1>5, <1>6

\* Requests that wait start at their save, their load, their close or their
\* creation; none is a --load-session.
Started(op, pc) == op # "load" /\ pc \in {"save", "load", "create", "close"}

\* quit comes in anywhere but in a quit that is about to terminate nsmd.
Interrupts(op) ==
    op = "quit" /\ (stack # <<>> => ~(Top.op = "quit" /\ Top.pc = "closed"))

\* A request leaves the control alone or starts an operation, while the daemon
\* listens if it is not quit.
LEMMA RequestStarts ==
    ASSUME Request
    PROVE  \/ Untouched
           \/ /\ UNCHANGED <<file, wanted>>
              /\ \E op \in Ops, target \in Sessions \cup {None}, pc \in Pcs :
                    Push(op, target, pc) /\ Started(op, pc) /\ (Listening \/ Interrupts(op))
<1> USE DEF Ops, Guarded, Pcs, RunPcs, Started, Interrupts
<1>1. CASE \/ \E prog \in Progs : Add(prog)
           \/ \E i \in DOMAIN client : Stop(i) \/ Remove_(i) \/ Resume(i) \/ ClientSave(i)
  BY <1>1, UntouchedActions
<1>2. CASE Save
  BY <1>2 DEF Save, Begin, SameFiles
<1>3. CASE Close
  BY <1>3 DEF Close, Begin, SameFiles
<1>4. CASE Abort
  BY <1>4 DEF Abort, Begin, SameFiles
<1>5. CASE Quit
  BY <1>5 DEF Quit, SameFiles
<1>6. CASE \E s \in Sessions : Open(s)
  BY <1>6 DEF Open, Begin, SameFiles
<1>7. CASE \E s \in Sessions : New(s)
  BY <1>7 DEF New, Begin, SameFiles
<1>8. CASE \E s \in Sessions : Duplicate(s)
  BY <1>8 DEF Duplicate, Begin, SameFiles
<1> QED
  BY <1>1, <1>2, <1>3, <1>4, <1>5, <1>6, <1>7, <1>8 DEF Request

----------------------------------------------------------------------------
(* Every step preserves the invariant                                      *)

LEMMA LoadUntouched ==
    ASSUME TypeOK, ControlInv, LoadInv, [Next]_vars, Untouched
    PROVE  LoadInv'
<1>1. UNCHANGED stack
  BY DEF Untouched
<1>2. ASSUME NEW k \in DOMAIN stack PROVE CutOff(k)' \/ LoadFrame(stack[k])'
  <2>1. CASE k = 1
    <3>1. stack # <<>>
      BY <1>2 DEF ControlInv
    <3> QED
      BY <2>1, <3>1, TopUntouched
  <2>2. CASE k # 1
    BY <1>1, <2>2, BelowFrame DEF CutOff
  <2> QED
    BY <2>1, <2>2
<1> QED
  BY <1>1, <1>2 DEF LoadInv

\* A step inside a load keeps what is known of it.
LEMMA LoadContinues ==
    ASSUME TypeOK, ControlInv, FilesInv, LoadInv, [Next]_vars, Continues,
           LoadFrame(stack[1])'
    PROVE  LoadInv'
<1>1. PICK pc \in Pcs : Goto(pc) /\ stack # <<>>
  BY PcsOfFacts, TopValid DEF Continues
<1>2. /\ DOMAIN stack' = DOMAIN stack /\ stack'[1].op = stack[1].op
      /\ \A k \in DOMAIN stack : k # 1 => stack'[k] = stack[k]
      /\ stack' \in Seq(Frames) /\ stack \in Seq(Frames)
  BY <1>1, GotoFacts DEF ControlInv
<1>3. Len(stack') = Len(stack)
  BY <1>2
<1>4. ASSUME NEW k \in DOMAIN stack'
      PROVE  (CutOff(k)' \/ LoadFrame(stack[k])') /\ (stack'[k].op = "load" => k = Len(stack'))
  <2>1. stack'[k].op = stack[k].op
    BY <1>2
  <2>2. CASE k = 1
    BY <1>2, <1>3, <2>1, <2>2 DEF LoadInv
  <2>3. CASE k # 1
    <3>1. stack'[k] = stack[k] /\ k \in DOMAIN stack
      BY <1>2, <2>3
    <3>2. CutOff(k) => CutOff(k)'
      BY <1>2, <3>1 DEF CutOff
    <3>3. ~CutOff(k) => LoadFrame(stack[k])'
      BY <2>3, <3>1, BelowFrame
    <3> QED
      BY <1>3, <2>1, <3>1, <3>2, <3>3 DEF LoadInv
  <2> QED
    BY <2>2, <2>3
<1> QED
  BY <1>4 DEF LoadInv

\* A step that returns from an operation keeps what is known of the loads
\* below it: quit does not return.
LEMMA LoadReturns ==
    ASSUME TypeOK, ControlInv, LoadInv, [Next]_vars, Returns
    PROVE  LoadInv'
<1>1. /\ stack' \in Seq(Frames) /\ DOMAIN stack' = 1..(Len(stack) - 1)
      /\ Len(stack) \in Nat \ {0}
      /\ \A k \in DOMAIN stack' : stack'[k] = stack[k + 1] /\ k + 1 \in DOMAIN stack
  BY PopFacts DEF Returns, Return, ControlInv
<1>2. Len(stack') = Len(stack) - 1
  BY <1>1
<1>2a. DOMAIN stack = 1..Len(stack) /\ stack[1].op # "quit"
  BY TopFacts DEF Returns, ControlInv
<1>3. ASSUME NEW k \in DOMAIN stack'
      PROVE  (CutOff(k)' \/ LoadFrame(stack[k])') /\ (stack'[k].op = "load" => k = Len(stack'))
  <2>1. stack'[k] = stack[k + 1] /\ k + 1 \in DOMAIN stack /\ k + 1 # 1 /\ k \in Nat
    BY <1>1
  <2>2. ~CutOff(k + 1) => LoadFrame(stack[k])'
    BY <2>1, BelowFrame
  <2>3. ASSUME CutOff(k + 1) PROVE CutOff(k)'
    <3>1. PICK j \in DOMAIN stack : j < k + 1 /\ stack[j].op = "quit"
      BY <2>3 DEF CutOff
    <3>2. j - 1 \in DOMAIN stack' /\ j - 1 < k /\ stack'[j - 1] = stack[(j - 1) + 1]
          /\ (j - 1) + 1 = j
      BY <1>1, <1>2a, <2>1, <3>1
    <3> QED
      BY <2>1, <2>3, <3>1, <3>2 DEF CutOff
  <2>4. stack[k + 1].op = "load" => k + 1 = Len(stack)
    BY <2>1 DEF LoadInv
  <2> QED
    BY <1>1, <1>2, <2>1, <2>2, <2>3, <2>4
<1> QED
  BY <1>3 DEF LoadInv

\* A request that starts an operation keeps what is known of the loads, and a
\* quit that interrupts one cuts it off.
LEMMA LoadStarts ==
    ASSUME TypeOK, ControlInv, LoadInv, Request, UNCHANGED <<file, wanted>>,
           NEW op \in Ops, NEW target \in Sessions \cup {None}, NEW pc \in Pcs,
           Push(op, target, pc), Started(op, pc), Listening \/ Interrupts(op)
    PROVE  LoadInv'
<1>0. [Next]_vars
  BY DEF Next
<1>1. /\ stack' \in Seq(Frames) /\ DOMAIN stack' = 1..(Len(stack) + 1) /\ Len(stack) \in Nat
      /\ stack'[1] = [op |-> op, target |-> target, pc |-> pc]
      /\ \A k \in DOMAIN stack' : k # 1 => stack'[k] = stack[k - 1]
  BY PushFacts DEF ControlInv
<1>2. Len(stack') = Len(stack) + 1 /\ DOMAIN stack = 1..Len(stack)
  BY <1>1 DEF ControlInv
<1>3. ASSUME NEW k \in DOMAIN stack'
      PROVE  (CutOff(k)' \/ LoadFrame(stack[k])') /\ (stack'[k].op = "load" => k = Len(stack'))
  <2>1. CASE k = 1
    <3>1. stack'[k].op = op /\ stack'[k].pc = pc
      BY <1>1, <2>1
    <3> QED
      BY <3>1 DEF Started, LoadFrame
  <2>2. CASE k # 1
    <3>1. stack'[k] = stack[k - 1] /\ k - 1 \in DOMAIN stack
      BY <1>1, <1>2, <2>2
    <3>2. stack'[k].op = "load" => k = Len(stack')
      BY <1>1, <1>2, <3>1 DEF LoadInv
    <3>3. CASE CutOff(k - 1)
      BY <1>1, <1>2, <2>2, <3>2, <3>3, CutOffBelow
    <3>4. CASE k - 1 # 1 /\ ~CutOff(k - 1)
      BY <1>0, <3>1, <3>2, <3>4, BelowFrame
    <3>5. CASE k - 1 = 1 /\ Listening
      <4>1. stack[1].pc \in WaitPcs /\ LoadFrame(stack[1])
        BY <3>1, <3>5, TopFacts, TopLoad DEF Listening, ControlInv
      <4>2. stack'[k].pc \notin {"switch", "load"} /\ stack'[k] = stack[1]
        BY <3>1, <3>5, <4>1 DEF WaitPcs
      <4> QED
        BY <3>2, <4>1, <4>2 DEF LoadFrame
    <3>6. CASE k - 1 = 1 /\ Interrupts(op)
      <4>1. stack'[k] = stack[1] /\ Top = stack[1] /\ stack'[1].op = "quit"
            /\ 1 \in DOMAIN stack' /\ 1 < k
        BY <1>1, <3>1, <3>6, TopFacts DEF Interrupts, ControlInv
      <4>2. ~(stack[1].op = "quit" /\ stack[1].pc = "closed")
        BY <3>1, <3>6, <4>1 DEF Interrupts, ControlInv
      <4> QED
        BY <3>2, <4>1, <4>2 DEF CutOff
    <3> QED
      BY <3>3, <3>4, <3>5, <3>6
  <2> QED
    BY <2>1, <2>2
<1> QED
  BY <1>3 DEF LoadInv

\* Every step keeps what is known of the loads.
LEMMA LoadStep ==
    ASSUME TypeOK, ControlInv, FilesInv, LoadInv, [Next]_vars
    PROVE  LoadInv'
<1>1. CASE Untouched
  BY <1>1, LoadUntouched
<1>2. CASE Returns
  BY <1>2, LoadReturns
<1>3. CASE LoadBegin
  BY <1>3, LoadBegins, ContinuingActions, LoadContinues
<1>4. CASE \/ CommandSave \/ RepliesDone \/ RepliesTimeout \/ CloseBegin \/ KilledDone
           \/ KilledTimeout \/ PurgeEnd \/ ClearEnd \/ SwitchEnd \/ AnnounceEnd
  BY <1>4, TopGoesOn, ContinuingActions, LoadContinues
<1>5. CASE AfterSave
  BY <1>2, <1>5, TopGoesOn, AfterSaveGoesOn, LoadContinues
<1>6. CASE Request
  BY <1>1, <1>6, RequestStarts, LoadStarts
<1>7. CASE \/ Environment \/ Idle \/ UNCHANGED vars
           \/ PurgeStep \/ ClearStep \/ SwitchClient \/ LaunchClient
  BY <1>1, <1>7, UntouchedActions DEF Idle
<1>8. CASE CleanExit
  BY <1>8 DEF CleanExit, LoadInv
<1>9. CASE \/ Closed \/ CreateFails \/ CreateSession \/ LoadNoFile \/ LoadRefused \/ LoadEnd
  BY <1>2, <1>9, ReturningActions
<1> QED
  BY <1>3, <1>4, <1>5, <1>6, <1>7, <1>8, <1>9 DEF Next, Daemon

----------------------------------------------------------------------------
(* The theorem                                                             *)

LEMMA LoadInit ==
    ASSUME Init
    PROVE  LoadInv
<1>1. CASE stack = <<>>
  BY <1>1 DEF LoadInv
<1>2. CASE stack = <<[op |-> "load", target |-> LoadAtStart, pc |-> "load"]>>
  <2>1. Len(stack) = 1 /\ DOMAIN stack = {1} /\ client = <<>>
        /\ stack[1].op = "load" /\ stack[1].pc = "load"
    BY <1>2 DEF Init
  <2> QED
    BY <2>1 DEF LoadInv, LoadFrame
<1> QED
  BY <1>1, <1>2 DEF Init

\* The loop that switches clients and launches the missing ones leaves, for
\* every entry of the session file it has passed, a client of that id which was
\* told to open the project or to start: the entries it was handed are still
\* those of the file after the wait for the clients it closes, in which further
\* handlers run, and no later entry takes a client from an earlier one.
THEOREM LoadsEveryEntry == Spec => []LoadServesEveryEntry
<1>1. Init => LoadInv
  BY LoadInit
<1>2. TypeOK /\ ControlInv /\ FilesInv /\ LoadInv /\ [Next]_vars => LoadInv'
  BY LoadStep
<1>3. ControlInv /\ LoadInv => LoadServesEveryEntry
  <2> SUFFICES ASSUME ControlInv, LoadInv, At("switch")
               PROVE  \A k \in 1..(Len(file[Top.target]) - Len(wanted)) :
                          IdServed(file[Top.target][k].id)
    BY DEF LoadServesEveryEntry, IdServed
  <2>1. Top = stack[1] /\ 1 \in DOMAIN stack /\ Top.pc = "switch"
    BY TopFacts DEF At, AtOneOf, ControlInv
  <2>2. Top.op \in Loaders
    BY <2>1, TopValid DEF ValidFrame, PcsOf, Ops, Guarded, SavePcs, LatePcs, ClosePcs, Loaders,
       At, AtOneOf
  <2> QED
    BY <2>1, <2>2, TopLoad DEF LoadFrame, Progress
<1> QED
  BY <1>1, <1>2, <1>3, Invariance, PTL DEF Spec
=============================================================================
