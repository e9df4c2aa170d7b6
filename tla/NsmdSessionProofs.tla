-------------------------- MODULE NsmdSessionProofs -------------------------
(***************************************************************************)
(* nsmd leaves no lock file behind, and Nsmd implements Session, for every *)
(* value of the constants, as long as no session is given with             *)
(* --load-session (a load that sets no pending_operation may be            *)
(* interrupted by the end of its own session).                             *)
(***************************************************************************)
EXTENDS NsmdProofs

\* The session a load has taken stays the open one until the load ends, for no
\* handler that can run inside a load opens or closes a session; but quit ends
\* the session, and nsmd with it. new has no session when it creates one.
HolderInv ==
    /\ \A k \in DOMAIN stack : stack[k].op # "load"
    /\ session_path # None => session_name # None
    /\ \A k \in DOMAIN stack : stack[k].pc = "create" => session_path = None
    /\ \A k \in DOMAIN stack : Loading(stack[k]) =>
          Quitting \/ (session_path = stack[k].target /\ session_name = stack[k].target)

----------------------------------------------------------------------------
(* Where a frame of the next state comes from                              *)

OldFrame(k) ==
    \E j \in DOMAIN stack :
        stack'[k] = stack[j] /\ (j # 1 \/ UNCHANGED <<session_path, session_name>>)

Moves ==
    \/ CommandSave \/ RepliesDone \/ RepliesTimeout \/ AfterSave
    \/ CloseBegin \/ KilledDone \/ KilledTimeout \/ PurgeEnd \/ ClearEnd
    \/ LoadBegin \/ SwitchEnd \/ AnnounceEnd

MovedFrame(k) ==
    /\ k = 1 /\ Moves /\ Continues
    /\ stack'[1].op = stack[1].op /\ stack'[1].target = stack[1].target

NewFrame(k) ==
    /\ stack'[k].op # "load" /\ stack'[k].pc \in StartPcs
    /\ stack'[k].pc = "create" => session_path = None
    /\ UNCHANGED <<session_path, session_name>>

\* The steps that leave the open session alone.
LEMMA SessionKept ==
    ASSUME \/ PurgeStep \/ ClearStep \/ SwitchClient \/ LaunchClient
           \/ \E prog \in Progs : Add(prog)
           \/ \E i \in DOMAIN client : Stop(i) \/ Remove_(i) \/ Resume(i) \/ ClientSave(i)
           \/ Environment \/ UNCHANGED vars
    PROVE  UNCHANGED <<session_path, session_name>>
BY DEF PurgeStep, ClearStep, SwitchClient, LaunchClient, Add, Stop, Remove_, Resume,
       ClientSave, Environment, Announce, AnnounceRefused, Answer, Exit, Reap,
       PurgeDead, vars, SameSession, SameFiles

\* What a request to start a handler pushes.
Starts(op, target, pc) ==
    /\ Push(op, target, pc) /\ op # "load" /\ pc \in StartPcs
    /\ pc = "create" => session_path = None
    /\ UNCHANGED <<session_path, session_name>>

\* The requests that start an operation put its frame on the stack.
LEMMA StartingActions ==
    ASSUME \/ Save \/ Close \/ Abort \/ Quit
           \/ \E s \in Sessions : Open(s) \/ New(s) \/ Duplicate(s)
    PROVE  \E op \in Ops, target \in Sessions \cup {None}, pc \in Pcs : Starts(op, target, pc)
<1> USE DEF Starts, StartPcs, Ops, Guarded, Pcs, RunPcs, Begin, SameFiles
<1>1. CASE Save
  BY <1>1 DEF Save
<1>2. CASE Close
  BY <1>2 DEF Close
<1>3. CASE Abort
  BY <1>3 DEF Abort
<1>4. CASE Quit
  BY <1>4 DEF Quit
<1>5. CASE \E s \in Sessions : Open(s)
  BY <1>5 DEF Open
<1>6. CASE \E s \in Sessions : New(s)
  BY <1>6 DEF New
<1>7. CASE \E s \in Sessions : Duplicate(s)
  BY <1>7 DEF Duplicate
<1> QED
  BY <1>1, <1>2, <1>3, <1>4, <1>5, <1>6, <1>7

\* A frame was there before, or has just moved on, or has just been started.
LEMMA FrameOrigin ==
    ASSUME ControlInv, [Next]_vars, NEW k \in DOMAIN stack'
    PROVE  OldFrame(k) \/ MovedFrame(k) \/ NewFrame(k)
<1>1. stack \in Seq(Frames) /\ DOMAIN stack = 1..Len(stack) /\ Len(stack) \in Nat
  BY DEF ControlInv
<1>2. CASE Untouched /\ UNCHANGED <<session_path, session_name>>
  BY <1>2 DEF Untouched, OldFrame
<1>3. CASE Moves /\ Continues
  <2>1. PICK pc \in Pcs : Goto(pc) /\ stack # <<>>
    BY <1>3, PcsOfFacts, TopValid DEF Continues
  <2>2. /\ DOMAIN stack' = DOMAIN stack
        /\ stack'[1].op = stack[1].op /\ stack'[1].target = stack[1].target
        /\ \A j \in DOMAIN stack : j # 1 => stack'[j] = stack[j]
    BY <1>1, <2>1, GotoFacts
  <2> QED
    BY <1>3, <2>2 DEF OldFrame, MovedFrame
<1>4. CASE Returns
  <2>1. stack'[k] = stack[k + 1] /\ k + 1 \in DOMAIN stack /\ k + 1 # 1
    BY <1>1, <1>4, PopFacts DEF Returns, Return
  <2> QED
    BY <2>1 DEF OldFrame
<1>5. ASSUME NEW op \in Ops, NEW target \in Sessions \cup {None}, NEW pc \in Pcs,
             Starts(op, target, pc)
      PROVE  OldFrame(k) \/ NewFrame(k)
  <2>1. /\ DOMAIN stack' = 1..(Len(stack) + 1)
        /\ stack'[1] = [op |-> op, target |-> target, pc |-> pc]
        /\ \A j \in DOMAIN stack' : j # 1 => stack'[j] = stack[j - 1]
    BY <1>1, <1>5, PushFacts DEF Starts
  <2>2. CASE k = 1
    BY <1>5, <2>1, <2>2 DEF NewFrame, Starts
  <2>3. CASE k # 1
    <3>1. k - 1 \in DOMAIN stack /\ stack'[k] = stack[k - 1]
      BY <1>1, <2>1, <2>3
    <3> QED
      BY <1>5, <3>1 DEF OldFrame, Starts
  <2> QED
    BY <2>2, <2>3
<1>6. CASE Request
  BY <1>2, <1>5, <1>6, StartingActions, UntouchedActions, SessionKept DEF Request
<1>7. CASE Environment \/ Idle \/ UNCHANGED vars
  BY <1>2, <1>7, UntouchedActions, SessionKept DEF Idle
<1>8. CASE PurgeStep \/ ClearStep \/ SwitchClient \/ LaunchClient
  BY <1>2, <1>8, UntouchedActions, SessionKept
<1>9. CASE \/ CommandSave \/ RepliesDone \/ RepliesTimeout
           \/ CloseBegin \/ KilledDone \/ KilledTimeout \/ PurgeEnd \/ ClearEnd
           \/ LoadBegin \/ SwitchEnd \/ AnnounceEnd
  BY <1>3, <1>9, ContinuingActions DEF Moves
<1>10. CASE \/ Closed \/ CreateFails \/ CreateSession \/ LoadNoFile \/ LoadRefused \/ LoadEnd
  BY <1>4, <1>10, ReturningActions
<1>11. CASE AfterSave
  BY <1>3, <1>4, <1>11, AfterSaveGoesOn DEF Moves
<1>12. CASE CleanExit
  BY <1>12 DEF CleanExit
<1> QED
  BY <1>6, <1>7, <1>8, <1>9, <1>10, <1>11, <1>12 DEF Next, Daemon

----------------------------------------------------------------------------
(* What the innermost handler does                                         *)

LEMMA SessionChangers ==
    ASSUME [Next]_vars
    PROVE  \/ UNCHANGED <<session_path, session_name>>
           \/ ClearEnd \/ CreateSession \/ LoadRefused \/ LoadBegin
BY OtherActions DEF FileActions, CommandSave, AfterSave, CleanExit, LoadEnd

\* The step of the innermost handler that goes on.
LEMMA MovedTo ==
    ASSUME ControlInv, Continues, NEW pc \in Pcs, Goto(pc)
    PROVE  stack'[1].pc = pc
BY GotoFacts DEF Continues, ControlInv

\* A step that goes on within an operation does not return.
LEMMA NoReturn ==
    ASSUME ControlInv, Continues
    PROVE  ~Return
<1>1. stack \in Seq(Frames) /\ stack # <<>>
  BY DEF Continues, ControlInv
<1>a. PICK pc \in Pcs : Goto(pc)
  BY PcsOfFacts, TopValid DEF Continues
<1>b. DOMAIN stack = 1..Len(stack) /\ Len(stack) \in Nat \ {0}
  BY <1>1, TopFacts
<1>2. DOMAIN stack' = DOMAIN stack /\ DOMAIN stack = 1..Len(stack) /\ Len(stack) \in Nat \ {0}
  BY <1>1, <1>a, <1>b, GotoFacts
<1>3. SUFFICES ASSUME Return PROVE FALSE
  OBVIOUS
<1>4. DOMAIN stack' = 1..(Len(stack) - 1)
  BY <1>1, <1>3, PopFacts DEF Return
<1>5. Len(stack) \in DOMAIN stack' /\ Len(stack) \notin 1..(Len(stack) - 1)
  BY <1>2
<1> QED
  BY <1>4, <1>5

\* An open or a duplicate takes the session at the step of its load.
LEMMA LateMoves ==
    ASSUME ControlInv, Moves, Continues, Top.op \in {"open", "duplicate"},
           stack'[1].pc \in LatePcs
    PROVE  Top.pc \in LatePcs \/ LoadBegin
<1>1. ValidFrame(Top) /\ Top.pc \in SavePcs \cup {"load"} \cup LatePcs
  BY TopValid DEF Continues, ValidFrame, PcsOf
<1> USE DEF SavePcs, LatePcs, Pcs, WaitPcs, RunPcs, At, AtOneOf
<1>2. CASE CommandSave
  <2>1. Goto("saved") \/ Goto("replies")
    BY <1>2 DEF CommandSave
  <2> QED
    BY <2>1, MovedTo
<1>3. CASE RepliesDone \/ RepliesTimeout
  <2>1. Top.pc = "opening" \/ Goto("saved")
    BY <1>3 DEF RepliesDone, RepliesTimeout, AfterReplies
  <2> QED
    BY <2>1, MovedTo
<1>4. CASE AfterSave
  <2>1. Goto("load")
    BY <1>4, NoReturn DEF AfterSave
  <2> QED
    BY <2>1, MovedTo
<1>5. CASE CloseBegin
  BY <1>1, <1>5 DEF CloseBegin
<1>6. CASE ClearEnd
  BY <1>1, <1>6 DEF ClearEnd
<1>7. CASE KilledDone \/ KilledTimeout \/ PurgeEnd \/ SwitchEnd \/ AnnounceEnd
  BY <1>7 DEF KilledDone, KilledTimeout, PurgeEnd, SwitchEnd, AnnounceEnd
<1> QED
  BY <1>2, <1>3, <1>4, <1>5, <1>6, <1>7 DEF Moves

\* new creates its session when there is none.
LEMMA CreateMoves ==
    ASSUME ControlInv, Moves, Continues, stack'[1].pc = "create"
    PROVE  session_path' = None
<1> USE DEF Pcs, WaitPcs, RunPcs
<1>1. CASE CloseBegin
  <2>1. session_path = None \/ Goto("killed") \/ Goto("purge")
    BY <1>1 DEF CloseBegin, GotoKilled
  <2> QED
    BY <1>1, <2>1, MovedTo DEF CloseBegin, SameSession, SameFiles
<1>2. CASE ClearEnd
  BY <1>2 DEF ClearEnd
<1>3. ASSUME ~CloseBegin, ~ClearEnd
      PROVE  \E pc \in Pcs \ {"create"} : Goto(pc)
  BY <1>3, NoReturn
  DEF Moves, CommandSave, RepliesDone, RepliesTimeout, AfterReplies, AfterSave, KilledDone,
     KilledTimeout, PurgeEnd, LoadBegin, GotoKilled, SwitchEnd, AnnounceEnd
<1> QED
  BY <1>1, <1>2, <1>3, MovedTo

----------------------------------------------------------------------------
(* Every step preserves the invariant                                      *)

\* No handler that is in progress below the one that runs can be a load that
\* has taken the session, when the one that runs changes the session.
LEMMA NobodyElse ==
    ASSUME ControlInv, HolderInv, ClearEnd \/ CreateSession \/ LoadRefused \/ LoadBegin,
           NEW j \in DOMAIN stack, Loading(stack[j])
    PROVE  Top.op = "quit" /\ ClearEnd
<1>1. /\ stack # <<>> /\ ~exited /\ 1 \in DOMAIN stack /\ Top = stack[1]
      /\ ValidFrame(Top) /\ Top.op \in Ops /\ Top.op # "load"
      /\ Top.pc \in {"clear", "create", "load"}
  BY TopFacts, TopValid DEF ControlInv, HolderInv, ClearEnd, CreateSession, LoadRefused,
     LoadBegin, At, AtOneOf
<1>2. j # 1
  BY <1>1 DEF Loading, LatePcs
<1>3. Top.op \in Guarded \cup {"quit"} /\ (Top.op = "quit" => Top.pc = "clear")
  BY <1>1 DEF ValidFrame, PcsOf, Ops, Guarded, SavePcs, LatePcs, ClosePcs
<1>4. Top.op \notin Guarded
  BY <1>1, <1>2 DEF ControlInv, OneOperation, Loading, Guarded
<1> QED
  BY <1>3, <1>4 DEF CreateSession, LoadRefused, LoadBegin, At, AtOneOf

\* Nobody opens a session above a guarded handler.
LEMMA NothingOpensAbove ==
    ASSUME TypeOK, ControlInv, HolderInv, [Next]_vars, session_path = None,
           NEW j \in DOMAIN stack, j # 1, stack[j].op \in Guarded
    PROVE  session_path' = None
<1>1. CASE UNCHANGED session_path
  BY <1>1
<1>2. CASE ClearEnd
  BY <1>2 DEF ClearEnd
<1>3. CASE CreateSession \/ LoadRefused \/ LoadBegin
  <2>1. /\ 1 \in DOMAIN stack /\ Top = stack[1] /\ ValidFrame(Top) /\ Top.op \in Ops
        /\ Top.op # "load" /\ Top.pc \in {"create", "load"}
    BY <1>3, TopFacts, TopValid
    DEF ControlInv, HolderInv, CreateSession, LoadRefused, LoadBegin, At, AtOneOf
  <2>2. Top.op \in Guarded
    BY <2>1 DEF ValidFrame, PcsOf, Ops, Guarded, SavePcs, LatePcs, ClosePcs
  <2> QED
    BY <2>1, <2>2 DEF ControlInv, OneOperation
<1> QED
  BY <1>1, <1>2, <1>3, SessionChangers

\* Every step keeps what is known about the frames that hold the session.
LEMMA HolderStep ==
    ASSUME TypeOK, ControlInv, HolderInv, [Next]_vars
    PROVE  HolderInv'
<1>1. /\ DOMAIN stack = 1..Len(stack) /\ Len(stack) \in Nat
      /\ stack # <<>> => 1 \in DOMAIN stack /\ Top = stack[1]
  BY TopFacts DEF ControlInv
<1>2. ASSUME NEW k \in DOMAIN stack' PROVE stack'[k].op # "load"
  <2>1. OldFrame(k) \/ MovedFrame(k) \/ NewFrame(k)
    BY FrameOrigin
  <2> QED
    BY <1>1, <2>1 DEF OldFrame, MovedFrame, NewFrame, HolderInv, Continues
<1>3. session_path' # None => session_name' # None
  <2>1. LoadRefused \/ LoadBegin \/ CreateSession => Top.target # None
    BY TargetFacts, ConstantsAssumption DEF LoadRefused, LoadBegin, CreateSession
  <2> QED
    BY <2>1, SessionChangers DEF HolderInv, ClearEnd, LoadRefused, LoadBegin, CreateSession
<1>4. ASSUME NEW k \in DOMAIN stack', stack'[k].pc = "create"
      PROVE  session_path' = None
  <2>1. CASE OldFrame(k)
    <3>1. PICK j \in DOMAIN stack :
             stack'[k] = stack[j] /\ (j # 1 \/ UNCHANGED <<session_path, session_name>>)
      BY <2>1 DEF OldFrame
    <3>2. session_path = None /\ stack[j].op \in Guarded
      BY <1>4, <3>1
      DEF HolderInv, ControlInv, ValidFrame, Frames, Ops, Guarded, PcsOf, SavePcs, LatePcs,
          ClosePcs
    <3> QED
      BY <3>1, <3>2, NothingOpensAbove
  <2>2. CASE MovedFrame(k)
    BY <1>4, <2>2, CreateMoves DEF MovedFrame
  <2>3. CASE NewFrame(k)
    BY <1>4, <2>3 DEF NewFrame
  <2> QED
    BY <2>1, <2>2, <2>3, FrameOrigin
<1>5. ASSUME NEW k \in DOMAIN stack', Loading(stack'[k])
      PROVE  Quitting' \/ (session_path' = stack'[k].target /\ session_name' = stack'[k].target)
  <2>1. CASE OldFrame(k)
    <3>1. PICK j \in DOMAIN stack :
             stack'[k] = stack[j] /\ (j # 1 \/ UNCHANGED <<session_path, session_name>>)
      BY <2>1 DEF OldFrame
    <3>2. Loading(stack[j])
      BY <1>5, <3>1
    <3>3. CASE UNCHANGED <<session_path, session_name>>
      <4>1. CASE Quitting
        <5>1. CASE Next
          BY <4>1, <5>1, QuittingStep DEF CleanExit
        <5>2. CASE UNCHANGED vars
          BY <4>1, <5>2 DEF Quitting, Top, vars
        <5> QED
          BY <5>1, <5>2
      <4>2. CASE ~Quitting
        BY <3>1, <3>2, <3>3, <4>2 DEF HolderInv
      <4> QED
        BY <4>1, <4>2
    <3>4. CASE ClearEnd \/ CreateSession \/ LoadRefused \/ LoadBegin
      <4>1. Top.op = "quit" /\ ClearEnd
        BY <3>2, <3>4, NobodyElse
      <4>2. Goto("closed") /\ stack # <<>>
        BY <4>1 DEF ClearEnd, AfterClose, At, AtOneOf
      <4>3. stack' # <<>> /\ stack'[1].op = "quit" /\ stack'[1].pc = "closed" /\ stack' \in Seq(Frames)
        BY <1>1, <4>1, <4>2, GotoFacts DEF ControlInv, Pcs, RunPcs
      <4> QED
        BY <4>3 DEF Quitting, Top
    <3> QED
      BY <3>3, <3>4, SessionChangers
  <2>2. CASE MovedFrame(k)
    <3>1. Top.op = stack'[k].op /\ Top.target = stack'[k].target /\ stack # <<>> /\ k = 1
      BY <1>1, <2>2 DEF MovedFrame, Continues
    <3>2. Top.pc \in LatePcs \/ LoadBegin
      BY <1>5, <2>2, <3>1, LateMoves DEF MovedFrame, Loading, LatePcs
    <3>3. CASE LoadBegin
      BY <3>1, <3>3 DEF LoadBegin
    <3>4. CASE ~LoadBegin
      <4>1. Loading(Top) /\ ~Quitting
        BY <1>5, <3>1, <3>2, <3>4 DEF Loading, LatePcs, Quitting
      <4>2. session_path = Top.target /\ session_name = Top.target
        BY <1>1, <3>1, <4>1 DEF HolderInv
      <4>3. UNCHANGED <<session_path, session_name>>
        BY <1>1, <3>1, <4>1, SessionChangers, NobodyElse DEF Loading
      <4> QED
        BY <3>1, <4>2, <4>3
    <3> QED
      BY <3>3, <3>4
  <2>3. CASE NewFrame(k)
    BY <1>5, <2>3 DEF NewFrame, Loading, LatePcs, StartPcs
  <2> QED
    BY <2>1, <2>2, <2>3, FrameOrigin
<1> QED
  BY <1>2, <1>3, <1>4, <1>5 DEF HolderInv, Loading, Quitting, LatePcs, Top

\* While no session is open, and when the own lock file has been deleted, all
\* lock files are another nsmd's.
LEMMA OnlyTheirs ==
    ASSUME TypeOK, HolderInv, LockOnlyForOpenSession,
           NEW l \in locks, session_path = None \/ l \in OwnLockDropped
    PROVE  l[1] = l[2] /\ l[1] \in LockedByOther
<1>1. l \in Sessions \X Sessions /\ None \notin Sessions
  BY ConstantsAssumption DEF TypeOK
<1>2. session_path = None => l # <<session_name, session_path>>
  BY <1>1
<1>3. session_path # None /\ l \in OwnLockDropped => l # <<session_name, session_path>>
  BY DEF HolderInv, OwnLockDropped
<1> QED
  BY <1>2, <1>3 DEF LockOnlyForOpenSession

\* Every step keeps the daemon's lock with the session it has open.
LEMMA LockStep ==
    ASSUME TypeOK, ControlInv, HolderInv, LockOnlyForOpenSession, [Next]_vars
    PROVE  LockOnlyForOpenSession'
<1> SUFFICES ASSUME NEW l \in locks'
             PROVE  \/ l[1] = l[2] /\ l[1] \in LockedByOther
                    \/ l = <<session_name', session_path'>>
  BY DEF LockOnlyForOpenSession
<1>1. CASE UNCHANGED <<session_path, session_name, locks>>
  BY <1>1 DEF LockOnlyForOpenSession
<1>2. CASE ClearEnd
  BY <1>2 DEF ClearEnd, LockOnlyForOpenSession
<1>3. CASE CreateSession
  <2>1. session_path = None
    BY <1>3, TopFacts DEF CreateSession, At, AtOneOf, HolderInv, ControlInv
  <2>2. l \in locks \/ l = <<session_name', session_path'>>
    BY <1>3 DEF CreateSession
  <2> QED
    BY <2>1, <2>2, OnlyTheirs
<1>4. CASE LoadRefused \/ LoadBegin
  <2>1. l \in OwnLockDropped /\ l \in locks
    BY <1>4 DEF LoadRefused, LoadBegin, OwnLockDropped
  <2> QED
    BY <2>1, OnlyTheirs
<1>5. CASE LoadEnd
  <2>1. /\ 1 \in DOMAIN stack /\ Top = stack[1] /\ Top.pc = "loaded" /\ Top.op # "load"
        /\ ValidFrame(Top) /\ Top.op \in Ops
    BY <1>5, TopFacts, TopValid DEF LoadEnd, At, AtOneOf, HolderInv, ControlInv
  <2>2. Loading(Top) /\ ~Quitting
    BY <2>1 DEF Loading, Quitting, ValidFrame, PcsOf, SavePcs, LatePcs, ClosePcs, Ops, Guarded
  <2>3. session_path = Top.target /\ session_name = Top.target
    BY <2>1, <2>2 DEF HolderInv
  <2> QED
    BY <1>5, <2>3 DEF LoadEnd, LockOnlyForOpenSession
<1> QED
  BY <1>1, <1>2, <1>3, <1>4, <1>5, OtherActions
  DEF FileActions, CommandSave, AfterSave, CleanExit

\* Unless a session is loaded from the command line, nsmd leaves no lock file
\* behind: whichever operations nest, fail or time out, a lock file that is not
\* another nsmd's is that of the open session.
THEOREM NoLockLeftBehind ==
    ASSUME LoadAtStart = None
    PROVE  Spec => []LockOnlyForOpenSession
<1>1. Init => HolderInv /\ LockOnlyForOpenSession
  BY DEF Init, HolderInv, LockOnlyForOpenSession
<1>2. TypeOK /\ ControlInv /\ HolderInv /\ LockOnlyForOpenSession /\ [Next]_vars
        => HolderInv' /\ LockOnlyForOpenSession'
  BY HolderStep, LockStep
<1> QED
  BY <1>1, <1>2, Invariance, PTL DEF Spec

----------------------------------------------------------------------------
(* A settled session has its lock file                                     *)

\* The lock file of the open session is missing only while a load is on its
\* way to write it, or after a failed load gave the session another name.
HeldInv ==
    /\ session_path \notin Unreadable
    /\ ~exited /\ session_path # None /\ session_name = session_path
          => \/ <<session_path, session_path>> \in locks
             \/ \E k \in DOMAIN stack : Loading(stack[k])

\* A load that goes on stays past the lock it took.
LEMMA LateStays ==
    ASSUME ControlInv, Moves, Continues, Loading(Top)
    PROVE  stack'[1].pc \in LatePcs
<1> USE DEF Loading, LatePcs, Pcs, WaitPcs, RunPcs, At, AtOneOf
<1>1. CASE CommandSave \/ AfterSave \/ CloseBegin \/ ClearEnd \/ LoadBegin
  BY <1>1 DEF CommandSave, AfterSave, CloseBegin, ClearEnd, LoadBegin
<1>2. CASE RepliesDone \/ RepliesTimeout
  <2>1. Goto("loaded")
    BY <1>2 DEF RepliesDone, RepliesTimeout, AfterReplies
  <2> QED
    BY <2>1, MovedTo
<1>3. CASE KilledDone \/ KilledTimeout \/ PurgeEnd \/ SwitchEnd \/ AnnounceEnd
  <2>1. \E pc \in {"purge", "switch", "announce", "opening"} : Goto(pc)
    BY <1>3 DEF KilledDone, KilledTimeout, PurgeEnd, SwitchEnd, AnnounceEnd
  <2> QED
    BY <2>1, MovedTo
<1> QED
  BY <1>1, <1>2, <1>3 DEF Moves

\* A load in progress goes on until it writes its lock file, or nsmd exits.
LEMMA LoadingKept ==
    ASSUME ControlInv, [Next]_vars, NEW j \in DOMAIN stack, Loading(stack[j])
    PROVE  (\E k \in DOMAIN stack' : Loading(stack'[k])) \/ LoadEnd \/ CleanExit
<1> DEFINE Goal == (\E k \in DOMAIN stack' : Loading(stack'[k])) \/ LoadEnd \/ CleanExit
<1>1. /\ stack \in Seq(Frames) /\ DOMAIN stack = 1..Len(stack) /\ Len(stack) \in Nat
      /\ stack # <<>> /\ Top = stack[1] /\ 1 \in DOMAIN stack
  BY TopFacts DEF ControlInv
<1>2. CASE Untouched
  BY <1>2 DEF Untouched
<1>3. CASE Moves /\ Continues
  <2>1. PICK pc \in Pcs : Goto(pc)
    BY <1>3, PcsOfFacts, TopValid DEF Continues
  <2>2. /\ DOMAIN stack' = DOMAIN stack
        /\ stack'[1].op = stack[1].op
        /\ \A k \in DOMAIN stack : k # 1 => stack'[k] = stack[k]
    BY <1>1, <2>1, GotoFacts
  <2>3. CASE j = 1
    BY <1>1, <1>3, <2>2, <2>3, LateStays DEF Loading, LatePcs
  <2>4. CASE j # 1
    BY <2>2, <2>4
  <2> QED
    BY <2>3, <2>4
<1>4. ASSUME Returns, j = 1 => LoadEnd
      PROVE  Goal
  <2>1. DOMAIN stack' = 1..(Len(stack) - 1) /\ \A k \in DOMAIN stack' : stack'[k] = stack[k + 1]
    BY <1>1, <1>4, PopFacts DEF Returns, Return
  <2>2. CASE j # 1
    <3>1. j - 1 \in DOMAIN stack' /\ (j - 1) + 1 = j
      BY <1>1, <2>1, <2>2
    <3> QED
      BY <2>1, <3>1
  <2> QED
    BY <1>4, <2>2
<1>5. ASSUME NEW op \in Ops, NEW target \in Sessions \cup {None}, NEW pc \in Pcs,
             Starts(op, target, pc)
      PROVE  Goal
  <2>1. /\ DOMAIN stack' = 1..(Len(stack) + 1)
        /\ \A k \in DOMAIN stack' : k # 1 => stack'[k] = stack[k - 1]
    BY <1>1, <1>5, PushFacts DEF Starts
  <2>2. j + 1 \in DOMAIN stack' /\ j + 1 # 1 /\ (j + 1) - 1 = j
    BY <1>1, <2>1
  <2> QED
    BY <2>1, <2>2
<1>6. CASE Request
  BY <1>2, <1>5, <1>6, StartingActions, UntouchedActions DEF Request
<1>7. CASE Environment \/ Idle \/ UNCHANGED vars
  BY <1>2, <1>7, UntouchedActions DEF Idle
<1>8. CASE PurgeStep \/ ClearStep \/ SwitchClient \/ LaunchClient
  BY <1>2, <1>8, UntouchedActions
<1>9. CASE \/ CommandSave \/ RepliesDone \/ RepliesTimeout
           \/ CloseBegin \/ KilledDone \/ KilledTimeout \/ PurgeEnd \/ ClearEnd
           \/ LoadBegin \/ SwitchEnd \/ AnnounceEnd
  BY <1>3, <1>9, ContinuingActions DEF Moves
<1>10. CASE \/ Closed \/ CreateFails \/ CreateSession \/ LoadNoFile \/ LoadRefused \/ LoadEnd
  <2>1. j = 1 => LoadEnd
    BY <1>1, <1>10
    DEF Loading, LatePcs, At, AtOneOf, Closed, CreateFails, CreateSession, LoadNoFile, LoadRefused
  <2> QED
    BY <1>4, <1>10, <2>1, ReturningActions
<1>11. CASE AfterSave
  <2>1. j # 1
    BY <1>1, <1>11, SMTT(40) DEF Loading, LatePcs, At, AtOneOf, AfterSave
  <2> QED
    BY <1>3, <1>4, <1>11, <2>1, AfterSaveGoesOn DEF Moves
<1> QED
  BY <1>6, <1>7, <1>8, <1>9, <1>10, <1>11 DEF Next, Daemon

\* A daemon that has ended stays so.
LEMMA ExitIsFinal ==
    ASSUME ControlInv, [Next]_vars, exited
    PROVE  exited'
<1>1. ~Listening /\ stack = <<>>
  BY DEF ControlInv, Listening
<1> QED
  BY <1>1
  DEF Next, Daemon, Request, Environment, Idle, vars, At, AtOneOf, CommandSave, RepliesDone,
     RepliesTimeout, AfterSave, CloseBegin, KilledDone, KilledTimeout, PurgeStep, PurgeEnd,
     ClearStep, ClearEnd, Closed, CleanExit, CreateFails, CreateSession, LoadNoFile,
     LoadRefused, LoadBegin, SwitchClient, LaunchClient, SwitchEnd, AnnounceEnd, LoadEnd,
     Save, Close, Abort, Quit, Open, New, Duplicate, Begin, Add, Stop, Remove_, Resume,
     ClientSave, Announce, AnnounceRefused, Answer, Exit, Reap, PurgeDead

\* Every step keeps the lock of the session that is open.
LEMMA HeldStep ==
    ASSUME TypeOK, ControlInv, HolderInv, HeldInv, [Next]_vars
    PROVE  HeldInv'
<1>1. /\ DOMAIN stack = 1..Len(stack) /\ Len(stack) \in Nat
      /\ stack # <<>> => /\ 1 \in DOMAIN stack /\ Top = stack[1] /\ Top.op # "load"
                         /\ ValidFrame(Top) /\ Top.op \in Ops
  BY TopFacts, TopValid DEF ControlInv, HolderInv
<1>2. session_path' \notin Unreadable
  <2>1. CreateSession => Top.target \notin Unreadable
    BY TargetFacts DEF CreateSession, At, AtOneOf, Foreign
  <2>2. None \notin Unreadable
    BY ConstantsAssumption
  <2> QED
    BY <2>1, <2>2, SessionChangers
    DEF HeldInv, ClearEnd, CreateSession, LoadRefused, LoadBegin
<1>3. ASSUME ~exited', session_path' # None, session_name' = session_path'
      PROVE  \/ <<session_path', session_path'>> \in locks'
             \/ \E k \in DOMAIN stack' : Loading(stack'[k])
  <2>1. CASE ClearEnd
    BY <1>3, <2>1 DEF ClearEnd
  <2>2. CASE CreateSession
    BY <2>2 DEF CreateSession
  <2>3. CASE LoadBegin
    <3>1. /\ stack # <<>> /\ Top.pc = "load" /\ Continues
          /\ Goto("killed") \/ Goto("purge")
      BY <2>3, ContinuingActions DEF LoadBegin, GotoKilled, At, AtOneOf
    <3>2. Top.op \in {"open", "duplicate"}
      BY <1>1, <3>1 DEF ValidFrame, PcsOf, SavePcs, ClosePcs, Ops, Guarded
    <3>3. /\ stack'[1].pc \in {"killed", "purge"} /\ stack'[1].op = Top.op
          /\ 1 \in DOMAIN stack'
      BY <1>1, <3>1, GotoFacts DEF ControlInv, Pcs, WaitPcs, RunPcs
    <3> QED
      BY <3>2, <3>3 DEF Loading, LatePcs
  <2>4. CASE LoadRefused
    BY <1>3, <2>4 DEF LoadRefused, HeldInv
  <2>5. CASE LoadEnd
    <3>1. /\ 1 \in DOMAIN stack /\ Loading(stack[1]) /\ ~Quitting /\ Top = stack[1]
      BY <1>1, <2>5
      DEF LoadEnd, At, AtOneOf, Loading, Quitting, ValidFrame, PcsOf, SavePcs, LatePcs,
         ClosePcs, Ops, Guarded
    <3>2. session_path = Top.target
      BY <3>1 DEF HolderInv
    <3> QED
      BY <2>5, <3>2 DEF LoadEnd
  <2>6. CASE UNCHANGED <<session_path, session_name, locks>> /\ ~LoadEnd
    <3>1. ~exited /\ ~CleanExit
      BY <1>3, ExitIsFinal DEF CleanExit
    <3>2. \/ <<session_path, session_path>> \in locks
          \/ \E k \in DOMAIN stack : Loading(stack[k])
      BY <1>3, <2>6, <3>1 DEF HeldInv
    <3> QED
      BY <2>6, <3>1, <3>2, LoadingKept
  <2> QED
    BY <2>1, <2>2, <2>3, <2>4, <2>5, <2>6, OtherActions
    DEF FileActions, CommandSave, AfterSave, CleanExit
<1> QED
  BY <1>2, <1>3 DEF HeldInv, Loading

\* Unless a session is loaded from the command line or a failed load has given
\* the session another name, an open session has its lock file, so that no
\* other nsmd opens it, whenever neither a load nor a close is in progress.
THEOREM OpenSessionIsLocked ==
    ASSUME LoadAtStart = None
    PROVE  Spec => []LockHeldWhileOpen
<1>1. Init => HolderInv /\ HeldInv
  BY ConstantsAssumption DEF Init, HolderInv, HeldInv
<1>2. TypeOK /\ ControlInv /\ HolderInv /\ HeldInv /\ [Next]_vars => HolderInv' /\ HeldInv'
  BY HolderStep, HeldStep
<1>3. HeldInv => LockHeldWhileOpen
  BY DEF HeldInv, LockHeldWhileOpen, Settled, Loading
<1> QED
  BY <1>1, <1>2, <1>3, Invariance, PTL DEF Spec
----------------------------------------------------------------------------
(* The refinement of Session                                               *)

Loads == \E k \in DOMAIN stack : Loading(stack[k])

----------------------------------------------------------------------------
(* What the steps of the stack do to the abstract operation                *)

\* One guarded operation is in progress, the innermost one, or none is.
LEMMA OperationOf ==
    ASSUME ControlInv, ~exited, stack # <<>>, Top.op \in Guarded
    PROVE  SessionOperation = IF Loading(Top) THEN "TAKEN" ELSE Operation(Top.op)
<1>1. /\ DOMAIN stack = 1..Len(stack) /\ 1 \in DOMAIN stack /\ Top = stack[1]
  BY TopFacts DEF ControlInv
<1>2. /\ pending_operation = Operation(Top.op)
      /\ \A j \in DOMAIN stack : j # 1 => stack[j].op \notin Guarded
  BY <1>1 DEF ControlInv, OneOperation
<1>3. Loads <=> Loading(Top)
  BY <1>1, <1>2 DEF Loads, Loading, Guarded
<1> QED
  BY <1>2, <1>3 DEF SessionOperation, Loads

\* A daemon that has ended, or reports no operation, is in no session
\* operation.
LEMMA NoOperation ==
    ASSUME ControlInv, exited \/ pending_operation = "NONE"
    PROVE  SessionOperation = "NONE"
<1>1. ~exited => ~Loads
  BY DEF ControlInv, OneOperation, Loads, Loading, Guarded
<1> QED
  BY <1>1 DEF SessionOperation, Loads

\* Steps that leave the stack alone.
LEMMA UntouchedOperation ==
    ASSUME Untouched
    PROVE  UNCHANGED <<SessionOperation, Leaving, exited>>
BY DEF Untouched, SessionOperation, Leaving

\* Steps with which the innermost handler goes on.
LEMMA ContinuedOperation ==
    ASSUME ControlInv, Continues, Moves, ~LoadBegin
    PROVE  UNCHANGED <<SessionOperation, Leaving, exited>>
<1>1. PICK pc \in Pcs : Goto(pc)
  BY PcsOfFacts, TopValid DEF Continues
<1>2. /\ DOMAIN stack' = DOMAIN stack /\ 1 \in DOMAIN stack /\ Top = stack[1]
      /\ stack'[1].op = stack[1].op
      /\ \A k \in DOMAIN stack : k # 1 => stack'[k] = stack[k]
  BY <1>1, GotoFacts, TopFacts DEF Continues, ControlInv
<1>3. Loading(stack'[1]) <=> Loading(stack[1])
  BY <1>2, LateMoves, LateStays DEF Loading, LatePcs
<1>4. Loads' <=> Loads
  BY <1>2, <1>3 DEF Loads
<1>5. UNCHANGED <<pending_operation, exited>>
  BY DEF Continues
<1> QED
  BY <1>2, <1>4, <1>5 DEF SessionOperation, Loads, Leaving

\* LoadBegin is where a session is taken.
LEMMA TakenOperation ==
    ASSUME ControlInv, HolderInv, LoadBegin
    PROVE  /\ SessionOperation' = "TAKEN" /\ UNCHANGED <<Leaving, exited>>
           /\ SessionOperation \in {"OPEN", "DUPLICATE"} /\ ~exited
<1>1. /\ stack # <<>> /\ ~exited /\ Top.pc = "load" /\ Continues
      /\ Goto("killed") \/ Goto("purge")
  BY ContinuingActions DEF LoadBegin, GotoKilled, At, AtOneOf
<1>2. /\ DOMAIN stack' = DOMAIN stack /\ 1 \in DOMAIN stack /\ Top = stack[1]
      /\ stack'[1].op = stack[1].op /\ stack'[1].pc \in {"killed", "purge"}
      /\ \A k \in DOMAIN stack : k # 1 => stack'[k] = stack[k]
  BY <1>1, GotoFacts, TopFacts DEF ControlInv, Pcs, WaitPcs, RunPcs
<1>3. Top.op \in {"open", "duplicate"}
  BY <1>1, <1>2, TopValid
  DEF HolderInv, ValidFrame, PcsOf, SavePcs, ClosePcs, Ops, Guarded
<1>4. Loading(stack'[1]) /\ ~Loading(Top) /\ ~exited' /\ UNCHANGED exited
  BY <1>1, <1>2, <1>3 DEF Loading, Continues
<1>5. SessionOperation' = "TAKEN"
  BY <1>2, <1>4 DEF SessionOperation
<1>6. SessionOperation = Operation(Top.op)
  BY <1>1, <1>3, <1>4, OperationOf DEF Guarded
<1>7. UNCHANGED Leaving
  BY <1>2, <1>4 DEF Leaving
<1> QED
  BY <1>1, <1>3, <1>4, <1>5, <1>6, <1>7 DEF Operation

\* Steps with which the innermost handler returns.
LEMMA ReturnedOperation ==
    ASSUME ControlInv, ControlInv', HolderInv, Returns
    PROVE  SessionOperation' = "NONE" /\ UNCHANGED <<Leaving, exited>>
<1>1. /\ DOMAIN stack = 1..Len(stack) /\ Len(stack) \in Nat \ {0}
      /\ 1 \in DOMAIN stack /\ Top = stack[1]
      /\ DOMAIN stack' = 1..(Len(stack) - 1)
      /\ \A k \in DOMAIN stack' : stack'[k] = stack[k + 1] /\ k + 1 \in DOMAIN stack
  BY TopFacts, PopFacts DEF Returns, Return, ControlInv
<1>2. pending_operation' = "NONE" /\ UNCHANGED exited /\ Top.op # "quit"
  BY <1>1 DEF Returns, Return, HolderInv
<1>3. SessionOperation' = "NONE"
  BY <1>2, NoOperation DEF SessionOperation, ControlInv, OneOperation, Loading, Guarded
<1>4. \A j \in DOMAIN stack : stack[j].op = "quit" => j - 1 \in DOMAIN stack' /\ (j - 1) + 1 = j
  BY <1>1, <1>2
<1>5. Leaving' <=> Leaving
  BY <1>1, <1>2, <1>4 DEF Leaving
<1> QED
  BY <1>2, <1>3, <1>5

\* Requests that start a handler.
LEMMA StartedOperation ==
    ASSUME ControlInv, NEW op \in Ops, NEW target \in Sessions \cup {None}, NEW pc \in Pcs,
           Push(op, target, pc), pc \notin LatePcs, UNCHANGED exited, ~exited
    PROVE  /\ Leaving' <=> Leaving \/ op = "quit"
           /\ pending_operation' = pending_operation =>
                  SessionOperation' = SessionOperation
           /\ pending_operation = "NONE" =>
                  SessionOperation = "NONE" /\ SessionOperation' = pending_operation'
<1>a. stack \in Seq(Frames)
  BY DEF ControlInv
<1>b. /\ DOMAIN stack' = 1..(Len(stack) + 1) /\ Len(stack) \in Nat
      /\ stack'[1] = [op |-> op, target |-> target, pc |-> pc]
      /\ \A k \in DOMAIN stack' : k # 1 => stack'[k] = stack[k - 1]
  BY <1>a, PushFacts
<1>1. /\ DOMAIN stack' = 1..(Len(stack) + 1) /\ Len(stack) \in Nat
      /\ stack'[1].op = op /\ stack'[1].pc = pc
      /\ \A k \in DOMAIN stack' : k # 1 => stack'[k] = stack[k - 1]
      /\ DOMAIN stack = 1..Len(stack)
  BY <1>a, <1>b
<1>2. \A j \in DOMAIN stack : j + 1 \in DOMAIN stack' /\ j + 1 # 1 /\ stack'[j + 1] = stack[j]
  BY <1>1
<1>3. \A k \in DOMAIN stack' : k # 1 => k - 1 \in DOMAIN stack
  BY <1>1
<1>4. Loads' <=> Loads
  BY <1>1, <1>2, <1>3 DEF Loads, Loading, LatePcs
<1>5. Leaving' <=> Leaving \/ op = "quit"
  <2>1. 1 \in DOMAIN stack'
    BY <1>1
  <2> QED
    BY <1>1, <1>2, <1>3, <2>1 DEF Leaving
<1>6. pending_operation = "NONE" => ~Loads
  BY DEF ControlInv, OneOperation, Loads, Loading, Guarded
<1> QED
  BY <1>4, <1>5, <1>6 DEF SessionOperation, Loads

----------------------------------------------------------------------------
(* What exists on disk                                                     *)

\* The handlers that found no session at their target when they began: nobody
\* else creates it before they do.
Creating(f) == f.op = "new" \/ (f.op = "duplicate" /\ f.pc \in SavePcs)

ExistInv ==
    /\ session_path # None => file[session_path] # Absent \/ session_path \in ReadOnly
    /\ \A k \in DOMAIN stack : Creating(stack[k]) => file[stack[k].target] = Absent
    /\ \A k \in DOMAIN stack : stack[k].pc = "closed" => session_path = None

\* Only CommandSave, CreateSession and the cp of a duplicate write session
\* files, and none of them deletes one.
LEMMA FilesStay ==
    ASSUME TypeOK, ControlInv, FilesInv, ExistInv, [Next]_vars,
           NEW s \in Sessions, file[s] # Absent
    PROVE  file'[s] # Absent
<1>1. file \in [Sessions -> Seq(Entries) \cup {Absent}]
  BY DEF FilesInv
<1>2. ClientList # Absent
  BY ClientListType DEF TypeOK
<1>3. CASE CommandSave
  BY <1>1, <1>2, <1>3 DEF CommandSave
<1>4. CASE AfterSave
  <2>1. Top.op = "duplicate" => Top.target # s
    BY <1>4, TopFacts DEF AfterSave, At, AtOneOf, ExistInv, Creating, SavePcs, ControlInv
  <2> QED
    BY <1>1, <1>4, <2>1 DEF AfterSave
<1>5. CASE CreateSession
  BY <1>1, <1>2, <1>5 DEF CreateSession
<1>6. CASE UNCHANGED file
  BY <1>6
<1> QED
  BY <1>3, <1>4, <1>5, <1>6, OtherActions
  DEF FileActions, ClearEnd, CleanExit, LoadRefused, LoadBegin, LoadEnd

\* The session that is open after a step has a file, or cannot have one.
LEMMA OpenExists ==
    ASSUME TypeOK, ControlInv, FilesInv, ExistInv, [Next]_vars, session_path' # None
    PROVE  file'[session_path'] # Absent \/ session_path' \in ReadOnly
<1>1. CASE UNCHANGED session_path
  <2>1. session_path \in Sessions /\ (file[session_path] # Absent \/ session_path \in ReadOnly)
    BY <1>1 DEF ExistInv, FilesInv
  <2> QED
    BY <1>1, <2>1, FilesStay
<1>2. CASE ClearEnd
  BY <1>2 DEF ClearEnd
<1>3. CASE CreateSession
  <2>1. Top.target \in Sessions /\ file \in [Sessions -> Seq(Entries) \cup {Absent}]
    BY <1>3, TargetFacts DEF CreateSession, FilesInv
  <2>2. ClientList # Absent
    BY ClientListType DEF TypeOK
  <2> QED
    BY <1>3, <2>1, <2>2 DEF CreateSession
<1>4. CASE LoadRefused
  <2>1. session_path # None => file[session_path] # Absent \/ session_path \in ReadOnly
    BY DEF ExistInv
  <2> QED
    BY <1>4, <2>1 DEF LoadRefused
<1>5. CASE LoadBegin
  BY <1>5 DEF LoadBegin
<1> QED
  BY <1>1, <1>2, <1>3, <1>4, <1>5, SessionChangers

\* A handler in its save got there from its save.
LEMMA SaveMoves ==
    ASSUME ControlInv, Moves, Continues, stack'[1].pc \in SavePcs
    PROVE  Top.pc \in SavePcs
<1> USE DEF SavePcs, Pcs, WaitPcs, RunPcs, At, AtOneOf
<1>1. CASE CommandSave \/ AfterSave
  BY <1>1 DEF CommandSave, AfterSave
<1>2. CASE RepliesDone \/ RepliesTimeout
  <2>1. Top.pc = "replies" \/ Goto("loaded")
    BY <1>2 DEF RepliesDone, RepliesTimeout, AfterReplies
  <2> QED
    BY <2>1, MovedTo
<1>3. CASE CloseBegin \/ KilledDone \/ KilledTimeout \/ PurgeEnd \/ ClearEnd \/ LoadBegin
           \/ SwitchEnd \/ AnnounceEnd
  <2>1. \E pc \in {"closed", "create", "killed", "purge", "switch", "clear", "announce",
                   "opening"} : Goto(pc)
    BY <1>3 DEF CloseBegin, KilledDone, KilledTimeout, PurgeEnd, ClearEnd, LoadBegin,
       SwitchEnd, AnnounceEnd, GotoKilled, AfterClose
  <2> QED
    BY <2>1, MovedTo
<1> QED
  BY <1>1, <1>2, <1>3 DEF Moves

\* A close that comes to its end has closed the session.
LEMMA ClosedMoves ==
    ASSUME ControlInv, Moves, Continues, stack'[1].pc = "closed"
    PROVE  session_path' = None
<1> USE DEF Pcs, WaitPcs, RunPcs
<1>1. CASE CloseBegin
  <2>1. session_path = None \/ Goto("killed") \/ Goto("purge")
    BY <1>1 DEF CloseBegin, GotoKilled
  <2> QED
    BY <1>1, <2>1, MovedTo DEF CloseBegin, SameSession, SameFiles
<1>2. CASE ClearEnd
  BY <1>2 DEF ClearEnd
<1>3. ASSUME ~CloseBegin, ~ClearEnd
      PROVE  \E pc \in Pcs \ {"closed"} : Goto(pc)
  BY <1>3, NoReturn
  DEF Moves, CommandSave, RepliesDone, RepliesTimeout, AfterReplies, AfterSave, KilledDone,
     KilledTimeout, PurgeEnd, LoadBegin, GotoKilled, SwitchEnd, AnnounceEnd
<1> QED
  BY <1>1, <1>2, <1>3, MovedTo

\* While a close is at its end no session is open.
LEMMA ClosedStep ==
    ASSUME TypeOK, ControlInv, HolderInv, ExistInv, [Next]_vars,
           NEW k \in DOMAIN stack', stack'[k].pc = "closed"
    PROVE  session_path' = None
<1>1. CASE OldFrame(k)
  <2>1. PICK j \in DOMAIN stack : stack'[k] = stack[j]
                                  /\ (j # 1 \/ UNCHANGED <<session_path, session_name>>)
    BY <1>1 DEF OldFrame
  <2>2. session_path = None
    BY <2>1 DEF ExistInv
  <2>3. j # 1 => stack[j].op # "quit"
    BY <2>1 DEF ControlInv, CutOff, WaitPcs
  <2>4. j # 1 => stack[j].op \in Guarded
    BY <2>1, <2>3
    DEF ControlInv, ValidFrame, Frames, Ops, Guarded, PcsOf, SavePcs, LatePcs, ClosePcs
  <2> QED
    BY <2>1, <2>2, <2>4, NothingOpensAbove
<1>2. CASE MovedFrame(k)
  BY <1>2, ClosedMoves DEF MovedFrame
<1>3. CASE NewFrame(k)
  BY <1>3 DEF NewFrame, StartPcs
<1> QED
  BY <1>1, <1>2, <1>3, FrameOrigin

\* Requests to start a handler, with what they test.
CreateStarts(op, target, pc) ==
    /\ Push(op, target, pc) /\ UNCHANGED file /\ pc \in StartPcs
    /\ op \in {"new", "duplicate"} => file[target] = Absent

\* The requests that start an operation: "new" and "duplicate" start only
\* where there is no session yet.
LEMMA StartsAbsent ==
    ASSUME \/ Save \/ Close \/ Abort \/ Quit
           \/ \E s \in Sessions : Open(s) \/ New(s) \/ Duplicate(s)
    PROVE  \E op \in Ops, target \in Sessions \cup {None}, pc \in Pcs :
              CreateStarts(op, target, pc)
<1> USE DEF CreateStarts, StartPcs, Ops, Guarded, Pcs, RunPcs, Begin, SameFiles
<1>1. CASE Save
  BY <1>1 DEF Save
<1>2. CASE Close
  BY <1>2 DEF Close
<1>3. CASE Abort
  BY <1>3 DEF Abort
<1>4. CASE Quit
  BY <1>4 DEF Quit
<1>5. CASE \E s \in Sessions : Open(s)
  BY <1>5 DEF Open
<1>6. CASE \E s \in Sessions : New(s)
  BY <1>6 DEF New
<1>7. CASE \E s \in Sessions : Duplicate(s)
  BY <1>7 DEF Duplicate
<1> QED
  BY <1>1, <1>2, <1>3, <1>4, <1>5, <1>6, <1>7

\* The one guarded operation is the innermost frame, if that is guarded.
LEMMA OnlyTopCreates ==
    ASSUME ControlInv, stack # <<>>, Top.op \in Guarded,
           NEW j \in DOMAIN stack, Creating(stack[j])
    PROVE  j = 1
BY TopFacts DEF ControlInv, OneOperation, Creating, Guarded

\* While a session is about to be made or copied its file does not exist yet.
LEMMA CreatingStep ==
    ASSUME TypeOK, ControlInv, FilesInv, ExistInv, [Next]_vars,
           NEW k \in DOMAIN stack', Creating(stack'[k])
    PROVE  file'[stack'[k].target] = Absent
<1> DEFINE Goal == file'[stack'[k].target] = Absent
<1>1. /\ stack \in Seq(Frames) /\ DOMAIN stack = 1..Len(stack) /\ Len(stack) \in Nat
      /\ stack # <<>> => 1 \in DOMAIN stack /\ Top = stack[1]
  BY TopFacts DEF ControlInv
<1>2. \A j \in DOMAIN stack : Creating(stack[j]) =>
          stack[j].target \in Sessions /\ file[stack[j].target] = Absent
  BY DEF ControlInv, ValidFrame, ExistInv, Creating
<1>3. ASSUME Untouched, UNCHANGED file PROVE Goal
  BY <1>2, <1>3 DEF Untouched
<1>4. ASSUME Moves, Continues PROVE Goal
  <2>1. PICK pc \in Pcs : Goto(pc) /\ stack # <<>>
    BY <1>4, PcsOfFacts, TopValid DEF Continues
  <2>2. /\ DOMAIN stack' = DOMAIN stack
        /\ stack'[1].op = stack[1].op /\ stack'[1].target = stack[1].target
        /\ stack'[1].pc = pc
        /\ \A j \in DOMAIN stack : j # 1 => stack'[j] = stack[j]
    BY <1>1, <2>1, GotoFacts
  <2>3. Creating(stack[k]) /\ stack'[k].target = stack[k].target
    BY <1>1, <1>4, <2>1, <2>2, SaveMoves DEF Creating
  <2>4. CASE CommandSave
    <3>1. session_path # stack[k].target \/ session_path \in ReadOnly
      BY <1>2, <2>2, <2>3, ConstantsAssumption DEF ExistInv, FilesInv
    <3> QED
      BY <1>2, <2>2, <2>3, <2>4, <3>1 DEF CommandSave, FilesInv
  <2>5. CASE AfterSave
    <3>1. ASSUME ~UNCHANGED file PROVE FALSE
      <4>1. Top.op = "duplicate" /\ Goto("load")
        BY <2>5, <3>1 DEF AfterSave
      <4>2. stack'[1].pc = "load"
        BY <1>4, <4>1, MovedTo DEF Pcs, RunPcs
      <4>3. k # 1
        BY <1>1, <2>1, <2>2, <4>1, <4>2 DEF Creating, SavePcs
      <4> QED
        BY <2>1, <2>2, <2>3, <4>1, <4>3, OnlyTopCreates DEF Guarded
    <3> QED
      BY <1>2, <2>2, <2>3, <3>1
  <2>6. CASE UNCHANGED file
    BY <1>2, <2>2, <2>3, <2>6
  <2> QED
    BY <1>4, <2>4, <2>5, <2>6
    DEF Moves, RepliesDone, RepliesTimeout, CloseBegin, KilledDone, KilledTimeout, PurgeEnd,
       ClearEnd, LoadBegin, SwitchEnd, AnnounceEnd, SameSession, SameFiles
<1>5. ASSUME Returns, UNCHANGED file \/ Top.op \in Guarded PROVE Goal
  <2>1. stack'[k] = stack[k + 1] /\ k + 1 \in DOMAIN stack /\ k + 1 # 1
    BY <1>1, <1>5, PopFacts DEF Returns, Return
  <2>2. CASE Top.op \in Guarded
    BY <1>5, <2>1, <2>2, OnlyTopCreates DEF Returns
  <2>3. CASE UNCHANGED file
    BY <1>2, <2>1, <2>3
  <2> QED
    BY <1>5, <2>2, <2>3
<1>6. ASSUME NEW op \in Ops, NEW target \in Sessions \cup {None}, NEW pc \in Pcs,
             CreateStarts(op, target, pc)
      PROVE  Goal
  <2>1. /\ DOMAIN stack' = 1..(Len(stack) + 1)
        /\ stack'[1] = [op |-> op, target |-> target, pc |-> pc]
        /\ \A j \in DOMAIN stack' : j # 1 => stack'[j] = stack[j - 1]
    BY <1>1, <1>6, PushFacts DEF CreateStarts
  <2>2. CASE k = 1
    BY <1>6, <2>1, <2>2 DEF CreateStarts, Creating
  <2>3. CASE k # 1
    <3>1. k - 1 \in DOMAIN stack /\ stack'[k] = stack[k - 1]
      BY <1>1, <2>1, <2>3
    <3> QED
      BY <1>2, <1>6, <3>1 DEF CreateStarts
  <2> QED
    BY <2>2, <2>3
<1>7. CASE Request
  <2>1. CASE \/ \E prog \in Progs : Add(prog)
             \/ \E i \in DOMAIN client : Stop(i) \/ Remove_(i) \/ Resume(i) \/ ClientSave(i)
    BY <1>3, <2>1, UntouchedActions DEF Add, Stop, Remove_, Resume, ClientSave, SameFiles
  <2> QED
    BY <1>6, <1>7, <2>1, StartsAbsent DEF Request
<1>8. CASE Environment \/ Idle \/ UNCHANGED vars
  BY <1>3, <1>8, UntouchedActions
  DEF Idle, Environment, Announce, AnnounceRefused, Answer, Exit, Reap, PurgeDead,
     SameSession, SameFiles, vars
<1>9. CASE PurgeStep \/ ClearStep \/ SwitchClient \/ LaunchClient
  BY <1>3, <1>9, UntouchedActions
  DEF PurgeStep, ClearStep, SwitchClient, LaunchClient, SameSession, SameFiles
<1>10. CASE \/ CommandSave \/ RepliesDone \/ RepliesTimeout
            \/ CloseBegin \/ KilledDone \/ KilledTimeout \/ PurgeEnd \/ ClearEnd
            \/ LoadBegin \/ SwitchEnd \/ AnnounceEnd
  BY <1>4, <1>10, ContinuingActions DEF Moves
<1>11. CASE Closed \/ CreateFails \/ CreateSession \/ LoadNoFile \/ LoadRefused \/ LoadEnd
  <2>1. CreateSession => Top.op \in Guarded
    BY TargetFacts DEF CreateSession, Guarded
  <2> QED
    BY <1>5, <1>11, <2>1, ReturningActions
    DEF Closed, CreateFails, LoadNoFile, LoadRefused, LoadEnd, ReturnUnchanged
<1>12. CASE AfterSave
  <2>1. UNCHANGED file \/ Top.op \in Guarded
    BY <1>12 DEF AfterSave, Guarded
  <2> QED
    BY <1>4, <1>5, <1>12, <2>1, AfterSaveGoesOn DEF Moves
<1>13. CASE CleanExit
  BY <1>13 DEF CleanExit
<1> QED
  BY <1>7, <1>8, <1>9, <1>10, <1>11, <1>12, <1>13 DEF Next, Daemon

\* Every step keeps the open session's file in existence.
LEMMA ExistStep ==
    ASSUME TypeOK, ControlInv, FilesInv, HolderInv, ExistInv, [Next]_vars
    PROVE  ExistInv'
<1>2. \A k \in DOMAIN stack' : Creating(stack'[k]) => file'[stack'[k].target] = Absent
  BY CreatingStep
<1>3. \A k \in DOMAIN stack' : stack'[k].pc = "closed" => session_path' = None
  BY ClosedStep
<1> QED
  BY <1>2, <1>3, OpenExists DEF ExistInv, Creating

----------------------------------------------------------------------------
(* Every step of nsmd is a step of Session, or none                        *)

SessionInv ==
    /\ TypeOK /\ ControlInv /\ FilesInv /\ HolderInv /\ ExistInv
    /\ LockOnlyForOpenSession /\ OthersKeepTheirSessions

\* Every step keeps the inductive invariant of the sessions.
LEMMA SessionInvStep ==
    ASSUME SessionInv, [Next]_vars
    PROVE  SessionInv'
BY TypeStep, ControlStep, FilesStep, HolderStep, ExistStep, LockStep, OthersStep DEF SessionInv

\* The lock files of nsmd, without a session and after its own is deleted.
LEMMA NoOwnLocks ==
    ASSUME SessionInv, session_path = None
    PROVE  OwnLocks = {}
BY OnlyTheirs DEF SessionInv, OwnLocks

\* When the daemon drops its lock it holds none.
LEMMA DroppedLocks ==
    ASSUME SessionInv, locks' = OwnLockDropped
    PROVE  OwnLocks' = {}
<1>1. \A l \in OwnLockDropped : l \in locks
  BY DEF OwnLockDropped
<1> QED
  BY <1>1, OnlyTheirs DEF SessionInv, OwnLocks

\* When the daemon takes a lock nobody else has, it holds that one alone.
LEMMA AddedLock ==
    ASSUME NEW t \in Sessions \ LockedByOther, locks' = locks \cup {<<t, t>>},
           OwnLocks \subseteq {t}
    PROVE  OwnLocks' = {t}
<1> DEFINE l == <<t, t>>
<1>1. l[2] = t /\ l \in locks'
  OBVIOUS
<1>2. \A s \in Sessions \ LockedByOther : (\E k \in locks : k[2] = s) => s = t
  BY DEF OwnLocks
<1> QED
  <2> HIDE DEF l
  <2>1. locks' = locks \cup {l}
    BY DEF l
  <2> QED
    BY <1>1, <1>2, <2>1 DEF OwnLocks

\* The daemon holds no lock but that of the session it has open.
LEMMA OpenLock ==
    ASSUME SessionInv
    PROVE  OwnLocks \subseteq {session_path}
<1> SUFFICES ASSUME NEW s \in OwnLocks PROVE s = session_path
  OBVIOUS
<1>1. PICK l \in locks : l[2] = s /\ s \notin LockedByOther
  BY DEF OwnLocks
<1>2. l = <<session_name, session_path>>
  BY <1>1 DEF SessionInv, LockOnlyForOpenSession
<1> QED
  BY <1>1, <1>2

Stutters == UNCHANGED Promise!vars

\* A step that leaves what the promise sees alone stutters.
LEMMA Stuttering ==
    ASSUME UNCHANGED <<session_path, file, locks>>, UNCHANGED <<SessionOperation, Leaving, exited>>
    PROVE  Stutters
BY DEF Stutters, Promise!vars, SessionsOnDisk, OwnLocks

\* A save writes the file of a session that has one, or nothing.
LEMMA CommandSaveSession ==
    ASSUME SessionInv, CommandSave
    PROVE  Stutters
<1>1. UNCHANGED <<SessionOperation, Leaving, exited>>
  BY ContinuingActions, ContinuedOperation DEF SessionInv, Moves, LoadBegin, CommandSave, At, AtOneOf
<1>2. SessionsOnDisk' = SessionsOnDisk
  <2>1. ClientList # Absent
    BY ClientListType DEF TypeOK, SessionInv
  <2>2. \A s \in Sessions : file'[s] = file[s] \/ (s = session_path /\ file'[s] = ClientList)
    BY DEF CommandSave, SessionInv, FilesInv
  <2>3. \A s \in Sessions : s = session_path => file[s] # Absent \/ UNCHANGED file
    BY ConstantsAssumption DEF SessionInv, ExistInv, CommandSave
  <2> QED
    BY <2>1, <2>2, <2>3 DEF SessionsOnDisk
<1>3. UNCHANGED <<session_path, locks>>
  BY DEF CommandSave
<1> QED
  BY <1>1, <1>2, <1>3 DEF Stutters, Promise!vars, OwnLocks

\* The step after a save gives up, copies the session, or stutters.
LEMMA AfterSaveSession ==
    ASSUME SessionInv, SessionInv', AfterSave
    PROVE  \/ Stutters \/ Promise!GiveUp
           \/ \E s \in Sessions : Promise!Copy(s)
<1>1. /\ stack # <<>> /\ ~exited /\ Top.pc = "saved" /\ 1 \in DOMAIN stack /\ Top = stack[1]
      /\ UNCHANGED <<session_path, locks, exited>>
  BY TopFacts DEF AfterSave, At, AtOneOf, SessionInv, ControlInv
<1>2. CASE /\ Return /\ UNCHANGED file
           /\ Top.op \in {"save", "open", "duplicate"}
  <2>1. Returns
    BY <1>1, <1>2 DEF Returns
  <2>2. SessionOperation' = "NONE" /\ UNCHANGED <<Leaving, exited>>
    BY <2>1, ReturnedOperation DEF SessionInv
  <2>3. CASE Top.op = "save"
    <3>1. pending_operation = "NONE"
      BY <1>1, <2>3 DEF SessionInv, ControlInv, OneOperation, Guarded
    <3>2. SessionOperation = "NONE"
      BY <3>1, NoOperation DEF SessionInv
    <3> QED
      BY <1>1, <1>2, <2>2, <3>2, Stuttering
  <2>4. CASE Top.op \in {"open", "duplicate"}
    <3>1. SessionOperation \in {"OPEN", "DUPLICATE"}
      BY <1>1, <2>4, OperationOf DEF SessionInv, Guarded, Loading, Operation
    <3> QED
      BY <1>1, <1>2, <2>2, <3>1
      DEF Promise!GiveUp, Promise!During, Promise!Over, Promise!SameSession, Promise!SameRest,
          SessionsOnDisk, OwnLocks
  <2> QED
    BY <1>2, <2>3, <2>4
<1>3. CASE /\ UNCHANGED pending_operation
           /\ \/ Top.op \in {"open", "duplicate"} /\ Goto("load")
              \/ Top.op \in {"new", "close"} /\ Goto("close")
  <2>1. Continues
    BY <1>1, <1>3 DEF Continues, PcsOf, ClosePcs
  <2>2. UNCHANGED <<SessionOperation, Leaving, exited>>
    BY <1>1, <2>1, ContinuedOperation DEF SessionInv, Moves, LoadBegin, At, AtOneOf
  <2>3. CASE UNCHANGED file
    BY <1>1, <2>2, <2>3, Stuttering
  <2>4. CASE ~UNCHANGED file
    <3>1. /\ Top.op = "duplicate"
          /\ file' = [file EXCEPT ![Top.target] = file[session_path]]
      BY <2>4 DEF AfterSave
    <3>2. SessionOperation = "DUPLICATE"
      BY <1>1, <3>1, OperationOf DEF SessionInv, Guarded, Loading, Operation
    <3>3. Top.target \in Sessions /\ file[Top.target] = Absent
      BY <1>1, <3>1, TopValid DEF SessionInv, ExistInv, Creating, SavePcs, ValidFrame
    <3>4. session_path # None /\ file[session_path] # Absent
      BY <1>1, <2>4, <3>1, <3>3 DEF SessionInv, FilesInv, Quitting, SavePcs
    <3>5. SessionsOnDisk' = SessionsOnDisk \cup {Top.target} /\ Top.target \in Sessions \ SessionsOnDisk
      BY <3>1, <3>3, <3>4 DEF SessionsOnDisk, SessionInv, FilesInv
    <3> QED
      BY <1>1, <2>2, <3>2, <3>4, <3>5
      DEF Promise!Copy, Promise!During, Promise!SameSession, OwnLocks
  <2> QED
    BY <2>3, <2>4
<1> QED
  BY <1>2, <1>3 DEF AfterSave

\* The end of the clearing closes the session.
LEMMA ClearEndSession ==
    ASSUME SessionInv, SessionInv', ClearEnd
    PROVE  Promise!CloseSession
<1>1. /\ Continues /\ stack # <<>> /\ ~exited /\ Top.pc = "clear"
      /\ 1 \in DOMAIN stack /\ Top = stack[1]
      /\ Top.op \in {"new", "close", "abort", "quit"}
  BY ContinuingActions, TopFacts, TargetFacts
  DEF ClearEnd, At, AtOneOf, SessionInv, ControlInv
<1>2. UNCHANGED <<SessionOperation, Leaving, exited>>
  BY <1>1, ContinuedOperation DEF SessionInv, Moves, LoadBegin, At, AtOneOf
<1>3. Top.op # "quit" => SessionOperation \in {"NEW", "CLOSE"}
  BY <1>1, OperationOf DEF SessionInv, Guarded, Loading, Operation
<1>4. Top.op = "quit" => Leaving
  BY <1>1 DEF Leaving
<1>5. session_path' = None /\ UNCHANGED file
  BY DEF ClearEnd
<1>6. OwnLocks' = {}
  BY <1>5, ConstantsAssumption, SMTT(40)
  DEF SessionInv, TypeOK, LockOnlyForOpenSession, OwnLocks
<1> QED
  BY <1>1, <1>2, <1>3, <1>4, <1>5, <1>6
  DEF Promise!CloseSession, Promise!During, Promise!SameRest, SessionsOnDisk

\* The steps with which a guarded operation ends.
LEMMA EndSession ==
    ASSUME SessionInv, SessionInv',
           Closed \/ CreateFails \/ CreateSession \/ LoadNoFile \/ LoadRefused \/ LoadEnd
    PROVE  \/ Promise!Closed \/ Promise!GiveUp \/ Promise!Refuse \/ Promise!Opened
           \/ \E s \in Sessions : Promise!Create(s)
<1>1. /\ Returns /\ stack # <<>> /\ ~exited /\ 1 \in DOMAIN stack /\ Top = stack[1]
      /\ ValidFrame(Top) /\ Top.op \in Ops /\ Top.op \notin {"load", "quit"}
  BY ReturningActions, TopFacts, TopValid
  DEF SessionInv, ControlInv, HolderInv, Returns
<1>2. SessionOperation' = "NONE" /\ UNCHANGED <<Leaving, exited>>
  BY <1>1, ReturnedOperation DEF SessionInv
<1> USE DEF Promise!During, Promise!Over, Promise!SameSession, Promise!SameRest
<1>3. CASE Closed
  <2>1. Top.op \in {"close", "abort"} /\ Top.pc = "closed"
    BY <1>1, <1>3
    DEF Closed, At, AtOneOf, ValidFrame, PcsOf, SavePcs, LatePcs, ClosePcs, Ops, Guarded
  <2>2. SessionOperation = "CLOSE" /\ session_path = None
    BY <1>1, <2>1, OperationOf DEF SessionInv, ExistInv, Guarded, Loading, Operation
  <2>3. UNCHANGED <<session_path, file, locks>>
    BY <1>3 DEF Closed, ReturnUnchanged
  <2> QED
    BY <1>1, <1>2, <2>2, <2>3, NoOwnLocks DEF Promise!Closed, SessionsOnDisk, OwnLocks
<1>4. ASSUME At("create")
      PROVE  /\ Top.op = "new" /\ SessionOperation = "NEW" /\ session_path = None
             /\ OwnLocks = {} /\ Top.target \in Sessions \ LockedByOther
             /\ file[Top.target] = Absent
  <2>1. Top.op = "new" /\ Top.pc = "create" /\ Top.target \in Sessions \ LockedByOther
    BY <1>1, <1>4, TargetFacts DEF SessionInv, At, AtOneOf, Foreign
  <2>2. SessionOperation = "NEW" /\ session_path = None /\ file[Top.target] = Absent
    BY <1>1, <2>1, OperationOf
    DEF SessionInv, HolderInv, ExistInv, Creating, Guarded, Loading, Operation
  <2> QED
    BY <2>1, <2>2, NoOwnLocks
<1>5. CASE CreateFails
  <2>1. UNCHANGED <<session_path, file, locks>>
    BY <1>5 DEF CreateFails, ReturnUnchanged
  <2> QED
    BY <1>1, <1>2, <1>4, <1>5, <2>1 DEF CreateFails, Promise!Closed, SessionsOnDisk, OwnLocks
<1>6. CASE CreateSession
  <2>1. /\ session_path' = Top.target /\ locks' = locks \cup {<<Top.target, Top.target>>}
        /\ UNCHANGED file \/ file' = [file EXCEPT ![Top.target] = ClientList]
    BY <1>6 DEF CreateSession
  <2>2. ClientList # Absent
    BY ClientListType DEF TypeOK, SessionInv
  <2>3. SessionsOnDisk' \in {SessionsOnDisk, SessionsOnDisk \cup {Top.target}}
    BY <1>4, <1>6, <2>1, <2>2 DEF CreateSession, SessionsOnDisk, SessionInv, FilesInv
  <2>4. OwnLocks' = {Top.target}
    BY <1>4, <1>6, <2>1, AddedLock DEF CreateSession
  <2>5. Top.target \notin SessionsOnDisk
    BY <1>4, <1>6 DEF CreateSession, SessionsOnDisk
  <2> QED
    BY <1>1, <1>2, <1>4, <1>6, <2>1, <2>3, <2>4, <2>5 DEF CreateSession, Promise!Create
<1>7. ASSUME At("load")
      PROVE  SessionOperation \in {"OPEN", "DUPLICATE"}
  <2>1. Top.op \in {"open", "duplicate"} /\ Top.pc = "load"
    BY <1>1, <1>7 DEF At, AtOneOf, ValidFrame, PcsOf, SavePcs, LatePcs, ClosePcs, Ops, Guarded
  <2> QED
    BY <1>1, <2>1, OperationOf DEF SessionInv, Guarded, Loading, Operation
<1>8. CASE LoadNoFile
  <2>1. UNCHANGED <<session_path, file, locks>> /\ At("load")
    BY <1>8 DEF LoadNoFile, ReturnUnchanged
  <2> QED
    BY <1>1, <1>2, <1>7, <2>1 DEF Promise!GiveUp, SessionsOnDisk, OwnLocks
<1>9. CASE LoadRefused
  <2>1. UNCHANGED <<session_path, file>> /\ At("load") /\ OwnLocks' = {}
    BY <1>9, DroppedLocks DEF LoadRefused
  <2> QED
    BY <1>1, <1>2, <1>7, <2>1 DEF Promise!Refuse, SessionsOnDisk
<1>10. CASE LoadEnd
  <2>1. Top.op \in {"open", "duplicate"} /\ Top.pc = "loaded" /\ Loading(Top)
    BY <1>1, <1>10
    DEF LoadEnd, At, AtOneOf, ValidFrame, PcsOf, SavePcs, LatePcs, ClosePcs, Ops, Guarded, Loading
  <2>2. SessionOperation = "TAKEN" /\ ~Quitting
    BY <1>1, <2>1, OperationOf DEF SessionInv, Guarded, Quitting
  <2>3. session_path = Top.target /\ session_path \in Sessions \ LockedByOther
    BY <1>1, <2>1, <2>2, TargetFacts, <1>10
    DEF SessionInv, HolderInv, OthersKeepTheirSessions, LoadEnd
  <2>4. UNCHANGED <<session_path, session_name, file>> /\ locks' = locks \cup {<<session_path, session_path>>}
    BY <1>10, <2>3 DEF LoadEnd
  <2>5. OwnLocks' = {session_path}
    BY <2>3, <2>4, AddedLock, OpenLock
  <2> QED
    BY <1>1, <1>2, <2>2, <2>4, <2>5 DEF Promise!Opened, SessionsOnDisk
<1> QED
  BY <1>3, <1>5, <1>6, <1>8, <1>9, <1>10

\* Reading the session file takes the session.
LEMMA LoadBeginSession ==
    ASSUME SessionInv, SessionInv', LoadBegin
    PROVE  \E s \in Sessions : Promise!Take(s)
<1>1. /\ SessionOperation' = "TAKEN" /\ UNCHANGED <<Leaving, exited>>
      /\ SessionOperation \in {"OPEN", "DUPLICATE"} /\ ~exited
  BY TakenOperation DEF SessionInv
<1>2. /\ session_path' = Top.target /\ file[Top.target] # Absent /\ UNCHANGED file
      /\ OwnLocks' = {} /\ Top.target \in Sessions
  BY DroppedLocks, TargetFacts DEF LoadBegin, SessionInv
<1>3. Top.target \notin LockedByOther
  BY <1>2 DEF SessionInv, OthersKeepTheirSessions
<1> QED
  BY <1>1, <1>2, <1>3 DEF Promise!Take, Promise!During, Promise!SameRest, SessionsOnDisk

\* The daemon's clean exit ends the session.
LEMMA CleanExitSession ==
    ASSUME SessionInv, CleanExit
    PROVE  Promise!End
<1>1. /\ stack # <<>> /\ ~exited /\ 1 \in DOMAIN stack /\ Top = stack[1]
      /\ Top.op = "quit" /\ Top.pc = "closed"
  BY TopFacts DEF CleanExit, At, AtOneOf, SessionInv, ControlInv
<1>2. session_path = None /\ Leaving /\ Leaving'
  BY <1>1 DEF SessionInv, ExistInv, Leaving, CleanExit
<1>3. exited' = TRUE /\ SessionOperation' = "NONE" /\ UNCHANGED <<session_path, file, locks>>
  BY DEF CleanExit, SessionOperation
<1> QED
  BY <1>1, <1>2, <1>3, NoOwnLocks
  DEF Promise!End, Promise!Over, Promise!SameSession, SessionsOnDisk, OwnLocks

\* A request that begins an operation starts it, or stutters.
LEMMA BeginSession ==
    ASSUME SessionInv, NEW op \in {"save", "open", "new", "duplicate", "close", "abort"},
           NEW target \in Sessions \cup {None}, NEW pc \in {"save", "load", "create", "close"},
           Begin(op, target, pc), op \in {"duplicate", "close", "abort"} => session_path # None
    PROVE  Stutters \/ \E o \in Promise!Operations : Promise!Start(o)
<1>1. /\ ~exited /\ UNCHANGED exited /\ pending_operation = "NONE" /\ Push(op, target, pc)
      /\ UNCHANGED <<session_path, file, locks>>
      /\ pending_operation' = IF op \in Guarded THEN Operation(op) ELSE pending_operation
  BY DEF Begin, Listening, SameFiles
<1>2. op \in Ops /\ op # "quit" /\ pc \in Pcs /\ pc \notin LatePcs
  BY DEF Ops, Guarded, Pcs, RunPcs, LatePcs
<1>3. /\ Leaving' <=> Leaving
      /\ SessionOperation = "NONE" /\ SessionOperation' = pending_operation'
  BY <1>1, <1>2, StartedOperation DEF SessionInv
<1>4. Leaving' = Leaving
  BY <1>3 DEF Leaving
<1>5. CASE op = "save"
  <2>1. UNCHANGED <<SessionOperation, Leaving, exited>>
    BY <1>1, <1>3, <1>4, <1>5 DEF Guarded
  <2> QED
    BY <1>1, <2>1, Stuttering
<1>6. CASE op # "save"
  <2>1. /\ SessionOperation' = Operation(op) /\ op \in Guarded
        /\ Operation(op) \in Promise!Operations \ {"NONE", "TAKEN"}
        /\ Operation(op) \in {"DUPLICATE", "CLOSE"} => session_path # None
    BY <1>1, <1>3, <1>6 DEF Guarded, Operation, Promise!Operations
  <2>2. Promise!Start(Operation(op))
    BY <1>1, <1>3, <1>4, <2>1
    DEF Promise!Start, Promise!During, Promise!SameSession, Promise!SameRest, SessionsOnDisk,
        OwnLocks
  <2> QED
    BY <2>1, <2>2
<1> QED
  BY <1>5, <1>6

\* Quit is the promise's quit.
LEMMA QuitSession ==
    ASSUME SessionInv, Quit
    PROVE  Promise!Quit
<1>1. /\ ~exited /\ UNCHANGED exited /\ UNCHANGED pending_operation /\ Push("quit", None, "close")
      /\ UNCHANGED <<session_path, file, locks>>
  BY DEF Quit, SameFiles
<1>2. "quit" \in Ops /\ "close" \in Pcs /\ "close" \notin LatePcs
  BY DEF Ops, Pcs, RunPcs, LatePcs
<1>3. Leaving' /\ UNCHANGED SessionOperation
  BY <1>1, <1>2, StartedOperation DEF SessionInv
<1>4. Leaving' = TRUE
  BY <1>3 DEF Leaving
<1> QED
  BY <1>1, <1>3, <1>4 DEF Promise!Quit, Promise!SameSession, SessionsOnDisk, OwnLocks

\* Every request starts an operation, quits, or stutters.
LEMMA RequestSession ==
    ASSUME SessionInv, Request
    PROVE  \/ Stutters \/ Promise!Quit
           \/ \E o \in Promise!Operations : Promise!Start(o)
<1>1. CASE \/ \E prog \in Progs : Add(prog)
           \/ \E i \in DOMAIN client : Stop(i) \/ Remove_(i) \/ Resume(i) \/ ClientSave(i)
  <2>1. UNCHANGED <<session_path, file, locks>>
    BY <1>1 DEF Add, Stop, Remove_, Resume, ClientSave, SameFiles
  <2> QED
    BY <1>1, <2>1, UntouchedActions, UntouchedOperation, Stuttering
<1>2. CASE Save
  BY <1>2, BeginSession DEF Save
<1>3. CASE Close
  BY <1>3, BeginSession DEF Close
<1>4. CASE Abort
  BY <1>4, BeginSession DEF Abort
<1>5. CASE \E s \in Sessions : Open(s)
  BY <1>5, BeginSession DEF Open
<1>6. CASE \E s \in Sessions : New(s)
  BY <1>6, BeginSession DEF New
<1>7. CASE \E s \in Sessions : Duplicate(s)
  BY <1>7, BeginSession DEF Duplicate
<1>8. CASE Quit
  BY <1>8, QuitSession
<1> QED
  BY <1>1, <1>2, <1>3, <1>4, <1>5, <1>6, <1>7, <1>8 DEF Request

\* Every step is a step of the promise or a stutter.
LEMMA SessionStep ==
    ASSUME SessionInv, SessionInv', [Next]_vars
    PROVE  [Promise!Next]_(Promise!vars)
<1>1. CASE Request
  BY <1>1, RequestSession DEF Promise!Next, Stutters
<1>2. CASE Environment \/ Idle \/ UNCHANGED vars
  <2>1. UNCHANGED <<session_path, file, locks>> /\ Untouched
    BY <1>2, UntouchedActions
    DEF Idle, Environment, Announce, AnnounceRefused, Answer, Exit, Reap, PurgeDead,
       SameSession, SameFiles, vars
  <2> QED
    BY <2>1, UntouchedOperation, Stuttering, SMTT(40) DEF Stutters
<1>3. CASE PurgeStep \/ ClearStep \/ SwitchClient \/ LaunchClient
  <2>1. UNCHANGED <<session_path, file, locks>> /\ Untouched
    BY <1>3, UntouchedActions
    DEF PurgeStep, ClearStep, SwitchClient, LaunchClient, SameSession, SameFiles
  <2> QED
    BY <2>1, UntouchedOperation, Stuttering DEF Stutters
<1>4. CASE \/ RepliesDone \/ RepliesTimeout \/ CloseBegin \/ KilledDone \/ KilledTimeout
           \/ PurgeEnd \/ SwitchEnd \/ AnnounceEnd
  <2>1. UNCHANGED <<session_path, file, locks>>
    BY <1>4
    DEF RepliesDone, RepliesTimeout, CloseBegin, KilledDone, KilledTimeout, PurgeEnd,
       SwitchEnd, AnnounceEnd, SameSession, SameFiles
  <2>2. Continues /\ Moves
    BY <1>4, ContinuingActions DEF Moves, SessionInv
  <2>3. ~LoadBegin
    BY <1>4 DEF LoadBegin, RepliesDone, RepliesTimeout, CloseBegin, KilledDone,
       KilledTimeout, PurgeEnd, SwitchEnd, AnnounceEnd, At, AtOneOf
  <2> QED
    BY <2>1, <2>2, <2>3, ContinuedOperation, Stuttering DEF SessionInv, Stutters
<1>5. CASE CommandSave
  BY <1>5, CommandSaveSession DEF Stutters
<1>6. CASE AfterSave
  BY <1>6, AfterSaveSession DEF Promise!Next, Stutters
<1>7. CASE ClearEnd
  BY <1>7, ClearEndSession DEF Promise!Next
<1>8. CASE Closed \/ CreateFails \/ CreateSession \/ LoadNoFile \/ LoadRefused \/ LoadEnd
  BY <1>8, EndSession DEF Promise!Next
<1>9. CASE LoadBegin
  BY <1>9, LoadBeginSession DEF Promise!Next
<1>10. CASE CleanExit
  BY <1>10, CleanExitSession DEF Promise!Next
<1> QED
  BY <1>1, <1>2, <1>3, <1>4, <1>5, <1>6, <1>7, <1>8, <1>9, <1>10 DEF Next, Daemon

\* A daemon started without a session to load starts where the promise does.
LEMMA SessionInit ==
    ASSUME Init, LoadAtStart = None
    PROVE  SessionInv /\ Promise!Init
<1>1. /\ stack = <<>> /\ ~exited /\ exited = FALSE /\ pending_operation = "NONE" /\ session_path = None
      /\ session_name = None /\ file = InitFiles /\ locks = {<<s, s>> : s \in LockedByOther}
  BY DEF Init
<1>2. SessionInv
  BY <1>1, InitialState, ConstantsAssumption
  DEF SessionInv, HolderInv, ExistInv, LockOnlyForOpenSession, OthersKeepTheirSessions
<1>3. OwnLocks = {}
  BY <1>1, <1>2, NoOwnLocks
<1>4. SessionOperation = "NONE" /\ Leaving = FALSE
  BY <1>1 DEF SessionOperation, Leaving
<1>5. LockedByOther \subseteq SessionsOnDisk /\ SessionsOnDisk \in SUBSET Sessions
  BY <1>1, ConstantsAssumption DEF SessionsOnDisk
<1> QED
  BY <1>1, <1>2, <1>3, <1>4, <1>5 DEF Promise!Init

----------------------------------------------------------------------------
(* Theorem                                                                 *)

\* Unless a session is loaded from the command line, every behaviour of nsmd and
\* its clients, with its waits, nested handlers, failures and time-outs, is one
\* of Session: all a user or another nsmd can see of sessions, their lock files
\* and the operation in progress is what Session allows.
THEOREM PromiseIsKept ==
    ASSUME LoadAtStart = None
    PROVE  Spec => KeepsItsPromise
<1>1. Init => SessionInv /\ Promise!Init
  BY SessionInit
<1>2. SessionInv /\ [Next]_vars => SessionInv'
  BY SessionInvStep
<1>3. SessionInv /\ SessionInv' /\ [Next]_vars => [Promise!Next]_(Promise!vars)
  BY SessionStep
<1> QED
  BY <1>1, <1>2, <1>3, PTL DEF Spec, KeepsItsPromise, Promise!Spec
=============================================================================
