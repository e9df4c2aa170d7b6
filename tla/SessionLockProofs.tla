-------------------------- MODULE SessionLockProofs --------------------------
(***************************************************************************)
(* What the lock files of several daemons guarantee, proved for any number *)
(* of daemons and sessions and any names and hashes.                       *)
(***************************************************************************)
EXTENDS SessionLock, TLAPS

----------------------------------------------------------------------------
(* Types                                                                   *)

USE DEF Waits, Between, Phases, Ops, Slips, disk

\* A session's lock file name is the name of a lock file.
LEMMA LockOfType == \A s \in Sessions : LockOf(s) \in LockFiles
BY DEF LockOf, LockFile, LockFiles, Names

\* Writing one's lock file leaves a table of lock files.
LEMMA LockedType ==
    ASSUME TypeOK, NEW d \in Daemons, NEW s \in Sessions
    PROVE  Locked(d, s) \in [LockFiles -> [session : Sessions, daemon : Daemons] \cup {None}]
BY DEF TypeOK, Locked

\* So does deleting one.
LEMMA UnlockedType ==
    ASSUME TypeOK, NEW d \in Daemons
    PROVE  Unlocked(d) \in [LockFiles -> [session : Sessions, daemon : Daemons] \cup {None}]
BY DEF TypeOK, Unlocked

\* Which phases go with a session, with none, and with a target.
PhaseInv ==
    \A d \in Daemons :
        /\ phase[d] \in {"loading", "name", "lock", "nsm"} =>
              session_path[d] = target[d] /\ target[d] \in Sessions
        /\ phase[d] \in {"loading", "lock"} => session_name[d] = NameOf[target[d]]
        /\ phase[d] \in {"save", "close", "abandon", "unlinked"} =>
              session_path[d] # None
        /\ phase[d] \in {"gone", "mkdir", "write"} => session_path[d] = None
        /\ phase[d] \in {"copy", "drop", "rename", "check", "mkdir", "write"} =>
              target[d] \in Sessions
        /\ phase[d] = "save" /\ op[d] \in {"open", "new", "duplicate"} =>
              target[d] \in Sessions
        /\ phase[d] \in {"close", "unlinked"} /\ op[d] = "new" => target[d] \in Sessions
        /\ phase[d] = "abandon" => op[d] = "quit"
        /\ phase[d] = "rename" => target[d] \in saved
        /\ phase[d] = "check" =>
              session_name[d] = NameOf[target[d]] /\ target[d] \in saved

Typed == TypeOK /\ PhaseInv

\* The initial states are typed.
LEMMA InitTyped == Init => Typed
BY SessionLockAssumption DEF Init, Typed, TypeOK, PhaseInv, LockFiles

\* A request to a daemon keeps the types.
LEMMA RequestTyped ==
    ASSUME Typed, NEW d \in Daemons, Request(d) PROVE Typed'
<1>1. CASE \E s \in Sessions : Open(d, s)
  BY <1>1, SessionLockAssumption DEF Open, Begin, Goto, SameNames, Typed, TypeOK, PhaseInv
<1>2. CASE \E s \in Sessions : New(d, s)
  BY <1>2, SessionLockAssumption DEF New, Begin, Goto, SameNames, Typed, TypeOK, PhaseInv
<1>3. CASE \E s \in Sessions : Duplicate(d, s)
  BY <1>3, SessionLockAssumption DEF Duplicate, Begin, Goto, SameNames, Typed, TypeOK, PhaseInv
<1>4. CASE Close(d)
  BY <1>4, SessionLockAssumption DEF Close, Begin, Goto, SameNames, Typed, TypeOK, PhaseInv
<1>5. CASE Quit(d)
  <2>1. TypeOK'
    BY <1>5 DEF Quit, Goto, Typed, TypeOK, InWindow
  <2>2. /\ phase[d] # "gone"
        /\ UNCHANGED <<session_path, session_name, target, saved>>
        /\ op' = [op EXCEPT ![d] = "quit"]
    BY <1>5 DEF Quit
  <2>3. CASE session_path[d] = None
    <3>1. ~InWindow(d)
      BY <2>3, SessionLockAssumption DEF Typed, PhaseInv, InWindow
    <3>2. phase' = [phase EXCEPT ![d] = "gone"]
      BY <1>5, <2>3, <3>1 DEF Quit, Goto
    <3>3. PhaseInv'
      BY <2>2, <2>3, <3>2 DEF Typed, TypeOK, PhaseInv
    <3>4. QED BY <2>1, <3>3 DEF Typed
  <2>4. CASE session_path[d] # None /\ InWindow(d)
    <3>1. phase' = [phase EXCEPT ![d] = "abandon"]
      BY <1>5, <2>4 DEF Quit, Goto
    <3>2. PhaseInv'
      BY <2>2, <2>4, <3>1 DEF Typed, TypeOK, PhaseInv
    <3>3. QED BY <2>1, <3>2 DEF Typed
  <2>5. CASE session_path[d] # None /\ ~InWindow(d)
    <3>1. phase' = [phase EXCEPT ![d] = "close"]
      BY <1>5, <2>5 DEF Quit, Goto
    <3>2. PhaseInv'
      BY <2>2, <2>5, <3>1 DEF Typed, TypeOK, PhaseInv
    <3>3. QED BY <2>1, <3>2 DEF Typed
  <2>6. QED BY <2>3, <2>4, <2>5
<1>6. QED BY <1>1, <1>2, <1>3, <1>4, <1>5 DEF Request

\* So does a daemon's own step.
LEMMA StepTyped ==
    ASSUME Typed, NEW d \in Daemons, Step(d) PROVE Typed'
<1>1. CASE SaveDone(d)
  BY <1>1, SessionLockAssumption DEF SaveDone, Goto, SameNames, Typed, TypeOK, PhaseInv
<1>2. CASE Copy(d)
  BY <1>2, SessionLockAssumption DEF Copy, Goto, SameNames, Typed, TypeOK, PhaseInv
<1>3. CASE CloseEnd(d)
  <2>1. TypeOK'
    BY <1>3 DEF CloseEnd, Goto, Typed, TypeOK
  <2>2. PhaseInv'
    BY <1>3 DEF CloseEnd, Goto, Typed, TypeOK, PhaseInv
  <2>3. QED BY <2>1, <2>2 DEF Typed
<1>4. CASE DropLock(d)
  <2>1. TypeOK'
    <3>1. lock' \in [LockFiles -> [session : Sessions, daemon : Daemons] \cup {None}]
      BY <1>4, UnlockedType DEF DropLock, Typed, TypeOK
    <3>2. QED
      BY <1>4, <3>1 DEF DropLock, Goto, SameNames, Typed, TypeOK
  <2>2. PhaseInv'
    BY <1>4 DEF DropLock, Goto, SameNames, Typed, TypeOK, PhaseInv
  <2>3. QED BY <2>1, <2>2 DEF Typed
<1>5. CASE Refused(d)
  BY <1>5, SessionLockAssumption DEF Refused, Goto, SameNames, Typed, TypeOK, PhaseInv
<1>6. CASE Take(d)
  BY <1>6, SessionLockAssumption DEF Take, Goto, Typed, TypeOK, PhaseInv
<1>7. CASE LoadEnd(d)
  <2>1. target[d] \in Sessions
    BY <1>7 DEF LoadEnd, Typed, PhaseInv
  <2>2. TypeOK'
    BY <1>7, <2>1, LockedType DEF LoadEnd, Goto, SameNames, Typed, TypeOK
  <2>3. PhaseInv'
    BY <1>7 DEF LoadEnd, Goto, SameNames, Typed, TypeOK, PhaseInv
  <2>4. QED BY <2>2, <2>3 DEF Typed
<1>8. CASE Mkdir(d)
  BY <1>8, SessionLockAssumption DEF Mkdir, Goto, SameNames, Typed, TypeOK, PhaseInv
<1>9. CASE WriteLock(d)
  <2>1. target[d] \in Sessions
    BY <1>9 DEF WriteLock, Typed, PhaseInv
  <2>2. TypeOK'
    BY <1>9, <2>1, LockedType DEF WriteLock, Goto, SameNames, Typed, TypeOK
  <2>3. PhaseInv'
    BY <1>9 DEF WriteLock, Goto, SameNames, Typed, TypeOK, PhaseInv
  <2>4. QED BY <2>2, <2>3 DEF Typed
<1>10. CASE WriteSession(d)
  BY <1>10, SessionLockAssumption DEF WriteSession, Goto, SameNames, Typed, TypeOK, PhaseInv
<1>11. CASE Unlink(d)
  <2>1. TypeOK'
    BY <1>11, UnlockedType DEF Unlink, Goto, SameNames, Typed, TypeOK
  <2>2. PhaseInv'
    BY <1>11 DEF Unlink, Goto, SameNames, Typed, TypeOK, PhaseInv
  <2>3. QED BY <2>1, <2>2 DEF Typed
<1>12. CASE Rename(d) \/ NameNew(d)
  <2>1. NameOf[target[d]] \in Names
    BY <1>12, SessionLockAssumption DEF Rename, NameNew, Typed, PhaseInv, Names
  <2>2. TypeOK'
    BY <1>12, <2>1 DEF Rename, NameNew, Goto, Typed, TypeOK
  <2>3. PhaseInv'
    BY <1>12 DEF Rename, NameNew, Goto, Typed, TypeOK, PhaseInv
  <2>4. QED BY <2>2, <2>3 DEF Typed
<1>13. CASE TakeNew(d)
  BY <1>13, SessionLockAssumption DEF TakeNew, Goto, Typed, TypeOK, PhaseInv
<1>14. QED
  BY <1>1, <1>2, <1>3, <1>4, <1>5, <1>6, <1>7, <1>8, <1>9, <1>10, <1>11, <1>12,
     <1>13
  DEF Step

\* So do crashes, restarts and reboots.
LEMMA FaultTyped ==
    ASSUME Typed,
           (\E d \in Daemons : Crash(d) \/ Start(d)) \/ Reboot
    PROVE  Typed'
<1>1. CASE \E d \in Daemons : Crash(d)
  BY <1>1 DEF Crash, Forget, Typed, TypeOK, PhaseInv
<1>2. CASE \E d \in Daemons : Start(d)
  BY <1>2, SessionLockAssumption DEF Start, Fresh, Goto, Typed, TypeOK, PhaseInv
<1>3. CASE Reboot
  BY <1>3 DEF Reboot, Forget, Typed, TypeOK, PhaseInv, LockFiles
<1>4. QED BY <1>1, <1>2, <1>3

\* Every step keeps the types.
LEMMA NextTyped == Typed /\ [Next]_vars => Typed'
<1>1. SUFFICES ASSUME Typed, [Next]_vars PROVE Typed'
  OBVIOUS
<1>2. CASE UNCHANGED vars
  BY <1>1, <1>2 DEF vars, Typed, TypeOK, PhaseInv
<1>3. CASE Next
  BY <1>1, <1>3, RequestTyped, StepTyped, FaultTyped DEF Next
<1>4. QED BY <1>1, <1>2, <1>3

\* The lock files, names and phases of any number of daemons have their types.
THEOREM TypeCorrect == Spec => []TypeOK
<1>1. Init => Typed
  BY InitTyped
<1>2. Typed /\ [Next]_vars => Typed'
  BY NextTyped
<1>3. Typed => TypeOK
  BY DEF Typed
<1>4. QED BY <1>1, <1>2, <1>3, PTL DEF Spec

----------------------------------------------------------------------------
(* Mutual exclusion                                                        *)

\* Until something slips past the lock files: a daemon that works on a session
\* has its right name; it has its lock file, and then alone, unless it is
\* still in the window before the write; and then nobody has that lock file and
\* nobody else is in the window for it.
NamesAgree(d) == Works(d) => session_name[d] = NameOf[session_path[d]]
LockHeld(d) ==
    Works(d) /\ ~InWindow(d) =>
        lock[LockOf(session_path[d])] = [session |-> session_path[d], daemon |-> d]
WindowClear(d) ==
    InWindow(d) =>
        /\ lock[LockOf(session_path[d])] = None
        /\ \A e \in Daemons \ {d} : ~WindowOn(e, session_path[d])

LockInv ==
    slips = {} => \A d \in Daemons : NamesAgree(d) /\ LockHeld(d) /\ WindowClear(d)

\* A working daemon has a session, so a lock file.
LEMMA WorksType ==
    ASSUME Typed, NEW d \in Daemons, Works(d)
    PROVE  session_path[d] \in Sessions /\ LockOf(session_path[d]) \in LockFiles
BY LockOfType DEF Typed, TypeOK, Works

\* A daemon in the window has a session.
LEMMA WindowType ==
    ASSUME Typed, NEW d \in Daemons, InWindow(d)
    PROVE  Works(d)
BY SessionLockAssumption DEF Typed, PhaseInv, InWindow, Works

\* Nobody works at first.
LEMMA InitLock == Init => LockInv
BY DEF Init, LockInv, NamesAgree, LockHeld, WindowClear, Works, InWindow

\* Steps that leave names, lock files and slips as they are keep the
\* invariant if they do not move the daemon into the window or out of it, or to
\* work from between two sessions.
LEMMA QuietStep ==
    ASSUME LockInv, slips = {},
           UNCHANGED <<session_path, session_name, lock, slips>>,
           \A d \in Daemons : /\ InWindow(d)' <=> InWindow(d)
                              /\ Works(d)' => Works(d)
    PROVE  LockInv'
BY DEF LockInv, NamesAgree, LockHeld, WindowClear, WindowOn, LockOf, LockFile

\* Neither does a daemon matter that has no session, or stands between two.
LEMMA AsideStep ==
    ASSUME LockInv, slips = {}, lock' = lock, NEW d \in Daemons,
           ~InWindow(d), ~Works(d)', ~InWindow(d)',
           \A e \in Daemons \ {d} :
               /\ session_path'[e] = session_path[e]
               /\ session_name'[e] = session_name[e]
               /\ phase'[e] = phase[e]
    PROVE  LockInv'
<1>1. (NamesAgree(d) /\ LockHeld(d) /\ WindowClear(d))'
  BY DEF NamesAgree, LockHeld, WindowClear
<1>2. ASSUME NEW e \in Daemons \ {d}
      PROVE  (NamesAgree(e) /\ LockHeld(e) /\ WindowClear(e))'
  BY <1>2 DEF LockInv, NamesAgree, LockHeld, WindowClear, WindowOn, Works, InWindow,
              LockOf, LockFile
<1>3. QED BY <1>1, <1>2 DEF LockInv

\* The own lock file goes and nobody else's: the daemon then stands between two
\* sessions.
LEMMA UnlockStep ==
    ASSUME Typed, LockInv, slips = {}, slips' = {}, NEW d \in Daemons,
           Works(d),
           lock' = Unlocked(d),
           ~Works(d)', ~InWindow(d)',
           \A e \in Daemons \ {d} :
               /\ session_path'[e] = session_path[e]
               /\ session_name'[e] = session_name[e]
               /\ phase'[e] = phase[e]
    PROVE  LockInv'
<1> DEFINE l == LockOf(session_path[d])
<1>1. session_name[d] = NameOf[session_path[d]]
  BY DEF LockInv, NamesAgree
<1>2. lock' = [lock EXCEPT ![l] = None]
  <2>1. session_name[d] # None
    BY <1>1, WorksType, SessionLockAssumption DEF Names
  <2>2. QED BY <1>1, <2>1 DEF Unlocked, LockOf
<1>3. lock[l] \in {None, [session |-> session_path[d], daemon |-> d]}
  <2>1. CASE InWindow(d)
    BY <2>1 DEF LockInv, WindowClear
  <2>2. CASE ~InWindow(d)
    BY <2>2 DEF LockInv, LockHeld
  <2>3. QED BY <2>1, <2>2
<1>4. ASSUME NEW e \in Daemons \ {d} PROVE (NamesAgree(e) /\ LockHeld(e) /\ WindowClear(e))'
  <2>1. NamesAgree(e) /\ LockHeld(e) /\ WindowClear(e)
    BY DEF LockInv
  <2>2. /\ session_path'[e] = session_path[e] /\ session_name'[e] = session_name[e]
        /\ phase'[e] = phase[e]
    OBVIOUS
  <2>3. NamesAgree(e)'
    BY <2>1, <2>2 DEF NamesAgree, Works
  <2>4. LockHeld(e)'
    <3>1. SUFFICES ASSUME Works(e), ~InWindow(e)
                   PROVE  lock'[LockOf(session_path[e])] =
                            [session |-> session_path[e], daemon |-> e]
      BY <2>2 DEF LockHeld, Works, InWindow, LockOf, LockFile
    <3>2. lock[LockOf(session_path[e])] = [session |-> session_path[e], daemon |-> e]
      BY <2>1, <3>1 DEF LockHeld
    <3>3. LockOf(session_path[e]) # l
      <4>1. [session |-> session_path[e], daemon |-> e] # None
        BY <3>1, WorksType, SessionLockAssumption
      <4>2. [session |-> session_path[e], daemon |-> e]
                # [session |-> session_path[d], daemon |-> d]
        OBVIOUS
      <4>3. QED BY <3>2, <4>1, <4>2, <1>3
    <3>4. QED BY <3>2, <3>3, <1>2, <3>1, WorksType DEF Typed, TypeOK
  <2>5. WindowClear(e)'
    <3>1. SUFFICES ASSUME InWindow(e)
                   PROVE  /\ lock'[LockOf(session_path[e])] = None
                          /\ \A f \in Daemons \ {e} : ~WindowOn(f, session_path[e])'
      BY <2>2 DEF WindowClear, InWindow, WindowOn, LockOf, LockFile
    <3>2. lock'[LockOf(session_path[e])] = None
      <4>1. lock[LockOf(session_path[e])] = None
        BY <2>1, <3>1 DEF WindowClear
      <4>2. LockOf(session_path[e]) \in LockFiles /\ l \in LockFiles
        BY <3>1, WindowType, WorksType
      <4>3. QED BY <4>1, <4>2, <1>2 DEF Typed, TypeOK
    <3>3. ASSUME NEW f \in Daemons \ {e} PROVE ~WindowOn(f, session_path[e])'
      <4>1. CASE f = d
        BY <4>1 DEF WindowOn, InWindow
      <4>2. CASE f # d
        <5>1. ~WindowOn(f, session_path[e])
          BY <2>1, <3>1 DEF WindowClear
        <5>2. phase'[f] = phase[f] /\ session_path'[f] = session_path[f]
          BY <4>2
        <5>3. QED BY <5>1, <5>2, <2>2 DEF WindowOn, InWindow, LockOf, LockFile
      <4>3. QED BY <4>1, <4>2
    <3>4. QED BY <3>2, <3>3
  <2>6. QED BY <2>3, <2>4, <2>5
<1>5. (NamesAgree(d) /\ LockHeld(d) /\ WindowClear(d))'
  BY DEF NamesAgree, LockHeld, WindowClear
<1>6. QED BY <1>4, <1>5 DEF LockInv

\* A daemon writes a lock file that nobody has, for a session it takes or is
\* loading, while nobody else is in the window for it.
LEMMA WriteStep ==
    ASSUME Typed, LockInv, slips = {}, slips' = {},
           NEW d \in Daemons, NEW s \in Sessions,
           lock[LockOf(s)] = None,
           \A e \in Daemons \ {d} : ~WindowOn(e, s),
           lock' = Locked(d, s),
           session_path'[d] = s, session_name'[d] = NameOf[s],
           ~InWindow(d)',
           \A e \in Daemons \ {d} :
               /\ session_path'[e] = session_path[e]
               /\ session_name'[e] = session_name[e]
               /\ phase'[e] = phase[e]
    PROVE  LockInv'
<1> DEFINE l == LockOf(s)
<1>1. l \in LockFiles
  BY LockOfType
<1>2. lock' = [lock EXCEPT ![l] = [session |-> s, daemon |-> d]]
  BY DEF Locked
<1>3. lock'[l] = [session |-> s, daemon |-> d]
  BY <1>1, <1>2 DEF Typed, TypeOK
<1>4. (NamesAgree(d) /\ LockHeld(d) /\ WindowClear(d))'
  BY <1>3 DEF NamesAgree, LockHeld, WindowClear, LockOf, LockFile
<1>5. ASSUME NEW e \in Daemons \ {d} PROVE (NamesAgree(e) /\ LockHeld(e) /\ WindowClear(e))'
  <2>1. NamesAgree(e) /\ LockHeld(e) /\ WindowClear(e)
    BY DEF LockInv
  <2>2. /\ session_path'[e] = session_path[e] /\ session_name'[e] = session_name[e]
        /\ phase'[e] = phase[e]
    OBVIOUS
  <2>3. NamesAgree(e)'
    BY <2>1, <2>2 DEF NamesAgree, Works
  <2>4. LockHeld(e)'
    <3>1. SUFFICES ASSUME Works(e), ~InWindow(e)
                   PROVE  lock'[LockOf(session_path[e])] =
                            [session |-> session_path[e], daemon |-> e]
      BY <2>2 DEF LockHeld, Works, InWindow, LockOf, LockFile
    <3>2. lock[LockOf(session_path[e])] = [session |-> session_path[e], daemon |-> e]
      BY <2>1, <3>1 DEF LockHeld
    <3>3. [session |-> session_path[e], daemon |-> e] # None
      BY <3>1, WorksType, SessionLockAssumption
    <3>4. LockOf(session_path[e]) # l
      BY <3>2, <3>3
    <3>5. QED BY <3>2, <3>4, <1>2, <3>1, WorksType DEF Typed, TypeOK
  <2>5. WindowClear(e)'
    <3>1. SUFFICES ASSUME InWindow(e)
                   PROVE  /\ lock'[LockOf(session_path[e])] = None
                          /\ \A f \in Daemons \ {e} : ~WindowOn(f, session_path[e])'
      BY <2>2 DEF WindowClear, InWindow, WindowOn, LockOf, LockFile
    <3>2. lock'[LockOf(session_path[e])] = None
      <4>1. lock[LockOf(session_path[e])] = None
        BY <2>1, <3>1 DEF WindowClear
      <4>2. LockOf(session_path[e]) \in LockFiles
        BY <3>1, WindowType, WorksType
      <4>3. LockOf(session_path[e]) # l
        BY <3>1 DEF WindowOn
      <4>4. QED BY <4>1, <4>2, <4>3, <1>2 DEF Typed, TypeOK
    <3>3. ASSUME NEW f \in Daemons \ {e} PROVE ~WindowOn(f, session_path[e])'
      <4>1. CASE f = d
        BY <4>1 DEF WindowOn, InWindow
      <4>2. CASE f # d
        <5>1. ~WindowOn(f, session_path[e])
          BY <2>1, <3>1 DEF WindowClear
        <5>2. phase'[f] = phase[f] /\ session_path'[f] = session_path[f]
          BY <4>2
        <5>3. QED BY <5>1, <5>2, <2>2 DEF WindowOn, InWindow, LockOf, LockFile
      <4>3. QED BY <4>1, <4>2
    <3>4. QED BY <3>2, <3>3
  <2>6. QED BY <2>3, <2>4, <2>5
<1>6. QED BY <1>4, <1>5 DEF LockInv

\* A daemon's own step keeps the invariant.
LEMMA StepLock ==
    ASSUME Typed, Typed', LockInv, NEW d \in Daemons, Step(d) PROVE LockInv'
<1>1. SUFFICES ASSUME slips' = {} PROVE LockInv'
  BY DEF LockInv
<1>2. slips = {}
  BY <1>1 DEF Step, SaveDone, Copy, Unlink, CloseEnd, DropLock, Rename, Refused,
              Take, LoadEnd, Mkdir, TakeNew, NameNew, WriteLock, WriteSession
<1>3. CASE SaveDone(d)
  BY <1>2, <1>3, QuietStep DEF SaveDone, Goto, SameNames, InWindow, Works, Typed, TypeOK
<1>4. CASE Copy(d)
  BY <1>2, <1>4, QuietStep DEF Copy, Goto, SameNames, InWindow, Works, Typed, TypeOK
<1>5. CASE Unlink(d)
  <2>1. Works(d)
    BY <1>5 DEF Unlink, Works, Typed, PhaseInv
  <2>2. /\ lock' = Unlocked(d) /\ ~Works(d)' /\ ~InWindow(d)'
        /\ \A e \in Daemons \ {d} : /\ session_path'[e] = session_path[e]
                                    /\ session_name'[e] = session_name[e]
                                    /\ phase'[e] = phase[e]
    BY <1>5 DEF Unlink, Works, InWindow, Goto, SameNames, Typed, TypeOK
  <2>3. QED BY <1>1, <1>2, <2>1, <2>2, UnlockStep
<1>6. CASE DropLock(d)
  <2>1. /\ ~InWindow(d) /\ ~InWindow(d)' /\ session_path' = session_path
        /\ \A e \in Daemons \ {d} : /\ session_path'[e] = session_path[e]
                                    /\ session_name'[e] = session_name[e]
                                    /\ phase'[e] = phase[e]
    BY <1>6 DEF DropLock, Goto, SameNames, InWindow, Typed, TypeOK
  <2>2. CASE target[d] \notin saved
    BY <1>2, <1>6, <2>2, QuietStep
    DEF DropLock, Goto, SameNames, InWindow, Works, Typed, TypeOK
  <2>3. CASE target[d] \in saved
    <3>1. ~Works(d)'
      BY <1>6, <2>3 DEF DropLock, Goto, Works, Typed, TypeOK
    <3>2. CASE session_path[d] # None
      <4>1. Works(d) /\ lock' = Unlocked(d)
        BY <1>6, <2>3, <3>2 DEF DropLock, Works
      <4>2. QED BY <1>1, <1>2, <2>1, <3>1, <4>1, UnlockStep
    <3>3. CASE session_path[d] = None
      <4>1. lock' = lock
        BY <1>6, <2>3, <3>3 DEF DropLock
      <4>2. QED BY <1>2, <2>1, <3>1, <4>1, AsideStep
    <3>4. QED BY <3>2, <3>3
  <2>4. QED BY <2>2, <2>3
<1>7. CASE Refused(d)
  <2>1. session_path[d] = None
    BY <1>1, <1>7 DEF Refused
  <2>2. QED
    BY <1>2, <1>7, <2>1, QuietStep DEF Refused, Goto, SameNames, InWindow, Works, Typed, TypeOK
<1>8. CASE Take(d)
  <2>1. /\ lock[LockOf(target[d])] = None /\ lock' = lock
        /\ \A e \in Daemons \ {d} : ~WindowOn(e, target[d])
    BY <1>1, <1>8 DEF Take
  <2>2. /\ session_path'[d] = target[d] /\ session_name'[d] = NameOf[target[d]]
        /\ InWindow(d)'
        /\ \A e \in Daemons \ {d} : /\ session_path'[e] = session_path[e]
                                    /\ session_name'[e] = session_name[e]
                                    /\ phase'[e] = phase[e]
    BY <1>8 DEF Take, Goto, InWindow, Typed, TypeOK, PhaseInv
  <2>3. (NamesAgree(d) /\ LockHeld(d) /\ WindowClear(d))'
    BY <2>1, <2>2
    DEF NamesAgree, LockHeld, WindowClear, WindowOn, InWindow, LockOf, LockFile
  <2>4. ASSUME NEW e \in Daemons \ {d}
        PROVE  (NamesAgree(e) /\ LockHeld(e) /\ WindowClear(e))'
    <3>1. NamesAgree(e) /\ LockHeld(e) /\ WindowClear(e)
      BY <1>2 DEF LockInv
    <3>2. NamesAgree(e)' /\ LockHeld(e)'
      BY <2>1, <2>2, <3>1
      DEF NamesAgree, LockHeld, Works, InWindow, LockOf, LockFile
    <3>3. WindowClear(e)'
      BY <2>1, <2>2, <3>1 DEF WindowClear, WindowOn, InWindow, LockOf, LockFile
    <3>4. QED BY <3>2, <3>3
  <2>5. QED BY <2>3, <2>4 DEF LockInv
<1>9. CASE LoadEnd(d)
  <2>1. InWindow(d) /\ session_path[d] = target[d] /\ target[d] \in Sessions
    BY <1>9 DEF LoadEnd, InWindow, Typed, PhaseInv
  <2>2. /\ lock[LockOf(target[d])] = None
        /\ \A e \in Daemons \ {d} : ~WindowOn(e, target[d])
    BY <1>2, <2>1 DEF LockInv, WindowClear
  <2>3. session_name[d] = NameOf[target[d]]
    BY <1>2, <2>1, WindowType DEF LockInv, NamesAgree
  <2>4. /\ lock' = Locked(d, target[d]) /\ ~InWindow(d)'
        /\ session_path' = session_path /\ session_name' = session_name
        /\ \A e \in Daemons \ {d} : phase'[e] = phase[e]
    BY <1>9 DEF LoadEnd, Goto, SameNames, InWindow, Typed, TypeOK
  <2>5. QED BY <1>1, <1>2, <2>1, <2>2, <2>3, <2>4, WriteStep
<1>10. CASE Mkdir(d)
  BY <1>2, <1>10, QuietStep DEF Mkdir, Goto, SameNames, InWindow, Works, Typed, TypeOK
<1>11. CASE WriteLock(d)
  <2>1. /\ target[d] \in Sessions /\ session_path[d] = target[d]
        /\ session_name[d] = NameOf[target[d]]
    BY <1>11 DEF WriteLock, Typed, PhaseInv
  <2>2. /\ lock[LockOf(target[d])] = None
        /\ \A e \in Daemons : ~WindowOn(e, target[d])
    BY <1>1, <1>11 DEF WriteLock
  <2>3. /\ lock' = Locked(d, target[d]) /\ ~InWindow(d)'
        /\ session_path' = session_path /\ session_name' = session_name
        /\ \A e \in Daemons \ {d} : phase'[e] = phase[e]
    BY <1>11 DEF WriteLock, Goto, SameNames, InWindow, Typed, TypeOK
  <2>4. QED BY <1>1, <1>2, <2>1, <2>2, <2>3, WriteStep
<1>12. CASE WriteSession(d)
  BY <1>2, <1>12, QuietStep DEF WriteSession, Goto, SameNames, InWindow, Works, Typed, TypeOK
<1>13. CASE CloseEnd(d) \/ Rename(d) \/ TakeNew(d) \/ NameNew(d)
  <2>1. /\ lock' = lock /\ ~InWindow(d) /\ ~Works(d)' /\ ~InWindow(d)'
        /\ \A e \in Daemons \ {d} : /\ session_path'[e] = session_path[e]
                                    /\ session_name'[e] = session_name[e]
                                    /\ phase'[e] = phase[e]
    BY <1>13 DEF CloseEnd, Rename, TakeNew, NameNew, Goto, InWindow, Works,
                 Typed, TypeOK
  <2>2. QED BY <1>2, <2>1, AsideStep
<1>14. QED
  BY <1>3, <1>4, <1>5, <1>6, <1>7, <1>8, <1>9, <1>10, <1>11, <1>12, <1>13 DEF Step

\* So do requests: quit takes a daemon in the window to "abandon", which is one,
\* and one that stands between two sessions to a slip.
LEMMA RequestLock ==
    ASSUME Typed, LockInv, NEW d \in Daemons, Request(d) PROVE LockInv'
<1>1. SUFFICES ASSUME slips' = {} PROVE LockInv'
  BY DEF LockInv
<1>2. UNCHANGED <<session_path, session_name, lock, slips>>
  BY <1>1 DEF Request, Open, New, Duplicate, Close, Quit, Begin, SameNames
<1>3. CASE Quit(d)
  <2>1. CASE session_path[d] = None
    <3>1. ~InWindow(d)
      BY <2>1, WindowType DEF Works
    <3>2. phase' = [phase EXCEPT ![d] = "gone"]
      BY <1>3, <2>1, <3>1 DEF Quit, Goto
    <3>3. QED BY <1>1, <1>2, <2>1, <3>1, <3>2, QuietStep DEF InWindow, Works, Typed, TypeOK
  <2>2. CASE session_path[d] # None /\ InWindow(d)
    <3>1. phase' = [phase EXCEPT ![d] = "abandon"]
      BY <1>3, <2>2 DEF Quit, Goto
    <3>2. QED BY <1>1, <1>2, <2>2, <3>1, QuietStep DEF InWindow, Works, Typed, TypeOK
  <2>3. CASE session_path[d] # None /\ ~InWindow(d)
    <3>1. phase' = [phase EXCEPT ![d] = "close"]
      BY <1>3, <2>3 DEF Quit, Goto
    <3>2. phase[d] \notin Between
      BY <1>1, <1>3, <2>3 DEF Quit
    <3>3. QED
      BY <1>1, <1>2, <2>3, <3>1, <3>2, QuietStep DEF InWindow, Works, Typed, TypeOK
  <2>4. QED BY <2>1, <2>2, <2>3
<1>4. CASE ~Quit(d)
  <2>1. PICK p \in {"save", "drop", "mkdir"} :
            phase[d] = "idle" /\ phase' = [phase EXCEPT ![d] = p]
    BY <1>4 DEF Request, Open, New, Duplicate, Close, Begin, Goto
  <2>2. QED BY <1>1, <1>2, <2>1, QuietStep DEF InWindow, Works, Typed, TypeOK
<1>5. QED BY <1>3, <1>4

\* So do crashes, restarts and reboots.
LEMMA FaultLock ==
    ASSUME Typed, LockInv,
           (\E d \in Daemons : Crash(d) \/ Start(d)) \/ Reboot
    PROVE  LockInv'
<1>1. CASE \E d \in Daemons : Crash(d)
  <2>1. PICK d \in Daemons : Crash(d)
    BY <1>1
  <2>2. \A e \in Daemons :
          \/ ~Works(e)' /\ ~InWindow(e)'
          \/ /\ session_path'[e] = session_path[e]
             /\ session_name'[e] = session_name[e]
             /\ phase'[e] = phase[e]
    BY <2>1 DEF Crash, Forget, Works, InWindow
  <2>3. lock' = lock /\ slips' = slips
    BY <2>1 DEF Crash
  <2>4. QED
    BY <2>2, <2>3 DEF LockInv, NamesAgree, LockHeld, WindowClear, WindowOn,
                      InWindow, Works, LockOf, LockFile
<1>2. CASE \E d \in Daemons : Start(d)
  <2>1. PICK d \in Daemons : Start(d)
    BY <1>2
  <2>3. CASE slips = {}
    <3>1. /\ lock' = lock /\ ~InWindow(d) /\ ~Works(d)' /\ ~InWindow(d)'
          /\ \A e \in Daemons \ {d} : /\ session_path'[e] = session_path[e]
                                      /\ session_name'[e] = session_name[e]
                                      /\ phase'[e] = phase[e]
      BY <2>1 DEF Start, Fresh, Goto, InWindow, Works, Typed, TypeOK
    <3>2. QED BY <2>3, <3>1, AsideStep
  <2>4. CASE slips # {}
    BY <2>1, <2>4 DEF Start, LockInv
  <2>5. QED BY <2>3, <2>4
<1>3. CASE Reboot
  BY <1>3 DEF Reboot, Forget, LockInv, NamesAgree, LockHeld, WindowClear, InWindow, Works
<1>4. QED BY <1>1, <1>2, <1>3

\* Every step keeps the invariant.
LEMMA NextLock == Typed /\ Typed' /\ LockInv /\ [Next]_vars => LockInv'
<1>1. SUFFICES ASSUME Typed, Typed', LockInv, [Next]_vars PROVE LockInv'
  OBVIOUS
<1>2. CASE UNCHANGED vars
  BY <1>1, <1>2 DEF vars, LockInv, NamesAgree, LockHeld, WindowClear, WindowOn,
                    InWindow, Works, LockOf, LockFile
<1>3. CASE Next
  BY <1>1, <1>3, RequestLock, StepLock, FaultLock DEF Next
<1>4. QED BY <1>1, <1>2, <1>3

\* Two daemons with one session: each has its lock file or is in the window.
LEMMA LockExcludes == Typed /\ LockInv => Exclusive
<1>1. SUFFICES ASSUME Typed, LockInv, slips = {}, NEW d \in Daemons, NEW e \in Daemons,
                      Works(d), Works(e), session_path[d] = session_path[e], d # e
               PROVE  FALSE
  BY DEF Exclusive
<1>2. LockHeld(d) /\ LockHeld(e) /\ WindowClear(d) /\ WindowClear(e)
  BY <1>1 DEF LockInv
<1>3. \A f \in {d, e} : [session |-> session_path[f], daemon |-> f] # None
  BY <1>1, WorksType, SessionLockAssumption
<1>4. CASE InWindow(d)
  BY <1>1, <1>2, <1>3, <1>4 DEF WindowClear, LockHeld, WindowOn
<1>5. CASE InWindow(e)
  BY <1>1, <1>2, <1>3, <1>5 DEF WindowClear, LockHeld, WindowOn
<1>6. CASE ~InWindow(d) /\ ~InWindow(e)
  <2>1. [session |-> session_path[d], daemon |-> d] =
            [session |-> session_path[e], daemon |-> e]
    BY <1>1, <1>2, <1>6 DEF LockHeld
  <2>2. QED BY <1>1, <2>1
<1>7. QED BY <1>4, <1>5, <1>6

\* Mutual exclusion of daemons, but for refused opens, signals between two
\* sessions, races and collisions.
THEOREM DaemonsExclude == Spec => []Exclusive
<1>1. Init => Typed /\ LockInv
  BY InitTyped, InitLock
<1>2. Typed /\ LockInv /\ [Next]_vars => Typed' /\ LockInv'
  BY NextTyped, NextLock
<1>3. Typed /\ LockInv => Exclusive
  BY LockExcludes
<1>4. QED BY <1>1, <1>2, <1>3, PTL DEF Spec

\* A lock file goes or changes by a step of its writer or with the machine.
THEOREM LocksStayWithWriters == Spec => LockIsItsWriters
<1> DEFINE Kept == \A l \in LockFiles :
                      lock[l] # None /\ lock'[l] # lock[l] /\ slips' = {} =>
                        LET d == lock[l].daemon IN
                        \/ session_path[d] = lock[l].session /\ phase'[d] # phase[d]
                        \/ \A e \in Daemons : phase'[e] = "gone"
<1>1. ASSUME Typed, LockInv, [Next]_vars PROVE Kept
  <2>1. SUFFICES ASSUME NEW l \in LockFiles, lock[l] # None, lock'[l] # lock[l],
                        slips' = {}
                 PROVE  \/ /\ session_path[lock[l].daemon] = lock[l].session
                           /\ phase'[lock[l].daemon] # phase[lock[l].daemon]
                        \/ \A e \in Daemons : phase'[e] = "gone"
    OBVIOUS
  <2>2. CASE Reboot
    BY <2>2 DEF Reboot, Forget
  <2>3. CASE \E d \in Daemons : DropLock(d) \/ Unlink(d)
    <3>1. PICK d \in Daemons : DropLock(d) \/ Unlink(d)
      BY <2>3
    <3>2. lock' = Unlocked(d) /\ slips = {} /\ session_path[d] # None
      BY <1>1, <2>1, <3>1 DEF DropLock, Unlink, Typed, PhaseInv
    <3>3. Works(d)
      BY <3>1, <3>2 DEF DropLock, Unlink, Works
    <3>4. lock' = [lock EXCEPT ![LockOf(session_path[d])] = None]
      <4>1. session_name[d] = NameOf[session_path[d]]
        BY <1>1, <3>2, <3>3 DEF LockInv, NamesAgree
      <4>2. session_name[d] # None
        BY <1>1, <3>3, <4>1, WorksType, SessionLockAssumption DEF Names
      <4>3. QED BY <3>2, <4>1, <4>2 DEF Unlocked, LockOf
    <3>5. l = LockOf(session_path[d])
      BY <1>1, <2>1, <3>4 DEF Typed, TypeOK
    <3>6. ~InWindow(d)
      BY <1>1, <2>1, <3>2, <3>5 DEF LockInv, WindowClear
    <3>7. lock[l] = [session |-> session_path[d], daemon |-> d]
      BY <1>1, <3>2, <3>3, <3>5, <3>6 DEF LockInv, LockHeld
    <3>8. phase'[d] # phase[d]
      <4>1. CASE DropLock(d)
        BY <1>1, <4>1 DEF DropLock, Goto, Typed, TypeOK
      <4>2. CASE Unlink(d)
        BY <1>1, <4>2 DEF Unlink, Goto, Typed, TypeOK
      <4>3. QED BY <3>1, <4>1, <4>2
    <3>9. QED BY <3>7, <3>8
  <2>4. CASE \E d \in Daemons : LoadEnd(d)
    <3>1. PICK d \in Daemons : LoadEnd(d)
      BY <2>4
    <3>2. InWindow(d) /\ session_path[d] = target[d] /\ slips = {}
      BY <1>1, <2>1, <3>1 DEF LoadEnd, InWindow, Typed, PhaseInv
    <3>3. lock[LockOf(target[d])] = None
      BY <1>1, <3>2 DEF LockInv, WindowClear
    <3>4. lock' = [lock EXCEPT ![LockOf(target[d])] =
                      [session |-> target[d], daemon |-> d]]
      BY <3>1 DEF LoadEnd, Locked
    <3>5. QED BY <1>1, <2>1, <3>3, <3>4 DEF Typed, TypeOK
  <2>5. CASE \E d \in Daemons : WriteLock(d)
    <3>1. PICK d \in Daemons : WriteLock(d)
      BY <2>5
    <3>2. lock[LockOf(target[d])] = None
      BY <2>1, <3>1 DEF WriteLock
    <3>3. lock' = [lock EXCEPT ![LockOf(target[d])] =
                      [session |-> target[d], daemon |-> d]]
      BY <3>1 DEF WriteLock, Locked
    <3>4. QED BY <1>1, <2>1, <3>2, <3>3 DEF Typed, TypeOK
  <2>6. CASE lock' = lock
    BY <2>1, <2>6
  <2>7. QED
    BY <1>1, <2>2, <2>3, <2>4, <2>5, <2>6
    DEF Next, Step, Request, vars, SaveDone, Copy, CloseEnd, Rename, Refused, Take,
        Mkdir, TakeNew, NameNew, WriteSession, Open, New, Duplicate, Close, Quit,
        Begin, Crash, Start
<1>2. Init => Typed /\ LockInv
  BY InitTyped, InitLock
<1>3. Typed /\ LockInv /\ [Next]_vars => Typed' /\ LockInv'
  BY NextTyped, NextLock
<1>4. Typed /\ LockInv /\ [Next]_vars => [Kept]_vars
  BY <1>1
<1>5. QED BY <1>2, <1>3, <1>4, PTL DEF Spec, LockIsItsWriters

----------------------------------------------------------------------------
(* New sessions                                                            *)

\* Sessions on disk, open sessions and lock files all have a directory; a
\* daemon about to write the lock file of a new session has made its directory.
\* So everything that has a directory was there before that, and nobody else is
\* about to write for the same session.
DirsInv ==
    /\ saved \subseteq dirs
    /\ \A d \in Daemons : session_path[d] # None => session_path[d] \in dirs
    /\ \A l \in LockFiles : lock[l] # None => lock[l].session \in dirs

WritesFresh(d) ==
    Creating(d) =>
        /\ target[d] \in dirs \ saved
        /\ \A l \in LockFiles : lock[l] # None => lock[l].session # target[d]
        /\ \A e \in Daemons \ {d} : session_path[e] # target[d]
        /\ \A e \in Daemons \ {d} : Creating(e) => target[e] # target[d]

FreshInv == DirsInv /\ \A d \in Daemons : WritesFresh(d)

\* Steps that give nobody a session, a lock file or the phase "write", and leave
\* the disk alone, keep the invariant.
LEMMA FreshQuiet ==
    ASSUME Typed, FreshInv, UNCHANGED disk,
           \A d \in Daemons : session_path'[d] \in {session_path[d], None},
           \A l \in LockFiles : lock'[l] \in {lock[l], None},
           \A d \in Daemons : Creating(d)' => Creating(d) /\ target'[d] = target[d]
    PROVE  FreshInv'
<1>1. DirsInv'
  BY DEF FreshInv, DirsInv
<1>2. ASSUME NEW d \in Daemons PROVE WritesFresh(d)'
  <2>1. SUFFICES ASSUME Creating(d)'
                 PROVE  WritesFresh(d)'
    BY DEF WritesFresh
  <2>2. Creating(d) /\ target'[d] = target[d] /\ WritesFresh(d)
    BY <2>1 DEF FreshInv
  <2>3. target[d] # None
    BY <2>2, SessionLockAssumption DEF Typed, PhaseInv, Creating
  <2>4. QED BY <2>2, <2>3 DEF WritesFresh
<1>3. QED BY <1>1, <1>2 DEF FreshInv

\* Every step keeps the invariant.
LEMMA NextFresh == Typed /\ FreshInv /\ [Next]_vars => FreshInv'
<1>1. SUFFICES ASSUME Typed, FreshInv, [Next]_vars PROVE FreshInv'
  OBVIOUS
<1>2. CASE UNCHANGED vars
  BY <1>1, <1>2 DEF vars, FreshInv, DirsInv, WritesFresh, Creating
<1>3. ASSUME NEW d \in Daemons, Request(d) PROVE FreshInv'
  <2>1. UNCHANGED <<session_path, lock>> /\ UNCHANGED disk
    BY <1>3 DEF Request, Open, New, Duplicate, Close, Quit, Begin, SameNames
  <2>2. \A e \in Daemons : Creating(e)' => Creating(e) /\ target'[e] = target[e]
    BY <1>1, <1>3 DEF Request, Open, New, Duplicate, Close, Quit, Begin, Goto, Creating,
                      Typed, TypeOK
  <2>3. QED BY <1>1, <2>1, <2>2, FreshQuiet
<1>4. ASSUME NEW d \in Daemons,
             SaveDone(d) \/ Unlink(d) \/ CloseEnd(d) \/ DropLock(d) \/ Rename(d)
               \/ Refused(d) \/ NameNew(d) \/ Start(d)
      PROVE  FreshInv'
  <2>1. UNCHANGED disk /\ target' = target
    BY <1>4 DEF SaveDone, Unlink, CloseEnd, DropLock, Rename, Refused, NameNew, Start
  <2>2. \A e \in Daemons : session_path'[e] \in {session_path[e], None}
    BY <1>1, <1>4
    DEF SaveDone, Unlink, CloseEnd, DropLock, Rename, Refused, NameNew, Start, Fresh,
        SameNames, Typed, TypeOK
  <2>3. \A l \in LockFiles : lock'[l] \in {lock[l], None}
    BY <1>1, <1>4
    DEF SaveDone, Unlink, CloseEnd, DropLock, Rename, Refused, NameNew, Start,
        Unlocked, Typed, TypeOK
  <2>4. \A e \in Daemons : Creating(e)' => Creating(e)
    BY <1>1, <1>4
    DEF SaveDone, Unlink, CloseEnd, DropLock, Rename, Refused, NameNew, Start, Fresh,
        Goto, Creating, Typed, TypeOK
  <2>5. QED BY <1>1, <2>1, <2>2, <2>3, <2>4, FreshQuiet
<1>5. ASSUME NEW d \in Daemons, Copy(d) PROVE FreshInv'
  <2>1. /\ UNCHANGED <<session_path, lock, target>>
        /\ \A e \in Daemons : Creating(e)' => Creating(e)
    BY <1>1, <1>5 DEF Copy, Goto, Creating, SameNames, Typed, TypeOK
  <2>2. CASE UNCHANGED disk
    BY <1>1, <2>1, <2>2, FreshQuiet
  <2>3. CASE /\ target[d] \notin dirs
             /\ dirs' = dirs \cup {target[d]} /\ saved' = saved \cup {target[d]}
    <3>1. DirsInv'
      BY <1>1, <2>1, <2>3 DEF FreshInv, DirsInv
    <3>2. ASSUME NEW e \in Daemons PROVE WritesFresh(e)'
      BY <1>1, <2>1, <2>3 DEF FreshInv, WritesFresh
    <3>3. QED BY <3>1, <3>2 DEF FreshInv
  <2>4. QED BY <1>5, <2>2, <2>3 DEF Copy
<1>6. ASSUME NEW d \in Daemons, Take(d) PROVE FreshInv'
  <2>1. /\ UNCHANGED <<lock, target>> /\ UNCHANGED disk /\ target[d] \in saved
        /\ session_path'[d] = target[d]
        /\ \A e \in Daemons \ {d} : session_path'[e] = session_path[e]
        /\ \A e \in Daemons : Creating(e)' => Creating(e)
    BY <1>1, <1>6 DEF Take, Goto, Creating, Typed, TypeOK, PhaseInv
  <2>2. DirsInv'
    BY <1>1, <2>1 DEF FreshInv, DirsInv
  <2>3. ASSUME NEW e \in Daemons PROVE WritesFresh(e)'
    BY <1>1, <2>1 DEF FreshInv, WritesFresh
  <2>4. QED BY <2>2, <2>3 DEF FreshInv
<1>7. ASSUME NEW d \in Daemons, LoadEnd(d) PROVE FreshInv'
  <2>1. /\ session_path[d] = target[d] /\ target[d] \in Sessions
        /\ UNCHANGED <<session_path, target>> /\ UNCHANGED disk
        /\ ~Creating(d) /\ \A e \in Daemons : Creating(e)' => Creating(e)
    BY <1>1, <1>7 DEF LoadEnd, Goto, Creating, SameNames, Typed, TypeOK, PhaseInv
  <2>2. \A l \in LockFiles : \/ lock'[l] = lock[l]
                             \/ lock'[l].session = session_path[d]
    BY <1>1, <1>7, <2>1 DEF LoadEnd, Locked, Typed, TypeOK
  <2>3. session_path[d] # None
    BY <2>1, SessionLockAssumption
  <2>4. DirsInv'
    BY <1>1, <2>1, <2>2, <2>3 DEF FreshInv, DirsInv
  <2>5. ASSUME NEW e \in Daemons PROVE WritesFresh(e)'
    BY <1>1, <2>1, <2>2 DEF FreshInv, WritesFresh
  <2>6. QED BY <2>4, <2>5 DEF FreshInv
<1>8. ASSUME NEW d \in Daemons, Mkdir(d) PROVE FreshInv'
  <2>1. UNCHANGED <<session_path, lock, target, saved>>
    BY <1>8 DEF Mkdir, SameNames
  <2>2. CASE target[d] \in dirs
    <3>1. UNCHANGED disk /\ \A e \in Daemons : Creating(e)' => Creating(e)
      BY <1>1, <1>8, <2>1, <2>2 DEF Mkdir, Goto, Creating, Typed, TypeOK
    <3>2. QED BY <1>1, <2>1, <3>1, FreshQuiet
  <2>3. CASE target[d] \notin dirs
    <3>1. /\ dirs' = dirs \cup {target[d]}
          /\ \A e \in Daemons \ {d} : Creating(e)' => Creating(e)
      BY <1>1, <1>8, <2>3 DEF Mkdir, Goto, Creating, Typed, TypeOK
    <3>2. target[d] # None /\ target[d] \in Sessions
      BY <1>1, <1>8, SessionLockAssumption DEF Mkdir, Typed, PhaseInv
    <3>3. DirsInv'
      BY <1>1, <2>1, <3>1 DEF FreshInv, DirsInv
    <3>4. ASSUME NEW e \in Daemons PROVE WritesFresh(e)'
      <4>1. CASE e = d
        BY <1>1, <2>1, <2>3, <3>1, <3>2, <4>1 DEF FreshInv, DirsInv, WritesFresh
      <4>2. CASE e # d
        BY <1>1, <2>1, <2>3, <3>1, <4>2 DEF FreshInv, WritesFresh
      <4>3. QED BY <4>1, <4>2
    <3>5. QED BY <3>3, <3>4 DEF FreshInv
  <2>4. QED BY <2>2, <2>3
<1>9. ASSUME NEW d \in Daemons, WriteLock(d) PROVE FreshInv'
  <2>1. /\ Creating(d) /\ target[d] \in Sessions
        /\ UNCHANGED <<session_path, target>> /\ UNCHANGED disk
        /\ ~Creating(d)' /\ \A e \in Daemons : Creating(e)' => Creating(e)
    BY <1>1, <1>9 DEF WriteLock, Goto, Creating, SameNames, Typed, TypeOK, PhaseInv
  <2>2. WritesFresh(d)
    BY <1>1 DEF FreshInv
  <2>3. \A l \in LockFiles : \/ lock'[l] = lock[l]
                             \/ lock'[l].session = target[d]
    BY <1>1, <1>9, <2>1 DEF WriteLock, Locked, Typed, TypeOK
  <2>4. DirsInv'
    BY <1>1, <2>1, <2>2, <2>3 DEF FreshInv, DirsInv, WritesFresh
  <2>5. ASSUME NEW e \in Daemons PROVE WritesFresh(e)'
    BY <1>1, <2>1, <2>2, <2>3 DEF FreshInv, WritesFresh
  <2>6. QED BY <2>4, <2>5 DEF FreshInv
<1>13. ASSUME NEW d \in Daemons, TakeNew(d) PROVE FreshInv'
  <2>1. /\ Creating(d) /\ UNCHANGED <<lock, target>> /\ UNCHANGED disk
        /\ session_path'[d] = target[d]
        /\ \A e \in Daemons \ {d} : session_path'[e] = session_path[e]
        /\ \A e \in Daemons : Creating(e)' => Creating(e)
    BY <1>1, <1>13 DEF TakeNew, Goto, Creating, Typed, TypeOK
  <2>2. WritesFresh(d)
    BY <1>1 DEF FreshInv
  <2>3. DirsInv'
    BY <1>1, <2>1, <2>2 DEF FreshInv, DirsInv, WritesFresh
  <2>4. ASSUME NEW e \in Daemons PROVE WritesFresh(e)'
    BY <1>1, <2>1, <2>2 DEF FreshInv, WritesFresh
  <2>5. QED BY <2>3, <2>4 DEF FreshInv
<1>10. ASSUME NEW d \in Daemons, WriteSession(d) PROVE FreshInv'
  <2>1. /\ UNCHANGED <<session_path, lock, target, dirs>>
        /\ session_path[d] = target[d] /\ target[d] \in Sessions
        /\ saved' \subseteq saved \cup {target[d]}
        /\ ~Creating(d) /\ \A e \in Daemons : Creating(e)' => Creating(e)
    BY <1>1, <1>10 DEF WriteSession, Goto, Creating, SameNames, Typed, TypeOK, PhaseInv
  <2>2. session_path[d] # None
    BY <2>1, SessionLockAssumption
  <2>3. DirsInv'
    BY <1>1, <2>1, <2>2 DEF FreshInv, DirsInv
  <2>4. ASSUME NEW e \in Daemons PROVE WritesFresh(e)'
    BY <1>1, <2>1 DEF FreshInv, WritesFresh
  <2>5. QED BY <2>3, <2>4 DEF FreshInv
<1>11. ASSUME NEW d \in Daemons, Crash(d) PROVE FreshInv'
  <2>1. /\ UNCHANGED <<lock, target>> /\ UNCHANGED disk
        /\ \A e \in Daemons : /\ session_path'[e] \in {session_path[e], None}
                              /\ Creating(e)' => Creating(e)
    BY <1>1, <1>11 DEF Crash, Forget, Creating
  <2>2. QED BY <1>1, <2>1, FreshQuiet
<1>12. CASE Reboot
  BY <1>1, <1>12, FreshQuiet DEF Reboot, Forget, Creating
<1>14. QED
  BY <1>1, <1>2, <1>3, <1>4, <1>5, <1>6, <1>7, <1>8, <1>9, <1>10, <1>11, <1>12,
     <1>13
  DEF Next, Step

\* The lock file that new writes without a look is never that of its session.
THEOREM NewIsFree == Spec => []NewSessionIsFree
<1>1. Init => Typed /\ FreshInv
  BY InitTyped DEF Init, FreshInv, DirsInv, WritesFresh, Creating
<1>2. Typed /\ FreshInv /\ [Next]_vars => Typed' /\ FreshInv'
  BY NextTyped, NextFresh
<1>3. Typed /\ FreshInv => NewSessionIsFree
  <2>1. SUFFICES ASSUME Typed, FreshInv, NEW d \in Daemons, Creating(d)
                 PROVE  /\ lock[LockOf(target[d])] # None =>
                              lock[LockOf(target[d])].session # target[d]
                        /\ \A e \in Daemons \ {d} : session_path[e] # target[d]
    BY DEF NewSessionIsFree
  <2>2. LockOf(target[d]) \in LockFiles
    BY <2>1, LockOfType DEF Typed, PhaseInv, Creating
  <2>3. QED BY <2>1, <2>2 DEF FreshInv, WritesFresh
<1>4. QED BY <1>1, <1>2, <1>3, PTL DEF Spec

----------------------------------------------------------------------------
(* Lock files have holders                                                 *)

\* The lock file l is that of the session its writer works on, under the name by
\* which the writer will delete it.
HeldBy(l, d) ==
    /\ session_path[d] \in Sessions /\ l = LockOf(session_path[d])
    /\ session_name[d] = NameOf[session_path[d]]
    /\ Works(d) /\ ~InWindow(d)

Holder(l) ==
    lock[l] # None => /\ lock[l].session = session_path[lock[l].daemon]
                      /\ HeldBy(l, lock[l].daemon)

HoldersInv == ~crashed => \A l \in LockFiles : Holder(l)

\* Steps that write no lock file and leave what its holder is as it is, for all
\* lock files that stay, keep the invariant.
LEMMA HolderQuiet ==
    ASSUME Typed, HoldersInv, crashed' = crashed,
           \A l \in LockFiles : lock'[l] \in {lock[l], None},
           \A l \in LockFiles, d \in Daemons :
               /\ lock[l] # None /\ lock'[l] # None
               /\ lock[l].daemon = d /\ HeldBy(l, d)
               => session_path'[d] = session_path[d] /\ HeldBy(l, d)'
    PROVE  HoldersInv'
<1>1. SUFFICES ASSUME ~crashed, NEW l \in LockFiles, lock'[l] # None
               PROVE  Holder(l)'
  BY DEF HoldersInv, Holder
<1>2. lock'[l] = lock[l] /\ Holder(l)
  BY <1>1 DEF HoldersInv
<1>3. lock[l].daemon \in Daemons
  BY <1>1, <1>2 DEF Typed, TypeOK
<1>4. PICK d \in Daemons : lock[l].daemon = d
  BY <1>3
<1>5. lock[l].session = session_path[d] /\ HeldBy(l, d)
  BY <1>1, <1>2, <1>4 DEF Holder
<1>6. session_path'[d] = session_path[d] /\ HeldBy(l, d)'
  BY <1>1, <1>2, <1>4, <1>5
<1>7. lock'[l].daemon = d /\ lock'[l].session = session_path'[d]
  BY <1>2, <1>4, <1>5, <1>6
<1>8. QED BY <1>6, <1>7 DEF Holder

\* A daemon deletes the lock file of the names it has and then works on nothing.
LEMMA HolderUnlock ==
    ASSUME Typed, HoldersInv, crashed' = crashed, NEW d \in Daemons,
           lock' = IF session_path[d] # None THEN Unlocked(d) ELSE lock,
           \A e \in Daemons \ {d} :
               /\ session_path'[e] = session_path[e]
               /\ session_name'[e] = session_name[e]
               /\ phase'[e] = phase[e]
    PROVE  HoldersInv'
<1>1. \A l \in LockFiles : lock'[l] \in {lock[l], None}
  BY DEF Unlocked, Typed, TypeOK
<1>2. ASSUME NEW l \in LockFiles, NEW e \in Daemons,
             lock[l] # None, lock'[l] # None, HeldBy(l, e)
      PROVE  session_path'[e] = session_path[e] /\ HeldBy(l, e)'
  <2>1. CASE e = d
    <3>1. session_name[d] \in Names
      BY <1>2, <2>1 DEF HeldBy, Names
    <3>2. lock' = Unlocked(d) /\ l = LockFile(session_name[d], session_path[d])
      BY <1>2, <2>1, <3>1, SessionLockAssumption DEF HeldBy, LockOf
    <3>3. lock'[l] = None
      BY <3>1, <3>2, SessionLockAssumption DEF Unlocked, Typed, TypeOK
    <3>4. QED BY <1>2, <3>3
  <2>2. CASE e # d
    BY <1>2, <2>2 DEF HeldBy, Works, InWindow, LockOf, LockFile
  <2>3. QED BY <2>1, <2>2
<1>3. QED BY <1>1, <1>2, HolderQuiet

\* A daemon that holds no lock file writes that of the session it has now.
LEMMA HolderWrite ==
    ASSUME Typed, HoldersInv, crashed' = crashed,
           NEW d \in Daemons, NEW s \in Sessions,
           ~Works(d) \/ InWindow(d),
           lock' = Locked(d, s),
           session_path'[d] = s, session_name'[d] = NameOf[s],
           Works(d)', ~InWindow(d)',
           \A e \in Daemons \ {d} :
               /\ session_path'[e] = session_path[e]
               /\ session_name'[e] = session_name[e]
               /\ phase'[e] = phase[e]
    PROVE  HoldersInv'
<1>1. SUFFICES ASSUME ~crashed, NEW l \in LockFiles PROVE Holder(l)'
  BY DEF HoldersInv
<1>2. CASE l = LockOf(s)
  <2>1. lock'[l] = [session |-> s, daemon |-> d]
    BY <1>2, LockOfType DEF Locked, Typed, TypeOK
  <2>2. HeldBy(l, d)'
    BY <1>2 DEF HeldBy, LockOf, LockFile
  <2>3. QED BY <2>1, <2>2 DEF Holder
<1>3. CASE l # LockOf(s)
  <2>1. lock'[l] = lock[l] /\ Holder(l)
    BY <1>1, <1>3, LockOfType DEF Locked, HoldersInv, Typed, TypeOK
  <2>2. SUFFICES ASSUME lock[l] # None PROVE Holder(l)'
    BY <2>1 DEF Holder
  <2>3. lock[l].daemon \in Daemons \ {d}
    BY <2>1, <2>2 DEF Holder, HeldBy, Typed, TypeOK
  <2>4. QED
    BY <2>1, <2>2, <2>3 DEF Holder, HeldBy, Works, InWindow, LockOf, LockFile
<1>4. QED BY <1>2, <1>3

\* Every step keeps the invariant.
LEMMA NextHolders == Typed /\ HoldersInv /\ [Next]_vars => HoldersInv'
<1>1. SUFFICES ASSUME Typed, HoldersInv, [Next]_vars PROVE HoldersInv'
  OBVIOUS
<1>2. CASE UNCHANGED vars
  BY <1>1, <1>2 DEF vars, HoldersInv, Holder, HeldBy, Works, InWindow, LockOf, LockFile
<1>3. ASSUME NEW d \in Daemons,
             Request(d) \/ SaveDone(d) \/ Copy(d) \/ Refused(d) \/ Mkdir(d)
               \/ WriteSession(d)
      PROVE  HoldersInv'
  <2>1. UNCHANGED <<session_path, session_name, lock, crashed>>
    BY <1>3 DEF Request, Open, New, Duplicate, Close, Quit, Begin, SaveDone, Copy,
                Refused, Mkdir, WriteSession, SameNames
  <2>2. /\ \A e \in Daemons \ {d} : phase'[e] = phase[e]
        /\ Works(d) => Works(d)'
        /\ InWindow(d)' => InWindow(d)
    <3>1. CASE Quit(d)
      <4>1. \A e \in Daemons \ {d} : phase'[e] = phase[e]
        BY <1>1, <3>1 DEF Quit, Goto, Typed, TypeOK
      <4>2. phase'[d] \in {"gone", "abandon", "close"}
        BY <1>1, <3>1 DEF Quit, Goto, Typed, TypeOK
      <4>3. phase'[d] = "abandon" => InWindow(d)
        BY <1>1, <3>1 DEF Quit, Goto, Typed, TypeOK
      <4>4. QED BY <2>1, <4>1, <4>2, <4>3 DEF Works, InWindow
    <3>2. CASE ~Quit(d)
      BY <1>1, <1>3, <2>1, <3>2
      DEF Request, Open, New, Duplicate, Close, Begin, SaveDone, Copy, Refused,
          Mkdir, WriteSession, Goto, Works, InWindow, Typed, TypeOK
    <3>3. QED BY <3>1, <3>2
  <2>3. \A l \in LockFiles, e \in Daemons : HeldBy(l, e) => HeldBy(l, e)'
    BY <2>1, <2>2 DEF HeldBy, Works, InWindow, LockOf, LockFile
  <2>4. QED BY <1>1, <2>1, <2>3, HolderQuiet
<1>4. ASSUME NEW d \in Daemons, Unlink(d) PROVE HoldersInv'
  <2>1. session_path[d] # None
    BY <1>1, <1>4 DEF Unlink, Typed, PhaseInv
  <2>2. /\ lock' = Unlocked(d) /\ crashed' = crashed
        /\ \A e \in Daemons \ {d} : /\ session_path'[e] = session_path[e]
                                    /\ session_name'[e] = session_name[e]
                                    /\ phase'[e] = phase[e]
    BY <1>1, <1>4 DEF Unlink, Goto, SameNames, Typed, TypeOK
  <2>3. QED BY <1>1, <2>1, <2>2, HolderUnlock
<1>5. ASSUME NEW d \in Daemons, DropLock(d) PROVE HoldersInv'
  <2>1. /\ crashed' = crashed
        /\ \A e \in Daemons \ {d} : /\ session_path'[e] = session_path[e]
                                    /\ session_name'[e] = session_name[e]
                                    /\ phase'[e] = phase[e]
    BY <1>1, <1>5 DEF DropLock, Goto, SameNames, Typed, TypeOK
  <2>2. CASE target[d] \in saved
    <3>1. lock' = IF session_path[d] # None THEN Unlocked(d) ELSE lock
      BY <1>5, <2>2 DEF DropLock
    <3>2. QED BY <1>1, <2>1, <3>1, HolderUnlock
  <2>3. CASE target[d] \notin saved
    <3>1. /\ UNCHANGED <<session_path, session_name, lock>>
          /\ phase[d] = "drop" /\ phase'[d] = "idle"
      BY <1>1, <1>5, <2>3 DEF DropLock, Goto, SameNames, Typed, TypeOK
    <3>2. \A l \in LockFiles, e \in Daemons : HeldBy(l, e) => HeldBy(l, e)'
      BY <2>1, <3>1 DEF HeldBy, Works, InWindow, LockOf, LockFile
    <3>3. QED BY <1>1, <2>1, <3>1, <3>2, HolderQuiet
  <2>4. QED BY <2>2, <2>3
<1>6. ASSUME NEW d \in Daemons,
             CloseEnd(d) \/ Rename(d) \/ Take(d) \/ TakeNew(d) \/ NameNew(d) \/ Start(d)
      PROVE  HoldersInv'
  <2>1. /\ UNCHANGED <<lock, crashed>> /\ ~Works(d)
        /\ \A e \in Daemons \ {d} : /\ session_path'[e] = session_path[e]
                                    /\ session_name'[e] = session_name[e]
                                    /\ phase'[e] = phase[e]
    BY <1>1, <1>6 DEF CloseEnd, Rename, Take, TakeNew, NameNew, Start, Fresh, Goto,
                      Works, Typed, TypeOK, PhaseInv
  <2>2. \A l \in LockFiles, e \in Daemons :
            HeldBy(l, e) => session_path'[e] = session_path[e] /\ HeldBy(l, e)'
    BY <2>1 DEF HeldBy, Works, InWindow, LockOf, LockFile
  <2>3. QED BY <1>1, <2>1, <2>2, HolderQuiet
<1>7. ASSUME NEW d \in Daemons, LoadEnd(d) PROVE HoldersInv'
  <2>1. /\ InWindow(d) /\ target[d] \in Sessions
        /\ session_path[d] = target[d] /\ session_name[d] = session_name'[d]
        /\ lock' = Locked(d, target[d]) /\ crashed' = crashed
        /\ session_path' = session_path /\ session_name' = session_name
        /\ phase'[d] = "idle"
        /\ \A e \in Daemons \ {d} : phase'[e] = phase[e]
    BY <1>1, <1>7 DEF LoadEnd, Goto, SameNames, InWindow, Typed, TypeOK, PhaseInv
  <2>2. Works(d)' /\ ~InWindow(d)'
    BY <2>1, SessionLockAssumption DEF Works, InWindow
  <2>3. session_name[d] = NameOf[target[d]]
    BY <1>1, <1>7 DEF LoadEnd, Typed, PhaseInv
  <2>4. QED BY <1>1, <2>1, <2>2, <2>3, HolderWrite
<1>8. ASSUME NEW d \in Daemons, WriteLock(d) PROVE HoldersInv'
  <2>1. /\ ~Works(d) /\ target[d] \in Sessions /\ session_path[d] = target[d]
        /\ session_name[d] = NameOf[target[d]]
        /\ lock' = Locked(d, target[d]) /\ crashed' = crashed
        /\ session_path' = session_path /\ session_name' = session_name
        /\ phase'[d] = "nsm"
        /\ \A e \in Daemons \ {d} : phase'[e] = phase[e]
    BY <1>1, <1>8 DEF WriteLock, Goto, SameNames, Works, Typed, TypeOK, PhaseInv
  <2>2. Works(d)' /\ ~InWindow(d)'
    BY <2>1, SessionLockAssumption DEF Works, InWindow
  <2>3. QED BY <1>1, <2>1, <2>2, HolderWrite
<1>9. ASSUME NEW d \in Daemons, Crash(d) PROVE HoldersInv'
  BY <1>9 DEF Crash, HoldersInv
<1>10. CASE Reboot
  BY <1>10 DEF Reboot, HoldersInv, Holder
<1>11. QED
  BY <1>1, <1>2, <1>3, <1>4, <1>5, <1>6, <1>7, <1>8, <1>9, <1>10 DEF Next, Step

\* Without a crash, every lock file is that of a session some daemon has.
THEOREM EveryLockHasHolder == Spec => []LocksHaveHolders
<1>1. Init => Typed /\ HoldersInv
  BY InitTyped DEF Init, HoldersInv, Holder
<1>2. Typed /\ HoldersInv /\ [Next]_vars => Typed' /\ HoldersInv'
  BY NextTyped, NextHolders
<1>3. Typed /\ HoldersInv => LocksHaveHolders
  BY DEF HoldersInv, Holder, LocksHaveHolders, Typed, TypeOK
<1>4. QED BY <1>1, <1>2, <1>3, PTL DEF Spec
=============================================================================
