----------------------------- MODULE NsmdProofs -----------------------------
(***************************************************************************)
(* Theorems about nsmd for every value of its constants.                   *)
(***************************************************************************)
EXTENDS Nsmd, SequenceLemmas

----------------------------------------------------------------------------
(* The handlers in progress                                                *)

Pcs == WaitPcs \cup RunPcs

\* The session another nsmd holds, or whose file cannot be read.
Foreign == LockedByOther \cup Unreadable

SavePcs == {"save", "replies", "saved"}
LatePcs == {"killed", "purge", "switch", "announce", "opening", "loaded"}
ClosePcs == {"close", "killed", "purge", "clear", "closed"}

\* The steps every handler goes through.
PcsOf(op) ==
    CASE op = "save" -> SavePcs
      [] op \in {"open", "duplicate"} -> SavePcs \cup {"load"} \cup LatePcs
      [] op = "load" -> {"load"} \cup LatePcs
      [] op = "new" -> SavePcs \cup (ClosePcs \ {"closed"}) \cup {"create"}
      [] op = "close" -> SavePcs \cup ClosePcs
      [] OTHER -> ClosePcs

ValidFrame(f) ==
    /\ f \in Frames
    /\ f.pc \in PcsOf(f.op)
    /\ f.op \in {"open", "new", "duplicate", "load"} => f.target \in Sessions
    /\ f.op \in {"new", "duplicate"} => f.target \notin Foreign

\* A handler above it has quit: it will not go on. (quit itself is not cut off
\* any more when it is about to terminate nsmd.)
CutOff(k) ==
    /\ \E j \in DOMAIN stack : j < k /\ stack[j].op = "quit"
    /\ ~(stack[k].op = "quit" /\ stack[k].pc = "closed")

\* Only the innermost handler runs, and those below it wait or have been cut
\* off by quit for good; and pending_operation tells the truth.
ControlInv ==
    /\ stack \in Seq(Frames)
    /\ \A k \in DOMAIN stack : ValidFrame(stack[k])
    /\ \A k \in DOMAIN stack : k # 1 => CutOff(k) \/ stack[k].pc \in WaitPcs
    /\ \A k, j \in DOMAIN stack : stack[k].op = "save" /\ k < j => stack[j].op \notin Guarded
    /\ exited => stack = <<>>
    /\ OneOperation

\* quit has closed the session and is about to terminate nsmd.
Quitting == stack # <<>> /\ Top.op = "quit" /\ Top.pc = "closed"

\* A session file never goes away, so what is not ours at the start stays so.
FilesInv ==
    /\ session_path \in Sessions \cup {None}
    /\ \A s \in Foreign : file[s] # Absent
    /\ file \in [Sessions -> Seq(Entries) \cup {Absent}]
    /\ \A k \in DOMAIN stack : stack[k].op = "duplicate" /\ stack[k].pc \in SavePcs
                                 => session_path # None \/ Quitting

----------------------------------------------------------------------------
(* The four ways the stack changes                                         *)

LEMMA TopFacts ==
    ASSUME stack \in Seq(Frames), stack # <<>>
    PROVE  /\ Len(stack) \in Nat \ {0} /\ DOMAIN stack = 1..Len(stack)
           /\ 1 \in DOMAIN stack /\ Top = stack[1] /\ Top \in Frames
BY DEF Top

\* Goto changes the place of the top frame and nothing else.
LEMMA GotoFacts ==
    ASSUME stack \in Seq(Frames), stack # <<>>, NEW pc \in Pcs, Goto(pc)
    PROVE  /\ stack' \in Seq(Frames) /\ stack' # <<>>
           /\ DOMAIN stack' = DOMAIN stack
           /\ stack'[1] = [stack[1] EXCEPT !.pc = pc]
           /\ stack'[1].op = stack[1].op /\ stack'[1].target = stack[1].target
           /\ stack'[1].pc = pc
           /\ \A k \in DOMAIN stack : k # 1 => stack'[k] = stack[k]
<1>1. 1 \in DOMAIN stack /\ stack[1] \in Frames /\ DOMAIN stack = 1..Len(stack)
  BY TopFacts
<1>2. stack' = [stack EXCEPT ![1] = [stack[1] EXCEPT !.pc = pc]]
  BY <1>1 DEF Goto
<1>3. [stack[1] EXCEPT !.pc = pc] \in Frames
  BY <1>1 DEF Frames, Pcs
<1>4. stack' \in Seq(Frames) /\ stack' # <<>>
  BY <1>1, <1>2, <1>3, ExceptSeq
<1> QED
  BY <1>1, <1>2, <1>3, <1>4 DEF Frames

\* Push puts a frame on top of the others.
LEMMA PushFacts ==
    ASSUME stack \in Seq(Frames), NEW op \in Ops, NEW pc \in Pcs,
           NEW target \in Sessions \cup {None}, Push(op, target, pc)
    PROVE  /\ stack' \in Seq(Frames) /\ stack' # <<>>
           /\ DOMAIN stack' = 1..(Len(stack) + 1) /\ Len(stack) \in Nat
           /\ stack'[1] = [op |-> op, target |-> target, pc |-> pc]
           /\ \A k \in DOMAIN stack' : k # 1 => stack'[k] = stack[k - 1]
<1> DEFINE f == [op |-> op, target |-> target, pc |-> pc]
<1>1. f \in Frames
  BY DEF Frames, Pcs
<1>2. <<f>> \in Seq(Frames) /\ Len(<<f>>) = 1 /\ <<f>>[1] = f
  BY <1>1
<1>3. stack' = <<f>> \o stack
  BY DEF Push
<1> HIDE DEF f
<1>4. /\ stack' \in Seq(Frames) /\ Len(stack') = 1 + Len(stack)
      /\ \A i \in 1..(1 + Len(stack)) :
            stack'[i] = IF i <= 1 THEN <<f>>[i] ELSE stack[i - 1]
  BY <1>2, <1>3, ConcatProperties
<1> QED
  BY <1>2, <1>4 DEF f

\* A return uncovers the frames below.
LEMMA PopFacts ==
    ASSUME stack \in Seq(Frames), stack # <<>>, stack' = Tail(stack)
    PROVE  /\ stack' \in Seq(Frames)
           /\ DOMAIN stack' = 1..(Len(stack) - 1) /\ Len(stack) \in Nat \ {0}
           /\ \A k \in DOMAIN stack' : stack'[k] = stack[k + 1] /\ k + 1 \in DOMAIN stack
BY HeadTailProperties

\* The places of an operation are places.
LEMMA PcsOfFacts == \A op \in Ops : PcsOf(op) \subseteq Pcs
BY DEF Ops, Guarded, PcsOf, SavePcs, LatePcs, ClosePcs, Pcs, WaitPcs, RunPcs

\* The innermost handler goes on.
LEMMA ControlGoto ==
    ASSUME ControlInv, stack # <<>>, ~exited, NEW pc \in PcsOf(Top.op), Goto(pc),
           UNCHANGED <<pending_operation, exited>>
    PROVE  ControlInv'
<1>1. /\ Top = stack[1] /\ Top \in Frames /\ 1 \in DOMAIN stack
      /\ DOMAIN stack = 1..Len(stack) /\ Len(stack) \in Nat \ {0}
  BY TopFacts DEF ControlInv
<1>2. pc \in Pcs
  BY <1>1, PcsOfFacts DEF Frames
<1>3. /\ stack' \in Seq(Frames) /\ stack' # <<>>
      /\ DOMAIN stack' = DOMAIN stack
      /\ stack'[1].op = stack[1].op /\ stack'[1].target = stack[1].target
      /\ stack'[1].pc = pc
      /\ \A k \in DOMAIN stack : k # 1 => stack'[k] = stack[k]
  BY <1>2, GotoFacts DEF ControlInv
<1>4. \A k \in DOMAIN stack : stack'[k].op = stack[k].op
  BY <1>3
<1>5. ASSUME NEW k \in DOMAIN stack' PROVE ValidFrame(stack'[k])
  <2>1. stack'[1] \in Frames
    BY <1>1, <1>3
  <2>2. CASE k = 1
    BY <1>1, <1>3, <2>1, <2>2 DEF ControlInv, ValidFrame
  <2>3. CASE k # 1
    BY <1>3, <2>3 DEF ControlInv
  <2> QED
    BY <2>2, <2>3
<1>6. OneOperation'
  BY <1>3, <1>4 DEF ControlInv, OneOperation
<1>7. \A k \in DOMAIN stack : k # 1 => (CutOff(k)' <=> CutOff(k))
  BY <1>3, <1>4 DEF CutOff
<1> QED
  BY <1>3, <1>4, <1>5, <1>6, <1>7 DEF ControlInv

\* The innermost handler returns.
LEMMA ControlReturn ==
    ASSUME ControlInv, stack # <<>>, ~exited, Top.op # "quit", Return,
           UNCHANGED exited
    PROVE  ControlInv'
<1>1. /\ Top = stack[1] /\ Top \in Frames /\ 1 \in DOMAIN stack
      /\ DOMAIN stack = 1..Len(stack) /\ Len(stack) \in Nat \ {0}
  BY TopFacts DEF ControlInv
<1>2. /\ stack' \in Seq(Frames)
      /\ DOMAIN stack' = 1..(Len(stack) - 1)
      /\ \A k \in DOMAIN stack' : stack'[k] = stack[k + 1] /\ k + 1 \in DOMAIN stack
  BY PopFacts DEF ControlInv, Return
<1>3. ASSUME NEW k \in DOMAIN stack'
      PROVE  ValidFrame(stack'[k]) /\ (CutOff(k)' \/ stack'[k].pc \in WaitPcs)
  <2>1. k + 1 \in DOMAIN stack /\ k + 1 # 1 /\ stack'[k] = stack[k + 1]
    BY <1>1, <1>2
  <2>2. CASE CutOff(k + 1)
    <3>1. PICK j \in DOMAIN stack : j < k + 1 /\ stack[j].op = "quit"
      BY <2>2 DEF CutOff
    <3>2. j - 1 \in DOMAIN stack' /\ j - 1 < k /\ stack'[j - 1] = stack[j]
      BY <1>1, <1>2, <3>1
    <3> QED
      BY <2>1, <2>2, <3>1, <3>2 DEF ControlInv, CutOff
  <2> QED
    BY <2>1, <2>2 DEF ControlInv
<1>4. \A k, j \in DOMAIN stack' :
         stack'[k].op = "save" /\ k < j => stack'[j].op \notin Guarded
  BY <1>1, <1>2 DEF ControlInv
<1>5. OneOperation'
  <2>1. CASE Top.op = "load"
    <3>1. pending_operation' = pending_operation
      BY <2>1 DEF Return
    <3>2. (\A k \in DOMAIN stack : stack[k].op \notin Guarded) <=>
             (\A k \in DOMAIN stack' : stack'[k].op \notin Guarded)
      <4>1. \A k \in DOMAIN stack : k = 1 \/ k - 1 \in DOMAIN stack'
        BY <1>1, <1>2
      <4>2. \A k \in DOMAIN stack : k # 1 => stack'[k - 1] = stack[k]
        BY <1>1, <1>2, <4>1
      <4>3. stack[1].op \notin Guarded
        BY <1>1, <2>1 DEF Guarded
      <4> QED
        BY <1>1, <1>2, <4>1, <4>2, <4>3
    <3> QED
      BY <1>1, <1>2, <3>1, <3>2 DEF ControlInv, OneOperation
  <2>2. CASE Top.op # "load"
    <3>1. pending_operation' = "NONE"
      BY <2>2 DEF Return
    <3>2. Top.op \in Guarded \cup {"save"}
      BY <1>1, <2>2 DEF Frames, Ops
    <3>3. \A k \in DOMAIN stack : k # 1 => stack[k].op \notin Guarded
      BY <1>1, <3>2 DEF ControlInv, OneOperation
    <3>4. \A k \in DOMAIN stack' : stack'[k].op \notin Guarded
      BY <1>1, <1>2, <3>3
    <3> QED
      BY <3>1, <3>4 DEF OneOperation
  <2> QED
    BY <2>1, <2>2
<1> QED
  BY <1>2, <1>3, <1>4, <1>5 DEF ControlInv, Return

\* A frame that is cut off stays so under a new one.
LEMMA CutOffBelow ==
    ASSUME DOMAIN stack = 1..Len(stack), Len(stack) \in Nat,
           DOMAIN stack' = 1..(Len(stack) + 1),
           \A k \in DOMAIN stack' : k # 1 => stack'[k] = stack[k - 1],
           NEW k \in DOMAIN stack', k # 1, CutOff(k - 1)
    PROVE  CutOff(k)'
<1>1. PICK j \in DOMAIN stack : j < k - 1 /\ stack[j].op = "quit"
  BY DEF CutOff
<1>2. j + 1 \in DOMAIN stack' /\ j + 1 < k /\ stack'[j + 1] = stack[j]
  BY <1>1
<1> QED
  BY <1>1, <1>2 DEF CutOff

\* Where a handler may start.
StartPcs == {"save", "load", "create", "close"}

\* A handler starts while nsmd listens: one that tests pending_operation.
LEMMA ControlBegin ==
    ASSUME ControlInv, NEW op \in Guarded \cup {"save"}, NEW target \in Sessions \cup {None},
           NEW pc \in PcsOf(op), Begin(op, target, pc),
           op \in {"open", "new", "duplicate"} => target \in Sessions,
           op \in {"new", "duplicate"} => target \notin Foreign
    PROVE  ControlInv'
<1>1. op \in Ops /\ pc \in Pcs
  BY PcsOfFacts DEF Ops
<1> DEFINE f == [op |-> op, target |-> target, pc |-> pc]
<1>2. /\ stack' \in Seq(Frames) /\ stack' # <<>>
      /\ DOMAIN stack' = 1..(Len(stack) + 1) /\ Len(stack) \in Nat
      /\ stack'[1] = f
      /\ \A k \in DOMAIN stack' : k # 1 => stack'[k] = stack[k - 1]
  BY <1>1, PushFacts DEF ControlInv, Begin
<1>3. f.op = op /\ f.target = target /\ f.pc = pc /\ f \in Frames
  BY <1>1 DEF Frames, Pcs
<1> HIDE DEF f
<1>4. DOMAIN stack = 1..Len(stack)
  BY DEF ControlInv
<1>5. \A k \in DOMAIN stack' : k # 1 => k - 1 \in DOMAIN stack
  BY <1>2, <1>4
<1>6. ValidFrame(f)
  BY <1>3 DEF ValidFrame, Guarded
<1>7. stack # <<>> => Top = stack[1] /\ Top.pc \in WaitPcs
  BY TopFacts DEF ControlInv, Begin, Listening
<1>8. ASSUME NEW k \in DOMAIN stack' PROVE k # 1 => CutOff(k)' \/ stack'[k].pc \in WaitPcs
  BY <1>2, <1>4, <1>5, <1>7, CutOffBelow DEF ControlInv
<1>9. ~exited /\ exited' = exited /\ pending_operation = "NONE"
  BY DEF Begin, Listening, SameFiles
<1>10. \A k \in DOMAIN stack : stack[k].op \notin Guarded
  BY <1>9 DEF ControlInv, OneOperation
<1>11. \A k \in DOMAIN stack' : k # 1 => stack'[k].op \notin Guarded
  BY <1>2, <1>5, <1>10
<1>12. OneOperation'
  <2>1. CASE op = "save"
    BY <1>2, <1>3, <1>9, <1>11, <2>1 DEF OneOperation, Begin, Guarded
  <2>2. CASE op \in Guarded
    <3>1. pending_operation' = Operation(op) /\ Operation(op) # "NONE"
      BY <2>2 DEF Begin, Operation, Guarded
    <3> QED
      BY <1>2, <1>3, <1>11, <2>2, <3>1 DEF OneOperation
  <2> QED
    BY <2>1, <2>2
<1> QED
  BY <1>2, <1>3, <1>4, <1>5, <1>6, <1>8, <1>9, <1>11, <1>12 DEF ControlInv

\* ... and quit, which does not.
LEMMA ControlQuit ==
    ASSUME ControlInv, Quit
    PROVE  ControlInv'
<1>1. "quit" \in Ops /\ "close" \in Pcs /\ None \in Sessions \cup {None}
  BY DEF Ops, Pcs, RunPcs
<1> DEFINE f == [op |-> "quit", target |-> None, pc |-> "close"]
<1>2. /\ stack' \in Seq(Frames) /\ stack' # <<>>
      /\ DOMAIN stack' = 1..(Len(stack) + 1) /\ Len(stack) \in Nat
      /\ stack'[1] = f
      /\ \A k \in DOMAIN stack' : k # 1 => stack'[k] = stack[k - 1]
  BY <1>1, PushFacts DEF ControlInv, Quit
<1>3. f.op = "quit" /\ f.pc = "close" /\ f \in Frames
  BY <1>1 DEF Frames, Pcs
<1> HIDE DEF f
<1>4. DOMAIN stack = 1..Len(stack)
  BY DEF ControlInv
<1>5. \A k \in DOMAIN stack' : k # 1 => k - 1 \in DOMAIN stack
  BY <1>2, <1>4
<1>6. \A k \in DOMAIN stack : k + 1 \in DOMAIN stack' /\ stack'[k + 1] = stack[k]
  BY <1>2, <1>4
<1>7. ValidFrame(f)
  BY <1>3 DEF ValidFrame, PcsOf, ClosePcs
<1>8. ASSUME NEW k \in DOMAIN stack PROVE ~(stack[k].op = "quit" /\ stack[k].pc = "closed")
  BY TopFacts, <1>8 DEF ControlInv, CutOff, Quit, WaitPcs
<1>9. ASSUME NEW k \in DOMAIN stack', k # 1 PROVE CutOff(k)'
  <2>1. stack'[k] = stack[k - 1] /\ k - 1 \in DOMAIN stack
    BY <1>2, <1>5, <1>9
  <2>2. ~(stack'[k].op = "quit" /\ stack'[k].pc = "closed")
    BY <1>8, <2>1
  <2>3. 1 \in DOMAIN stack' /\ 1 < k /\ stack'[1].op = "quit"
    BY <1>2, <1>3, <1>9
  <2> QED
    BY <2>2, <2>3 DEF CutOff
<1>10. ~exited /\ UNCHANGED <<exited, pending_operation>>
  BY DEF Quit, SameFiles
<1>11. f.op \notin Guarded
  BY <1>3 DEF Guarded
<1>12. (\A k \in DOMAIN stack' : stack'[k].op \notin Guarded) <=>
          (\A k \in DOMAIN stack : stack[k].op \notin Guarded)
  BY <1>2, <1>5, <1>6, <1>11
<1>13. ASSUME NEW k \in DOMAIN stack', stack'[k].op \in Guarded
       PROVE  /\ pending_operation = Operation(stack'[k].op)
              /\ \A j \in DOMAIN stack' \ {k} : stack'[j].op \notin Guarded
  <2>1. k # 1 /\ k - 1 \in DOMAIN stack /\ stack'[k] = stack[k - 1]
    BY <1>2, <1>5, <1>11, <1>13
  <2>2. /\ pending_operation = Operation(stack[k - 1].op)
        /\ \A j \in DOMAIN stack \ {k - 1} : stack[j].op \notin Guarded
    BY <1>10, <1>13, <2>1 DEF ControlInv, OneOperation
  <2>3. ASSUME NEW j \in DOMAIN stack' \ {k} PROVE stack'[j].op \notin Guarded
    <3>1. CASE j = 1
      BY <1>2, <1>11, <3>1
    <3>2. CASE j # 1
      <4>1. j - 1 \in DOMAIN stack \ {k - 1} /\ stack'[j] = stack[j - 1]
        BY <1>2, <1>5, <2>1, <3>2
      <4> QED
        BY <2>2, <4>1
    <3> QED
      BY <3>1, <3>2
  <2> QED
    BY <2>1, <2>2, <2>3
<1>14. OneOperation'
  BY <1>10, <1>12, <1>13 DEF ControlInv, OneOperation
<1> QED
  BY <1>2, <1>3, <1>4, <1>5, <1>6, <1>7, <1>9, <1>10, <1>14, SMTT(40) DEF ControlInv

----------------------------------------------------------------------------
(* Every step preserves ControlInv                                         *)

LEMMA TopValid ==
    ASSUME ControlInv, stack # <<>>
    PROVE  Top \in Frames /\ Top.op \in Ops /\ ValidFrame(Top)
BY TopFacts, SMTT(40) DEF ControlInv, Frames

\* Steps that leave the handlers in progress alone.
Untouched == UNCHANGED <<stack, pending_operation, exited>>

\* The steps that leave the control alone.
LEMMA UntouchedActions ==
    ASSUME \/ PurgeStep \/ ClearStep \/ SwitchClient \/ LaunchClient
           \/ \E prog \in Progs : Add(prog)
           \/ \E i \in DOMAIN client : Stop(i) \/ Remove_(i) \/ Resume(i) \/ ClientSave(i)
           \/ Environment \/ UNCHANGED vars
    PROVE  Untouched
BY DEF PurgeStep, ClearStep, SwitchClient, LaunchClient, Add, Stop, Remove_, Resume,
       ClientSave, Environment, Announce, AnnounceRefused, Answer, Exit, Reap,
       PurgeDead, vars, SameControl, SameSession, SameFiles, Untouched

\* They keep the control invariant.
LEMMA ControlUntouched ==
    ASSUME ControlInv, Untouched
    PROVE  ControlInv'
BY DEF ControlInv, CutOff, OneOperation, Untouched

\* Steps after which the innermost handler goes on.
Continues ==
    /\ stack # <<>> /\ ~exited
    /\ UNCHANGED <<pending_operation, exited>>
    /\ \E pc \in PcsOf(Top.op) : Goto(pc)

\* A step within an operation keeps the control invariant.
LEMMA ControlContinues ==
    ASSUME ControlInv, Continues
    PROVE  ControlInv'
BY ControlGoto DEF Continues

\* The steps that go on within an operation.
LEMMA ContinuingActions ==
    ASSUME ControlInv,
           \/ CommandSave \/ RepliesDone \/ RepliesTimeout
           \/ CloseBegin \/ KilledDone \/ KilledTimeout \/ PurgeEnd \/ ClearEnd
           \/ LoadBegin \/ SwitchEnd \/ AnnounceEnd
    PROVE  Continues
<1>1. stack # <<>> => Top.op \in Ops /\ Top.pc \in PcsOf(Top.op)
  BY TopValid DEF ValidFrame
<1> USE DEF Ops, Guarded, PcsOf, SavePcs, LatePcs, ClosePcs, At, AtOneOf, SameSession,
            SameFiles, Continues
<1>2. ASSUME CommandSave PROVE Continues
  <2>1. Goto("saved") \/ Goto("replies")
    BY <1>2 DEF CommandSave
  <2> QED
    BY <1>1, <1>2, <2>1 DEF CommandSave
<1>3. ASSUME RepliesDone \/ RepliesTimeout PROVE Continues
  BY <1>1, <1>3 DEF RepliesDone, RepliesTimeout, AfterReplies
<1>4. ASSUME CloseBegin PROVE Continues
  <2>1. Goto(AfterClose) \/ Goto("killed") \/ Goto("purge")
    BY <1>4 DEF CloseBegin, GotoKilled
  <2>2. Top.op \in {"new", "close", "abort", "quit"}
    BY <1>1, <1>4 DEF CloseBegin
  <2> QED
    BY <1>4, <2>1, <2>2 DEF CloseBegin, AfterClose
<1>5. ASSUME KilledDone \/ KilledTimeout PROVE Continues
  BY <1>1, <1>5 DEF KilledDone, KilledTimeout
<1>6. ASSUME PurgeEnd PROVE Continues
  BY <1>1, <1>6 DEF PurgeEnd
<1>7. ASSUME ClearEnd PROVE Continues
  BY <1>1, <1>7 DEF ClearEnd, AfterClose
<1>8. ASSUME LoadBegin PROVE Continues
  <2>1. Goto("killed") \/ Goto("purge")
    BY <1>8 DEF LoadBegin, GotoKilled
  <2> QED
    BY <1>1, <1>8, <2>1 DEF LoadBegin
<1>9. ASSUME SwitchEnd \/ AnnounceEnd PROVE Continues
  BY <1>1, <1>9 DEF SwitchEnd, AnnounceEnd
<1> QED
  BY <1>2, <1>3, <1>4, <1>5, <1>6, <1>7, <1>8, <1>9

\* Steps after which the innermost handler has returned.
Returns == stack # <<>> /\ ~exited /\ Top.op # "quit" /\ Return /\ UNCHANGED exited

\* The steps that return from an operation.
LEMMA ReturningActions ==
    ASSUME ControlInv,
           \/ Closed \/ CreateFails \/ CreateSession \/ LoadNoFile \/ LoadRefused \/ LoadEnd
    PROVE  Returns
<1>1. stack # <<>> => Top.op \in Ops /\ Top.pc \in PcsOf(Top.op)
  BY TopValid DEF ValidFrame
<1> QED
  BY <1>1 DEF Ops, Guarded, PcsOf, SavePcs, LatePcs, ClosePcs, At, AtOneOf, Returns,
     Closed, CreateFails, CreateSession, LoadNoFile, LoadRefused, LoadEnd, ReturnUnchanged

\* The step after a save goes on with the operation or returns from it.
LEMMA AfterSaveGoesOn ==
    ASSUME ControlInv, AfterSave
    PROVE  Continues \/ Returns
<1>1. Top.op \in Ops /\ Top.pc \in PcsOf(Top.op) /\ Top.pc = "saved"
  BY TopValid DEF ValidFrame, AfterSave, At, AtOneOf
<1> QED
  BY <1>1 DEF Ops, Guarded, PcsOf, SavePcs, LatePcs, ClosePcs, At, AtOneOf, Returns,
     Continues, AfterSave

\* Every step keeps the control invariant.
LEMMA ControlStep ==
    ASSUME ControlInv, FilesInv, [Next]_vars
    PROVE  ControlInv'
<1>1. ASSUME Continues \/ Returns PROVE ControlInv'
  BY <1>1, ControlContinues, ControlReturn DEF Returns
<1>2. ASSUME NEW s \in Sessions, file[s] = Absent PROVE s \notin Foreign
  BY <1>2 DEF FilesInv
<1> USE DEF Guarded, PcsOf, SavePcs, LatePcs, ClosePcs
<1>3. CASE Save
  BY <1>3, ControlBegin DEF Save
<1>4. CASE Close
  BY <1>4, ControlBegin DEF Close
<1>5. CASE Abort
  BY <1>5, ControlBegin DEF Abort
<1>6. CASE Quit
  BY <1>6, ControlQuit
<1>7. CASE \E s \in Sessions : Open(s)
  BY <1>7, ControlBegin DEF Open
<1>8. CASE \E s \in Sessions : New(s)
  BY <1>2, <1>8, ControlBegin DEF New
<1>9. CASE \E s \in Sessions : Duplicate(s)
  BY <1>2, <1>9, ControlBegin DEF Duplicate
<1>10. CASE CleanExit
  BY <1>10 DEF CleanExit, ControlInv, OneOperation
<1>11. CASE Idle
  BY <1>11, UntouchedActions, ControlUntouched DEF Idle
<1> QED
  BY <1>1, <1>3, <1>4, <1>5, <1>6, <1>7, <1>8, <1>9, <1>10, <1>11, UntouchedActions,
     ControlUntouched, ContinuingActions, ReturningActions, AfterSaveGoesOn
  DEF Next, Daemon, Request

----------------------------------------------------------------------------
(* Types                                                                   *)

\* Changing a client in the list to another record of the type.
LEMMA ChangedClient ==
    ASSUME client \in Seq(ClientRecords), NEW i \in DOMAIN client, NEW r \in ClientRecords,
           client' = [client EXCEPT ![i] = r]
    PROVE  client' \in Seq(ClientRecords)
BY ExceptSeq

\* A list with one more client is a list of clients.
LEMMA EnlistType ==
    ASSUME client \in Seq(ClientRecords), NEW prog \in Progs, NEW id \in Ids,
           NEW pid \in Pids \cup {0, -1}, Enlist(prog, id, pid)
    PROVE  client' \in Seq(ClientRecords)
<1>1. CASE \E i \in DOMAIN client :
              client' = [client EXCEPT ![i].pending = "START", ![i].pid = pid]
  <2>1. PICK i \in DOMAIN client :
           client' = [client EXCEPT ![i] = [client[i] EXCEPT !.pending = "START", !.pid = pid]]
    BY <1>1
  <2>2. client[i] \in ClientRecords
    OBVIOUS
  <2>3. [client[i] EXCEPT !.pending = "START", !.pid = pid] \in ClientRecords
    BY <2>2 DEF ClientRecords, Commands
  <2> QED
    BY <2>1, <2>3, ChangedClient
<1>2. CASE client' = Append(client,
             [id |-> id, prog |-> prog, pid |-> pid, active |-> FALSE, smart |-> FALSE,
              pending |-> "START", error |-> FALSE, addr |-> 0])
  BY <1>2, AppendProperties DEF ClientRecords, Commands
<1> QED
  BY <1>1, <1>2 DEF Enlist

\* Launching a client keeps the list's type.
LEMMA LaunchClientType ==
    ASSUME client \in Seq(ClientRecords), NEW prog \in Progs, NEW id \in Ids, Launch(prog, id)
    PROVE  client' \in Seq(ClientRecords)
BY EnlistType DEF Launch, Unborn

\* handle_client_process_death keeps the list's type.
LEMMA HandleDeathType ==
    ASSUME client \in Seq(ClientRecords), NEW p, HandleDeath(p)
    PROVE  client' \in Seq(ClientRecords)
<1>1. CASE \E i \in DOMAIN client : client' = RemoveAt(client, i)
  BY <1>1, RemoveAtFacts
<1>2. CASE \E i \in DOMAIN client :
              client' = [client EXCEPT ![i].pending = "NONE", ![i].active = FALSE, ![i].pid = 0]
  <2>1. PICK i \in DOMAIN client :
           client' = [client EXCEPT ![i] = [client[i] EXCEPT !.pending = "NONE",
                                                !.active = FALSE, !.pid = 0]]
    BY <1>2
  <2>2. client[i] \in ClientRecords
    OBVIOUS
  <2>3. [client[i] EXCEPT !.pending = "NONE", !.active = FALSE, !.pid = 0] \in ClientRecords
    BY <2>2 DEF ClientRecords, Commands
  <2> QED
    BY <2>1, <2>3, ChangedClient
<1> QED
  BY <1>1, <1>2 DEF HandleDeath

\* Telling clients to quit keeps the list's type.
LEMMA CommandQuitType ==
    ASSUME client \in Seq(ClientRecords), NEW which, CommandQuit(which)
    PROVE  client' \in Seq(ClientRecords)
<1> DEFINE new(i) == IF i \in which /\ Quits(i)
                     THEN [client[i] EXCEPT !.pending = "QUIT"] ELSE client[i]
<1>1. ASSUME NEW i \in DOMAIN client PROVE new(i) \in ClientRecords
  <2>1. client[i] \in ClientRecords
    OBVIOUS
  <2> QED
    BY <2>1 DEF ClientRecords, Commands
<1>2. client' = [i \in DOMAIN client |-> new(i)]
  BY DEF CommandQuit
<1> HIDE DEF new
<1> QED
  BY <1>1, <1>2, MappedSeq

\* A generated identifier is an identifier.
LEMMA FreshIdsType == FreshIds \subseteq Ids
BY DEF FreshIds

\* The fields of a client have their types.
LEMMA ClientFieldType ==
    ASSUME client \in Seq(ClientRecords), NEW i \in DOMAIN client
    PROVE  /\ client[i] \in ClientRecords /\ client[i].prog \in Progs
           /\ client[i].id \in Ids /\ client[i].addr \in Pids \cup {0}
           /\ client[i].pid \in Pids \cup {0, -1}
<1>1. client[i] \in ClientRecords
  OBVIOUS
<1> QED
  BY <1>1 DEF ClientRecords

\* What nsmd saves of its clients is the contents of a session file.
LEMMA ClientListType ==
    ASSUME client \in Seq(ClientRecords)
    PROVE  ClientList \in Seq(Entries) /\ ClientList # Absent
<1> DEFINE entry(i) ==
      [name |-> Name(client[i]), prog |-> client[i].prog, id |-> client[i].id]
<1>1. ASSUME NEW i \in DOMAIN client PROVE entry(i) \in Entries
  <2>1. client[i].prog \in Progs /\ client[i].id \in Ids
    BY ClientFieldType
  <2>2. Name(client[i]) \in Names
    BY <2>1 DEF Name, Names
  <2> QED
    BY <2>1, <2>2 DEF Entries
<1>2. ClientList = [i \in DOMAIN client |-> entry(i)]
  BY DEF ClientList
<1> HIDE DEF entry
<1>3. ClientList \in Seq(Entries)
  BY <1>1, <1>2, MappedSeq
<1> QED
  BY <1>3, ConstantsAssumption

\* The next entry of the session file and the rest of them have their types.
LEMMA WantedType ==
    ASSUME wanted \in Seq(Entries), wanted # <<>>
    PROVE  /\ Head(wanted) \in Entries /\ Tail(wanted) \in Seq(Entries)
           /\ Head(wanted).prog \in Progs /\ Head(wanted).id \in Ids
<1>1. Head(wanted) \in Entries /\ Tail(wanted) \in Seq(Entries)
  BY HeadTailProperties
<1> QED
  BY <1>1 DEF Entries

\* The fields of a process have their types.
LEMMA ProcFieldType ==
    ASSUME TypeOK, NEW p \in Pids
    PROVE  /\ proc[p] \in ProcRecords /\ proc[p].prog \in Progs
           /\ proc[p].todo \in Seq({"open", "save"})
<1>1. proc[p] \in ProcRecords
  BY DEF TypeOK
<1> QED
  BY <1>1 DEF ProcRecords

\* osc_announce keeps the list's type.
LEMMA AnnounceClientType ==
    ASSUME TypeOK, NEW p \in Pids, Announce(p)
    PROVE  client' \in Seq(ClientRecords)
<1>1. client \in Seq(ClientRecords) /\ proc[p].prog \in Progs
  BY ProcFieldType DEF TypeOK
<1>2. CASE \E i \in DOMAIN client :
              client' = [client EXCEPT ![i].pid = p, ![i].addr = p, ![i].smart = TRUE,
                                       ![i].active = TRUE, ![i].pending = "OPEN"]
  <2>i. PICK i \in DOMAIN client :
           client' = [client EXCEPT ![i].pid = p, ![i].addr = p, ![i].smart = TRUE,
                                    ![i].active = TRUE, ![i].pending = "OPEN"]
    BY <1>2, Zenon
  <2>1. client' = [client EXCEPT ![i] = [client[i] EXCEPT !.pid = p, !.addr = p,
                     !.smart = TRUE, !.active = TRUE, !.pending = "OPEN"]]
    BY <2>i
  <2>2. client[i] \in ClientRecords
    BY <1>1
  <2>3. [client[i] EXCEPT !.pid = p, !.addr = p, !.smart = TRUE, !.active = TRUE,
                          !.pending = "OPEN"] \in ClientRecords
    BY <2>2 DEF ClientRecords, Commands
  <2> QED
    BY <1>1, <2>1, <2>3, ChangedClient
<1>3. ASSUME NEW id \in FreshIds
      PROVE  [id |-> id, prog |-> proc[p].prog, pid |-> p, active |-> TRUE, smart |-> TRUE,
              pending |-> "OPEN", error |-> FALSE, addr |-> p] \in ClientRecords
  BY <1>1, FreshIdsType DEF ClientRecords, Commands
<1>4. CASE \E id \in FreshIds : client' = Append(client,
              [id |-> id, prog |-> proc[p].prog, pid |-> p, active |-> TRUE, smart |-> TRUE,
               pending |-> "OPEN", error |-> FALSE, addr |-> p])
  BY <1>1, <1>3, <1>4, AppendProperties
<1> QED
  BY <1>2, <1>4, Zenon DEF Announce

\* An answer keeps the list's type.
LEMMA AnswerClientType ==
    ASSUME TypeOK, NEW p \in Pids, NEW ok \in BOOLEAN, Answer(p, ok)
    PROVE  client' \in Seq(ClientRecords)
<1>1. client \in Seq(ClientRecords)
  BY DEF TypeOK
<1>2. CASE UNCHANGED client
  BY <1>1, <1>2
<1>3. CASE \E i \in DOMAIN client :
              client' = [client EXCEPT ![i].error = ~ok, ![i].pending = "NONE"]
  <2>1. PICK i \in DOMAIN client :
           client' = [client EXCEPT ![i] = [client[i] EXCEPT !.error = ~ok, !.pending = "NONE"]]
    BY <1>3
  <2>2. client[i] \in ClientRecords
    BY <1>1
  <2>3. [client[i] EXCEPT !.error = ~ok, !.pending = "NONE"] \in ClientRecords
    BY <2>2 DEF ClientRecords, Commands
  <2> QED
    BY <1>1, <2>1, <2>3, ChangedClient
<1> QED
  BY <1>2, <1>3 DEF Answer

\* Noting a pending command keeps the list's type.
LEMMA CommandedClientType ==
    ASSUME TypeOK, NEW i \in DOMAIN client, NEW command \in Commands,
           client' = [client EXCEPT ![i].pending = command]
    PROVE  client' \in Seq(ClientRecords)
<1>1. client \in Seq(ClientRecords) /\ client[i] \in ClientRecords
  BY DEF TypeOK
<1>2. [client[i] EXCEPT !.pending = command] \in ClientRecords
  BY <1>1 DEF ClientRecords
<1> QED
  BY <1>1, <1>2, ChangedClient

\* Switching a client keeps the list's type.
LEMMA SwitchClientType ==
    ASSUME TypeOK, SwitchClient
    PROVE  client' \in Seq(ClientRecords)
<1>1. client \in Seq(ClientRecords) /\ Head(wanted).id \in Ids
  BY WantedType DEF TypeOK, SwitchClient
<1>2. PICK i \in DOMAIN client :
         client' = [client EXCEPT ![i] =
                      [client[i] EXCEPT !.id = Head(wanted).id, !.pending = "OPEN"]]
  BY DEF SwitchClient
<1>3. client[i] \in ClientRecords
  BY <1>1
<1>4. [client[i] EXCEPT !.id = Head(wanted).id, !.pending = "OPEN"] \in ClientRecords
  BY <1>1, <1>3 DEF ClientRecords, Commands
<1> QED
  BY <1>1, <1>2, <1>4, ChangedClient

\* command_all_clients_to_save keeps the types of the list and of the session
\* files.
LEMMA CommandSaveType ==
    ASSUME TypeOK, CommandSave
    PROVE  client' \in Seq(ClientRecords) /\ file' \in [Sessions -> Seq(Entries) \cup {Absent}]
<1>1. client \in Seq(ClientRecords) /\ file \in [Sessions -> Seq(Entries) \cup {Absent}]
  BY DEF TypeOK
<1> DEFINE new(i) == IF client[i].active
                     THEN [client[i] EXCEPT !.pending = "SAVE"] ELSE client[i]
<1>2. ASSUME NEW i \in DOMAIN client PROVE new(i) \in ClientRecords
  <2>1. client[i] \in ClientRecords
    BY <1>1
  <2> QED
    BY <2>1 DEF ClientRecords, Commands
<1>3. UNCHANGED client \/ client' = [i \in DOMAIN client |-> new(i)]
  BY DEF CommandSave
<1> HIDE DEF new
<1>4. client' \in Seq(ClientRecords)
  BY <1>1, <1>2, <1>3, MappedSeq
<1>5. ClientList \in Seq(Entries)
  BY <1>1, ClientListType
<1>6. UNCHANGED file \/ file' = [file EXCEPT ![session_path] = ClientList]
  BY DEF CommandSave
<1> QED
  BY <1>1, <1>4, <1>5, <1>6

\* The client list, over all steps.
LEMMA ClientType ==
    ASSUME TypeOK, [Next]_vars
    PROVE  client' \in Seq(ClientRecords)
<1>1. client \in Seq(ClientRecords)
  BY DEF TypeOK
<1>2. CASE UNCHANGED client
  BY <1>1, <1>2
<1>3. ASSUME NEW i \in DOMAIN client, client' = RemoveAt(client, i)
      PROVE  client' \in Seq(ClientRecords)
  BY <1>1, <1>3, RemoveAtFacts
<1>4. CASE CommandSave
  BY <1>4, CommandSaveType
<1>5. CASE CloseBegin \/ LoadBegin
  BY <1>1, <1>2, <1>5, CommandQuitType DEF CloseBegin, LoadBegin
<1>6. CASE PurgeStep \/ ClearStep
  <2>1. cursor \in Nat \ {0} /\ cursor <= Len(client)
    BY <1>6 DEF PurgeStep, ClearStep, TypeOK
  <2>2. cursor \in DOMAIN client
    BY <1>1, <2>1
  <2> QED
    BY <1>2, <1>3, <1>6, <2>2 DEF PurgeStep, ClearStep
<1>7. CASE SwitchClient
  BY <1>7, SwitchClientType
<1>8. CASE LaunchClient
  BY <1>1, <1>8, WantedType, LaunchClientType DEF LaunchClient, TypeOK
<1>9. CASE \E prog \in Progs : Add(prog)
  BY <1>1, <1>9, FreshIdsType, LaunchClientType DEF Add
<1>10. ASSUME NEW i \in DOMAIN client, Stop(i) \/ Remove_(i) \/ Resume(i) \/ ClientSave(i)
       PROVE  client' \in Seq(ClientRecords)
  <2>1. "KILL" \in Commands /\ "SAVE" \in Commands
    BY DEF Commands
  <2>2. CASE Stop(i) \/ ClientSave(i)
    BY <2>1, <2>2, CommandedClientType DEF Stop, ClientSave
  <2>3. CASE Remove_(i)
    BY <1>3, <2>3 DEF Remove_
  <2>4. CASE Resume(i)
    BY <1>1, <2>4, ClientFieldType, LaunchClientType DEF Resume
  <2> QED
    BY <1>10, <2>2, <2>3, <2>4
<1>11. CASE Environment
  <2>1. PICK p \in Pids : \/ Announce(p) \/ AnnounceRefused(p)
                          \/ Answer(p, TRUE) \/ Answer(p, FALSE)
                          \/ Exit(p) \/ Reap(p) \/ PurgeDead(p)
    BY <1>11 DEF Environment
  <2>2. CASE Announce(p)
    BY <2>2, AnnounceClientType
  <2>3. CASE Answer(p, TRUE) \/ Answer(p, FALSE)
    BY <2>3, AnswerClientType
  <2>4. CASE Reap(p) \/ PurgeDead(p)
    BY <1>1, <2>4, HandleDeathType DEF Reap, PurgeDead
  <2>5. CASE AnnounceRefused(p) \/ Exit(p)
    BY <1>2, <2>5 DEF AnnounceRefused, Exit
  <2> QED
    BY <2>1, <2>2, <2>3, <2>4, <2>5
<1>12. CASE \/ RepliesDone \/ RepliesTimeout \/ AfterSave \/ KilledDone \/ KilledTimeout
            \/ PurgeEnd \/ ClearEnd \/ Closed \/ CleanExit \/ CreateFails \/ CreateSession
            \/ LoadNoFile \/ LoadRefused \/ SwitchEnd \/ AnnounceEnd \/ LoadEnd
            \/ Idle \/ UNCHANGED vars
  BY <1>2, <1>12 DEF RepliesDone, RepliesTimeout, AfterSave, KilledDone, KilledTimeout,
     PurgeEnd, ClearEnd, Closed, CleanExit, CreateFails, CreateSession, LoadNoFile,
     LoadRefused, SwitchEnd, AnnounceEnd, LoadEnd, Idle, ReturnUnchanged, vars
<1>13. CASE \/ Save \/ Close \/ Abort \/ Quit
            \/ \E s \in Sessions : Open(s) \/ New(s) \/ Duplicate(s)
  BY <1>2, <1>13 DEF Save, Close, Abort, Quit, Open, New, Duplicate, Begin
<1> QED
  BY <1>4, <1>5, <1>6, <1>7, <1>8, <1>9, <1>10, <1>11, <1>12, <1>13
  DEF Next, Daemon, Request

\* A new process has its type.
LEMMA ProcessType ==
    ASSUME NEW state \in ProcStates, NEW prog \in Progs
    PROVE  Process(state, prog) \in ProcRecords
BY DEF Process, ProcRecords

\* A dead process has its type.
LEMMA CorpseType ==
    ASSUME TypeOK, NEW p \in Pids
    PROVE  Corpse(p) \in ProcRecords
BY ProcFieldType DEF Corpse, Process, ProcRecords, ProcStates

\* Signalled processes have their type.
LEMMA SignalType ==
    ASSUME TypeOK, NEW ps
    PROVE  Signal(ps) \in [Pids -> ProcRecords]
BY ProcFieldType DEF Signal, ProcRecords

\* Processes that were sent a save have their type.
LEMMA SendType ==
    ASSUME TypeOK, NEW ps
    PROVE  Send(ps, "save") \in [Pids -> ProcRecords]
<1>1. \A p \in Pids : [proc[p] EXCEPT !.todo = Append(@, "save")] \in ProcRecords
  BY ProcFieldType, AppendProperties DEF ProcRecords
<1> QED
  BY <1>1, ProcFieldType DEF Send

\* Processes of which one was sent an open have their type.
LEMMA SendOpenType ==
    ASSUME TypeOK, NEW p
    PROVE  SendOpen(p) \in [Pids -> ProcRecords]
<1>1. ASSUME NEW q \in Pids
      PROVE  [proc[q] EXCEPT !.todo = Append(@, "open"), !.project = session_path]
                \in ProcRecords
  <2>1. proc[q] \in ProcRecords /\ Append(proc[q].todo, "open") \in Seq({"open", "save"})
    BY ProcFieldType, AppendProperties
  <2>2. session_path \in Sessions \cup {None}
    BY DEF TypeOK
  <2> QED
    BY <2>1, <2>2 DEF ProcRecords
<1> QED
  BY <1>1, ProcFieldType DEF SendOpen

\* A launch keeps the type of the processes.
LEMMA LaunchProcType ==
    ASSUME TypeOK, NEW prog \in Progs, NEW id, Launch(prog, id)
    PROVE  proc' \in [Pids -> ProcRecords]
<1>1. Process("starting", prog) \in ProcRecords
  BY ProcessType DEF ProcStates
<1> QED
  BY <1>1 DEF Launch, Unborn, TypeOK

\* The processes, over all steps.
LEMMA ProcType ==
    ASSUME TypeOK, [Next]_vars
    PROVE  proc' \in [Pids -> ProcRecords]
<1>1. proc \in [Pids -> ProcRecords]
  BY DEF TypeOK
<1>2. CASE UNCHANGED proc
  BY <1>1, <1>2
<1>3. ASSUME NEW ps, proc' = Signal(ps) PROVE proc' \in [Pids -> ProcRecords]
  BY <1>3, SignalType
<1>4. ASSUME NEW ps, proc' = Send(ps, "save") PROVE proc' \in [Pids -> ProcRecords]
  BY <1>4, SendType
<1>5. CASE CommandSave
  BY <1>2, <1>4, <1>5 DEF CommandSave
<1>6. CASE CloseBegin \/ LoadBegin
  BY <1>2, <1>3, <1>6 DEF CloseBegin, LoadBegin, CommandQuit
<1>7. CASE KilledTimeout
  BY <1>1, <1>7, CorpseType DEF KilledTimeout
<1>8. CASE SwitchClient
  BY <1>8, SendOpenType DEF SwitchClient
<1>9. CASE LaunchClient
  BY <1>9, WantedType, LaunchProcType DEF LaunchClient, TypeOK
<1>10. CASE \E prog \in Progs : Add(prog)
  BY <1>10, LaunchProcType DEF Add
<1>11. ASSUME NEW i \in DOMAIN client, Stop(i) \/ Remove_(i) \/ Resume(i) \/ ClientSave(i)
       PROVE  proc' \in [Pids -> ProcRecords]
  <2>1. client[i].prog \in Progs
    BY ClientFieldType DEF TypeOK
  <2> QED
    BY <1>2, <1>3, <1>4, <1>11, <2>1, LaunchProcType DEF Stop, Remove_, Resume, ClientSave
<1>12. CASE Environment
  <2>1. PICK p \in Pids : \/ Announce(p) \/ AnnounceRefused(p)
                          \/ Answer(p, TRUE) \/ Answer(p, FALSE)
                          \/ Exit(p) \/ Reap(p) \/ PurgeDead(p)
    BY <1>12 DEF Environment
  <2>2. proc[p] \in ProcRecords /\ proc[p].todo \in Seq({"open", "save"})
    BY ProcFieldType
  <2>3. CASE Announce(p)
    <3>1. Append(proc[p].todo, "open") \in Seq({"open", "save"})
      BY <2>2, AppendProperties
    <3>2. [proc[p] EXCEPT !.state = "up", !.project = session_path,
                          !.todo = Append(@, "open")] \in ProcRecords
      BY <2>2, <3>1 DEF ProcRecords, ProcStates, TypeOK
    <3>3. proc' = [proc EXCEPT ![p] = [proc[p] EXCEPT !.state = "up",
                      !.project = session_path, !.todo = Append(@, "open")]]
      BY <2>3 DEF Announce
    <3> QED
      BY <1>1, <3>2, <3>3
  <2>4. CASE AnnounceRefused(p)
    <3>1. [proc[p] EXCEPT !.state = "lone"] \in ProcRecords
      BY <2>2 DEF ProcRecords, ProcStates
    <3> QED
      BY <1>1, <2>4, <3>1 DEF AnnounceRefused
  <2>5. CASE Answer(p, TRUE) \/ Answer(p, FALSE)
    <3>1. Tail(proc[p].todo) \in Seq({"open", "save"})
      BY <2>2, <2>5, HeadTailProperties DEF Answer
    <3>2. [proc[p] EXCEPT !.todo = Tail(@)] \in ProcRecords
      BY <2>2, <3>1 DEF ProcRecords
    <3> QED
      BY <1>1, <2>5, <3>2 DEF Answer
  <2>6. CASE Exit(p)
    BY <1>1, <2>6, CorpseType DEF Exit
  <2>7. CASE Reap(p) \/ PurgeDead(p)
    <3>1. [proc[p] EXCEPT !.state = "gone"] \in ProcRecords
      BY <2>2 DEF ProcRecords, ProcStates
    <3> QED
      BY <1>1, <2>7, <3>1 DEF Reap, PurgeDead
  <2> QED
    BY <2>1, <2>3, <2>4, <2>5, <2>6, <2>7
<1>13. CASE \/ RepliesDone \/ RepliesTimeout \/ AfterSave \/ KilledDone
            \/ PurgeStep \/ PurgeEnd \/ ClearStep \/ ClearEnd \/ Closed \/ CleanExit
            \/ CreateFails \/ CreateSession \/ LoadNoFile \/ LoadRefused
            \/ SwitchEnd \/ AnnounceEnd \/ LoadEnd \/ Idle \/ UNCHANGED vars
  BY <1>2, <1>13 DEF RepliesDone, RepliesTimeout, AfterSave, KilledDone, PurgeStep,
     PurgeEnd, ClearStep, ClearEnd, Closed, CleanExit, CreateFails, CreateSession,
     LoadNoFile, LoadRefused, SwitchEnd, AnnounceEnd, LoadEnd, Idle, ReturnUnchanged, vars
<1>14. CASE \/ Save \/ Close \/ Abort \/ Quit
            \/ \E s \in Sessions : Open(s) \/ New(s) \/ Duplicate(s)
  BY <1>2, <1>14 DEF Save, Close, Abort, Quit, Open, New, Duplicate, Begin
<1> QED
  BY <1>5, <1>6, <1>7, <1>8, <1>9, <1>10, <1>11, <1>12, <1>13, <1>14
  DEF Next, Daemon, Request

----------------------------------------------------------------------------
(* The session and its files                                               *)

\* The steps that change the session, its file or a lock file, and no others.
FileActions ==
    \/ CommandSave \/ AfterSave \/ ClearEnd \/ CleanExit \/ CreateSession
    \/ LoadRefused \/ LoadBegin \/ LoadEnd

\* A step that is none of the file actions leaves the sessions, their files
\* and the locks alone.
LEMMA OtherActions ==
    ASSUME [Next]_vars
    PROVE  FileActions \/ UNCHANGED <<session_path, session_name, file, locks>>
<1> USE DEF SameSession, SameFiles
<1>1. CASE \/ RepliesDone \/ RepliesTimeout \/ CloseBegin \/ KilledDone \/ KilledTimeout
           \/ PurgeStep \/ PurgeEnd \/ ClearStep \/ Closed \/ CreateFails \/ LoadNoFile
           \/ SwitchClient \/ LaunchClient \/ SwitchEnd \/ AnnounceEnd
           \/ Idle \/ UNCHANGED vars
  BY <1>1 DEF RepliesDone, RepliesTimeout, CloseBegin, KilledDone, KilledTimeout, PurgeStep,
     PurgeEnd, ClearStep, Closed, CreateFails, LoadNoFile, SwitchClient, LaunchClient,
     SwitchEnd, AnnounceEnd, Idle, ReturnUnchanged, vars
<1>2. CASE Request
  BY <1>2 DEF Request, Save, Close, Abort, Quit, Open, New, Duplicate, Begin, Add, Stop,
     Remove_, Resume, ClientSave
<1>3. CASE Environment
  BY <1>3 DEF Environment, Announce, AnnounceRefused, Answer, Exit, Reap, PurgeDead
<1> QED
  BY <1>1, <1>2, <1>3 DEF Next, Daemon, FileActions

\* What the place of the running operation says of its kind and its target.
LEMMA TargetFacts ==
    ASSUME ControlInv
    PROVE  /\ At("load") \/ At("loaded") \/ At("create") => Top.target \in Sessions
           /\ At("create") => Top.op = "new"
           /\ At("clear") => Top.op \in {"new", "close", "abort", "quit"}
           /\ At("saved") /\ Top.op = "duplicate" => Top.target \in Sessions
           /\ Top.op \in {"new", "duplicate"} /\ stack # <<>> => Top.target \notin Foreign
<1>1. stack # <<>> => ValidFrame(Top) /\ Top.op \in Ops
  BY TopValid
<1> QED
  BY <1>1 DEF ValidFrame, Ops, Guarded, PcsOf, SavePcs, LatePcs, ClosePcs, At, AtOneOf

\* Every step keeps the types of the session, the session files and the
\* locks.
LEMMA SessionTypes ==
    ASSUME TypeOK, ControlInv, FilesInv, [Next]_vars
    PROVE  /\ session_path' \in Sessions \cup {None}
           /\ session_name' \in Sessions \cup {None}
           /\ file' \in [Sessions -> Seq(Entries) \cup {Absent}]
           /\ locks' \subseteq (Sessions \X Sessions)
<1>1. /\ session_path \in Sessions \cup {None} /\ session_name \in Sessions \cup {None}
      /\ file \in [Sessions -> Seq(Entries) \cup {Absent}]
      /\ locks \subseteq (Sessions \X Sessions)
  BY DEF TypeOK
<1>2. CASE UNCHANGED <<session_path, session_name, file, locks>>
  BY <1>1, <1>2
<1>3. CASE CommandSave
  BY <1>1, <1>3, CommandSaveType DEF CommandSave
<1>4. CASE AfterSave
  <2>1. UNCHANGED file \/ /\ Top.op = "duplicate" /\ At("saved")
                          /\ file' = [file EXCEPT ![Top.target] = file[session_path]]
    BY <1>4 DEF AfterSave
  <2>2. Top.op = "duplicate" /\ At("saved") => session_path \in Sessions
    BY TopFacts DEF FilesInv, ControlInv, At, AtOneOf, SavePcs, Quitting
  <2> QED
    BY <1>1, <1>4, <2>1, <2>2, TargetFacts DEF AfterSave
<1>5. CASE ClearEnd
  BY <1>1, <1>5 DEF ClearEnd
<1>6. CASE CleanExit
  BY <1>1, <1>6 DEF CleanExit
<1>7. CASE CreateSession
  <2>1. ClientList \in Seq(Entries)
    BY ClientListType DEF TypeOK
  <2>2. Top.target \in Sessions
    BY <1>7, TargetFacts DEF CreateSession
  <2> QED
    BY <1>1, <1>7, <2>1, <2>2 DEF CreateSession
<1>8. CASE LoadRefused \/ LoadBegin
  <2>1. Top.target \in Sessions
    BY <1>8, TargetFacts DEF LoadRefused, LoadBegin
  <2> QED
    BY <1>1, <1>8, <2>1 DEF LoadRefused, LoadBegin, OwnLockDropped
<1>9. CASE LoadEnd
  <2>1. Top.target \in Sessions
    BY <1>9, TargetFacts DEF LoadEnd
  <2> QED
    BY <1>1, <1>9, <2>1 DEF LoadEnd
<1> QED
  BY <1>2, <1>3, <1>4, <1>5, <1>6, <1>7, <1>8, <1>9, OtherActions DEF FileActions

\* The remaining variables.
LEMMA CounterTypes ==
    ASSUME TypeOK, ControlInv, [Next]_vars
    PROVE  /\ pending_operation' \in {"NONE", "OPEN", "NEW", "DUPLICATE", "CLOSE"}
           /\ cursor' \in Nat \ {0}
           /\ wanted' \in Seq(Entries)
           /\ exited' \in BOOLEAN
           /\ requests' \in Nat
<1>1. /\ pending_operation \in {"NONE", "OPEN", "NEW", "DUPLICATE", "CLOSE"}
      /\ cursor \in Nat \ {0} /\ wanted \in Seq(Entries)
      /\ exited \in BOOLEAN /\ requests \in Nat
      /\ file \in [Sessions -> Seq(Entries) \cup {Absent}]
      /\ client \in Seq(ClientRecords)
  BY DEF TypeOK
<1> DEFINE P == pending_operation' \in {"NONE", "OPEN", "NEW", "DUPLICATE", "CLOSE"}
           Q == /\ cursor' \in Nat \ {0} /\ wanted' \in Seq(Entries)
                /\ exited' \in BOOLEAN /\ requests' \in Nat
<1>2. CASE UNCHANGED pending_operation /\ UNCHANGED <<cursor, wanted, exited, requests>>
  BY <1>1, <1>2, SMTT(40)
<1> USE DEF SameSession, SameFiles, SameControl
<1>3. CASE Environment \/ Idle \/ UNCHANGED vars
  BY <1>2, <1>3 DEF Environment, Announce, AnnounceRefused, Answer, Exit, Reap, PurgeDead,
     Idle, vars
<1>4. CASE Request
  <2>1. requests' = requests + 1 /\ UNCHANGED <<cursor, wanted, exited>>
    BY <1>4 DEF Request, Save, Close, Abort, Quit, Open, New, Duplicate, Begin, Add, Stop,
       Remove_, Resume, ClientSave, Asked
  <2>2. UNCHANGED pending_operation \/ \E op \in Guarded : pending_operation' = Operation(op)
    BY <1>4 DEF Request, Save, Close, Abort, Quit, Open, New, Duplicate, Begin, Add, Stop,
       Remove_, Resume, ClientSave
  <2>3. P
    BY <1>1, <2>2 DEF Operation, Guarded
  <2> QED
    BY <1>1, <2>1, <2>3
<1>5. CASE \/ CommandSave \/ RepliesDone \/ RepliesTimeout \/ SwitchEnd \/ AnnounceEnd
  BY <1>2, <1>5 DEF CommandSave, RepliesDone, RepliesTimeout, SwitchEnd, AnnounceEnd
<1>6. CASE \/ AfterSave \/ Closed \/ CreateFails \/ CreateSession \/ LoadNoFile
           \/ LoadRefused \/ LoadEnd
  <2>1. P
    BY <1>1, <1>6 DEF AfterSave, Closed, CreateFails, CreateSession, LoadNoFile, LoadRefused,
       LoadEnd, ReturnUnchanged, Return
  <2>2. UNCHANGED <<cursor, wanted, exited, requests>>
    BY <1>6 DEF AfterSave, Closed, CreateFails, CreateSession, LoadNoFile, LoadRefused,
       LoadEnd, ReturnUnchanged
  <2> QED
    BY <1>1, <2>1, <2>2
<1>7. CASE CloseBegin \/ KilledDone \/ KilledTimeout \/ PurgeEnd \/ ClearEnd
  <2>1. UNCHANGED <<pending_operation, wanted, exited, requests>>
    BY <1>7 DEF CloseBegin, KilledDone, KilledTimeout, PurgeEnd, ClearEnd
  <2>2. cursor' = cursor \/ cursor' = 1
    BY <1>7 DEF CloseBegin, KilledDone, KilledTimeout, PurgeEnd, ClearEnd, GotoKilled
  <2> QED
    BY <1>1, <2>1, <2>2
<1>8. CASE PurgeStep \/ ClearStep
  <2>1. UNCHANGED <<pending_operation, wanted, exited, requests>>
    BY <1>8 DEF PurgeStep, ClearStep
  <2>2. cursor' = cursor + 1 \/ cursor' = 1
    BY <1>8 DEF PurgeStep, ClearStep, NextPos
  <2> QED
    BY <1>1, <2>1, <2>2
<1>9. CASE CleanExit
  BY <1>1, <1>9 DEF CleanExit
<1>10. CASE LoadBegin
  <2>1. Top.target \in Sessions
    BY <1>10, TargetFacts DEF LoadBegin
  <2>2. wanted' \in Seq(Entries)
    BY <1>1, <1>10, <2>1 DEF LoadBegin
  <2>3. UNCHANGED <<pending_operation, exited, requests>> /\ (cursor' = cursor \/ cursor' = 1)
    BY <1>10 DEF LoadBegin, GotoKilled
  <2> QED
    BY <1>1, <2>2, <2>3
<1>11. CASE SwitchClient \/ LaunchClient
  <2>1. wanted' \in Seq(Entries)
    BY <1>11, WantedType DEF SwitchClient, LaunchClient, TypeOK
  <2>2. UNCHANGED <<pending_operation, cursor, exited, requests>>
    BY <1>11 DEF SwitchClient, LaunchClient
  <2> QED
    BY <1>1, <2>1, <2>2
<1> QED
  BY <1>3, <1>4, <1>5, <1>6, <1>7, <1>8, <1>9, <1>10, <1>11 DEF Next, Daemon

\* Every step keeps the types.
LEMMA TypeStep ==
    ASSUME TypeOK, ControlInv, FilesInv, [Next]_vars
    PROVE  TypeOK'
<1>1. stack' \in Seq(Frames)
  BY ControlStep DEF ControlInv
<1> QED
  BY <1>1, ClientType, ProcType, SessionTypes, CounterTypes DEF TypeOK

\* Nothing interrupts the exit of nsmd.
LEMMA QuittingStep ==
    ASSUME Quitting, Next
    PROVE  CleanExit
<1>1. ~Listening /\ stack # <<>> /\ Top.pc = "closed" /\ Top.op = "quit"
  BY DEF Quitting, Listening, WaitPcs
<1>2. ~Request /\ ~Environment /\ ~Idle
  BY <1>1 DEF Request, Save, Close, Abort, Quit, Open, New, Duplicate, Begin, Add, Stop,
     Remove_, Resume, ClientSave, Environment, Announce, AnnounceRefused, Answer, Exit,
     Reap, PurgeDead, Idle
<1> QED
  BY <1>1, <1>2 DEF Next, Daemon, At, AtOneOf, CommandSave, RepliesDone, RepliesTimeout,
     AfterSave, CloseBegin, KilledDone, KilledTimeout, PurgeStep, PurgeEnd, ClearStep,
     ClearEnd, Closed, CreateFails, CreateSession, LoadNoFile, LoadRefused, LoadBegin,
     SwitchClient, LaunchClient, SwitchEnd, AnnounceEnd, LoadEnd

\* Only the end of close_session leaves nsmd without a session.
LEMMA SessionLost ==
    ASSUME TypeOK, ControlInv, [Next]_vars, session_path # None, session_path' = None
    PROVE  ClearEnd
<1>1. FileActions
  BY OtherActions
<1>2. Top.target # None \/ ~(At("load") \/ At("create"))
  BY TargetFacts, ConstantsAssumption
<1> QED
  BY <1>1, <1>2 DEF FileActions, CommandSave, AfterSave, CleanExit, CreateSession,
     LoadRefused, LoadBegin, LoadEnd

\* A handler reaches its save only by starting with it.
LEMMA SavingStep ==
    ASSUME TypeOK, ControlInv, Next, ~Quitting,
           NEW k \in DOMAIN stack', stack'[k].op = "duplicate", stack'[k].pc \in SavePcs
    PROVE  \/ \E j \in DOMAIN stack : stack[j].op = "duplicate" /\ stack[j].pc \in SavePcs
           \/ session_path # None
<1>1. /\ DOMAIN stack = 1..Len(stack) /\ Len(stack) \in Nat
      /\ stack # <<>> => 1 \in DOMAIN stack /\ Top = stack[1] /\ Top.pc \in PcsOf(Top.op)
  BY TopFacts, TopValid DEF ControlInv, ValidFrame
<1>2. CASE Untouched
  BY <1>2 DEF Untouched
<1>3. ASSUME NEW pc \in PcsOf(Top.op), Continues, Goto(pc), pc \in SavePcs => Top.pc \in SavePcs
      PROVE  \E j \in DOMAIN stack : stack[j].op = "duplicate" /\ stack[j].pc \in SavePcs
  <2>1. pc \in Pcs /\ stack # <<>>
    BY <1>3, PcsOfFacts, TopValid DEF Continues
  <2>2. /\ DOMAIN stack' = DOMAIN stack
        /\ stack'[1].op = stack[1].op /\ stack'[1].pc = pc
        /\ \A j \in DOMAIN stack : j # 1 => stack'[j] = stack[j]
    BY <1>3, <2>1, GotoFacts DEF ControlInv
  <2> QED
    BY <1>1, <1>3, <2>1, <2>2
<1>4. ASSUME Returns
      PROVE  \E j \in DOMAIN stack : stack[j].op = "duplicate" /\ stack[j].pc \in SavePcs
  <2>1. stack'[k] = stack[k + 1] /\ k + 1 \in DOMAIN stack
    BY <1>4, PopFacts DEF Returns, Return, ControlInv
  <2> QED
    BY <2>1
<1>5. ASSUME NEW op \in Ops, NEW target \in Sessions \cup {None}, NEW pc \in Pcs,
             Push(op, target, pc), op = "duplicate" => session_path # None
      PROVE  \/ \E j \in DOMAIN stack : stack[j].op = "duplicate" /\ stack[j].pc \in SavePcs
             \/ session_path # None
  <2>1. /\ DOMAIN stack' = 1..(Len(stack) + 1)
        /\ stack'[1] = [op |-> op, target |-> target, pc |-> pc]
        /\ \A j \in DOMAIN stack' : j # 1 => stack'[j] = stack[j - 1]
    BY <1>5, PushFacts DEF ControlInv
  <2>2. CASE k = 1
    BY <1>5, <2>1, <2>2
  <2>3. CASE k # 1
    <3>1. k - 1 \in DOMAIN stack /\ stack'[k] = stack[k - 1]
      BY <1>1, <2>1, <2>3
    <3> QED
      BY <3>1
  <2> QED
    BY <2>2, <2>3
<1>6. CASE Request
  <2>1. Untouched \/ \E op \in Ops, target \in Sessions \cup {None}, pc \in Pcs :
                        Push(op, target, pc) /\ (op = "duplicate" => session_path # None)
    <3>1. CASE \/ \E prog \in Progs : Add(prog)
               \/ \E i \in DOMAIN client : Stop(i) \/ Remove_(i) \/ Resume(i) \/ ClientSave(i)
      BY <3>1, UntouchedActions
    <3>2. CASE \/ Save \/ Close \/ Abort \/ Quit
               \/ \E s \in Sessions : Open(s) \/ New(s) \/ Duplicate(s)
      <4> USE DEF Ops, Guarded, Pcs, RunPcs
      <4>1. CASE Save
        BY <4>1 DEF Save, Begin
      <4>2. CASE Close
        BY <4>2 DEF Close, Begin
      <4>3. CASE Abort
        BY <4>3 DEF Abort, Begin
      <4>4. CASE Quit
        BY <4>4 DEF Quit
      <4>5. CASE \E s \in Sessions : Open(s)
        BY <4>5 DEF Open, Begin
      <4>6. CASE \E s \in Sessions : New(s)
        BY <4>6 DEF New, Begin
      <4>7. CASE \E s \in Sessions : Duplicate(s)
        BY <4>7 DEF Duplicate, Begin
      <4> QED
        BY <3>2, <4>1, <4>2, <4>3, <4>4, <4>5, <4>6, <4>7
    <3> QED
      BY <1>6, <3>1, <3>2 DEF Request
  <2> QED
    BY <1>2, <1>5, <2>1
<1>7. CASE Environment \/ Idle
  BY <1>2, <1>7, UntouchedActions DEF Idle
<1>8. CASE \/ CommandSave \/ RepliesDone \/ RepliesTimeout
  <2>1. Top.pc \in SavePcs \/ Goto("loaded")
    BY <1>8 DEF CommandSave, RepliesDone, RepliesTimeout, At, AtOneOf, AfterReplies, SavePcs
  <2>2. Continues /\ \E pc \in PcsOf(Top.op) : Goto(pc)
    BY <1>8, ContinuingActions DEF Continues
  <2>3. CASE Top.pc \in SavePcs
    BY <1>3, <2>2, <2>3
  <2>4. CASE Goto("loaded")
    <3>1. Top.pc = "opening" \/ Top.pc \in SavePcs
      BY <1>8 DEF CommandSave, RepliesDone, RepliesTimeout, At, AtOneOf, SavePcs
    <3>2. Top.pc = "opening" => "loaded" \in PcsOf(Top.op)
      BY <1>1, <2>2, TopValid DEF Continues, PcsOf, Ops, Guarded, SavePcs, LatePcs, ClosePcs
    <3> QED
      BY <1>3, <2>2, <2>3, <2>4, <3>1, <3>2 DEF SavePcs
  <2> QED
    BY <2>1, <2>3, <2>4
<1>9. CASE \/ CloseBegin \/ KilledDone \/ KilledTimeout \/ PurgeEnd \/ ClearEnd
           \/ LoadBegin \/ SwitchEnd \/ AnnounceEnd
  <2>1. Continues
    BY <1>9, ContinuingActions
  <2>2. PICK pc \in PcsOf(Top.op) : Goto(pc)
    BY <2>1 DEF Continues
  <2>3. stack'[1].pc = pc /\ pc \in Pcs
    BY <2>1, <2>2, GotoFacts, PcsOfFacts, TopValid DEF Continues, ControlInv
  <2>4. pc \notin SavePcs
    <3>1. \E q \in {"closed", "create", "killed", "purge", "switch", "clear", "announce",
                    "opening"} : Goto(q)
      BY <1>9 DEF CloseBegin, KilledDone, KilledTimeout, PurgeEnd, ClearEnd, LoadBegin,
         SwitchEnd, AnnounceEnd, GotoKilled, AfterClose
    <3>2. stack'[1].pc \in {"closed", "create", "killed", "purge", "switch", "clear",
                            "announce", "opening"}
      BY <2>1, <3>1, GotoFacts DEF Continues, ControlInv, Pcs, WaitPcs, RunPcs
    <3> QED
      BY <2>3, <3>2 DEF SavePcs
  <2> QED
    BY <1>3, <2>1, <2>2, <2>4
<1>10. CASE PurgeStep \/ ClearStep \/ SwitchClient \/ LaunchClient
  BY <1>2, <1>10, UntouchedActions
<1>11. CASE AfterSave
  BY <1>3, <1>4, <1>11, AfterSaveGoesOn DEF Continues, AfterSave, At, AtOneOf, SavePcs
<1>12. CASE \/ Closed \/ CreateFails \/ CreateSession \/ LoadNoFile \/ LoadRefused \/ LoadEnd
  BY <1>4, <1>12, ReturningActions
<1>13. CASE CleanExit
  BY <1>13 DEF CleanExit
<1> QED
  BY <1>6, <1>7, <1>8, <1>9, <1>10, <1>11, <1>12, <1>13 DEF Next, Daemon

\* No duplicate is left without the session it copies.
LEMMA DuplicateStep ==
    ASSUME TypeOK, ControlInv, FilesInv, [Next]_vars,
           NEW k \in DOMAIN stack', stack'[k].op = "duplicate", stack'[k].pc \in SavePcs
    PROVE  session_path' # None \/ Quitting'
<1>1. CASE UNCHANGED vars
  BY <1>1 DEF vars, FilesInv, Quitting, Top
<1>2. CASE Quitting /\ Next
  BY <1>2, QuittingStep DEF CleanExit
<1>3. CASE ~Quitting /\ Next /\ ~ClearEnd
  <2>1. session_path # None
    BY <1>3, SavingStep DEF FilesInv
  <2> QED
    BY <1>3, <2>1, SessionLost
<1>4. CASE ClearEnd
  <2>1. Continues
    BY <1>4, ContinuingActions
  <2>2. Top = stack[1] /\ 1 \in DOMAIN stack /\ stack # <<>> /\ ~exited
    BY <2>1, TopFacts DEF Continues, ControlInv
  <2>3. Goto(AfterClose) /\ AfterClose \in Pcs
    BY <1>4 DEF ClearEnd, AfterClose, Pcs, RunPcs
  <2>4. /\ DOMAIN stack' = DOMAIN stack /\ stack' # <<>>
        /\ stack'[1].op = stack[1].op /\ stack'[1].pc = AfterClose
        /\ \A j \in DOMAIN stack : j # 1 => stack'[j] = stack[j]
    BY <2>2, <2>3, GotoFacts DEF ControlInv
  <2>5. Top.op \in {"new", "close", "abort", "quit"}
    BY <1>4, TargetFacts DEF ClearEnd
  <2>6. CASE Top.op = "quit"
    BY <2>2, <2>4, <2>6 DEF Quitting, Top, AfterClose
  <2>7. CASE Top.op # "quit"
    <3>1. Top.op \in Guarded /\ k \in DOMAIN stack /\ stack[k].op = "duplicate"
      BY <2>2, <2>4, <2>5, <2>7 DEF Guarded
    <3>2. k # 1
      BY <2>2, <2>5, <3>1
    <3>3. stack[k].op \notin Guarded
      BY <2>2, <3>1, <3>2 DEF ControlInv, OneOperation
    <3> QED
      BY <3>1, <3>3 DEF Guarded
  <2> QED
    BY <2>6, <2>7
<1> QED
  BY <1>1, <1>2, <1>3, <1>4

\* Every step keeps what is known about the session files.
LEMMA FilesStep ==
    ASSUME TypeOK, ControlInv, FilesInv, [Next]_vars
    PROVE  FilesInv'
<1>1. TypeOK'
  BY TypeStep
<1>2. ASSUME NEW s \in Foreign PROVE file'[s] # Absent
  <2>1. /\ s \in Sessions /\ file[s] # Absent
        /\ file \in [Sessions -> Seq(Entries) \cup {Absent}]
    BY ConstantsAssumption DEF FilesInv, Foreign
  <2>2. ClientList \in Seq(Entries)
    BY ClientListType DEF TypeOK
  <2>3. ClientList # Absent
    BY <2>2, ConstantsAssumption
  <2>4. CASE CommandSave
    BY <2>1, <2>3, <2>4 DEF CommandSave
  <2>5. CASE AfterSave
    <3>1. Top.op = "duplicate" => Top.target # s
      BY <2>5, TargetFacts DEF AfterSave, At, AtOneOf
    <3> QED
      BY <2>1, <2>5, <3>1 DEF AfterSave
  <2>6. CASE CreateSession
    BY <2>1, <2>3, <2>6 DEF CreateSession
  <2>7. CASE UNCHANGED file
    BY <2>1, <2>7
  <2> QED
    BY <2>4, <2>5, <2>6, <2>7, OtherActions
    DEF FileActions, ClearEnd, CleanExit, LoadRefused, LoadBegin, LoadEnd
<1> QED
  BY <1>1, <1>2, DuplicateStep DEF TypeOK, FilesInv

----------------------------------------------------------------------------
(* Theorems                                                                *)

LEMMA InitialState ==
    ASSUME Init
    PROVE  TypeOK /\ ControlInv /\ FilesInv
<1>a. LoadAtStart \in Sessions \cup {None}
  BY ConstantsAssumption
<1>b. InitFiles \in [Sessions -> Seq(Entries) \cup {Absent}]
  BY ConstantsAssumption
<1> DEFINE start == [op |-> "load", target |-> LoadAtStart, pc |-> "load"]
<1>1. stack = <<>> \/ (LoadAtStart \in Sessions /\ stack = <<start>>)
  <2>1. stack = IF LoadAtStart = None THEN <<>> ELSE <<start>>
    BY Zenon DEF Init
  <2> HIDE DEF start
  <2> QED BY <1>a, <2>1
<1>2. start \in Frames
  BY <1>a DEF Frames, Ops, WaitPcs, RunPcs
<1>3. start.op = "load" /\ start.pc = "load" /\ start.target = LoadAtStart
  OBVIOUS
<1>4. stack \in Seq(Frames) /\ \A k \in DOMAIN stack : stack[k] = start
  <2> HIDE DEF start
  <2>1. stack = <<>> \/ stack = <<start>>
    BY <1>1
  <2>2. CASE stack = <<>>
    BY <2>2
  <2>3. CASE stack = <<start>>
    BY <1>2, <2>3
  <2> QED BY <2>1, <2>2, <2>3
<1>5. \A k \in DOMAIN stack : /\ stack[k].op = "load" /\ stack[k].pc = "load"
                              /\ stack[k].target \in Sessions
  BY <1>1, <1>3, <1>4
<1>6. ControlInv
  BY <1>4, <1>5 DEF Init, ControlInv, OneOperation, Guarded, ValidFrame, PcsOf
<1>7. proc \in [Pids -> ProcRecords]
  BY ConstantsAssumption, ProcessType DEF Init, ProcStates
<1>8. /\ client \in Seq(ClientRecords) /\ wanted \in Seq(Entries)
      /\ locks \subseteq (Sessions \X Sessions)
  BY ConstantsAssumption DEF Init
<1>9. /\ session_path = None /\ session_name = None /\ pending_operation = "NONE"
      /\ cursor = 1 /\ exited = FALSE /\ requests = 0 /\ file = InitFiles
  BY Zenon DEF Init
<1>10. FilesInv
  BY <1>5, <1>9, <1>b, ConstantsAssumption DEF FilesInv, Foreign
<1> QED
  <2>1. /\ session_path \in Sessions \cup {None} /\ session_name \in Sessions \cup {None}
        /\ pending_operation \in {"NONE", "OPEN", "NEW", "DUPLICATE", "CLOSE"}
        /\ cursor \in Nat \ {0} /\ requests \in Nat
    <3>1. session_path = None /\ session_name = None /\ pending_operation = "NONE"
          /\ cursor = 1 /\ requests = 0
      BY <1>9, Zenon
    <3> QED BY <3>1
  <2>4. exited \in BOOLEAN
    BY <1>9, Zenon
  <2>2. file \in [Sessions -> Seq(Entries) \cup {Absent}]
    BY <1>9, <1>b
  <2>3. TypeOK
    BY <1>4, <1>7, <1>8, <2>1, <2>2, <2>4, Zenon DEF TypeOK
  <2> QED BY <1>6, <1>10, <2>3

\* Deleting the own lock file never deletes another nsmd's: the open session is
\* not one of theirs, and the path is part of the name of a lock file.
LEMMA OwnLockIsOurs ==
    ASSUME OthersKeepTheirSessions, NEW s \in LockedByOther
    PROVE  /\ <<s, s>> \in OwnLockDropped
           /\ <<s, s>> \in locks \ {<<session_name, session_path>>}
BY Zenon DEF OthersKeepTheirSessions, OwnLockDropped

\* No step touches a session another daemon has open.
LEMMA OthersStep ==
    ASSUME ControlInv, OthersKeepTheirSessions, [Next]_vars
    PROVE  OthersKeepTheirSessions'
<1> SUFFICES ASSUME NEW s \in LockedByOther
             PROVE  <<s, s>> \in locks' /\ session_path' # s
  BY DEF OthersKeepTheirSessions
<1>1. <<s, s>> \in locks /\ session_path # s /\ s # None /\ s \in Foreign
  BY ConstantsAssumption DEF OthersKeepTheirSessions, Foreign
<1>2. CASE CommandSave \/ AfterSave \/ CleanExit \/ LoadEnd
  BY <1>1, <1>2 DEF CommandSave, AfterSave, CleanExit, LoadEnd
<1>3. CASE ClearEnd
  BY <1>1, <1>3, OwnLockIsOurs DEF ClearEnd
<1>4. CASE CreateSession
  <2>1. Top.target \notin Foreign
    BY <1>4, TargetFacts DEF CreateSession, At, AtOneOf
  <2> QED
    BY <1>1, <1>4, <2>1 DEF CreateSession
<1>5. CASE LoadRefused
  BY <1>1, <1>5, OwnLockIsOurs DEF LoadRefused
<1>6. CASE LoadBegin
  BY <1>1, <1>6, OwnLockIsOurs DEF LoadBegin
<1>7. CASE UNCHANGED <<session_path, session_name, file, locks>>
  BY <1>1, <1>7
<1> QED
  BY <1>2, <1>3, <1>4, <1>5, <1>6, <1>7, OtherActions DEF FileActions

\* The inductive invariant: nsmd's variables have their types, the handlers in
\* progress nest as the wait loops let them, and a file that is not nsmd's to
\* create is never taken for a missing one.
THEOREM Invariance == Spec => [](TypeOK /\ ControlInv /\ FilesInv)
<1>1. Init => TypeOK /\ ControlInv /\ FilesInv
  BY InitialState
<1>2. TypeOK /\ ControlInv /\ FilesInv /\ [Next]_vars
        => (TypeOK /\ ControlInv /\ FilesInv)'
  BY TypeStep, ControlStep, FilesStep
<1> QED
  BY <1>1, <1>2, PTL DEF Spec

\* Every variable of nsmd and of its clients keeps its type in every reachable
\* state, for any number of programs, sessions, processes and requests.
THEOREM TypeCorrect == Spec => []TypeOK
BY Invariance, PTL

\* pending_operation is set exactly while one guarded operation is in progress,
\* and never two are, however deep save, quit and client handlers nest in it.
THEOREM OneOperationAtATime == Spec => []OneOperation
<1>1. ControlInv => OneOperation
  BY DEF ControlInv
<1> QED
  BY <1>1, Invariance, PTL

\* A session another nsmd has open keeps its lock file and is never opened,
\* created or duplicated here, whatever is locked and whichever handlers nest:
\* load_session_file looks for the lock file before it takes the session, new
\* and duplicate refuse a session that has a file.
THEOREM OthersAreSafe == Spec => []OthersKeepTheirSessions
<1>1. Init => OthersKeepTheirSessions
  BY ConstantsAssumption DEF Init, OthersKeepTheirSessions
<1>2. ControlInv /\ OthersKeepTheirSessions /\ [Next]_vars => OthersKeepTheirSessions'
  BY OthersStep
<1> QED
  BY <1>1, <1>2, Invariance, PTL DEF Spec
=============================================================================
