--------------------------- MODULE NsmProxyProofs ---------------------------
(***************************************************************************)
(* The safety properties of NsmProxy for any number of children.           *)
(*                                                                         *)
(* What makes them inductive is OneOfEach: until a second window opens     *)
(* beside one that has not been waited for, every child that has not been  *)
(* waited for, running or not, is the one that gui_pid or _pid names.      *)
(***************************************************************************)
EXTENDS NsmProxy, FiniteSetTheorems, TLAPS

ChildOK(ch) ==
    /\ DOMAIN ch \subseteq Pids
    /\ \A c \in DOMAIN ch : ch[c] \in ChildRecords
    /\ Cardinality(DOMAIN ch) <= MaxChildren

GuiPidIsChild == gui_pid \in Children \cup {0}

NothingBeforeOpen ==
    /\ ~opened => Children = {} /\ pid = 0 /\ gui_pid = 0
    /\ window_seen => opened

OneOfEach ==
    ~doubled => \A c \in Children : /\ child[c].kind = "gui" => c = gui_pid
                                    /\ child[c].kind = "program" => c = pid

IInv ==
    /\ TypeOK /\ GuiPidIsChild /\ NothingBeforeOpen /\ OneOfEach
    /\ NothingOutlives /\ WindowStateTold

-----------------------------------------------------------------------------
(* The operators on children. *)

\* A signal changes no child but in having told it.
LEMMA SignalledOK ==
    ASSUME NEW ch, ChildOK(ch), NEW p
    PROVE  /\ ChildOK(Signalled(ch, p))
           /\ DOMAIN Signalled(ch, p) = DOMAIN ch
           /\ \A c \in DOMAIN ch :
                 /\ Signalled(ch, p)[c].kind = ch[c].kind
                 /\ Signalled(ch, p)[c].end = ch[c].end
                 /\ ch[c].told => Signalled(ch, p)[c].told
                 /\ c = p => Signalled(ch, p)[c].told
  <1>1. DOMAIN Signalled(ch, p) = DOMAIN ch
    BY DEF Signalled
  <1>2. ASSUME NEW c \in DOMAIN ch
        PROVE  /\ Signalled(ch, p)[c] \in ChildRecords
               /\ Signalled(ch, p)[c].kind = ch[c].kind
               /\ Signalled(ch, p)[c].end = ch[c].end
               /\ ch[c].told => Signalled(ch, p)[c].told
               /\ c = p => Signalled(ch, p)[c].told
    <2>1. ch[c] \in ChildRecords
      BY DEF ChildOK
    <2>2. CASE c = p
      BY <2>1, <2>2 DEF Signalled, ChildRecords
    <2>3. CASE c # p
      BY <2>1, <2>3 DEF Signalled, ChildRecords
    <2>. QED
      BY <2>2, <2>3
  <1>. QED
    BY <1>1, <1>2 DEF ChildOK

\* A fork adds a running child that nobody has told anything.
LEMMA ForkedOK ==
    ASSUME NEW ch, ChildOK(ch), NEW p \in Pids, p \notin DOMAIN ch,
           Cardinality(DOMAIN ch) < MaxChildren, NEW kind \in {"gui", "program"}
    PROVE  /\ ChildOK(Forked(ch, p, kind))
           /\ DOMAIN Forked(ch, p, kind) = DOMAIN ch \cup {p}
           /\ Forked(ch, p, kind)[p].kind = kind
           /\ \A c \in DOMAIN ch : Forked(ch, p, kind)[c] = ch[c]
  <1>1. DOMAIN Forked(ch, p, kind) = DOMAIN ch \cup {p}
    BY DEF Forked
  <1>2. \A c \in DOMAIN ch : Forked(ch, p, kind)[c] = ch[c]
    BY DEF Forked
  <1>3. Forked(ch, p, kind)[p] = [kind |-> kind, end |-> None, told |-> FALSE]
    BY DEF Forked
  <1>4. Forked(ch, p, kind)[p] \in ChildRecords /\ Forked(ch, p, kind)[p].kind = kind
    BY <1>3 DEF ChildRecords
  <1>5. IsFiniteSet(Pids)
    BY FS_Interval, MaxChildrenAssumption DEF Pids
  <1>6. IsFiniteSet(DOMAIN ch)
    BY <1>5, FS_Subset DEF ChildOK
  <1>7. Cardinality(DOMAIN ch \cup {p}) <= MaxChildren
    <2>1. Cardinality(DOMAIN ch \cup {p}) = Cardinality(DOMAIN ch) + 1
      BY <1>6, FS_AddElement
    <2>2. Cardinality(DOMAIN ch) \in Nat
      BY <1>6, FS_CardinalityType
    <2>. QED
      BY <2>1, <2>2, MaxChildrenAssumption
  <1>8. \A c \in DOMAIN ch : ch[c] \in ChildRecords
    BY DEF ChildOK
  <1>. QED
    BY <1>1, <1>2, <1>4, <1>7, <1>8 DEF ChildOK

\* waitpid takes one child away.
LEMMA ReapedOK ==
    ASSUME ChildOK(child), NEW c \in Children
    PROVE  /\ ChildOK(Reaped(c))
           /\ DOMAIN Reaped(c) = Children \ {c}
           /\ \A d \in Children \ {c} : Reaped(c)[d] = child[d]
           /\ Cardinality(DOMAIN Reaped(c)) < MaxChildren
  <1>1. DOMAIN Reaped(c) = Children \ {c}
    BY DEF Reaped
  <1>2. \A d \in Children \ {c} : Reaped(c)[d] = child[d]
    BY DEF Reaped
  <1>3. IsFiniteSet(Pids)
    BY FS_Interval, MaxChildrenAssumption DEF Pids
  <1>4. IsFiniteSet(Children)
    BY <1>3, FS_Subset DEF ChildOK, Children
  <1>5. /\ Cardinality(Children \ {c}) = Cardinality(Children) - 1
        /\ Cardinality(Children) \in Nat
    BY <1>4, FS_RemoveElement, FS_CardinalityType
  <1>6. Cardinality(Children \ {c}) < MaxChildren
    BY <1>5, MaxChildrenAssumption DEF ChildOK, Children
  <1>7. Cardinality(Children \ {c}) <= MaxChildren
    BY <1>5, MaxChildrenAssumption DEF ChildOK, Children
  <1>8. \A d \in Children \ {c} : Reaped(c)[d] \in ChildRecords
    BY <1>2 DEF ChildOK, Children
  <1>9. Children \ {c} \subseteq Pids
    BY DEF ChildOK, Children
  <1>. QED
    BY <1>1, <1>2, <1>6, <1>7, <1>8, <1>9 DEF ChildOK

\* There is a free pid at every fork.
LEMMA ForkIsFresh ==
    ASSUME ChildOK(child), GuiPidIsChild
    PROVE  fork \in Pids /\ fork \notin Children \cup {pid, gui_pid} /\ fork # 0
  <1>1. \E p \in Pids : p \notin Children \cup {pid, gui_pid}
    <2>1. SUFFICES ASSUME Pids \subseteq Children \cup {pid, gui_pid}
                   PROVE  FALSE
      OBVIOUS
    <2>2. 0 \notin Pids
      BY MaxChildrenAssumption DEF Pids
    <2>3. Pids \subseteq Children \cup {pid}
      BY <2>1, <2>2 DEF GuiPidIsChild
    <2>4. IsFiniteSet(Pids) /\ Cardinality(Pids) = MaxChildren + 2
      BY FS_Interval, MaxChildrenAssumption DEF Pids
    <2>5. IsFiniteSet(Children)
      BY <2>4, FS_Subset DEF ChildOK, Children
    <2>6. /\ IsFiniteSet(Children \cup {pid})
          /\ Cardinality(Children \cup {pid}) <= Cardinality(Children) + 1
      <3>1. /\ IsFiniteSet(Children \cup {pid})
            /\ Cardinality(Children \cup {pid}) =
                  IF pid \in Children THEN Cardinality(Children)
                                     ELSE Cardinality(Children) + 1
        BY <2>5, FS_AddElement
      <3>2. Cardinality(Children) \in Nat
        BY <2>5, FS_CardinalityType
      <3>. QED
        BY <3>1, <3>2
    <2>7. Cardinality(Pids) <= Cardinality(Children \cup {pid})
      BY <2>3, <2>6, FS_Subset
    <2>8. /\ Cardinality(Children) \in Nat
          /\ Cardinality(Children \cup {pid}) \in Nat
          /\ Cardinality(Children) <= MaxChildren
      BY <2>5, <2>6, FS_CardinalityType DEF ChildOK, Children
    <2>. QED
      BY <2>4, <2>6, <2>7, <2>8, MaxChildrenAssumption
  <1>2. fork \in Pids /\ fork \notin Children \cup {pid, gui_pid}
    BY <1>1 DEF fork
  <1>. QED
    BY <1>2, MaxChildrenAssumption DEF Pids

-----------------------------------------------------------------------------
(* The inductive invariant.  Steps that leave the children, the pids and what *)
(* nsmd was told alone are dealt with together.                               *)

Rest ==
    /\ config \in {None, TRUE, FALSE}
    /\ phase \in {"signals", "reaping", "messages", "end", "dead"}
    /\ sigchld \in BOOLEAN /\ executable \in BOOLEAN /\ project_file \in BOOLEAN
    /\ opened \in BOOLEAN /\ die_now \in BOOLEAN
    /\ window_seen \in BOOLEAN /\ doubled \in BOOLEAN

\* The type invariant, divided into the variables the steps change together.
LEMMA TypeParts ==
    TypeOK <=> /\ ChildOK(child)
               /\ pid \in Pids \cup {0} /\ gui_pid \in Pids \cup {0}
               /\ gui_told \in {"shown", "hidden"}
               /\ Rest
  BY DEF TypeOK, ChildOK, Children, Rest

\* The inductive invariant holds when the proxy starts: it has no child, no
\* program and no window.
THEOREM InitialState == Init => IInv
  <1>. SUFFICES ASSUME Init PROVE IInv
    OBVIOUS
  <1>1. Children = {}
    BY DEF Init, NoChildren, Children
  <1>2. ChildOK(child)
    BY <1>1, FS_EmptySet, MaxChildrenAssumption DEF ChildOK, Children
  <1>3. TypeOK
    BY <1>2, TypeParts DEF Init, Rest
  <1>. QED
    BY <1>1, <1>3 DEF Init, IInv, GuiPidIsChild, NothingBeforeOpen, OneOfEach,
       NothingOutlives, WindowStateTold, Windows, Programs

-----------------------------------------------------------------------------
(* Steps after which the same children are there, each told at least as much. *)

SameChildren ==
    /\ ChildOK(child') /\ Children' = Children
    /\ \A c \in Children :
          /\ child'[c].kind = child[c].kind
          /\ (child[c].end # None => child'[c].end # None)
          /\ (child[c].told => child'[c].told)

\* For the next state it is enough to show the parts.
LEMMA TypePartsNext ==
    ASSUME ChildOK(child'), pid' \in Pids \cup {0}, gui_pid' \in Pids \cup {0},
           gui_told' \in {"shown", "hidden"}, Rest'
    PROVE  TypeOK'
  BY DEF TypeOK, ChildOK, Children, Rest

\* A step that starts no child, reaps none, and leaves the proxy's records of
\* them alone keeps the invariant.
LEMMA SameChildrenStep ==
    ASSUME IInv, SameChildren, UNCHANGED <<pid, gui_pid, gui_told, doubled>>,
           Rest', NothingBeforeOpen', phase' # "dead"
    PROVE  IInv'
  <1>1. TypeOK'
    BY TypeParts, TypePartsNext DEF IInv, SameChildren
  <1>2. GuiPidIsChild' /\ OneOfEach'
    BY DEF IInv, SameChildren, GuiPidIsChild, OneOfEach
  <1>3. WindowStateTold'
    <2>1. SUFFICES ASSUME ~doubled' PROVE WindowStateTold'
      BY DEF WindowStateTold
    <2>2. Windows' \subseteq Windows
      BY DEF SameChildren, Windows, Running
    <2>3. \A c \in Windows : c \in Children
      BY DEF Windows
    <2>. QED
      BY <2>1, <2>2, <2>3 DEF IInv, SameChildren, WindowStateTold
  <1>4. NothingOutlives'
    BY DEF NothingOutlives
  <1>. QED
    BY <1>1, <1>2, <1>3, <1>4 DEF IInv

\* Children that are not touched stay the same.
LEMMA UntouchedIsSame ==
    ASSUME TypeOK, UNCHANGED child PROVE SameChildren
  BY TypeParts DEF SameChildren, Children

\* A signal leaves the children the same, and tells the one it is sent to.
LEMMA SignalledIsSame ==
    ASSUME TypeOK, NEW p, child' = Signalled(child, p)
    PROVE  SameChildren /\ \A c \in Children : c = p => child'[c].told
  <1>1. ChildOK(child)
    BY TypeParts
  <1>. QED
    BY <1>1, SignalledOK DEF SameChildren, Children

-----------------------------------------------------------------------------
(* Forks and the wait for one child. *)

\* show_gui, after a child has been waited for or not: "before" is what is left
\* of the children, one place among them free.
LEMMA ShowGuiStep ==
    ASSUME IInv, NEW before, ChildOK(before), DOMAIN before \subseteq Children,
           \A c \in DOMAIN before : before[c] = child[c],
           Cardinality(DOMAIN before) < MaxChildren,
           show_gui(before),
           pid' \in Pids \cup {0},
           ~doubled => \A c \in DOMAIN before : before[c].kind = "program" => c = pid',
           Rest', opened', phase' # "dead"
    PROVE  IInv'
  <1>1. ChildOK(child) /\ GuiPidIsChild
    BY TypeParts DEF IInv
  <1>2. fork \in Pids /\ fork \notin Children /\ fork # 0
    BY <1>1, ForkIsFresh
  <1>3. child' = Forked(before, fork, "gui") /\ gui_pid' = fork /\ gui_told' = "shown"
    BY DEF show_gui
  <1>4. /\ ChildOK(child') /\ Children' = DOMAIN before \cup {fork}
        /\ child'[fork].kind = "gui"
        /\ \A c \in DOMAIN before : child'[c] = before[c]
    BY <1>2, <1>3, ForkedOK DEF Children
  <1>5. ~doubled' => ~doubled /\ \A c \in DOMAIN before : before[c].kind # "gui"
    BY DEF show_gui
  <1>6. TypeOK'
    BY <1>2, <1>3, <1>4, TypePartsNext
  <1>7. GuiPidIsChild' /\ WindowStateTold' /\ NothingBeforeOpen'
    BY <1>3, <1>4 DEF GuiPidIsChild, WindowStateTold, NothingBeforeOpen
  <1>8. OneOfEach'
    BY <1>3, <1>4, <1>5 DEF OneOfEach
  <1>9. NothingOutlives'
    BY DEF NothingOutlives
  <1>. QED
    BY <1>6, <1>7, <1>8, <1>9 DEF IInv

\* start(): a program is forked only where _pid is 0, so there is none.
LEMMA StartStep ==
    ASSUME IInv, NEW hide \in BOOLEAN, start(hide),
           UNCHANGED <<gui_pid, doubled>>,
           \/ UNCHANGED gui_told
           \/ gui_told' = "hidden" /\ Children = {},
           Rest', opened', phase' # "dead"
    PROVE  IInv'
  <1>. DEFINE before == IF hide THEN Signalled(child, gui_pid) ELSE child
  <1>1. ChildOK(child) /\ GuiPidIsChild
    BY TypeParts DEF IInv
  <1>2. /\ ChildOK(before) /\ DOMAIN before = Children
        /\ \A c \in Children : /\ before[c].kind = child[c].kind
                              /\ before[c].end = child[c].end
                              /\ (child[c].told => before[c].told)
    BY <1>1, SignalledOK DEF Children
  <1>3. NothingBeforeOpen'
    BY DEF NothingBeforeOpen
  <1>4. CASE pid # 0
    <2>1. child' = before /\ UNCHANGED pid
      BY <1>4 DEF start
    <2>2. SameChildren
      BY <1>2, <2>1 DEF SameChildren, Children
    <2>3. CASE UNCHANGED gui_told
      BY <1>3, <2>1, <2>2, <2>3, SameChildrenStep
    <2>4. CASE gui_told' = "hidden" /\ Children = {}
      <3>1. Children' = {}
        BY <2>2, <2>4 DEF SameChildren
      <3>2. TypeOK'
        BY <2>1, <2>2, <2>4, TypeParts, TypePartsNext DEF IInv, SameChildren
      <3>3. GuiPidIsChild' /\ OneOfEach' /\ WindowStateTold' /\ NothingOutlives'
        BY <2>4, <3>1 DEF IInv, GuiPidIsChild, OneOfEach, WindowStateTold,
           NothingOutlives, Windows
      <3>. QED
        BY <1>3, <3>2, <3>3 DEF IInv
    <2>. QED
      BY <2>3, <2>4
  <1>5. CASE pid = 0
    <2>1. /\ Cardinality(Children) < MaxChildren
          /\ pid' = fork
          /\ child' = Forked(before, fork, "program")
      BY <1>5 DEF start
    <2>2. fork \in Pids /\ fork \notin Children /\ fork # 0
      BY <1>1, ForkIsFresh
    <2>3. /\ ChildOK(child') /\ Children' = Children \cup {fork}
          /\ child'[fork].kind = "program"
          /\ \A c \in Children : child'[c] = before[c]
      <3>. HIDE DEF before
      <3>1. /\ ChildOK(before) /\ fork \in Pids /\ fork \notin DOMAIN before
            /\ Cardinality(DOMAIN before) < MaxChildren
        BY <1>2, <2>1, <2>2
      <3>2. /\ ChildOK(Forked(before, fork, "program"))
            /\ DOMAIN Forked(before, fork, "program") = DOMAIN before \cup {fork}
            /\ Forked(before, fork, "program")[fork].kind = "program"
            /\ \A c \in DOMAIN before : Forked(before, fork, "program")[c] = before[c]
        BY <3>1, ForkedOK
      <3>. QED
        BY <1>2, <2>1, <3>2 DEF Children
    <2>4. TypeOK'
      BY <2>1, <2>2, <2>3, TypeParts, TypePartsNext DEF IInv
    <2>5. GuiPidIsChild'
      BY <2>3 DEF IInv, GuiPidIsChild
    <2>6. 0 \notin Children
      BY <1>1, MaxChildrenAssumption DEF ChildOK, Children, Pids
    <2>7. OneOfEach'
      <3>. HIDE DEF before
      <3>1. ~doubled => \A c \in Children : child[c].kind = "gui" => c = gui_pid
        BY DEF IInv, OneOfEach
      <3>2. ~doubled => \A c \in Children : child[c].kind # "program"
        BY <1>5, <2>6 DEF IInv, OneOfEach
      <3>. QED
        BY <1>2, <2>1, <2>3, <3>1, <3>2 DEF OneOfEach
    <2>8. WindowStateTold'
      <3>. HIDE DEF before
      <3>1. SUFFICES ASSUME ~doubled' PROVE WindowStateTold'
        BY DEF WindowStateTold
      <3>2. \A c \in Windows' : c \in Windows /\ (child[c].told => child'[c].told)
        BY <1>2, <2>3 DEF Windows, Running
      <3>3. \A c \in Windows : c \in Children
        BY DEF Windows
      <3>. QED
        BY <2>3, <3>1, <3>2, <3>3 DEF IInv, WindowStateTold
    <2>9. NothingOutlives'
      BY DEF NothingOutlives
    <2>. QED
      BY <1>3, <2>4, <2>5, <2>7, <2>8, <2>9 DEF IInv
  <1>. QED
    BY <1>4, <1>5

\* handle_sigchld, for each thing the end of the child may mean.
LEMMA ReapingStep ==
    ASSUME IInv, NEW c \in Children, handle_sigchld(c)
    PROVE  IInv'
  <1>1. ChildOK(child)
    BY TypeParts DEF IInv
  <1>2. /\ ChildOK(Reaped(c)) /\ DOMAIN Reaped(c) = Children \ {c}
        /\ \A d \in Children \ {c} : Reaped(c)[d] = child[d]
        /\ Cardinality(DOMAIN Reaped(c)) < MaxChildren
    BY <1>1, ReapedOK
  <1>3. /\ phase = "reaping" /\ phase' # "dead"
        /\ UNCHANGED <<sigchld, settings, phase>>
    BY DEF handle_sigchld
  <1>4. opened /\ opened'
    BY <1>3 DEF IInv, NothingBeforeOpen, settings
  <1>5. NothingOutlives' /\ NothingBeforeOpen'
    BY <1>3, <1>4 DEF NothingOutlives, NothingBeforeOpen
  <1>6. CASE c = gui_pid /\ WindowClosed(c)
    <2>1. /\ child' = Reaped(c) /\ gui_pid' = 0 /\ gui_told' = "hidden"
          /\ UNCHANGED <<pid, die_now, window_seen, doubled>>
      BY <1>6 DEF WindowClosed, history
    <2>2. Children' = Children \ {c}
      BY <1>2, <2>1 DEF Children
    <2>3. TypeOK'
      BY <1>2, <1>3, <2>1, TypeParts, TypePartsNext DEF IInv, Rest, settings
    <2>4. GuiPidIsChild'
      BY <2>1 DEF GuiPidIsChild
    <2>5. OneOfEach'
      BY <1>2, <1>6, <2>1, <2>2 DEF IInv, OneOfEach
    <2>6. WindowStateTold'
      BY <1>2, <1>6, <2>1, <2>2 DEF IInv, OneOfEach, WindowStateTold, Windows
    <2>. QED
      BY <1>5, <2>3, <2>4, <2>5, <2>6 DEF IInv
  <1>7. CASE c # gui_pid /\ handle_client_death(c)
    <2>1. /\ show_gui(Reaped(c)) /\ pid' = 0 /\ UNCHANGED die_now
      BY <1>7 DEF handle_client_death
    <2>2. window_seen' \in BOOLEAN /\ doubled' \in BOOLEAN
      BY <2>1 DEF show_gui, IInv, TypeOK
    <2>3. Rest'
      BY <1>3, <2>1, <2>2, TypeParts DEF IInv, Rest, settings
    <2>4. ~doubled => \A d \in DOMAIN Reaped(c) : Reaped(c)[d].kind # "program"
      <3>1. child[c].kind \in {"gui", "program"}
        BY <1>1 DEF ChildOK, ChildRecords, Children
      <3>2. ~doubled => c = pid
        BY <1>7, <3>1 DEF IInv, OneOfEach
      <3>. QED
        BY <1>2, <3>2 DEF IInv, OneOfEach
    <2>. QED
      BY <1>2, <1>3, <1>4, <2>1, <2>3, <2>4, ShowGuiStep
  <1>8. CASE c # gui_pid /\ (NormalEnd(c) \/ OtherSignal(c))
    <2>1. /\ child' = Reaped(c) /\ die_now' \in BOOLEAN
          /\ UNCHANGED <<pid, gui_pid, gui_told, window_seen, doubled>>
      BY <1>8 DEF NormalEnd, OtherSignal, history, IInv, TypeOK
    <2>2. Children' = Children \ {c}
      BY <1>2, <2>1 DEF Children
    <2>3. TypeOK'
      BY <1>2, <1>3, <2>1, TypeParts, TypePartsNext DEF IInv, Rest, settings
    <2>4. GuiPidIsChild'
      BY <1>8, <2>1, <2>2 DEF IInv, GuiPidIsChild
    <2>5. OneOfEach'
      BY <1>2, <2>1, <2>2 DEF IInv, OneOfEach
    <2>6. WindowStateTold'
      <3>1. SUFFICES ASSUME ~doubled' PROVE WindowStateTold'
        BY DEF WindowStateTold
      <3>2. \A d \in Windows' : d \in Windows /\ child'[d] = child[d]
        BY <1>2, <2>1, <2>2 DEF Windows, Running
      <3>. QED
        BY <1>8, <2>1, <2>2, <3>1, <3>2 DEF IInv, WindowStateTold
    <2>. QED
      BY <1>5, <2>3, <2>4, <2>5, <2>6 DEF IInv
  <1>. QED
    BY <1>6, <1>7, <1>8 DEF handle_sigchld

-----------------------------------------------------------------------------
(* The theorem, action by action. *)

LEMMA NextStep == IInv /\ [Next]_vars => IInv'
  <1>. SUFFICES ASSUME IInv, [Next]_vars PROVE IInv'
    OBVIOUS
  <1>. USE DEF history, settings, processes
  <1>1. TypeOK /\ ChildOK(child) /\ Rest
    BY TypeParts DEF IInv
  \* The three opens that are handled: nothing was started before.
  <1>2. CASE osc_open
    <2>1. /\ Message /\ ~opened /\ opened' /\ UNCHANGED <<sigchld, die_now>>
          /\ Children = {} /\ pid = 0 /\ gui_pid = 0 /\ ~window_seen
      BY <1>2 DEF osc_open, IInv, NothingBeforeOpen
    <2>2. phase' = "end" /\ phase' # "dead"
      BY <2>1 DEF Message
    <2>3. CASE /\ config # None
               /\ executable' = (executable \/ config)
               /\ dump
               /\ IF executable' THEN start(FALSE) ELSE UNCHANGED <<child, pid>>
               /\ project_file' = TRUE /\ gui_told' = "hidden"
               /\ UNCHANGED <<gui_pid, history>>
      <3>1. config \in BOOLEAN /\ executable' \in BOOLEAN
        BY <1>1, <2>3 DEF Rest
      <3>2. Rest'
        BY <1>1, <2>1, <2>2, <2>3, <3>1 DEF Rest, dump
      <3>3. CASE executable'
        BY <2>1, <2>2, <2>3, <3>2, <3>3, StartStep
      <3>4. CASE ~executable'
        <4>1. UNCHANGED <<child, pid, gui_pid>> /\ Children' = {}
          BY <2>1, <2>3, <3>4 DEF Children
        <4>2. TypeOK'
          BY <1>1, <2>3, <3>2, <4>1, TypeParts, TypePartsNext
        <4>. QED
          BY <2>1, <2>2, <2>3, <4>1, <4>2 DEF IInv, GuiPidIsChild,
             NothingBeforeOpen, OneOfEach, NothingOutlives, WindowStateTold, Windows
      <3>. QED
        BY <3>3, <3>4
    <2>4. CASE /\ config = None
               /\ show_gui(child)
               /\ project_file' = TRUE
               /\ UNCHANGED <<pid, executable, config>>
      <3>1. Rest'
        BY <1>1, <2>1, <2>2, <2>4 DEF Rest, show_gui
      <3>2. Cardinality(DOMAIN child) < MaxChildren
        BY <2>1, FS_EmptySet, MaxChildrenAssumption DEF Children
      <3>3. pid' \in Pids \cup {0}
        BY <2>1, <2>4
      <3>. QED
        BY <1>1, <2>1, <2>2, <2>4, <3>1, <3>2, <3>3, ShowGuiStep DEF Children
    <2>5. CASE UNCHANGED <<child, pid, gui_pid, executable, config, project_file,
                           gui_told, history>>
      <3>1. Rest' /\ NothingBeforeOpen'
        BY <1>1, <2>1, <2>2, <2>5 DEF Rest, NothingBeforeOpen
      <3>. QED
        BY <1>1, <2>2, <2>5, <3>1, UntouchedIsSame, SameChildrenStep
    <2>. QED
      BY <1>2, <2>3, <2>4, <2>5 DEF osc_open
  <1>3. CASE osc_show_gui
    <2>1. /\ phase' = "end" /\ phase' # "dead" /\ opened' /\ show_gui(child)
          /\ Cardinality(DOMAIN child) < MaxChildren /\ UNCHANGED pid
      BY <1>3 DEF osc_show_gui, Message, Children
    <2>2. Rest'
      BY <1>1, <1>3, <2>1 DEF osc_show_gui, show_gui, Rest
    <2>3. pid' \in Pids \cup {0}
      BY <1>1, <2>1 DEF TypeOK
    <2>4. ~doubled => \A c \in DOMAIN child : child[c].kind = "program" => c = pid'
      BY <2>1 DEF IInv, OneOfEach, Children
    <2>. QED
      BY <1>1, <2>1, <2>2, <2>3, <2>4, ShowGuiStep DEF Children
  <1>4. CASE osc_hide_gui
    <2>1. /\ phase' = "end" /\ opened /\ gui_told' = "hidden"
          /\ child' = Signalled(child, gui_pid)
          /\ UNCHANGED <<pid, gui_pid, doubled, window_seen, opened>>
      BY <1>4 DEF osc_hide_gui, Message
    <2>2. Rest'
      BY <1>1, <1>4, <2>1 DEF osc_hide_gui, Rest
    <2>3. SameChildren /\ \A c \in Children : c = gui_pid => child'[c].told
      BY <1>1, <2>1, SignalledIsSame
    <2>4. TypeOK'
      BY <2>1, <2>2, <2>3, <1>1, TypeParts, TypePartsNext DEF SameChildren
    <2>5. GuiPidIsChild' /\ OneOfEach' /\ NothingOutlives' /\ NothingBeforeOpen'
      BY <2>1, <2>3 DEF IInv, SameChildren, GuiPidIsChild, OneOfEach,
         NothingOutlives, NothingBeforeOpen
    <2>6. WindowStateTold'
      BY <2>1, <2>3 DEF IInv, SameChildren, OneOfEach, WindowStateTold, Windows
    <2>. QED
      BY <2>4, <2>5, <2>6 DEF IInv
  <1>5. CASE osc_start
    <2>1. /\ phase' = "end" /\ phase' # "dead" /\ start(TRUE)
          /\ UNCHANGED <<gui_pid, gui_told, doubled>>
      BY <1>5 DEF osc_start, Message
    <2>2. Rest' /\ opened'
      BY <1>1, <1>5, <2>1 DEF osc_start, Rest, dump, IInv, NothingBeforeOpen
    <2>. QED
      BY <2>1, <2>2, StartStep
  <1>6. CASE osc_kill
    <2>1. /\ phase' = "end" /\ child' = Signalled(child, pid)
          /\ UNCHANGED <<pid, gui_pid, gui_told, doubled, window_seen, opened>>
      BY <1>6 DEF osc_kill, Message
    <2>2. opened
      BY <1>6 DEF osc_kill, IInv, NothingBeforeOpen
    <2>3. Rest'
      BY <1>1, <1>6, <2>1 DEF osc_kill, Rest
    <2>4. NothingBeforeOpen'
      BY <2>1, <2>2 DEF NothingBeforeOpen
    <2>. QED
      BY <1>1, <2>1, <2>3, <2>4, SignalledIsSame, SameChildrenStep
  \* The steps that leave the children alone.
  <1>7. CASE \/ osc_save \/ NoMessage \/ ReadSignalFd \/ NoMoreChildren
             \/ NextRound \/ signal_handler
    <2>1. /\ phase' # "dead"
          /\ UNCHANGED <<child, pid, gui_pid, gui_told, doubled, window_seen, opened>>
      BY <1>7 DEF osc_save, NoMessage, Message, ReadSignalFd, NoMoreChildren,
         NextRound, signal_handler
    <2>2. Rest'
      BY <1>1, <1>7 DEF osc_save, dump, NoMessage, Message, ReadSignalFd,
         NoMoreChildren, NextRound, signal_handler, Rest
    <2>3. NothingBeforeOpen'
      BY <2>1 DEF IInv, NothingBeforeOpen, Children
    <2>. QED
      BY <1>1, <2>1, <2>2, <2>3, UntouchedIsSame, SameChildrenStep
  <1>8. CASE die
    <2>. DEFINE once == Signalled(child, gui_pid)
    <2>1. /\ phase' = "dead" /\ child' = Signalled(once, pid)
          /\ UNCHANGED <<pid, gui_pid, gui_told, doubled, window_seen, opened>>
      BY <1>8 DEF die
    <2>2. Rest'
      BY <1>1, <1>8 DEF die, Rest
    <2>3. /\ ChildOK(once) /\ DOMAIN once = Children
          /\ \A c \in Children : /\ once[c].kind = child[c].kind
                                /\ once[c].end = child[c].end
                                /\ (child[c].told => once[c].told)
                                /\ (c = gui_pid => once[c].told)
      BY <1>1, SignalledOK DEF Children
    <2>. HIDE DEF once
    <2>4. /\ ChildOK(child') /\ Children' = Children
          /\ \A c \in Children : /\ child'[c].kind = once[c].kind
                                /\ child'[c].end = once[c].end
                                /\ (once[c].told => child'[c].told)
                                /\ (c = pid => child'[c].told)
      BY <2>1, <2>3, SignalledOK DEF Children
    <2>5. \A c \in Children : /\ child'[c].kind = child[c].kind
                              /\ (child[c].told => child'[c].told)
                              /\ (c \in {pid, gui_pid} => child'[c].told)
      BY <2>3, <2>4
    <2>6. TypeOK'
      BY <1>1, <2>1, <2>2, <2>4, TypeParts, TypePartsNext
    <2>7. GuiPidIsChild' /\ OneOfEach' /\ NothingBeforeOpen'
      BY <2>1, <2>4, <2>5 DEF IInv, GuiPidIsChild, OneOfEach, NothingBeforeOpen
    <2>8. NothingOutlives'
      BY <2>1, <2>4, <2>5 DEF IInv, OneOfEach, NothingOutlives, Programs, Windows
    <2>9. WindowStateTold'
      BY <2>1, <2>4, <2>5 DEF IInv, OneOfEach, WindowStateTold, Windows
    <2>. QED
      BY <2>6, <2>7, <2>8, <2>9 DEF IInv
  <1>9. ASSUME NEW c \in Children, handle_sigchld(c) PROVE IInv'
    BY <1>9, ReapingStep
  <1>10. ASSUME NEW c \in Children, NEW end \in Ends, ChildEnds(c, end) PROVE IInv'
    <2>1. /\ child' = [child EXCEPT ![c].end = end] /\ phase' # "dead"
          /\ UNCHANGED <<pid, gui_pid, gui_told, doubled, window_seen, opened>>
      BY <1>10 DEF ChildEnds
    <2>2. Rest'
      BY <1>1, <1>10 DEF ChildEnds, Rest
    <2>3. Children' = Children /\ DOMAIN child' = DOMAIN child
      BY <2>1 DEF Children
    <2>4. \A d \in Children : child[d] \in ChildRecords
      BY <1>1 DEF ChildOK, Children
    <2>5. ASSUME NEW d \in Children
          PROVE  /\ child'[d] \in ChildRecords
                 /\ child'[d].kind = child[d].kind
                 /\ child'[d].told = child[d].told
                 /\ (child[d].end # None => child'[d].end # None)
      <3>1. child[d] \in ChildRecords
        BY <2>4
      <3>2. CASE d = c
        <4>1. child'[c] = [child[c] EXCEPT !.end = end]
          BY <2>1 DEF Children
        <4>2. child[c].end = None
          BY <1>10 DEF ChildEnds, Running
        <4>. QED
          BY <3>1, <3>2, <4>1, <4>2 DEF ChildRecords
      <3>3. CASE d # c
        BY <2>1, <3>1, <3>3 DEF Children
      <3>. QED
        BY <3>2, <3>3
    <2>6. SameChildren
      BY <1>1, <2>3, <2>5 DEF ChildOK, SameChildren, Children
    <2>7. NothingBeforeOpen'
      BY <2>1, <2>3 DEF IInv, NothingBeforeOpen
    <2>. QED
      BY <2>1, <2>2, <2>6, <2>7, SameChildrenStep
  <1>11. CASE Restart
    <2>1. /\ Children' = {} /\ pid' = 0 /\ gui_pid' = 0 /\ gui_told' = "hidden"
          /\ phase' = "signals" /\ ~opened' /\ ~window_seen'
      BY <1>11 DEF Restart, NoChildren, Children
    <2>2. ChildOK(child')
      BY <2>1, FS_EmptySet, MaxChildrenAssumption DEF ChildOK, Children
    <2>3. Rest'
      BY <1>1, <1>11 DEF Restart, Rest
    <2>4. TypeOK'
      BY <2>1, <2>2, <2>3, TypePartsNext
    <2>. QED
      BY <2>1, <2>4 DEF IInv, GuiPidIsChild, NothingBeforeOpen, OneOfEach,
         NothingOutlives, WindowStateTold, Windows
  <1>12. CASE UNCHANGED vars
    <2>1. UNCHANGED <<child, sigchld, pid, gui_pid, executable, config, project_file,
                      opened, die_now, phase, gui_told, window_seen, doubled>>
      BY <1>12 DEF vars
    <2>2. Children' = Children /\ Windows' = Windows /\ Programs' = Programs
      BY <2>1 DEF Children, Windows, Programs, Running
    <2>3. TypeOK'
      BY <1>1, <2>1, <2>2 DEF TypeOK
    <2>. QED
      BY <2>1, <2>2, <2>3 DEF IInv, GuiPidIsChild, NothingBeforeOpen, OneOfEach,
         NothingOutlives, WindowStateTold
  <1>. QED
    BY <1>2, <1>3, <1>4, <1>5, <1>6, <1>7, <1>8, <1>9, <1>10, <1>11, <1>12
    DEF Next, MainLoop, Handlers

\* The inductive invariant holds in every behaviour.
LEMMA Invariance == Spec => []IInv
  BY InitialState, NextStep, PTL DEF Spec

-----------------------------------------------------------------------------
\* Every variable of nsm-proxy has its type, and the children their records.
THEOREM TypeCorrect == Spec => []TypeOK
  <1>1. IInv => TypeOK
    BY DEF IInv
  <1>. QED
    BY <1>1, Invariance, PTL

\* However children exit and are started again, the running copy of the program
\* is the one that _pid names.
THEOREM ProgramIsNotLost == Spec => []ProgramNotLost
  <1>1. IInv => ProgramNotLost
    BY DEF IInv, OneOfEach, ProgramNotLost, Programs
  <1>. QED
    BY <1>1, Invariance, PTL

\* When nsm-proxy is gone every child that still runs has been sent a signal to quit.
THEOREM NothingIsLeft == Spec => []NothingOutlives
  <1>1. IInv => NothingOutlives
    BY DEF IInv
  <1>. QED
    BY <1>1, Invariance, PTL

\* What nsmd was last told of the window of nsm-proxy is true.
THEOREM WindowStateIsTold == Spec => []WindowStateTold
  <1>1. IInv => WindowStateTold
    BY DEF IInv
  <1>. QED
    BY <1>1, Invariance, PTL

=============================================================================
