--------------------------- MODULE JackpatchProofs ---------------------------
(***************************************************************************)
(* The properties of Jackpatch for any ports, projects and files and any   *)
(* number of notifications under way.                                      *)
(*                                                                         *)
(* A connection that is promised and not there is always on its way: the   *)
(* notification that brings the last missing port is still in the ring     *)
(* buffer, or that port is yet to be gone through.  Everything else says   *)
(* what the list of known ports, the members active and the table of a     *)
(* save have to be for that to hold after every step.                      *)
(***************************************************************************)
EXTENDS Jackpatch, SequenceTheorems, TLAPS

Notifications == [reg : BOOLEAN, port : Ports]
Reg(p) == [reg |-> TRUE, port |-> p]
Unreg(p) == [reg |-> FALSE, port |-> p]

\* Among the notifications r: the last word about p is that it has appeared;
\* somewhere it is said to have vanished.
Announced(r, p) ==
    \E i \in DOMAIN r : r[i] = Reg(p) /\ \A j \in DOMAIN r : j > i => r[j] # Unreg(p)
Withdrawn(r, p) == \E i \in DOMAIN r : r[i] = Unreg(p)

\* A save looks for a port of the record pr.
LookUp(pr) ==
    \/ pr \in patch_list /\ FindSource(pr)
    \/ pr \in src_found /\ FindDestination(pr)

-----------------------------------------------------------------------------
(* The ring buffer                                                         *)

\* What the callback does to the notifications.
LEMMA Queued ==
    ASSUME NEW r \in Seq(Notifications), NEW n \in Notifications
    PROVE  /\ Append(r, n) \in Seq(Notifications) /\ Append(r, n) # <<>>
           /\ Len(Append(r, n)) = Len(r) + 1
           /\ \A p : Announced(r, p) /\ n # Unreg(p) => Announced(Append(r, n), p)
           /\ \A p : n = Reg(p) => Announced(Append(r, n), p)
           /\ \A p : Withdrawn(r, p) => Withdrawn(Append(r, n), p)
           /\ \A p : Withdrawn(Append(r, n), p) => Withdrawn(r, p) \/ n = Unreg(p)
<1> DEFINE s == Append(r, n)
<1>1. /\ s \in Seq(Notifications) /\ s # <<>> /\ Len(s) = Len(r) + 1
      /\ \A i \in 1 .. Len(r) : s[i] = r[i]
      /\ s[Len(r) + 1] = n
  OBVIOUS
<1>2. DOMAIN r = 1 .. Len(r) /\ DOMAIN s = 1 .. Len(r) + 1 /\ Len(r) \in Nat
  BY <1>1
<1> HIDE DEF s
<1>3. ASSUME NEW p, Announced(r, p), n # Unreg(p) PROVE Announced(s, p)
  <2>1. PICK i \in DOMAIN r :
            r[i] = Reg(p) /\ \A j \in DOMAIN r : j > i => r[j] # Unreg(p)
    BY <1>3 DEF Announced
  <2>2. i \in DOMAIN s /\ s[i] = Reg(p)
    BY <1>1, <1>2, <2>1
  <2>3. ASSUME NEW j \in DOMAIN s, j > i PROVE s[j] # Unreg(p)
    <3>1. CASE j = Len(r) + 1
      BY <1>1, <1>3, <3>1
    <3>2. CASE j \in 1 .. Len(r)
      BY <1>1, <1>2, <2>1, <2>3, <3>2
    <3> QED
      BY <1>2, <3>1, <3>2
  <2> QED
    BY <2>2, <2>3 DEF Announced
<1>4. ASSUME NEW p, n = Reg(p) PROVE Announced(s, p)
  BY <1>1, <1>2, <1>4 DEF Announced
<1>5. ASSUME NEW p, Withdrawn(r, p) PROVE Withdrawn(s, p)
  BY <1>1, <1>2, <1>5 DEF Withdrawn
<1>6. ASSUME NEW p, Withdrawn(s, p) PROVE Withdrawn(r, p) \/ n = Unreg(p)
  BY <1>1, <1>2, <1>6 DEF Withdrawn
<1> QED
  BY <1>1, <1>3, <1>4, <1>5, <1>6 DEF s

\* What the main loop leaves of the notifications when it takes one.
LEMMA Handled ==
    ASSUME NEW r \in Seq(Notifications), r # <<>>
    PROVE  /\ Tail(r) \in Seq(Notifications) /\ Head(r) \in Notifications
           /\ Len(Tail(r)) = Len(r) - 1
           /\ \A p : Announced(r, p) =>
                        Announced(Tail(r), p) \/ (Head(r) = Reg(p) /\ ~Withdrawn(r, p))
           /\ \A p : Withdrawn(r, p) => Withdrawn(Tail(r), p) \/ Head(r) = Unreg(p)
           /\ \A p : Withdrawn(Tail(r), p) => Withdrawn(r, p)
<1> DEFINE s == Tail(r)
<1>1. /\ s \in Seq(Notifications) /\ Head(r) \in Notifications /\ Head(r) = r[1]
      /\ Len(r) \in Nat /\ Len(r) >= 1 /\ Len(s) = Len(r) - 1
      /\ \A i \in 1 .. Len(r) - 1 : s[i] = r[i + 1]
  OBVIOUS
<1>2. DOMAIN r = 1 .. Len(r) /\ DOMAIN s = 1 .. Len(r) - 1
  BY <1>1
<1> HIDE DEF s
<1>3. ASSUME NEW p, Announced(r, p), ~Announced(s, p)
      PROVE  Head(r) = Reg(p) /\ ~Withdrawn(r, p)
  <2>1. PICK i \in 1 .. Len(r) :
            r[i] = Reg(p) /\ \A j \in 1 .. Len(r) : j > i => r[j] # Unreg(p)
    BY <1>2, <1>3 DEF Announced
  <2>2. ASSUME i > 1 PROVE FALSE
    <3>1. i - 1 \in DOMAIN s /\ s[i - 1] = Reg(p)
      BY <1>1, <1>2, <2>1, <2>2
    <3>2. ASSUME NEW j \in DOMAIN s, j > i - 1 PROVE s[j] # Unreg(p)
      BY <1>1, <1>2, <2>1, <3>2
    <3> QED
      BY <1>3, <3>1, <3>2 DEF Announced
  <2>3. i = 1
    BY <1>1, <2>1, <2>2
  <2>4. Reg(p) # Unreg(p)
    BY DEF Reg, Unreg
  <2>5. \A j \in 1 .. Len(r) : r[j] # Unreg(p)
    BY <1>1, <2>1, <2>3, <2>4
  <2> QED
    BY <1>1, <1>2, <2>1, <2>3, <2>5 DEF Withdrawn
<1>4. ASSUME NEW p, Withdrawn(r, p), Head(r) # Unreg(p) PROVE Withdrawn(s, p)
  <2>1. PICK i \in 1 .. Len(r) : r[i] = Unreg(p)
    BY <1>2, <1>4 DEF Withdrawn
  <2>2. i - 1 \in DOMAIN s /\ s[i - 1] = Unreg(p)
    BY <1>1, <1>2, <1>4, <2>1
  <2> QED
    BY <2>2 DEF Withdrawn
<1>5. ASSUME NEW p, Withdrawn(s, p) PROVE Withdrawn(r, p)
  <2>1. PICK i \in DOMAIN s : s[i] = Unreg(p)
    BY <1>5 DEF Withdrawn
  <2>2. i + 1 \in DOMAIN r /\ r[i + 1] = Unreg(p)
    BY <1>1, <1>2, <2>1
  <2> QED
    BY <2>2 DEF Withdrawn
<1> QED
  BY <1>1, <1>3, <1>4, <1>5 DEF s

\* An empty ring buffer announces no port and withdraws none.
LEMMA NothingQueued ==
    \A p : ~Announced(<<>>, p) /\ ~Withdrawn(<<>>, p)
BY DEF Announced, Withdrawn

-----------------------------------------------------------------------------
(* Records, pairs and lines                                                *)

LEMMA PatchOfPair ==
    ASSUME NEW c \in Pairs, NEW b \in BOOLEAN
    PROVE  Patch(c, b) \in PatchRecords /\ Pair(Patch(c, b)) = c /\ Patch(c, b).active = b
BY DEF Pairs, Patch, Pair, PatchRecords

\* A patch record has its types, and its pair is its source and destination.
LEMMA PairOfPatch ==
    ASSUME NEW pr \in PatchRecords
    PROVE  /\ Pair(pr) \in Pairs /\ Pair(pr)[1] = pr.src /\ Pair(pr)[2] = pr.dst
           /\ pr.src \in Ports /\ pr.dst \in Ports /\ pr.active \in BOOLEAN
BY DEF Pairs, Pair, PatchRecords

\* Marking a record active or inactive changes nothing else of it.
LEMMA ActiveChanged ==
    ASSUME NEW pr \in PatchRecords, NEW b \in BOOLEAN
    PROVE  LET new == [pr EXCEPT !.active = b] IN
           new \in PatchRecords /\ Pair(new) = Pair(pr) /\ new.active = b
                /\ new.src = pr.src /\ new.dst = pr.dst
BY DEF Pair, PatchRecords

\* A line makes records of the same pairs whatever the uninitialized member is.
LEMMA LineRecords ==
    ASSUME NEW l \in Lines, NEW u \in BOOLEAN
    PROVE  /\ process_patch(l, u) \subseteq PatchRecords
           /\ {Pair(pr) : pr \in process_patch(l, u)}
                 = {Pair(pr) : pr \in process_patch(l, FALSE)}
<1> DEFINE forth == <<l.left, l.right>>
           back == <<l.right, l.left>>
<1>1. forth \in Pairs /\ back \in Pairs /\ l.dir \in {"<", ">", "|"}
  BY DEF Lines, Pairs
<1> HIDE DEF forth, back
<1>2. CASE l.dir = ">"
  BY <1>1, <1>2, PatchOfPair DEF process_patch, forth, back
<1>3. CASE l.dir = "<"
  BY <1>1, <1>3, PatchOfPair DEF process_patch, forth, back
<1>4. CASE l.dir = "|"
  <2>1. \A b \in BOOLEAN : process_patch(l, b) = {Patch(back, b), Patch(forth, FALSE)}
    BY <1>4 DEF process_patch, forth, back
  <2> HIDE DEF process_patch
  <2>2. ASSUME NEW b \in BOOLEAN
        PROVE  {Pair(pr) : pr \in process_patch(l, b)} = {back, forth}
    <3>1. Pair(Patch(back, b)) = back /\ Pair(Patch(forth, FALSE)) = forth
      BY <1>1, PatchOfPair
    <3>2. process_patch(l, b) = {Patch(back, b), Patch(forth, FALSE)}
      BY <2>1
    <3> HIDE DEF Patch, Pair
    <3> QED
      BY ONLY <3>1, <3>2, Zenon
  <2>3. process_patch(l, u) \subseteq PatchRecords
    BY <1>1, <2>1, PatchOfPair
  <2> QED
    BY <2>2, <2>3
<1> QED
  BY <1>1, <1>2, <1>3, <1>4

-----------------------------------------------------------------------------
(* Types                                                                   *)

\* What a new port changes: it is known, connections are added, and a patch
\* becomes active only with its connection.
LEMMA NewPort ==
    ASSUME TypeOK, NEW p \in Ports, handle_new_port(p)
    PROVE  /\ known_ports' \in [Ports -> Nat] /\ known_ports'[p] > 0
           /\ \A q \in Ports : known_ports[q] > 0 => known_ports'[q] > 0
           /\ conns \subseteq conns'
           /\ conns' \subseteq conns \cup (OutPorts \cap ports) \X (InPorts \cap ports)
           /\ patch_list' \subseteq PatchRecords
           /\ \A pr \in patch_list' : \E old \in patch_list :
                 /\ Pair(pr) = Pair(old) /\ pr.src = old.src /\ pr.dst = old.dst
                 /\ pr.active => old.active \/ Pair(pr) \in conns'
           /\ \A old \in patch_list : \E pr \in patch_list' : Pair(pr) = Pair(old)
           /\ \A pr \in patch_list :
                 /\ Matches(pr, p) /\ ~pr.active /\ jack_connect(pr)
                 /\ known_ports'[pr.src] > 0 /\ known_ports'[pr.dst] > 0
                 => Pair(pr) \in conns'
<1> DEFINE made == {pr \in patch_list : Matches(pr, p) /\ connect_path(pr)}
           New(pr) == [pr EXCEPT !.active = @ \/ pr \in made]
<1>1. /\ known_ports' = [known_ports EXCEPT ![p] = @ + 1]
      /\ conns' = conns \cup {Pair(pr) : pr \in made}
      /\ patch_list' = {New(pr) : pr \in patch_list}
  BY DEF handle_new_port
<1>2. known_ports \in [Ports -> Nat] /\ patch_list \subseteq PatchRecords
  BY DEF TypeOK
<1>3. /\ known_ports' \in [Ports -> Nat] /\ known_ports'[p] > 0
      /\ \A q \in Ports : known_ports[q] > 0 => known_ports'[q] > 0
  BY <1>1, <1>2
<1>4. \A pr \in made : pr.src \in OutPorts \cap ports /\ pr.dst \in InPorts \cap ports
  BY DEF connect_path, jack_connect
<1>5. \A pr \in made : Pair(pr) \in (OutPorts \cap ports) \X (InPorts \cap ports)
  BY <1>4 DEF Pair
<1>6. /\ conns \subseteq conns'
      /\ conns' \subseteq conns \cup (OutPorts \cap ports) \X (InPorts \cap ports)
  BY <1>1, <1>5
<1>7. ASSUME NEW old \in patch_list
      PROVE  /\ New(old) \in PatchRecords /\ Pair(New(old)) = Pair(old)
             /\ New(old).src = old.src /\ New(old).dst = old.dst
             /\ New(old).active => old.active \/ Pair(New(old)) \in conns'
  <2> DEFINE b == old.active \/ old \in made
  <2>1. b \in BOOLEAN /\ old \in PatchRecords
    BY <1>2
  <2>2. New(old) = [old EXCEPT !.active = b]
    OBVIOUS
  <2>3. old \in made => Pair(old) \in conns'
    BY <1>1
  <2> HIDE DEF made
  <2> QED
    BY <2>1, <2>2, <2>3, ActiveChanged
<1>8. \A pr \in patch_list :
          /\ Matches(pr, p) /\ ~pr.active /\ jack_connect(pr)
          /\ known_ports'[pr.src] > 0 /\ known_ports'[pr.dst] > 0
          => Pair(pr) \in conns'
  <2>1. \A pr \in patch_list :
            /\ Matches(pr, p) /\ ~pr.active /\ jack_connect(pr)
            /\ known_ports'[pr.src] > 0 /\ known_ports'[pr.dst] > 0
            => pr \in made
    BY DEF connect_path, find_known_port
  <2> QED
    BY <1>1, <2>1
<1> HIDE DEF made, New
<1> QED
  BY <1>1, <1>3, <1>6, <1>7, <1>8

\* What a port that has gone changes.
LEMMA GonePort ==
    ASSUME TypeOK, NEW p \in Ports, remove_known_port(p)
    PROVE  /\ known_ports' \in [Ports -> Nat]
           /\ \A q \in Ports \ {p} : known_ports'[q] = known_ports[q]
           /\ patch_list' \subseteq PatchRecords
           /\ \A pr \in patch_list' : \E old \in patch_list :
                 /\ Pair(pr) = Pair(old) /\ pr.src = old.src /\ pr.dst = old.dst
                 /\ pr.active => old.active /\ p \notin {pr.src, pr.dst}
           /\ \A old \in patch_list : \E pr \in patch_list' : Pair(pr) = Pair(old)
<1> DEFINE New(pr) == IF Matches(pr, p) THEN [pr EXCEPT !.active = FALSE] ELSE pr
<1>1. /\ known_ports' = [known_ports EXCEPT ![p] = IF @ > 0 THEN @ - 1 ELSE 0]
      /\ patch_list' = {New(pr) : pr \in patch_list}
  BY DEF remove_known_port, inactivate_patch
<1>2. known_ports \in [Ports -> Nat] /\ patch_list \subseteq PatchRecords
  BY DEF TypeOK
<1>3. /\ known_ports' \in [Ports -> Nat]
      /\ \A q \in Ports \ {p} : known_ports'[q] = known_ports[q]
  BY <1>1, <1>2
<1>4. ASSUME NEW old \in patch_list
      PROVE  /\ New(old) \in PatchRecords /\ Pair(New(old)) = Pair(old)
             /\ New(old).src = old.src /\ New(old).dst = old.dst
             /\ New(old).active => old.active /\ p \notin {old.src, old.dst}
  BY <1>2, ActiveChanged DEF Matches
<1> HIDE DEF New
<1> QED
  BY <1>1, <1>3, <1>4

\* Reading a file makes records of its pairs.
LEMMA ReadConfig ==
    ASSUME NEW lines \in SUBSET Lines, read_config(lines)
    PROVE  /\ patch_list' \subseteq PatchRecords
           /\ {Pair(pr) : pr \in patch_list'} = LinePairs(lines)
           /\ promised' = Promise({Pair(pr) : pr \in patch_list'})
<1>1. PICK u \in BOOLEAN : patch_list' = UNION {process_patch(l, u) : l \in lines}
  BY DEF read_config
<1>2. ASSUME NEW l \in lines
      PROVE  /\ process_patch(l, u) \subseteq PatchRecords
             /\ {Pair(pr) : pr \in process_patch(l, u)}
                   = {Pair(pr) : pr \in process_patch(l, FALSE)}
  BY LineRecords
<1>3. patch_list' \subseteq PatchRecords
  BY <1>1, <1>2
<1>4. {Pair(pr) : pr \in patch_list'}
          = UNION {{Pair(pr) : pr \in process_patch(l, u)} : l \in lines}
  BY <1>1
<1>5. UNION {{Pair(pr) : pr \in process_patch(l, u)} : l \in lines} = LinePairs(lines)
  BY <1>2 DEF LinePairs
<1> QED
  BY <1>3, <1>4, <1>5 DEF read_config

\* The types hold at the start.
LEMMA TypeInit == ASSUME Init PROVE TypeOK
<1>1. port_ringbuffer \in Seq(Notifications) /\ Len(port_ringbuffer) <= RingSize
  BY BoundsAreNumbers DEF Init
<1>2. known_ports \in [Ports -> Nat] /\ disk \in [Projects -> {NoFile} \cup SUBSET Lines]
  BY FilesAreLines DEF Init
<1>3. opens \in 0 .. MaxOpens
  BY BoundsAreNumbers DEF Init
<1>4. /\ ports \subseteq Ports /\ conns \subseteq ports \X ports
      /\ patch_list \subseteq PatchRecords /\ todo \subseteq Ports /\ table \subseteq Pairs
      /\ src_found \subseteq PatchRecords /\ promised \subseteq Pairs
  BY DEF Init
<1> QED
  BY <1>1, <1>2, <1>3, <1>4 DEF Init, TypeOK, Notifications

\* What the callback does, whether it runs or not.
LEMMA Notified ==
    ASSUME TypeOK, NEW b \in BOOLEAN, NEW p \in Ports, port_registration_callback(b, p)
    PROVE  port_ringbuffer' \in Seq(Notifications) /\ Len(port_ringbuffer') <= RingSize
<1>1. /\ port_ringbuffer \in Seq(Notifications) /\ Len(port_ringbuffer) <= RingSize
      /\ [reg |-> b, port |-> p] \in Notifications
  BY DEF TypeOK, Notifications
<1>2. CASE client_active
  BY <1>1, <1>2, Queued, BoundsAreNumbers DEF port_registration_callback
<1>3. CASE ~client_active
  BY <1>1, <1>3 DEF port_registration_callback
<1> QED
  BY <1>2, <1>3

\* Every step keeps the types.
LEMMA TypePreserved == ASSUME TypeOK, [Next]_vars PROVE TypeOK'
<1> USE DEF Notifications
<1>1. ASSUME NEW p \in Ports, PortAppears(p) PROVE TypeOK'
  <2>1. \E b \in BOOLEAN : port_registration_callback(b, p)
    BY <1>1 DEF PortAppears
  <2> QED
    BY <1>1, <2>1, Notified DEF PortAppears, TypeOK, lists, files, loop, life
<1>2. ASSUME NEW p \in Ports, PortVanishes(p) PROVE TypeOK'
  <2>1. \E b \in BOOLEAN : port_registration_callback(b, p)
    BY <1>2 DEF PortVanishes
  <2>2. conns' \subseteq ports' \X ports'
    BY <1>2 DEF PortVanishes, TypeOK
  <2> QED
    BY <1>2, <2>1, <2>2, Notified DEF PortVanishes, TypeOK, lists, files, loop, life
<1>3. ASSUME NEW src \in OutPorts, NEW dst \in InPorts, UserConnects(src, dst)
      PROVE TypeOK'
  BY <1>3 DEF UserConnects, TypeOK, lists, files, loop, life, history
<1>4. ASSUME NEW c \in conns, UserDisconnects(c) PROVE TypeOK'
  BY <1>4 DEF UserDisconnects, TypeOK, lists, files, loop, life
<1>5. ASSUME NEW p \in Projects, Load(p)
      PROVE patch_list' \subseteq PatchRecords /\ promised' \subseteq Pairs
  <2>1. disk[p] \in SUBSET Lines
    BY <1>5 DEF Load, TypeOK
  <2> QED
    BY <1>5, <2>1, ReadConfig DEF Load, Promise, Pairs, Ports
<1>6. ASSUME NEW m \in Modes, NEW p \in Projects, Start(m, p) PROVE TypeOK'
  <2>1. patch_list' \subseteq PatchRecords /\ promised' \subseteq Pairs
    BY <1>5, <1>6 DEF Start, Blank
  <2> QED
    BY <1>6, <2>1 DEF Start, Load, Blank, TypeOK, jack
<1>7. ASSUME NEW p \in Projects, osc_open(p) PROVE TypeOK'
  <2>1. patch_list' \subseteq PatchRecords /\ promised' \subseteq Pairs
    BY <1>5, <1>7 DEF osc_open, Blank, OpenFails, TypeOK
  <2>2. opens' \in 0 .. MaxOpens
    BY <1>7, BoundsAreNumbers DEF osc_open, TypeOK
  <2>3. /\ client_active' \in BOOLEAN /\ project_file' \in Projects \cup {None}
        /\ phase' \in {"listening", "opening", "preexisting", "saving", "remember", "collect"}
    BY <1>7 DEF osc_open, Load, Blank, OpenFails, TypeOK
  <2> QED
    BY <1>7, <2>1, <2>2, <2>3 DEF osc_open, TypeOK, jack
<1>8. ASSUME snapshot PROVE TypeOK'
  BY <1>8 DEF snapshot, SnapshotReturns, SnapshotBegins, TypeOK, jack, lists, life
<1>9. ASSUME Ends,
             \/ UNCHANGED loop
             \/ phase' = "listening" /\ todo' = {} /\ src_found' = {} /\ table' = {}
      PROVE  TypeOK'
  <2>1. port_ringbuffer' \in Seq(Notifications) /\ Len(port_ringbuffer') <= RingSize
    BY <1>9, BoundsAreNumbers DEF Ends
  <2>2. known_ports' \in [Ports -> Nat] /\ opens' \in 0 .. MaxOpens
    BY <1>9, BoundsAreNumbers DEF Ends
  <2>3. /\ phase' \in {"listening", "opening", "preexisting", "saving", "remember", "collect"}
        /\ todo' \subseteq Ports /\ src_found' \subseteq PatchRecords /\ table' \subseteq Pairs
    BY <1>9 DEF TypeOK, loop
  <2> QED
    BY <1>9, <2>1, <2>2, <2>3 DEF Ends, TypeOK, jack
<1>10. ASSUME register_prexisting_ports PROVE TypeOK'
  BY <1>10 DEF register_prexisting_ports, TypeOK, jack, lists, files, life
<1>11. ASSUME NEW p \in todo, PreexistingPort(p) PROVE TypeOK'
  <2>1. p \in Ports /\ handle_new_port(p)
    BY <1>11 DEF PreexistingPort, TypeOK
  <2>2. /\ conns' \subseteq ports \X ports
        /\ known_ports' \in [Ports -> Nat] /\ patch_list' \subseteq PatchRecords
    BY <2>1, NewPort DEF TypeOK
  <2> QED
    BY <1>11, <2>2 DEF PreexistingPort, TypeOK, files, life, history
<1>12. ASSUME PreexistingDone PROVE TypeOK'
  BY <1>12 DEF PreexistingDone, TypeOK, jack, lists, files, life, history
<1>13. ASSUME check_for_new_ports PROVE TypeOK'
  <2>1. port_ringbuffer \in Seq(Notifications) /\ port_ringbuffer # <<>>
    BY <1>13 DEF check_for_new_ports, TypeOK
  <2>2. /\ port_ringbuffer' \in Seq(Notifications) /\ Len(port_ringbuffer') <= RingSize
        /\ Head(port_ringbuffer).port \in Ports
    <3>1. port_ringbuffer' = Tail(port_ringbuffer)
      BY <1>13 DEF check_for_new_ports
    <3>2. Len(port_ringbuffer) <= RingSize /\ Len(port_ringbuffer) \in Nat
      BY <2>1 DEF TypeOK
    <3>3. /\ Tail(port_ringbuffer) \in Seq(Notifications)
          /\ Head(port_ringbuffer) \in Notifications
          /\ Len(Tail(port_ringbuffer)) = Len(port_ringbuffer) - 1
      BY <2>1, Handled
    <3>4. Head(port_ringbuffer).port \in Ports
      BY <3>3
    <3> QED
      BY <3>1, <3>2, <3>3, <3>4, BoundsAreNumbers
  <2>3. CASE handle_new_port(Head(port_ringbuffer).port)
    <3>1. /\ conns' \subseteq ports \X ports
          /\ known_ports' \in [Ports -> Nat] /\ patch_list' \subseteq PatchRecords
      BY <2>2, <2>3, NewPort DEF TypeOK
    <3> QED
      BY <1>13, <2>2, <3>1
      DEF check_for_new_ports, TypeOK, files, loop, life, history
  <2>4. CASE remove_known_port(Head(port_ringbuffer).port) /\ UNCHANGED conns
    BY <1>13, <2>2, <2>4, GonePort
    DEF check_for_new_ports, TypeOK, files, loop, life, history
  <2> QED
    BY <1>13, <2>3, <2>4 DEF check_for_new_ports
<1>14. ASSUME NEW pr, LookUp(pr) PROVE TypeOK'
  BY <1>14, PairOfPatch DEF LookUp, FindSource, FindDestination, TypeOK, jack, files, life, history
<1>15. ASSUME RememberDone PROVE TypeOK'
  <2>1. patch_list' \subseteq PatchRecords
    BY <1>15, PatchOfPair DEF RememberDone, TypeOK
  <2> QED
    BY <1>15, <2>1 DEF RememberDone, TypeOK, jack, files, life, history
<1>16. ASSUME NEW p \in todo, Collect(p) PROVE TypeOK'
  <2>1. conns \subseteq Pairs
    BY DEF TypeOK, Pairs
  <2>2. patch_list' \subseteq PatchRecords /\ table' \subseteq Pairs
    BY <1>16, <2>1, PatchOfPair DEF Collect, TypeOK
  <2> QED
    BY <1>16, <2>2 DEF Collect, TypeOK, jack, files, life, history
<1>17. ASSUME SnapshotEnd PROVE TypeOK'
  <2>1. {[left |-> c[1], dir |-> ">", right |-> c[2]] : c \in table} \in SUBSET Lines
    BY DEF TypeOK, Pairs, Lines
  <2>2. promised' \subseteq Pairs
    BY <1>17 DEF SnapshotEnd, Promise, Pairs, Ports
  <2> QED
    BY <1>17, <2>1, <2>2 DEF SnapshotEnd, TypeOK, jack, lists, life
<1>18. CASE UNCHANGED vars
  BY <1>18 DEF TypeOK, vars, jack, lists, files, loop, life, history
<1> QED
  BY <1>1, <1>2, <1>3, <1>4, <1>6, <1>7, <1>8, <1>9, <1>10, <1>11, <1>12, <1>13,
     <1>14, <1>15, <1>16, <1>17, <1>18
  DEF Next, Environment, Requests, Loading, Writing, LookUp, die, Killed

\* Every variable keeps its type: the list of patches holds records of ports,
\* no known port is counted below zero, the ring never holds more than it can.
THEOREM TypeCorrect == Spec => []TypeOK
BY TypeInit, TypePreserved, PTL DEF Spec

-----------------------------------------------------------------------------
(* What holds of a life, and of the file of its project                    *)

Saving == phase \in {"remember", "collect"}

\* JACK is used, and something is loaded, saved or promised, by an active
\* client only; between two saves all that is promised is in the list.
LifeInv ==
    /\ project_file # None \/ phase # "listening" \/ introduced => client_active
    /\ ~client_active => port_ringbuffer = <<>> /\ promised = {}
    /\ mode = None => project_file = None /\ phase = "listening"
    /\ mode = "nsm" => phase # "saving"
    /\ phase = "preexisting" => introduced
    /\ ~Saving => table = {} /\ promised \subseteq PatchPairs
    /\ src_found \subseteq patch_list /\ (phase # "remember" => src_found = {})
    /\ conns \subseteq (OutPorts \cap ports) \X (InPorts \cap ports)
    /\ promised \subseteq OutPorts \X InPorts

FilePairs == IF disk[project_file] = NoFile THEN {} ELSE LinePairs(disk[project_file])

ListInv ==
    /\ mode = "nsm" /\ project_file # None /\ ~Saving => PatchPairs = FilePairs
    /\ phase = "collect" => patch_list = {Patch(c, FALSE) : c \in table}

\* A load leaves the pairs of the file's lines in the list, and promises
\* those between ports that can be connected.
LEMMA LoadedPairs ==
    ASSUME TypeOK, NEW p \in Projects, Load(p)
    PROVE  /\ PatchPairs' = LinePairs(disk[p]) /\ promised' = Promise(PatchPairs')
           /\ promised' \subseteq PatchPairs' /\ promised' \subseteq OutPorts \X InPorts
           /\ phase' = "opening" /\ disk[p] # NoFile
<1>1. disk[p] \in SUBSET Lines
  BY DEF Load, TypeOK
<1>2. PatchPairs' = {Pair(pr) : pr \in patch_list'}
  BY DEF PatchPairs, Pair
<1> QED
  BY <1>1, <1>2, ReadConfig DEF Load, Promise

\* An emptied list has no pairs and nothing promised.
LEMMA BlankList ==
    ASSUME NEW next, Blank(next)
    PROVE  PatchPairs' = {} /\ promised' = {} /\ phase' = next
BY DEF Blank, PatchPairs

\* No notification changes what the list is about.
LEMMA SamePairs ==
    ASSUME TypeOK, NEW p \in Ports, handle_new_port(p) \/ remove_known_port(p)
    PROVE  PatchPairs' = PatchPairs
<1>1. /\ \A pr \in patch_list' : \E old \in patch_list : Pair(pr) = Pair(old)
      /\ \A old \in patch_list : \E pr \in patch_list' : Pair(pr) = Pair(old)
  BY NewPort, GonePort
<1>2. PatchPairs' = {Pair(pr) : pr \in patch_list'}
  BY DEF PatchPairs, Pair
<1> QED
  BY <1>1, <1>2 DEF PatchPairs

\* The step of check_for_new_ports, apart from the ring buffer.
LEMMA NotificationStep ==
    ASSUME TypeOK, check_for_new_ports
    PROVE  /\ Head(port_ringbuffer) \in Notifications
           /\ PatchPairs' = PatchPairs
           /\ Idle /\ client_active /\ port_ringbuffer' = Tail(port_ringbuffer)
           /\ UNCHANGED <<ports, files, loop, life, history>>
           /\ \/ \E p \in Ports : Head(port_ringbuffer) = Reg(p) /\ handle_new_port(p)
              \/ \E p \in Ports : /\ Head(port_ringbuffer) = Unreg(p)
                                  /\ remove_known_port(p) /\ UNCHANGED conns
<1> DEFINE n == Head(port_ringbuffer)
<1>1. port_ringbuffer \in Seq(Notifications) /\ port_ringbuffer # <<>>
  BY DEF check_for_new_ports, TypeOK, Notifications
<1>2. n \in Notifications
  BY <1>1, Handled
<1>3. n.port \in Ports /\ n.reg \in BOOLEAN
  BY <1>2 DEF Notifications
<1>4. CASE n.reg
  <2>1. n = Reg(n.port)
    BY <1>2, <1>4 DEF Notifications, Reg
  <2>2. handle_new_port(n.port)
    BY <1>4 DEF check_for_new_ports
  <2> QED
    BY <1>2, <1>3, <2>1, <2>2, SamePairs DEF check_for_new_ports
<1>5. CASE ~n.reg
  <2>1. n = Unreg(n.port)
    BY <1>2, <1>5 DEF Notifications, Unreg
  <2>2. remove_known_port(n.port) /\ UNCHANGED conns
    BY <1>5 DEF check_for_new_ports
  <2> QED
    BY <1>2, <1>3, <2>1, <2>2, SamePairs DEF check_for_new_ports
<1> QED
  BY <1>3, <1>4, <1>5

\* The phases and the list are right at the start.
LEMMA LifeInit == ASSUME Init PROVE LifeInv /\ ListInv
<1>1. promised \subseteq PatchPairs /\ conns = {} /\ promised = {}
  BY DEF Init
<1> QED
  BY <1>1 DEF Init, LifeInv, ListInv, Saving

\* Every step keeps what is known about the phases.
LEMMA LifePreserved ==
    ASSUME TypeOK, TypeOK', LifeInv, [Next]_vars
    PROVE  LifeInv'
<1>1. ASSUME NEW p \in Ports, PortAppears(p) PROVE LifeInv'
  BY <1>1 DEF PortAppears, port_registration_callback, LifeInv, Saving, PatchPairs,
     lists, files, loop, life
<1>2. ASSUME NEW p \in Ports, PortVanishes(p) PROVE LifeInv'
  BY <1>2 DEF PortVanishes, port_registration_callback, LifeInv, Saving, PatchPairs,
     lists, files, loop, life
<1>3. ASSUME NEW src \in OutPorts, NEW dst \in InPorts, UserConnects(src, dst)
      PROVE LifeInv'
  BY <1>3 DEF UserConnects, LifeInv, Saving, PatchPairs, lists, files, loop, life, history
<1>4. ASSUME NEW c \in conns, UserDisconnects(c) PROVE LifeInv'
  BY <1>4 DEF UserDisconnects, LifeInv, Saving, PatchPairs, lists, files, loop, life
<1>5. ASSUME NEW m \in Modes, NEW p \in Projects, Start(m, p) PROVE LifeInv'
  BY <1>5, LoadedPairs, BlankList, NoneIsNothing DEF Start, LifeInv, Saving, jack
<1>6. ASSUME NEW p \in Projects, osc_open(p) PROVE LifeInv'
  <2>1. CASE /\ OpenFails(p)
             /\ UNCHANGED <<jack, port_ringbuffer, mode, todo, src_found, table, introduced>>
    BY <2>1 DEF OpenFails, LifeInv, Saving, PatchPairs, jack
  <2>2. CASE Load(p) \/ Blank("listening")
    BY <1>6, <2>2, LoadedPairs, BlankList DEF osc_open, OpenFails, LifeInv, Saving, jack, Idle
  <2> QED
    BY <1>6, <2>1, <2>2 DEF osc_open
<1>7. ASSUME snapshot PROVE LifeInv'
  BY <1>7 DEF snapshot, SnapshotReturns, SnapshotBegins, LifeInv, Saving, PatchPairs,
     Idle, jack, lists, life
<1>8. ASSUME die \/ Killed PROVE LifeInv'
  BY <1>8 DEF die, Killed, Ends, LifeInv, Saving, PatchPairs, Idle, jack, loop
<1>9. ASSUME register_prexisting_ports PROVE LifeInv'
  BY <1>9 DEF register_prexisting_ports, LifeInv, Saving, PatchPairs, jack, lists,
     files, life
<1>10. ASSUME NEW p \in todo, PreexistingPort(p) PROVE LifeInv'
  <2>1. p \in Ports /\ handle_new_port(p)
    BY <1>10 DEF PreexistingPort, TypeOK
  <2> QED
    BY <1>10, <2>1, SamePairs, NewPort
    DEF PreexistingPort, LifeInv, Saving, files, life, history
<1>11. ASSUME PreexistingDone PROVE LifeInv'
  BY <1>11 DEF PreexistingDone, LifeInv, Saving, PatchPairs, jack, lists, files, life,
     history
<1>12. ASSUME check_for_new_ports PROVE LifeInv'
  <2>1. conns' \subseteq (OutPorts \cap ports) \X (InPorts \cap ports)
    BY <1>12, NotificationStep, NewPort DEF LifeInv
  <2> QED
    BY <1>12, <2>1, NotificationStep DEF LifeInv, Saving, Idle, files, loop, life, history
<1>13. ASSUME NEW pr, LookUp(pr) PROVE LifeInv'
  BY <1>13 DEF LookUp, FindSource, FindDestination, LifeInv, Saving, jack, files, life, history
<1>14. ASSUME RememberDone PROVE LifeInv'
  BY <1>14 DEF RememberDone, LifeInv, Saving, jack, files, life, history
<1>15. ASSUME NEW p \in todo, Collect(p) PROVE LifeInv'
  BY <1>15 DEF Collect, LifeInv, Saving, jack, files, life, history
<1>16. ASSUME SnapshotEnd PROVE LifeInv'
  <2>1. promised' \subseteq PatchPairs' /\ promised' \subseteq OutPorts \X InPorts
    BY <1>16 DEF SnapshotEnd, Promise, PatchPairs, lists
  <2> QED
    BY <1>16, <2>1 DEF SnapshotEnd, LifeInv, Saving, jack, lists, life
<1>17. CASE UNCHANGED vars
  BY <1>17 DEF LifeInv, Saving, PatchPairs, vars, jack, lists, files, loop, life, history
<1> QED
  BY <1>1, <1>2, <1>3, <1>4, <1>5, <1>6, <1>7, <1>8, <1>9, <1>10, <1>11, <1>12, <1>13,
     <1>14, <1>15, <1>16, <1>17
  DEF Next, Environment, Requests, Loading, Writing, LookUp

\* The records a save makes of pairs, and the lines it writes of them.
LEMMA RecordsOfPairs ==
    ASSUME NEW S \in SUBSET Pairs
    PROVE  {Pair(pr) : pr \in {Patch(c, FALSE) : c \in S}} = S
<1>1. \A c \in S : Pair(Patch(c, FALSE)) = c
  BY PatchOfPair
<1> HIDE DEF Pair, Patch
<1> QED
  BY <1>1

\* One line for each pair: reading the lines gives the pairs back.
LEMMA LinesOfPairs ==
    ASSUME NEW S \in SUBSET Pairs
    PROVE  LET lines == {[left |-> c[1], dir |-> ">", right |-> c[2]] : c \in S}
           IN  lines \in SUBSET Lines /\ LinePairs(lines) = S
<1> DEFINE Line(c) == [left |-> c[1], dir |-> ">", right |-> c[2]]
           lines == {Line(c) : c \in S}
<1>1. ASSUME NEW c \in S
      PROVE  Line(c) \in Lines /\ {Pair(pr) : pr \in process_patch(Line(c), FALSE)} = {c}
  <2>1. c \in Pairs /\ <<c[1], c[2]>> = c /\ Line(c) \in Lines
    BY DEF Pairs, Lines
  <2>2. process_patch(Line(c), FALSE) = {Patch(c, FALSE)}
    BY <2>1 DEF process_patch
  <2>3. Pair(Patch(c, FALSE)) = c
    BY <2>1, PatchOfPair
  <2> HIDE DEF Line
  <2> QED
    BY <2>1, <2>2, <2>3
<1> HIDE DEF Line
<1>2. LinePairs(lines) = S
  <2> DEFINE PairsOf(l) == {Pair(pr) : pr \in process_patch(l, FALSE)}
  <2>1. LinePairs(lines) = UNION {PairsOf(l) : l \in lines}
    BY DEF LinePairs
  <2>2. \A c \in S : PairsOf(Line(c)) = {c}
    BY <1>1
  <2> HIDE DEF PairsOf
  <2> QED
    BY <2>1, <2>2
<1> QED
  BY <1>1, <1>2 DEF Line

\* Every step keeps what is known about the list of patches.
LEMMA ListPreserved ==
    ASSUME TypeOK, TypeOK', LifeInv, ListInv, [Next]_vars
    PROVE  ListInv'
<1>1. ASSUME Environment PROVE ListInv'
  <2>1. UNCHANGED <<lists, files, loop, life>>
    BY <1>1 DEF Environment, PortAppears, PortVanishes, UserConnects, UserDisconnects
  <2> QED
    BY <2>1 DEF ListInv, FilePairs, Saving, PatchPairs, lists, files, loop, life
<1>2. ASSUME NEW m \in Modes, NEW p \in Projects, Start(m, p) PROVE ListInv'
  BY <1>2, LoadedPairs, NoneIsNothing DEF Start, Blank, LifeInv, ListInv, Saving
<1>3. ASSUME NEW p \in Projects, osc_open(p) PROVE ListInv'
  <2>1. CASE OpenFails(p) /\ UNCHANGED <<disk, mode, table>>
    BY <2>1 DEF OpenFails, ListInv, FilePairs, Saving, PatchPairs
  <2>2. CASE Load(p) /\ project_file' = p
    <3>1. disk' = disk /\ phase' = "opening"
      BY <1>3, <2>2, LoadedPairs DEF osc_open
    <3>2. PatchPairs' = FilePairs'
      BY <2>2, <3>1, LoadedPairs DEF FilePairs
    <3> QED
      BY <3>1, <3>2 DEF ListInv
  <2>3. CASE Blank("listening") /\ project_file' = p /\ disk[p] = NoFile
    <3>1. disk' = disk /\ phase' = "listening"
      BY <1>3, <2>3, BlankList DEF osc_open
    <3>2. PatchPairs' = FilePairs'
      BY <2>3, <3>1, BlankList DEF FilePairs
    <3> QED
      BY <3>1, <3>2 DEF ListInv
  <2> QED
    BY <1>3, <2>1, <2>2, <2>3 DEF osc_open
<1>4. ASSUME snapshot PROVE ListInv'
  <2>1. CASE SnapshotReturns
    BY <1>4, <2>1 DEF snapshot, SnapshotReturns, ListInv, LifeInv, FilePairs, Saving,
       PatchPairs, Idle, lists, life
  <2>2. CASE SnapshotBegins
    BY <2>2 DEF SnapshotBegins, ListInv, Saving
  <2> QED
    BY <1>4, <2>1, <2>2 DEF snapshot
<1>5. ASSUME die \/ Killed PROVE ListInv'
  BY <1>5 DEF die, Killed, Ends, ListInv, Idle, loop
<1>6. ASSUME register_prexisting_ports \/ PreexistingDone PROVE ListInv'
  BY <1>6 DEF register_prexisting_ports, PreexistingDone, ListInv, FilePairs, Saving,
     PatchPairs, lists, files, life
<1>7. ASSUME NEW p \in todo, PreexistingPort(p) PROVE ListInv'
  <2>1. p \in Ports /\ handle_new_port(p)
    BY <1>7 DEF PreexistingPort, TypeOK
  <2> QED
    BY <1>7, <2>1, SamePairs
    DEF PreexistingPort, ListInv, FilePairs, Saving, files, life
<1>8. ASSUME check_for_new_ports PROVE ListInv'
  BY <1>8, NotificationStep DEF ListInv, FilePairs, Saving, Idle, files, loop, life
<1>9. ASSUME NEW pr, LookUp(pr) PROVE ListInv'
  BY <1>9 DEF LookUp, LifeInv, FindSource, FindDestination, ListInv, Saving
<1>10. ASSUME RememberDone PROVE ListInv'
  BY <1>10 DEF RememberDone, ListInv, Saving
<1>11. ASSUME NEW p \in todo, Collect(p) PROVE ListInv'
  BY <1>11 DEF Collect, ListInv, Saving
<1>12. ASSUME SnapshotEnd PROVE ListInv'
  <2>1. table \in SUBSET Pairs /\ PatchPairs = table
    <3>1. table \in SUBSET Pairs
      BY DEF TypeOK
    <3>2. PatchPairs = {Pair(pr) : pr \in {Patch(c, FALSE) : c \in table}}
      BY <1>12 DEF SnapshotEnd, ListInv, PatchPairs
    <3> QED
      BY <3>1, <3>2, RecordsOfPairs
  <2>2. PatchPairs' = table /\ phase' = "listening"
    BY <1>12, <2>1 DEF SnapshotEnd, PatchPairs, lists
  <2>3. ASSUME project_file' # None PROVE PatchPairs' = FilePairs'
    <3> DEFINE lines == {[left |-> c[1], dir |-> ">", right |-> c[2]] : c \in table}
    <3>1. project_file \in Projects /\ project_file' = project_file
      BY <1>12, <2>3 DEF SnapshotEnd, TypeOK
    <3>2. disk'[project_file] = lines
      BY <1>12, <3>1 DEF SnapshotEnd, TypeOK
    <3>3. lines \in SUBSET Lines /\ LinePairs(lines) = table
      BY <2>1, LinesOfPairs
    <3>4. lines # NoFile
      BY <3>3, FilesAreLines
    <3> QED
      BY <2>2, <3>1, <3>2, <3>3, <3>4 DEF FilePairs
  <2> QED
    BY <2>2, <2>3 DEF ListInv, Saving
<1>13. CASE UNCHANGED vars
  BY <1>13 DEF ListInv, FilePairs, Saving, PatchPairs, vars, lists, files, loop, life
<1> QED
  BY <1>1, <1>2, <1>3, <1>4, <1>5, <1>6, <1>7, <1>8, <1>9, <1>10, <1>11, <1>12, <1>13
  DEF Next, Requests, Loading, Writing, LookUp

\* Between two messages the list in memory says what the project's file says,
\* after any sequence of loads, saves, failed opens and failed saves, with ports
\* coming and going throughout.
THEOREM ListIsFileHolds == Spec => []ListIsFile
<1> DEFINE IInv == TypeOK /\ LifeInv /\ ListInv
<1>1. Init => IInv
  BY TypeInit, LifeInit
<1>2. IInv /\ [Next]_vars => IInv'
  BY TypePreserved, LifePreserved, ListPreserved
<1>3. IInv => ListIsFile
  BY DEF ListInv, ListIsFile, FilePairs, Saving, Idle
<1> QED
  BY <1>1, <1>2, <1>3, PTL DEF Spec

-----------------------------------------------------------------------------
(* Notifications on their way                                              *)

\* The callback for a port that appears, and for one that vanishes.
LEMMA Appeared ==
    ASSUME TypeOK, NEW p \in Ports, PortAppears(p), client_active
    PROVE  /\ Announced(port_ringbuffer', p) /\ port_ringbuffer' # <<>>
           /\ \A q : Announced(port_ringbuffer, q) => Announced(port_ringbuffer', q)
           /\ \A q : Withdrawn(port_ringbuffer', q) <=> Withdrawn(port_ringbuffer, q)
<1>1. port_ringbuffer \in Seq(Notifications) /\ Reg(p) \in Notifications
  BY DEF TypeOK, Notifications, Reg
<1>2. port_ringbuffer' = Append(port_ringbuffer, Reg(p))
  BY DEF PortAppears, port_registration_callback, Reg
<1>3. \A q : Reg(p) # Unreg(q)
  BY DEF Reg, Unreg
<1> QED
  BY <1>1, <1>2, <1>3, Queued

\* A port that vanishes is withdrawn in the ring buffer, and what was
\* announced or withdrawn of other ports stays so.
LEMMA Vanished ==
    ASSUME TypeOK, NEW p \in Ports, PortVanishes(p), client_active
    PROVE  /\ Withdrawn(port_ringbuffer', p) /\ port_ringbuffer' # <<>>
           /\ \A q : q # p /\ Announced(port_ringbuffer, q) => Announced(port_ringbuffer', q)
           /\ \A q : Withdrawn(port_ringbuffer, q) => Withdrawn(port_ringbuffer', q)
           /\ \A q : q # p /\ Withdrawn(port_ringbuffer', q) => Withdrawn(port_ringbuffer, q)
<1> DEFINE s == Append(port_ringbuffer, Unreg(p))
<1>1. port_ringbuffer \in Seq(Notifications) /\ Unreg(p) \in Notifications
  BY DEF TypeOK, Notifications, Unreg
<1>2. port_ringbuffer' = s
  BY DEF PortVanishes, port_registration_callback, Unreg
<1>3. \A q : q # p => Unreg(p) # Unreg(q)
  BY DEF Unreg
<1>4. Withdrawn(s, p)
  <2>1. Len(port_ringbuffer) + 1 \in DOMAIN s /\ s[Len(port_ringbuffer) + 1] = Unreg(p)
    BY <1>1
  <2> QED
    BY <2>1 DEF Withdrawn
<1> HIDE DEF s
<1>5. /\ s # <<>>
      /\ \A q : Announced(port_ringbuffer, q) /\ Unreg(p) # Unreg(q) => Announced(s, q)
      /\ \A q : Withdrawn(port_ringbuffer, q) => Withdrawn(s, q)
      /\ \A q : Withdrawn(s, q) => Withdrawn(port_ringbuffer, q) \/ Unreg(p) = Unreg(q)
  BY <1>1, Queued DEF s
<1> QED
  BY <1>2, <1>3, <1>4, <1>5

\* The main loop takes the first.
LEMMA Taken ==
    ASSUME TypeOK, check_for_new_ports
    PROVE  /\ \A q : Announced(port_ringbuffer, q) =>
                  \/ Announced(port_ringbuffer', q)
                  \/ Head(port_ringbuffer) = Reg(q) /\ ~Withdrawn(port_ringbuffer, q)
           /\ \A q : Withdrawn(port_ringbuffer, q) =>
                  Withdrawn(port_ringbuffer', q) \/ Head(port_ringbuffer) = Unreg(q)
           /\ \A q : Withdrawn(port_ringbuffer', q) => Withdrawn(port_ringbuffer, q)
<1>1. port_ringbuffer \in Seq(Notifications) /\ port_ringbuffer # <<>>
  BY DEF check_for_new_ports, TypeOK, Notifications
<1> QED
  BY <1>1, NotificationStep, Handled

\* A registration is no unregistration, and each names one port.
LEMMA RegOnce ==
    /\ \A p, q : Reg(p) # Unreg(q)
    /\ \A p, q : Reg(p) = Reg(q) => p = q
    /\ \A p, q : Unreg(p) = Unreg(q) => p = q
BY DEF Reg, Unreg

\* The port p is going to be looked at: it is announced, or yet to be gone
\* through by register_prexisting_ports.
Waiting(p) == phase = "preexisting" /\ p \in todo
Coming(p) == Announced(port_ringbuffer, p) \/ Waiting(p)

\* A port that exists is known, or is going to be, and a port that was away is
\* announced again.
KnownInv ==
    /\ \A p \in ports : Withdrawn(port_ringbuffer, p) => Announced(port_ringbuffer, p)
    /\ introduced => \A p \in ports : known_ports[p] > 0 \/ Coming(p)

\* The known ports agree with JACK at the start.
LEMMA KnownInit == ASSUME Init PROVE KnownInv
BY NothingQueued DEF Init, KnownInv

\* Every step keeps the agreement of the known ports, the ring buffer and
\* JACK.
LEMMA KnownPreserved ==
    ASSUME TypeOK, TypeOK', LifeInv, KnownInv, [Next]_vars
    PROVE  KnownInv'
<1>1. ASSUME NEW p \in Ports, PortAppears(p) PROVE KnownInv'
  <2>1. CASE client_active
    BY <1>1, <2>1, Appeared DEF PortAppears, KnownInv, Coming, Waiting, lists, loop
  <2>2. CASE ~client_active
    BY <1>1, <2>2, NothingQueued
    DEF PortAppears, port_registration_callback, LifeInv, KnownInv
  <2> QED
    BY <2>1, <2>2
<1>2. ASSUME NEW p \in Ports, PortVanishes(p) PROVE KnownInv'
  <2>1. CASE client_active
    BY <1>2, <2>1, Vanished DEF PortVanishes, KnownInv, Coming, Waiting, lists, loop
  <2>2. CASE ~client_active
    BY <1>2, <2>2, NothingQueued
    DEF PortVanishes, port_registration_callback, LifeInv, KnownInv
  <2> QED
    BY <2>1, <2>2
<1>3. ASSUME NEW src \in OutPorts, NEW dst \in InPorts, UserConnects(src, dst)
      PROVE KnownInv'
  BY <1>3 DEF UserConnects, KnownInv, Coming, Waiting, lists, loop, history
<1>4. ASSUME NEW c \in conns, UserDisconnects(c) PROVE KnownInv'
  BY <1>4 DEF UserDisconnects, KnownInv, Coming, Waiting, lists, loop
<1>5. ASSUME NEW m \in Modes, NEW p \in Projects, Start(m, p) PROVE KnownInv'
  BY <1>5 DEF Start, LifeInv, KnownInv, Coming, Waiting, jack
<1>6. ASSUME NEW p \in Projects, osc_open(p) PROVE KnownInv'
  BY <1>6 DEF osc_open, Idle, LifeInv, KnownInv, Coming, Waiting, jack
<1>7. ASSUME snapshot PROVE KnownInv'
  BY <1>7 DEF snapshot, Idle, KnownInv, Coming, Waiting, jack, lists
<1>8. ASSUME die \/ Killed PROVE KnownInv'
  BY <1>8, NothingQueued DEF die, Killed, Ends, KnownInv
<1>9. ASSUME register_prexisting_ports PROVE KnownInv'
  BY <1>9 DEF register_prexisting_ports, KnownInv, Coming, Waiting, jack
<1>10. ASSUME NEW p \in todo, PreexistingPort(p) PROVE KnownInv'
  <2>1. p \in Ports /\ handle_new_port(p)
    BY <1>10 DEF PreexistingPort, TypeOK
  <2>2. ports \subseteq Ports
    BY DEF TypeOK
  <2> QED
    BY <1>10, <2>1, <2>2, NewPort
    DEF PreexistingPort, KnownInv, Coming, Waiting, history
<1>11. ASSUME PreexistingDone PROVE KnownInv'
  BY <1>11 DEF PreexistingDone, KnownInv, Coming, Waiting, jack, lists, history
<1>12. ASSUME check_for_new_ports PROVE KnownInv'
  <2>1. ASSUME NEW p \in ports, Withdrawn(port_ringbuffer, p)
        PROVE  Announced(port_ringbuffer', p)
    BY <1>12, <2>1, Taken DEF KnownInv
  <2>2. \A p \in ports : Withdrawn(port_ringbuffer', p) => Announced(port_ringbuffer', p)
    BY <1>12, <2>1, Taken
  <2>3. ASSUME introduced, NEW q \in ports
        PROVE  known_ports'[q] > 0 \/ Announced(port_ringbuffer', q)
    <3>1. q \in Ports /\ (known_ports[q] > 0 \/ Announced(port_ringbuffer, q))
      BY <1>12, <2>3, NotificationStep DEF KnownInv, Coming, Waiting, Idle, TypeOK
    <3>2. CASE \E p \in Ports : Head(port_ringbuffer) = Reg(p) /\ handle_new_port(p)
      BY <1>12, <3>1, <3>2, Taken, NewPort, RegOnce
    <3>3. CASE \E p \in Ports : /\ Head(port_ringbuffer) = Unreg(p)
                                /\ remove_known_port(p) /\ UNCHANGED conns
      <4>1. PICK p \in Ports : Head(port_ringbuffer) = Unreg(p) /\ remove_known_port(p)
        BY <3>3
      <4>2. CASE q = p
        <5>1. Withdrawn(port_ringbuffer, p)
          <6>1. port_ringbuffer \in Seq(Notifications) /\ port_ringbuffer # <<>>
            BY <1>12 DEF check_for_new_ports, TypeOK, Notifications
          <6>2. 1 \in DOMAIN port_ringbuffer /\ port_ringbuffer[1] = Unreg(p)
            BY <4>1, <6>1
          <6> QED
            BY <6>2 DEF Withdrawn
        <5> QED
          BY <2>1, <4>2, <5>1
      <4>3. CASE q # p
        BY <1>12, <3>1, <4>1, <4>3, Taken, GonePort, RegOnce
      <4> QED
        BY <4>2, <4>3
    <3> QED
      BY <1>12, <3>2, <3>3, NotificationStep
  <2>4. UNCHANGED <<ports, introduced>>
    BY <1>12, NotificationStep DEF history
  <2> QED
    BY <2>2, <2>3, <2>4 DEF KnownInv, Coming
<1>13. ASSUME Writing PROVE KnownInv'
  <2>1. /\ UNCHANGED <<jack, port_ringbuffer, known_ports, introduced>>
        /\ phase # "preexisting"
    BY <1>13 DEF LifeInv, Writing, FindSource, FindDestination, RememberDone, Collect, SnapshotEnd, history, lists
  <2> QED
    BY <2>1 DEF KnownInv, Coming, Waiting, jack
<1>14. CASE UNCHANGED vars
  BY <1>14 DEF KnownInv, Coming, Waiting, vars, jack, lists, loop, history
<1> QED
  BY <1>1, <1>2, <1>3, <1>4, <1>5, <1>6, <1>7, <1>8, <1>9, <1>10, <1>11, <1>12, <1>13,
     <1>14
  DEF Next, Environment, Requests, Loading

-----------------------------------------------------------------------------
(* Active patches                                                          *)

\* The first record of a "||" line has an uninitialized member.  It does no
\* harm where the line is written so that JACK refuses the pair of that record.
Harmless(lines) == \A l \in lines : l.dir = "|" => <<l.right, l.left>> \notin OutPorts \X InPorts
NothingUndefined == \A p \in Projects : DiskAtStart[p] # NoFile => Harmless(DiskAtStart[p])
FilesInv == \A p \in Projects : disk[p] # NoFile => Harmless(disk[p])

\* Every step keeps what is known about the project files.
LEMMA FilesPreserved ==
    ASSUME TypeOK, FilesInv, [Next]_vars
    PROVE  FilesInv'
<1>1. ASSUME NEW lines, disk' = [disk EXCEPT ![project_file] = lines], Harmless(lines)
      PROVE  FilesInv'
  <2>1. \A p \in Projects : disk'[p] = disk[p] \/ disk'[p] = lines
    BY <1>1 DEF TypeOK
  <2> QED
    BY <1>1, <2>1 DEF FilesInv
<1>2. CASE snapshot
  <2>1. Harmless({})
    BY DEF Harmless
  <2> QED
    <3>1. UNCHANGED disk \/ disk' = [disk EXCEPT ![project_file] = {}]
      BY <1>2 DEF snapshot, SnapshotReturns, SnapshotBegins
    <3> QED
      BY <1>1, <2>1, <3>1 DEF FilesInv
<1>3. CASE SnapshotEnd
  <2>1. Harmless({[left |-> c[1], dir |-> ">", right |-> c[2]] : c \in table})
    BY DEF Harmless
  <2> QED
    BY <1>1, <1>3, <2>1 DEF SnapshotEnd
<1>4. CASE UNCHANGED disk
  BY <1>4 DEF FilesInv
<1>5. ASSUME Environment \/ die \/ Killed \/ Loading \/ check_for_new_ports
      PROVE  UNCHANGED disk
  BY <1>5
  DEF Environment, PortAppears, PortVanishes, UserConnects, UserDisconnects, die, Killed,
      Ends, Loading, register_prexisting_ports, PreexistingPort, PreexistingDone,
      check_for_new_ports, files
<1>6. ASSUME NEW m, NEW p, Start(m, p) \/ osc_open(p)
      PROVE  UNCHANGED disk
  BY <1>6 DEF Start, osc_open
<1>7. ASSUME \/ \E pr \in patch_list : FindSource(pr)
             \/ \E pr \in src_found : FindDestination(pr)
             \/ RememberDone
             \/ \E p \in todo : Collect(p)
      PROVE  UNCHANGED disk
  BY <1>7 DEF FindSource, FindDestination, RememberDone, Collect, files
<1>8. CASE UNCHANGED vars
  BY <1>4, <1>8 DEF vars, files
<1> QED
  BY <1>2, <1>3, <1>4, <1>5, <1>6, <1>7, <1>8 DEF Next, Requests, Writing

\* A patch that is active while its connection is gone had a port that vanished,
\* and the notification of it has not been handled.
ActiveInv ==
    \A pr \in patch_list :
        pr.active /\ Pair(pr) \in promised \ conns
        => Withdrawn(port_ringbuffer, pr.src) \/ Withdrawn(port_ringbuffer, pr.dst)

\* Nothing is active after a load.
LEMMA LoadedInactive ==
    ASSUME TypeOK, FilesInv, NEW p \in Projects, Load(p)
    PROVE  \A pr \in patch_list' : pr.active => Pair(pr) \notin promised'
<1>1. disk[p] \in SUBSET Lines /\ Harmless(disk[p])
  BY DEF Load, TypeOK, FilesInv
<1>2. PICK u \in BOOLEAN : patch_list' = UNION {process_patch(l, u) : l \in disk[p]}
  BY DEF Load, read_config
<1>3. promised' \subseteq OutPorts \X InPorts
  BY LoadedPairs
<1>4. ASSUME NEW l \in disk[p], NEW pr \in process_patch(l, u), pr.active
      PROVE  Pair(pr) \notin OutPorts \X InPorts
  <2>1. l \in Lines
    BY <1>1
  <2>2. /\ <<l.left, l.right>> \in Pairs /\ <<l.right, l.left>> \in Pairs
        /\ l.dir \in {"<", ">", "|"}
    BY <2>1 DEF Lines, Pairs
  <2>3. l.dir = "|" /\ pr = Patch(<<l.right, l.left>>, u)
    BY <1>4, <2>2, PatchOfPair DEF process_patch
  <2>4. Pair(pr) = <<l.right, l.left>>
    BY <2>2, <2>3, PatchOfPair
  <2> QED
    BY <1>1, <2>3, <2>4 DEF Harmless
<1> QED
  BY <1>2, <1>3, <1>4

\* Every step keeps this: a promise that is marked active and not connected
\* loses a port that the ring buffer withdraws.
LEMMA ActivePreserved ==
    ASSUME TypeOK, TypeOK', LifeInv, ListInv, FilesInv, ActiveInv, [Next]_vars
    PROVE  ActiveInv'
<1>1. ASSUME NEW p \in Ports, PortAppears(p) PROVE ActiveInv'
  <2>1. CASE client_active
    BY <1>1, <2>1, Appeared DEF PortAppears, ActiveInv, lists
  <2>2. CASE ~client_active
    BY <1>1, <2>2 DEF PortAppears, LifeInv, ActiveInv
  <2> QED
    BY <2>1, <2>2
<1>2. ASSUME NEW p \in Ports, PortVanishes(p) PROVE ActiveInv'
  <2>1. CASE client_active
    <3>1. ASSUME NEW pr \in patch_list, pr.active, Pair(pr) \in promised \ conns'
          PROVE  Withdrawn(port_ringbuffer', pr.src) \/ Withdrawn(port_ringbuffer', pr.dst)
      <4>1. pr \in PatchRecords
        BY DEF TypeOK
      <4>2. CASE Pair(pr) \in conns
        BY <1>2, <2>1, <3>1, <4>1, <4>2, Vanished, PairOfPatch DEF PortVanishes
      <4>3. CASE Pair(pr) \notin conns
        BY <1>2, <2>1, <3>1, <4>3, Vanished DEF ActiveInv
      <4> QED
        BY <4>2, <4>3
    <3> QED
      BY <1>2, <3>1 DEF PortVanishes, ActiveInv, lists
  <2>2. CASE ~client_active
    BY <1>2, <2>2 DEF PortVanishes, LifeInv, ActiveInv
  <2> QED
    BY <2>1, <2>2
<1>3. ASSUME NEW src \in OutPorts, NEW dst \in InPorts, UserConnects(src, dst)
      PROVE ActiveInv'
  BY <1>3 DEF UserConnects, ActiveInv, lists, history
<1>4. ASSUME NEW c \in conns, UserDisconnects(c) PROVE ActiveInv'
  BY <1>4 DEF UserDisconnects, ActiveInv, lists
<1>5. ASSUME NEW p \in Projects, Load(p) PROVE ActiveInv'
  BY <1>5, LoadedInactive DEF ActiveInv
<1>6. ASSUME NEW next, Blank(next) PROVE ActiveInv'
  BY <1>6, BlankList DEF ActiveInv
<1>7. ASSUME NEW m \in Modes, NEW p \in Projects, Start(m, p) PROVE ActiveInv'
  BY <1>5, <1>6, <1>7 DEF Start
<1>8. ASSUME NEW p \in Projects, osc_open(p) PROVE ActiveInv'
  <2>1. CASE OpenFails(p) /\ UNCHANGED <<jack, port_ringbuffer>>
    BY <2>1 DEF OpenFails, ActiveInv, jack
  <2> QED
    BY <1>5, <1>6, <1>8, <2>1 DEF osc_open
<1>9. ASSUME snapshot PROVE ActiveInv'
  BY <1>9 DEF snapshot, ActiveInv, jack, lists
<1>10. ASSUME die \/ Killed PROVE ActiveInv'
  BY <1>10 DEF die, Killed, Ends, ActiveInv
<1>11. ASSUME register_prexisting_ports \/ PreexistingDone PROVE ActiveInv'
  BY <1>11 DEF register_prexisting_ports, PreexistingDone, ActiveInv, jack, lists, history
<1>12. ASSUME NEW p \in Ports, handle_new_port(p), UNCHANGED promised,
              NEW pr \in patch_list', pr.active, Pair(pr) \in promised' \ conns'
       PROVE  Withdrawn(port_ringbuffer, pr.src) \/ Withdrawn(port_ringbuffer, pr.dst)
  <2>1. PICK old \in patch_list :
            /\ Pair(pr) = Pair(old) /\ pr.src = old.src /\ pr.dst = old.dst
            /\ old.active
    BY <1>12, NewPort
  <2>2. Pair(old) \in promised \ conns
    BY <1>12, <2>1, NewPort
  <2> QED
    BY <2>1, <2>2 DEF ActiveInv
<1>13. ASSUME NEW p \in todo, PreexistingPort(p) PROVE ActiveInv'
  BY <1>12, <1>13 DEF PreexistingPort, TypeOK, ActiveInv, history
<1>14. ASSUME check_for_new_ports PROVE ActiveInv'
  <2>1. UNCHANGED promised
    BY <1>14, NotificationStep DEF history
  <2>2. CASE \E p \in Ports : Head(port_ringbuffer) = Reg(p) /\ handle_new_port(p)
    <3>1. \A q : Withdrawn(port_ringbuffer, q) => Withdrawn(port_ringbuffer', q)
      BY <1>14, <2>2, Taken, RegOnce
    <3> QED
      BY <1>12, <2>1, <2>2, <3>1 DEF ActiveInv
  <2>3. CASE \E p \in Ports : /\ Head(port_ringbuffer) = Unreg(p)
                              /\ remove_known_port(p) /\ UNCHANGED conns
    <3>1. PICK p \in Ports : /\ Head(port_ringbuffer) = Unreg(p)
                             /\ remove_known_port(p) /\ UNCHANGED conns
      BY <2>3
    <3>2. \A q : q # p /\ Withdrawn(port_ringbuffer, q) => Withdrawn(port_ringbuffer', q)
      BY <1>14, <3>1, Taken, RegOnce
    <3>3. ASSUME NEW pr \in patch_list', pr.active, Pair(pr) \in promised' \ conns'
          PROVE  \/ Withdrawn(port_ringbuffer', pr.src)
                 \/ Withdrawn(port_ringbuffer', pr.dst)
      <4>1. PICK old \in patch_list :
                /\ Pair(pr) = Pair(old) /\ pr.src = old.src /\ pr.dst = old.dst
                /\ old.active /\ p \notin {pr.src, pr.dst}
        BY <3>1, <3>3, GonePort
      <4>2. Withdrawn(port_ringbuffer, pr.src) \/ Withdrawn(port_ringbuffer, pr.dst)
        BY <2>1, <3>1, <3>3, <4>1 DEF ActiveInv
      <4> QED
        BY <3>2, <4>1, <4>2
    <3> QED
      BY <3>3 DEF ActiveInv
  <2> QED
    BY <1>14, <2>2, <2>3, NotificationStep
<1>15. ASSUME NEW pr, LookUp(pr) PROVE ActiveInv'
  BY <1>15 DEF LookUp, FindSource, FindDestination, ActiveInv, jack, history
<1>16. ASSUME NEW S \in SUBSET Pairs, NEW pr \in {Patch(c, FALSE) : c \in S}
       PROVE  ~pr.active
  BY PatchOfPair
<1>17. table \in SUBSET Pairs /\ conns \in SUBSET Pairs
  BY DEF TypeOK, Pairs
<1>18. ASSUME RememberDone PROVE ActiveInv'
  BY <1>16, <1>17, <1>18 DEF RememberDone, ActiveInv
<1>19. ASSUME NEW p \in todo, Collect(p) PROVE ActiveInv'
  <2>1. {c \in conns : c[1] = p} \in SUBSET Pairs
    BY <1>17
  <2>2. \A pr \in patch_list' : ~pr.active
    BY <1>16, <1>17, <1>19, <2>1 DEF Collect, ListInv
  <2> QED
    BY <2>2 DEF ActiveInv
<1>20. ASSUME SnapshotEnd PROVE ActiveInv'
  BY <1>16, <1>17, <1>20 DEF SnapshotEnd, ListInv, ActiveInv, lists
<1>21. CASE UNCHANGED vars
  BY <1>21 DEF ActiveInv, vars, jack, lists, history
<1> QED
  BY <1>1, <1>2, <1>3, <1>4, <1>7, <1>8, <1>9, <1>10, <1>11, <1>13, <1>14, <1>15, <1>18,
     <1>19, <1>20, <1>21
  DEF Next, Environment, Requests, Loading, Writing, LookUp

-----------------------------------------------------------------------------
(* Promises                                                                *)

\* A promise that is not kept though both ports exist is going to be.
Due(c) == {c[1], c[2]} \subseteq ports /\ c \notin conns
PromiseInv ==
    introduced /\ phase # "opening" =>
        \A c \in promised \cap (PatchPairs \cup table) :
            Due(c) => Coming(c[1]) \/ Coming(c[2])

\* The heart of the matter: p is gone through, or was announced and is handled,
\* while a promise of one of its patches is not kept.  Then the other port is
\* still to come, unless it is made to connect now.
LEMMA OtherPortComes ==
    ASSUME TypeOK, LifeInv, KnownInv, ActiveInv, ~Saving, introduced,
           NEW p \in Ports, handle_new_port(p),
           NEW c \in promised, Due(c), p \in {c[1], c[2]}, c \notin conns'
    PROVE  \E q \in {c[1], c[2]} :
              \/ Withdrawn(port_ringbuffer, q) /\ Announced(port_ringbuffer, q)
              \/ q # p /\ Coming(q)
<1>1. PICK pr \in patch_list : Pair(pr) = c
  BY DEF LifeInv, PatchPairs
<1>2. pr \in PatchRecords /\ c[1] = pr.src /\ c[2] = pr.dst /\ c[1] \in Ports /\ c[2] \in Ports
  BY <1>1, PairOfPatch DEF TypeOK
<1>3. c[1] \in ports \cap OutPorts /\ c[2] \in ports \cap InPorts
  BY DEF Due, LifeInv
<1>4. CASE pr.active
  <2>1. Withdrawn(port_ringbuffer, c[1]) \/ Withdrawn(port_ringbuffer, c[2])
    BY <1>1, <1>2, <1>4 DEF ActiveInv, Due
  <2> QED
    BY <1>3, <2>1 DEF KnownInv
<1>5. CASE ~pr.active
  <2>1. ~(known_ports'[pr.src] > 0 /\ known_ports'[pr.dst] > 0)
    BY <1>1, <1>2, <1>3, <1>5, NewPort DEF Matches, jack_connect
  <2>2. PICK q \in {c[1], c[2]} : ~(known_ports'[q] > 0)
    BY <1>2, <2>1
  <2>3. q # p /\ ~(known_ports[q] > 0)
    BY <1>2, <2>2, NewPort
  <2> QED
    BY <1>3, <2>3 DEF KnownInv
<1> QED
  BY <1>2, <1>4, <1>5 DEF PatchRecords

\* Every step keeps the promise to connect what the project asks for.
LEMMA PromisePreserved ==
    ASSUME TypeOK, TypeOK', LifeInv, LifeInv', ListInv, KnownInv, ActiveInv, PromiseInv,
           [Next]_vars
    PROVE  PromiseInv'
<1>1. ASSUME NEW p \in Ports, PortAppears(p) PROVE PromiseInv'
  <2>1. ASSUME introduced, phase # "opening",
               NEW c \in promised \cap (PatchPairs \cup table), Due(c)'
        PROVE  Coming(c[1])' \/ Coming(c[2])'
    <3>1. client_active
      BY <2>1 DEF LifeInv
    <3>2. CASE p \in {c[1], c[2]}
      BY <1>1, <3>1, <3>2, Appeared DEF Coming
    <3>3. CASE p \notin {c[1], c[2]}
      <4>1. Coming(c[1]) \/ Coming(c[2])
        BY <1>1, <2>1, <3>3 DEF PortAppears, Due, PromiseInv
      <4> QED
        BY <1>1, <3>1, <4>1, Appeared DEF PortAppears, Coming, Waiting, loop
    <3> QED
      BY <3>2, <3>3
  <2> QED
    BY <1>1, <2>1 DEF PortAppears, PromiseInv, PatchPairs, lists, loop
<1>2. ASSUME NEW p \in Ports, PortVanishes(p) PROVE PromiseInv'
  <2>1. ASSUME introduced, phase # "opening",
               NEW c \in promised \cap (PatchPairs \cup table), Due(c)'
        PROVE  Coming(c[1])' \/ Coming(c[2])'
    <3>1. client_active
      BY <2>1 DEF LifeInv
    <3>2. p \notin {c[1], c[2]} /\ Due(c)
      BY <1>2, <2>1 DEF PortVanishes, Due
    <3>3. Coming(c[1]) \/ Coming(c[2])
      BY <2>1, <3>2 DEF PromiseInv
    <3> QED
      BY <1>2, <3>1, <3>2, <3>3, Vanished DEF PortVanishes, Coming, Waiting, loop
  <2> QED
    BY <1>2, <2>1 DEF PortVanishes, PromiseInv, PatchPairs, lists, loop
<1>3. ASSUME NEW src \in OutPorts, NEW dst \in InPorts, UserConnects(src, dst)
      PROVE PromiseInv'
  BY <1>3 DEF UserConnects, PromiseInv, PatchPairs, Due, Coming, Waiting, lists, loop, history
<1>4. ASSUME NEW c \in conns, UserDisconnects(c) PROVE PromiseInv'
  BY <1>4 DEF UserDisconnects, PromiseInv, PatchPairs, Due, Coming, Waiting, lists, loop
<1>5. ASSUME (\E p \in Projects : Load(p)) \/ (\E next : Blank(next)) PROVE PromiseInv'
  BY <1>5, LoadedPairs, BlankList DEF PromiseInv
<1>6. ASSUME NEW m \in Modes, NEW p \in Projects, Start(m, p) PROVE PromiseInv'
  BY <1>5, <1>6 DEF Start
<1>7. ASSUME NEW p \in Projects, osc_open(p) PROVE PromiseInv'
  <2>1. CASE /\ OpenFails(p)
             /\ UNCHANGED <<jack, port_ringbuffer, todo, table, introduced>>
    BY <2>1 DEF OpenFails, PromiseInv, PatchPairs, Due, Coming, Waiting, jack
  <2> QED
    BY <1>5, <1>7, <2>1 DEF osc_open
<1>8. ASSUME snapshot PROVE PromiseInv'
  <2>1. table' \subseteq table /\ phase # "opening" /\ phase # "preexisting"
    BY <1>8 DEF snapshot, SnapshotReturns, SnapshotBegins, Idle
  <2> QED
    BY <1>8, <2>1 DEF snapshot, PromiseInv, PatchPairs, Due, Coming, Waiting, jack, lists
<1>9. ASSUME die \/ Killed PROVE PromiseInv'
  BY <1>9 DEF die, Killed, Ends, PromiseInv
<1>10. ASSUME register_prexisting_ports PROVE PromiseInv'
  BY <1>10 DEF register_prexisting_ports, PromiseInv, Due, Coming, Waiting, jack
<1>11. ASSUME NEW p \in todo, PreexistingPort(p) PROVE PromiseInv'
  <2>1. p \in Ports /\ handle_new_port(p) /\ ~Saving /\ introduced /\ table = {}
    BY <1>11 DEF PreexistingPort, TypeOK, LifeInv, Saving
  <2>2. ASSUME NEW c \in promised, Due(c)' PROVE Coming(c[1])' \/ Coming(c[2])'
    <3>1. Due(c) /\ c \in PatchPairs /\ c \notin conns'
      BY <1>11, <2>1, <2>2, NewPort DEF PreexistingPort, Due, LifeInv
    <3>2. Coming(c[1]) \/ Coming(c[2])
      BY <1>11, <2>1, <3>1 DEF PreexistingPort, PromiseInv
    <3>3. \A q : q # p /\ Coming(q) => Coming(q)'
      BY <1>11 DEF PreexistingPort, Coming, Waiting
    <3>4. \A q : Announced(port_ringbuffer, q) => Coming(q)'
      BY <1>11 DEF PreexistingPort, Coming
    <3>5. CASE p \in {c[1], c[2]}
      BY <2>1, <3>1, <3>3, <3>4, <3>5, OtherPortComes
    <3>6. CASE p \notin {c[1], c[2]}
      BY <3>2, <3>3, <3>6
    <3> QED
      BY <3>5, <3>6
  <2> QED
    BY <1>11, <2>2 DEF PreexistingPort, PromiseInv, history
<1>12. ASSUME PreexistingDone PROVE PromiseInv'
  BY <1>12 DEF PreexistingDone, PromiseInv, PatchPairs, Due, Coming, Waiting, jack, lists,
     history
<1>13. ASSUME check_for_new_ports PROVE PromiseInv'
  <2>1. /\ ~Saving /\ table = {} /\ phase = "listening"
        /\ UNCHANGED <<ports, phase, todo, table, promised, introduced>>
        /\ PatchPairs' = PatchPairs
    BY <1>13, NotificationStep DEF LifeInv, Saving, Idle, loop, history
  <2>2. ASSUME introduced, NEW c \in promised, Due(c)'
        PROVE  Announced(port_ringbuffer', c[1]) \/ Announced(port_ringbuffer', c[2])
    <3>1. conns \subseteq conns' /\ c \notin conns' /\ c \in PatchPairs
      BY <1>13, <2>1, <2>2, NotificationStep, NewPort DEF Due, LifeInv
    <3>2. Due(c)
      BY <2>1, <2>2, <3>1 DEF Due
    <3>3. PICK q \in {c[1], c[2]} : Announced(port_ringbuffer, q)
      BY <2>1, <2>2, <3>1, <3>2 DEF PromiseInv, Coming, Waiting
    <3>4. CASE Head(port_ringbuffer) # Reg(q)
      BY <1>13, <3>3, <3>4, Taken
    <3>5. CASE Head(port_ringbuffer) = Reg(q)
      <4>1. q \in Ports /\ handle_new_port(q)
        BY <1>13, <3>5, NotificationStep, RegOnce
      <4>2. PICK r \in {c[1], c[2]} :
               \/ Withdrawn(port_ringbuffer, r) /\ Announced(port_ringbuffer, r)
               \/ r # q /\ Coming(r)
        BY <2>1, <2>2, <3>1, <3>2, <4>1, OtherPortComes
      <4>3. \/ Withdrawn(port_ringbuffer, r) /\ Announced(port_ringbuffer, r)
            \/ r # q /\ Announced(port_ringbuffer, r)
        BY <2>1, <4>2 DEF Coming, Waiting
      <4> QED
        BY <1>13, <3>5, <4>3, Taken, RegOnce
    <3> QED
      BY <3>4, <3>5
  <2> QED
    BY <2>1, <2>2 DEF PromiseInv, Coming
<1>14. ASSUME NEW pr, LookUp(pr) PROVE PromiseInv'
  <2>1. PatchPairs' \cup table' \subseteq PatchPairs \cup table
    BY <1>14 DEF LookUp, LifeInv, FindSource, FindDestination, PatchPairs
  <2> QED
    BY <1>14, <2>1 DEF LookUp, FindSource, FindDestination, PromiseInv, Due, Coming, Waiting, jack, life, history
<1>15. ASSUME RememberDone PROVE PromiseInv'
  <2>1. PatchPairs' = table
    <3>1. table \in SUBSET Pairs
      BY DEF TypeOK
    <3>2. PatchPairs' = {Pair(pr) : pr \in {Patch(c, FALSE) : c \in table}}
      BY <1>15 DEF RememberDone, PatchPairs, Pair
    <3> QED
      BY <3>1, <3>2, RecordsOfPairs
  <2> QED
    BY <1>15, <2>1 DEF RememberDone, PromiseInv, Due, Coming, Waiting, jack, history
<1>16. ASSUME NEW p \in todo, Collect(p) PROVE PromiseInv'
  <2>1. PatchPairs' \cup table' \subseteq PatchPairs \cup table \cup conns
    <3> DEFINE found == {c \in conns : c[1] = p}
    <3>1. found \in SUBSET Pairs /\ found \subseteq conns
      BY DEF TypeOK, Pairs
    <3>2. PatchPairs' = PatchPairs \cup {Pair(pr) : pr \in {Patch(c, FALSE) : c \in found}}
      BY <1>16 DEF Collect, PatchPairs, Pair
    <3>3. table' = table \cup found
      BY <1>16 DEF Collect
    <3> QED
      BY <3>1, <3>2, <3>3, RecordsOfPairs
  <2> QED
    BY <1>16, <2>1 DEF Collect, PromiseInv, Due, Coming, Waiting, jack, history
<1>17. ASSUME SnapshotEnd PROVE PromiseInv'
  <2>1. ASSUME NEW c \in promised', Due(c) PROVE c \in promised \cap PatchPairs
    <3>1. /\ c \in PatchPairs
          /\ c \in promised \cup conns \/ ~({c[1], c[2]} \subseteq ports)
      BY <1>17 DEF SnapshotEnd, Promise
    <3>2. {c[1], c[2]} \subseteq ports
      BY <2>1 DEF Due
    <3> QED
      BY <2>1, <3>1, <3>2 DEF Due
  <2> QED
    BY <1>17, <2>1
    DEF SnapshotEnd, PromiseInv, Due, Coming, Waiting, jack
<1>18. CASE UNCHANGED vars
  BY <1>18 DEF PromiseInv, PatchPairs, Due, Coming, Waiting, vars, jack, lists, loop, history
<1> QED
  BY <1>1, <1>2, <1>3, <1>4, <1>6, <1>7, <1>8, <1>9, <1>10, <1>11, <1>12, <1>13,
     <1>14, <1>15, <1>16, <1>17, <1>18
  DEF Next, Environment, Requests, Loading, Writing, LookUp

-----------------------------------------------------------------------------
(* Saves with JACK at rest                                                 *)

\* While such a save goes on, a promised connection is in the list, in the
\* table, or still there to be collected.
CalmInv ==
    /\ calm /\ Saving => introduced /\ port_ringbuffer = <<>>
    /\ calm /\ phase = "remember" =>
          /\ todo = ports \cap OutPorts
          /\ promised \subseteq PatchPairs \cup table \cup conns
          /\ \A pr \in src_found : pr.src \in ports
    /\ calm /\ phase = "collect" =>
          \A c \in promised : c \in table \/ (c \in conns /\ c[1] \in todo)

\* Every step keeps the promise at the moments of rest.
LEMMA CalmPreserved ==
    ASSUME TypeOK, LifeInv, ListInv, PromiseInv, CalmInv, [Next]_vars
    PROVE  CalmInv'
<1>1. ASSUME ~calm' \/ ~Saving' PROVE CalmInv'
  BY <1>1 DEF CalmInv, Saving
<1>2. ASSUME NEW p \in Ports, PortAppears(p) \/ PortVanishes(p) PROVE CalmInv'
  BY <1>1, <1>2 DEF PortAppears, PortVanishes
<1>3. ASSUME NEW src \in OutPorts, NEW dst \in InPorts, UserConnects(src, dst)
      PROVE CalmInv'
  BY <1>3 DEF UserConnects, CalmInv, Saving, PatchPairs, lists, loop, history
<1>4. ASSUME NEW c \in conns, UserDisconnects(c) PROVE CalmInv'
  BY <1>4 DEF UserDisconnects, CalmInv, Saving, PatchPairs, lists, loop
<1>5. ASSUME NEW m \in Modes, NEW p \in Projects, Start(m, p) PROVE CalmInv'
  BY <1>1, <1>5 DEF Start, Load, Blank, Saving
<1>6. ASSUME NEW p \in Projects, osc_open(p) PROVE CalmInv'
  BY <1>1, <1>6 DEF osc_open, Load, Blank, OpenFails, Idle, Saving
<1>7. ASSUME snapshot PROVE CalmInv'
  <2>1. CASE SnapshotReturns
    BY <1>1, <2>1 DEF SnapshotReturns, Saving
  <2>2. CASE SnapshotBegins
    <3>1. promised \subseteq PatchPairs /\ UNCHANGED <<patch_list, promised, ports>>
      BY <1>7 DEF snapshot, LifeInv, Saving, Idle, jack, lists
    <3> QED
      BY <1>7, <2>2, <3>1 DEF snapshot, SnapshotBegins, CalmInv, Saving, PatchPairs
  <2> QED
    BY <1>7, <2>1, <2>2 DEF snapshot
<1>8. ASSUME die \/ Killed PROVE CalmInv'
  BY <1>1, <1>8 DEF die, Killed, Idle, loop, Saving
<1>9. ASSUME Loading PROVE CalmInv'
  BY <1>1, <1>9
  DEF Loading, register_prexisting_ports, PreexistingPort, PreexistingDone, Saving
<1>10. ASSUME check_for_new_ports PROVE CalmInv'
  BY <1>1, <1>10 DEF check_for_new_ports, Idle, loop, Saving
<1>11. ASSUME NEW pr, LookUp(pr) PROVE CalmInv'
  <2>0. phase = "remember" /\ pr \in patch_list
    BY <1>11 DEF LookUp, FindSource, LifeInv
  <2> DEFINE gone == ~({pr.src, pr.dst} \subseteq ports)
  <2>1. ASSUME calm
        PROVE  /\ patch_list \ patch_list' \subseteq {pr} /\ table \subseteq table'
               /\ pr \in patch_list' \/ ~gone \/ Pair(pr) \in table'
               /\ \A r \in src_found' : r.src \in ports
    BY <1>11, <2>0, <2>1 DEF LookUp, FindSource, FindDestination, CalmInv
  <2>2. ASSUME calm, NEW c \in promised PROVE c \in PatchPairs' \cup table' \cup conns
    <3>1. introduced /\ port_ringbuffer = <<>>
      BY <2>0, <2>2 DEF CalmInv, Saving
    <3>2. c \in PatchPairs \cup table \cup conns
      BY <2>0, <2>2 DEF CalmInv
    <3>3. CASE c = Pair(pr) /\ ~gone
      <4>1. {c[1], c[2]} \subseteq ports /\ c \in PatchPairs
        BY <2>0, <3>3, PairOfPatch DEF PatchPairs, TypeOK
      <4>2. ~Coming(c[1]) /\ ~Coming(c[2])
        BY <2>0, <3>1, NothingQueued DEF Coming, Waiting
      <4> QED
        BY <2>0, <2>2, <3>1, <4>1, <4>2 DEF PromiseInv, Due
    <3>4. CASE c = Pair(pr) /\ gone
      BY <2>1, <2>2, <3>4 DEF PatchPairs
    <3>5. CASE c # Pair(pr)
      BY <2>1, <2>2, <3>2, <3>5 DEF PatchPairs
    <3> QED
      BY <3>3, <3>4, <3>5
  <2>3. UNCHANGED <<calm, introduced, port_ringbuffer, todo, ports, promised, conns, phase>>
    BY <1>11, <2>0 DEF LookUp, FindSource, FindDestination, jack, life, history
  <2> QED
    BY <2>0, <2>1, <2>2, <2>3 DEF CalmInv, Saving
<1>12. ASSUME RememberDone PROVE CalmInv'
  <2>1. ASSUME calm, NEW c \in promised PROVE c \in table \/ (c \in conns /\ c[1] \in todo)
    <3>1. c \in table \cup conns /\ todo = ports \cap OutPorts
      BY <1>12, <2>1 DEF RememberDone, CalmInv, PatchPairs
    <3> QED
      BY <3>1 DEF LifeInv
  <2> QED
    BY <1>12, <2>1 DEF RememberDone, CalmInv, Saving, jack, history
<1>13. ASSUME NEW p \in todo, Collect(p) PROVE CalmInv'
  <2>1. phase = "collect" /\ phase' = "collect"
    BY <1>13 DEF Collect
  <2>2. ASSUME calm, NEW c \in promised
        PROVE  c \in table' \/ (c \in conns /\ c[1] \in todo')
    BY <1>13, <2>1, <2>2 DEF Collect, CalmInv
  <2> QED
    BY <1>13, <2>1, <2>2 DEF Collect, CalmInv, Saving, jack, history
<1>14. ASSUME SnapshotEnd PROVE CalmInv'
  BY <1>1, <1>14 DEF SnapshotEnd, Saving
<1>15. CASE UNCHANGED vars
  BY <1>15 DEF CalmInv, Saving, PatchPairs, vars, jack, lists, loop, history
<1> QED
  BY <1>2, <1>3, <1>4, <1>5, <1>6, <1>7, <1>8, <1>9, <1>10, <1>11, <1>12, <1>13, <1>14,
     <1>15
  DEF Next, Environment, Requests, Writing, LookUp

-----------------------------------------------------------------------------
(* The theorems                                                            *)

IInv ==
    /\ TypeOK /\ LifeInv /\ ListInv
    /\ FilesInv /\ KnownInv /\ ActiveInv /\ PromiseInv /\ CalmInv

\* The inductive invariant holds at the start.
LEMMA IInvInit == ASSUME NothingUndefined, Init PROVE IInv
<1>1. FilesInv
  BY DEF NothingUndefined, FilesInv, Init
<1>2. ActiveInv /\ PromiseInv /\ CalmInv
  BY DEF Init, ActiveInv, PromiseInv, CalmInv, Saving
<1> QED
  BY <1>1, <1>2, TypeInit, LifeInit, KnownInit DEF IInv

\* Every step keeps the inductive invariant.
LEMMA IInvPreserved == ASSUME IInv, [Next]_vars PROVE IInv'
<1>1. TypeOK' /\ LifeInv' /\ ListInv'
  BY TypePreserved, LifePreserved, ListPreserved DEF IInv
<1>2. FilesInv' /\ KnownInv' /\ ActiveInv'
  BY <1>1, FilesPreserved, KnownPreserved, ActivePreserved DEF IInv
<1>3. PromiseInv' /\ CalmInv'
  BY <1>1, PromisePreserved, CalmPreserved DEF IInv
<1> QED
  BY <1>1, <1>2, <1>3 DEF IInv

\* With every notification handled, each saved connection whose two ports exist
\* is there, in whatever order the ports came and went, for any number of them
\* and any file in which the uninitialized member does no harm.
THEOREM RestoredHolds == ASSUME NothingUndefined PROVE Spec => []Restored
<1>1. Init => IInv
  BY IInvInit
<1>2. IInv /\ [Next]_vars => IInv'
  BY IInvPreserved
<1>3. ASSUME IInv PROVE Restored
  <2>1. ASSUME Idle, introduced, port_ringbuffer = <<>>,
               NEW c \in promised \cap PatchPairs, {c[1], c[2]} \subseteq ports, c \notin conns
        PROVE  FALSE
    <3>1. ~Coming(c[1]) /\ ~Coming(c[2])
      BY <2>1, NothingQueued DEF Coming, Waiting, Idle
    <3> QED
      BY <1>3, <2>1, <3>1 DEF IInv, PromiseInv, Due, Idle
  <2> QED
    BY <2>1 DEF Restored, AllRestored
<1> QED
  BY <1>1, <1>2, <1>3, PTL DEF Spec

\* A save that begins, and goes on, with JACK at rest writes every connection
\* that was loaded or saved before and that the user has not taken away.
THEOREM CalmSaveForgetsNothingHolds ==
    ASSUME NothingUndefined PROVE Spec => CalmSaveForgetsNothing
<1>1. Init => IInv
  BY IInvInit
<1>2. IInv /\ [Next]_vars => IInv'
  BY IInvPreserved
<1>3. ASSUME IInv, [Next]_vars
      PROVE  [SnapshotEnd /\ calm => promised \subseteq PatchPairs']_vars
  <2>1. ASSUME SnapshotEnd, calm, NEW c \in promised PROVE c \in PatchPairs'
    <3>1. c \in table /\ table \in SUBSET Pairs
      BY <1>3, <2>1 DEF IInv, CalmInv, SnapshotEnd, TypeOK
    <3>2. PatchPairs' = {Pair(pr) : pr \in {Patch(d, FALSE) : d \in table}}
      BY <1>3, <2>1 DEF IInv, ListInv, SnapshotEnd, PatchPairs, Pair, lists
    <3> QED
      BY <3>1, <3>2, RecordsOfPairs
  <2> QED
    BY <2>1
<1> QED
  BY <1>1, <1>2, <1>3, PTL DEF Spec, CalmSaveForgetsNothing

=============================================================================
