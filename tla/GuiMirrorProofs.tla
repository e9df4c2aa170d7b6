--------------------------- MODULE GuiMirrorProofs --------------------------
(***************************************************************************)
(* A GUI that has handled the messages in flight shows the clients of nsmd *)
(* and the session that is open, for every value of the constants.         *)
(***************************************************************************)
EXTENDS GuiMirror, SequenceLemmas

----------------------------------------------------------------------------
(* What the GUI makes of one message                                       *)

LEMMA ViewFacts ==
    ASSUME NEW v \in Views
    PROVE  /\ v = [widgets |-> v.widgets, session |-> v.session]
           /\ v.widgets \in Seq(Widgets) /\ v.session \in Sessions \cup {None}
           /\ DOMAIN v.widgets = 1..Len(v.widgets) /\ Len(v.widgets) \in Nat
           /\ \A k \in DOMAIN v.widgets : v.widgets[k] \in Widgets
BY DEF Views

\* client_by_id finds a widget of the id, if there is one.
LEMMA ByIdFound ==
    ASSUME NEW v \in Views, NEW id, Shows(v, id) # {}
    PROVE  /\ ById(v, id) \in Shows(v, id)
           /\ ById(v, id) \in DOMAIN v.widgets
           /\ v.widgets[ById(v, id)].id = id
<1>1. Shows(v, id) \subseteq 0..Len(v.widgets) /\ Len(v.widgets) \in Nat
  BY ViewFacts DEF Shows
<1>2. \E k \in Shows(v, id) : \A j \in Shows(v, id) : j <= k
  BY <1>1, Greatest
<1>3. ById(v, id) \in Shows(v, id)
  BY <1>2 DEF ById
<1> QED
  BY <1>3 DEF Shows

\* A widget changes, but not its id.
LEMMA WidgetChanged ==
    ASSUME NEW v \in Views, NEW k \in DOMAIN v.widgets, NEW w \in Widgets,
           w.id = v.widgets[k].id, NEW u,
           u = [widgets |-> [v.widgets EXCEPT ![k] = w], session |-> v.session]
    PROVE  /\ u \in Views
           /\ \A other \in Ids \ {w.id}, W \in SUBSET Widgets :
                 Shown(v, other, W) => Shown(u, other, W)
           /\ \A W \in SUBSET Widgets :
                 Shown(v, w.id, W) => W = {v.widgets[k]} /\ Shown(u, w.id, {w})
<1> DEFINE ws == v.widgets
           us == [ws EXCEPT ![k] = w]
<1>1. /\ ws \in Seq(Widgets) /\ k \in 1..Len(ws) /\ v.session \in Sessions \cup {None}
      /\ DOMAIN ws = 1..Len(ws)
  BY ViewFacts
<1>2. /\ us \in Seq(Widgets) /\ DOMAIN us = DOMAIN ws
      /\ us[k] = w /\ \A j \in DOMAIN ws : j # k => us[j] = ws[j]
  BY <1>1
<1>3. u.widgets = us /\ u.session = v.session
  OBVIOUS
<1> HIDE DEF ws, us
<1>4. u \in Views
  BY <1>1, <1>2 DEF Views, ws, us
<1>5. ASSUME NEW id \in Ids PROVE Shows(u, id) = Shows(v, id)
  BY <1>2, <1>3 DEF Shows, ws
<1>6. ASSUME NEW other \in Ids \ {w.id}, NEW W, Shown(v, other, W)
      PROVE  Shown(u, other, W)
  <2>1. Shows(u, other) = Shows(v, other) /\ k \notin Shows(v, other)
    BY <1>5 DEF Shows
  <2>2. \A j \in Shows(v, other) : u.widgets[j] = v.widgets[j]
    BY <1>2, <1>3, <2>1 DEF Shows, ws
  <2> QED
    BY <1>6, <2>1, <2>2 DEF Shown
<1>7. ASSUME NEW W, Shown(v, w.id, W)
      PROVE  W = {v.widgets[k]} /\ Shown(u, w.id, {w})
  <2>1. w.id \in Ids
    BY DEF Widgets
  <2>2. k \in Shows(v, w.id)
    BY DEF Shows
  <2>3. Shows(v, w.id) = {k} /\ Shows(u, w.id) = {k}
    BY <1>5, <1>7, <2>1, <2>2 DEF Shown
  <2>4. {v.widgets[j] : j \in {k}} = {v.widgets[k]} /\ {u.widgets[j] : j \in {k}} = {w}
    BY <1>2, <1>3 DEF ws
  <2> QED
    BY <1>7, <2>3, <2>4 DEF Shown
<1> QED
  BY <1>4, <1>6, <1>7

\* A widget is added, of an id that has none.
LEMMA WidgetAdded ==
    ASSUME NEW v \in Views, NEW w \in Widgets, Shows(v, w.id) = {}, NEW u,
           u = [widgets |-> Append(v.widgets, w), session |-> v.session]
    PROVE  /\ u \in Views
           /\ \A other \in Ids \ {w.id}, W \in SUBSET Widgets :
                 Shown(v, other, W) => Shown(u, other, W)
           /\ Shown(u, w.id, {w})
<1> DEFINE ws == v.widgets
           us == Append(ws, w)
           n == Len(ws)
<1>1. ws \in Seq(Widgets) /\ n \in Nat /\ DOMAIN ws = 1..n
      /\ v.session \in Sessions \cup {None}
  BY ViewFacts
<1>2. /\ us \in Seq(Widgets) /\ DOMAIN us = 1..(n + 1)
      /\ us[n + 1] = w /\ \A j \in 1..n : us[j] = ws[j]
  BY <1>1, AppendProperties
<1>3. u.widgets = us /\ u.session = v.session
  OBVIOUS
<1> HIDE DEF ws, us, n
<1>4. u \in Views
  BY <1>1, <1>2 DEF Views, ws, us
<1>5. ASSUME NEW other \in Ids \ {w.id}, NEW W, Shown(v, other, W)
      PROVE  Shown(u, other, W)
  <2>1. \A j \in 1..n : u.widgets[j] = v.widgets[j]
    BY <1>2, <1>3 DEF ws
  <2>2. Shows(u, other) = Shows(v, other) /\ Shows(v, other) \subseteq 1..n
    <3>1. \A j \in 1..(n + 1) : j \in 1..n \/ j = n + 1
      BY <1>1
    <3>2. DOMAIN u.widgets = 1..(n + 1) /\ DOMAIN v.widgets = 1..n
      BY <1>1, <1>2, <1>3 DEF ws
    <3>3. u.widgets[n + 1].id # other
      BY <1>2, <1>3
    <3>4. 1..n \subseteq 1..(n + 1)
      BY <1>1
    <3> QED
      BY <2>1, <3>1, <3>2, <3>3, <3>4 DEF Shows
  <2>3. {u.widgets[j] : j \in Shows(u, other)} = {v.widgets[j] : j \in Shows(v, other)}
    BY <2>1, <2>2
  <2> QED
    BY <1>5, <2>2, <2>3 DEF Shown
<1>6. Shown(u, w.id, {w})
  <2>1. Shows(u, w.id) = {n + 1}
    <3>1. \A j \in 1..n : u.widgets[j].id # w.id
      BY <1>1, <1>2, <1>3 DEF Shows, ws
    <3>2. \A j \in 1..(n + 1) : j \in 1..n \/ j = n + 1
      BY <1>1
    <3>3. n + 1 \in 1..(n + 1)
      BY <1>1
    <3> QED
      BY <1>2, <1>3, <3>1, <3>2, <3>3 DEF Shows
  <2>2. {u.widgets[j] : j \in {n + 1}} = {w}
    BY <1>2, <1>3
  <2> QED
    BY <2>1, <2>2 DEF Shown
<1> QED
  BY <1>4, <1>5, <1>6

\* A widget is taken away.
LEMMA WidgetRemoved ==
    ASSUME NEW v \in Views, NEW k \in DOMAIN v.widgets, NEW u,
           u = [widgets |-> RemoveAt(v.widgets, k), session |-> v.session]
    PROVE  /\ u \in Views
           /\ \A other \in Ids \ {v.widgets[k].id}, W \in SUBSET Widgets :
                 Shown(v, other, W) => Shown(u, other, W)
           /\ \A W \in SUBSET Widgets :
                 Shown(v, v.widgets[k].id, W) => Shown(u, v.widgets[k].id, {})
<1> DEFINE ws == v.widgets
           us == RemoveAt(ws, k)
           n == Len(ws)
           From(j) == IF j < k THEN j ELSE j + 1
<1>1. ws \in Seq(Widgets) /\ n \in Nat /\ DOMAIN ws = 1..n /\ k \in 1..n
      /\ v.session \in Sessions \cup {None}
  BY ViewFacts
<1>2. /\ us \in Seq(Widgets) /\ DOMAIN us = 1..(n - 1)
      /\ \A j \in 1..(n - 1) : us[j] = ws[From(j)]
  <2>1. /\ us \in Seq(Widgets) /\ Len(us) = n - 1
        /\ \A j \in 1..(n - 1) : us[j] = IF j < k THEN ws[j] ELSE ws[j + 1]
    BY <1>1, RemoveAtFacts
  <2> QED
    BY <2>1
<1>3. u.widgets = us /\ u.session = v.session
  OBVIOUS
<1>4. /\ \A j \in 1..(n - 1) : From(j) \in 1..n /\ From(j) # k
      /\ \A i, j \in 1..(n - 1) : From(i) = From(j) => i = j
      /\ \A i \in 1..n : i # k => \E j \in 1..(n - 1) : From(j) = i
  <2>1. \A j \in 1..(n - 1) : From(j) \in 1..n /\ From(j) # k
    BY <1>1
  <2>2. \A i, j \in 1..(n - 1) : From(i) = From(j) => i = j
    BY <1>1
  <2>3. ASSUME NEW i \in 1..n, i # k PROVE \E j \in 1..(n - 1) : From(j) = i
    <3>1. CASE i < k
      <4>1. i \in 1..(n - 1) /\ From(i) = i
        BY <1>1, <3>1
      <4> QED
        BY <4>1
    <3>2. CASE ~(i < k)
      <4>1. i - 1 \in 1..(n - 1) /\ From(i - 1) = i
        BY <1>1, <2>3, <3>2
      <4> QED
        BY <4>1
    <3> QED
      BY <3>1, <3>2
  <2> QED
    BY <2>1, <2>2, <2>3
<1> HIDE DEF ws, us, n, From
<1>5. u \in Views
  BY <1>1, <1>2 DEF Views, ws, us
<1>6. ASSUME NEW id PROVE /\ \A j \in Shows(u, id) : From(j) \in Shows(v, id) \ {k}
                          /\ \A i \in Shows(v, id) \ {k} :
                                \E j \in Shows(u, id) : From(j) = i
  <2>1. Shows(u, id) = {j \in 1..(n - 1) : ws[From(j)].id = id}
    BY <1>2, <1>3 DEF Shows
  <2>2. Shows(v, id) = {j \in 1..n : ws[j].id = id}
    BY <1>1 DEF Shows, ws
  <2> QED
    BY <1>4, <2>1, <2>2
<1>7. ASSUME NEW other \in Ids \ {v.widgets[k].id}, NEW W, Shown(v, other, W)
      PROVE  Shown(u, other, W)
  <2>1. k \notin Shows(v, other)
    BY DEF Shows
  <2>2. \A i, j \in Shows(u, other) : i = j
    <3>1. Shows(u, other) \subseteq 1..(n - 1)
      BY <1>2, <1>3 DEF Shows
    <3> QED
      BY <1>4, <1>6, <1>7, <3>1 DEF Shown
  <2>3. {u.widgets[j] : j \in Shows(u, other)} = {v.widgets[i] : i \in Shows(v, other)}
    <3>1. \A j \in Shows(u, other) : u.widgets[j] = v.widgets[From(j)]
      BY <1>2, <1>3 DEF Shows, ws
    <3> QED
      BY <1>6, <2>1, <3>1
  <2> QED
    BY <1>7, <2>2, <2>3 DEF Shown
<1>8. ASSUME NEW W, Shown(v, v.widgets[k].id, W)
      PROVE  Shown(u, v.widgets[k].id, {})
  <2>1. k \in Shows(v, v.widgets[k].id)
    BY DEF Shows
  <2>2. Shows(v, v.widgets[k].id) \ {k} = {}
    BY <1>8, <2>1 DEF Shown
  <2>3. Shows(u, v.widgets[k].id) = {}
    BY <1>6, <2>2
  <2> QED
    BY <2>3 DEF Shown
<1> QED
  BY <1>5, <1>7, <1>8

\* A widget gets another id. That only the two ids are touched holds even if
\* there are other widgets of them.
LEMMA WidgetSwitched ==
    ASSUME NEW v \in Views, NEW k \in DOMAIN v.widgets, NEW w \in Widgets, NEW u,
           u = [widgets |-> [v.widgets EXCEPT ![k] = w], session |-> v.session]
    PROVE  /\ u \in Views
           /\ \A other \in Ids \ {v.widgets[k].id, w.id}, W \in SUBSET Widgets :
                 Shown(v, other, W) => Shown(u, other, W)
           /\ \A W \in SUBSET Widgets :
                 /\ v.widgets[k].id # w.id
                 /\ Shown(v, v.widgets[k].id, W) /\ Shown(v, w.id, {})
                 => /\ W = {v.widgets[k]}
                    /\ Shown(u, v.widgets[k].id, {}) /\ Shown(u, w.id, {w})
<1> DEFINE ws == v.widgets
           us == [ws EXCEPT ![k] = w]
           old == ws[k].id
<1>1. /\ ws \in Seq(Widgets) /\ k \in 1..Len(ws) /\ v.session \in Sessions \cup {None}
      /\ DOMAIN ws = 1..Len(ws)
  BY ViewFacts
<1>2. /\ us \in Seq(Widgets) /\ DOMAIN us = DOMAIN ws
      /\ us[k] = w /\ \A j \in DOMAIN ws : j # k => us[j] = ws[j]
  BY <1>1
<1>3. u.widgets = us /\ u.session = v.session
  OBVIOUS
<1> HIDE DEF ws, us
<1>4. u \in Views
  BY <1>1, <1>2 DEF Views, ws, us
<1>5. ASSUME NEW other \in Ids \ {old, w.id}, NEW W, Shown(v, other, W)
      PROVE  Shown(u, other, W)
  <2>1. k \notin Shows(v, other) /\ Shows(u, other) = Shows(v, other)
    BY <1>2, <1>3 DEF Shows, ws
  <2>2. \A j \in Shows(v, other) : u.widgets[j] = v.widgets[j]
    BY <1>2, <1>3, <2>1 DEF Shows, ws
  <2> QED
    BY <1>5, <2>1, <2>2 DEF Shown
<1>6. ASSUME NEW W, old # w.id, Shown(v, old, W), Shown(v, w.id, {})
      PROVE  W = {ws[k]} /\ Shown(u, old, {}) /\ Shown(u, w.id, {w})
  <2>1. Shows(v, old) = {k}
    <3>1. k \in Shows(v, old)
      BY DEF Shows, ws
    <3> QED
      BY <1>6, <3>1 DEF Shown
  <2>2. Shows(v, w.id) = {}
    BY <1>6 DEF Shown
  <2>3. Shows(u, old) = {}
    <3>1. \A j \in DOMAIN ws : j # k => us[j].id # old
      BY <1>2, <2>1 DEF Shows, ws
    <3> QED
      BY <1>2, <1>3, <1>6, <3>1 DEF Shows
  <2>4. Shows(u, w.id) = {k}
    <3>1. \A j \in DOMAIN ws : j # k => us[j].id # w.id
      BY <1>2, <2>2 DEF Shows, ws
    <3> QED
      BY <1>1, <1>2, <1>3, <3>1 DEF Shows
  <2>5. {v.widgets[j] : j \in {k}} = {ws[k]} /\ {u.widgets[j] : j \in {k}} = {w}
    BY <1>2, <1>3 DEF ws
  <2> QED
    BY <1>6, <2>1, <2>3, <2>4, <2>5 DEF Shown
<1> QED
  BY <1>4, <1>5, <1>6 DEF ws

\* m is about a client of this id: what the GUI shows of the others, and of the
\* session, stays as it is.
AboutOne(id, v, u) ==
    /\ u \in Views /\ u.session = v.session
    /\ \A other \in Ids \ {id}, W \in SUBSET Widgets :
          Shown(v, other, W) => Shown(u, other, W)

\* "new" for an identifier without a widget makes one, for an identifier with
\* one it only writes the name into it; no other identifier is touched.
LEMMA HandledNew ==
    ASSUME NEW v \in Views, NEW id \in Ids, NEW name \in Names, NEW u,
           u = Handled(v, [path |-> "new", id |-> id, arg |-> name])
    PROVE  /\ AboutOne(id, v, u)
           /\ Shown(v, id, {}) =>
                 Shown(u, id, {[id |-> id, name |-> name, stopped |-> FALSE, gui |-> FALSE]})
           /\ \A w \in Widgets :
                 Shown(v, id, {w}) => Shown(u, id, {[w EXCEPT !.name = name]})
<1> DEFINE m == [path |-> "new", id |-> id, arg |-> name]
<1>1. u = ClientNew(v, m)
  BY DEF Handled
<1>2. CASE Shows(v, id) = {}
  <2> DEFINE w == [id |-> id, name |-> name, stopped |-> FALSE, gui |-> FALSE]
  <2>1. u = [widgets |-> Append(v.widgets, w), session |-> v.session]
    BY <1>1, <1>2, ViewFacts DEF ClientNew
  <2>2. w \in Widgets /\ w.id = id
    BY DEF Widgets
  <2>3. \A W : Shown(v, id, W) => W = {}
    BY <1>2 DEF Shown
  <2>4. AboutOne(id, v, u) /\ Shown(u, id, {w})
    <3>1. u.session = v.session
      BY <2>1
    <3> HIDE DEF w
    <3> QED
      BY <1>2, <2>1, <2>2, <3>1, WidgetAdded DEF AboutOne
  <2>5. \A x \in Widgets : ~Shown(v, id, {x})
    BY <2>3
  <2> QED
    BY <2>4, <2>5
<1>3. CASE Shows(v, id) # {}
  <2> DEFINE k == ById(v, id)
             w == [v.widgets[k] EXCEPT !.name = name]
  <2>1. k \in DOMAIN v.widgets /\ v.widgets[k].id = id /\ v.widgets[k] \in Widgets
    BY <1>3, ByIdFound, ViewFacts
  <2>2. u = [v EXCEPT !.widgets[k].name = name]
    BY <1>1, <1>3 DEF ClientNew
  <2>3. w \in Widgets /\ w.id = id
    BY <2>1 DEF Widgets
  <2>4. u = [widgets |-> [v.widgets EXCEPT ![k] = w], session |-> v.session]
    BY <2>1, <2>2, ViewFacts
  <2> HIDE DEF k
  <2>5. /\ u \in Views
        /\ \A other \in Ids \ {id}, W \in SUBSET Widgets :
              Shown(v, other, W) => Shown(u, other, W)
        /\ \A W \in SUBSET Widgets :
              Shown(v, id, W) => W = {v.widgets[k]} /\ Shown(u, id, {w})
    <3> HIDE DEF w
    <3> QED
      BY <2>1, <2>3, <2>4, WidgetChanged
  <2>6. u.session = v.session
    BY <2>4
  <2>7. AboutOne(id, v, u)
    BY <2>5, <2>6 DEF AboutOne
  <2>8. ~Shown(v, id, {})
    BY <2>5
  <2>9. \A x \in Widgets : Shown(v, id, {x}) => Shown(u, id, {[x EXCEPT !.name = name]})
    BY <2>5
  <2> QED
    BY <2>7, <2>8, <2>9
<1> QED
  BY <1>2, <1>3

\* What all that changes a widget with client_by_id have in common.
LEMMA HandledById ==
    ASSUME NEW v \in Views, NEW id \in Ids, Shows(v, id) # {}, NEW w \in Widgets, NEW u,
           w.id = id,
           u = [widgets |-> [v.widgets EXCEPT ![ById(v, id)] = w], session |-> v.session]
    PROVE  /\ AboutOne(id, v, u)
           /\ \A W \in SUBSET Widgets :
                 Shown(v, id, W) => W = {v.widgets[ById(v, id)]} /\ Shown(u, id, {w})
<1>1. ById(v, id) \in DOMAIN v.widgets /\ v.widgets[ById(v, id)].id = id
  BY ByIdFound
<1>2. u.session = v.session
  OBVIOUS
<1> QED
  BY <1>1, <1>2, WidgetChanged DEF AboutOne

\* Nothing is done about a client that the GUI does not show.
LEMMA HandledUnknown ==
    ASSUME NEW v \in Views, NEW m, m.path \notin {"name", "new"}, Shows(v, m.id) = {}
    PROVE  Handled(v, m) = v
BY DEF Handled

\* A message about an identifier the window does not show leaves it without a
\* widget.
LEMMA UnknownFacts ==
    ASSUME NEW v \in Views, NEW id, Shows(v, id) = {}
    PROVE  AboutOne(id, v, v) /\ Shown(v, id, {}) /\ \A W : Shown(v, id, W) => W = {}
BY DEF AboutOne, Shown

\* "status" removes the widget of a removed client, sets the stopped mark of
\* any other, and makes none.
LEMMA HandledStatus ==
    ASSUME NEW v \in Views, NEW id \in Ids, NEW s \in Status, NEW u,
           u = Handled(v, [path |-> "status", id |-> id, arg |-> s])
    PROVE  /\ AboutOne(id, v, u)
           /\ Shown(v, id, {}) => Shown(u, id, {})
           /\ \A w \in Widgets :
                 Shown(v, id, {w}) =>
                    Shown(u, id, IF s = "removed" THEN {}
                                 ELSE {[w EXCEPT !.stopped = (s = "stopped")]})
<1> DEFINE m == [path |-> "status", id |-> id, arg |-> s]
           k == ById(v, id)
<1>1. CASE Shows(v, id) = {}
  <2>1. u = v
    BY <1>1, HandledUnknown
  <2>2. \A w \in Widgets : ~Shown(v, id, {w})
    BY <1>1, UnknownFacts
  <2> QED
    BY <1>1, <2>1, <2>2, UnknownFacts
<1>2. CASE Shows(v, id) # {}
  <2>1. u = ClientStatus(v, m)
    BY <1>2 DEF Handled
  <2>2. /\ k \in DOMAIN v.widgets /\ v.widgets[k].id = id /\ v.widgets[k] \in Widgets
        /\ k \in Shows(v, id)
    BY <1>2, ByIdFound, ViewFacts
  <2>3. ~Shown(v, id, {})
    BY <2>2 DEF Shown
  <2>4. CASE s = "removed"
    <3>1. u = [widgets |-> RemoveAt(v.widgets, k), session |-> v.session]
      BY <2>1, <2>4, ViewFacts DEF ClientStatus
    <3>2. u.session = v.session
      BY <3>1
    <3> HIDE DEF k
    <3>3. AboutOne(id, v, u) /\ \A W \in SUBSET Widgets : Shown(v, id, W) => Shown(u, id, {})
      BY <2>2, <3>1, <3>2, WidgetRemoved DEF AboutOne
    <3> QED
      BY <2>3, <2>4, <3>3
  <2>5. CASE s # "removed"
    <3> DEFINE w == [v.widgets[k] EXCEPT !.stopped = (s = "stopped")]
    <3>1. u = [v EXCEPT !.widgets[k].stopped = (s = "stopped")]
      BY <2>1, <2>5 DEF ClientStatus
    <3>2. w \in Widgets /\ w.id = id
      BY <2>2 DEF Widgets
    <3>3. u = [widgets |-> [v.widgets EXCEPT ![k] = w], session |-> v.session]
      BY <2>2, <3>1, ViewFacts
    <3>4. /\ AboutOne(id, v, u)
          /\ \A W \in SUBSET Widgets : Shown(v, id, W) => W = {v.widgets[k]} /\ Shown(u, id, {w})
      <4> HIDE DEF w
      <4> QED
        BY <1>2, <3>2, <3>3, HandledById
    <3>5. \A x \in Widgets :
             Shown(v, id, {x}) => Shown(u, id, {[x EXCEPT !.stopped = (s = "stopped")]})
      <4> HIDE DEF k
      <4> QED
        BY <3>4
    <3> QED
      BY <2>3, <2>5, <3>4, <3>5
  <2> QED
    BY <2>4, <2>5
<1> QED
  BY <1>1, <1>2

\* "has_optional_gui" sets the mark of the widget there is, and makes none.
LEMMA HandledOptionalGui ==
    ASSUME NEW v \in Views, NEW id \in Ids, NEW u,
           u = Handled(v, [path |-> "has_optional_gui", id |-> id])
    PROVE  /\ AboutOne(id, v, u)
           /\ Shown(v, id, {}) => Shown(u, id, {})
           /\ \A w \in Widgets :
                 Shown(v, id, {w}) => Shown(u, id, {[w EXCEPT !.gui = TRUE]})
<1> DEFINE m == [path |-> "has_optional_gui", id |-> id]
           k == ById(v, id)
<1>1. CASE Shows(v, id) = {}
  <2>1. u = v
    BY <1>1, HandledUnknown
  <2>2. \A w \in Widgets : ~Shown(v, id, {w})
    BY <1>1, UnknownFacts
  <2> QED
    BY <1>1, <2>1, <2>2, UnknownFacts
<1>2. CASE Shows(v, id) # {}
  <2> DEFINE w == [v.widgets[k] EXCEPT !.gui = TRUE]
  <2>1. u = [v EXCEPT !.widgets[k].gui = TRUE]
    BY <1>2 DEF Handled
  <2>2. /\ k \in DOMAIN v.widgets /\ v.widgets[k].id = id /\ v.widgets[k] \in Widgets
        /\ k \in Shows(v, id)
    BY <1>2, ByIdFound, ViewFacts
  <2>3. ~Shown(v, id, {})
    BY <2>2 DEF Shown
  <2>4. w \in Widgets /\ w.id = id
    BY <2>2 DEF Widgets
  <2>5. u = [widgets |-> [v.widgets EXCEPT ![k] = w], session |-> v.session]
    BY <2>1, <2>2, ViewFacts
  <2>6. /\ AboutOne(id, v, u)
        /\ \A W \in SUBSET Widgets : Shown(v, id, W) => W = {v.widgets[k]} /\ Shown(u, id, {w})
    <3> HIDE DEF w
    <3> QED
      BY <1>2, <2>4, <2>5, HandledById
  <2>7. \A x \in Widgets : Shown(v, id, {x}) => Shown(u, id, {[x EXCEPT !.gui = TRUE]})
    <3> HIDE DEF k
    <3> QED
      BY <2>6
  <2> QED
    BY <2>3, <2>6, <2>7
<1> QED
  BY <1>1, <1>2

\* A switch is about two ids, or leaves the one as it is.
LEMMA HandledSwitch ==
    ASSUME NEW v \in Views, NEW old \in Ids, NEW new \in Ids, NEW u,
           u = Handled(v, [path |-> "switch", id |-> old, arg |-> new])
    PROVE  /\ u \in Views /\ u.session = v.session
           /\ \A other \in Ids \ {old, new}, W \in SUBSET Widgets :
                 Shown(v, other, W) => Shown(u, other, W)
           /\ \A w \in Widgets :
                 /\ old = new /\ Shown(v, old, {w}) => Shown(u, old, {w})
                 /\ old # new /\ Shown(v, old, {w}) /\ Shown(v, new, {})
                    => Shown(u, old, {}) /\ Shown(u, new, {[w EXCEPT !.id = new]})
<1> DEFINE m == [path |-> "switch", id |-> old, arg |-> new]
           k == ById(v, old)
<1>1. CASE Shows(v, old) = {}
  <2>1. u = v
    BY <1>1, HandledUnknown
  <2>2. \A w \in Widgets : ~Shown(v, old, {w})
    BY <1>1, UnknownFacts
  <2> QED
    BY <2>1, <2>2
<1>2. CASE Shows(v, old) # {}
  <2> DEFINE w == [v.widgets[k] EXCEPT !.id = new]
  <2>1. u = [v EXCEPT !.widgets[k].id = new]
    BY <1>2 DEF Handled
  <2>2. /\ k \in DOMAIN v.widgets /\ v.widgets[k].id = old /\ v.widgets[k] \in Widgets
        /\ k \in Shows(v, old)
    BY <1>2, ByIdFound, ViewFacts
  <2>3. w \in Widgets /\ w.id = new
    BY <2>2 DEF Widgets
  <2>4. u = [widgets |-> [v.widgets EXCEPT ![k] = w], session |-> v.session]
    BY <2>1, <2>2, ViewFacts
  <2>5. u.session = v.session
    BY <2>4
  <2>6. /\ u \in Views
        /\ \A other \in Ids \ {old, new}, W \in SUBSET Widgets :
              Shown(v, other, W) => Shown(u, other, W)
        /\ \A W \in SUBSET Widgets :
              /\ old # new /\ Shown(v, old, W) /\ Shown(v, new, {})
              => W = {v.widgets[k]} /\ Shown(u, old, {}) /\ Shown(u, new, {w})
    <3> HIDE DEF w, k
    <3> QED
      BY <2>2, <2>3, <2>4, WidgetSwitched
  <2>7. ASSUME old = new, NEW x \in Widgets, Shown(v, old, {x})
        PROVE  Shown(u, old, {x})
    <3>1. w = v.widgets[k]
      BY <2>2, <2>7 DEF Widgets
    <3>2. x = v.widgets[k] /\ Shown(u, old, {w})
      <4> HIDE DEF w
      <4> QED
        BY <1>2, <2>3, <2>4, <2>7, HandledById
    <3> QED
      BY <3>1, <3>2
  <2>8. ASSUME old # new, NEW x \in Widgets, Shown(v, old, {x}), Shown(v, new, {})
        PROVE  Shown(u, old, {}) /\ Shown(u, new, {[x EXCEPT !.id = new]})
    <3> HIDE DEF k
    <3>1. {x} = {v.widgets[k]} /\ Shown(u, old, {}) /\ Shown(u, new, {w})
      BY <2>6, <2>8
    <3> QED
      BY <3>1
  <2> QED
    BY <2>5, <2>6, <2>7, <2>8
<1> QED
  BY <1>1, <1>2

\* The session's name changes the title and no widget.
LEMMA HandledName ==
    ASSUME NEW v \in Views, NEW s \in Sessions \cup {None}, NEW u,
           u = Handled(v, [path |-> "name", arg |-> s])
    PROVE  /\ u \in Views /\ u.session = s
           /\ \A id, W : Shown(v, id, W) => Shown(u, id, W)
<1>1. u = [v EXCEPT !.session = s]
  BY DEF Handled
<1>2. u = [widgets |-> v.widgets, session |-> s]
  BY <1>1, ViewFacts
<1> QED
  BY <1>2 DEF Views, Shown, Shows

\* Whatever the message, the result is a view.
LEMMA HandledType ==
    ASSUME NEW v \in Views, NEW m \in Messages
    PROVE  Handled(v, m) \in Views
<1>1. CASE m \in [path : {"new"}, id : Ids, arg : Names]
  <2>1. m = [path |-> "new", id |-> m.id, arg |-> m.arg] /\ m.id \in Ids /\ m.arg \in Names
    BY <1>1
  <2> QED
    BY <2>1, HandledNew DEF AboutOne
<1>2. CASE m \in [path : {"status"}, id : Ids, arg : Status]
  <2>1. m = [path |-> "status", id |-> m.id, arg |-> m.arg] /\ m.id \in Ids /\ m.arg \in Status
    BY <1>2
  <2> QED
    BY <2>1, HandledStatus DEF AboutOne
<1>3. CASE m \in [path : {"has_optional_gui"}, id : Ids]
  <2>1. m = [path |-> "has_optional_gui", id |-> m.id] /\ m.id \in Ids
    BY <1>3
  <2> QED
    BY <2>1, HandledOptionalGui DEF AboutOne
<1>4. CASE m \in [path : {"switch"}, id : Ids, arg : Ids]
  <2>1. m = [path |-> "switch", id |-> m.id, arg |-> m.arg] /\ m.id \in Ids /\ m.arg \in Ids
    BY <1>4
  <2> QED
    BY <2>1, HandledSwitch
<1>5. CASE m \in [path : {"name"}, arg : Sessions \cup {None}]
  <2>1. m = [path |-> "name", arg |-> m.arg] /\ m.arg \in Sessions \cup {None}
    BY <1>5
  <2> QED
    BY <2>1, HandledName
<1> QED
  BY <1>1, <1>2, <1>3, <1>4, <1>5 DEF Messages

----------------------------------------------------------------------------
(* What the GUI makes of a queue of messages                               *)

\* after is what the GUI shows after each of the messages.
Handling(after, v, ms) ==
    /\ after \in [0..Len(ms) -> Views] /\ after[0] = v
    /\ \A k \in 1..Len(ms) : after[k] = Handled(after[k - 1], ms[k])

\* Catch is the last of them.
LEMMA CatchIsLast ==
    ASSUME NEW v \in Views, NEW ms \in Seq(Messages), NEW g, Handling(g, v, ms)
    PROVE  Catch(v, ms) = g[Len(ms)]
<1> DEFINE N == Len(ms)
           Is(f) == f = [k \in 0..N |-> IF k = 0 THEN v ELSE Handled(f[k - 1], ms[k])]
           after == CHOOSE f : Is(f)
<1>1. N \in Nat
  OBVIOUS
<1>2. Is(g)
  <2>1. g = [k \in 0..N |-> g[k]]
    BY DEF Handling
  <2>2. ASSUME NEW k \in 0..N PROVE g[k] = IF k = 0 THEN v ELSE Handled(g[k - 1], ms[k])
    BY <1>1 DEF Handling
  <2> QED
    BY <2>1, <2>2
<1>3. Is(after)
  <2> HIDE DEF Is
  <2> QED
    BY <1>2
<1>4. Catch(v, ms) = after[N]
  BY DEF Catch
<1> HIDE DEF after
<1> DEFINE T == {k \in 0..N : after[k] = g[k]}
<1>5. 0..N \subseteq T
  <2>1. 0 \in T
    BY <1>1, <1>2, <1>3
  <2>2. ASSUME NEW k \in 0..(N - 1), k \in T PROVE k + 1 \in T
    <3>1. k + 1 \in 0..N /\ k + 1 # 0 /\ (k + 1) - 1 = k
      BY <1>1
    <3>2. after[k + 1] = Handled(after[k], ms[k + 1])
      BY <1>3, <3>1
    <3>3. g[k + 1] = Handled(g[k], ms[k + 1])
      BY <1>2, <3>1
    <3> QED
      BY <2>2, <3>1, <3>2, <3>3
  <2> HIDE DEF T
  <2> QED
    BY <1>1, <2>1, <2>2, InductionUpTo
<1>6. N \in 0..N
  BY <1>1
<1> QED
  BY <1>4, <1>5, <1>6

\* The recursive function by which the messages are handled one after the
\* other exists.
LEMMA HandlingExists ==
    ASSUME NEW v \in Views, NEW ms \in Seq(Messages)
    PROVE  \E g : Handling(g, v, ms)
<1> DEFINE N == Len(ms)
           step == [p \in Nat \X Views |->
                        IF p[1] \in 1..N THEN Handled(p[2], ms[p[1]]) ELSE p[2]]
<1>1. N \in Nat /\ \A k \in 1..N : ms[k] \in Messages
  OBVIOUS
<1>2. step \in [Nat \X Views -> Views]
  <2>1. ASSUME NEW p \in Nat \X Views PROVE step[p] \in Views
    BY <1>1, HandledType
  <2> QED
    BY <2>1
<1>3. PICK g \in [0..N -> Views] : Recursive(g, N, v, step)
  <2> HIDE DEF step, N
  <2> QED
    BY <1>1, <1>2, RecursionExists
<1>4. g[0] = v
  BY <1>1, <1>3 DEF Recursive
<1>5. ASSUME NEW k \in 1..N PROVE g[k] = Handled(g[k - 1], ms[k])
  <2>1. k \in 0..N /\ k # 0 /\ k \in Nat /\ k - 1 \in 0..N
    BY <1>1
  <2>2. g[k] = step[<<k, g[k - 1]>>]
    <3> HIDE DEF step
    <3> QED
      BY <1>3, <2>1 DEF Recursive
  <2>3. <<k, g[k - 1]>> \in Nat \X Views
    BY <2>1
  <2> QED
    BY <2>2, <2>3
<1> QED
  BY <1>4, <1>5 DEF Handling

\* A window that has handled any messages is still a window.
LEMMA CatchType ==
    ASSUME NEW v \in Views, NEW ms \in Seq(Messages)
    PROVE  Catch(v, ms) \in Views
<1>1. PICK g : Handling(g, v, ms)
  BY HandlingExists
<1>2. Len(ms) \in 0..Len(ms)
  OBVIOUS
<1> QED
  BY <1>1, <1>2, CatchIsLast DEF Handling

\* No messages, no change.
LEMMA CatchNothing ==
    ASSUME NEW v \in Views
    PROVE  Catch(v, <<>>) = v
<1> DEFINE ms == <<>>
<1>1. ms \in Seq(Messages) /\ Len(ms) = 0
  OBVIOUS
<1> HIDE DEF ms
<1>2. PICK g : Handling(g, v, ms)
  BY <1>1, HandlingExists
<1>3. Catch(v, ms) = v
  BY <1>1, <1>2, CatchIsLast DEF Handling
<1> QED
  BY <1>3 DEF ms

\* Catching up with one message is handling it.
LEMMA CatchOne ==
    ASSUME NEW v \in Views, NEW m \in Messages
    PROVE  Catch(v, <<m>>) = Handled(v, m)
<1> DEFINE ms == <<m>>
<1>1. ms \in Seq(Messages) /\ Len(ms) = 1 /\ ms[1] = m
  OBVIOUS
<1> HIDE DEF ms
<1>2. PICK g : Handling(g, v, ms)
  BY <1>1, HandlingExists
<1>3. g[1] = Handled(g[1 - 1], ms[1]) /\ g[1 - 1] = v
  BY <1>1, <1>2 DEF Handling
<1>4. Catch(v, ms) = g[1]
  BY <1>1, <1>2, CatchIsLast
<1> QED
  BY <1>1, <1>3, <1>4 DEF ms

\* First the ones, then the others.
LEMMA CatchConcat ==
    ASSUME NEW v \in Views, NEW s \in Seq(Messages), NEW t \in Seq(Messages)
    PROVE  Catch(v, s \o t) = Catch(Catch(v, s), t)
<1> DEFINE u == Catch(v, s)
<1>1. u \in Views
  BY CatchType
<1>2. PICK g : Handling(g, v, s)
  BY HandlingExists
<1>3. PICK h : Handling(h, u, t)
  <2> HIDE DEF u
  <2> QED
    BY <1>1, HandlingExists
<1> DEFINE M == Len(s)
           N == Len(t)
           st == s \o t
           G == [k \in 0..(M + N) |-> IF k <= M THEN g[k] ELSE h[k - M]]
<1>4. M \in Nat /\ N \in Nat
  OBVIOUS
<1>5. /\ st \in Seq(Messages) /\ Len(st) = M + N
      /\ \A k \in 1..(M + N) : st[k] = IF k <= M THEN s[k] ELSE t[k - M]
  BY ConcatProperties
<1>6. u = g[M] /\ h[0] = u
  BY <1>2, <1>3, CatchIsLast DEF Handling
<1>7. Catch(u, t) = h[N]
  <2> HIDE DEF u
  <2> QED
    BY <1>1, <1>3, CatchIsLast
<1> HIDE DEF u, st, M, N
<1>8. /\ g \in [0..M -> Views] /\ g[0] = v
      /\ \A k \in 1..M : g[k] = Handled(g[k - 1], s[k])
      /\ h \in [0..N -> Views]
      /\ \A k \in 1..N : h[k] = Handled(h[k - 1], t[k])
  BY <1>2, <1>3 DEF Handling, M, N
<1>9. Handling(G, v, st)
  <2>1. ASSUME NEW k \in 0..(M + N) PROVE G[k] \in Views
    <3>1. CASE k <= M
      BY <1>4, <1>8, <3>1
    <3>2. CASE ~(k <= M)
      <4>1. k - M \in 0..N
        BY <1>4, <3>2
      <4> QED
        BY <1>8, <3>2, <4>1
    <3> QED
      BY <3>1, <3>2
  <2>2. G[0] = v
    BY <1>4, <1>8
  <2>3. ASSUME NEW k \in 1..(M + N) PROVE G[k] = Handled(G[k - 1], st[k])
    <3>1. k \in 0..(M + N) /\ k - 1 \in 0..(M + N)
      BY <1>4
    <3>2. CASE k <= M
      <4>1. k \in 1..M /\ k - 1 <= M
        BY <1>4, <3>2
      <4>2. G[k] = g[k] /\ G[k - 1] = g[k - 1] /\ st[k] = s[k]
        BY <1>5, <3>1, <3>2, <4>1
      <4> QED
        BY <1>8, <4>1, <4>2
    <3>3. CASE ~(k <= M)
      <4>1. k - M \in 1..N
        BY <1>4, <3>3
      <4>2. G[k] = h[k - M] /\ st[k] = t[k - M]
        BY <1>5, <3>1, <3>3
      <4>3. G[k - 1] = h[(k - M) - 1]
        <5>1. CASE k - 1 <= M
          <6>1. k - 1 = M /\ (k - M) - 1 = 0
            BY <1>4, <3>3, <5>1
          <6> QED
            BY <1>6, <3>1, <5>1, <6>1
        <5>2. CASE ~(k - 1 <= M)
          <6>1. (k - 1) - M = (k - M) - 1
            BY <1>4
          <6> QED
            BY <3>1, <5>2, <6>1
        <5> QED
          BY <5>1, <5>2
      <4> QED
        BY <1>8, <4>1, <4>2, <4>3
    <3> QED
      BY <3>2, <3>3
  <2>4. G \in [0..(M + N) -> Views]
    BY <2>1
  <2> HIDE DEF G
  <2> QED
    BY <1>5, <2>2, <2>3, <2>4 DEF Handling
<1>10. Catch(v, st) = G[M + N]
  <2> HIDE DEF G
  <2> QED
    BY <1>5, <1>9, CatchIsLast
<1>11. G[M + N] = h[N]
  <2>1. M + N \in 0..(M + N)
    BY <1>4
  <2>2. CASE N = 0
    <3>1. M + N = M
      BY <1>4, <2>2
    <3> QED
      BY <1>4, <1>6, <2>1, <2>2, <3>1
  <2>3. CASE N # 0
    <3>1. ~(M + N <= M) /\ (M + N) - M = N
      BY <1>4, <2>3
    <3> QED
      BY <2>1, <3>1
  <2> QED
    BY <2>2, <2>3
<1> QED
  BY <1>7, <1>10, <1>11 DEF st, u

\* Handling the first message of the queue does not change what will be shown.
LEMMA CatchHead ==
    ASSUME NEW v \in Views, NEW ms \in Seq(Messages), ms # <<>>
    PROVE  Catch(v, ms) = Catch(Handled(v, Head(ms)), Tail(ms))
<1>1. Head(ms) \in Messages /\ Tail(ms) \in Seq(Messages) /\ <<Head(ms)>> \in Seq(Messages)
  OBVIOUS
<1>2. ms = <<Head(ms)>> \o Tail(ms)
  OBVIOUS
<1> DEFINE m == <<Head(ms)>>
           rest == Tail(ms)
<1>3. Catch(v, m) = Handled(v, Head(ms))
  BY <1>1, CatchOne
<1> HIDE DEF m, rest
<1>4. Catch(v, m \o rest) = Catch(Catch(v, m), rest)
  BY <1>1, CatchConcat DEF m, rest
<1>5. ms = m \o rest
  BY <1>2 DEF m, rest
<1> QED
  BY <1>3, <1>4, <1>5 DEF rest

----------------------------------------------------------------------------
(* What nsmd says of one client                                            *)

\* Of a client of this id a GUI that showed A shows B after these messages; of
\* the others, and of the session, it shows what it did.
Tells(id, A, B, ms) ==
    /\ ms \in Seq(Messages)
    /\ \A v \in Views : /\ AboutOne(id, v, Catch(v, ms))
                        /\ Shown(v, id, A) => Shown(Catch(v, ms), id, B)

\* A client as the GUI shows it under some title, with or without an optional GUI.
Widget(c, title, hasgui) ==
    [id |-> c.id, name |-> title, stopped |-> c.status = "stopped", gui |-> hasgui]

\* A widget is the record of its four fields, with one of them changed or
\* not.
LEMMA WidgetParts ==
    ASSUME NEW w \in Widgets
    PROVE  /\ w = [id |-> w.id, name |-> w.name, stopped |-> w.stopped, gui |-> w.gui]
           /\ \A b : [w EXCEPT !.name = b] =
                     [id |-> w.id, name |-> b, stopped |-> w.stopped, gui |-> w.gui]
           /\ \A b : [w EXCEPT !.stopped = b] =
                     [id |-> w.id, name |-> w.name, stopped |-> b, gui |-> w.gui]
           /\ \A b : [w EXCEPT !.gui = b] =
                     [id |-> w.id, name |-> w.name, stopped |-> w.stopped, gui |-> b]
           /\ \A b : [w EXCEPT !.id = b] =
                     [id |-> b, name |-> w.name, stopped |-> w.stopped, gui |-> w.gui]
BY DEF Widgets

\* All that a GUI may show of a client: one image for each of its titles; and of an
\* id that no client has.
Images(c) == {Image(c, title) : title \in Titles(c)}
Nothing == {{}}

\* The fields of a client have their types, its titles are names, and its image is
\* one widget, or none when it is removed.
LEMMA ClientFacts ==
    ASSUME NEW c \in ClientRecords
    PROVE  /\ c.id \in Ids /\ c.prog \in Progs /\ c.status \in Status
           /\ HasGui(c) \in BOOLEAN
           /\ c.prog \in Names /\ Name(c) \in Names /\ Titles(c) \subseteq Names
           /\ \A title \in Names, g \in BOOLEAN : Widget(c, title, g) \in Widgets
           /\ \A title : Image(c, title) = IF c.status = "removed" THEN {}
                                           ELSE {Widget(c, title, HasGui(c))}
           /\ \A title \in Titles(c) : Image(c, title) \in SUBSET Widgets
           /\ Images(c) \in SUBSET SUBSET Widgets
           /\ c.status = "removed" => Images(c) = Nothing
<1>1. c.id \in Ids /\ c.prog \in Progs /\ c.status \in Status /\ c.smart \in BOOLEAN
  BY DEF ClientRecords
<1>2. HasGui(c) \in BOOLEAN
  BY <1>1 DEF HasGui
<1>3. c.prog \in Names /\ Name(c) \in Names
  BY <1>1 DEF Name, Names
<1>4. Titles(c) \subseteq Names
  BY <1>3 DEF Titles
<1>5. \A title : Image(c, title) = IF c.status = "removed" THEN {}
                                   ELSE {Widget(c, title, HasGui(c))}
  BY DEF Image, Widget
<1>6. \A title \in Names, g \in BOOLEAN : Widget(c, title, g) \in Widgets
  BY <1>1 DEF Widget, Widgets
<1>7. \A title \in Titles(c) : Image(c, title) \in SUBSET Widgets
  BY <1>2, <1>4, <1>5, <1>6
<1>8. Images(c) \in SUBSET SUBSET Widgets
  BY <1>7 DEF Images
<1>9. c.status = "removed" => Images(c) = Nothing
  BY <1>5 DEF Images, Nothing, Titles
<1> QED
  BY <1>1, <1>2, <1>3, <1>4, <1>5, <1>6, <1>7, <1>8, <1>9

\* Every report the daemon composes is a message the window knows.
LEMMA MessageTypes ==
    /\ \A c \in ClientRecords :
          {New(c), NewName(c), OptionalGui(c)} \subseteq Messages
    /\ \A id \in Ids, s \in Status : StatusOf(id, s) \in Messages
    /\ \A old \in Ids, new \in Ids : SwitchTo(old, new) \in Messages
    /\ \A s \in Sessions \cup {None} : SessionName(s) \in Messages
<1>1. ASSUME NEW c \in ClientRecords
      PROVE  {New(c), NewName(c), OptionalGui(c)} \subseteq Messages
  <2>1. c.id \in Ids /\ c.prog \in Names /\ Name(c) \in Names
    BY ClientFacts
  <2> QED
    BY <2>1 DEF New, NewName, OptionalGui, Messages
<1>2. \A id \in Ids, s \in Status : StatusOf(id, s) \in Messages
  BY DEF StatusOf, Messages
<1>3. \A old \in Ids, new \in Ids : SwitchTo(old, new) \in Messages
  BY DEF SwitchTo, Messages
<1>4. \A s \in Sessions \cup {None} : SessionName(s) \in Messages
  BY DEF SessionName, Messages
<1> QED
  BY <1>1, <1>2, <1>3, <1>4

\* Sending nothing keeps what is shown.
LEMMA TellsNothing ==
    ASSUME NEW id, NEW A
    PROVE  Tells(id, A, A, <<>>)
<1>1. <<>> \in Seq(Messages)
  OBVIOUS
<1> QED
  BY <1>1, CatchNothing DEF Tells, AboutOne

\* Two runs of messages, one after the other, lead from the first state to
\* the last.
LEMMA TellsBoth ==
    ASSUME NEW id, NEW A, NEW B, NEW C, NEW s, NEW t,
           Tells(id, A, B, s), Tells(id, B, C, t)
    PROVE  Tells(id, A, C, s \o t)
<1>1. s \in Seq(Messages) /\ t \in Seq(Messages) /\ s \o t \in Seq(Messages)
  BY ConcatProperties DEF Tells
<1>2. ASSUME NEW v \in Views
      PROVE  /\ AboutOne(id, v, Catch(v, s \o t))
             /\ Shown(v, id, A) => Shown(Catch(v, s \o t), id, C)
  <2>1. Catch(v, s \o t) = Catch(Catch(v, s), t) /\ Catch(v, s) \in Views
    BY <1>1, CatchConcat, CatchType
  <2> DEFINE u == Catch(v, s)
             x == Catch(u, t)
  <2>2. AboutOne(id, v, u) /\ (Shown(v, id, A) => Shown(u, id, B))
    BY DEF Tells
  <2>3. AboutOne(id, u, x) /\ (Shown(u, id, B) => Shown(x, id, C))
    BY <2>1 DEF Tells
  <2> HIDE DEF u, x
  <2>4. AboutOne(id, v, x)
    BY <2>2, <2>3 DEF AboutOne
  <2> QED
    BY <2>1, <2>2, <2>3, <2>4 DEF u, x
<1> QED
  BY <1>1, <1>2 DEF Tells

\* One message tells what its handler does in every window.
LEMMA TellsOne ==
    ASSUME NEW id, NEW A, NEW B, NEW m \in Messages,
           \A v \in Views : /\ AboutOne(id, v, Handled(v, m))
                            /\ Shown(v, id, A) => Shown(Handled(v, m), id, B)
    PROVE  Tells(id, A, B, <<m>>)
<1>1. <<m>> \in Seq(Messages)
  OBVIOUS
<1>2. ASSUME NEW v \in Views
      PROVE  /\ AboutOne(id, v, Catch(v, <<m>>))
             /\ Shown(v, id, A) => Shown(Catch(v, <<m>>), id, B)
  <2>1. Catch(v, <<m>>) = Handled(v, m)
    BY CatchOne
  <2> QED
    BY <2>1
<1> QED
  BY <1>1, <1>2 DEF Tells

\* "new", the way every client is presented, with the name that is given.
LEMMA TellsNew ==
    ASSUME NEW id \in Ids, NEW name \in Names, NEW m,
           m = [path |-> "new", id |-> id, arg |-> name]
    PROVE  /\ m \in Messages
           /\ Tells(id, {}, {[id |-> id, name |-> name, stopped |-> FALSE, gui |-> FALSE]},
                    <<m>>)
           /\ \A w \in Widgets : Tells(id, {w}, {[w EXCEPT !.name = name]}, <<m>>)
<1>1. m \in Messages
  BY DEF Messages
<1>2. ASSUME NEW v \in Views
      PROVE  /\ AboutOne(id, v, Handled(v, m))
             /\ Shown(v, id, {}) => Shown(Handled(v, m), id,
                   {[id |-> id, name |-> name, stopped |-> FALSE, gui |-> FALSE]})
             /\ \A w \in Widgets : Shown(v, id, {w}) =>
                   Shown(Handled(v, m), id, {[w EXCEPT !.name = name]})
  BY HandledNew
<1> QED
  BY <1>1, <1>2, TellsOne

\* What a status message tells, whether there is a widget or not.
LEMMA TellsStatus ==
    ASSUME NEW id \in Ids, NEW s \in Status
    PROVE  /\ Tells(id, {}, {}, <<StatusOf(id, s)>>)
           /\ \A w \in Widgets :
                 Tells(id, {w}, IF s = "removed" THEN {}
                                ELSE {[w EXCEPT !.stopped = (s = "stopped")]},
                       <<StatusOf(id, s)>>)
<1>1. /\ StatusOf(id, s) \in Messages
      /\ StatusOf(id, s) = [path |-> "status", id |-> id, arg |-> s]
  BY MessageTypes DEF StatusOf
<1>2. ASSUME NEW v \in Views
      PROVE  /\ AboutOne(id, v, Handled(v, StatusOf(id, s)))
             /\ Shown(v, id, {}) => Shown(Handled(v, StatusOf(id, s)), id, {})
             /\ \A w \in Widgets : Shown(v, id, {w}) =>
                   Shown(Handled(v, StatusOf(id, s)), id,
                         IF s = "removed" THEN {}
                         ELSE {[w EXCEPT !.stopped = (s = "stopped")]})
  BY <1>1, HandledStatus
<1> QED
  BY <1>1, <1>2, TellsOne

\* What "has_optional_gui" tells a window that shows the client.
LEMMA TellsOptionalGui ==
    ASSUME NEW c \in ClientRecords, NEW w \in Widgets
    PROVE  Tells(c.id, {w}, {[w EXCEPT !.gui = TRUE]}, <<OptionalGui(c)>>)
<1>1. /\ OptionalGui(c) \in Messages /\ c.id \in Ids
      /\ OptionalGui(c) = [path |-> "has_optional_gui", id |-> c.id]
  BY MessageTypes, ClientFacts DEF OptionalGui
<1>2. ASSUME NEW v \in Views
      PROVE  /\ AboutOne(c.id, v, Handled(v, OptionalGui(c)))
             /\ Shown(v, c.id, {w}) =>
                   Shown(Handled(v, OptionalGui(c)), c.id, {[w EXCEPT !.gui = TRUE]})
  BY <1>1, HandledOptionalGui
<1> QED
  BY <1>1, <1>2, TellsOne

\* "new" of a client that is shown writes its name.
LEMMA TellsName ==
    ASSUME NEW c \in ClientRecords, NEW title \in Names, NEW g \in BOOLEAN,
           NEW name \in Names, NEW m, m = [path |-> "new", id |-> c.id, arg |-> name]
    PROVE  Tells(c.id, {Widget(c, title, g)}, {Widget(c, name, g)}, <<m>>)
<1> DEFINE w == Widget(c, title, g)
           b == c.status = "stopped"
<1>1. w \in Widgets /\ c.id \in Ids
  BY ClientFacts
<1>2. /\ w.id = c.id /\ w.stopped = b /\ w.gui = g
      /\ Widget(c, name, g) = [id |-> c.id, name |-> name, stopped |-> b, gui |-> g]
  BY DEF Widget
<1> HIDE DEF w, b
<1>3. [w EXCEPT !.name = name] =
         [id |-> w.id, name |-> name, stopped |-> w.stopped, gui |-> w.gui]
  BY <1>1, WidgetParts
<1>4. [w EXCEPT !.name = name] = Widget(c, name, g)
  BY <1>2, <1>3
<1>5. Tells(c.id, {w}, {[w EXCEPT !.name = name]}, <<m>>)
  BY <1>1, TellsNew
<1> QED
  BY <1>4, <1>5 DEF w

\* The status of a client that is shown takes its widget away, or writes whether it
\* has stopped.
LEMMA TellsStopped ==
    ASSUME NEW c \in ClientRecords, NEW d \in ClientRecords, NEW title \in Names,
           NEW g \in BOOLEAN, d.id = c.id
    PROVE  Tells(c.id, {Widget(c, title, g)},
                 IF d.status = "removed" THEN {} ELSE {Widget(d, title, g)},
                 <<StatusOf(c.id, d.status)>>)
<1> DEFINE w == Widget(c, title, g)
           b == d.status = "stopped"
<1>1. w \in Widgets /\ c.id \in Ids /\ d.status \in Status
  BY ClientFacts
<1>2. /\ w.id = c.id /\ w.name = title /\ w.gui = g
      /\ Widget(d, title, g) = [id |-> c.id, name |-> title, stopped |-> b, gui |-> g]
  BY DEF Widget
<1> HIDE DEF w
<1>3. Tells(c.id, {w}, IF d.status = "removed" THEN {} ELSE {[w EXCEPT !.stopped = b]},
            <<StatusOf(c.id, d.status)>>)
  BY <1>1, TellsStatus
<1> HIDE DEF b
<1>4. [w EXCEPT !.stopped = b] =
         [id |-> w.id, name |-> w.name, stopped |-> b, gui |-> w.gui]
  BY <1>1, WidgetParts
<1>5. [w EXCEPT !.stopped = b] = Widget(d, title, g)
  BY <1>2, <1>4
<1> QED
  BY <1>3, <1>5 DEF w

\* "has_optional_gui" of a client that is shown.
LEMMA TellsGui ==
    ASSUME NEW c \in ClientRecords, NEW title \in Names, NEW g \in BOOLEAN
    PROVE  Tells(c.id, {Widget(c, title, g)}, {Widget(c, title, TRUE)}, <<OptionalGui(c)>>)
<1> DEFINE w == Widget(c, title, g)
           b == c.status = "stopped"
<1>1. w \in Widgets
  BY ClientFacts
<1>2. /\ w.id = c.id /\ w.name = title /\ w.stopped = b
      /\ Widget(c, title, TRUE) = [id |-> c.id, name |-> title, stopped |-> b, gui |-> TRUE]
  BY DEF Widget
<1> HIDE DEF w, b
<1>3. [w EXCEPT !.gui = TRUE] =
         [id |-> w.id, name |-> w.name, stopped |-> w.stopped, gui |-> TRUE]
  BY <1>1, WidgetParts
<1>4. [w EXCEPT !.gui = TRUE] = Widget(c, title, TRUE)
  BY <1>2, <1>3
<1>5. Tells(c.id, {w}, {[w EXCEPT !.gui = TRUE]}, <<OptionalGui(c)>>)
  BY <1>1, TellsOptionalGui
<1> QED
  BY <1>4, <1>5 DEF w

\* A client is presented, by some name, to a GUI that does not know it.
LEMMA PresentedNew ==
    ASSUME NEW c \in ClientRecords, NEW name \in Names, NEW m,
           m = [path |-> "new", id |-> c.id, arg |-> name]
    PROVE  Tells(c.id, {}, IF c.status = "removed" THEN {} ELSE {Widget(c, name, FALSE)},
                 <<m, StatusOf(c.id, c.status)>>)
<1> DEFINE w == [id |-> c.id, name |-> name, stopped |-> FALSE, gui |-> FALSE]
           B == IF c.status = "removed" THEN {} ELSE {Widget(c, name, FALSE)}
<1>1. w \in Widgets /\ c.id \in Ids /\ c.status \in Status
  BY ClientFacts DEF Widgets
<1>2. [w EXCEPT !.stopped = (c.status = "stopped")] = Widget(c, name, FALSE)
  <2> DEFINE b == c.status = "stopped"
  <2>1. w.id = c.id /\ w.name = name /\ w.gui = FALSE
    OBVIOUS
  <2>2. Widget(c, name, FALSE) = [id |-> c.id, name |-> name, stopped |-> b, gui |-> FALSE]
    BY DEF Widget
  <2> HIDE DEF w, b
  <2>3. [w EXCEPT !.stopped = b] =
           [id |-> w.id, name |-> w.name, stopped |-> b, gui |-> w.gui]
    BY <1>1, WidgetParts
  <2>4. [w EXCEPT !.stopped = b] = Widget(c, name, FALSE)
    BY <2>1, <2>2, <2>3
  <2> QED
    BY <2>4 DEF b
<1>3. Tells(c.id, {}, {w}, <<m>>)
  BY <1>1, TellsNew
<1> HIDE DEF w
<1>4. Tells(c.id, {w}, B, <<StatusOf(c.id, c.status)>>)
  BY <1>1, <1>2, TellsStatus
<1>5. <<m, StatusOf(c.id, c.status)>> = <<m>> \o <<StatusOf(c.id, c.status)>>
  OBVIOUS
<1> HIDE DEF B
<1>6. Tells(c.id, {}, B, <<m, StatusOf(c.id, c.status)>>)
  BY <1>3, <1>4, <1>5, TellsBoth
<1> QED
  BY <1>6 DEF B

\* A client is presented, by some name, to a GUI that knows it by another, or by
\* the same: it is the last one that stays.
LEMMA PresentedAgain ==
    ASSUME NEW c \in ClientRecords, NEW d \in ClientRecords, NEW g \in BOOLEAN,
           NEW title \in Names, NEW name \in Names, NEW m,
           m = [path |-> "new", id |-> d.id, arg |-> name],
           d.id = c.id, d.status # "removed"
    PROVE  Tells(c.id, {Widget(c, title, g)}, {Widget(d, name, g)},
                 <<m, StatusOf(d.id, d.status)>>)
<1>1. Tells(c.id, {Widget(c, title, g)}, {Widget(c, name, g)}, <<m>>)
  BY TellsName
<1>2. Tells(c.id, {Widget(c, name, g)}, {Widget(d, name, g)}, <<StatusOf(c.id, d.status)>>)
  BY TellsStopped
<1>3. <<m, StatusOf(d.id, d.status)>> = <<m>> \o <<StatusOf(c.id, d.status)>>
  OBVIOUS
<1> QED
  BY <1>1, <1>2, <1>3, TellsBoth

\* One message about the optional GUI, if the client has one.
LEMMA PresentedGui ==
    ASSUME NEW c \in ClientRecords, NEW title \in Names, NEW g \in BOOLEAN, g => HasGui(c)
    PROVE  Tells(c.id, {Widget(c, title, g)}, {Widget(c, title, HasGui(c))},
                 IF HasGui(c) THEN <<OptionalGui(c)>> ELSE <<>>)
<1>1. CASE HasGui(c)
  <2>1. HasGui(c) = TRUE
    BY <1>1, ClientFacts
  <2> QED
    BY <1>1, <2>1, TellsGui
<1>2. CASE ~HasGui(c)
  <2>1. HasGui(c) = FALSE /\ g = FALSE
    BY <1>2, ClientFacts
  <2> QED
    BY <1>2, <2>1, TellsNothing
<1> QED
  BY <1>1, <1>2

----------------------------------------------------------------------------
(* What nsmd says with every change of a client                            *)

\* A GUI that shows v shows one of these of the clients of an id.
Seen(v, id, A) == \E W \in A : Shown(v, id, W)

\* Of a client of this id a GUI that showed one of A shows one of B after these
\* messages; of the others, and of the session, it shows what it did.
Reports(id, A, B, ms) ==
    /\ ms \in Seq(Messages)
    /\ \A v \in Views : /\ AboutOne(id, v, Catch(v, ms))
                        /\ Seen(v, id, A) => Seen(Catch(v, ms), id, B)

\* Messages that tell one thing of every client that may be shown report it.
LEMMA Told ==
    ASSUME NEW id, NEW A, NEW B, NEW ms, A # {},
           \A W \in A : \E X \in B : Tells(id, W, X, ms)
    PROVE  Reports(id, A, B, ms)
BY DEF Reports, Tells, Seen

\* Saying nothing reports that nothing has changed.
LEMMA ReportsNothing ==
    ASSUME NEW id, NEW A
    PROVE  Reports(id, A, A, <<>>)
<1>1. <<>> \in Seq(Messages)
  OBVIOUS
<1> QED
  BY <1>1, CatchNothing DEF Reports, AboutOne

\* A client that is reported as removed has no process, and is told of as any
\* other when it gets one; nsmd calls a running client "stopped" only while it
\* kills it.
Sane(c) ==
    /\ c.status = "removed" => ~c.pid /\ ~c.active /\ ~c.smart
    /\ c.active /\ c.status = "stopped" => c.pending = "KILL"

\* A change of status alone is told by the status message, under any title.
LEMMA StatusReport ==
    ASSUME NEW c \in ClientRecords, NEW d \in ClientRecords,
           d.id = c.id, d.prog = c.prog, d.smart = c.smart,
           c.status = "removed" => d.status = "removed"
    PROVE  Reports(c.id, Images(c), Images(d), <<StatusOf(c.id, d.status)>>)
<1>1. c.id \in Ids /\ d.status \in Status /\ HasGui(d) = HasGui(c)
  BY ClientFacts DEF HasGui
<1>2. Titles(d) = Titles(c) /\ c.prog \in Titles(c)
  BY DEF Titles, Name
<1>3. ASSUME NEW title \in Titles(c)
      PROVE  Tells(c.id, Image(c, title), Image(d, title), <<StatusOf(c.id, d.status)>>)
  <2>1. CASE c.status = "removed"
    <3>1. Image(c, title) = {} /\ Image(d, title) = {}
      BY <2>1, ClientFacts
    <3> QED
      BY <1>1, <3>1, TellsStatus
  <2>2. CASE c.status # "removed"
    <3> DEFINE h == HasGui(c)
    <3>1. title \in Names /\ h \in BOOLEAN
      BY ClientFacts
    <3>2. /\ Image(c, title) = {Widget(c, title, h)}
          /\ Image(d, title) = IF d.status = "removed" THEN {} ELSE {Widget(d, title, h)}
      BY <1>1, <2>2, ClientFacts
    <3> HIDE DEF h
    <3>3. Tells(c.id, {Widget(c, title, h)},
                IF d.status = "removed" THEN {} ELSE {Widget(d, title, h)},
                <<StatusOf(c.id, d.status)>>)
      BY <3>1, TellsStopped
    <3> QED
      BY <3>2, <3>3
  <2> QED
    BY <2>1, <2>2
<1>4. /\ Images(c) # {}
      /\ \A W \in Images(c) : \E X \in Images(d) :
            Tells(c.id, W, X, <<StatusOf(c.id, d.status)>>)
  BY <1>2, <1>3 DEF Images
<1> QED
  BY <1>4, Told

\* The status "removed" takes away the widget of any client.
LEMMA RemoveReport ==
    ASSUME NEW c \in ClientRecords
    PROVE  Reports(c.id, Images(c), Nothing, <<StatusOf(c.id, "removed")>>)
<1>1. c.id \in Ids /\ "removed" \in Status
  BY ClientFacts DEF Status
<1>2. ASSUME NEW title \in Titles(c)
      PROVE  Tells(c.id, Image(c, title), {}, <<StatusOf(c.id, "removed")>>)
  <2>1. CASE Image(c, title) = {}
    BY <1>1, <2>1, TellsStatus
  <2>2. CASE Image(c, title) # {}
    <3> DEFINE w == Widget(c, title, HasGui(c))
    <3>1. Image(c, title) = {w} /\ w \in Widgets
      BY <2>2, ClientFacts
    <3> HIDE DEF w
    <3> QED
      BY <1>1, <3>1, TellsStatus
  <2> QED
    BY <2>1, <2>2
<1>3. /\ Images(c) # {}
      /\ \A W \in Images(c) : \E X \in Nothing :
            Tells(c.id, W, X, <<StatusOf(c.id, "removed")>>)
  BY <1>2 DEF Images, Titles, Nothing
<1> QED
  BY <1>3, Told

\* A client that is presented by some name, known or not, and under whatever title.
LEMMA PresentReport ==
    ASSUME NEW c \in ClientRecords, NEW d \in ClientRecords, Sane(c),
           d.id = c.id, d.status # "removed", NEW name \in Names, NEW m,
           m = [path |-> "new", id |-> c.id, arg |-> name]
    PROVE  /\ Tells(c.id, {}, {Widget(d, name, FALSE)}, <<m, StatusOf(c.id, d.status)>>)
           /\ \A title \in Titles(c) :
                 Tells(c.id, Image(c, title), {Widget(d, name, HasGui(c))},
                       <<m, StatusOf(c.id, d.status)>>)
<1>1. Tells(c.id, {}, {Widget(d, name, FALSE)}, <<m, StatusOf(c.id, d.status)>>)
  BY PresentedNew
<1>2. ASSUME NEW title \in Titles(c)
      PROVE  Tells(c.id, Image(c, title), {Widget(d, name, HasGui(c))},
                   <<m, StatusOf(c.id, d.status)>>)
  <2>1. CASE c.status = "removed"
    <3>1. Image(c, title) = {} /\ HasGui(c) = FALSE
      BY <2>1, ClientFacts DEF Sane, HasGui
    <3> QED
      BY <1>1, <3>1
  <2>2. CASE c.status # "removed"
    <3>1. /\ Image(c, title) = {Widget(c, title, HasGui(c))}
          /\ HasGui(c) \in BOOLEAN /\ title \in Names
      BY <2>2, ClientFacts
    <3>2. Tells(c.id, {Widget(c, title, HasGui(c))}, {Widget(d, name, HasGui(c))},
                <<m, StatusOf(d.id, d.status)>>)
      BY <3>1, PresentedAgain
    <3> QED
      BY <3>1, <3>2
  <2> QED
    BY <2>1, <2>2
<1> QED
  BY <1>1, <1>2

\* A client launched again is told by "new", with its executable, and its status.
LEMMA LaunchReport ==
    ASSUME NEW c \in ClientRecords, NEW d \in ClientRecords, Sane(c),
           d.id = c.id, d.prog = c.prog, d.smart = c.smart, d.status = "up"
    PROVE  Reports(c.id, Images(c), Images(d), <<New(c), StatusOf(c.id, "up")>>)
<1> DEFINE m == New(c)
           X == Image(d, d.prog)
<1>1. HasGui(d) = HasGui(c)
  BY DEF HasGui
<1>2. X = {Widget(d, c.prog, HasGui(c))} /\ X \in Images(d)
  BY <1>1, ClientFacts DEF Images, Titles
<1>3. m = [path |-> "new", id |-> c.id, arg |-> c.prog] /\ c.prog \in Names
  BY ClientFacts DEF New
<1> HIDE DEF m, X
<1>4. \A title \in Titles(c) : Tells(c.id, Image(c, title), X, <<m, StatusOf(c.id, d.status)>>)
  BY <1>2, <1>3, PresentReport
<1>5. /\ Images(c) # {}
      /\ \A W \in Images(c) : \E Y \in Images(d) :
            Tells(c.id, W, Y, <<m, StatusOf(c.id, d.status)>>)
  BY <1>2, <1>4 DEF Images, Titles
<1> QED
  BY <1>5, Told DEF m

\* A client that has just been listed and launched is told by "new" and its
\* status.
LEMMA NewReport ==
    ASSUME NEW d \in ClientRecords, d.status = "up", ~d.smart
    PROVE  Reports(d.id, Nothing, Images(d), <<New(d), StatusOf(d.id, "up")>>)
<1> DEFINE m == New(d)
           X == Image(d, d.prog)
<1>1. HasGui(d) = FALSE
  BY ClientFacts DEF HasGui
<1>2. X = {Widget(d, d.prog, FALSE)} /\ X \in Images(d)
  BY <1>1, ClientFacts DEF Images, Titles
<1>3. m = [path |-> "new", id |-> d.id, arg |-> d.prog] /\ d.prog \in Names
  BY ClientFacts DEF New
<1>4. Sane(d)
  BY DEF Sane
<1> HIDE DEF m, X
<1>5. Tells(d.id, {}, X, <<m, StatusOf(d.id, d.status)>>)
  BY <1>2, <1>3, <1>4, PresentReport
<1>6. /\ Nothing # {}
      /\ \A W \in Nothing : \E Y \in Images(d) :
            Tells(d.id, W, Y, <<m, StatusOf(d.id, d.status)>>)
  BY <1>2, <1>5 DEF Nothing
<1> QED
  BY <1>6, Told DEF m

\* "new", with the name it has announced, the status, and whether there is a GUI.
LEMMA AnnounceReport ==
    ASSUME NEW c \in ClientRecords, NEW d \in ClientRecords, Sane(c),
           d.id = c.id, d.prog = c.prog, c.smart => d.smart, d.status = "up"
    PROVE  /\ Reports(c.id, Nothing, Images(d),
                      <<NewName(d), StatusOf(d.id, "up")>>
                      \o (IF HasGui(d) THEN <<OptionalGui(d)>> ELSE <<>>))
           /\ Reports(c.id, Images(c), Images(d),
                      <<NewName(d), StatusOf(d.id, "up")>>
                      \o (IF HasGui(d) THEN <<OptionalGui(d)>> ELSE <<>>))
<1> DEFINE gs == IF HasGui(d) THEN <<OptionalGui(d)>> ELSE <<>>
           m == NewName(d)
           ps == <<m, StatusOf(d.id, "up")>>
           n == Name(d)
           X == Image(d, n)
<1>1. m = [path |-> "new", id |-> c.id, arg |-> n] /\ n \in Names
  BY ClientFacts DEF NewName
<1>2. X = {Widget(d, n, HasGui(d))} /\ X \in Images(d) /\ HasGui(c) \in BOOLEAN
  BY ClientFacts DEF Images, Titles
<1>3. HasGui(c) => HasGui(d)
  BY DEF HasGui
<1> HIDE DEF m, n, X
<1>4. /\ Tells(c.id, {}, {Widget(d, n, FALSE)}, ps)
      /\ \A title \in Titles(c) : Tells(c.id, Image(c, title), {Widget(d, n, HasGui(c))}, ps)
  BY <1>1, PresentReport
<1>5. /\ Tells(c.id, {Widget(d, n, FALSE)}, X, gs)
      /\ Tells(c.id, {Widget(d, n, HasGui(c))}, X, gs)
  BY <1>1, <1>2, <1>3, PresentedGui
<1> HIDE DEF gs, ps
<1>6. /\ Tells(c.id, {}, X, ps \o gs)
      /\ \A title \in Titles(c) : Tells(c.id, Image(c, title), X, ps \o gs)
  BY <1>4, <1>5, TellsBoth
<1>7. /\ Nothing # {}
      /\ \A W \in Nothing : \E Y \in Images(d) : Tells(c.id, W, Y, ps \o gs)
  BY <1>2, <1>6 DEF Nothing
<1>8. /\ Images(c) # {}
      /\ \A W \in Images(c) : \E Y \in Images(d) : Tells(c.id, W, Y, ps \o gs)
  BY <1>2, <1>6 DEF Images, Titles
<1>9. /\ Reports(c.id, Nothing, Images(d), ps \o gs)
      /\ Reports(c.id, Images(c), Images(d), ps \o gs)
  BY <1>7, <1>8, Told
<1> QED
  BY <1>9 DEF gs, ps, m

\* A GUI that announces itself is told all of every client, and shows it by its
\* executable, or by its name if it is active.
LEMMA AllReport ==
    ASSUME NEW c \in ClientRecords, Sane(c)
    PROVE  Reports(c.id, Nothing, Images(c), AllOf(c))
<1> DEFINE gs == IF HasGui(c) THEN <<OptionalGui(c)>> ELSE <<>>
           ns == IF c.active THEN <<NewName(c)>> ELSE <<>>
           m == New(c)
           ps == <<m, StatusOf(c.id, c.status)>>
<1>1. m = [path |-> "new", id |-> c.id, arg |-> c.prog] /\ c.prog \in Names
  BY ClientFacts DEF New
<1>2. Tells(c.id, {}, IF c.status = "removed" THEN {} ELSE {Widget(c, c.prog, FALSE)}, ps)
  BY <1>1, PresentedNew
<1>3. AllOf(c) = (ps \o gs) \o ns
  BY DEF AllOf
<1>4. \E X \in Images(c) : Tells(c.id, {}, X, AllOf(c))
  <2>1. CASE c.status = "removed"
    <3>1. {} \in Images(c) /\ ~HasGui(c) /\ ~c.active
      BY <2>1, ClientFacts DEF Sane, HasGui, Nothing
    <3>2. gs = <<>> /\ ns = <<>>
      BY <3>1
    <3>3. Tells(c.id, {}, {}, ps)
      BY <1>2, <2>1
    <3> HIDE DEF gs, ns, ps
    <3>4. Tells(c.id, {}, {}, ps \o gs)
      BY <3>2, <3>3, TellsNothing, TellsBoth
    <3>5. Tells(c.id, {}, {}, AllOf(c))
      BY <1>3, <3>2, <3>4, TellsNothing, TellsBoth
    <3> QED
      BY <3>1, <3>5
  <2>2. CASE c.status # "removed"
    <3> DEFINE h == HasGui(c)
               w == {Widget(c, c.prog, h)}
               x == {Widget(c, Name(c), h)}
    <3>1. Name(c) \in Names /\ c.id \in Ids /\ h \in BOOLEAN
      BY ClientFacts
    <3>2. w \in Images(c) /\ x \in Images(c)
      <4>1. Image(c, c.prog) = w /\ Image(c, Name(c)) = x
        BY <2>2, ClientFacts
      <4> QED
        BY <4>1 DEF Images, Titles
    <3>3. Tells(c.id, {}, {Widget(c, c.prog, FALSE)}, ps)
      BY <1>2, <2>2
    <3>4. Tells(c.id, {Widget(c, c.prog, FALSE)}, w, gs)
      BY <1>1, PresentedGui
    <3>5. \E X \in Images(c) : Tells(c.id, w, X, ns)
      <4>1. CASE c.active
        <5>1. NewName(c) = [path |-> "new", id |-> c.id, arg |-> Name(c)]
          BY DEF NewName
        <5> HIDE DEF h
        <5>2. Tells(c.id, w, x, <<NewName(c)>>)
          BY <1>1, <3>1, <5>1, TellsName
        <5> QED
          BY <3>2, <4>1, <5>2
      <4>2. CASE ~c.active
        BY <3>2, <4>2, TellsNothing
      <4> QED
        BY <4>1, <4>2
    <3> HIDE DEF gs, ns, ps, w
    <3>6. Tells(c.id, {}, w, ps \o gs)
      BY <3>3, <3>4, TellsBoth
    <3> QED
      BY <1>3, <3>5, <3>6, TellsBoth
  <2> QED
    BY <2>1, <2>2
<1> QED
  BY <1>4, Told DEF Nothing

\* What a save does to a client is told by the messages
\* command_client_to_save sends.
LEMMA SaveReport ==
    ASSUME NEW c \in ClientRecords, Sane(c)
    PROVE  /\ Saved(c) \in ClientRecords /\ Saved(c).id = c.id /\ Sane(Saved(c))
           /\ Reports(c.id, Images(c), Images(Saved(c)), SaveMessages(c))
<1>1. CASE ~Saves(c)
  <2>1. Saved(c) = c /\ SaveMessages(c) = <<>>
    BY <1>1 DEF Saved, SaveMessages, Saves
  <2> QED
    BY <2>1, ReportsNothing
<1>2. CASE Saves(c)
  <2> DEFINE d == Saved(c)
  <2>1. /\ d \in ClientRecords /\ d.id = c.id /\ d.prog = c.prog /\ d.smart = c.smart
        /\ d.status = "up" /\ Sane(d)
    <3>1. CASE c.active
      <4>1. d = [c EXCEPT !.status = "up", !.pending = "BUSY"]
        BY <1>2, <3>1 DEF Saved
      <4> QED
        BY <4>1 DEF ClientRecords, Status, Sane
    <3>2. CASE ~c.active
      <4>1. d = [c EXCEPT !.status = "up"]
        BY <1>2, <3>2 DEF Saved
      <4> QED
        BY <4>1 DEF ClientRecords, Status, Sane
    <3> QED
      BY <3>1, <3>2
  <2>2. c.status # "removed"
    BY <1>2 DEF Saves, Sane
  <2>3. SaveMessages(c) = <<StatusOf(c.id, "up")>>
    BY <1>2 DEF SaveMessages
  <2> HIDE DEF d
  <2>4. Reports(c.id, Images(c), Images(d), SaveMessages(c))
    BY <2>1, <2>2, <2>3, StatusReport
  <2> QED
    BY <2>1, <2>4 DEF d
<1> QED
  BY <1>1, <1>2

\* What the quit command does to a client is told by the messages
\* command_client_to_quit sends.
LEMMA QuitReport ==
    ASSUME NEW c \in ClientRecords, Sane(c)
    PROVE  /\ Quit(c) \in ClientRecords /\ Quit(c).id = c.id /\ Sane(Quit(c))
           /\ Reports(c.id, Images(c), Images(Quit(c)), QuitMessages(c))
<1>1. CASE ~Saves(c) /\ c.smart
  <2>1. Quit(c) = c /\ QuitMessages(c) = <<>>
    BY <1>1 DEF Quit, QuitMessages
  <2> QED
    BY <2>1, ReportsNothing
<1>2. CASE Saves(c) \/ ~c.smart
  <2> DEFINE d == Quit(c)
  <2>1. /\ d \in ClientRecords /\ d.id = c.id /\ d.prog = c.prog /\ d.smart = c.smart
        /\ Sane(d) /\ (c.status = "removed" => d.status = "removed")
    <3>1. CASE Saves(c)
      <4>1. d = [c EXCEPT !.status = "up", !.pending = "QUIT"]
        BY <3>1 DEF Quit
      <4>2. c.status # "removed"
        BY <3>1 DEF Saves, Sane
      <4> QED
        BY <4>1, <4>2 DEF ClientRecords, Status, Sane
    <3>2. CASE ~Saves(c) /\ ~c.smart
      <4>1. d = [c EXCEPT !.status = "removed"]
        BY <3>2 DEF Quit
      <4> QED
        BY <3>2, <4>1 DEF ClientRecords, Status, Sane, Saves
    <3> QED
      BY <1>2, <3>1, <3>2
  <2>2. QuitMessages(c) = <<StatusOf(c.id, d.status)>>
    BY <1>2 DEF QuitMessages
  <2> HIDE DEF d
  <2>3. Reports(c.id, Images(c), Images(d), QuitMessages(c))
    BY <2>1, <2>2, StatusReport
  <2> QED
    BY <2>1, <2>3 DEF d
<1> QED
  BY <1>1, <1>2

----------------------------------------------------------------------------
(* The list and what is shown of it                                        *)

\* The only client of an id, and that there is none.
OnlyOne(cl, id, i) == cl[i].id = id /\ \A j \in DOMAIN cl : cl[j].id = id => j = i
NoneHas(cl, id) == \A j \in DOMAIN cl : cl[j].id # id

\* A GUI that shows v shows what it should of the clients of an id.
Mirrors(v, cl, id) ==
    \/ \E i \in DOMAIN cl : OnlyOne(cl, id, i) /\ Seen(v, id, Images(cl[i]))
    \/ NoneHas(cl, id) /\ Seen(v, id, Nothing)

\* The mirror of one identifier, written out.
LEMMA MirrorsMeans ==
    ASSUME NEW v, NEW id, Mirrors(v, client, id)
    PROVE  LET S == WithId(id) IN
           /\ \A i, j \in S : i = j
           /\ S = {} => Shown(v, id, {})
           /\ \A i \in S : \E title \in Titles(client[i]) : Shown(v, id, Image(client[i], title))
<1>1. CASE \E i \in DOMAIN client : OnlyOne(client, id, i) /\ Seen(v, id, Images(client[i]))
  <2>1. PICK i \in DOMAIN client : OnlyOne(client, id, i) /\ Seen(v, id, Images(client[i]))
    BY <1>1
  <2>2. WithId(id) = {i}
    BY <2>1 DEF WithId, OnlyOne
  <2>3. \E title \in Titles(client[i]) : Shown(v, id, Image(client[i], title))
    BY <2>1 DEF Seen, Images
  <2> QED
    BY <2>2, <2>3
<1>2. CASE NoneHas(client, id) /\ Seen(v, id, Nothing)
  <2>1. WithId(id) = {}
    BY <1>2 DEF NoneHas, WithId
  <2> QED
    BY <1>2, <2>1 DEF Seen, Nothing
<1> QED
  BY <1>1, <1>2 DEF Mirrors

\* That nothing is shown of an id is something to be seen as well.
LEMMA NothingTyped == Nothing \in SUBSET SUBSET Widgets
BY DEF Nothing

\* Messages about another id change nothing.
LEMMA OthersSeen ==
    ASSUME NEW v \in Views, NEW id \in Ids, NEW x, NEW A, NEW B, NEW ms, x # id,
           Reports(x, A, B, ms), NEW C \in SUBSET SUBSET Widgets, Seen(v, id, C)
    PROVE  Seen(Catch(v, ms), id, C)
<1>1. id \in Ids \ {x}
  OBVIOUS
<1> QED
  BY <1>1 DEF Reports, AboutOne, Seen

\* A change of one client that is told keeps the mirror.
LEMMA MirrorsChanged ==
    ASSUME NEW v \in Views, NEW cl \in Seq(ClientRecords), NEW id \in Ids,
           NEW i \in DOMAIN cl, NEW d \in ClientRecords, d.id = cl[i].id, NEW ms,
           Reports(cl[i].id, Images(cl[i]), Images(d), ms), Mirrors(v, cl, id)
    PROVE  Mirrors(Catch(v, ms), [cl EXCEPT ![i] = d], id)
<1> DEFINE dl == [cl EXCEPT ![i] = d]
           u == Catch(v, ms)
<1>1. /\ DOMAIN dl = DOMAIN cl /\ dl[i] = d
      /\ \A j \in DOMAIN cl : dl[j].id = cl[j].id /\ (j # i => dl[j] = cl[j])
      /\ \A j \in DOMAIN cl : cl[j] \in ClientRecords
  OBVIOUS
<1> HIDE DEF dl, u
<1>2. CASE \E j \in DOMAIN cl : OnlyOne(cl, id, j) /\ Seen(v, id, Images(cl[j]))
  <2>1. PICK j \in DOMAIN cl : OnlyOne(cl, id, j) /\ Seen(v, id, Images(cl[j]))
    BY <1>2
  <2>2. OnlyOne(dl, id, j)
    BY <1>1, <2>1 DEF OnlyOne
  <2>3. CASE j = i
    <3>1. cl[i].id = id
      BY <2>1, <2>3 DEF OnlyOne
    <3>2. Seen(u, id, Images(d))
      BY <2>1, <2>3, <3>1 DEF Reports, u
    <3> QED
      BY <1>1, <2>2, <2>3, <3>2 DEF Mirrors, dl, u
  <2>4. CASE j # i
    <3>1. cl[i].id # id
      BY <2>1, <2>4 DEF OnlyOne
    <3>2. Images(cl[j]) \in SUBSET SUBSET Widgets
      BY <1>1, ClientFacts
    <3>3. Seen(u, id, Images(cl[j]))
      BY <2>1, <3>1, <3>2, OthersSeen DEF u
    <3>4. dl[j] = cl[j] /\ j \in DOMAIN dl
      BY <1>1, <2>4
    <3> QED
      BY <2>2, <3>3, <3>4 DEF Mirrors, dl, u
  <2> QED
    BY <2>3, <2>4
<1>3. CASE NoneHas(cl, id) /\ Seen(v, id, Nothing)
  <2>1. NoneHas(dl, id) /\ cl[i].id # id
    BY <1>1, <1>3 DEF NoneHas
  <2>2. Seen(u, id, Nothing)
    BY <1>3, <2>1, NothingTyped, OthersSeen DEF u
  <2> QED
    BY <2>1, <2>2 DEF Mirrors, dl, u
<1> QED
  BY <1>2, <1>3 DEF Mirrors

\* A new client with an identifier nobody has keeps the mirror when it is
\* told.
LEMMA MirrorsAdded ==
    ASSUME NEW v \in Views, NEW cl \in Seq(ClientRecords), NEW id \in Ids,
           NEW c \in ClientRecords, NoneHas(cl, c.id), NEW ms,
           Reports(c.id, Nothing, Images(c), ms), Mirrors(v, cl, id)
    PROVE  Mirrors(Catch(v, ms), Append(cl, c), id)
<1> DEFINE dl == Append(cl, c)
           u == Catch(v, ms)
           n == Len(cl)
<1>1. /\ n \in Nat /\ DOMAIN cl = 1..n /\ DOMAIN dl = 1..(n + 1)
      /\ dl[n + 1] = c /\ \A j \in 1..n : dl[j] = cl[j]
      /\ \A j \in 1..n : cl[j] \in ClientRecords
  BY AppendProperties
<1>2. \A j \in 1..(n + 1) : j \in 1..n \/ j = n + 1
  BY <1>1
<1>3. 1..n \subseteq 1..(n + 1) /\ n + 1 \in 1..(n + 1) /\ n + 1 \notin 1..n
  BY <1>1
<1> HIDE DEF dl, u, n
<1>4. CASE \E j \in DOMAIN cl : OnlyOne(cl, id, j) /\ Seen(v, id, Images(cl[j]))
  <2>1. PICK j \in DOMAIN cl : OnlyOne(cl, id, j) /\ Seen(v, id, Images(cl[j]))
    BY <1>4
  <2>2. c.id # id
    BY <2>1 DEF OnlyOne, NoneHas
  <2>3. OnlyOne(dl, id, j) /\ j \in DOMAIN dl /\ dl[j] = cl[j]
    BY <1>1, <1>2, <1>3, <2>1, <2>2 DEF OnlyOne
  <2>4. Images(cl[j]) \in SUBSET SUBSET Widgets
    BY <1>1, ClientFacts
  <2>5. Seen(u, id, Images(cl[j]))
    BY <2>1, <2>2, <2>4, OthersSeen DEF u
  <2> QED
    BY <2>3, <2>5 DEF Mirrors, dl, u
<1>5. CASE NoneHas(cl, id) /\ Seen(v, id, Nothing)
  <2>1. CASE c.id = id
    <3>1. OnlyOne(dl, id, n + 1)
      BY <1>1, <1>2, <1>5, <2>1 DEF OnlyOne, NoneHas
    <3>2. Seen(u, id, Images(c))
      BY <1>5, <2>1 DEF Reports, u
    <3> QED
      BY <1>1, <1>3, <3>1, <3>2 DEF Mirrors, dl, u
  <2>2. CASE c.id # id
    <3>1. NoneHas(dl, id)
      BY <1>1, <1>2, <1>5, <2>2 DEF NoneHas
    <3>2. Seen(u, id, Nothing)
      BY <1>5, <2>2, NothingTyped, OthersSeen DEF u
    <3> QED
      BY <3>1, <3>2 DEF Mirrors, dl, u
  <2> QED
    BY <2>1, <2>2
<1> QED
  BY <1>4, <1>5 DEF Mirrors

\* The list without one of its clients: who is left is the same client as before.
LEMMA RemovedFacts ==
    ASSUME NEW cl \in Seq(ClientRecords), NEW i \in DOMAIN cl, NEW id
    PROVE  /\ RemoveAt(cl, i) \in Seq(ClientRecords)
           /\ NoneHas(cl, id) \/ OnlyOne(cl, id, i) => NoneHas(RemoveAt(cl, i), id)
           /\ \A j \in DOMAIN cl : OnlyOne(cl, id, j) /\ j # i =>
                 \E k \in DOMAIN RemoveAt(cl, i) : /\ OnlyOne(RemoveAt(cl, i), id, k)
                                                   /\ RemoveAt(cl, i)[k] = cl[j]
           /\ \A k \in DOMAIN RemoveAt(cl, i) :
                 \E j \in DOMAIN cl : RemoveAt(cl, i)[k] = cl[j]
<1> DEFINE dl == RemoveAt(cl, i)
           n == Len(cl)
           From(k) == IF k < i THEN k ELSE k + 1
<1>1. n \in Nat /\ DOMAIN cl = 1..n /\ i \in 1..n
  OBVIOUS
<1>2. /\ dl \in Seq(ClientRecords) /\ DOMAIN dl = 1..(n - 1)
      /\ \A k \in 1..(n - 1) : dl[k] = cl[From(k)]
  <2>1. /\ dl \in Seq(ClientRecords) /\ Len(dl) = n - 1
        /\ \A k \in 1..(n - 1) : dl[k] = IF k < i THEN cl[k] ELSE cl[k + 1]
    BY <1>1, RemoveAtFacts
  <2> QED
    BY <2>1
<1>3. /\ \A k \in 1..(n - 1) : From(k) \in 1..n /\ From(k) # i
      /\ \A j, k \in 1..(n - 1) : From(j) = From(k) => j = k
  BY <1>1
<1>4. ASSUME NEW j \in 1..n, j # i PROVE \E k \in 1..(n - 1) : From(k) = j
  <2>1. CASE j < i
    <3>1. j \in 1..(n - 1) /\ From(j) = j
      BY <1>1, <2>1
    <3> QED
      BY <3>1
  <2>2. CASE ~(j < i)
    <3>1. j - 1 \in 1..(n - 1) /\ From(j - 1) = j
      BY <1>1, <1>4, <2>2
    <3> QED
      BY <3>1
  <2> QED
    BY <2>1, <2>2
<1> HIDE DEF dl, n, From
<1>5. ASSUME NoneHas(cl, id) \/ OnlyOne(cl, id, i) PROVE NoneHas(dl, id)
  BY <1>1, <1>2, <1>3, <1>5 DEF NoneHas, OnlyOne
<1>6. ASSUME NEW j \in DOMAIN cl, OnlyOne(cl, id, j), j # i
      PROVE  \E k \in DOMAIN dl : OnlyOne(dl, id, k) /\ dl[k] = cl[j]
  <2>1. PICK k \in 1..(n - 1) : From(k) = j
    BY <1>1, <1>4, <1>6
  <2>2. dl[k] = cl[j]
    BY <1>2, <2>1
  <2>3. ASSUME NEW x \in 1..(n - 1), dl[x].id = id PROVE x = k
    <3>1. cl[From(x)].id = id /\ From(x) \in 1..n
      BY <1>2, <1>3, <2>3
    <3>2. From(x) = From(k)
      BY <1>1, <1>6, <2>1, <3>1 DEF OnlyOne
    <3> QED
      BY <1>3, <3>2
  <2>4. OnlyOne(dl, id, k)
    BY <1>2, <1>6, <2>2, <2>3 DEF OnlyOne
  <2>5. k \in DOMAIN dl
    BY <1>2
  <2> QED
    BY <2>2, <2>4, <2>5
<1>7. \A k \in DOMAIN dl : \E j \in DOMAIN cl : dl[k] = cl[j]
  BY <1>1, <1>2, <1>3
<1> QED
  BY <1>2, <1>5, <1>6, <1>7 DEF dl

\* nsmd tells that a client has gone.
LEMMA MirrorsRemoved ==
    ASSUME NEW v \in Views, NEW cl \in Seq(ClientRecords), NEW id \in Ids,
           NEW i \in DOMAIN cl, NEW ms,
           Reports(cl[i].id, Images(cl[i]), Nothing, ms), Mirrors(v, cl, id)
    PROVE  Mirrors(Catch(v, ms), RemoveAt(cl, i), id)
<1> DEFINE dl == RemoveAt(cl, i)
           u == Catch(v, ms)
<1>1. CASE \E j \in DOMAIN cl : OnlyOne(cl, id, j) /\ Seen(v, id, Images(cl[j]))
  <2>1. PICK j \in DOMAIN cl : OnlyOne(cl, id, j) /\ Seen(v, id, Images(cl[j]))
    BY <1>1
  <2>2. CASE j = i
    <3>1. NoneHas(dl, id)
      BY <2>1, <2>2, RemovedFacts
    <3>2. Seen(u, id, Nothing)
      BY <2>1, <2>2 DEF Reports, OnlyOne
    <3> QED
      BY <3>1, <3>2 DEF Mirrors
  <2>3. CASE j # i
    <3>0. \E k \in DOMAIN dl : OnlyOne(dl, id, k) /\ dl[k] = cl[j]
      <4>1. \A h \in DOMAIN cl : OnlyOne(cl, id, h) /\ h # i =>
               \E k \in DOMAIN dl : OnlyOne(dl, id, k) /\ dl[k] = cl[h]
        BY RemovedFacts
      <4> HIDE DEF dl
      <4> QED
        BY <2>1, <2>3, <4>1
    <3>1. PICK k \in DOMAIN dl : OnlyOne(dl, id, k) /\ dl[k] = cl[j]
      BY <3>0
    <3>2. cl[i].id # id
      BY <2>1, <2>3 DEF OnlyOne
    <3>3. cl[j] \in ClientRecords
      OBVIOUS
    <3>4. Images(cl[j]) \in SUBSET SUBSET Widgets
      BY <3>3, ClientFacts
    <3>5. Seen(u, id, Images(cl[j]))
      BY <2>1, <3>2, <3>4, OthersSeen
    <3> HIDE DEF dl, u
    <3> QED
      BY <3>1, <3>5 DEF Mirrors, dl, u
  <2> QED
    BY <2>2, <2>3
<1>2. CASE NoneHas(cl, id) /\ Seen(v, id, Nothing)
  <2>1. NoneHas(dl, id) /\ cl[i].id # id
    BY <1>2, RemovedFacts DEF NoneHas
  <2>2. Seen(u, id, Nothing)
    BY <1>2, <2>1, NothingTyped, OthersSeen
  <2> QED
    BY <2>1, <2>2 DEF Mirrors
<1> QED
  BY <1>1, <1>2 DEF Mirrors

\* nsmd does not, but the GUI shows nothing of it, or it has another id.
LEMMA MirrorsCleared ==
    ASSUME NEW v \in Views, NEW cl \in Seq(ClientRecords), NEW id \in Ids,
           NEW i \in DOMAIN cl, Images(cl[i]) = Nothing \/ cl[i].id # id, Mirrors(v, cl, id)
    PROVE  Mirrors(v, RemoveAt(cl, i), id)
<1> DEFINE dl == RemoveAt(cl, i)
<1>1. CASE Images(cl[i]) = Nothing
  BY <1>1, ReportsNothing, CatchNothing, MirrorsRemoved
<1>2. CASE cl[i].id # id
  <2>1. CASE \E j \in DOMAIN cl : OnlyOne(cl, id, j) /\ Seen(v, id, Images(cl[j]))
    <3>1. PICK j \in DOMAIN cl : OnlyOne(cl, id, j) /\ Seen(v, id, Images(cl[j]))
      BY <2>1
    <3>2. j # i
      BY <1>2, <3>1 DEF OnlyOne
    <3>3. PICK k \in DOMAIN dl : OnlyOne(dl, id, k) /\ dl[k] = cl[j]
      BY <3>1, <3>2, RemovedFacts
    <3> HIDE DEF dl
    <3> QED
      BY <3>1, <3>3 DEF Mirrors, dl
  <2>2. CASE NoneHas(cl, id) /\ Seen(v, id, Nothing)
    BY <2>2, RemovedFacts DEF Mirrors
  <2> QED
    BY <2>1, <2>2 DEF Mirrors
<1> QED
  BY <1>1, <1>2

\* However many messages about clients there are, the session is still the same.
LEMMA EachQuiet ==
    ASSUME NEW N \in Nat, NEW ms \in [1..N -> Seq(Messages)],
           \A i \in 1..N : \E id, A, B : Reports(id, A, B, ms[i]), NEW v \in Views
    PROVE  Catch(v, FlattenSeq(ms)).session = v.session
<1>1. ms \in Seq(Seq(Messages)) /\ Len(ms) = N
  <2>1. ms \in Seq(Seq(Messages))
    BY SeqDef
  <2> QED
    BY <2>1
<1>2. PICK g \in [0..N -> Seq(Messages)] :
             /\ g[0] = <<>>
             /\ \A k \in 1..N : g[k] = g[k - 1] \o ms[k]
             /\ FlattenSeq(ms) = g[N]
  BY <1>1, FlattenSeqFacts
<1> DEFINE S == {k \in 0..N : /\ Catch(v, g[k]) \in Views
                              /\ Catch(v, g[k]).session = v.session}
<1>3. 0 \in S
  <2>1. Catch(v, g[0]) = v /\ 0 \in 0..N
    BY <1>2, CatchNothing
  <2> QED
    BY <2>1
<1>4. ASSUME NEW k \in 0..(N - 1), k \in S PROVE k + 1 \in S
  <2>1. k + 1 \in 1..N /\ k + 1 \in 0..N /\ (k + 1) - 1 = k /\ k \in 0..N
    OBVIOUS
  <2>2. g[k + 1] = g[k] \o ms[k + 1] /\ g[k] \in Seq(Messages) /\ ms[k + 1] \in Seq(Messages)
    BY <1>2, <2>1
  <2>3. Catch(v, g[k + 1]) = Catch(Catch(v, g[k]), ms[k + 1])
    BY <2>2, CatchConcat
  <2>4. PICK id, A, B : Reports(id, A, B, ms[k + 1])
    BY <2>1
  <2> QED
    BY <1>4, <2>1, <2>3, <2>4 DEF Reports, AboutOne
<1>5. N \in S
  <2>1. N \in 0..N
    OBVIOUS
  <2> HIDE DEF S
  <2>2. 0..N \subseteq S
    BY <1>3, <1>4, InductionUpTo
  <2> QED
    BY <2>1, <2>2
<1> QED
  BY <1>2, <1>5

\* A list of messages about every client of the list: f is their ids, A what was
\* shown of them and B what is.
LEMMA EachTold ==
    ASSUME NEW N \in Nat, NEW f \in [1..N -> Ids], NEW A \in [1..N -> SUBSET SUBSET Widgets],
           NEW B \in [1..N -> SUBSET SUBSET Widgets], NEW ms \in [1..N -> Seq(Messages)],
           \A i \in 1..N : Reports(f[i], A[i], B[i], ms[i]),
           NEW v \in Views, NEW id \in Ids,
           \A i, j \in 1..N : f[i] = id /\ f[j] = id => i = j
    PROVE  /\ FlattenSeq(ms) \in Seq(Messages)
           /\ \A W \in SUBSET SUBSET Widgets : (\A i \in 1..N : f[i] # id) /\ Seen(v, id, W)
                 => Seen(Catch(v, FlattenSeq(ms)), id, W)
           /\ \A i \in 1..N : f[i] = id /\ Seen(v, id, A[i])
                 => Seen(Catch(v, FlattenSeq(ms)), id, B[i])
<1>1. ms \in Seq(Seq(Messages)) /\ Len(ms) = N
  <2>1. ms \in Seq(Seq(Messages))
    BY SeqDef
  <2> QED
    BY <2>1
<1>2. PICK g \in [0..N -> Seq(Messages)] :
             /\ g[0] = <<>>
             /\ \A k \in 1..N : g[k] = g[k - 1] \o ms[k]
             /\ FlattenSeq(ms) = g[N]
  BY <1>1, FlattenSeqFacts
<1> DEFINE Before(k) == \A i \in 1..k : f[i] # id
           Good(k) == /\ Catch(v, g[k]) \in Views
                      /\ \A W \in SUBSET SUBSET Widgets : Before(k) /\ Seen(v, id, W)
                            => Seen(Catch(v, g[k]), id, W)
                      /\ \A i \in 1..k : f[i] = id /\ Seen(v, id, A[i])
                            => Seen(Catch(v, g[k]), id, B[i])
           S == {k \in 0..N : Good(k)}
<1>3. 0 \in S
  <2>1. Catch(v, g[0]) = v /\ 0 \in 0..N /\ 1..0 = {}
    BY <1>2, CatchNothing
  <2> QED
    BY <2>1
<1>4. ASSUME NEW k \in 0..(N - 1), k \in S PROVE k + 1 \in S
  <2>1. /\ k + 1 \in 1..N /\ k + 1 \in 0..N /\ (k + 1) - 1 = k /\ k \in 0..N
        /\ \A i \in 1..(k + 1) : i \in 1..k \/ i = k + 1
        /\ 1..k \subseteq 1..N /\ 1..k \subseteq 1..(k + 1) /\ k + 1 \notin 1..k
        /\ k + 1 \in 1..(k + 1)
    OBVIOUS
  <2>2. Good(k)
    BY <1>4
  <2> DEFINE u == Catch(v, g[k])
             x == Catch(v, g[k + 1])
  <2>3. g[k + 1] = g[k] \o ms[k + 1]
    BY <1>2, <2>1
  <2>4. u \in Views /\ g[k] \in Seq(Messages) /\ ms[k + 1] \in Seq(Messages)
    BY <2>1, <2>2
  <2>5. x = Catch(u, ms[k + 1])
    BY <2>3, <2>4, CatchConcat
  <2>6. Reports(f[k + 1], A[k + 1], B[k + 1], ms[k + 1])
    BY <2>1
  <2> HIDE DEF u, x
  <2>7. x \in Views
    BY <2>4, <2>5, <2>6 DEF Reports, AboutOne
  <2>8. ASSUME f[k + 1] # id, NEW X \in SUBSET SUBSET Widgets, Seen(u, id, X)
        PROVE  Seen(x, id, X)
    BY <2>4, <2>5, <2>6, <2>8, OthersSeen
  <2>9. ASSUME f[k + 1] = id, Seen(u, id, A[k + 1])
        PROVE  Seen(x, id, B[k + 1])
    BY <2>4, <2>5, <2>6, <2>9 DEF Reports
  <2>10. ASSUME NEW W \in SUBSET SUBSET Widgets, Before(k + 1), Seen(v, id, W)
         PROVE  Seen(x, id, W)
    <3>1. Before(k) /\ f[k + 1] # id
      BY <2>1, <2>10
    <3> QED
      BY <2>2, <2>8, <2>10, <3>1 DEF u
  <2>11. ASSUME NEW i \in 1..(k + 1), f[i] = id, Seen(v, id, A[i])
         PROVE  Seen(x, id, B[i])
    <3>1. CASE i = k + 1
      <4>1. Before(k)
        BY <2>1, <2>11, <3>1
      <4>2. Seen(u, id, A[k + 1])
        <5>1. A[k + 1] \in SUBSET SUBSET Widgets /\ Seen(v, id, A[k + 1])
          BY <2>1, <2>11, <3>1
        <5> QED
          BY <2>2, <4>1, <5>1 DEF u
      <4> QED
        BY <2>9, <2>11, <3>1, <4>2
    <3>2. CASE i # k + 1
      <4>1. i \in 1..k /\ i \in 1..N
        BY <2>1, <3>2
      <4>2. f[k + 1] # id
        BY <2>1, <2>11, <3>2, <4>1
      <4>3. Seen(u, id, B[i])
        BY <2>2, <2>11, <4>1 DEF u
      <4>4. B[i] \in SUBSET SUBSET Widgets
        BY <4>1
      <4> QED
        BY <2>8, <4>2, <4>3, <4>4
    <3> QED
      BY <3>1, <3>2
  <2>12. Good(k + 1)
    BY <2>2, <2>7, <2>10, <2>11 DEF u, x
  <2> HIDE DEF Good
  <2> QED
    BY <2>1, <2>12
<1>5. Good(N)
  <2>1. N \in 0..N
    OBVIOUS
  <2> HIDE DEF S
  <2>2. 0..N \subseteq S
    BY <1>3, <1>4, InductionUpTo
  <2> QED
    BY <2>1, <2>2 DEF S
<1>6. FlattenSeq(ms) \in Seq(Messages)
  BY FlattenSeqType
<1> QED
  BY <1>2, <1>5, <1>6

\* Every client of the list changes, or may.
LEMMA MirrorsAll ==
    ASSUME NEW v \in Views, NEW cl \in Seq(ClientRecords), NEW id \in Ids,
           NEW dl \in [DOMAIN cl -> ClientRecords],
           NEW ms \in [DOMAIN cl -> Seq(Messages)],
           \A i \in DOMAIN cl : /\ dl[i].id = cl[i].id
                                /\ Reports(cl[i].id, Images(cl[i]), Images(dl[i]), ms[i]),
           Mirrors(v, cl, id)
    PROVE  Mirrors(Catch(v, FlattenSeq(ms)), dl, id)
<1> DEFINE N == Len(cl)
           u == Catch(v, FlattenSeq(ms))
           f == [i \in 1..N |-> cl[i].id]
           A == [i \in 1..N |-> Images(cl[i])]
           B == [i \in 1..N |-> Images(dl[i])]
<1>1. N \in Nat /\ DOMAIN cl = 1..N /\ \A i \in 1..N : cl[i] \in ClientRecords
  OBVIOUS
<1>2. /\ f \in [1..N -> Ids] /\ A \in [1..N -> SUBSET SUBSET Widgets]
      /\ B \in [1..N -> SUBSET SUBSET Widgets] /\ ms \in [1..N -> Seq(Messages)]
  BY <1>1, ClientFacts
<1>3. /\ \A i \in 1..N : f[i] = cl[i].id /\ A[i] = Images(cl[i]) /\ B[i] = Images(dl[i])
      /\ \A i \in 1..N : dl[i].id = cl[i].id
      /\ \A i \in 1..N : Reports(f[i], A[i], B[i], ms[i])
      /\ DOMAIN dl = 1..N
  BY <1>1
<1> HIDE DEF f, A, B, N, u
<1>4. CASE \E j \in DOMAIN cl : OnlyOne(cl, id, j) /\ Seen(v, id, Images(cl[j]))
  <2>1. PICK j \in 1..N : OnlyOne(cl, id, j) /\ Seen(v, id, Images(cl[j]))
    BY <1>1, <1>4
  <2>2. \A i, k \in 1..N : f[i] = id /\ f[k] = id => i = k
    BY <1>1, <1>3, <2>1 DEF OnlyOne
  <2>3. f[j] = id /\ A[j] \in SUBSET SUBSET Widgets /\ Seen(v, id, A[j])
    BY <1>2, <1>3, <2>1 DEF OnlyOne
  <2>4. \A i \in 1..N : f[i] = id /\ Seen(v, id, A[i]) => Seen(u, id, B[i])
    <3>1. \A i \in 1..N : Reports(f[i], A[i], B[i], ms[i])
      BY <1>3
    <3>2. N \in Nat
      BY <1>1
    <3> QED
      BY <1>2, <2>2, <3>1, <3>2, EachTold DEF u
  <2>5. Seen(u, id, Images(dl[j]))
    BY <1>3, <2>3, <2>4
  <2>6. OnlyOne(dl, id, j)
    BY <1>1, <1>3, <2>1 DEF OnlyOne
  <2> QED
    BY <1>3, <2>5, <2>6 DEF Mirrors, u
<1>5. CASE NoneHas(cl, id) /\ Seen(v, id, Nothing)
  <2>1. \A i \in 1..N : f[i] # id
    BY <1>1, <1>3, <1>5 DEF NoneHas
  <2>2. Nothing \in SUBSET SUBSET Widgets
    BY NothingTyped
  <2>3. Seen(u, id, Nothing)
    BY <1>1, <1>2, <1>3, <1>5, <2>1, <2>2, EachTold DEF u
  <2>4. NoneHas(dl, id)
    BY <1>1, <1>3, <1>5 DEF NoneHas
  <2> QED
    BY <2>3, <2>4 DEF Mirrors, u
<1> QED
  BY <1>4, <1>5 DEF Mirrors

\* A window that was just opened shows no session and no client.
LEMMA BlankFacts ==
    Blank \in Views /\ Blank.session = None /\ \A id : Seen(Blank, id, Nothing)
<1>1. Blank.widgets = <<>> /\ Blank.session = None /\ <<>> \in Seq(Widgets)
  BY DEF Blank
<1>2. Blank \in Views
  BY <1>1 DEF Blank, Views
<1>3. \A id : Shows(Blank, id) = {}
  BY <1>1 DEF Shows
<1>4. \A id : Shown(Blank, id, {})
  BY <1>1, <1>3 DEF Shown
<1> QED
  BY <1>1, <1>2, <1>4 DEF Seen, Nothing

\* A GUI that has just started is told of every client, and shows those that have
\* an id of their own.
LEMMA MirrorsAnnounced ==
    ASSUME NEW cl \in Seq(ClientRecords), NEW id \in Ids, \A i \in DOMAIN cl : Sane(cl[i]),
           \A i, j \in DOMAIN cl : cl[i].id = id /\ cl[j].id = id => i = j
    PROVE  /\ FlattenSeq([i \in DOMAIN cl |-> AllOf(cl[i])]) \in Seq(Messages)
           /\ Mirrors(Catch(Blank, FlattenSeq([i \in DOMAIN cl |-> AllOf(cl[i])])), cl, id)
<1> DEFINE N == Len(cl)
           ms == [i \in DOMAIN cl |-> AllOf(cl[i])]
           u == Catch(Blank, FlattenSeq(ms))
           f == [i \in 1..N |-> cl[i].id]
           A == [i \in 1..N |-> Nothing]
           B == [i \in 1..N |-> Images(cl[i])]
<1>1. N \in Nat /\ DOMAIN cl = 1..N /\ \A i \in 1..N : cl[i] \in ClientRecords
  OBVIOUS
<1>2. /\ f \in [1..N -> Ids] /\ A \in [1..N -> SUBSET SUBSET Widgets]
      /\ B \in [1..N -> SUBSET SUBSET Widgets]
  BY <1>1, ClientFacts, NothingTyped
<1>3. \A i \in 1..N : Reports(cl[i].id, Nothing, Images(cl[i]), AllOf(cl[i]))
  BY <1>1, AllReport
<1>4. ms \in [1..N -> Seq(Messages)]
  BY <1>1, <1>3 DEF Reports
<1>5. \A i \in 1..N : /\ f[i] = cl[i].id /\ A[i] = Nothing /\ B[i] = Images(cl[i])
                      /\ Reports(f[i], A[i], B[i], ms[i])
  BY <1>1, <1>3
<1>6. \A i, j \in 1..N : f[i] = id /\ f[j] = id => i = j
  BY <1>1
<1>7. Blank \in Views /\ Seen(Blank, id, Nothing) /\ Nothing \in SUBSET SUBSET Widgets
  BY BlankFacts, NothingTyped
<1> HIDE DEF f, A, B, N, ms, u
<1>8. /\ FlattenSeq(ms) \in Seq(Messages)
      /\ (\A i \in 1..N : f[i] # id) => Seen(u, id, Nothing)
      /\ \A i \in 1..N : f[i] = id => Seen(u, id, B[i])
  <2>1. \A i \in 1..N : Reports(f[i], A[i], B[i], ms[i])
    BY <1>5
  <2>2. N \in Nat /\ Blank \in Views
    BY <1>1, <1>7
  <2>3. /\ FlattenSeq(ms) \in Seq(Messages)
        /\ \A W \in SUBSET SUBSET Widgets : (\A i \in 1..N : f[i] # id) /\ Seen(Blank, id, W)
              => Seen(u, id, W)
        /\ \A i \in 1..N : f[i] = id /\ Seen(Blank, id, A[i]) => Seen(u, id, B[i])
    <3> DEFINE b == Blank
    <3>1. b \in Views /\ u = Catch(b, FlattenSeq(ms))
      BY <2>2 DEF u
    <3> HIDE DEF b
    <3>2. FlattenSeq(ms) \in Seq(Messages)
      BY <1>4, <2>2, FlattenSeqType
    <3>3. \A W \in SUBSET SUBSET Widgets : (\A i \in 1..N : f[i] # id) /\ Seen(b, id, W)
                => Seen(u, id, W)
      BY <1>2, <1>4, <1>6, <2>1, <2>2, <3>1, EachTold
    <3>4. \A i \in 1..N : f[i] = id /\ Seen(b, id, A[i]) => Seen(u, id, B[i])
      BY <1>2, <1>4, <1>6, <2>1, <2>2, <3>1, EachTold
    <3> QED
      BY <3>2, <3>3, <3>4 DEF b
  <2>4. ASSUME \A i \in 1..N : f[i] # id PROVE Seen(u, id, Nothing)
    BY <1>7, <2>3, <2>4
  <2>5. ASSUME NEW i \in 1..N, f[i] = id PROVE Seen(u, id, B[i])
    <3>1. Seen(Blank, id, A[i])
      BY <1>5, <1>7
    <3> QED
      BY <2>3, <2>5, <3>1
  <2> QED
    BY <2>3, <2>4, <2>5
<1>9. Mirrors(u, cl, id)
  <2>1. CASE \E i \in 1..N : f[i] = id
    <3>1. PICK i \in 1..N : f[i] = id
      BY <2>1
    <3>2. Seen(u, id, Images(cl[i])) /\ i \in DOMAIN cl
      BY <1>1, <1>5, <1>8, <3>1
    <3>3. OnlyOne(cl, id, i)
      BY <1>1, <1>5, <1>6, <3>1 DEF OnlyOne
    <3> QED
      BY <3>2, <3>3 DEF Mirrors
  <2>2. CASE \A i \in 1..N : f[i] # id
    <3>1. NoneHas(cl, id)
      BY <1>1, <1>5, <2>2 DEF NoneHas
    <3> QED
      BY <1>8, <2>2, <3>1 DEF Mirrors
  <2> QED
    BY <2>1, <2>2
<1> QED
  BY <1>8, <1>9 DEF ms, u

\* The name of the session is no matter of the clients.
LEMMA MirrorsNamed ==
    ASSUME NEW v \in Views, NEW s \in Sessions \cup {None}
    PROVE  /\ <<SessionName(s)>> \in Seq(Messages)
           /\ Catch(v, <<SessionName(s)>>).session = s
           /\ \A cl, id : Mirrors(v, cl, id) => Mirrors(Catch(v, <<SessionName(s)>>), cl, id)
<1>1. SessionName(s) \in Messages /\ SessionName(s) = [path |-> "name", arg |-> s]
  BY MessageTypes DEF SessionName
<1>2. Catch(v, <<SessionName(s)>>) = Handled(v, SessionName(s))
  BY <1>1, CatchOne
<1>3. /\ Handled(v, SessionName(s)).session = s
      /\ \A id, W : Seen(v, id, W) => Seen(Handled(v, SessionName(s)), id, W)
  BY <1>1, HandledName DEF Seen
<1> QED
  BY <1>1, <1>2, <1>3 DEF Mirrors

\* command_client_to_switch sends two messages.
LEMMA SwitchHandled ==
    ASSUME NEW v \in Views, NEW old \in Ids, NEW new \in Ids
    PROVE  LET ms == <<StatusOf(new, "up"), SwitchTo(old, new)>> IN
           /\ ms \in Seq(Messages)
           /\ Catch(v, ms) = Handled(Handled(v, StatusOf(new, "up")), SwitchTo(old, new))
           /\ Catch(v, ms).session = v.session
<1> DEFINE ms == <<StatusOf(new, "up"), SwitchTo(old, new)>>
           u == Handled(v, StatusOf(new, "up"))
           x == Handled(u, SwitchTo(old, new))
<1>1. "up" \in Status
  BY DEF Status
<1>2. /\ StatusOf(new, "up") \in Messages /\ SwitchTo(old, new) \in Messages
      /\ StatusOf(new, "up") = [path |-> "status", id |-> new, arg |-> "up"]
      /\ SwitchTo(old, new) = [path |-> "switch", id |-> old, arg |-> new]
  BY <1>1, MessageTypes DEF StatusOf, SwitchTo
<1>3. u \in Views /\ u.session = v.session
  BY <1>1, <1>2, HandledStatus DEF AboutOne
<1>4. x \in Views /\ x.session = u.session
  <2> HIDE DEF u
  <2> QED
    BY <1>2, <1>3, HandledSwitch
<1>5. ms \in Seq(Messages) /\ Catch(v, ms) = x
  <2>1. ms = <<StatusOf(new, "up")>> \o <<SwitchTo(old, new)>>
    OBVIOUS
  <2>2. <<StatusOf(new, "up")>> \in Seq(Messages) /\ <<SwitchTo(old, new)>> \in Seq(Messages)
    BY <1>2
  <2>3. Catch(v, <<StatusOf(new, "up")>>) = u /\ Catch(u, <<SwitchTo(old, new)>>) = x
    BY <1>2, <1>3, CatchOne
  <2> DEFINE m == <<StatusOf(new, "up")>>
             n == <<SwitchTo(old, new)>>
  <2> HIDE DEF u, x, m, n
  <2>4. m \in Seq(Messages) /\ n \in Seq(Messages)
    BY <2>2 DEF m, n
  <2>5. m \o n \in Seq(Messages) /\ Catch(v, m \o n) = Catch(Catch(v, m), n)
    BY <2>4, CatchConcat, ConcatProperties
  <2>6. ms = m \o n
    BY <2>1 DEF m, n
  <2>7. Catch(v, m) = u /\ Catch(u, n) = x
    BY <2>3 DEF m, n
  <2> QED
    BY <2>5, <2>6, <2>7
<1> HIDE DEF ms
<1>6. /\ ms \in Seq(Messages) /\ Catch(v, ms) = x /\ Catch(v, ms).session = v.session
  BY <1>3, <1>4, <1>5
<1> QED
  BY <1>6 DEF ms

\* command_client_to_switch: of the other ids nothing changes, and if nobody else
\* has the two it is about, the GUI renames the right widget.
LEMMA MirrorsSwitched ==
    ASSUME NEW v \in Views, NEW cl \in Seq(ClientRecords), NEW i \in DOMAIN cl,
           NEW d \in ClientRecords, d.prog = cl[i].prog, d.smart = cl[i].smart,
           d.status = "up", NEW ms, ms = <<StatusOf(d.id, "up"), SwitchTo(cl[i].id, d.id)>>
    PROVE  /\ \A id \in Ids \ {cl[i].id, d.id} :
                 Mirrors(v, cl, id) => Mirrors(Catch(v, ms), [cl EXCEPT ![i] = d], id)
           /\ /\ cl[i].status = "up" /\ \A j \in DOMAIN cl \ {i} : cl[j].id \notin {cl[i].id, d.id}
              /\ Mirrors(v, cl, cl[i].id) /\ Mirrors(v, cl, d.id)
              => \A id \in {cl[i].id, d.id} :
                    Mirrors(Catch(v, ms), [cl EXCEPT ![i] = d], id)
<1> DEFINE c == cl[i]
           old == cl[i].id
           new == d.id
           dl == [cl EXCEPT ![i] = d]
           u == Handled(v, StatusOf(new, "up"))
           x == Handled(u, SwitchTo(old, new))
<1>1. c \in ClientRecords /\ old \in Ids /\ new \in Ids /\ "up" \in Status
  BY ClientFacts DEF Status
<1>2. /\ StatusOf(new, "up") \in Messages /\ SwitchTo(old, new) \in Messages
      /\ StatusOf(new, "up") = [path |-> "status", id |-> new, arg |-> "up"]
      /\ SwitchTo(old, new) = [path |-> "switch", id |-> old, arg |-> new]
  BY <1>1, MessageTypes DEF StatusOf, SwitchTo
<1>3. /\ AboutOne(new, v, u)
      /\ Shown(v, new, {}) => Shown(u, new, {})
      /\ \A w \in Widgets : Shown(v, new, {w}) => Shown(u, new, {[w EXCEPT !.stopped = FALSE]})
  <2>1. /\ AboutOne(new, v, u)
        /\ Shown(v, new, {}) => Shown(u, new, {})
        /\ \A w \in Widgets : Shown(v, new, {w}) =>
              Shown(u, new, IF "up" = "removed" THEN {}
                            ELSE {[w EXCEPT !.stopped = ("up" = "stopped")]})
    BY <1>1, <1>2, HandledStatus
  <2>2. ("up" = "stopped") = FALSE /\ ("up" = "removed") = FALSE
    OBVIOUS
  <2> HIDE DEF u, new
  <2> QED
    BY <2>1, <2>2
<1>4. u \in Views /\ u.session = v.session
  BY <1>3 DEF AboutOne
<1>5. /\ x \in Views /\ x.session = u.session
      /\ \A other \in Ids \ {old, new}, W \in SUBSET Widgets :
            Shown(u, other, W) => Shown(x, other, W)
      /\ \A w \in Widgets :
            /\ old = new /\ Shown(u, old, {w}) => Shown(x, old, {w})
            /\ old # new /\ Shown(u, old, {w}) /\ Shown(u, new, {})
               => Shown(x, old, {}) /\ Shown(x, new, {[w EXCEPT !.id = new]})
  <2> HIDE DEF u, old, new
  <2> QED
    BY <1>1, <1>2, <1>4, HandledSwitch
<1>6. ms \in Seq(Messages) /\ Catch(v, ms) = x
  BY <1>1, SwitchHandled
<1>7. /\ DOMAIN dl = DOMAIN cl /\ dl[i] = d /\ \A j \in DOMAIN cl : j # i => dl[j] = cl[j]
      /\ \A j \in DOMAIN cl : cl[j] \in ClientRecords
  OBVIOUS
<1> HIDE DEF u, x, dl
<1>8. ASSUME NEW id \in Ids \ {old, new}, Mirrors(v, cl, id)
      PROVE  Mirrors(x, dl, id)
  <2>1. ASSUME NEW C \in SUBSET SUBSET Widgets, Seen(v, id, C) PROVE Seen(x, id, C)
    BY <1>3, <1>5, <2>1 DEF AboutOne, Seen
  <2>2. CASE \E j \in DOMAIN cl : OnlyOne(cl, id, j) /\ Seen(v, id, Images(cl[j]))
    <3>1. PICK j \in DOMAIN cl : OnlyOne(cl, id, j) /\ Seen(v, id, Images(cl[j]))
      BY <2>2
    <3>2. j # i
      BY <3>1 DEF OnlyOne
    <3>3. OnlyOne(dl, id, j) /\ dl[j] = cl[j] /\ j \in DOMAIN dl
      BY <1>7, <3>1, <3>2 DEF OnlyOne
    <3>4. Seen(x, id, Images(cl[j]))
      BY <1>7, <2>1, <3>1, ClientFacts
    <3> QED
      BY <3>3, <3>4 DEF Mirrors
  <2>3. CASE NoneHas(cl, id) /\ Seen(v, id, Nothing)
    <3>1. NoneHas(dl, id)
      BY <1>7, <2>3 DEF NoneHas
    <3>2. Seen(x, id, Nothing)
      BY <2>1, <2>3, NothingTyped
    <3> QED
      BY <3>1, <3>2 DEF Mirrors
  <2> QED
    BY <1>8, <2>2, <2>3 DEF Mirrors
<1>9. ASSUME c.status = "up", \A j \in DOMAIN cl \ {i} : cl[j].id \notin {old, new},
             Mirrors(v, cl, old), Mirrors(v, cl, new)
      PROVE  Mirrors(x, dl, old) /\ Mirrors(x, dl, new)
  <2>1. OnlyOne(cl, old, i)
    BY <1>9 DEF OnlyOne
  <2>2. Seen(v, old, Images(c))
    BY <1>9, <2>1 DEF Mirrors, OnlyOne, NoneHas
  <2>3. PICK title \in Titles(c) : Shown(v, old, Image(c, title))
    BY <2>2 DEF Seen, Images
  <2> DEFINE w == Widget(c, title, HasGui(c))
  <2>4. Image(c, title) = {w} /\ w \in Widgets /\ title \in Names /\ title \in Titles(d)
    BY <1>1, <1>9, ClientFacts DEF Titles, Name
  <2>5. Shown(v, old, {w})
    BY <2>3, <2>4
  <2>6. Image(d, title) = {[id |-> new, name |-> title, stopped |-> FALSE, gui |-> HasGui(c)]}
    <3>1. HasGui(d) = HasGui(c)
      BY DEF HasGui
    <3>2. Image(d, title) = {Widget(d, title, HasGui(c))}
      BY <3>1, ClientFacts
    <3> QED
      BY <3>2 DEF Widget
  <2>7. w.id = old /\ w.name = title /\ w.stopped = FALSE /\ w.gui = HasGui(c)
    BY <1>9 DEF Widget
  <2>8. {[w EXCEPT !.id = new]} \in Images(d)
    <3> HIDE DEF w, new, old, c
    <3>1. [w EXCEPT !.id = new] = [id |-> new, name |-> w.name, stopped |-> w.stopped, gui |-> w.gui]
      BY <1>1, <2>4, WidgetParts
    <3>2. Image(d, title) = {[w EXCEPT !.id = new]}
      BY <2>6, <2>7, <3>1
    <3> QED
      BY <2>4, <3>2 DEF Images
  <2>9. [w EXCEPT !.stopped = FALSE] = w
    <3> HIDE DEF w
    <3> QED
      BY <2>4, <2>7 DEF Widgets
  <2>10. OnlyOne(dl, new, i)
    BY <1>7, <1>9 DEF OnlyOne
  <2> HIDE DEF w
  <2>11. CASE old = new
    <3>1. Shown(u, old, {w})
      BY <1>3, <2>4, <2>5, <2>9, <2>11
    <3>2. Shown(x, old, {w})
      BY <1>5, <2>4, <2>11, <3>1
    <3>3. [w EXCEPT !.id = new] = w
      BY <2>4, <2>7, <2>11 DEF Widgets
    <3>4. Seen(x, new, Images(d))
      BY <2>8, <2>11, <3>2, <3>3 DEF Seen
    <3> QED
      BY <1>7, <2>10, <2>11, <3>4 DEF Mirrors
  <2>12. CASE old # new
    <3>1. NoneHas(cl, new)
      BY <1>9, <2>12 DEF NoneHas
    <3>2. Shown(v, new, {})
      BY <1>9, <3>1 DEF Mirrors, OnlyOne, NoneHas, Seen, Nothing
    <3>3. Shown(u, new, {}) /\ Shown(u, old, {w})
      BY <1>1, <1>3, <2>4, <2>5, <2>12, <3>2 DEF AboutOne
    <3>4. Shown(x, old, {}) /\ Shown(x, new, {[w EXCEPT !.id = new]})
      BY <1>5, <2>4, <2>12, <3>3
    <3>5. NoneHas(dl, old)
      BY <1>7, <1>9, <2>12 DEF NoneHas
    <3>6. Seen(x, old, Nothing) /\ Seen(x, new, Images(d))
      BY <2>8, <3>4 DEF Seen, Nothing
    <3> QED
      BY <1>7, <2>10, <3>5, <3>6 DEF Mirrors
  <2> QED
    BY <2>11, <2>12
<1> QED
  BY <1>4, <1>5, <1>6, <1>8, <1>9 DEF dl
----------------------------------------------------------------------------
(* The inductive invariant                                                 *)

ClientsSane == \A i \in DOMAIN client : Sane(client[i])

\* Without a GUI there is nobody to send to, or to be wrong about.
Alone == ~gui => channel = <<>> /\ view = Blank /\ amiss = {}

\* A load has set the session, and tells its name only when it ends.
Loading == op = "open" /\ phase \in {"killed", "purge", "switch", "opening"}

\* Which operations may be in which phase, and what they are about.
Control ==
    /\ op \in {"open", "new"} => target \in Sessions
    /\ phase \in {"load", "switch", "opening"} => op = "open"
    /\ phase = "create" => op = "new"
    /\ phase = "idle" => op = None
    /\ op = None => phase \in {"idle", "gone"}
    /\ session_name = None => session_path = None
    /\ Loading => session_path = session_name

\* In every phase but those of a load the GUI shows the session, or will.
NameShown ==
    gui /\ None \notin amiss /\ op # "quit" /\ ~Loading
        => Caught.session = session_path

Mirrored == gui => \A id \in Ids \ amiss : Mirrors(Caught, client, id)

IInv == TypeOK /\ ClientsSane /\ Alone /\ Control /\ NameShown /\ Mirrored

----------------------------------------------------------------------------
(* Steps that change the list and tell the GUI                             *)

\* What such a step does to the list, the messages and the GUI.
ListStep ==
    /\ SameGui /\ amiss \subseteq amiss' /\ amiss' \subseteq amiss \cup Ids
    /\ ~gui => amiss' = amiss /\ channel' = channel
    /\ client' \in Seq(ClientRecords) /\ ClientsSane'
    /\ channel' \in Seq(Messages)
    /\ gui => Caught'.session = Caught.session
    /\ Mirrored'

\* What it does to the rest.
ControlStep ==
    /\ {session_path', session_name', target'} \subseteq Sessions \cup {None}
    /\ phase' \in Waits \cup Runs /\ op' \in Ops \cup {None}
    /\ wanted' \in Seq(Entries) /\ cursor' \in Nat \ {0}
    /\ clicks' \in Seq([button : Buttons, id : Ids])
    /\ Control'
    /\ op' # "quit" /\ ~Loading' => op # "quit" /\ ~Loading /\ session_path' = session_path

\* The invariant is kept by a step that keeps its part about the list and its
\* part about the control.
LEMMA Kept ==
    ASSUME IInv, ListStep, ControlStep
    PROVE  IInv'
<1>1. TypeOK'
  BY DEF IInv, ListStep, ControlStep, TypeOK, SameGui
<1>2. ClientsSane' /\ Mirrored' /\ Control'
  BY DEF ListStep, ControlStep
<1>3. Alone'
  BY DEF IInv, ListStep, Alone, SameGui
<1>4. NameShown'
  BY DEF IInv, ListStep, ControlStep, NameShown, SameGui
<1> QED
  BY <1>1, <1>2, <1>3, <1>4 DEF IInv

\* A message is sent, if there is a GUI, behind those in flight.
LEMMA Sent ==
    ASSUME TypeOK, NEW ms \in Seq(Messages), Send(ms), SameGui
    PROVE  /\ channel' \in Seq(Messages) /\ Caught \in Views
           /\ ~gui => channel' = channel
           /\ gui => Caught' = Catch(Caught, ms)
<1>1. channel \in Seq(Messages) /\ view \in Views /\ view' = view /\ gui \in BOOLEAN
  BY DEF TypeOK, SameGui
<1>2. channel \o ms \in Seq(Messages)
  BY <1>1, ConcatProperties
<1>3. Caught \in Views
  BY <1>1, CatchType DEF Caught
<1>4. ASSUME gui PROVE Caught' = Catch(Caught, ms)
  <2>1. channel' = channel \o ms
    BY <1>4 DEF Send
  <2>2. Caught' = Catch(view, channel \o ms)
    BY <1>1, <2>1 DEF Caught
  <2>3. Catch(view, channel \o ms) = Catch(Catch(view, channel), ms)
    BY <1>1, CatchConcat
  <2> QED
    BY <2>2, <2>3 DEF Caught
<1> QED
  BY <1>1, <1>2, <1>3, <1>4 DEF Send

\* Nothing is said, and the list is what it was.
LEMMA ListSame ==
    ASSUME IInv, SameGui, UNCHANGED <<client, channel, amiss>>
    PROVE  ListStep
<1>1. Caught' = Caught
  BY DEF Caught, SameGui
<1> QED
  BY <1>1 DEF IInv, TypeOK, ListStep, SameGui, ClientsSane, Mirrored

\* One client changes and the GUI is told.
LEMMA ListChanged ==
    ASSUME IInv, SameGui, UNCHANGED amiss, NEW i \in DOMAIN client,
           NEW d \in ClientRecords, d.id = client[i].id, Sane(d),
           client' = [client EXCEPT ![i] = d], NEW ms, Send(ms),
           Reports(client[i].id, Images(client[i]), Images(d), ms)
    PROVE  ListStep
<1>1. /\ TypeOK /\ client \in Seq(ClientRecords) /\ client[i] \in ClientRecords
      /\ client[i].id \in Ids /\ ms \in Seq(Messages)
  BY ClientFacts DEF IInv, TypeOK, Reports
<1>2. /\ channel' \in Seq(Messages) /\ Caught \in Views
      /\ ~gui => channel' = channel
      /\ gui => Caught' = Catch(Caught, ms)
  BY <1>1, Sent
<1>3. client' \in Seq(ClientRecords)
  BY <1>1
<1>4. ClientsSane'
  BY <1>1 DEF IInv, ClientsSane
<1>5. Catch(Caught, ms).session = Caught.session
  BY <1>2 DEF Reports, AboutOne
<1>6. ASSUME gui, NEW id \in Ids \ amiss PROVE Mirrors(Catch(Caught, ms), client', id)
  <2>1. Mirrors(Caught, client, id)
    BY <1>6 DEF IInv, Mirrored
  <2>2. Mirrors(Catch(Caught, ms), [client EXCEPT ![i] = d], id)
    BY <1>1, <1>2, <2>1, MirrorsChanged
  <2> QED
    BY <2>2
<1>7. Mirrored'
  BY <1>2, <1>6 DEF Mirrored, SameGui
<1> QED
  BY <1>2, <1>3, <1>4, <1>5, <1>7 DEF ListStep, SameGui
\* A client of a new id is put at the end.
LEMMA ListAdded ==
    ASSUME IInv, SameGui, UNCHANGED amiss, NEW c \in ClientRecords, WithId(c.id) = {},
           Sane(c), client' = Append(client, c), NEW ms, Send(ms),
           Reports(c.id, Nothing, Images(c), ms)
    PROVE  ListStep
<1>1. TypeOK /\ client \in Seq(ClientRecords) /\ c.id \in Ids /\ ms \in Seq(Messages)
  BY ClientFacts DEF IInv, TypeOK, Reports
<1>2. /\ channel' \in Seq(Messages) /\ Caught \in Views
      /\ ~gui => channel' = channel
      /\ gui => Caught' = Catch(Caught, ms)
  BY <1>1, Sent
<1>3. client' \in Seq(ClientRecords)
  BY <1>1
<1>4. ClientsSane'
  BY <1>1 DEF IInv, ClientsSane
<1>5. Catch(Caught, ms).session = Caught.session
  BY <1>2 DEF Reports, AboutOne
<1>6. ASSUME gui, NEW id \in Ids \ amiss PROVE Mirrors(Catch(Caught, ms), client', id)
  <2>1. Mirrors(Caught, client, id)
    BY <1>6 DEF IInv, Mirrored
  <2>2. NoneHas(client, c.id)
    BY DEF NoneHas, WithId
  <2>3. Mirrors(Catch(Caught, ms), Append(client, c), id)
    BY <1>1, <1>2, <2>1, <2>2, MirrorsAdded
  <2> QED
    BY <2>3
<1>7. Mirrored'
  BY <1>2, <1>6 DEF Mirrored, SameGui
<1> QED
  BY <1>2, <1>3, <1>4, <1>5, <1>7 DEF ListStep, SameGui

\* Who is left of a list without one of its clients.
LEMMA ListWithout ==
    ASSUME IInv, NEW i \in DOMAIN client, client' = RemoveAt(client, i)
    PROVE  client' \in Seq(ClientRecords) /\ ClientsSane'
<1>1. client \in Seq(ClientRecords)
  BY DEF IInv, TypeOK
<1>2. /\ RemoveAt(client, i) \in Seq(ClientRecords)
      /\ \A k \in DOMAIN RemoveAt(client, i) :
            \E j \in DOMAIN client : RemoveAt(client, i)[k] = client[j]
  BY <1>1, RemovedFacts
<1> QED
  BY <1>2 DEF IInv, ClientsSane

\* A client is erased and the GUI is told.
LEMMA ListRemoved ==
    ASSUME IInv, SameGui, UNCHANGED amiss, NEW i \in DOMAIN client,
           client' = RemoveAt(client, i), NEW ms, Send(ms),
           Reports(client[i].id, Images(client[i]), Nothing, ms)
    PROVE  ListStep
<1>1. /\ TypeOK /\ client \in Seq(ClientRecords) /\ client[i] \in ClientRecords
      /\ client[i].id \in Ids /\ ms \in Seq(Messages)
  BY ClientFacts DEF IInv, TypeOK, Reports
<1>2. /\ channel' \in Seq(Messages) /\ Caught \in Views
      /\ ~gui => channel' = channel
      /\ gui => Caught' = Catch(Caught, ms)
  BY <1>1, Sent
<1>3. client' \in Seq(ClientRecords) /\ ClientsSane'
  BY ListWithout
<1>4. Catch(Caught, ms).session = Caught.session
  BY <1>2 DEF Reports, AboutOne
<1>5. ASSUME gui, NEW id \in Ids \ amiss PROVE Mirrors(Catch(Caught, ms), client', id)
  <2>1. Mirrors(Caught, client, id)
    BY <1>5 DEF IInv, Mirrored
  <2>2. Mirrors(Catch(Caught, ms), RemoveAt(client, i), id)
    BY <1>1, <1>2, <2>1, MirrorsRemoved
  <2> QED
    BY <2>2
<1>6. Mirrored'
  BY <1>2, <1>5 DEF Mirrored, SameGui
<1> QED
  BY <1>2, <1>3, <1>4, <1>6 DEF ListStep, SameGui

\* A client is erased in silence: unless it has been reported as removed, the GUI
\* is wrong about its id.
LEMMA ListCleared ==
    ASSUME IInv, SameGui, UNCHANGED channel, NEW i \in DOMAIN client,
           client' = RemoveAt(client, i),
           IF client[i].status = "removed" THEN UNCHANGED amiss
           ELSE Misled({client[i].id})
    PROVE  ListStep
<1>1. /\ TypeOK /\ client \in Seq(ClientRecords) /\ client[i] \in ClientRecords
      /\ client[i].id \in Ids /\ channel \in Seq(Messages) /\ view \in Views
  BY ClientFacts DEF IInv, TypeOK
<1>2. client' \in Seq(ClientRecords) /\ ClientsSane'
  BY ListWithout
<1>3. Caught' = Caught /\ Caught \in Views
  BY <1>1, CatchType DEF Caught, SameGui
<1>4. amiss \subseteq amiss' /\ amiss' \subseteq amiss \cup Ids /\ (~gui => amiss' = amiss)
  BY <1>1 DEF Misled
<1>5. ASSUME gui, NEW id \in Ids \ amiss' PROVE Mirrors(Caught, client', id)
  <2>1. Mirrors(Caught, client, id)
    BY <1>4, <1>5 DEF IInv, Mirrored
  <2>2. Images(client[i]) = Nothing \/ client[i].id # id
    BY <1>1, <1>5, ClientFacts DEF Misled
  <2>3. Mirrors(Caught, RemoveAt(client, i), id)
    BY <1>1, <1>3, <2>1, <2>2, MirrorsCleared
  <2> QED
    BY <2>3
<1>6. Mirrored'
  BY <1>3, <1>5 DEF Mirrored, SameGui
<1> QED
  BY <1>1, <1>2, <1>3, <1>4, <1>6 DEF ListStep, SameGui

\* All clients change, or may, and of each the GUI is told.
LEMMA ListAll ==
    ASSUME IInv, SameGui, UNCHANGED amiss,
           NEW dl \in [DOMAIN client -> ClientRecords],
           NEW ms \in [DOMAIN client -> Seq(Messages)],
           \A i \in DOMAIN client :
              /\ dl[i].id = client[i].id /\ Sane(dl[i])
              /\ Reports(client[i].id, Images(client[i]), Images(dl[i]), ms[i]),
           client' = dl, Send(FlattenSeq(ms))
    PROVE  ListStep
<1>1. /\ TypeOK /\ client \in Seq(ClientRecords)
      /\ \A i \in DOMAIN client : client[i] \in ClientRecords /\ client[i].id \in Ids
  BY ClientFacts DEF IInv, TypeOK
<1> DEFINE N == Len(client)
<1>2. N \in Nat /\ DOMAIN client = 1..N
  BY <1>1
<1>3. ms \in Seq(Seq(Messages))
  BY <1>2
<1>4. FlattenSeq(ms) \in Seq(Messages)
  BY <1>3, FlattenSeqType
<1>5. /\ channel' \in Seq(Messages) /\ Caught \in Views
      /\ ~gui => channel' = channel
      /\ gui => Caught' = Catch(Caught, FlattenSeq(ms))
  BY <1>1, <1>4, Sent
<1>6. client' \in Seq(ClientRecords)
  BY <1>2
<1>7. ClientsSane'
  BY DEF ClientsSane
<1>8. Catch(Caught, FlattenSeq(ms)).session = Caught.session
  <2>1. ms \in [1..N -> Seq(Messages)]
    BY <1>2
  <2>2. \A i \in 1..N : \E id, A, B : Reports(id, A, B, ms[i])
    BY <1>2
  <2> HIDE DEF N
  <2> QED
    BY <1>2, <1>5, <2>1, <2>2, EachQuiet
<1>9. ASSUME gui, NEW id \in Ids \ amiss
      PROVE  Mirrors(Catch(Caught, FlattenSeq(ms)), client', id)
  <2>1. Mirrors(Caught, client, id)
    BY <1>9 DEF IInv, Mirrored
  <2>2. Mirrors(Catch(Caught, FlattenSeq(ms)), dl, id)
    BY <1>1, <1>5, <2>1, MirrorsAll
  <2> QED
    BY <2>2
<1>10. Mirrored'
  BY <1>5, <1>9 DEF Mirrored, SameGui
<1> QED
  BY <1>5, <1>6, <1>7, <1>8, <1>10 DEF ListStep, SameGui
\* One client takes another id; of the two ids the GUI may be wrong afterwards.
LEMMA ListSwitched ==
    ASSUME IInv, SameGui, NEW i \in DOMAIN client, NEW d \in ClientRecords,
           d.prog = client[i].prog, d.smart = client[i].smart, d.status = "up", Sane(d),
           client' = [client EXCEPT ![i] = d],
           Send(<<StatusOf(d.id, "up"), SwitchTo(client[i].id, d.id)>>),
           amiss \subseteq amiss', amiss' \subseteq amiss \cup Ids, ~gui => amiss' = amiss,
           \/ gui => {client[i].id, d.id} \subseteq amiss'
           \/ /\ client[i].status = "up" /\ {client[i].id, d.id} \cap amiss = {}
              /\ \A j \in DOMAIN client \ {i} : client[j].id \notin {client[i].id, d.id}
    PROVE  ListStep
<1> DEFINE old == client[i].id
           new == d.id
           ms == <<StatusOf(new, "up"), SwitchTo(old, new)>>
           dl == [client EXCEPT ![i] = d]
<1>0. ms = <<StatusOf(d.id, "up"), SwitchTo(client[i].id, d.id)>>
  OBVIOUS
<1>1. /\ TypeOK /\ client \in Seq(ClientRecords) /\ client[i] \in ClientRecords
      /\ old \in Ids /\ new \in Ids /\ Caught \in Views
  BY ClientFacts, CatchType DEF IInv, TypeOK, Caught
<1>2. ms \in Seq(Messages) /\ Catch(Caught, ms).session = Caught.session
  BY <1>1, SwitchHandled
<1> HIDE DEF ms
<1>3. /\ \A id \in Ids \ {old, new} :
            Mirrors(Caught, client, id) => Mirrors(Catch(Caught, ms), dl, id)
      /\ /\ client[i].status = "up"
         /\ \A j \in DOMAIN client \ {i} : client[j].id \notin {old, new}
         /\ Mirrors(Caught, client, old) /\ Mirrors(Caught, client, new)
         => \A id \in {old, new} : Mirrors(Catch(Caught, ms), dl, id)
  <2>1. ASSUME NEW id \in Ids \ {old, new}, Mirrors(Caught, client, id)
        PROVE  Mirrors(Catch(Caught, ms), dl, id)
    BY <1>0, <1>1, <2>1, MirrorsSwitched
  <2>2. ASSUME client[i].status = "up",
               \A j \in DOMAIN client \ {i} : client[j].id \notin {old, new},
               Mirrors(Caught, client, old), Mirrors(Caught, client, new)
        PROVE  \A id \in {old, new} : Mirrors(Catch(Caught, ms), dl, id)
    BY <1>0, <1>1, <2>2, MirrorsSwitched
  <2> QED
    BY <2>1, <2>2
<1>4. client' = dl /\ dl \in Seq(ClientRecords) /\ ClientsSane'
  BY <1>1 DEF IInv, ClientsSane
<1> HIDE DEF dl
<1>5. /\ channel' \in Seq(Messages)
      /\ ~gui => channel' = channel
      /\ gui => Caught' = Catch(Caught, ms)
  BY <1>1, <1>2, Sent DEF ms
<1>6. ASSUME gui, NEW id \in Ids \ amiss' PROVE Mirrors(Catch(Caught, ms), dl, id)
  <2>1. \A x \in Ids \ amiss : Mirrors(Caught, client, x)
    BY <1>6 DEF IInv, Mirrored
  <2>2. CASE id \in {old, new}
    <3>1. /\ client[i].status = "up" /\ {old, new} \cap amiss = {}
          /\ \A j \in DOMAIN client \ {i} : client[j].id \notin {old, new}
      BY <1>6, <2>2
    <3>2. Mirrors(Caught, client, old) /\ Mirrors(Caught, client, new)
      BY <1>1, <2>1, <3>1
    <3> QED
      BY <1>3, <2>2, <3>1, <3>2
  <2>3. CASE id \notin {old, new}
    <3>1. Mirrors(Caught, client, id)
      BY <1>6, <2>1
    <3> QED
      BY <1>3, <1>6, <2>3, <3>1
  <2> QED
    BY <2>2, <2>3
<1>7. Mirrored'
  BY <1>4, <1>5, <1>6 DEF Mirrored, SameGui
<1> QED
  BY <1>2, <1>4, <1>5, <1>7 DEF ListStep, SameGui
----------------------------------------------------------------------------
(* The changes nsmd makes to its list                                      *)

\* command_client_to_save, for every client.
LEMMA SaveList ==
    ASSUME IInv, CommandSave, SameGui, UNCHANGED amiss
    PROVE  ListStep
<1> DEFINE dl == [i \in DOMAIN client |-> Saved(client[i])]
           ms == [i \in DOMAIN client |-> SaveMessages(client[i])]
<1>1. ASSUME NEW i \in DOMAIN client
      PROVE  /\ dl[i] \in ClientRecords /\ dl[i].id = client[i].id /\ Sane(dl[i])
             /\ Reports(client[i].id, Images(client[i]), Images(dl[i]), ms[i])
  <2>1. client[i] \in ClientRecords /\ Sane(client[i])
    BY DEF IInv, TypeOK, ClientsSane
  <2> QED
    BY <2>1, SaveReport
<1>2. dl \in [DOMAIN client -> ClientRecords] /\ ms \in [DOMAIN client -> Seq(Messages)]
  BY <1>1 DEF Reports
<1>3. client' = dl /\ Send(FlattenSeq(ms))
  BY DEF CommandSave
<1> HIDE DEF dl, ms
<1> QED
  BY <1>1, <1>2, <1>3, ListAll

\* command_client_to_quit, for those a load has no use for or for all.
LEMMA QuitList ==
    ASSUME IInv, NEW surplus, CommandQuit(surplus), SameGui, UNCHANGED amiss
    PROVE  ListStep
<1> DEFINE dl == [i \in DOMAIN client |->
                    IF i \in surplus THEN Quit(client[i]) ELSE client[i]]
           ms == [i \in DOMAIN client |->
                    IF i \in surplus THEN QuitMessages(client[i]) ELSE <<>>]
<1>1. ASSUME NEW i \in DOMAIN client
      PROVE  /\ dl[i] \in ClientRecords /\ dl[i].id = client[i].id /\ Sane(dl[i])
             /\ Reports(client[i].id, Images(client[i]), Images(dl[i]), ms[i])
  <2>1. client[i] \in ClientRecords /\ Sane(client[i])
    BY DEF IInv, TypeOK, ClientsSane
  <2>2. CASE i \in surplus
    BY <2>1, <2>2, QuitReport
  <2>3. CASE i \notin surplus
    BY <2>1, <2>3, ReportsNothing
  <2> QED
    BY <2>2, <2>3
<1>2. dl \in [DOMAIN client -> ClientRecords] /\ ms \in [DOMAIN client -> Seq(Messages)]
  BY <1>1 DEF Reports
<1>3. client' = dl /\ Send(FlattenSeq(ms))
  BY DEF CommandQuit
<1> HIDE DEF dl, ms
<1> QED
  BY <1>1, <1>2, <1>3, ListAll

\* launch.
LEMMA LaunchList ==
    ASSUME IInv, NEW prog \in Progs, NEW id \in Ids, Launch(prog, id), SameGui,
           UNCHANGED amiss
    PROVE  ListStep
<1>1. client \in Seq(ClientRecords) /\ \A i \in DOMAIN client : Sane(client[i])
  BY DEF IInv, TypeOK, ClientsSane
<1>2. ASSUME NEW i \in DOMAIN client, client[i].id = id,
             client' = [client EXCEPT ![i].pending = "START", ![i].pid = TRUE,
                                      ![i].status = "up"],
             Send(<<New(client[i]), StatusOf(id, "up")>>)
      PROVE  ListStep
  <2> DEFINE c == client[i]
             d == [c EXCEPT !.pending = "START", !.pid = TRUE, !.status = "up"]
  <2>1. c \in ClientRecords /\ Sane(c)
    BY <1>1
  <2>2. client' = [client EXCEPT ![i] = d]
    BY <1>2
  <2>3. /\ d \in ClientRecords /\ d.id = c.id /\ d.prog = c.prog /\ d.smart = c.smart
        /\ d.status = "up"
    BY <2>1 DEF ClientRecords, Status
  <2> HIDE DEF d
  <2>4. Sane(d)
    BY <2>3 DEF Sane
  <2>5. Reports(c.id, Images(c), Images(d), <<New(c), StatusOf(c.id, "up")>>)
    BY <2>1, <2>3, LaunchReport
  <2> QED
    BY <1>2, <2>2, <2>3, <2>4, <2>5, ListChanged
<1>3. ASSUME WithId(id) = {}
      PROVE  LET c == [id |-> id, prog |-> prog, status |-> "up", pid |-> TRUE,
                       active |-> FALSE, smart |-> FALSE, pending |-> "START"] IN
             client' = Append(client, c) /\ Send(<<New(c), StatusOf(id, "up")>>)
             => ListStep
  <2> DEFINE c == [id |-> id, prog |-> prog, status |-> "up", pid |-> TRUE,
                   active |-> FALSE, smart |-> FALSE, pending |-> "START"]
  <2>1. c \in ClientRecords /\ c.id = id /\ c.status = "up" /\ ~c.smart
    BY DEF ClientRecords, Status
  <2> HIDE DEF c
  <2> SUFFICES ASSUME client' = Append(client, c), Send(<<New(c), StatusOf(id, "up")>>)
               PROVE  ListStep
    BY DEF c
  <2>2. Sane(c)
    BY <2>1 DEF Sane
  <2>3. Reports(c.id, Nothing, Images(c), <<New(c), StatusOf(c.id, "up")>>)
    BY <2>1, NewReport
  <2> QED
    BY <1>3, <2>1, <2>2, <2>3, ListAdded
<1> QED
  BY <1>2, <1>3 DEF Launch, First, WithId
----------------------------------------------------------------------------
(* Messages and deaths of clients, and clicks                              *)

\* A handler that returns at once leaves the operation in progress alone.
LEMMA ByTheWayKept ==
    ASSUME IInv, ListStep, SameControl, clicks' \in Seq([button : Buttons, id : Ids])
    PROVE  IInv'
<1>1. ControlStep
  BY DEF IInv, TypeOK, Control, Loading, ControlStep, SameControl, SameSession
<1> QED
  BY <1>1, Kept

\* Adding a client keeps the invariant.
LEMMA AddKept ==
    ASSUME IInv, NEW prog \in Progs, Add(prog)
    PROVE  IInv'
<1>1. PICK id \in FreshIds : Launch(prog, id)
  BY DEF Add
<1>2. ListStep
  BY <1>1, LaunchList DEF FreshIds, Add, ByTheWay
<1> QED
  BY <1>2, ByTheWayKept DEF Add, ByTheWay, IInv, TypeOK

\* The announcement of a program started by hand keeps the invariant.
LEMMA AnnounceKept ==
    ASSUME IInv, NEW prog \in Progs, Announce(prog)
    PROVE  IInv'
<1> DEFINE An(c) == [c EXCEPT !.pid = TRUE, !.smart = TRUE, !.active = TRUE,
                              !.status = "up", !.pending = "BUSY"]
           Ms(c) == <<NewName(c), StatusOf(c.id, "up")>>
                    \o (IF HasGui(c) THEN <<OptionalGui(c)>> ELSE <<>>)
<1>1. client \in Seq(ClientRecords) /\ \A i \in DOMAIN client : Sane(client[i])
  BY DEF IInv, TypeOK, ClientsSane
<1>2. ASSUME NEW c \in ClientRecords
      PROVE  /\ An(c) \in ClientRecords /\ An(c).id = c.id /\ An(c).prog = c.prog
             /\ An(c).smart /\ An(c).status = "up" /\ Sane(An(c))
  <2>1. /\ An(c) \in ClientRecords /\ An(c).id = c.id /\ An(c).prog = c.prog
        /\ An(c).smart /\ An(c).status = "up"
    BY DEF ClientRecords, Status
  <2> HIDE DEF An
  <2> QED
    BY <2>1 DEF Sane
<1>3. SameGui /\ UNCHANGED <<amiss, clicks>> /\ SameControl
  BY DEF Announce, ByTheWay
<1>4. ASSUME NEW i \in DOMAIN client, client' = [client EXCEPT ![i] = An(client[i])],
             Send(Ms(client'[i]))
      PROVE  ListStep
  <2> DEFINE c == client[i]
             d == An(c)
  <2>1. c \in ClientRecords /\ Sane(c)
    BY <1>1
  <2>2. /\ d \in ClientRecords /\ d.id = c.id /\ d.prog = c.prog /\ d.smart
        /\ d.status = "up" /\ Sane(d)
    BY <1>2, <2>1
  <2> HIDE DEF An
  <2>3. client'[i] = d
    BY <1>1, <1>4
  <2>4. Send(Ms(d))
    BY <1>4, <2>3
  <2> HIDE DEF d
  <2>5. Reports(c.id, Images(c), Images(d), Ms(d))
    BY <2>1, <2>2, AnnounceReport
  <2>6. client' = [client EXCEPT ![i] = d]
    BY <1>4 DEF d
  <2> HIDE DEF Ms
  <2> QED
    BY <1>3, <2>2, <2>4, <2>5, <2>6, ListChanged
<1>5. ASSUME NEW id \in FreshIds, NEW c, c \in ClientRecords, c.id = id,
             client' = Append(client, An(c)), Send(Ms(An(c)))
      PROVE  ListStep
  <2> DEFINE d == An(c)
  <2>1. d \in ClientRecords /\ d.id = id /\ d.status = "up" /\ Sane(d)
    BY <1>2, <1>5
  <2>2. Sane(d) /\ (d.smart => d.smart)
    BY <2>1
  <2> HIDE DEF d
  <2>3. Reports(d.id, Nothing, Images(d), Ms(d))
    BY <2>1, <2>2, AnnounceReport
  <2>4. WithId(d.id) = {}
    BY <2>1 DEF FreshIds, WithId
  <2>5. client' = Append(client, d) /\ Send(Ms(d))
    BY <1>5 DEF d
  <2> HIDE DEF Ms
  <2> QED
    BY <1>3, <2>1, <2>3, <2>4, <2>5, ListAdded
<1>6. ListStep
  <2>1. CASE \E i \in DOMAIN client :
                /\ client' = [client EXCEPT ![i] = An(client[i])]
                /\ Send(Ms(client'[i]))
    <3> HIDE DEF An, Ms
    <3> QED
      BY <1>4, <2>1
  <2>2. CASE \E id \in FreshIds :
                LET c == An([id |-> id, prog |-> prog, status |-> "up", pid |-> TRUE,
                             active |-> TRUE, smart |-> TRUE, pending |-> "BUSY"]) IN
                client' = Append(client, c) /\ Send(Ms(c))
    <3>1. PICK id \in FreshIds :
                LET c == An([id |-> id, prog |-> prog, status |-> "up", pid |-> TRUE,
                             active |-> TRUE, smart |-> TRUE, pending |-> "BUSY"]) IN
                client' = Append(client, c) /\ Send(Ms(c))
      BY <2>2
    <3> DEFINE c == [id |-> id, prog |-> prog, status |-> "up", pid |-> TRUE,
                     active |-> TRUE, smart |-> TRUE, pending |-> "BUSY"]
    <3>2. c \in ClientRecords /\ c.id = id
      BY DEF ClientRecords, Status, FreshIds
    <3> HIDE DEF An, Ms
    <3>3. client' = Append(client, An(c)) /\ Send(Ms(An(c)))
      BY <3>1
    <3> HIDE DEF c
    <3> QED
      BY <1>5, <3>2, <3>3
  <2> QED
    BY <2>1, <2>2 DEF Announce
<1> QED
  BY <1>3, <1>6, ByTheWayKept DEF IInv, TypeOK

\* A client's answer keeps the invariant.
LEMMA AnswerKept ==
    ASSUME IInv, NEW i \in DOMAIN client, Answer(i)
    PROVE  IInv'
<1> DEFINE c == client[i]
           d == [c EXCEPT !.status = "up", !.pending = "NONE"]
<1>1. c \in ClientRecords /\ Sane(c)
  BY DEF IInv, TypeOK, ClientsSane
<1>2. client' = [client EXCEPT ![i] = d]
  BY DEF Answer, IInv, TypeOK
<1>3. /\ d \in ClientRecords /\ d.id = c.id /\ d.prog = c.prog /\ d.smart = c.smart
      /\ d.status = "up" /\ c.smart
  BY <1>1 DEF ClientRecords, Status, Answer
<1> HIDE DEF d
<1>4. Sane(d) /\ c.status # "removed" /\ HasGui(d) = HasGui(c)
  BY <1>1, <1>3 DEF Sane, HasGui
<1>5. Reports(c.id, Images(c), Images(d), <<StatusOf(c.id, "up")>>)
  BY <1>1, <1>3, <1>4, StatusReport
<1>6. SameGui /\ SameControl /\ UNCHANGED <<amiss, clicks>> /\ Send(<<StatusOf(c.id, "up")>>)
  BY DEF Answer, ByTheWay
<1>7. ListStep
  BY <1>2, <1>3, <1>4, <1>5, <1>6, ListChanged
<1> QED
  BY <1>6, <1>7, ByTheWayKept DEF IInv, TypeOK
\* A client that has stopped, or is about to, is reported as such.
LEMMA StoppedList ==
    ASSUME IInv, SameGui, UNCHANGED amiss, NEW i \in DOMAIN client, client[i].pid,
           NEW d \in ClientRecords, d.id = client[i].id, d.prog = client[i].prog,
           d.smart = client[i].smart, d.status = "stopped", Sane(d),
           client' = [client EXCEPT ![i] = d],
           Send(<<StatusOf(client[i].id, "stopped")>>)
    PROVE  ListStep
<1>1. client[i] \in ClientRecords /\ Sane(client[i])
  BY DEF IInv, TypeOK, ClientsSane
<1>2. client[i].status # "removed" /\ HasGui(d) = HasGui(client[i])
  BY <1>1 DEF Sane, HasGui
<1>3. Reports(client[i].id, Images(client[i]), Images(d), <<StatusOf(client[i].id, "stopped")>>)
  BY <1>1, <1>2, StatusReport
<1> QED
  BY <1>3, ListChanged

\* The death of a client keeps the invariant, with the client's removal when
\* it was told to quit.
LEMMA DiesKept ==
    ASSUME IInv, NEW i \in DOMAIN client, Dies(i)
    PROVE  IInv'
<1> DEFINE c == client[i]
           d == [c EXCEPT !.status = "stopped", !.pid = FALSE, !.active = FALSE,
                          !.pending = "NONE"]
<1>1. c \in ClientRecords
  BY DEF IInv, TypeOK
<1>2. SameGui /\ SameControl /\ UNCHANGED <<amiss, clicks>> /\ c.pid
  BY DEF Dies, ByTheWay
<1>3. ASSUME client' = RemoveAt(client, i), Send(<<StatusOf(c.id, "removed")>>)
      PROVE  ListStep
  BY <1>1, <1>2, <1>3, RemoveReport, ListRemoved
<1>4. ASSUME client' = [client EXCEPT ![i].status = "stopped", ![i].pid = FALSE,
                                      ![i].active = FALSE, ![i].pending = "NONE"],
             Send(<<StatusOf(c.id, "stopped")>>)
      PROVE  ListStep
  <2>1. client' = [client EXCEPT ![i] = d]
    BY <1>4 DEF IInv, TypeOK
  <2>2. /\ d \in ClientRecords /\ d.id = c.id /\ d.prog = c.prog /\ d.smart = c.smart
        /\ d.status = "stopped" /\ ~d.active
    BY <1>1 DEF ClientRecords, Status
  <2> HIDE DEF d
  <2>3. Sane(d)
    BY <2>2 DEF Sane
  <2> QED
    BY <1>2, <1>4, <2>1, <2>2, <2>3, StoppedList
<1>5. ListStep
  BY <1>3, <1>4 DEF Dies
<1> QED
  BY <1>2, <1>5, ByTheWayKept DEF IInv, TypeOK

\* What all clicks have in common.
LEMMA ClickedFacts ==
    ASSUME IInv, NEW button, Clicked(button)
    PROVE  /\ SameGui /\ UNCHANGED amiss
           /\ \A i : Target(i) => i \in DOMAIN client
           /\ ListStep => IInv'
<1>1. SameGui /\ UNCHANGED amiss /\ SameControl
  BY DEF Clicked, ByTheWay
<1>2. clicks' \in Seq([button : Buttons, id : Ids])
  BY DEF IInv, TypeOK, Clicked
<1>3. \A i : Target(i) => i \in DOMAIN client
  BY DEF Target, First, WithId
<1> QED
  BY <1>1, <1>2, <1>3, ByTheWayKept

\* Stopping a client keeps the invariant.
LEMMA StopKept ==
    ASSUME IInv, Stop
    PROVE  IInv'
<1>1. /\ SameGui /\ UNCHANGED amiss
      /\ \A i : Target(i) => i \in DOMAIN client
      /\ ListStep => IInv'
  BY ClickedFacts DEF Stop
<1>2. ASSUME NEW i \in DOMAIN client, client[i].pid,
             client' = [client EXCEPT ![i].status = "stopped", ![i].pending = "KILL"],
             Send(<<StatusOf(client[i].id, "stopped")>>)
      PROVE  ListStep
  <2> DEFINE c == client[i]
             d == [c EXCEPT !.status = "stopped", !.pending = "KILL"]
  <2>1. c \in ClientRecords /\ client \in Seq(ClientRecords)
    BY DEF IInv, TypeOK
  <2>4. client' = [client EXCEPT ![i] = d]
    BY <1>2, <2>1
  <2>2. /\ d \in ClientRecords /\ d.id = c.id /\ d.prog = c.prog /\ d.smart = c.smart
        /\ d.status = "stopped" /\ d.pending = "KILL"
    BY <2>1 DEF ClientRecords, Status
  <2> HIDE DEF d
  <2>3. Sane(d)
    BY <2>2 DEF Sane
  <2> QED
    BY <1>1, <1>2, <2>1, <2>2, <2>3, <2>4, StoppedList
<1>3. ASSUME UNCHANGED <<client, channel>> PROVE ListStep
  BY <1>1, <1>3, ListSame
<1> QED
  BY <1>1, <1>2, <1>3 DEF Stop

\* Removing a stopped client keeps the invariant.
LEMMA RemoveKept ==
    ASSUME IInv, Remove_
    PROVE  IInv'
<1>1. /\ SameGui /\ UNCHANGED amiss
      /\ \A i : Target(i) => i \in DOMAIN client
      /\ ListStep => IInv'
  BY ClickedFacts DEF Remove_
<1>2. ASSUME NEW i \in DOMAIN client, client' = RemoveAt(client, i),
             Send(<<StatusOf(client[i].id, "removed")>>)
      PROVE  ListStep
  <2>1. client[i] \in ClientRecords
    BY DEF IInv, TypeOK
  <2> QED
    BY <1>1, <1>2, <2>1, RemoveReport, ListRemoved
<1>3. ASSUME UNCHANGED <<client, channel>> PROVE ListStep
  BY <1>1, <1>3, ListSame
<1> QED
  BY <1>1, <1>2, <1>3 DEF Remove_

\* Starting a stopped client again keeps the invariant.
LEMMA ResumeKept ==
    ASSUME IInv, Resume
    PROVE  IInv'
<1>1. /\ SameGui /\ UNCHANGED amiss
      /\ \A i : Target(i) => i \in DOMAIN client
      /\ ListStep => IInv'
  BY ClickedFacts DEF Resume
<1>2. ASSUME NEW i \in DOMAIN client, Launch(client[i].prog, client[i].id)
      PROVE  ListStep
  <2>1. client[i] \in ClientRecords
    BY DEF IInv, TypeOK
  <2>2. client[i].prog \in Progs /\ client[i].id \in Ids
    BY <2>1, ClientFacts
  <2> QED
    BY <1>1, <1>2, <2>2, LaunchList
<1>3. ASSUME UNCHANGED <<client, channel>> PROVE ListStep
  BY <1>1, <1>3, ListSame
<1> QED
  BY <1>1, <1>2, <1>3 DEF Resume

\* Saving one client keeps the invariant.
LEMMA ClientSaveKept ==
    ASSUME IInv, ClientSave
    PROVE  IInv'
<1>1. /\ SameGui /\ UNCHANGED amiss
      /\ \A i : Target(i) => i \in DOMAIN client
      /\ ListStep => IInv'
  BY ClickedFacts DEF ClientSave
<1>2. ASSUME NEW i \in DOMAIN client, client' = [client EXCEPT ![i] = Saved(client[i])],
             Send(SaveMessages(client[i]))
      PROVE  ListStep
  <2>1. client[i] \in ClientRecords /\ Sane(client[i])
    BY DEF IInv, TypeOK, ClientsSane
  <2>2. /\ Saved(client[i]) \in ClientRecords /\ Saved(client[i]).id = client[i].id
        /\ Sane(Saved(client[i]))
        /\ Reports(client[i].id, Images(client[i]), Images(Saved(client[i])),
                 SaveMessages(client[i]))
    BY <2>1, SaveReport
  <2> QED
    BY <1>1, <1>2, <2>2, ListChanged
<1>3. ASSUME UNCHANGED <<client, channel>> PROVE ListStep
  BY <1>1, <1>3, ListSame
<1> QED
  BY <1>1, <1>2, <1>3 DEF ClientSave
----------------------------------------------------------------------------
(* Operations                                                              *)

LEMMA SaveKept ==
    ASSUME IInv, Save
    PROVE  IInv'
<1>1. SameGui /\ SameControl /\ UNCHANGED <<clicks, amiss>> /\ CommandSave
  BY DEF Save
<1>2. ListStep
  BY <1>1, SaveList
<1> QED
  BY <1>1, <1>2, ByTheWayKept DEF IInv, TypeOK

\* The request that begins an operation keeps the invariant.
LEMMA BeginKept ==
    ASSUME IInv, NEW o, NEW s, NEW p, Begin(o, s, p),
           \/ o \in {"open", "new"} /\ s \in Sessions /\ <<o, p>> \in {<<"open", "load">>, <<"new", "create">>}
           \/ o = "close" /\ s = None /\ p = "saving"
    PROVE  IInv'
<1>1. ListStep
  BY ListSame, SaveList DEF Begin
<1>2. op = None /\ op' = o /\ target' = s /\ phase' \in {"saving", p}
  BY DEF Begin, Free, Goto
<1>3. UNCHANGED <<session_path, session_name, wanted, cursor, clicks>>
  BY DEF Begin, SameSession
<1>4. ControlStep
  BY <1>2, <1>3, GuiMirrorAssumption
     DEF IInv, TypeOK, Waits, Runs, Ops, Control, ControlStep, Loading
<1> QED
  BY <1>1, <1>4, Kept

\* The end of a save keeps the invariant.
LEMMA SaveDoneKept ==
    ASSUME IInv, SaveDone
    PROVE  IInv'
<1>1. ListStep
  BY ListSame, QuitList DEF SaveDone
<1>2. /\ phase = "saving"
      /\ UNCHANGED <<session_path, session_name, wanted, clicks>>
  BY DEF SaveDone, SameSession
<1>3. \/ /\ op = "open" /\ UNCHANGED cursor
         /\ \/ phase' = "idle" /\ op' = None /\ target' = None
            \/ phase' = "load" /\ UNCHANGED <<op, target>>
      \/ /\ op \in {"new", "close"} /\ UNCHANGED <<op, target>>
         /\ phase' \in {"killed", "purge"} /\ cursor' = 1
  BY DEF SaveDone, Return, Goto, GotoKilled
<1>4. ControlStep
  BY <1>2, <1>3, GuiMirrorAssumption
     DEF IInv, TypeOK, Waits, Runs, Ops, Control, ControlStep, Loading
<1> QED
  BY <1>1, <1>4, Kept

\* Abort and the daemon's own end keep the invariant.
LEMMA AbortOrQuitKept ==
    ASSUME IInv, NEW o \in {"close", "quit"}, AbortOrQuit(o)
    PROVE  IInv'
<1>1. ListStep
  BY ListSame, QuitList DEF AbortOrQuit
<1>2. /\ o = "quit" \/ op = None
      /\ UNCHANGED <<session_path, session_name, clicks>>
  BY DEF AbortOrQuit, SameSession
<1>3. op' = o /\ target' = None /\ wanted' = <<>>
  BY DEF AbortOrQuit
<1>4. /\ phase' \in {"gone", "killed", "purge"}
      /\ cursor' \in {1, cursor}
  BY DEF AbortOrQuit, Goto, GotoKilled
<1>5. ControlStep
  BY <1>2, <1>3, <1>4, GuiMirrorAssumption
     DEF IInv, TypeOK, Waits, Runs, Ops, Control, ControlStep, Loading
<1> QED
  BY <1>1, <1>5, Kept

\* The end of the wait for the clients to die keeps the invariant.
LEMMA KilledDoneKept ==
    ASSUME IInv, KilledDone
    PROVE  IInv'
<1>1. ListStep
  BY ListSame DEF KilledDone
<1>2. /\ phase = "killed" /\ phase' = "purge" /\ cursor' = 1
      /\ UNCHANGED <<session_path, session_name, op, target, wanted, clicks>>
  BY DEF KilledDone, SameSession, Goto
<1>3. ControlStep
  BY <1>2, GuiMirrorAssumption
     DEF IInv, TypeOK, Waits, Runs, Ops, Control, ControlStep, Loading
<1> QED
  BY <1>1, <1>3, Kept

\* Removing one inactive client while a session closes keeps the invariant.
LEMMA PurgeStepKept ==
    ASSUME IInv, PurgeStep
    PROVE  IInv'
<1> DEFINE c == client[cursor]
<1>1. cursor \in DOMAIN client /\ c \in ClientRecords
  BY DEF IInv, TypeOK, PurgeStep
<1>2. SameGui /\ UNCHANGED <<session_path, session_name, phase, op, target, wanted, clicks, amiss>>
  BY DEF PurgeStep, SameSession
<1>3. ListStep
  <2>1. CASE c.active
    BY <1>2, <2>1, ListSame DEF PurgeStep
  <2>2. CASE ~c.active
    <3>1. client' = RemoveAt(client, cursor) /\ Send(<<StatusOf(c.id, "removed")>>)
      BY <2>2 DEF PurgeStep
    <3> QED
      BY <1>1, <1>2, <3>1, RemoveReport, ListRemoved
  <2> QED
    BY <2>1, <2>2
<1>4. cursor' \in Nat \ {0}
  BY DEF IInv, TypeOK, PurgeStep, NextPos
<1>5. ControlStep
  BY <1>2, <1>4 DEF IInv, TypeOK, Control, ControlStep, Loading
<1> QED
  BY <1>3, <1>5, Kept

\* The end of purge_inactive_clients keeps the invariant.
LEMMA PurgeEndKept ==
    ASSUME IInv, PurgeEnd
    PROVE  IInv'
<1>1. ListStep
  BY ListSame DEF PurgeEnd
<1>2. /\ phase = "purge" /\ cursor' = 1
      /\ phase' = IF op = "open" THEN "switch" ELSE "clear"
      /\ UNCHANGED <<session_path, session_name, op, target, wanted, clicks>>
  BY DEF PurgeEnd, SameSession, Goto
<1>3. ControlStep
  BY <1>2, GuiMirrorAssumption
     DEF IInv, TypeOK, Waits, Runs, Ops, Control, ControlStep, Loading
<1> QED
  BY <1>1, <1>3, Kept

\* Removing one client while a session is cleared keeps the invariant.
LEMMA ClearStepKept ==
    ASSUME IInv, ClearStep
    PROVE  IInv'
<1>1. cursor \in DOMAIN client
  BY DEF IInv, TypeOK, ClearStep
<1>2. SameGui /\ UNCHANGED <<session_path, session_name, phase, op, target, wanted, channel, clicks>>
  BY DEF ClearStep, SameSession
<1>3. ListStep
  BY <1>1, <1>2, ListCleared DEF ClearStep
<1>4. cursor' \in Nat \ {0}
  BY DEF IInv, TypeOK, ClearStep, NextPos
<1>5. ControlStep
  BY <1>2, <1>4 DEF IInv, TypeOK, Control, ControlStep, Loading
<1> QED
  BY <1>3, <1>5, Kept
\* nsmd tells the name of the session that is open now.
LEMMA NamedKept ==
    ASSUME IInv, SameGui, UNCHANGED <<client, clicks, wanted>>, cursor' \in {1, cursor},
           NEW s \in Sessions \cup {None}, Rename(s), session_path' = s, session_name' = s,
           target' \in Sessions \cup {None}, phase' \in Waits \cup Runs,
           op' \in Ops \cup {None}, Control'
    PROVE  IInv'
<1>1. TypeOK /\ Caught \in Views /\ None \notin Ids
  BY CatchType, GuiMirrorAssumption DEF IInv, TypeOK, Caught
<1>2. /\ <<SessionName(s)>> \in Seq(Messages) /\ Catch(Caught, <<SessionName(s)>>).session = s
      /\ \A cl, id : Mirrors(Caught, cl, id) => Mirrors(Catch(Caught, <<SessionName(s)>>), cl, id)
  BY <1>1, MirrorsNamed
<1>3. /\ channel' \in Seq(Messages)
      /\ ~gui => channel' = channel
      /\ gui => Caught' = Catch(Caught, <<SessionName(s)>>)
  BY <1>1, <1>2, Sent DEF Rename
<1>4. TypeOK'
  BY <1>3 DEF IInv, TypeOK, SameGui, Rename
<1>5. ClientsSane'
  BY DEF IInv, ClientsSane
<1>6. Alone'
  BY <1>3 DEF IInv, Alone, SameGui, Rename
<1>7. NameShown'
  BY <1>2, <1>3 DEF NameShown, SameGui
<1>8. Mirrored'
  <2>1. ASSUME gui, NEW id \in Ids \ amiss PROVE Mirrors(Caught', client', id)
    BY <1>2, <1>3, <2>1 DEF IInv, Mirrored
  <2>2. Ids \ amiss' = Ids \ amiss
    BY <1>1 DEF Rename
  <2> QED
    BY <2>1, <2>2 DEF Mirrored, SameGui
<1> QED
  BY <1>4, <1>5, <1>6, <1>7, <1>8 DEF IInv

\* The end of a close keeps the invariant.
LEMMA ClosedKept ==
    ASSUME IInv, Closed
    PROVE  IInv'
<1>1. /\ session_path' = None /\ session_name' = None /\ Rename(None) /\ cursor' = 1
      /\ SameGui /\ UNCHANGED <<client, wanted, clicks>>
  BY DEF Closed
<1>2. /\ phase = "clear"
      /\ \/ op = "new" /\ phase' = "create" /\ UNCHANGED <<op, target>>
         \/ op = "quit" /\ phase' = "gone" /\ UNCHANGED <<op, target>>
         \/ phase' = "idle" /\ op' = None /\ target' = None
  BY DEF Closed, Goto, Return
<1>3. /\ target' \in Sessions \cup {None} /\ phase' \in Waits \cup Runs
      /\ op' \in Ops \cup {None}
  BY <1>2 DEF IInv, TypeOK, Waits, Runs
<1>4. Control'
  BY <1>1, <1>2, GuiMirrorAssumption DEF IInv, Ops, Control, Loading
<1> QED
  BY <1>1, <1>3, <1>4, NamedKept

\* Making a new session keeps the invariant.
LEMMA CreateKept ==
    ASSUME IInv, Create
    PROVE  IInv'
<1>1. /\ phase = "create" /\ phase' = "idle" /\ op' = None /\ target' = None
      /\ SameGui /\ UNCHANGED <<client, wanted, cursor, clicks>>
  BY DEF Create, Return, Goto
<1>2. op = "new" /\ target \in Sessions
  BY <1>1 DEF IInv, Control
<1>3. /\ target' \in Sessions \cup {None} /\ phase' \in Waits \cup Runs
      /\ op' \in Ops \cup {None}
  BY <1>1 DEF Waits
<1>4. CASE SameSession /\ UNCHANGED <<channel, amiss>>
  <2>1. ListStep
    BY <1>1, <1>4, ListSame
  <2>2. ControlStep
    BY <1>1, <1>2, <1>3, <1>4, GuiMirrorAssumption
       DEF IInv, TypeOK, Ops, Control, ControlStep, Loading, SameSession
  <2> QED
    BY <2>1, <2>2, Kept
<1>5. CASE session_path' = target /\ session_name' = target /\ Rename(target)
  <2>1. Control'
    BY <1>1, <1>2, <1>5, GuiMirrorAssumption DEF IInv, Ops, Control, Loading
  <2> QED
    BY <1>1, <1>2, <1>3, <1>5, <2>1, NamedKept
<1> QED
  BY <1>4, <1>5 DEF Create

----------------------------------------------------------------------------
(* load_session_file                                                       *)

LEMMA LoadFailsKept ==
    ASSUME IInv, LoadFails
    PROVE  IInv'
<1>1. ListStep
  BY ListSame DEF LoadFails
<1>2. /\ phase = "load" /\ phase' = "idle" /\ op' = None /\ target' = None
      /\ session_name' \in {session_name, target}
      /\ UNCHANGED <<session_path, wanted, cursor, clicks>>
  BY DEF LoadFails, Return, Goto
<1>3. ControlStep
  BY <1>2, GuiMirrorAssumption
     DEF IInv, TypeOK, Waits, Runs, Ops, Control, ControlStep, Loading
<1> QED
  BY <1>1, <1>3, Kept

\* Reading the session file keeps the invariant.
LEMMA LoadBeginKept ==
    ASSUME IInv, NEW entries \in Contents, LoadBegin(entries)
    PROVE  IInv'
<1>1. ListStep
  BY QuitList DEF LoadBegin
<1>2. /\ phase = "load" /\ phase' \in {"killed", "purge"} /\ cursor' = 1
      /\ session_path' = target /\ session_name' = target /\ wanted' = entries
      /\ UNCHANGED <<op, target, clicks>>
  BY DEF LoadBegin, GotoKilled, Goto
<1>3. entries \in Seq(Entries)
  BY GuiMirrorAssumption
<1>4. ControlStep
  BY <1>2, <1>3, GuiMirrorAssumption
     DEF IInv, TypeOK, Waits, Runs, Ops, Control, ControlStep, Loading
<1> QED
  BY <1>1, <1>4, Kept

\* Both kinds of step serve the first of the clients that are wanted.
LEMMA ServedKept ==
    ASSUME IInv, ListStep, wanted # <<>>, wanted' = Tail(wanted),
           UNCHANGED <<session_path, session_name, phase, op, target, cursor, clicks>>
    PROVE  IInv'
<1>1. wanted' \in Seq(Entries)
  BY DEF IInv, TypeOK
<1>2. ControlStep
  BY <1>1 DEF IInv, TypeOK, Control, ControlStep, Loading
<1> QED
  BY <1>2, Kept

\* Switching one client to the new session keeps the invariant.
LEMMA SwitchClientKept ==
    ASSUME IInv, SwitchClient
    PROVE  IInv'
<1>1. /\ wanted # <<>> /\ wanted' = Tail(wanted) /\ SameGui
      /\ UNCHANGED <<session_path, session_name, phase, op, target, cursor, clicks>>
  BY DEF SwitchClient, SameSession
<1> DEFINE new == Head(wanted).id
           others(i) == {client[j].id : j \in DOMAIN client \ {i}}
<1>2. PICK i \in DOMAIN client :
         /\ client[i].pending = "NONE"
         /\ client' = [client EXCEPT ![i].id = new, ![i].pending = "BUSY",
                                     ![i].status = "up"]
         /\ Send(<<StatusOf(new, "up"), SwitchTo(client[i].id, new)>>)
         /\ IF client[i].active /\ {client[i].id, new} \cap (others(i) \cup amiss) = {}
            THEN UNCHANGED amiss ELSE Misled({client[i].id, new})
  BY DEF SwitchClient
<1> DEFINE c == client[i]
           d == [c EXCEPT !.id = new, !.pending = "BUSY", !.status = "up"]
<1>3. c \in ClientRecords /\ client \in Seq(ClientRecords) /\ Sane(c)
  BY DEF IInv, TypeOK, ClientsSane
<1>4. new \in Ids
  <2>1. Head(wanted) \in Entries
    BY <1>1 DEF IInv, TypeOK
  <2> QED
    BY <2>1 DEF Entries
<1>5. client' = [client EXCEPT ![i] = d]
  BY <1>2, <1>3
<1>6. c.id \in Ids
  BY <1>3, ClientFacts
<1> HIDE DEF new
<1>7. /\ d \in ClientRecords /\ d.id = new /\ d.prog = c.prog /\ d.smart = c.smart
      /\ d.status = "up"
  BY <1>3, <1>4 DEF ClientRecords, Status
<1> HIDE DEF d
<1>8. Sane(d)
  BY <1>7 DEF Sane
<1>9. /\ amiss \subseteq amiss' /\ amiss' \subseteq amiss \cup Ids
      /\ ~gui => amiss' = amiss
  BY <1>2, <1>4, <1>6 DEF Misled
<1>10. Send(<<StatusOf(d.id, "up"), SwitchTo(client[i].id, d.id)>>)
  BY <1>2, <1>7
<1>11. \/ gui => {c.id, d.id} \subseteq amiss'
       \/ /\ c.status = "up" /\ {c.id, d.id} \cap amiss = {}
          /\ \A j \in DOMAIN client \ {i} : client[j].id \notin {c.id, d.id}
  <2>1. CASE c.active /\ {c.id, new} \cap (others(i) \cup amiss) = {}
    <3>1. c.status = "up"
      BY <1>2, <1>3, <2>1 DEF Sane, ClientRecords, Status
    <3>2. \A j \in DOMAIN client \ {i} : client[j].id \notin {c.id, new}
      BY <2>1
    <3> QED
      BY <1>7, <2>1, <3>1, <3>2
  <2>2. CASE Misled({c.id, new})
    BY <1>7, <2>2 DEF Misled
  <2> QED
    BY <1>2, <2>1, <2>2
<1>12. ListStep
  BY <1>1, <1>5, <1>7, <1>8, <1>9, <1>10, <1>11, ListSwitched
<1> QED
  BY <1>1, <1>12, ServedKept

\* Launching one client of the new session keeps the invariant.
LEMMA LaunchClientKept ==
    ASSUME IInv, LaunchClient
    PROVE  IInv'
<1>1. /\ wanted # <<>> /\ wanted' = Tail(wanted) /\ SameGui /\ UNCHANGED amiss
      /\ UNCHANGED <<session_path, session_name, phase, op, target, cursor, clicks>>
      /\ Launch(Head(wanted).prog, Head(wanted).id)
  BY DEF LaunchClient, SameSession
<1>2. Head(wanted) \in Entries
  BY <1>1 DEF IInv, TypeOK
<1>3. Head(wanted).prog \in Progs /\ Head(wanted).id \in Ids
  BY <1>2 DEF Entries
<1>4. ListStep
  BY <1>1, <1>3, LaunchList
<1> QED
  BY <1>1, <1>4, ServedKept

\* The end of the loop over the entries keeps the invariant.
LEMMA SwitchEndKept ==
    ASSUME IInv, SwitchEnd
    PROVE  IInv'
<1>1. ListStep
  BY ListSame DEF SwitchEnd
<1>2. /\ phase = "switch" /\ phase' = "opening"
      /\ UNCHANGED <<session_path, session_name, op, target, wanted, cursor, clicks>>
  BY DEF SwitchEnd, SameSession, Goto
<1>3. ControlStep
  BY <1>2, GuiMirrorAssumption
     DEF IInv, TypeOK, Waits, Runs, Ops, Control, ControlStep, Loading
<1> QED
  BY <1>1, <1>3, Kept

\* The end of a load keeps the invariant.
LEMMA LoadEndKept ==
    ASSUME IInv, LoadEnd
    PROVE  IInv'
<1>1. /\ phase = "opening" /\ phase' = "idle" /\ op' = None /\ target' = None
      /\ Rename(session_name) /\ SameGui
      /\ UNCHANGED <<client, wanted, cursor, clicks, session_path, session_name>>
  BY DEF LoadEnd, SameSession, Return, Goto
<1>2. session_path = session_name /\ session_name \in Sessions \cup {None}
  BY <1>1 DEF IInv, TypeOK, Control, Loading
<1>3. /\ target' \in Sessions \cup {None} /\ phase' \in Waits \cup Runs
      /\ op' \in Ops \cup {None}
  BY <1>1 DEF Waits
<1>4. Control'
  BY <1>1, <1>2, GuiMirrorAssumption DEF IInv, Ops, Control, Loading
<1> QED
  BY <1>1, <1>2, <1>3, <1>4, NamedKept
----------------------------------------------------------------------------
(* The GUI                                                                 *)

\* Nothing of nsmd changes, and of the rest nothing that its invariant is about.
LEMMA SameDaemon ==
    ASSUME IInv, UNCHANGED daemon
    PROVE  ClientsSane' /\ Control' /\ (Loading' <=> Loading)
BY DEF IInv, ClientsSane, Control, Loading, daemon

\* The GUI handles the first message: what it will show stays as it is.
LEMMA OscHandlerKept ==
    ASSUME IInv, osc_handler
    PROVE  IInv'
<1>1. /\ channel # <<>> /\ view' = Handled(view, Head(channel)) /\ channel' = Tail(channel)
      /\ UNCHANGED <<gui, clicks, amiss>> /\ UNCHANGED daemon
  BY DEF osc_handler
<1>2. view \in Views /\ channel \in Seq(Messages) /\ gui
  BY <1>1 DEF IInv, TypeOK, Alone
<1>3. Head(channel) \in Messages /\ channel' \in Seq(Messages)
  BY <1>1, <1>2
<1>4. view' \in Views
  BY <1>1, <1>2, <1>3, HandledType
<1>5. Caught' = Caught
  <2>1. Catch(view, channel) = Catch(Handled(view, Head(channel)), Tail(channel))
    BY <1>1, <1>2, CatchHead
  <2> QED
    BY <1>1, <2>1 DEF Caught
<1>6. TypeOK'
  BY <1>1, <1>3, <1>4 DEF IInv, TypeOK, daemon
<1>7. Alone'
  BY <1>1, <1>2 DEF Alone
<1>8. NameShown' /\ Mirrored'
  BY <1>1, <1>5, SameDaemon DEF IInv, NameShown, Mirrored, daemon
<1> QED
  BY <1>1, <1>6, <1>7, <1>8, SameDaemon DEF IInv

\* A click on the Remove button keeps the invariant.
LEMMA CbButtonKept ==
    ASSUME IInv, cb_button
    PROVE  IInv'
<1>1. SameGui /\ UNCHANGED <<channel, amiss>> /\ UNCHANGED daemon
  BY DEF cb_button, SameGui
<1>2. ListStep
  BY <1>1, ListSame DEF daemon
<1>3. PICK k \in DOMAIN view.widgets, b \in Buttons :
         clicks' = Append(clicks, [button |-> b, id |-> view.widgets[k].id])
  BY DEF cb_button, Buttons
<1>4. view.widgets[k].id \in Ids
  BY ViewFacts DEF IInv, TypeOK, Views, Widgets
<1>5. clicks' \in Seq([button : Buttons, id : Ids])
  <2>1. clicks \in Seq([button : Buttons, id : Ids])
    BY DEF IInv, TypeOK
  <2> QED
    BY <1>3, <1>4, <2>1
<1>6. SameControl
  BY <1>1 DEF SameControl, SameSession, daemon
<1> QED
  BY <1>2, <1>5, <1>6, ByTheWayKept

\* A window that leaves keeps the invariant.
LEMMA GuiLeavesKept ==
    ASSUME IInv, GuiLeaves
    PROVE  IInv'
<1>1. /\ gui' = FALSE /\ channel' = <<>> /\ view' = Blank /\ amiss' = {}
      /\ UNCHANGED clicks /\ UNCHANGED daemon
  BY DEF GuiLeaves
<1>2. channel' \in Seq(Messages) /\ view' \in Views
  BY <1>1, BlankFacts
<1>3. TypeOK'
  BY <1>1, <1>2 DEF IInv, TypeOK, daemon
<1>4. Alone' /\ NameShown' /\ Mirrored'
  BY <1>1 DEF Alone, NameShown, Mirrored
<1> QED
  BY <1>1, <1>3, <1>4, SameDaemon DEF IInv

\* A GUI announces itself and is told the name and, if there is one, the clients.
LEMMA AnnounceGuiKept ==
    ASSUME IInv, announce_gui
    PROVE  IInv'
<1>1. /\ ~gui /\ SameSession
      /\ UNCHANGED <<client, op, target, wanted, cursor, view, clicks>>
  BY DEF announce_gui
<1>2. channel = <<>> /\ view = Blank /\ amiss = {} /\ TypeOK /\ ClientsSane /\ Control
  BY <1>1 DEF IInv, Alone
<1>3. CASE session_name # None /\ session_path = None
  <2>1. phase' = "gone" /\ UNCHANGED <<gui, channel, amiss>>
    BY <1>3 DEF announce_gui, Goto
  <2>2. ListStep
    BY <1>1, <2>1, ListSame DEF SameGui
  <2>3. TypeOK' /\ ClientsSane' /\ Alone'
    BY <1>1, <1>2, <2>1 DEF TypeOK, Runs, ClientsSane, Alone, SameSession
  <2>4. Control'
    BY <1>1, <1>2, <2>1 DEF Control, Loading, SameSession
  <2>5. NameShown' /\ Mirrored'
    BY <1>1, <2>1 DEF NameShown, Mirrored
  <2> QED
    BY <2>3, <2>4, <2>5 DEF IInv
<1>4. CASE ~(session_name # None /\ session_path = None)
  <2> DEFINE all == FlattenSeq([i \in DOMAIN client |-> AllOf(client[i])])
             told == IF session_name = None THEN <<>> ELSE all
  <2>1. /\ gui' = TRUE /\ phase' = phase
        /\ channel' = IF session_name = None THEN <<SessionName(None)>>
                      ELSE all \o <<SessionName(session_name)>>
        /\ amiss' = IF session_name = None THEN {client[i].id : i \in DOMAIN client}
                    ELSE Shared \cup (IF session_name = session_path THEN {} ELSE {None})
    BY <1>4 DEF announce_gui
  <2>2. client \in Seq(ClientRecords) /\ session_name \in Sessions \cup {None}
    BY <1>2 DEF TypeOK
  <2>3. /\ Blank \in Views /\ Blank.session = None
        /\ \A id : Seen(Blank, id, Nothing)
    BY BlankFacts
  <2>4. ASSUME NEW id \in Ids, \A i, j \in DOMAIN client :
                                  client[i].id = id /\ client[j].id = id => i = j
        PROVE  Mirrors(Catch(Blank, all), client, id)
    BY <1>2, <2>2, <2>4, MirrorsAnnounced DEF ClientsSane
  <2>5. all \in Seq(Messages)
    <3>1. ASSUME NEW i \in DOMAIN client PROVE AllOf(client[i]) \in Seq(Messages)
      BY <1>2, <2>2, AllReport DEF ClientsSane, Reports
    <3>2. Len(client) \in Nat /\ DOMAIN client = 1..Len(client)
      BY <2>2
    <3>3. [i \in DOMAIN client |-> AllOf(client[i])] \in [1..Len(client) -> Seq(Messages)]
      BY <3>1, <3>2
    <3> QED
      BY <3>2, <3>3, FlattenSeqType
  <2> HIDE DEF all
  <2>6. told \in Seq(Messages) /\ <<SessionName(session_name)>> \in Seq(Messages)
    <3>1. SessionName(session_name) \in Messages
      BY <2>2, MessageTypes
    <3>2. <<>> \in Seq(Messages) /\ <<SessionName(session_name)>> \in Seq(Messages)
      BY <3>1
    <3> QED
      BY <2>5, <3>2
  <2>7. /\ channel' = told \o <<SessionName(session_name)>>
        /\ (session_name = None => told = <<>>) /\ (session_name # None => told = all)
    <3>1. <<>> \o <<SessionName(session_name)>> = <<SessionName(session_name)>>
      OBVIOUS
    <3> QED
      BY <2>1, <3>1
  <2> HIDE DEF told
  <2>8. channel' \in Seq(Messages)
    BY <2>6, <2>7, ConcatProperties
  <2> DEFINE shown == Catch(Blank, told)
  <2>9. shown \in Views
    BY <2>3, <2>6, CatchType
  <2>10. Caught' = Catch(shown, <<SessionName(session_name)>>)
    <3>1. Catch(Blank, told \o <<SessionName(session_name)>>) = Catch(shown, <<SessionName(session_name)>>)
      BY <2>3, <2>6, CatchConcat
    <3> QED
      BY <1>1, <1>2, <2>7, <3>1 DEF Caught
  <2> HIDE DEF shown
  <2>11. /\ Caught'.session = session_name
         /\ \A id : Mirrors(shown, client, id) => Mirrors(Caught', client, id)
    BY <2>2, <2>9, <2>10, MirrorsNamed
  <2>12. ASSUME NEW id \in Ids \ amiss' PROVE Mirrors(shown, client, id)
    <3>1. CASE session_name = None
      <4>1. NoneHas(client, id)
        BY <2>1, <2>12, <3>1 DEF NoneHas
      <4>2. shown = Blank
        BY <2>3, <2>7, <3>1, CatchNothing DEF shown
      <4> QED
        BY <2>3, <4>1, <4>2 DEF Mirrors
    <3>2. CASE session_name # None
      <4>1. ASSUME NEW i \in DOMAIN client, NEW j \in DOMAIN client,
                   client[i].id = id, client[j].id = id, i # j
            PROVE  FALSE
        <5> DEFINE p == <<i, j>>
        <5>1. id \in Shared
          <6>1. p \in (DOMAIN client) \X (DOMAIN client) /\ p[1] = i /\ p[2] = j
            OBVIOUS
          <6> HIDE DEF p
          <6> QED
            BY <4>1, <6>1 DEF Shared
        <5> QED
          BY <2>1, <2>12, <3>2, <5>1
      <4>2. Mirrors(Catch(Blank, all), client, id)
        BY <2>4, <2>12, <4>1
      <4> QED
        BY <2>7, <3>2, <4>2 DEF shown
    <3> QED
      BY <3>1, <3>2
  <2>13. amiss' \subseteq Ids \cup {None}
    <3>1. \A i \in DOMAIN client : client[i].id \in Ids
      BY <2>2, ClientFacts
    <3>2. Shared \subseteq Ids
      BY <3>1 DEF Shared
    <3> QED
      BY <2>1, <3>1, <3>2
  <2>14. TypeOK'
    BY <1>1, <1>2, <2>1, <2>8, <2>13 DEF TypeOK, SameSession
  <2>15. ClientsSane' /\ Alone'
    BY <1>1, <1>2, <2>1 DEF ClientsSane, Alone
  <2>16. Control'
    BY <1>1, <1>2, <2>1 DEF Control, Loading, SameSession
  <2>17. NameShown'
    <3>1. None \notin amiss' => session_name = session_path
      BY <1>2, <1>4, <2>1 DEF Control
    <3> QED
      BY <1>1, <2>11, <3>1 DEF NameShown, SameSession
  <2>18. Mirrored'
    BY <1>1, <2>11, <2>12 DEF Mirrored
  <2> QED
    BY <2>14, <2>15, <2>16, <2>17, <2>18 DEF IInv
<1> QED
  BY <1>3, <1>4

----------------------------------------------------------------------------
(* Theorems                                                                *)

LEMMA InitInvariant ==
    ASSUME Init
    PROVE  IInv
<1>1. /\ SessionName(None) \in Messages /\ <<>> \in Seq(Messages) /\ <<SessionName(None)>> \in Seq(Messages)
      /\ Blank \in Views /\ Blank.session = None /\ \A id : Seen(Blank, id, Nothing)
  BY MessageTypes, BlankFacts
<1>2. TypeOK
  <2>1. /\ client \in Seq(ClientRecords) /\ wanted \in Seq(Entries)
        /\ clicks \in Seq([button : Buttons, id : Ids])
    BY DEF Init
  <2>2. channel \in Seq(Messages) /\ view \in Views /\ gui \in BOOLEAN
    BY <1>1 DEF Init
  <2> QED
    BY <2>1, <2>2 DEF Init, TypeOK, Waits
<1>3. ClientsSane /\ Alone /\ Control
  BY GuiMirrorAssumption DEF Init, ClientsSane, Alone, Control, Loading, Ops
<1>4. ASSUME gui
      PROVE  /\ Caught.session = None
             /\ \A id : Mirrors(Caught, client, id)
  <2>1. Caught = Catch(Blank, <<SessionName(None)>>) /\ client = <<>>
    BY <1>4 DEF Init, Caught
  <2>2. \A id : Mirrors(Blank, client, id)
    BY <1>1, <2>1 DEF Mirrors, NoneHas
  <2> QED
    BY <1>1, <2>1, <2>2, MirrorsNamed
<1>5. NameShown /\ Mirrored
  BY <1>4 DEF Init, NameShown, Mirrored
<1> QED
  BY <1>2, <1>3, <1>5 DEF IInv

\* Every step keeps the invariant.
LEMMA NextInvariant ==
    ASSUME IInv, [Next]_vars
    PROVE  IInv'
<1>1. CASE Operation
  <2>1. ASSUME NEW s \in Sessions, Open(s) PROVE IInv'
    BY <2>1, BeginKept DEF Open
  <2>2. ASSUME NEW s \in Sessions, NewSession(s) PROVE IInv'
    BY <2>2, BeginKept DEF NewSession
  <2>3. ASSUME Close PROVE IInv'
    BY <2>3, BeginKept DEF Close
  <2> QED
    BY <1>1, <2>1, <2>2, <2>3, SaveKept, AbortOrQuitKept DEF Operation
<1>2. CASE Daemon
  BY <1>2, SaveDoneKept, KilledDoneKept, PurgeStepKept, PurgeEndKept, ClearStepKept,
     ClosedKept, CreateKept, LoadFailsKept, LoadBeginKept, SwitchClientKept,
     LaunchClientKept, SwitchEndKept, LoadEndKept DEF Daemon
<1>3. CASE Clients
  BY <1>3, AddKept, AnnounceKept, AnswerKept, DiesKept DEF Clients
<1>4. CASE Gui
  BY <1>4, OscHandlerKept, CbButtonKept, GuiLeavesKept, AnnounceGuiKept, StopKept,
     RemoveKept, ResumeKept, ClientSaveKept DEF Gui
<1>5. CASE UNCHANGED vars
  <2>1. SameGui /\ SameControl /\ UNCHANGED <<client, channel, amiss, clicks>>
    BY <1>5 DEF vars, SameGui, SameControl, SameSession
  <2>2. ListStep
    BY <2>1, ListSame
  <2> QED
    BY <2>1, <2>2, ByTheWayKept DEF IInv, TypeOK
<1> QED
  BY <1>1, <1>2, <1>3, <1>4, <1>5 DEF Next, Idle

\* The invariant of nsmd and a GUI.
THEOREM MirrorInvariant == Spec => []IInv
<1>1. Init => IInv
  BY InitInvariant
<1>2. IInv /\ [Next]_vars => IInv'
  BY NextInvariant
<1> QED
  BY <1>1, <1>2, PTL DEF Spec

\* The variables always have their types: whatever nsmd sends is a message the GUI
\* knows how to read, and what it makes of it is something it can show.
THEOREM TypeCorrect == Spec => []TypeOK
<1>1. IInv => TypeOK
  BY DEF IInv
<1> QED
  BY <1>1, MirrorInvariant, PTL

\* Between operations a GUI shows the session that is open, or will when it has
\* handled what nsmd has sent it; a load may have been refused before it came.
THEOREM SessionIsShown == Spec => []SessionShown
<1>1. IInv => SessionShown
  BY GuiMirrorAssumption DEF IInv, NameShown, SessionShown, Loading, Ops
<1> QED
  BY <1>1, MirrorInvariant, PTL

\* However long the list of clients and however many messages are in flight, a GUI
\* that handles them shows the clients of nsmd, whatever happened between.
THEOREM ListIsMirrored == Spec => []MirrorOfClients
<1>1. IInv => MirrorOfClients
  <2>1. ASSUME Mirrored, gui, NEW id \in Ids \ amiss PROVE Mirrors(Caught, client, id)
    BY <2>1 DEF Mirrored
  <2> QED
    BY <2>1, MirrorsMeans DEF IInv, MirrorOfClients
<1> QED
  BY <1>1, MirrorInvariant, PTL

=============================================================================
