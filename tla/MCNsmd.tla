------------------------------- MODULE MCNsmd -------------------------------
(* Constants for the model checking of Nsmd.                               *)
EXTENDS Nsmd

CONSTANTS a, b, c, f, sw, pl, swname, i1, i2, i3, i4

\* One program announces itself by another name than its executable's.
Announced == [prog \in Progs |-> IF prog = sw THEN swname ELSE prog]

\* What a save writes of a client that has announced itself.
Entry(prog, id) == [name |-> Pretty[prog], prog |-> prog, id |-> id]

\* Two saved sessions that need the switch-capable program, with ids of their
\* own, one that another nsmd holds, and no c.
SwitchFiles ==
    [s \in Sessions |->
        CASE s = a -> <<Entry(sw, i1)>>
          [] s = b -> <<Entry(pl, i1), Entry(sw, i2)>>
          [] s = f -> <<>>
          [] OTHER -> Absent]

\* A session with one client, an empty one, and no c.
TemplateFiles ==
    [s \in Sessions |->
        CASE s = a -> <<Entry(pl, i1)>>
          [] s = b -> <<>>
          [] OTHER -> Absent]

\* A session with three instances of one program, one with the last of them.
TripletFiles ==
    [s \in Sessions |->
        CASE s = a -> <<Entry(sw, i1), Entry(sw, i2), Entry(sw, i3)>>
          [] s = b -> <<Entry(sw, i3)>>
          [] OTHER -> Absent]

\* Two sessions that need two instances of one program each.
TwinFiles ==
    [s \in Sessions |->
        CASE s = a -> <<Entry(sw, i1), Entry(sw, i2)>>
          [] s = b -> <<Entry(sw, i3), Entry(sw, i4)>>
          [] OTHER -> Absent]
=============================================================================
