---------------------------- MODULE MCGuiMirror -----------------------------
(* Constants for the model checking of GuiMirror.                          *)
EXTENDS GuiMirror, TLC

CONSTANTS a, b, sw, swname, pl, i1, i2

\* The program that announces itself does so under a name that is not its
\* executable's; that of the other is never heard.
MCPretty == [prog \in {sw, pl} |-> IF prog = sw THEN swname ELSE pl]

Entry(prog, id) == [name |-> MCPretty[prog], prog |-> prog, id |-> id]

\* Sessions with one client of each program.
MCContents == {<<Entry(pl, p[1]), Entry(sw, p[2])>> : p \in {<<i1, i2>>, <<i2, i1>>}}

\* Behaviours are followed until the GUI is wrong about every id. The user asks for
\* another session than the one that is open and, when a load was refused, tries
\* again before doing anything else that changes sessions.
Followed ==
    /\ ~(Ids \subseteq amiss)
    /\ op = "new" \/ phase \in {"saving", "load"} => target # session_path
    /\ session_name # session_path => op \in {None, "open"}

Symmetry == Permutations(Ids) \cup Permutations(Sessions)
=============================================================================
