---------------------------- MODULE MCSessionLock ----------------------------
(* Constants for the model checking of SessionLock.                        *)
EXTENDS SessionLock, TLC

CONSTANTS a, b, c, d1, d2, song, h1, h2

\* a and b are songs of the same name in two places; c has the name and, by
\* chance, the hash of a.
MCNameOf == [s \in Sessions |-> song]
MCHashOf == [s \in Sessions |-> IF s = b THEN h2 ELSE h1]

DaemonSymmetry == Permutations(Daemons)
=============================================================================
