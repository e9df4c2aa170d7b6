---------------------------- MODULE MCJackpatch ----------------------------
(***************************************************************************)
(* Small instances of Jackpatch: an output, an input, a project with a     *)
(* file and, in some runs, one without.                                    *)
(***************************************************************************)
EXTENDS Jackpatch, TLC

CONSTANTS out, in1, p1, p2

\* A file that was edited by hand: a line of each kind.  The "||" line is
\* written with its output first, so that the record with the uninitialized
\* member is the one JACK refuses anyway.
EveryKind == {[left |-> out, dir |-> ">", right |-> in1],
              [left |-> in1, dir |-> "<", right |-> out],
              [left |-> out, dir |-> "|", right |-> in1]}
OneLine == {[left |-> out, dir |-> ">", right |-> in1]}

DiskAll == (p1 :> EveryKind) @@ (p2 :> NoFile)
DiskOne == (p1 :> OneLine)
DiskNone == (p1 :> NoFile)

=============================================================================
