---------------------------- MODULE MCNsmProxy ----------------------------
(* Small instances of NsmProxy. *)
EXTENDS NsmProxy

\* With a second window every property but TypeOK has nothing more to say.
OneWindow == ~doubled

=============================================================================
