--------------------------- MODULE MCBlockStream ---------------------------
(* BlockStream on a small instance. *)
EXTENDS BlockStream

\* A window of two blocks, as a state file may have left it.
MCRestored == {<<StatusSigned, Statusmissed>>}
=============================================================================
