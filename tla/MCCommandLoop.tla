--------------------------- MODULE MCCommandLoop ----------------------------
(***************************************************************************)
(* The instance of CommandLoop for TLC: two commands, so that a command    *)
(* can be repeated and can come back after another one.                    *)
(***************************************************************************)
EXTENDS CommandLoop
=============================================================================
