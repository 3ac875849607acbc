--------------------------- MODULE MCJsonService ----------------------------
(***************************************************************************)
(* JsonService for TLC: the code's ring of four buffers and two rounds of  *)
(* it.  The number of telegrams sent late is bounded by those released.    *)
(***************************************************************************)
EXTENDS JsonService
=============================================================================
