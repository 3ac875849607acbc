--------------------------- MODULE MCPacketQueues ---------------------------
(***************************************************************************)
(* PacketQueues with a small pool, for model checking.                     *)
(***************************************************************************)
EXTENDS PacketQueues
=============================================================================
