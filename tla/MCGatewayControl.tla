-------------------------- MODULE MCGatewayControl --------------------------
(***************************************************************************)
(* GatewayControl for TLC, with the transceiver modes of a start without   *)
(* option -X.                                                              *)
(***************************************************************************)
EXTENDS GatewayControl, TLC

DefaultModes == [m \in Modes |-> IF m = "Register" THEN "ERP2" ELSE "ERP1"]
AllCommands == DOMAIN Script
Symmetry == Permutations(Ids)
=============================================================================
