---------------------------- MODULE MCReception ----------------------------
(***************************************************************************)
(* What dpride makes of damaged input, for TLC: packets from the bytes of  *)
(* the serial port, and chained telegrams from the fragments the radio     *)
(* carried.  The two share nothing, so each is explored with the other at  *)
(* rest: onWire says which.                                                *)
(*                                                                         *)
(* GetPacket has the CRC of the code, a response, and telegrams with bytes *)
(* that look like a packet's first one, one of them too long for the       *)
(* buffer.  Noise is a header of length zero whose CRC is right (of type   *)
(* 197 the CRC is a sync byte), or a lone sync byte.                       *)
(*                                                                         *)
(* Devices collide under two sequence numbers; with telegrams of three,    *)
(* one and two fragments the third comes under the number of the first.    *)
(***************************************************************************)
EXTENDS Esp3Framer, CdmReassembly, Bitwise, SequencesExt

Bytes == 0 .. 255

\* One entry of Crc8Table: the remainder of division by x^8 + x^2 + x + 1.
Crc8Entry(x) ==
    FoldLeft(LAMBDA c, i : IF c >= 128 THEN ((2 * c) % 256) ^^ 7 ELSE 2 * c,
             x, [i \in 1 .. 8 |-> i])

Crc8Table == [x \in Bytes |-> Crc8Entry(x)]
NextCrc == [crc \in Bytes |-> [b \in Bytes |-> Crc8Table[crc ^^ b]]]

Crc8(bytes) == FoldLeft(LAMBDA crc, b : NextCrc[crc][b], 0, bytes)

Packet(header, bytes) ==
    <<SYNC_CODE>> \o header \o <<Crc8(header)>> \o bytes \o <<Crc8(bytes)>>

ModulePackets ==
    { Packet(<<0, 1, 0, 2>>, <<0>>),
      Packet(<<0, 1, 1, 1>>, <<SYNC_CODE, 9>>),
      Packet(<<0, 4, 0, 1>>, <<SYNC_CODE, 1, 2, 3>>),
      Packet(<<0, 4, 1, 1>>, <<0, 1, 0, 2, 4>>) }

LineNoise ==
    { <<SYNC_CODE>>, <<SYNC_CODE, 0, 0, 0, 0, 0>>,
      <<SYNC_CODE, 0, 0, 0, 197, SYNC_CODE>> }

ThreeTelegrams == <<3, 1, 2>>

VARIABLE onWire

WireStep == onWire /\ FramerNext /\ UNCHANGED vars
RadioStep == ~onWire /\ Next /\ UNCHANGED framerVars

ReceptionInit == onWire \in BOOLEAN /\ FramerInit /\ Init
ReceptionNext == (WireStep \/ RadioStep) /\ UNCHANGED onWire
ReceptionSpec ==
    ReceptionInit /\ [][ReceptionNext]_<<onWire, framerVars, vars>>
=============================================================================
