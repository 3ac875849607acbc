----------------------------- MODULE Esp3Framer -----------------------------
(***************************************************************************)
(* GetPacket (serial.c): how ReadThread finds ESP3 packets in the bytes of *)
(* the serial port.                                                        *)
(*                                                                         *)
(*   0x55  lengths and type (4 bytes)  CRC8H  data and optional data  CRC8D *)
(*                                                                         *)
(* The state of the search, the count and the CRC are static: they outlive *)
(* a call.  The lengths and the pointer to the data are locals without     *)
(* initial values: a call that began in the middle of the data would use   *)
(* what the stack happens to hold.                                         *)
(*                                                                         *)
(* On the line bytes get lost or are altered.  How long the line is silent *)
(* matters at the begin of a call only, so the module sends the next       *)
(* packet when the bytes of the last one are read.                         *)
(***************************************************************************)
EXTENDS Naturals, Sequences, FiniteSets

CONSTANTS
    Byte,            \* what a byte may be
    Crc8Check(_),    \* the CRC of a sequence of bytes
    BufferLength,    \* ReadThread's DATABUFSIZ
    Packets,         \* the packets the module may send
    Noise,           \* bytes an undriven line may show instead of a packet
    Glitches,        \* what an altered byte may turn into
    MaxPackets,      \* bound: packets sent
    MaxFaults        \* bound: packets damaged on the line

SYNC_CODE == 85
HEADER_BYTES == 4

ASSUME FramerAssumption ==
    /\ Byte \subseteq Nat /\ SYNC_CODE \in Byte
    /\ BufferLength \in Nat
    /\ Packets \subseteq Seq(Byte) /\ Noise \subseteq Seq(Byte)
    /\ Glitches \subseteq Byte
    /\ MaxPackets \in Nat /\ MaxFaults \in Nat

Unset == 0    \* the locals of a call that has not read a header yet

VARIABLES
    wire,       \* bytes sent and not read yet
    call,       \* is ReadThread in GetPacket?
    status,     \* GetPacket: "sync", "header", "crc8h", "data" or "crc8d"
    line,       \* the header bytes stored: line[0] to line[count - 1]
    length,     \* dataLength + optionLength in this call, or Unset
    data,       \* the bytes counted from dataBuffer on
    sent,       \* packets sent
    faults,     \* packets damaged so far
    received,   \* packets returned with OK: header and data
    arrived,    \* history: numbers of the packets they were read from
    hit,        \* history: numbers of the packets that were damaged
    late,       \* history: packets whose first byte was read, then forgotten
    taken       \* history: packets whose first byte was taken for another's

inputVars == <<sent, faults, hit>>
framerVars == <<wire, call, status, line, length, data, inputVars, received,
                arrived, late, taken>>

(***************************************************************************)
(* The line.                                                               *)
(***************************************************************************)
\* A part of a packet is lost, or a byte is altered.
Cut(p) ==
    UNION {{SubSeq(p, 1, i - 1) \o SubSeq(p, j + 1, Len(p)) : j \in i .. Len(p)} :
              i \in DOMAIN p}

Altered(p) == {[p EXCEPT ![i] = b] : i \in DOMAIN p, b \in Glitches}

Damaged(p) == Cut(p) \cup Altered(p)

SendPacket(p) ==
    /\ Len(sent) < MaxPackets
    /\ sent' = Append(sent, p)
    /\ wire' = p
    /\ UNCHANGED <<call, status, line, length, data, faults, hit, received,
                   arrived, late, taken>>

SendDamaged(p, q) ==
    /\ Len(sent) < MaxPackets /\ faults < MaxFaults
    /\ faults' = faults + 1
    /\ sent' = Append(sent, p)
    /\ hit' = hit \cup {Len(sent) + 1}
    /\ wire' = q
    /\ UNCHANGED <<call, status, line, length, data, received, arrived, late,
                   taken>>

(***************************************************************************)
(* GetPacket.                                                              *)
(***************************************************************************)
\* ReadThread calls it.  If the last byte was read more than 10 ms ago, the
\* search starts again, even where the first byte of a packet was read.
GetPacket(timeout) ==
    /\ ~call
    /\ call' = TRUE
    /\ length' = Unset
    /\ status' = IF timeout THEN "sync" ELSE status
    /\ late' = IF timeout /\ status = "header" THEN late \cup {Len(sent)}
               ELSE late
    /\ UNCHANGED <<wire, line, data, inputVars, received, arrived,
                   taken>>

\* read: the next byte.
Read == call /\ wire # <<>> /\ wire' = Tail(wire) /\ UNCHANGED <<inputVars, late>>
rxByte == Head(wire)

\* The call returns something other than OK.
Return == call' = FALSE /\ UNCHANGED <<received, arrived>>
Continue == UNCHANGED <<call, received, arrived>>

\* The first byte of an undamaged packet has another place.
Misplaced ==
    taken' = IF wire = sent[Len(sent)] /\ Len(sent) \notin hit
             THEN taken \cup {Len(sent)} ELSE taken

GetSync ==
    /\ Read /\ status = "sync"
    /\ IF rxByte = SYNC_CODE THEN status' = "header" /\ line' = <<>>
       ELSE UNCHANGED <<status, line>>
    /\ Continue
    /\ UNCHANGED <<length, data, taken>>

\* The comparison is for equality: with four bytes there already the
\* header goes on without end.
GetHeader ==
    /\ Read /\ status = "header"
    /\ line' = Append(line, rxByte)
    /\ status' = IF Len(line) + 1 = HEADER_BYTES THEN "crc8h" ELSE status
    /\ Continue
    /\ UNCHANGED <<length, data, taken>>

\* Mutation of AfterSync: the sync byte is kept.
MutAfterSync ==
    LET at == CHOOSE i \in DOMAIN line :
                  line[i] = SYNC_CODE /\ \A j \in 1 .. i - 1 : line[j] # SYNC_CODE
    IN  SubSeq(line, at, Len(line))

\* What follows the first sync byte among the header bytes.
AfterSync ==
    LET at == CHOOSE i \in DOMAIN line :
                  line[i] = SYNC_CODE /\ \A j \in 1 .. i - 1 : line[j] # SYNC_CODE
    IN  SubSeq(line, at + 1, Len(line))

\* The header's CRC is wrong, and a sync byte is among its bytes: it was the
\* packet's first.
Resync ==
    /\ Read /\ status = "crc8h"
    /\ Crc8Check(line) # rxByte
    /\ \E i \in DOMAIN line : line[i] = SYNC_CODE
    /\ line' = Append(AfterSync, rxByte)
    /\ status' = IF Len(line') < HEADER_BYTES THEN "header" ELSE status
    /\ Continue
    /\ UNCHANGED <<length, data, taken>>

\* There is none.  If this byte is one, count is not set back to 0.
BadHeader ==
    /\ Read /\ status = "crc8h"
    /\ Crc8Check(line) # rxByte
    /\ \A i \in DOMAIN line : line[i] # SYNC_CODE
    /\ status' = IF rxByte = SYNC_CODE THEN "header" ELSE "sync"
    /\ Continue
    /\ UNCHANGED <<line, length, data, taken>>

LengthOf(header) == header[1] * 256 + header[2] + header[3]

GoodHeader ==
    /\ Read /\ status = "crc8h"
    /\ Crc8Check(line) = rxByte /\ LengthOf(line) # 0
    /\ status' = "data" /\ data' = <<>>
    /\ length' = LengthOf(line)
    /\ Continue
    /\ UNCHANGED <<line, taken>>

\* OUT_OF_RANGE, unless the CRC is a sync byte.
EmptyPacket ==
    /\ Read /\ status = "crc8h"
    /\ Crc8Check(line) = rxByte /\ LengthOf(line) = 0
    /\ length' = Unset
    /\ IF rxByte = SYNC_CODE THEN status' = "header" /\ line' = <<>> /\ Continue
       ELSE status' = "sync" /\ Return /\ UNCHANGED line
    /\ UNCHANGED <<data, taken>>

\* Bytes beyond BufferLength are counted, not stored.
GetData ==
    /\ Read /\ status = "data"
    /\ data' = Append(data, rxByte)
    /\ status' = IF Len(data) + 1 = length THEN "crc8d" ELSE status
    /\ Continue
    /\ Misplaced
    /\ UNCHANGED <<line, length>>

\* Mutation of TooLong: the state is not set back.
MutTooLongStays ==
    /\ Read /\ status = "crc8d"
    /\ Len(data) > BufferLength
    /\ Return
    /\ Misplaced
    /\ UNCHANGED <<status, line, length, data>>

\* BUFFER_TOO_SMALL, whatever the byte is.
TooLong ==
    /\ Read /\ status = "crc8d"
    /\ Len(data) > BufferLength
    /\ status' = "sync"
    /\ Return
    /\ Misplaced
    /\ UNCHANGED <<line, length, data>>

\* Mutation of GoodPacket: the CRC is not compared.
MutNoCrc ==
    /\ Read /\ status = "crc8d"
    /\ Len(data) <= BufferLength
    /\ status' = "sync"
    /\ received' = Append(received, [line |-> line, data |-> data])
    /\ arrived' = Append(arrived, Len(sent))
    /\ call' = FALSE
    /\ UNCHANGED <<line, length, data, taken>>

GoodPacket ==
    /\ Read /\ status = "crc8d"
    /\ Len(data) <= BufferLength /\ Crc8Check(data) = rxByte
    /\ status' = "sync"
    /\ received' = Append(received, [line |-> line, data |-> data])
    /\ arrived' = Append(arrived, Len(sent))
    /\ call' = FALSE
    /\ UNCHANGED <<line, length, data, taken>>

\* INVALID_CRC, and perhaps the first byte of the next packet.
BadPacket ==
    /\ Read /\ status = "crc8d"
    /\ Len(data) <= BufferLength /\ Crc8Check(data) # rxByte
    /\ IF rxByte = SYNC_CODE THEN status' = "header" /\ line' = <<>>
       ELSE status' = "sync" /\ UNCHANGED line
    /\ Return
    /\ UNCHANGED <<length, data, taken>>

FramerInit ==
    /\ wire = <<>> /\ call = FALSE
    /\ status = "sync" /\ line = <<>> /\ length = Unset /\ data = <<>>
    /\ sent = <<>> /\ faults = 0 /\ received = <<>>
    /\ arrived = <<>> /\ hit = {} /\ late = {} /\ taken = {}

ReadByte ==
    \/ GetSync \/ GetHeader \/ Resync \/ BadHeader \/ GoodHeader
    \/ EmptyPacket \/ GetData \/ TooLong \/ GoodPacket \/ BadPacket

FramerNext ==
    \/ wire = <<>> /\ \E p \in Packets :
           SendPacket(p) \/ \E q \in Damaged(p) \cup Noise : SendDamaged(p, q)
    \/ \E timeout \in BOOLEAN : GetPacket(timeout)
    \/ ReadByte

FramerSpec == FramerInit /\ [][FramerNext]_framerVars

(***************************************************************************)
(* Properties.                                                             *)
(***************************************************************************)
FramerTypeOK ==
    /\ wire \in Seq(Byte) /\ call \in BOOLEAN
    /\ status \in {"sync", "header", "crc8h", "data", "crc8d"}
    /\ line \in Seq(Byte) /\ length \in Nat /\ data \in Seq(Byte)
    /\ sent \in Seq(Packets) /\ faults \in 0 .. MaxFaults
    /\ received \in Seq([line : Seq(Byte), data : Seq(Byte)])
    /\ arrived \in Seq(1 .. MaxPackets)
    /\ hit \subseteq 1 .. MaxPackets /\ late \subseteq 1 .. MaxPackets
    /\ taken \subseteq 1 .. MaxPackets

\* Although the search is static and what it works on is not, no call uses a
\* local it has not set, or a header part of which lies in the buffer of the
\* call before: a call begins in front of a packet or behind its first
\* byte, and the lengths in use are those this call has read.
EntryState ==
    /\ ~call => status = "sync" \/ (status = "header" /\ line = <<>>)
    /\ status \in {"data", "crc8d"} =>
           /\ Len(line) = HEADER_BYTES
           /\ length = LengthOf(line) /\ length # 0
           /\ IF status = "data" THEN Len(data) < length ELSE Len(data) = length

\* The search has left GET_HEADER's bound behind: every byte to come is
\* taken for one of the header, and written behind the last.  (count has 16
\* bits: before it is 4 again, 65 kilobytes have been written behind a
\* buffer much shorter, and what dpride does by then is undefined.)
Deaf == status = "header" /\ Len(line) >= HEADER_BYTES

\* A packet that is returned was sent, and none is returned twice or out of
\* order: no bytes of one damaged packet and its neighbours pass for one.
\* Two damaged packets in a row can: a response without its last bytes and a
\* packet whose first byte is altered into them.
Genuine ==
    /\ FramerTypeOK
    /\ \A i, j \in DOMAIN arrived : i < j => arrived[i] < arrived[j]
    /\ faults < 2 => \A i \in DOMAIN arrived :
           sent[arrived[i]] =
               <<SYNC_CODE>> \o received[i].line \o <<Crc8Check(received[i].line)>>
               \o received[i].data \o <<Crc8Check(received[i].data)>>

\* GetPacket can return a packet of this length.
Fits(p) == LengthOf(SubSeq(p, 2, 5)) \in 1 .. BufferLength

\* The rest of a damaged packet has passed for a header, and as many bytes as
\* it seems to say are waited for.  It is not rare, as the CRC of bytes and
\* their CRC is zero, and zeros in front change no CRC: if the zero is lost a
\* RET_OK response begins with, the next zero is the CRC of the rest.
Misled ==
    /\ status \in {"data", "crc8d"}
    /\ \A n \in DOMAIN sent : line # SubSeq(sent[n], 2, 5)

\* A packet gets lost only if it is damaged, if its first byte is forgotten
\* in a silence of 10 ms in front of a call, or if the packet before, damaged
\* or begun late, has taken that byte for one of its own.  There are two
\* exceptions: a sync byte where a header's CRC is expected, and none among
\* the four bytes before it, makes the search deaf for good; and a header
\* that was none makes it swallow the packets that follow.
CostOfFault ==
    wire = <<>> /\ ~Deaf /\ ~Misled =>
        /\ \A n \in DOMAIN sent :
               Fits(sent[n]) /\ n \notin hit \cup late \cup taken =>
                   \E i \in DOMAIN arrived : arrived[i] = n
        /\ \A n \in taken : n - 1 \in hit \cup late
=============================================================================
