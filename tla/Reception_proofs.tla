-------------------------- MODULE Reception_proofs --------------------------
(***************************************************************************)
(* Proofs about what dpride makes of damaged input.                        *)
(*                                                                         *)
(* GetPacket: its static state and the locals of a call fit together, for  *)
(* any bytes, CRC, packets, noise and damage.  EntryState says nothing of  *)
(* CHECK_CRC8H, where the lengths are read: SearchInv adds that four bytes *)
(* are there, and the types of what the search works on.                   *)
(* HistoryInv adds the types of what is sent and returned.                 *)
(*                                                                         *)
(* Without faults it returns every packet that fits: CleanInv says of      *)
(* every byte of the packet being read where the search then is.           *)
(*                                                                         *)
(* With any damage and noise, and for any CRC: a packet that the search is *)
(* in front of (Underway), or has the begin of among header bytes (Met),   *)
(* is found and returned; and what is returned are runs of the bytes read  *)
(* that look like packets, each byte used once (OnTheLine, which speaks of *)
(* all bytes read so far: a history variable).                             *)
(*                                                                         *)
(* PushPacket: what a slot holds and hands on, for any devices, telegrams  *)
(* and faults of the radio (SlotInv).                                      *)
(***************************************************************************)
EXTENDS Esp3Framer, CdmReassembly, SequenceTheorems, FiniteSetTheorems, TLAPS

(***************************************************************************)
(* GetPacket.                                                              *)
(***************************************************************************)
SearchTypes ==
    /\ wire \in Seq(Byte) /\ line \in Seq(Byte) /\ data \in Seq(Byte)
    /\ length \in Nat /\ call \in BOOLEAN
    /\ status \in {"sync", "header", "crc8h", "data", "crc8d"}

SearchInv ==
    /\ SearchTypes
    /\ EntryState
    /\ status = "crc8h" => Len(line) = HEADER_BYTES

LEMMA NoBytes == <<>> \in Seq(Byte) /\ Len(<<>>) = 0
OBVIOUS

\* The bytes a damaged packet leaves are bytes.
LEMMA DamagedIsBytes ==
    ASSUME NEW p \in Seq(Byte), NEW q \in Damaged(p)
    PROVE  q \in Seq(Byte)
<1>1. ASSUME NEW i \in DOMAIN p, NEW j \in i .. Len(p),
             q = SubSeq(p, 1, i - 1) \o SubSeq(p, j + 1, Len(p))
      PROVE  q \in Seq(Byte)
  <2>1. SubSeq(p, 1, i - 1) \in Seq(Byte) /\ SubSeq(p, j + 1, Len(p)) \in Seq(Byte)
    OBVIOUS
  <2> QED BY <1>1, <2>1
<1>2. ASSUME NEW i \in DOMAIN p, NEW b \in Glitches, q = [p EXCEPT ![i] = b]
      PROVE  q \in Seq(Byte)
  BY <1>2, FramerAssumption
<1>3. CASE q \in Cut(p)
  BY <1>1, <1>3 DEF Cut
<1>4. CASE q \in Altered(p)
  BY <1>2, <1>4 DEF Altered
<1> QED BY <1>3, <1>4 DEF Damaged

\* The length in a header of four bytes is a number.
LEMMA LengthIsNat ==
    ASSUME NEW header \in Seq(Byte), Len(header) = HEADER_BYTES
    PROVE  LengthOf(header) \in Nat
<1>1. 1 \in DOMAIN header /\ 2 \in DOMAIN header /\ 3 \in DOMAIN header
  BY DEF HEADER_BYTES
<1>2. header[1] \in Byte /\ header[2] \in Byte /\ header[3] \in Byte
  BY <1>1
<1>3. Byte \subseteq Nat
  BY FramerAssumption
<1>4. \A a, b, c \in Nat : a * 256 + b + c \in Nat
  OBVIOUS
<1> QED BY <1>2, <1>3, <1>4 DEF LengthOf

\* What follows the first sync byte among four is shorter than they are.
LEMMA AfterSyncShorter ==
    ASSUME line \in Seq(Byte), Len(line) = HEADER_BYTES,
           \E i \in DOMAIN line : line[i] = SYNC_CODE
    PROVE  AfterSync \in Seq(Byte) /\ Len(AfterSync) < HEADER_BYTES
<1> DEFINE First(i) == line[i] = SYNC_CODE /\ \A j \in 1 .. i - 1 : line[j] # SYNC_CODE
           at == CHOOSE i \in DOMAIN line : First(i)
<1>1. \E i \in DOMAIN line : First(i)
  <2>1. DOMAIN line = {1, 2, 3, 4}
    BY DEF HEADER_BYTES
  <2> QED BY <2>1
<1>2. at \in 1 .. 4
  BY <1>1 DEF HEADER_BYTES
<1> HIDE DEF at
<1>3. SubSeq(line, at + 1, Len(line)) \in Seq(Byte)
      /\ Len(SubSeq(line, at + 1, Len(line))) = 4 - at
  BY <1>2 DEF HEADER_BYTES
<1> QED BY <1>2, <1>3 DEF AfterSync, at, HEADER_BYTES

\* Sending changes nothing but what is on the wire.
LEMMA SendStep ==
    ASSUME SearchInv,
           (\E p \in Packets : SendPacket(p))
           \/ (\E p \in Packets : \E q \in Damaged(p) \cup Noise : SendDamaged(p, q))
    PROVE  SearchInv'
<1>1. wire' \in Seq(Byte) /\ UNCHANGED <<call, status, line, length, data>>
  BY DamagedIsBytes, FramerAssumption DEF SendPacket, SendDamaged
<1> QED BY <1>1 DEF SearchInv, SearchTypes, EntryState, LengthOf

\* What Read takes for granted and leaves.
LEMMA ReadTypes ==
    ASSUME SearchTypes, Read
    PROVE  call /\ rxByte \in Byte /\ wire' \in Seq(Byte)
BY DEF SearchTypes, Read, rxByte

LEMMA SyncAndHeaderStep ==
    ASSUME SearchInv, GetSync \/ GetHeader \/ BadHeader
    PROVE  SearchInv'
<1>1. rxByte \in Byte /\ wire' \in Seq(Byte) /\ call /\ call' = call
  BY ReadTypes DEF SearchInv, GetSync, GetHeader, BadHeader, Continue
<1>2. CASE GetSync
  BY <1>1, <1>2, NoBytes DEF GetSync, SearchInv, SearchTypes, EntryState
<1>3. CASE GetHeader
  BY <1>1, <1>3 DEF GetHeader, SearchInv, SearchTypes, EntryState
<1>4. CASE BadHeader
  BY <1>1, <1>4 DEF BadHeader, SearchInv, SearchTypes, EntryState
<1> QED BY <1>2, <1>3, <1>4

LEMMA ResyncStep ==
    ASSUME SearchInv, Resync
    PROVE  SearchInv'
<1>1. rxByte \in Byte /\ wire' \in Seq(Byte) /\ call /\ call' = call
  BY ReadTypes DEF SearchInv, Resync, Continue
<1>2. AfterSync \in Seq(Byte) /\ Len(AfterSync) < HEADER_BYTES
  BY AfterSyncShorter DEF SearchInv, SearchTypes, Resync
<1>3. line' \in Seq(Byte) /\ Len(line') = Len(AfterSync) + 1
  BY <1>1, <1>2 DEF Resync
<1> QED BY <1>1, <1>2, <1>3 DEF Resync, SearchInv, SearchTypes, EntryState, HEADER_BYTES

LEMMA HeaderCheckedStep ==
    ASSUME SearchInv, GoodHeader \/ EmptyPacket
    PROVE  SearchInv'
<1>1. wire' \in Seq(Byte) /\ call /\ call' \in BOOLEAN
  BY ReadTypes DEF SearchInv, GoodHeader, EmptyPacket, Continue, Return, SearchTypes
<1>2. LengthOf(line) \in Nat
  BY LengthIsNat DEF SearchInv, SearchTypes, GoodHeader, EmptyPacket
<1>3. CASE GoodHeader
  <2>1. /\ line' = line /\ length' = LengthOf(line) /\ length' # 0
        /\ data' = <<>> /\ status' = "data" /\ call' = call
    BY <1>3 DEF GoodHeader, Continue
  <2>2. LengthOf(line') = LengthOf(line) /\ Len(line') = HEADER_BYTES
    BY <1>3, <2>1 DEF LengthOf, GoodHeader, SearchInv
  <2>3. SearchTypes'
    BY <1>1, <1>2, <2>1 DEF SearchInv, SearchTypes
  <2>4. EntryState'
    BY <1>1, <1>2, <2>1, <2>2 DEF EntryState
  <2> QED BY <2>1, <2>3, <2>4 DEF SearchInv
<1>4. CASE EmptyPacket
  BY <1>1, <1>4, NoBytes DEF EmptyPacket, Continue, Return, Unset, SearchInv, SearchTypes, EntryState
<1> QED BY <1>3, <1>4

LEMMA DataStep ==
    ASSUME SearchInv, GetData
    PROVE  SearchInv'
<1>1. rxByte \in Byte /\ wire' \in Seq(Byte) /\ call /\ call' = call
  BY ReadTypes DEF SearchInv, GetData, Continue
<1>2. line' = line /\ length' = length /\ LengthOf(line') = LengthOf(line)
  BY DEF GetData, LengthOf
<1>3. data' \in Seq(Byte) /\ Len(data') = Len(data) + 1
  BY <1>1 DEF GetData, SearchInv, SearchTypes
<1>4. Len(data) \in Nat /\ length \in Nat /\ Len(data) < length
  BY DEF SearchInv, SearchTypes, EntryState, GetData
<1> QED BY <1>1, <1>2, <1>3, <1>4 DEF GetData, SearchInv, SearchTypes, EntryState

LEMMA DataCheckedStep ==
    ASSUME SearchInv, TooLong \/ GoodPacket \/ BadPacket
    PROVE  SearchInv'
<1>1. wire' \in Seq(Byte) /\ call' = FALSE
  BY ReadTypes DEF SearchInv, TooLong, GoodPacket, BadPacket, Return
<1> QED BY <1>1, NoBytes DEF TooLong, GoodPacket, BadPacket, SearchInv, SearchTypes, EntryState

LEMMA CallStep ==
    ASSUME SearchInv, NEW timeout \in BOOLEAN, GetPacket(timeout)
    PROVE  SearchInv'
BY DEF GetPacket, Unset, SearchInv, SearchTypes, EntryState

\* The invariant holds in every state.
THEOREM FramerInvariance == FramerSpec => []SearchInv
<1>1. FramerInit => SearchInv
  <2> SUFFICES ASSUME FramerInit PROVE SearchInv
    OBVIOUS
  <2>1. SearchTypes
    BY NoBytes DEF FramerInit, Unset, SearchTypes
  <2>2. EntryState /\ status # "crc8h"
    BY DEF FramerInit, EntryState
  <2> QED BY <2>1, <2>2 DEF SearchInv
<1>2. SearchInv /\ [FramerNext]_framerVars => SearchInv'
  <2> SUFFICES ASSUME SearchInv, [FramerNext]_framerVars PROVE SearchInv'
    OBVIOUS
  <2>1. CASE UNCHANGED framerVars
    BY <2>1 DEF framerVars, SearchInv, SearchTypes, EntryState, LengthOf
  <2>2. CASE ReadByte
    BY <2>2, SyncAndHeaderStep, ResyncStep, HeaderCheckedStep, DataStep,
       DataCheckedStep DEF ReadByte
  <2> QED BY <2>1, <2>2, SendStep, CallStep DEF FramerNext
<1> QED BY <1>1, <1>2, PTL DEF FramerSpec

\* No call of GetPacket uses a local it has not set, whatever is on the line.
THEOREM LocalsAreSet == FramerSpec => []EntryState
<1>1. SearchInv => EntryState
  BY DEF SearchInv
<1> QED BY <1>1, FramerInvariance, PTL

\* Once the header has passed its bound, no byte, no call and no silence ends
\* it: GetPacket tests the time in front of a call only, and the call in
\* which the search went deaf does not return.
THEOREM DeafForGood == FramerSpec => [][Deaf => Deaf']_framerVars
<1>1. SearchInv /\ [FramerNext]_framerVars => [Deaf => Deaf']_framerVars
  <2> SUFFICES ASSUME SearchInv, FramerNext, Deaf PROVE Deaf'
    BY DEF framerVars, Deaf
  <2>1. status = "header" /\ Len(line) >= HEADER_BYTES /\ line \in Seq(Byte)
    BY DEF Deaf, SearchInv, SearchTypes
  <2>2. call
    BY <2>1 DEF SearchInv, SearchTypes, EntryState, HEADER_BYTES
  <2>3. CASE \E p \in Packets : SendPacket(p)
    BY <2>1, <2>3 DEF SendPacket, Deaf
  <2>4. CASE \E p \in Packets : \E q \in Damaged(p) \cup Noise : SendDamaged(p, q)
    BY <2>1, <2>4 DEF SendDamaged, Deaf
  <2>5. CASE GetHeader
    <3>1. rxByte \in Byte
      BY <2>5, ReadTypes DEF GetHeader, SearchInv
    <3>2. Len(line') = Len(line) + 1
      BY <2>1, <2>5, <3>1 DEF GetHeader
    <3> QED BY <2>1, <2>5, <3>2 DEF GetHeader, Deaf, HEADER_BYTES
  <2>6. ReadByte => GetHeader
    BY <2>1 DEF ReadByte, GetSync, Resync, BadHeader, GoodHeader, EmptyPacket,
       GetData, TooLong, GoodPacket, BadPacket
  <2> QED BY <2>2, <2>3, <2>4, <2>5, <2>6 DEF FramerNext, GetPacket
<1> QED BY <1>1, FramerInvariance, PTL DEF FramerSpec

\* The types of packets and histories: a byte that is read, or was, is one of
\* a packet that was sent.
HistoryInv ==
    /\ SearchInv
    /\ FramerTypeOK
    /\ Len(sent) <= MaxPackets
    /\ wire # <<>> \/ status # "sync" => Len(sent) >= 1

LEMMA HistoryStep ==
    ASSUME HistoryInv, SearchInv', [FramerNext]_framerVars
    PROVE  HistoryInv'
<1>1. /\ wire' \in Seq(Byte) /\ call' \in BOOLEAN
      /\ status' \in {"sync", "header", "crc8h", "data", "crc8d"}
      /\ line' \in Seq(Byte) /\ length' \in Nat /\ data' \in Seq(Byte)
  BY DEF SearchInv, SearchTypes
<1>2. /\ sent \in Seq(Packets) /\ Len(sent) \in Nat /\ Len(sent) <= MaxPackets
      /\ MaxPackets \in Nat /\ faults \in 0 .. MaxFaults /\ MaxFaults \in Nat
      /\ line \in Seq(Byte) /\ data \in Seq(Byte)
      /\ received \in Seq([line : Seq(Byte), data : Seq(Byte)])
      /\ arrived \in Seq(1 .. MaxPackets)
      /\ hit \subseteq 1 .. MaxPackets /\ late \subseteq 1 .. MaxPackets
      /\ taken \subseteq 1 .. MaxPackets
  BY LenProperties, FramerAssumption
  DEF HistoryInv, FramerTypeOK, SearchInv, SearchTypes
<1>3. CASE UNCHANGED framerVars
  BY <1>3 DEF HistoryInv, FramerTypeOK, framerVars, inputVars
<1>4. ASSUME NEW p \in Packets, Len(sent) < MaxPackets, sent' = Append(sent, p),
             UNCHANGED <<call, status, line, length, data, received, arrived,
                         late, taken>>,
             faults' \in 0 .. MaxFaults, hit' \subseteq hit \cup {Len(sent) + 1}
      PROVE  HistoryInv'
  <2>1. sent' \in Seq(Packets) /\ Len(sent') = Len(sent) + 1
    BY <1>2, <1>4, AppendProperties
  <2>2. Len(sent') \in 1 .. MaxPackets /\ hit' \subseteq 1 .. MaxPackets
    BY <1>2, <1>4, <2>1
  <2> QED BY <1>1, <1>2, <1>4, <2>1, <2>2 DEF HistoryInv, FramerTypeOK
<1>5. ASSUME NEW p \in Packets, SendPacket(p) PROVE HistoryInv'
  BY <1>2, <1>4, <1>5 DEF SendPacket
<1>6. ASSUME NEW p \in Packets, NEW q, SendDamaged(p, q) PROVE HistoryInv'
  <2>1. faults' \in 0 .. MaxFaults
    BY <1>2, <1>6 DEF SendDamaged
  <2> QED BY <1>4, <1>6, <2>1 DEF SendDamaged
<1>7. ASSUME NEW timeout \in BOOLEAN, GetPacket(timeout) PROVE HistoryInv'
  <2>1. /\ UNCHANGED <<wire, sent, faults, hit, received, arrived, taken>>
        /\ status' = IF timeout THEN "sync" ELSE status
        /\ late' = IF timeout /\ status = "header" THEN late \cup {Len(sent)}
                   ELSE late
    BY <1>7 DEF GetPacket, inputVars
  <2>2. late' \subseteq 1 .. MaxPackets
    <3>1. status = "header" => Len(sent) \in 1 .. MaxPackets
      <4>1. status = "header" => Len(sent) >= 1
        BY DEF HistoryInv
      <4> QED BY <1>2, <4>1
    <3>2. late' = late \/ (status = "header" /\ late' = late \cup {Len(sent)})
      BY <2>1
    <3> QED BY <1>2, <3>1, <3>2
  <2> QED BY <1>1, <1>2, <2>1, <2>2 DEF HistoryInv, FramerTypeOK
<1>8. ASSUME ReadByte PROVE HistoryInv'
  <2>1. UNCHANGED <<sent, faults, hit, late>> /\ wire # <<>>
    BY <1>8 DEF ReadByte, GetSync, GetHeader, Resync, BadHeader, GoodHeader,
       EmptyPacket, GetData, TooLong, GoodPacket, BadPacket, Read, inputVars
  <2>2. Len(sent) \in 1 .. MaxPackets
    BY <1>2, <2>1 DEF HistoryInv
  <2>3. taken' \subseteq 1 .. MaxPackets
    <3>1. taken' = taken \/ taken' = taken \cup {Len(sent)}
      BY <1>8 DEF ReadByte, GetSync, GetHeader, Resync, BadHeader, GoodHeader,
         EmptyPacket, GetData, TooLong, GoodPacket, BadPacket, Misplaced
    <3> QED BY <1>2, <2>2, <3>1
  <2>4. /\ received' \in Seq([line : Seq(Byte), data : Seq(Byte)])
        /\ arrived' \in Seq(1 .. MaxPackets)
    <3>1. CASE GoodPacket
      <4>1. [line |-> line, data |-> data] \in [line : Seq(Byte), data : Seq(Byte)]
        BY <1>2
      <4>2. received' = Append(received, [line |-> line, data |-> data])
            /\ arrived' = Append(arrived, Len(sent))
        BY <3>1 DEF GoodPacket
      <4> HIDE <1>8
      <4> QED BY <1>2, <2>2, <4>1, <4>2, AppendProperties
    <3>2. CASE ~GoodPacket
      BY <1>2, <1>8, <3>2 DEF ReadByte, GetSync, GetHeader, Resync, BadHeader,
         GoodHeader, EmptyPacket, GetData, TooLong, BadPacket, Continue, Return
    <3> QED BY <3>1, <3>2
  <2> QED BY <1>1, <1>2, <2>1, <2>2, <2>3, <2>4 DEF HistoryInv, FramerTypeOK
<1> QED BY <1>3, <1>5, <1>6, <1>7, <1>8 DEF FramerNext

LEMMA HistoryInit == FramerInit => HistoryInv
<1> SUFFICES ASSUME FramerInit PROVE HistoryInv
  OBVIOUS
<1>1. SearchTypes /\ EntryState /\ status = "sync"
  BY NoBytes DEF FramerInit, Unset, SearchTypes, EntryState
<1>2. /\ sent = <<>> /\ received = <<>> /\ arrived = <<>> /\ faults = 0
      /\ hit = {} /\ late = {} /\ taken = {} /\ wire = <<>>
      /\ MaxFaults \in Nat /\ MaxPackets \in Nat
  BY FramerAssumption DEF FramerInit
<1> QED BY <1>1, <1>2, FramerAssumption
        DEF HistoryInv, FramerTypeOK, SearchInv, SearchTypes

\* GetPacket and the module's line keep their types, for any packets, damage
\* and CRC.
THEOREM FramerTypeCorrect == FramerSpec => []FramerTypeOK
<1>1. SearchInv' /\ HistoryInv /\ [FramerNext]_framerVars => HistoryInv'
  BY HistoryStep
<1>2. HistoryInv => FramerTypeOK
  BY DEF HistoryInv
<1> QED BY <1>1, <1>2, HistoryInit, FramerInvariance, PTL DEF FramerSpec

(***************************************************************************)
(* The undamaged line.  Packets as ESP3 has them come whole through any    *)
(* silences and whatever their bytes are, sync bytes included: the search  *)
(* is always as far as the packet it is in.                                *)
(***************************************************************************)
HeaderOf(p) == SubSeq(p, 2, 5)
BodyOf(p) == SubSeq(p, 7, Len(p) - 1)

WellFormed(p) ==
    /\ p = <<SYNC_CODE>> \o HeaderOf(p) \o <<Crc8Check(HeaderOf(p))>>
               \o BodyOf(p) \o <<Crc8Check(BodyOf(p))>>
    /\ Len(p) > 7 /\ LengthOf(HeaderOf(p)) = Len(p) - 7

\* What was not damaged is genuine, and nothing that fits is missing.
Undamaged ==
    faults = 0 =>
        /\ Genuine /\ CostOfFault
        /\ wire = <<>> =>
               \A n \in DOMAIN sent :
                   Fits(sent[n]) <=> \E i \in DOMAIN arrived : arrived[i] = n

\* The search after k bytes of the packet p.
Reading(p, k) ==
    \/ k = 0 /\ status = "sync"
    \/ /\ k \in 1 .. 4 /\ status = "header" /\ call
       /\ Len(line) = k - 1 /\ \A i \in 1 .. k - 1 : line[i] = p[i + 1]
    \/ k = 5 /\ status = "crc8h" /\ call /\ line = HeaderOf(p)
    \/ /\ k \in 6 .. Len(p) - 2 /\ status = "data" /\ call
       /\ line = HeaderOf(p) /\ length = Len(p) - 7
       /\ Len(data) = k - 6 /\ \A i \in 1 .. k - 6 : data[i] = p[i + 6]
    \/ /\ k = Len(p) - 1 /\ status = "crc8d" /\ call
       /\ line = HeaderOf(p) /\ data = BodyOf(p)

Rest(p, k) ==
    /\ k \in 0 .. Len(p) - 1
    /\ Len(wire) = Len(p) - k /\ \A i \in 1 .. Len(p) - k : wire[i] = p[k + i]

Delivered ==
    /\ DOMAIN arrived = DOMAIN received
    /\ \A i, j \in DOMAIN arrived : i < j => arrived[i] < arrived[j]
    /\ \A i \in DOMAIN arrived :
           /\ arrived[i] \in 1 .. Len(sent)
           /\ wire # <<>> => arrived[i] < Len(sent)
           /\ received[i] = [line |-> HeaderOf(sent[arrived[i]]),
                             data |-> BodyOf(sent[arrived[i]])]
    /\ \A n \in 1 .. Len(sent) : wire = <<>> \/ n < Len(sent) =>
           (Fits(sent[n]) <=> \E i \in DOMAIN arrived : arrived[i] = n)

CleanInv ==
    faults = 0 =>
        /\ Delivered /\ taken = {}
        /\ IF wire = <<>> THEN status = "sync"
           ELSE \E k \in Nat : /\ Rest(sent[Len(sent)], k)
                               /\ Reading(sent[Len(sent)], k)

LEMMA JoinedPlaces ==
    ASSUME NEW S, NEW s \in Seq(S), NEW t \in Seq(S)
    PROVE  /\ s \o t \in Seq(S) /\ Len(s \o t) = Len(s) + Len(t)
           /\ Len(s) \in Nat /\ Len(t) \in Nat
           /\ \A i \in 1 .. Len(s) : (s \o t)[i] = s[i]
           /\ \A i \in 1 .. Len(t) : (s \o t)[Len(s) + i] = t[i]
<1> DEFINE j == s \o t
<1>1. /\ j \in Seq(S) /\ Len(j) = Len(s) + Len(t)
      /\ \A i \in 1 .. Len(s) + Len(t) :
             j[i] = IF i <= Len(s) THEN s[i] ELSE t[i - Len(s)]
  BY ConcatProperties
<1>2. Len(s) \in Nat /\ Len(t) \in Nat
  BY LenProperties
<1> HIDE DEF j
<1>3. \A i \in 1 .. Len(s) : j[i] = s[i]
  BY <1>1, <1>2
<1>4. ASSUME NEW i \in 1 .. Len(t) PROVE j[Len(s) + i] = t[i]
  <2>1. /\ Len(s) + i \in 1 .. Len(s) + Len(t) /\ ~(Len(s) + i <= Len(s))
        /\ (Len(s) + i) - Len(s) = i
    BY <1>2
  <2> QED BY <1>1, <2>1
<1> QED BY <1>1, <1>2, <1>3, <1>4 DEF j

\* Where the parts of a packet are.
LEMMA FramePlaces ==
    ASSUME NEW p \in Seq(Byte), WellFormed(p)
    PROVE  /\ Len(p) \in Nat /\ Len(p) >= 8 /\ p[1] = SYNC_CODE
           /\ HeaderOf(p) \in Seq(Byte) /\ Len(HeaderOf(p)) = 4
           /\ \A i \in 1 .. 4 : HeaderOf(p)[i] = p[i + 1]
           /\ LengthOf(HeaderOf(p)) = Len(p) - 7
           /\ p[6] = Crc8Check(HeaderOf(p))
           /\ BodyOf(p) \in Seq(Byte) /\ Len(BodyOf(p)) = Len(p) - 7
           /\ \A i \in 1 .. Len(p) - 7 : BodyOf(p)[i] = p[i + 6]
           /\ p[Len(p)] = Crc8Check(BodyOf(p))
<1> DEFINE h == HeaderOf(p)
           b == BodyOf(p)
           n == Len(p) - 7
           c == Crc8Check(h)
           d == Crc8Check(b)
           S == Byte \cup {c, d}
<1>1. Len(p) \in Nat /\ Len(p) >= 8 /\ DOMAIN p = 1 .. Len(p)
      /\ LengthOf(h) = n
  BY LenProperties DEF WellFormed
<1>2. \A i \in 1 .. Len(p) : p[i] \in Byte
  BY <1>1
<1>3. /\ h \in Seq(Byte) /\ Len(h) = 4
      /\ \A i \in 1 .. 4 : h[i] = p[i + 1]
  BY <1>1, <1>2, SubSeqProperties DEF HeaderOf
<1>4. /\ b \in Seq(Byte) /\ Len(b) = n
      /\ \A i \in 1 .. n : b[i] = p[i + 6]
  BY <1>1, <1>2, SubSeqProperties DEF BodyOf
<1> DEFINE q1 == <<SYNC_CODE>>
           q2 == q1 \o h
           q3 == q2 \o <<c>>
           q4 == q3 \o b
           q5 == q4 \o <<d>>
<1>5. p = q5
  BY DEF WellFormed
<1> HIDE DEF h, b, c, d
<1>6. /\ SYNC_CODE \in S /\ c \in S /\ d \in S
      /\ h \in Seq(S) /\ b \in Seq(S)
  BY <1>3, <1>4, FramerAssumption
<1> HIDE DEF S
<1>7. q1 \in Seq(S) /\ Len(q1) = 1 /\ q1[1] = SYNC_CODE
  BY <1>6
<1> HIDE DEF q1
<1>8. q2 \in Seq(S) /\ Len(q2) = 5 /\ q2[1] = SYNC_CODE
  <2>1. /\ q2 \in Seq(S) /\ Len(q2) = Len(q1) + Len(h)
        /\ \A i \in 1 .. Len(q1) : q2[i] = q1[i]
    BY <1>6, <1>7, JoinedPlaces
  <2> HIDE DEF q2
  <2> QED BY <1>3, <1>7, <2>1
<1> HIDE DEF q2
<1>9. q3 \in Seq(S) /\ Len(q3) = 6 /\ q3[1] = SYNC_CODE /\ q3[6] = c
  <2> DEFINE t == <<c>>
  <2>1. t \in Seq(S) /\ Len(t) = 1 /\ t[1] = c
    BY <1>6
  <2>2. q3 = q2 \o t
    OBVIOUS
  <2> HIDE DEF q3, t
  <2> HIDE DEF q2, S
  <2>0. q2 \in Seq(S) /\ t \in Seq(S)
    BY <1>8, <2>1
  <2>3. /\ q2 \o t \in Seq(S) /\ Len(q2 \o t) = Len(q2) + Len(t)
        /\ \A i \in 1 .. Len(q2) : (q2 \o t)[i] = q2[i]
        /\ \A i \in 1 .. Len(t) : (q2 \o t)[Len(q2) + i] = t[i]
    BY ONLY <2>0, JoinedPlaces
  <2> QED BY <1>8, <2>1, <2>2, <2>3
<1> HIDE DEF q3
<1>10. q4 \in Seq(S) /\ Len(q4) = n + 6 /\ q4[1] = SYNC_CODE /\ q4[6] = c
  <2>1. /\ q4 \in Seq(S) /\ Len(q4) = Len(q3) + Len(b)
        /\ \A i \in 1 .. Len(q3) : q4[i] = q3[i]
    <3>1. b \in Seq(S) /\ q3 \in Seq(S)
      BY <1>6, <1>9
    <3> QED BY ONLY <3>1, JoinedPlaces
  <2> HIDE DEF q4
  <2> QED BY <1>1, <1>4, <1>9, <2>1
<1> HIDE DEF q4
<1>11. q5[1] = SYNC_CODE /\ q5[6] = c /\ q5[n + 7] = d
  <2>1. <<d>> \in Seq(S) /\ Len(<<d>>) = 1 /\ <<d>>[1] = d
    BY <1>6
  <2>2. /\ \A i \in 1 .. Len(q4) : q5[i] = q4[i]
        /\ \A i \in 1 .. Len(<<d>>) : q5[Len(q4) + i] = <<d>>[i]
    BY <1>10, <2>1, JoinedPlaces
  <2> HIDE DEF q5
  <2> QED BY <1>1, <1>10, <2>1, <2>2
<1> HIDE DEF q5
<1>12. p[1] = SYNC_CODE /\ p[6] = c /\ p[n + 7] = d /\ n + 7 = Len(p)
  BY <1>1, <1>5, <1>11
<1> QED BY <1>1, <1>3, <1>4, <1>12 DEF h, b, c, d

\* The packet that is being read, and its next byte.
LEMMA NextByte ==
    ASSUME HistoryInv, NEW p \in Seq(Byte), NEW k \in Nat, Rest(p, k), Read,
           Len(p) \in Nat
    PROVE  /\ rxByte = p[k + 1]
           /\ k + 1 = Len(p) => wire' = <<>>
           /\ k + 1 < Len(p) => wire' # <<>> /\ Rest(p, k + 1)'
<1>1. /\ wire \in Seq(Byte) /\ wire # <<>> /\ wire' = Tail(wire)
      /\ k \in 0 .. Len(p) - 1 /\ Len(wire) = Len(p) - k
      /\ \A i \in 1 .. Len(p) - k : wire[i] = p[k + i]
  BY DEF HistoryInv, SearchInv, SearchTypes, Rest, Read
<1>2. /\ Tail(wire) \in Seq(Byte) /\ Len(Tail(wire)) = Len(wire) - 1
      /\ \A i \in 1 .. Len(wire) - 1 : Tail(wire)[i] = wire[i + 1]
  BY <1>1, HeadTailProperties
<1>3. rxByte = wire[1]
  BY <1>1 DEF rxByte
<1>4. k + 1 = Len(p) => wire' = <<>>
  BY <1>1, <1>2, EmptySeq
<1>5. ASSUME k + 1 < Len(p) PROVE wire' # <<>> /\ Rest(p, k + 1)'
  <2>1. /\ k + 1 \in 0 .. Len(p) - 1 /\ Len(wire') = Len(p) - (k + 1)
        /\ Len(wire') >= 1
    BY <1>1, <1>2, <1>5
  <2>2. \A i \in 1 .. Len(p) - (k + 1) : wire'[i] = p[(k + 1) + i]
    BY <1>1, <1>2, <1>5
  <2>3. wire' # <<>>
    BY <2>1, EmptySeq
  <2> QED BY <2>1, <2>2, <2>3 DEF Rest
<1> QED BY <1>1, <1>3, <1>4, <1>5

\* A byte of an undamaged packet takes the search one further in it, ...
LEMMA ByteIsRead ==
    ASSUME HistoryInv, NEW p \in Seq(Byte), WellFormed(p), NEW k \in Nat,
           Rest(p, k), Reading(p, k), ReadByte, k + 1 < Len(p)
    PROVE  Reading(p, k + 1)' /\ UNCHANGED <<received, arrived>>
<1> DEFINE L == Len(p)
<1>0. /\ L \in Nat /\ L >= 8 /\ p[1] = SYNC_CODE
      /\ HeaderOf(p) \in Seq(Byte) /\ Len(HeaderOf(p)) = 4
      /\ \A i \in 1 .. 4 : HeaderOf(p)[i] = p[i + 1]
      /\ LengthOf(HeaderOf(p)) = L - 7
      /\ p[6] = Crc8Check(HeaderOf(p))
      /\ BodyOf(p) \in Seq(Byte) /\ Len(BodyOf(p)) = L - 7
      /\ \A i \in 1 .. L - 7 : BodyOf(p)[i] = p[i + 6]
  BY FramePlaces
<1> HIDE DEF L
<1>1. line \in Seq(Byte) /\ data \in Seq(Byte)
  BY DEF HistoryInv, SearchInv, SearchTypes
<1>2. Read
  BY DEF ReadByte, GetSync, GetHeader, Resync, BadHeader, GoodHeader,
     EmptyPacket, GetData, TooLong, GoodPacket, BadPacket
<1>3. rxByte = p[k + 1] /\ rxByte \in Byte /\ call
  <2>1. rxByte = p[k + 1]
    BY <1>0, <1>2, NextByte DEF L
  <2>2. rxByte \in Byte /\ call
    BY <1>2, ReadTypes DEF HistoryInv, SearchInv
  <2> QED BY <2>1, <2>2
<1>4. CASE k = 0 /\ status = "sync"
  <2>1. GetSync
    BY <1>4 DEF ReadByte, GetHeader, Resync, BadHeader, GoodHeader,
       EmptyPacket, GetData, TooLong, GoodPacket, BadPacket
  <2>2. rxByte = SYNC_CODE
    BY <1>0, <1>3, <1>4
  <2>3. /\ status' = "header" /\ line' = <<>> /\ call'
        /\ UNCHANGED <<received, arrived>>
    BY <1>3, <2>1, <2>2 DEF GetSync, Continue
  <2>4. Len(line') = 0
    BY <2>3
  <2>5. Reading(p, 1)'
    BY <2>3, <2>4 DEF Reading
  <2> QED BY <1>4, <2>3, <2>5
<1>5. CASE /\ k \in 1 .. 4 /\ status = "header"
           /\ Len(line) = k - 1 /\ \A i \in 1 .. k - 1 : line[i] = p[i + 1]
  <2>1. GetHeader
    BY <1>5 DEF ReadByte, GetSync, Resync, BadHeader, GoodHeader,
       EmptyPacket, GetData, TooLong, GoodPacket, BadPacket
  <2>2. /\ line' = Append(line, p[k + 1]) /\ call'
        /\ status' = (IF Len(line) + 1 = 4 THEN "crc8h" ELSE status)
        /\ UNCHANGED <<received, arrived>>
    BY <1>3, <2>1 DEF GetHeader, Continue, HEADER_BYTES
  <2>3. /\ line' \in Seq(Byte) /\ Len(line') = k
        /\ \A i \in 1 .. k - 1 : line'[i] = line[i]
        /\ line'[k] = p[k + 1]
    <3>1. /\ Append(line, rxByte) \in Seq(Byte)
          /\ Len(Append(line, rxByte)) = Len(line) + 1
          /\ \A i \in 1 .. Len(line) : Append(line, rxByte)[i] = line[i]
          /\ Append(line, rxByte)[Len(line) + 1] = rxByte
      BY <1>1, <1>3, AppendProperties
    <3>2. Len(line) + 1 = k
      BY <1>5
    <3> QED BY <1>3, <1>5, <2>2, <3>1, <3>2
  <2>4. \A i \in 1 .. k : line'[i] = p[i + 1]
    BY <1>5, <2>3
  <2>5. CASE k < 4
    <3>1. status' = "header" /\ k + 1 \in 1 .. 4 /\ (k + 1) - 1 = k
      BY <1>5, <2>2, <2>5
    <3> QED BY <2>2, <2>3, <2>4, <3>1 DEF Reading
  <2>6. CASE k = 4
    <3>1. status' = "crc8h"
      BY <1>5, <2>2, <2>6
    <3>2. line' = HeaderOf(p)
      <4>1. /\ Len(line') = Len(HeaderOf(p))
            /\ \A i \in 1 .. Len(line') : line'[i] = HeaderOf(p)[i]
        BY <1>0, <2>3, <2>4, <2>6
      <4> QED BY <1>0, <2>3, <4>1, SeqEqual
    <3>3. Reading(p, 5)'
      BY <2>2, <3>1, <3>2 DEF Reading
    <3> QED BY <2>2, <2>6, <3>3
  <2> QED BY <1>5, <2>5, <2>6
<1>6. CASE k = 5 /\ status = "crc8h" /\ line = HeaderOf(p)
  <2>1. Crc8Check(line) = rxByte /\ LengthOf(line) = L - 7 /\ L - 7 # 0
    BY <1>0, <1>3, <1>6
  <2>2. GoodHeader
    BY <1>6, <2>1 DEF ReadByte, GetSync, GetHeader, Resync, BadHeader,
       EmptyPacket, GetData, TooLong, GoodPacket, BadPacket
  <2>3. /\ status' = "data" /\ data' = <<>> /\ length' = L - 7 /\ line' = line
        /\ call' /\ UNCHANGED <<received, arrived>>
    BY <1>3, <2>1, <2>2 DEF GoodHeader, Continue
  <2>4. Len(data') = 0 /\ 6 \in 6 .. L - 2
    BY <1>0, <2>3
  <2>5. Reading(p, 6)'
    BY <1>6, <2>3, <2>4 DEF Reading, L
  <2> QED BY <1>6, <2>3, <2>5
<1>7. CASE /\ k \in 6 .. L - 2 /\ status = "data"
           /\ line = HeaderOf(p) /\ length = L - 7
           /\ Len(data) = k - 6 /\ \A i \in 1 .. k - 6 : data[i] = p[i + 6]
  <2>1. GetData
    BY <1>7 DEF ReadByte, GetSync, GetHeader, Resync, BadHeader, GoodHeader,
       EmptyPacket, TooLong, GoodPacket, BadPacket
  <2>2. /\ data' = Append(data, p[k + 1]) /\ call' /\ line' = line
        /\ length' = length
        /\ status' = (IF Len(data) + 1 = length THEN "crc8d" ELSE status)
        /\ UNCHANGED <<received, arrived>>
    BY <1>3, <2>1 DEF GetData, Continue
  <2>3. /\ data' \in Seq(Byte) /\ Len(data') = k - 5
        /\ \A i \in 1 .. k - 6 : data'[i] = data[i]
        /\ data'[k - 5] = p[k + 1]
    <3>1. /\ Append(data, rxByte) \in Seq(Byte)
          /\ Len(Append(data, rxByte)) = Len(data) + 1
          /\ \A i \in 1 .. Len(data) : Append(data, rxByte)[i] = data[i]
          /\ Append(data, rxByte)[Len(data) + 1] = rxByte
      BY <1>1, <1>3, AppendProperties
    <3>2. Len(data) + 1 = k - 5
      BY <1>7
    <3> QED BY <1>3, <1>7, <2>2, <3>1, <3>2
  <2>4. \A i \in 1 .. k - 5 : data'[i] = p[i + 6]
    BY <1>7, <2>3
  <2>0. /\ L \in Nat /\ L >= 8 /\ k \in 6 .. L - 2
        /\ Len(data) = k - 6 /\ length = L - 7
    BY <1>0, <1>7
  <2>5. CASE k < L - 2
    <3>0. /\ k + 1 \in 6 .. L - 2 /\ (k + 1) - 6 = k - 5
          /\ Len(data) + 1 # length
      BY <2>0, <2>5
    <3>1. status' = "data" /\ k + 1 \in 6 .. L - 2 /\ (k + 1) - 6 = k - 5
      BY <1>7, <2>2, <3>0
    <3> QED BY <1>7, <2>2, <2>3, <2>4, <3>1 DEF Reading, L
  <2>6. CASE k = L - 2
    <3>1. status' = "crc8d" /\ k + 1 = L - 1 /\ k - 5 = L - 7
      <4>1. k + 1 = L - 1 /\ k - 5 = L - 7 /\ Len(data) + 1 = length
        BY <2>0, <2>6
      <4> QED BY <2>2, <4>1
    <3>2. data' = BodyOf(p)
      <4>1. BodyOf(p) \in Seq(Byte) /\ Len(BodyOf(p)) = k - 5
        BY <1>0, <3>1
      <4>2. \A i \in 1 .. k - 5 : data'[i] = BodyOf(p)[i]
        BY <1>0, <2>4, <3>1
      <4> QED BY <2>3, <4>1, <4>2, SeqEqual
    <3> QED BY <1>7, <2>2, <3>1, <3>2 DEF Reading, L
  <2> QED BY <1>0, <1>7, <2>5, <2>6
<1>8. k # L - 1
  BY <1>0 DEF L
<1> QED BY <1>4, <1>5, <1>6, <1>7, <1>8 DEF Reading, L

\* ... and the last one returns it, if it fits.
LEMMA LastByteIsRead ==
    ASSUME HistoryInv, NEW p \in Seq(Byte), WellFormed(p), NEW k \in Nat,
           Rest(p, k), Reading(p, k), ReadByte, k + 1 = Len(p)
    PROVE  /\ wire' = <<>> /\ status' = "sync"
           /\ IF Fits(p)
              THEN /\ received' = Append(received, [line |-> HeaderOf(p),
                                                    data |-> BodyOf(p)])
                   /\ arrived' = Append(arrived, Len(sent))
              ELSE UNCHANGED <<received, arrived>>
<1>0. /\ Len(p) \in Nat /\ Len(p) >= 8
      /\ LengthOf(HeaderOf(p)) = Len(p) - 7
      /\ Len(BodyOf(p)) = Len(p) - 7
      /\ p[Len(p)] = Crc8Check(BodyOf(p))
  BY FramePlaces
<1>1. Read
  BY DEF ReadByte, GetSync, GetHeader, Resync, BadHeader, GoodHeader,
     EmptyPacket, GetData, TooLong, GoodPacket, BadPacket
<1>2. rxByte = Crc8Check(BodyOf(p)) /\ wire' = <<>>
  BY <1>0, <1>1, NextByte
<1>3. status = "crc8d" /\ line = HeaderOf(p) /\ data = BodyOf(p)
  BY <1>0 DEF Reading
<1>4. Fits(p) <=> Len(data) <= BufferLength
  <2>1. BufferLength \in Nat
    BY FramerAssumption
  <2>2. Fits(p) <=> Len(p) - 7 \in 1 .. BufferLength
    BY <1>0 DEF Fits, HeaderOf
  <2> QED BY <1>0, <1>3, <2>1, <2>2
<1>5. TooLong \/ GoodPacket
  BY <1>2, <1>3 DEF ReadByte, GetSync, GetHeader, Resync, BadHeader,
     GoodHeader, EmptyPacket, GetData, BadPacket
<1>6. CASE Len(data) <= BufferLength
  <2>1. GoodPacket
    <3>1. Len(data) \in Nat /\ BufferLength \in Nat
      BY <1>0, <1>3, FramerAssumption
    <3>2. ~(Len(data) > BufferLength)
      BY <1>6, <3>1
    <3> QED BY <1>5, <3>2 DEF TooLong
  <2> QED BY <1>2, <1>3, <1>4, <1>6, <2>1 DEF GoodPacket
<1>7. CASE ~(Len(data) <= BufferLength)
  <2>1. TooLong
    BY <1>5, <1>7 DEF GoodPacket
  <2> QED BY <1>2, <1>4, <1>7, <2>1 DEF TooLong, Return
<1> QED BY <1>6, <1>7

\* A packet that is sent, and a call of GetPacket.
LEMMA CleanSend ==
    ASSUME HistoryInv, CleanInv, wire = <<>>, NEW p \in Packets, WellFormed(p),
           SendPacket(p)
    PROVE  CleanInv'
<1> SUFFICES ASSUME faults' = 0 PROVE CleanInv'
  BY DEF CleanInv
<1>1. /\ sent' = Append(sent, p) /\ wire' = p /\ faults' = faults
      /\ UNCHANGED <<status, received, arrived, taken>>
  BY DEF SendPacket
<1>2. Delivered /\ status = "sync" /\ taken = {}
  BY <1>1 DEF CleanInv
<1>3. /\ Len(sent') = Len(sent) + 1 /\ Len(sent) \in Nat
      /\ sent'[Len(sent) + 1] = p
      /\ \A n \in 1 .. Len(sent) : sent'[n] = sent[n]
  <2>1. sent \in Seq(Packets)
    BY DEF HistoryInv, FramerTypeOK
  <2> QED BY <1>1, <2>1, AppendProperties, LenProperties
<1>4. p \in Seq(Byte) /\ Len(p) \in Nat /\ Len(p) >= 8 /\ p # <<>>
  <2>1. p \in Seq(Byte)
    BY FramerAssumption
  <2>2. Len(p) \in Nat /\ Len(p) >= 8
    BY <2>1, FramePlaces
  <2> QED BY <2>1, <2>2, EmptySeq
<1>5. Delivered'
  <2>1. \A i \in DOMAIN arrived' :
            /\ arrived'[i] \in 1 .. Len(sent') /\ arrived'[i] < Len(sent')
            /\ received'[i] = [line |-> HeaderOf(sent'[arrived'[i]]),
                               data |-> BodyOf(sent'[arrived'[i]])]
    BY <1>1, <1>2, <1>3 DEF Delivered
  <2>2. \A n \in 1 .. Len(sent') : wire' = <<>> \/ n < Len(sent') =>
            (Fits(sent'[n]) <=> \E i \in DOMAIN arrived' : arrived'[i] = n)
    <3> SUFFICES ASSUME NEW n \in 1 .. Len(sent'), n < Len(sent')
                 PROVE  Fits(sent'[n])
                            <=> \E i \in DOMAIN arrived' : arrived'[i] = n
      BY <1>1, <1>4
    <3>1. n \in 1 .. Len(sent) /\ sent'[n] = sent[n]
      BY <1>3
    <3> QED BY <1>1, <1>2, <3>1 DEF Delivered
  <2> QED BY <1>1, <1>2, <2>1, <2>2 DEF Delivered
<1>6. Rest(p, 0)' /\ Reading(p, 0)'
  BY <1>1, <1>2, <1>4 DEF Rest, Reading
<1>7. sent'[Len(sent')] = p
  BY <1>3
<1>8. \E k \in Nat : Rest(p, k)' /\ Reading(p, k)'
  BY <1>6
<1> QED BY <1>1, <1>2, <1>4, <1>5, <1>7, <1>8 DEF CleanInv

LEMMA CleanCall ==
    ASSUME CleanInv, NEW timeout \in BOOLEAN, GetPacket(timeout)
    PROVE  CleanInv'
<1> SUFFICES ASSUME faults' = 0 PROVE CleanInv'
  BY DEF CleanInv
<1>1. /\ UNCHANGED <<wire, sent, faults, received, arrived, taken>> /\ ~call
      /\ status' = IF timeout THEN "sync" ELSE status
  BY DEF GetPacket, inputVars
<1>2. Delivered' /\ taken' = {}
  BY <1>1 DEF CleanInv, Delivered
<1>3. CASE wire = <<>>
  BY <1>1, <1>2, <1>3 DEF CleanInv
<1>4. CASE wire # <<>>
  <2>0. PICK p : p = sent[Len(sent)]
    OBVIOUS
  <2>1. PICK k \in Nat : Rest(p, k) /\ Reading(p, k)
    BY <1>1, <1>4, <2>0 DEF CleanInv
  <2>2. k = 0 /\ status = "sync"
    BY <1>1, <2>1 DEF Reading
  <2>3. Rest(p, 0)' /\ Reading(p, 0)'
    <3>1. status' = "sync" /\ wire' = wire
      BY <1>1, <2>2
    <3>2. Rest(p, 0)'
      BY <2>1, <2>2, <3>1 DEF Rest
    <3> QED BY <3>1, <3>2 DEF Reading
  <2>4. sent'[Len(sent')] = p
    BY <1>1, <2>0
  <2>5. \E j \in Nat : Rest(p, j)' /\ Reading(p, j)'
    BY <2>3
  <2> QED BY <1>1, <1>2, <1>4, <2>4, <2>5 DEF CleanInv
<1> QED BY <1>3, <1>4

\* ... and no packet's first byte is taken for one of another.
LEMMA FirstIsItsOwn ==
    ASSUME NEW p, p = sent[Len(sent)], Len(p) \in Nat, Len(p) > 7,
           NEW k \in Nat, Rest(p, k), Reading(p, k), ReadByte
    PROVE  taken' = taken
<1>1. ASSUME wire = p PROVE status = "sync"
  <2>1. PICK n \in Nat : n = Len(p)
    OBVIOUS
  <2>2. n > 7 /\ n = n - k
    BY <1>1, <2>1 DEF Rest
  <2>3. k = 0
    BY <2>2
  <2>4. k # n - 1 /\ k \notin 1 .. 4 /\ k # 5 /\ k \notin 6 .. n - 2
    BY <2>2, <2>3
  <2> QED BY <2>1, <2>4 DEF Reading
<1>2. CASE GetData
  BY <1>1, <1>2 DEF GetData, Misplaced
<1>3. CASE TooLong
  BY <1>1, <1>3 DEF TooLong, Misplaced
<1>4. CASE ~GetData /\ ~TooLong
  BY <1>4 DEF ReadByte, GetSync, GetHeader, Resync, BadHeader, GoodHeader,
     EmptyPacket, GoodPacket, BadPacket
<1> QED BY <1>2, <1>3, <1>4

LEMMA SameLength ==
    ASSUME NEW a \in Nat, NEW b \in Nat, 1 .. a = 1 .. b
    PROVE  a = b
<1>1. CASE a < b
  <2>1. b \in 1 .. b /\ ~(b \in 1 .. a)
    BY <1>1
  <2> QED BY <2>1
<1>2. CASE b < a
  <2>1. a \in 1 .. a /\ ~(a \in 1 .. b)
    BY <1>2
  <2> QED BY <2>1
<1> QED BY <1>1, <1>2

\* A byte that is read.
LEMMA CleanRead ==
    ASSUME HistoryInv, CleanInv, \A p \in Packets : WellFormed(p), ReadByte
    PROVE  CleanInv'
<1> SUFFICES ASSUME faults' = 0 PROVE CleanInv'
  BY DEF CleanInv
<1>1. UNCHANGED <<sent, faults>> /\ wire # <<>> /\ Read
  BY DEF ReadByte, GetSync, GetHeader, Resync, BadHeader, GoodHeader,
     EmptyPacket, GetData, TooLong, GoodPacket, BadPacket, Read, inputVars
<1>2. /\ sent \in Seq(Packets) /\ Len(sent) \in Nat /\ Len(sent) >= 1
      /\ arrived \in Seq(1 .. MaxPackets)
      /\ received \in Seq([line : Seq(Byte), data : Seq(Byte)])
      /\ Len(sent) \in 1 .. MaxPackets /\ DOMAIN sent = 1 .. Len(sent)
  BY <1>1, LenProperties, FramerAssumption DEF HistoryInv, FramerTypeOK
<1> DEFINE last == Len(sent)
<1>0. PICK p : p = sent[Len(sent)]
  OBVIOUS
<1>3. p \in Packets /\ p \in Seq(Byte) /\ WellFormed(p) /\ Len(p) \in Nat
  <2>1. p \in Packets
    BY <1>2, <1>0
  <2> QED BY <2>1, FramerAssumption, LenProperties
<1>4. PICK k \in Nat : Rest(p, k) /\ Reading(p, k)
  BY <1>1, <1>0 DEF CleanInv
<1>5. Delivered /\ taken' = {}
  <2>1. Delivered /\ taken = {}
    BY <1>1 DEF CleanInv
  <2>2. taken' = taken
    BY <1>0, <1>3, <1>4, FirstIsItsOwn DEF WellFormed
  <2> QED BY <2>1, <2>2
<1>6. k + 1 < Len(p) \/ k + 1 = Len(p)
  BY <1>3, <1>4 DEF Rest
<1>7. CASE k + 1 < Len(p)
  <2>1. wire' # <<>> /\ Rest(p, k + 1)'
    BY <1>1, <1>3, <1>4, <1>7, NextByte
  <2>2. Reading(p, k + 1)' /\ UNCHANGED <<received, arrived>>
    BY <1>3, <1>4, <1>7, ByteIsRead
  <2>3. Delivered'
    BY <1>1, <1>5, <2>1, <2>2 DEF Delivered
  <2>4. k + 1 \in Nat
    OBVIOUS
  <2>5. \E j \in Nat : Rest(p, j)' /\ Reading(p, j)'
    BY <2>1, <2>2, <2>4
  <2>6. sent'[Len(sent')] = p
    BY <1>1, <1>0
  <2> QED BY <1>5, <2>1, <2>3, <2>5, <2>6 DEF CleanInv
<1>8. CASE k + 1 = Len(p)
  <2>1. /\ wire' = <<>> /\ status' = "sync"
        /\ IF Fits(p)
           THEN /\ received' = Append(received, [line |-> HeaderOf(p),
                                                 data |-> BodyOf(p)])
                /\ arrived' = Append(arrived, Len(sent))
           ELSE UNCHANGED <<received, arrived>>
    BY <1>3, <1>4, <1>8, LastByteIsRead
  <2>2. \A i \in DOMAIN arrived : arrived[i] \in 1 .. last /\ arrived[i] < last
    BY <1>1, <1>5 DEF Delivered
  <2>3. CASE ~Fits(p)
    <3>1. UNCHANGED <<received, arrived>>
      BY <2>1, <2>3
    <3>2. \A n \in 1 .. Len(sent) :
              Fits(sent[n]) <=> \E i \in DOMAIN arrived : arrived[i] = n
      <4> SUFFICES ASSUME NEW n \in 1 .. Len(sent)
                   PROVE  Fits(sent[n])
                              <=> \E i \in DOMAIN arrived : arrived[i] = n
        OBVIOUS
      <4>1. CASE n < last
        BY <1>5, <4>1 DEF Delivered
      <4>2. CASE n = last
        <5>1. ~Fits(sent[n])
          BY <1>0, <2>3, <4>2
        <5>2. ASSUME NEW i \in DOMAIN arrived PROVE arrived[i] # n
          <6>1. arrived[i] \in 1 .. last /\ arrived[i] < last
            BY <2>2
          <6> QED BY <1>2, <4>2, <6>1
        <5> QED BY <5>1, <5>2
      <4>3. n < last \/ n = last
        <5>1. n \in 1 .. last /\ last \in Nat
          BY <1>2
        <5> HIDE DEF last
        <5> QED BY <5>1
      <4> QED BY <4>1, <4>2, <4>3
    <3>3. Delivered'
      BY <1>1, <1>5, <2>1, <3>1, <3>2 DEF Delivered
    <3> QED BY <1>5, <2>1, <3>3 DEF CleanInv
  <2>4. CASE Fits(p)
    <3> DEFINE r == [line |-> HeaderOf(p), data |-> BodyOf(p)]
               m == Len(arrived)
    <3>1. received' = Append(received, r) /\ arrived' = Append(arrived, last)
      BY <2>1, <2>4
    <3>2. /\ r \in [line : Seq(Byte), data : Seq(Byte)]
          /\ Len(received) = m /\ m \in Nat /\ DOMAIN arrived = 1 .. m
      <4>1. HeaderOf(p) \in Seq(Byte) /\ BodyOf(p) \in Seq(Byte)
        BY <1>3, FramePlaces
      <4>2. DOMAIN arrived = DOMAIN received
        BY <1>5 DEF Delivered
      <4>3. /\ DOMAIN arrived = 1 .. m /\ m \in Nat
            /\ DOMAIN received = 1 .. Len(received) /\ Len(received) \in Nat
        BY <1>2, LenProperties
      <4>4. Len(received) = m
        BY <4>2, <4>3, SameLength
      <4> QED BY <4>1, <4>3, <4>4
    <3> HIDE DEF r
    <3>3. /\ DOMAIN arrived' = 1 .. m + 1 /\ DOMAIN received' = 1 .. m + 1
          /\ \A i \in 1 .. m : arrived'[i] = arrived[i] /\ received'[i] = received[i]
          /\ arrived'[m + 1] = last /\ received'[m + 1] = r
      <4>1. /\ Append(arrived, last) \in Seq(1 .. MaxPackets)
            /\ Len(Append(arrived, last)) = m + 1
            /\ \A i \in 1 .. m : Append(arrived, last)[i] = arrived[i]
            /\ Append(arrived, last)[m + 1] = last
        BY <1>2, AppendProperties
      <4>2. /\ Append(received, r) \in Seq([line : Seq(Byte), data : Seq(Byte)])
            /\ Len(Append(received, r)) = m + 1
            /\ \A i \in 1 .. m : Append(received, r)[i] = received[i]
            /\ Append(received, r)[m + 1] = r
        BY <1>2, <3>2, AppendProperties
      <4> QED BY <3>1, <4>1, <4>2, LenProperties
    <3> HIDE DEF m
    <3>4. \A i \in DOMAIN arrived' : i \in 1 .. m \/ i = m + 1
      BY <3>2, <3>3
    <3>5. \A i, j \in DOMAIN arrived' : i < j => arrived'[i] < arrived'[j]
      <4> SUFFICES ASSUME NEW i \in DOMAIN arrived', NEW j \in DOMAIN arrived',
                          i < j
                   PROVE  arrived'[i] < arrived'[j]
        OBVIOUS
      <4>1. i \in 1 .. m
        BY <3>2, <3>3
      <4>2. CASE j \in 1 .. m
        BY <1>5, <3>2, <3>3, <4>1, <4>2 DEF Delivered
      <4>3. CASE j = m + 1
        BY <2>2, <3>2, <3>3, <4>1, <4>3
      <4> QED BY <3>4, <4>2, <4>3
    <3>6. \A i \in DOMAIN arrived' :
              /\ arrived'[i] \in 1 .. Len(sent')
              /\ received'[i] = [line |-> HeaderOf(sent'[arrived'[i]]),
                                 data |-> BodyOf(sent'[arrived'[i]])]
      <4> SUFFICES ASSUME NEW i \in DOMAIN arrived'
                   PROVE  /\ arrived'[i] \in 1 .. last
                          /\ received'[i] = [line |-> HeaderOf(sent[arrived'[i]]),
                                             data |-> BodyOf(sent[arrived'[i]])]
        BY <1>1
      <4>1. CASE i \in 1 .. m
        BY <1>5, <3>2, <3>3, <4>1 DEF Delivered
      <4>2. CASE i = m + 1
        BY <1>2, <1>0, <3>3, <4>2 DEF r
      <4> QED BY <3>4, <4>1, <4>2
    <3>7. \A n \in 1 .. Len(sent') :
              Fits(sent'[n]) <=> \E i \in DOMAIN arrived' : arrived'[i] = n
      <4> SUFFICES ASSUME NEW n \in 1 .. last
                   PROVE  Fits(sent[n])
                              <=> \E i \in DOMAIN arrived' : arrived'[i] = n
        BY <1>1
      <4>1. CASE n < last
        <5>1. Fits(sent[n]) <=> \E i \in DOMAIN arrived : arrived[i] = n
          BY <1>5, <4>1 DEF Delivered
        <5>2. \A i \in DOMAIN arrived : i \in DOMAIN arrived'
                                         /\ arrived'[i] = arrived[i]
          BY <3>2, <3>3
        <5>3. \A i \in DOMAIN arrived' :
                  arrived'[i] = n => i \in DOMAIN arrived /\ arrived[i] = n
          BY <1>2, <3>2, <3>3, <3>4, <4>1
        <5> QED BY <5>1, <5>2, <5>3
      <4>2. CASE n = last
        <5>1. m + 1 \in DOMAIN arrived' /\ arrived'[m + 1] = n
          BY <3>2, <3>3, <4>2
        <5>2. Fits(sent[n])
          BY <1>0, <2>4, <4>2
        <5> QED BY <5>1, <5>2
      <4>3. n < last \/ n = last
        <5>1. n \in 1 .. last /\ last \in Nat
          BY <1>2
        <5> HIDE DEF last
        <5> QED BY <5>1
      <4> QED BY <4>1, <4>2, <4>3
    <3>8. Delivered'
      BY <2>1, <3>3, <3>5, <3>6, <3>7 DEF Delivered
    <3> QED BY <1>5, <2>1, <3>8 DEF CleanInv
  <2> QED BY <2>3, <2>4
<1> QED BY <1>6, <1>7, <1>8

\* For any packets of ESP3's form, any contents, CRC, silences and size of the
\* buffer: on a line that damages nothing GetPacket returns the packets that
\* fit, each once, whole and in their order.
THEOREM UndamagedArrives ==
    ASSUME \A p \in Packets : WellFormed(p)
    PROVE  FramerSpec => []Undamaged
<1>1. FramerInit => CleanInv
  <2> SUFFICES ASSUME FramerInit PROVE CleanInv
    OBVIOUS
  <2>1. /\ wire = <<>> /\ status = "sync" /\ sent = <<>> /\ received = <<>>
        /\ arrived = <<>> /\ Len(sent) = 0 /\ taken = {}
    BY DEF FramerInit
  <2>2. DOMAIN arrived = {} /\ DOMAIN received = {} /\ 1 .. Len(sent) = {}
    BY <2>1
  <2> QED BY <2>1, <2>2 DEF CleanInv, Delivered
<1>2. HistoryInv /\ CleanInv /\ [FramerNext]_framerVars => CleanInv'
  <2> SUFFICES ASSUME HistoryInv, CleanInv, [FramerNext]_framerVars
               PROVE  CleanInv'
    OBVIOUS
  <2>1. CASE UNCHANGED framerVars
    BY <2>1 DEF framerVars, inputVars, CleanInv, Delivered, Rest, Reading
  <2>2. ASSUME NEW p \in Packets, wire = <<>>, SendPacket(p) PROVE CleanInv'
    BY <2>2, CleanSend
  <2>3. ASSUME NEW p \in Packets, NEW q, SendDamaged(p, q) PROVE CleanInv'
    <3>1. faults' = faults + 1 /\ faults \in Nat
      BY <2>3, FramerAssumption DEF SendDamaged, HistoryInv, FramerTypeOK
    <3>2. faults' # 0
      BY <3>1
    <3> QED BY <3>2 DEF CleanInv
  <2>4. ASSUME NEW timeout \in BOOLEAN, GetPacket(timeout) PROVE CleanInv'
    BY <2>4, CleanCall
  <2>5. ASSUME ReadByte PROVE CleanInv'
    BY <2>5, CleanRead
  <2> QED BY <2>1, <2>2, <2>3, <2>4, <2>5 DEF FramerNext
<1>3. HistoryInv /\ CleanInv => Undamaged
  <2> SUFFICES ASSUME HistoryInv, CleanInv, faults = 0
               PROVE  /\ Genuine /\ CostOfFault
                      /\ wire = <<>> =>
                             \A n \in DOMAIN sent :
                                 Fits(sent[n]) <=>
                                     \E i \in DOMAIN arrived : arrived[i] = n
    BY DEF Undamaged
  <2>1. Delivered /\ FramerTypeOK /\ taken = {}
    BY DEF CleanInv, HistoryInv
  <2>2. DOMAIN sent = 1 .. Len(sent) /\ sent \in Seq(Packets)
    BY <2>1, LenProperties DEF FramerTypeOK
  <2>3. ASSUME NEW i \in DOMAIN arrived
        PROVE  sent[arrived[i]] =
                   <<SYNC_CODE>> \o received[i].line
                       \o <<Crc8Check(received[i].line)>> \o received[i].data
                       \o <<Crc8Check(received[i].data)>>
    <3>1. received[i] = [line |-> HeaderOf(sent[arrived[i]]),
                         data |-> BodyOf(sent[arrived[i]])]
          /\ arrived[i] \in 1 .. Len(sent)
      BY <2>1 DEF Delivered
    <3>2. WellFormed(sent[arrived[i]])
      BY <2>2, <3>1
    <3>3. received[i].line = HeaderOf(sent[arrived[i]])
          /\ received[i].data = BodyOf(sent[arrived[i]])
      BY <3>1
    <3> QED BY <3>2, <3>3 DEF WellFormed
  <2>4. Genuine
    BY <2>1, <2>3 DEF Genuine, Delivered
  <2>5. wire = <<>> =>
            \A n \in DOMAIN sent :
                Fits(sent[n]) <=> \E i \in DOMAIN arrived : arrived[i] = n
    BY <2>1, <2>2 DEF Delivered
  <2>6. CostOfFault
    BY <2>1, <2>5 DEF CostOfFault
  <2> QED BY <2>4, <2>5, <2>6
<1>4. SearchInv' /\ HistoryInv /\ [FramerNext]_framerVars => HistoryInv'
  BY HistoryStep
<1> QED BY <1>1, <1>2, <1>3, <1>4, HistoryInit, FramerInvariance, PTL
        DEF FramerSpec

\* What has been found of the packet that is being read, if it is the one
\* on the wire.
Underway ==
    wire # <<>> /\ \E k \in Nat : /\ Rest(sent[Len(sent)], k)
                                  /\ Reading(sent[Len(sent)], k)

Returned(p) ==
    /\ received' = Append(received, [line |-> HeaderOf(p), data |-> BodyOf(p)])
    /\ arrived' = Append(arrived, Len(sent))

\* A search that is at its begin finds the packet sent next, a call after a
\* silence the packet in front of it, and a packet found is read to its end
\* and returned.
FoundIsReturned ==
    /\ \A p \in Packets : SendPacket(p) /\ status = "sync" => Underway'
    /\ GetPacket(TRUE) /\ wire # <<>> /\ wire = sent[Len(sent)] => Underway'
    /\ Underway => \/ Underway' /\ UNCHANGED <<received, arrived>>
                   \/ /\ wire' = <<>> /\ status' = "sync"
                      /\ IF Fits(sent[Len(sent)]) THEN Returned(sent[Len(sent)])
                         ELSE UNCHANGED <<received, arrived>>

\* The first byte of a packet sent is the next one, ...
LEMMA SentIsFound ==
    ASSUME HistoryInv, NEW p \in Packets, WellFormed(p), SendPacket(p),
           status = "sync"
    PROVE  Underway'
<1>1. sent' = Append(sent, p) /\ wire' = p /\ status' = status
  BY DEF SendPacket
<1>2. sent'[Len(sent')] = p
  <2>1. sent \in Seq(Packets)
    BY DEF HistoryInv, FramerTypeOK
  <2>2. Len(sent') = Len(sent) + 1 /\ sent'[Len(sent) + 1] = p
    BY <1>1, <2>1, AppendProperties
  <2> QED BY <2>2
<1>3. p \in Seq(Byte) /\ Len(p) \in Nat /\ Len(p) >= 8 /\ p # <<>>
  <2>1. p \in Seq(Byte)
    BY FramerAssumption
  <2>2. Len(p) \in Nat /\ Len(p) >= 8
    BY <2>1, FramePlaces
  <2> QED BY <2>1, <2>2, EmptySeq
<1>4. Rest(p, 0)' /\ Reading(p, 0)'
  BY <1>1, <1>3 DEF Rest, Reading
<1>5. \E k \in Nat : Rest(p, k)' /\ Reading(p, k)'
  BY <1>4
<1> QED BY <1>1, <1>2, <1>3, <1>5 DEF Underway

LEMMA SilenceFinds ==
    ASSUME HistoryInv, GetPacket(TRUE), wire # <<>>, wire = sent[Len(sent)]
    PROVE  Underway'
<1>1. PICK p \in Seq(Byte) : p = wire
  BY DEF HistoryInv, FramerTypeOK
<1>2. Len(p) \in Nat /\ Len(p) >= 1
  BY <1>1, LenProperties, EmptySeq
<1>3. wire' = p /\ sent' = sent /\ status' = "sync" /\ sent[Len(sent)] = p
  BY <1>1 DEF GetPacket, inputVars
<1>4. Rest(p, 0)' /\ Reading(p, 0)'
  BY <1>2, <1>3 DEF Rest, Reading
<1>5. \E k \in Nat : Rest(p, k)' /\ Reading(p, k)'
  BY <1>4
<1> QED BY <1>1, <1>3, <1>5 DEF Underway

\* ... and a packet found is not lost, for a call of GetPacket begins in
\* front of it only.
LEMMA FoundStays ==
    ASSUME HistoryInv, Underway, \A p \in Packets : WellFormed(p),
           [FramerNext]_framerVars
    PROVE  \/ Underway' /\ UNCHANGED <<received, arrived>>
           \/ /\ wire' = <<>> /\ status' = "sync"
              /\ IF Fits(sent[Len(sent)]) THEN Returned(sent[Len(sent)])
                 ELSE UNCHANGED <<received, arrived>>
<1>1. wire # <<>> /\ sent \in Seq(Packets)
  BY DEF Underway, HistoryInv, FramerTypeOK
<1>2. PICK p : p = sent[Len(sent)]
  OBVIOUS
<1>3. PICK k \in Nat : Rest(p, k) /\ Reading(p, k)
  BY <1>2 DEF Underway
<1>4. CASE UNCHANGED framerVars
  BY <1>4 DEF framerVars, inputVars, Underway, Rest, Reading
<1>5. ASSUME NEW timeout \in BOOLEAN, GetPacket(timeout)
      PROVE  Underway' /\ UNCHANGED <<received, arrived>>
  <2>1. /\ UNCHANGED <<wire, sent, received, arrived>> /\ ~call
        /\ status' = IF timeout THEN "sync" ELSE status
    BY <1>5 DEF GetPacket, inputVars
  <2>2. k = 0 /\ status = "sync"
    BY <2>1, <1>3 DEF Reading
  <2>3. Rest(p, 0)' /\ Reading(p, 0)'
    <3>1. status' = "sync" /\ wire' = wire
      BY <2>1, <2>2
    <3>2. Rest(p, 0)'
      BY <1>3, <2>2, <3>1 DEF Rest
    <3> QED BY <3>1, <3>2 DEF Reading
  <2>4. sent'[Len(sent')] = p
    BY <1>2, <2>1
  <2>5. \E j \in Nat : Rest(p, j)' /\ Reading(p, j)'
    BY <2>3
  <2> QED BY <1>1, <2>1, <2>4, <2>5 DEF Underway
<1>6. CASE ReadByte
  <2>1. Read /\ sent' = sent
    BY <1>6 DEF ReadByte, GetSync, GetHeader, Resync, BadHeader, GoodHeader,
       EmptyPacket, GetData, TooLong, GoodPacket, BadPacket, Read, inputVars
  <2>2. p \in Packets /\ p \in Seq(Byte) /\ WellFormed(p) /\ Len(p) \in Nat
    <3>1. Len(sent) \in 1 .. Len(sent)
      BY <1>1, LenProperties DEF HistoryInv
    <3>2. p \in Packets
      BY <1>1, <1>2, <3>1
    <3> QED BY <3>2, FramerAssumption, LenProperties
  <2>3. CASE k + 1 < Len(p)
    <3>1. wire' # <<>> /\ Rest(p, k + 1)'
      BY <2>1, <2>2, <1>3, <2>3, NextByte
    <3>2. Reading(p, k + 1)' /\ UNCHANGED <<received, arrived>>
      BY <1>6, <2>2, <1>3, <2>3, ByteIsRead
    <3>3. sent'[Len(sent')] = p
      BY <1>2, <2>1
    <3>4. \E j \in Nat : Rest(p, j)' /\ Reading(p, j)'
      BY <3>1, <3>2
    <3> QED BY <3>1, <3>2, <3>3, <3>4 DEF Underway
  <2>4. CASE k + 1 = Len(p)
    BY <1>2, <1>3, <1>6, <2>2, <2>4, LastByteIsRead DEF Returned
  <2>5. k + 1 < Len(p) \/ k + 1 = Len(p)
    BY <1>3, <2>2 DEF Rest
  <2> QED BY <2>3, <2>4, <2>5
<1> QED BY <1>1, <1>4, <1>5, <1>6 DEF FramerNext

\* Whatever was lost or altered before, and for any CRC: if the search is at
\* its begin when a packet of ESP3's form is sent, or a call with a silence
\* before it begins in front of the packet, the packet is returned unless it
\* is too long for the buffer.
THEOREM FoundPacketArrives ==
    ASSUME \A p \in Packets : WellFormed(p)
    PROVE  FramerSpec => [][FoundIsReturned]_framerVars
<1>1. HistoryInv /\ [FramerNext]_framerVars => [FoundIsReturned]_framerVars
  BY SentIsFound, SilenceFinds, FoundStays DEF FoundIsReturned
<1>2. SearchInv' /\ HistoryInv /\ [FramerNext]_framerVars => HistoryInv'
  BY HistoryStep
<1> QED BY <1>1, <1>2, HistoryInit, FramerInvariance, PTL DEF FramerSpec

(***************************************************************************)
(* A packet met in a header that is none: what was damaged before has left *)
(* a search that collects header bytes when the packet is sent.            *)
(***************************************************************************)
\* The header bytes collected end with the first k of the packet p.
Amid(p, k) ==
    /\ status \in {"header", "crc8h"}
    /\ Len(line) <= 4 /\ (status = "header" => Len(line) < 4)
    /\ k <= Len(line)
    /\ \A i \in 1 .. k : line[(Len(line) - k) + i] = p[i]

Met ==
    wire # <<>> /\ \E k \in Nat : /\ Rest(sent[Len(sent)], k)
                                  /\ Amid(sent[Len(sent)], k)

\* A call that returned has read the packet's sync byte.
Begun ==
    /\ ~call /\ status = "header" /\ line = <<>>
    /\ wire # <<>> /\ Rest(sent[Len(sent)], 1)

\* The sync byte of such a packet is found among the header bytes by the
\* fifth byte at the latest, unless these pass for a header, or there were
\* four without it and the search is deaf for good.  A packet whose sync
\* byte took the place of the CRC of other data is found by the next call,
\* unless there is a silence in between.
FoundInHeader ==
    /\ \A p \in Packets :
           SendPacket(p) /\ status \in {"header", "crc8h"} /\ ~Deaf => Met'
    /\ Met => Met' \/ Underway' \/ Deaf' \/ GoodHeader \/ EmptyPacket
    /\ BadPacket /\ wire = sent[Len(sent)] => Begun'
    /\ Begun => Begun' \/ Underway' \/ GetPacket(TRUE)

\* What Resync keeps of the header bytes.
LEMMA AfterSyncIs ==
    ASSUME line \in Seq(Byte), Len(line) = HEADER_BYTES,
           \E i \in DOMAIN line : line[i] = SYNC_CODE
    PROVE  \E a \in 1 .. 4 :
               /\ line[a] = SYNC_CODE /\ \A j \in 1 .. a - 1 : line[j] # SYNC_CODE
               /\ AfterSync \in Seq(Byte) /\ Len(AfterSync) = 4 - a
               /\ \A i \in 1 .. 4 - a : AfterSync[i] = line[a + i]
<1> DEFINE First(i) == line[i] = SYNC_CODE /\ \A j \in 1 .. i - 1 : line[j] # SYNC_CODE
           at == CHOOSE i \in DOMAIN line : First(i)
<1>1. \E i \in DOMAIN line : First(i)
  <2>1. DOMAIN line = {1, 2, 3, 4}
    BY DEF HEADER_BYTES
  <2> QED BY <2>1
<1>2. at \in DOMAIN line /\ First(at)
  BY <1>1
<1> HIDE DEF at
<1>3. at \in 1 .. 4 /\ Len(line) = 4
  BY <1>2 DEF HEADER_BYTES
<1> DEFINE rest == SubSeq(line, at + 1, Len(line))
<1>4. /\ rest \in Seq(Byte) /\ Len(rest) = 4 - at
      /\ \A i \in 1 .. 4 - at : rest[i] = line[at + i]
  <2>1. \A i \in (at + 1) .. 4 : line[i] \in Byte
    <3>1. \A i \in (at + 1) .. 4 : i \in 1 .. 4
      BY <1>3
    <3>2. \A i \in 1 .. 4 : line[i] \in Byte
      BY <1>3, ElementOfSeq
    <3> QED BY <3>1, <3>2
  <2>2. PICK a \in 1 .. 4 : a = at
    BY <1>3
  <2>3. /\ SubSeq(line, a + 1, 4) \in Seq(Byte)
        /\ Len(SubSeq(line, a + 1, 4)) =
               IF a + 1 <= 4 THEN 4 - (a + 1) + 1 ELSE 0
        /\ \A i \in 1 .. (4 - (a + 1) + 1) :
               SubSeq(line, a + 1, 4)[i] = line[(a + 1) + i - 1]
    <3>1. a + 1 \in Int /\ 4 \in Int /\ \A i \in (a + 1) .. 4 : line[i] \in Byte
      BY <2>1, <2>2
    <3> QED BY ONLY <3>1, SubSeqProperties
  <2>4. rest = SubSeq(line, a + 1, 4)
    BY <1>3, <2>2
  <2> HIDE DEF rest
  <2>5. /\ 4 - (a + 1) + 1 = 4 - a /\ (a + 1 <= 4 \/ 4 - a = 0)
        /\ \A i \in 1 .. 4 - a : (a + 1) + i - 1 = a + i
    OBVIOUS
  <2> QED BY <2>2, <2>3, <2>4, <2>5
<1>5. AfterSync = rest
  BY DEF AfterSync, at
<1> QED BY <1>2, <1>3, <1>4, <1>5

LEMMA MetReads ==
    ASSUME HistoryInv, NEW p \in Seq(Byte), WellFormed(p), NEW k \in Nat,
           Rest(p, k), Amid(p, k), ReadByte
    PROVE  \/ Amid(p, k + 1)' \/ Reading(p, k + 1)'
           \/ Deaf' \/ GoodHeader \/ EmptyPacket
<1>0. /\ Len(p) \in Nat /\ Len(p) >= 8 /\ p[1] = SYNC_CODE
      /\ HeaderOf(p) \in Seq(Byte) /\ Len(HeaderOf(p)) = 4
      /\ \A i \in 1 .. 4 : HeaderOf(p)[i] = p[i + 1]
  BY FramePlaces
<1>1. line \in Seq(Byte) /\ (status = "crc8h" => Len(line) = 4)
  BY DEF HistoryInv, SearchInv, SearchTypes, HEADER_BYTES
<1>2. Read
  BY DEF ReadByte, GetSync, GetHeader, Resync, BadHeader, GoodHeader,
     EmptyPacket, GetData, TooLong, GoodPacket, BadPacket
<1>3. rxByte = p[k + 1] /\ rxByte \in Byte /\ call
  <2>1. rxByte = p[k + 1]
    BY <1>0, <1>2, NextByte
  <2>2. rxByte \in Byte /\ call
    BY <1>2, ReadTypes DEF HistoryInv, SearchInv
  <2> QED BY <2>1, <2>2
<1>4. PICK m \in Nat : m = Len(line)
  BY <1>1, LenProperties
<1>5. /\ status \in {"header", "crc8h"} /\ m <= 4 /\ k <= m
      /\ (status = "header" => m < 4)
      /\ \A i \in 1 .. k : line[(m - k) + i] = p[i]
  BY <1>4 DEF Amid
<1>6. CASE GetHeader
  <2>1. /\ line' = Append(line, p[k + 1]) /\ status = "header" /\ m < 4
        /\ status' = IF m + 1 = 4 THEN "crc8h" ELSE "header"
    BY <1>3, <1>4, <1>5, <1>6 DEF GetHeader, HEADER_BYTES
  <2>2. /\ Len(line') = m + 1 /\ line'[m + 1] = p[k + 1]
        /\ \A i \in 1 .. m : line'[i] = line[i]
    BY <1>1, <1>3, <1>4, <2>1, AppendProperties
  <2>3. ASSUME NEW i \in 1 .. k + 1
        PROVE  line'[((m + 1) - (k + 1)) + i] = p[i]
    <3>1. CASE i = k + 1
      <4>1. ((m + 1) - (k + 1)) + i = m + 1
        BY <3>1
      <4> QED BY <2>2, <3>1, <4>1
    <3>2. CASE i # k + 1
      <4>1. i \in 1 .. k /\ ((m + 1) - (k + 1)) + i = (m - k) + i
            /\ (m - k) + i \in 1 .. m
        BY <1>5, <3>2
      <4> QED BY <1>5, <2>2, <4>1
    <3> QED BY <3>1, <3>2
  <2>4. /\ status' \in {"header", "crc8h"} /\ m + 1 <= 4 /\ k + 1 <= m + 1
        /\ (status' = "header" => m + 1 < 4)
    BY <1>5, <2>1
  <2> QED BY <2>2, <2>3, <2>4 DEF Amid
<1>7. CASE BadHeader
  <2>1. status = "crc8h" /\ m = 4 /\ \A i \in DOMAIN line : line[i] # SYNC_CODE
    BY <1>1, <1>4, <1>7 DEF BadHeader
  <2>2. DOMAIN line = 1 .. 4
    BY <1>1, <1>4, <2>1, LenProperties
  <2>3. k = 0
    <3>1. CASE k # 0
      <4>1. (m - k) + 1 \in 1 .. 4 /\ 1 \in 1 .. k
        BY <1>5, <2>1, <3>1
      <4>2. line[(m - k) + 1] = p[1]
        BY <1>5, <4>1
      <4> QED BY <1>0, <2>1, <2>2, <4>1, <4>2
    <3> QED BY <3>1
  <2>4. rxByte = SYNC_CODE
    BY <1>0, <1>3, <2>3
  <2>5. status' = "header" /\ line' = line
    BY <1>7, <2>4 DEF BadHeader
  <2>6. Len(line') = 4 /\ HEADER_BYTES = 4
    BY <1>4, <2>1, <2>5 DEF HEADER_BYTES
  <2> QED BY <2>5, <2>6 DEF Deaf
<1>8. CASE Resync
  <2>1. /\ status = "crc8h" /\ m = 4 /\ \E i \in DOMAIN line : line[i] = SYNC_CODE
        /\ line' = Append(AfterSync, p[k + 1]) /\ call' = call
        /\ status' = IF Len(line') < 4 THEN "header" ELSE "crc8h"
    BY <1>1, <1>3, <1>4, <1>8 DEF Resync, HEADER_BYTES, Continue
  <2>2. PICK a \in 1 .. 4 :
            /\ line[a] = SYNC_CODE /\ \A j \in 1 .. a - 1 : line[j] # SYNC_CODE
            /\ AfterSync \in Seq(Byte) /\ Len(AfterSync) = 4 - a
            /\ \A i \in 1 .. 4 - a : AfterSync[i] = line[a + i]
    BY <1>1, <2>1, AfterSyncIs DEF HEADER_BYTES
  <2>3. /\ Len(line') = (4 - a) + 1 /\ line'[(4 - a) + 1] = p[k + 1]
        /\ \A i \in 1 .. 4 - a : line'[i] = line[a + i]
    BY <1>3, <2>1, <2>2, AppendProperties
  <2>4. a <= (4 - k) + 1
    <3>1. CASE a > (4 - k) + 1
      <4>1. (4 - k) + 1 \in 1 .. a - 1 /\ 1 \in 1 .. k
        BY <1>5, <2>1, <3>1
      <4>2. line[(4 - k) + 1] = p[1]
        BY <1>5, <2>1, <4>1
      <4> QED BY <1>0, <2>2, <4>1, <4>2
    <3> QED BY <3>1
  <2>5. CASE a = (4 - k) + 1
    <3>1. Len(line') = k /\ k \in 1 .. 4
      BY <1>5, <2>1, <2>3, <2>5
    <3>2. ASSUME NEW i \in 1 .. k
          PROVE  line'[i] = p[i + 1]
      <4>1. CASE i = k
        <5>1. i = (4 - a) + 1
          BY <2>5, <4>1
        <5> QED BY <2>3, <4>1, <5>1
      <4>2. CASE i # k
        <5>1. i \in 1 .. 4 - a /\ a + i = (4 - k) + (i + 1) /\ i + 1 \in 1 .. k
          BY <2>5, <3>1, <4>2
        <5>2. line'[i] = line[(4 - k) + (i + 1)]
          BY <2>3, <5>1
        <5> QED BY <1>5, <2>1, <5>1, <5>2
      <4> QED BY <4>1, <4>2
    <3>3. line' \in Seq(Byte)
      BY <1>3, <2>1, <2>2, AppendProperties
    <3>4. CASE k = 4
      <4>1. line' = HeaderOf(p)
        BY <1>0, <3>1, <3>2, <3>3, <3>4, SeqEqual
      <4>2. status' = "crc8h" /\ call' /\ k + 1 = 5
        BY <1>3, <2>1, <3>1, <3>4
      <4> QED BY <4>1, <4>2 DEF Reading
    <3>5. CASE k # 4
      <4>1. status' = "header" /\ call' /\ k + 1 \in 1 .. 4
            /\ Len(line') = (k + 1) - 1
        BY <1>3, <2>1, <3>1, <3>5
      <4>2. \A i \in 1 .. (k + 1) - 1 : line'[i] = p[i + 1]
        BY <3>2
      <4> QED BY <4>1, <4>2 DEF Reading
    <3> QED BY <3>4, <3>5
  <2>6. CASE a # (4 - k) + 1
    <3>1. a <= 4 - k /\ k + 1 <= (4 - a) + 1
      BY <1>5, <2>1, <2>4, <2>6
    <3>2. ASSUME NEW i \in 1 .. k + 1
          PROVE  line'[(((4 - a) + 1) - (k + 1)) + i] = p[i]
      <4>1. CASE i = k + 1
        <5>1. (((4 - a) + 1) - (k + 1)) + i = (4 - a) + 1
          BY <4>1
        <5> QED BY <2>3, <4>1, <5>1
      <4>2. CASE i # k + 1
        <5> DEFINE j == (((4 - a) + 1) - (k + 1)) + i
        <5>1. i \in 1 .. k /\ j \in 1 .. 4 - a /\ a + j = (4 - k) + i
          BY <3>1, <4>2
        <5> HIDE DEF j
        <5>2. line'[j] = line[(4 - k) + i]
          BY <2>3, <5>1
        <5>3. line'[j] = p[i]
          BY <1>5, <2>1, <5>1, <5>2
        <5> QED BY <5>3 DEF j
      <4> QED BY <4>1, <4>2
    <3>3. /\ status' \in {"header", "crc8h"} /\ Len(line') <= 4
          /\ (status' = "header" => Len(line') < 4) /\ k + 1 <= Len(line')
      BY <2>1, <2>3, <3>1
    <3> QED BY <2>3, <3>2, <3>3 DEF Amid
  <2> QED BY <2>5, <2>6
<1> QED
  BY <1>5, <1>6, <1>7, <1>8
  DEF ReadByte, GetSync, GetData, TooLong, GoodPacket, BadPacket

\* A packet of the module is behind whatever is read.
LEMMA OnWireIsPacket ==
    ASSUME HistoryInv, \A p \in Packets : WellFormed(p), wire # <<>>
    PROVE  /\ sent[Len(sent)] \in Seq(Byte) /\ WellFormed(sent[Len(sent)])
           /\ Len(sent[Len(sent)]) \in Nat /\ Len(sent[Len(sent)]) >= 8
<1>1. sent \in Seq(Packets) /\ Len(sent) >= 1
  BY DEF HistoryInv, FramerTypeOK
<1>2. sent[Len(sent)] \in Packets
  <2>1. Len(sent) \in 1 .. Len(sent)
    BY <1>1, LenProperties
  <2> QED BY <1>1, <2>1
<1>3. sent[Len(sent)] \in Seq(Byte) /\ WellFormed(sent[Len(sent)])
  BY <1>2, FramerAssumption
<1> QED BY <1>3, FramePlaces

LEMMA SentIsMet ==
    ASSUME HistoryInv, NEW p \in Packets, WellFormed(p), SendPacket(p),
           status \in {"header", "crc8h"}, ~Deaf
    PROVE  Met'
<1>1. sent' = Append(sent, p) /\ wire' = p /\ status' = status /\ line' = line
  BY DEF SendPacket
<1>2. sent'[Len(sent')] = p
  <2>1. sent \in Seq(Packets)
    BY DEF HistoryInv, FramerTypeOK
  <2>2. Len(sent') = Len(sent) + 1 /\ sent'[Len(sent) + 1] = p
    BY <1>1, <2>1, AppendProperties
  <2> QED BY <2>2
<1>3. Len(p) \in Nat /\ Len(p) >= 8 /\ p # <<>>
  <2>1. p \in Seq(Byte)
    BY FramerAssumption
  <2>2. Len(p) \in Nat /\ Len(p) >= 8
    BY <2>1, FramePlaces
  <2> QED BY <2>1, <2>2, EmptySeq
<1>4. Rest(p, 0)'
  BY <1>1, <1>3 DEF Rest
<1>5. PICK m \in Nat : m = Len(line)
  BY LenProperties DEF HistoryInv, SearchInv, SearchTypes
<1>6. m <= 4 /\ (status = "header" => m < 4)
  <2>1. status = "crc8h" => m = 4
    BY <1>5 DEF HistoryInv, SearchInv, HEADER_BYTES
  <2>2. status = "header" => ~(m >= 4)
    BY <1>5 DEF Deaf, HEADER_BYTES
  <2> QED BY <2>1, <2>2
<1>7. Amid(p, 0)'
  BY <1>1, <1>5, <1>6 DEF Amid
<1>8. \E k \in Nat : Rest(p, k)' /\ Amid(p, k)'
  BY <1>4, <1>7
<1> QED BY <1>1, <1>2, <1>3, <1>8 DEF Met

LEMMA MetStays ==
    ASSUME HistoryInv, Met, \A p \in Packets : WellFormed(p), FramerNext
    PROVE  Met' \/ Underway' \/ Deaf' \/ GoodHeader \/ EmptyPacket
<1>1. PICK p : p = sent[Len(sent)]
  OBVIOUS
<1>2. PICK k \in Nat : Rest(p, k) /\ Amid(p, k)
  BY <1>1 DEF Met
<1>3. /\ wire # <<>> /\ p \in Seq(Byte) /\ WellFormed(p)
      /\ Len(p) \in Nat /\ Len(p) >= 8
  BY <1>1, OnWireIsPacket DEF Met
<1>4. k <= 4
  <2>1. PICK m \in Nat : m = Len(line)
    BY LenProperties DEF HistoryInv, SearchInv, SearchTypes
  <2> QED BY <1>2, <2>1 DEF Amid
<1>5. ASSUME NEW timeout \in BOOLEAN, GetPacket(timeout)
      PROVE  Met' \/ Underway'
  <2>1. /\ UNCHANGED <<wire, sent, line>> /\ ~call
        /\ status' = IF timeout THEN "sync" ELSE status
    BY <1>5 DEF GetPacket, inputVars
  <2>2. status = "header" /\ line = <<>>
    BY <1>2, <2>1 DEF Amid, HistoryInv, SearchInv, EntryState
  <2>3. k = 0
    BY <1>2, <2>2 DEF Amid
  <2>4. sent'[Len(sent')] = p /\ Rest(p, 0)'
    BY <1>1, <1>2, <2>1, <2>3 DEF Rest
  <2>5. CASE timeout
    <3>1. Reading(p, 0)'
      BY <2>1, <2>5 DEF Reading
    <3>2. \E j \in Nat : Rest(p, j)' /\ Reading(p, j)'
      BY <2>4, <3>1
    <3> QED BY <1>3, <2>1, <2>4, <3>2 DEF Underway
  <2>6. CASE ~timeout
    <3>1. Amid(p, 0)'
      BY <1>2, <2>1, <2>3, <2>6 DEF Amid
    <3>2. \E j \in Nat : Rest(p, j)' /\ Amid(p, j)'
      BY <2>4, <3>1
    <3> QED BY <1>3, <2>1, <2>4, <3>2 DEF Met
  <2> QED BY <2>5, <2>6
<1>6. CASE ReadByte
  <2>1. Read /\ sent' = sent
    BY <1>6 DEF ReadByte, GetSync, GetHeader, Resync, BadHeader, GoodHeader,
       EmptyPacket, GetData, TooLong, GoodPacket, BadPacket, Read, inputVars
  <2>2. k + 1 < Len(p) /\ k + 1 \in Nat
    BY <1>3, <1>4
  <2>3. wire' # <<>> /\ Rest(p, k + 1)'
    BY <1>2, <1>3, <2>1, <2>2, NextByte
  <2>4. sent'[Len(sent')] = p
    BY <1>1, <2>1
  <2>5. CASE Amid(p, k + 1)'
    <3>1. \E j \in Nat : Rest(p, j)' /\ Amid(p, j)'
      BY <2>2, <2>3, <2>5
    <3> QED BY <2>3, <2>4, <3>1 DEF Met
  <2>6. CASE Reading(p, k + 1)'
    <3>1. \E j \in Nat : Rest(p, j)' /\ Reading(p, j)'
      BY <2>2, <2>3, <2>6
    <3> QED BY <2>3, <2>4, <3>1 DEF Underway
  <2> QED BY <1>2, <1>3, <1>6, <2>5, <2>6, MetReads
<1> QED BY <1>3, <1>5, <1>6 DEF FramerNext

LEMMA BadPacketBegins ==
    ASSUME HistoryInv, \A p \in Packets : WellFormed(p), BadPacket,
           wire = sent[Len(sent)]
    PROVE  Begun'
<1>1. PICK p : p = sent[Len(sent)]
  OBVIOUS
<1>2. Read /\ wire # <<>> /\ sent' = sent
  BY DEF BadPacket, Read, inputVars
<1>3. p \in Seq(Byte) /\ WellFormed(p) /\ Len(p) \in Nat /\ Len(p) >= 8
  BY <1>1, <1>2, OnWireIsPacket
<1>4. Rest(p, 0)
  BY <1>1, <1>3 DEF Rest
<1>5. /\ rxByte = p[1] /\ wire' # <<>> /\ Rest(p, 1)'
  <2>1. 0 \in Nat /\ 0 + 1 = 1 /\ 1 < Len(p)
    BY <1>3
  <2> QED BY <1>2, <1>3, <1>4, <2>1, NextByte
<1>6. rxByte = SYNC_CODE
  BY <1>3, <1>5, FramePlaces
<1>7. ~call' /\ status' = "header" /\ line' = <<>>
  BY <1>6 DEF BadPacket, Return
<1> QED BY <1>1, <1>2, <1>5, <1>7 DEF Begun

LEMMA BegunStays ==
    ASSUME HistoryInv, Begun, FramerNext, ~GetPacket(TRUE)
    PROVE  Begun' \/ Underway'
<1>1. PICK p : p = sent[Len(sent)]
  OBVIOUS
<1>2. ~call /\ wire # <<>> /\ status = "header" /\ line = <<>> /\ Rest(p, 1)
  BY <1>1 DEF Begun
<1>3. ~ReadByte
  BY <1>2 DEF ReadByte, GetSync, GetHeader, Resync, BadHeader, GoodHeader,
     EmptyPacket, GetData, TooLong, GoodPacket, BadPacket, Read
<1>4. GetPacket(FALSE)
  <2>1. \E timeout \in BOOLEAN : GetPacket(timeout)
    BY <1>2, <1>3 DEF FramerNext
  <2>2. PICK timeout \in BOOLEAN : GetPacket(timeout)
    BY <2>1
  <2>3. timeout = FALSE \/ timeout = TRUE
    OBVIOUS
  <2> QED BY <2>2, <2>3
<1>5. UNCHANGED <<wire, sent, status, line>> /\ call'
  BY <1>4 DEF GetPacket, inputVars
<1>6. Rest(p, 1)' /\ Reading(p, 1)'
  BY <1>2, <1>5 DEF Rest, Reading
<1>7. \E k \in Nat : Rest(p, k)' /\ Reading(p, k)'
  BY <1>6
<1> QED BY <1>1, <1>2, <1>5, <1>7 DEF Underway

\* For any packets of ESP3's form, noise, damage and CRC: a packet that a
\* search in the middle of a header meets is found, unless bytes that are no
\* header have a header's CRC or the search gets deaf; then it is as
\* FoundPacketArrives says.
THEOREM FoundInWrongHeader ==
    ASSUME \A p \in Packets : WellFormed(p)
    PROVE  FramerSpec => [][FoundInHeader]_framerVars
<1>1. HistoryInv /\ FramerNext => FoundInHeader
  BY SentIsMet, MetStays, BadPacketBegins, BegunStays DEF FoundInHeader
<1>2. HistoryInv /\ [FramerNext]_framerVars => [FoundInHeader]_framerVars
  BY <1>1
<1>3. SearchInv' /\ HistoryInv /\ [FramerNext]_framerVars => HistoryInv'
  BY HistoryStep
<1> QED BY <1>2, <1>3, HistoryInit, FramerInvariance, PTL DEF FramerSpec

(***************************************************************************)
(* What GetPacket returns was on the line.  The model forgets the bytes    *)
(* that were read; the history variable seen keeps them and decides        *)
(* nothing.  Whatever is lost or altered and for any CRC, the packets      *)
(* returned are runs of the bytes read with a sync byte, the length and    *)
(* the CRCs of a packet, in their order, and share no byte.                *)
(***************************************************************************)
VARIABLE seen

SeenInit == FramerInit /\ seen = <<>>
SeenNext ==
    /\ FramerNext
    /\ seen' = IF ReadByte THEN Append(seen, rxByte) ELSE seen
SeenSpec == SeenInit /\ [][SeenNext]_<<framerVars, seen>>

\* The packet r was read from byte a on.
FrameAt(r, a) ==
    /\ Len(r.line) = HEADER_BYTES /\ LengthOf(r.line) = Len(r.data)
    /\ Len(r.data) \in 1 .. BufferLength
    /\ a >= 1 /\ a + 6 + Len(r.data) <= Len(seen)
    /\ seen[a] = SYNC_CODE
    /\ \A i \in 1 .. HEADER_BYTES : seen[a + i] = r.line[i]
    /\ seen[a + 5] = Crc8Check(r.line)
    /\ \A i \in 1 .. Len(r.data) : seen[a + 5 + i] = r.data[i]
    /\ seen[a + 6 + Len(r.data)] = Crc8Check(r.data)

Placed(at) ==
    /\ \A i \in DOMAIN received : FrameAt(received[i], at[i])
    /\ \A i, j \in DOMAIN received :
           i < j => at[i] + 6 + Len(received[i].data) < at[j]

OnTheLine == \E at \in [DOMAIN received -> 1 .. Len(seen)] : Placed(at)

\* The packet that is being read begins at s, behind the first e bytes.
Reads(s, e) ==
    /\ s > e /\ seen[s] = SYNC_CODE
    /\ \A i \in 1 .. Len(line) : seen[s + i] = line[i]

Located(e) ==
    /\ status = "header" => Deaf \/ Reads(Len(seen) - Len(line), e)
    /\ status = "crc8h" => /\ Len(line) = HEADER_BYTES
                           /\ Reads(Len(seen) - Len(line), e)
    /\ status \in {"data", "crc8d"} =>
           /\ Reads(Len(seen) - 5 - Len(data), e)
           /\ seen[Len(seen) - Len(data)] = Crc8Check(line)
           /\ \A i \in 1 .. Len(data) :
                  seen[Len(seen) - Len(data) + i] = data[i]

\* The bytes read, and the first of them that belong to packets returned.
SeenInv ==
    /\ seen \in Seq(Byte)
    /\ \E at \in [DOMAIN received -> 1 .. Len(seen)], e \in 0 .. Len(seen) :
           /\ Placed(at) /\ Located(e)
           /\ \A i \in DOMAIN received :
                  at[i] + 6 + Len(received[i].data) <= e

SeenMore(b) ==
    /\ seen' \in Seq(Byte) /\ Len(seen) \in Nat
    /\ Len(seen') = Len(seen) + 1
    /\ \A i \in 1 .. Len(seen) : seen'[i] = seen[i]
    /\ seen'[Len(seen) + 1] = b

LEMMA ByteIsSeen ==
    ASSUME seen \in Seq(Byte), NEW b \in Byte, seen' = Append(seen, b)
    PROVE  SeenMore(b)
BY AppendProperties, LenProperties DEF SeenMore

\* What was read stays where it is.
LEMMA ReadsStays ==
    ASSUME NEW b, SeenMore(b), NEW s \in Int, NEW e \in Nat, Reads(s, e),
           Len(line) \in Nat, s + Len(line) <= Len(seen), line' = line
    PROVE  Reads(s, e)'
<1>1. s \in 1 .. Len(seen) /\ \A i \in 1 .. Len(line) : s + i \in 1 .. Len(seen)
  BY DEF Reads, SeenMore
<1> QED BY <1>1 DEF Reads, SeenMore

LEMMA FrameStays ==
    ASSUME NEW b, SeenMore(b), NEW r, NEW a \in Nat, FrameAt(r, a)
    PROVE  FrameAt(r, a)'
<1>1. PICK n \in Nat : n = Len(r.data)
  BY DEF FrameAt
<1>2. /\ a >= 1 /\ a + 6 + n <= Len(seen) /\ Len(seen) \in Nat
      /\ Len(seen') = Len(seen) + 1
  BY <1>1 DEF FrameAt, SeenMore
<1>3. /\ a \in 1 .. Len(seen) /\ a + 5 \in 1 .. Len(seen)
      /\ a + 6 + n \in 1 .. Len(seen) /\ a + 6 + n <= Len(seen')
      /\ \A i \in 1 .. HEADER_BYTES : a + i \in 1 .. Len(seen)
      /\ \A i \in 1 .. n : a + 5 + i \in 1 .. Len(seen)
  BY <1>2 DEF HEADER_BYTES
<1> QED BY <1>1, <1>3 DEF FrameAt, SeenMore

\* A byte that returns no packet.
LEMMA NothingReturned ==
    ASSUME SeenInv, NEW b, SeenMore(b), received' = received,
           \A e \in 0 .. Len(seen) : Located(e) => Located(e)'
    PROVE  SeenInv'
<1>1. PICK at \in [DOMAIN received -> 1 .. Len(seen)], e \in 0 .. Len(seen) :
           /\ Placed(at) /\ Located(e)
           /\ \A i \in DOMAIN received :
                  at[i] + 6 + Len(received[i].data) <= e
  BY DEF SeenInv
<1>2. /\ at \in [DOMAIN received' -> 1 .. Len(seen')]
      /\ e \in 0 .. Len(seen') /\ seen' \in Seq(Byte)
  <2>1. \A i \in 1 .. Len(seen) : i \in 1 .. Len(seen')
    BY DEF SeenMore
  <2>2. e \in 0 .. Len(seen')
    BY DEF SeenMore
  <2> QED BY <2>1, <2>2 DEF SeenMore
<1>3. Placed(at)'
  <2>1. ASSUME NEW i \in DOMAIN received PROVE FrameAt(received[i], at[i])'
    <3>1. PICK r : r = received[i]
      OBVIOUS
    <3>2. PICK a \in Nat : a = at[i]
      BY DEF SeenMore
    <3>3. FrameAt(r, a)
      BY <1>1, <3>1, <3>2 DEF Placed
    <3>4. FrameAt(r, a)'
      BY <3>3, FrameStays
    <3>5. received'[i] = r
      BY <3>1
    <3> QED BY <3>2, <3>4, <3>5
  <2> QED BY <1>1, <2>1 DEF Placed
<1>4. Located(e)'
  BY <1>1
<1> QED BY <1>1, <1>2, <1>3, <1>4 DEF SeenInv

\* The actions that look for a packet ...
LEMMA SyncLocated ==
    ASSUME NEW b, SeenMore(b), NEW e \in 0 .. Len(seen),
           status' \in {"sync", "header"},
           status' = "header" => b = SYNC_CODE /\ line' = <<>>
    PROVE  Located(e)'
<1>1. PICK n \in Nat : n = Len(seen)
  BY DEF SeenMore
<1>2. /\ Len(seen') = n + 1 /\ n + 1 > e /\ n + 1 - 0 = n + 1
      /\ seen'[n + 1] = b
  BY <1>1 DEF SeenMore
<1>3. CASE status' = "sync"
  BY <1>3 DEF Located
<1>4. CASE status' = "header"
  <2>1. Len(line') = 0 /\ \A i \in 1 .. 0 : FALSE
    BY <1>4
  <2>2. Reads(Len(seen) - Len(line), e)'
    BY <1>2, <1>4, <2>1 DEF Reads
  <2> QED BY <1>4, <2>2 DEF Located
<1> QED BY <1>3, <1>4

\* ... and those that go on with it.
LEMMA HeaderLocated ==
    ASSUME SearchTypes, NEW b \in Byte, SeenMore(b), NEW e \in 0 .. Len(seen),
           Located(e), status = "header", line' = Append(line, b),
           status' = IF Len(line) + 1 = HEADER_BYTES THEN "crc8h" ELSE status
    PROVE  Located(e)'
<1>1. PICK n \in Nat : n = Len(seen)
  BY DEF SeenMore
<1>2. PICK m \in Nat : m = Len(line)
  BY LenProperties DEF SearchTypes
<1>3. /\ Len(line') = m + 1 /\ line'[m + 1] = b
      /\ \A i \in 1 .. m : line'[i] = line[i]
  BY <1>2, AppendProperties DEF SearchTypes
<1>4. /\ Len(seen') = n + 1 /\ seen'[n + 1] = b
      /\ \A i \in 1 .. n : seen'[i] = seen[i]
  BY <1>1 DEF SeenMore
<1>5. CASE Deaf
  <2>1. m >= 4
    BY <1>2, <1>5 DEF Deaf, HEADER_BYTES
  <2>2. m + 1 >= 4 /\ m + 1 # 4
    BY <2>1
  <2>3. status' = "header" /\ Deaf'
    BY <1>2, <1>3, <2>2 DEF Deaf, HEADER_BYTES
  <2> QED BY <2>3 DEF Located
<1>6. CASE ~Deaf
  <2>1. PICK s \in Int : s = n - m
    OBVIOUS
  <2>2. /\ s > e /\ seen[s] = SYNC_CODE
        /\ \A i \in 1 .. m : seen[s + i] = line[i]
    BY <1>1, <1>2, <1>6, <2>1 DEF Located, Reads
  <2>3. /\ s \in 1 .. n /\ s + (m + 1) = n + 1 /\ (n + 1) - (m + 1) = s
        /\ \A i \in 1 .. m : s + i \in 1 .. n
        /\ \A i \in 1 .. m + 1 : i \in 1 .. m \/ i = m + 1
    BY <2>1, <2>2
  <2>4. seen'[s] = SYNC_CODE
    BY <1>4, <2>2, <2>3
  <2>5. ASSUME NEW i \in 1 .. m + 1 PROVE seen'[s + i] = line'[i]
    <3>1. CASE i \in 1 .. m
      BY <1>3, <1>4, <2>2, <2>3, <3>1
    <3>2. CASE i = m + 1
      BY <1>3, <1>4, <2>3, <3>2
    <3> QED BY <2>3, <3>1, <3>2
  <2>6. Reads(Len(seen) - Len(line), e)'
    BY <1>3, <1>4, <2>2, <2>3, <2>4, <2>5 DEF Reads
  <2>7. status' \in {"header", "crc8h"}
        /\ (status' = "crc8h" => Len(line') = HEADER_BYTES)
    BY <1>2, <1>3
  <2> QED BY <2>6, <2>7 DEF Located
<1> QED BY <1>5, <1>6

\* The packet whose header was none begins at the first sync byte in it.
LEMMA ResyncLocated ==
    ASSUME SearchTypes, NEW b \in Byte, SeenMore(b), NEW e \in 0 .. Len(seen),
           Located(e), status = "crc8h", \E i \in DOMAIN line : line[i] = SYNC_CODE,
           line' = Append(AfterSync, b),
           status' = IF Len(line') < HEADER_BYTES THEN "header" ELSE status
    PROVE  Located(e)'
<1> DEFINE First(i) == /\ line[i] = SYNC_CODE
                       /\ \A j \in 1 .. i - 1 : line[j] # SYNC_CODE
           at == CHOOSE i \in DOMAIN line : First(i)
<1>1. PICK n \in Nat : n = Len(seen)
  BY DEF SeenMore
<1>2. /\ Len(line) = 4 /\ line \in Seq(Byte) /\ DOMAIN line = 1 .. 4
      /\ Reads(n - 4, e)
  BY <1>1, LenProperties DEF Located, HEADER_BYTES, SearchTypes
<1>3. at \in 1 .. 4 /\ line[at] = SYNC_CODE
  <2>1. \E i \in DOMAIN line : First(i)
    <3>1. DOMAIN line = {1, 2, 3, 4}
      BY <1>2
    <3> QED BY <3>1
  <2>2. at \in DOMAIN line /\ First(at)
    BY <2>1
  <2> HIDE DEF at
  <2> QED BY <1>2, <2>2
<1>4. AfterSync = SubSeq(line, at + 1, 4)
  BY <1>2 DEF AfterSync
<1> HIDE DEF at, First
<1>5. PICK a \in 1 .. 4 : a = at
  BY <1>3
<1>6. /\ AfterSync \in Seq(Byte) /\ Len(AfterSync) = 4 - a
      /\ \A i \in 1 .. 4 - a : AfterSync[i] = line[a + i]
  <2>1. a + 1 \in 1 .. 5 /\ \A i \in a + 1 .. 4 : line[i] \in Byte
    <3>1. ASSUME NEW i \in 1 .. 4 PROVE line[i] \in Byte
      <4>1. line \in Seq(Byte) /\ i \in 1 .. Len(line)
        BY <1>2
      <4> QED BY <4>1, ElementOfSeq
    <3>2. \A i \in a + 1 .. 4 : i \in 1 .. 4
      OBVIOUS
    <3> QED BY <3>1, <3>2
  <2>2. /\ SubSeq(line, a + 1, 4) \in Seq(Byte)
        /\ Len(SubSeq(line, a + 1, 4)) = 4 - a
        /\ \A i \in 1 .. 4 - a : SubSeq(line, a + 1, 4)[i] = line[a + i]
    BY <1>2, <2>1, SubSeqProperties
  <2> QED BY <1>4, <1>5, <2>2
<1>7. /\ Len(line') = 5 - a /\ line'[5 - a] = b
      /\ \A i \in 1 .. 4 - a : line'[i] = line[a + i]
  <2>1. /\ Len(line') = Len(AfterSync) + 1 /\ line'[Len(AfterSync) + 1] = b
        /\ \A i \in 1 .. Len(AfterSync) : line'[i] = AfterSync[i]
    BY <1>6, AppendProperties
  <2>2. Len(AfterSync) + 1 = 5 - a
    BY <1>6
  <2> QED BY <1>6, <2>1, <2>2
<1>8. /\ Len(seen') = n + 1 /\ seen'[n + 1] = b
      /\ \A i \in 1 .. n : seen'[i] = seen[i]
  BY <1>1 DEF SeenMore
<1>9. PICK s \in Int : s = n - 4 + a
  OBVIOUS
<1>10. /\ n - 4 > e /\ \A i \in 1 .. 4 : seen[(n - 4) + i] = line[i]
  BY <1>2 DEF Reads
<1>11. /\ s \in 1 .. n /\ s > e /\ (n + 1) - (5 - a) = s /\ s + (5 - a) = n + 1
       /\ \A i \in 1 .. 5 - a : i \in 1 .. 4 - a \/ i = 5 - a
       /\ \A i \in 1 .. 4 - a : s + i \in 1 .. n /\ a + i \in 1 .. 4
                                /\ (n - 4) + (a + i) = s + i
  <2>1. e \in Nat /\ n - 4 > e
    BY <1>1, <1>10
  <2>2. /\ s \in 1 .. n /\ s > e /\ (n + 1) - (5 - a) = s
        /\ s + (5 - a) = n + 1
    BY <1>9, <2>1
  <2>3. \A i \in 1 .. 5 - a : i \in 1 .. 4 - a \/ i = 5 - a
    OBVIOUS
  <2>4. \A i \in 1 .. 4 - a : s + i \in 1 .. n /\ a + i \in 1 .. 4
                                /\ (n - 4) + (a + i) = s + i
    BY <1>9, <2>2
  <2> QED BY <2>2, <2>3, <2>4
<1>12. seen'[s] = SYNC_CODE
  BY <1>3, <1>5, <1>8, <1>9, <1>10, <1>11
<1>13. ASSUME NEW i \in 1 .. 5 - a PROVE seen'[s + i] = line'[i]
  <2>1. CASE i \in 1 .. 4 - a
    <3>1. seen[s + i] = line[a + i]
      BY <1>10, <1>11, <2>1
    <3> QED BY <1>7, <1>8, <1>11, <2>1, <3>1
  <2>2. CASE i = 5 - a
    BY <1>7, <1>8, <1>11, <2>2
  <2> QED BY <1>11, <2>1, <2>2
<1>14. Reads(Len(seen) - Len(line), e)'
  BY <1>7, <1>8, <1>11, <1>12, <1>13 DEF Reads
<1>15. status' \in {"header", "crc8h"}
       /\ (status' = "crc8h" => Len(line') = HEADER_BYTES)
  <2>1. 5 - a <= 4 /\ (5 - a < 4 \/ 5 - a = 4)
    OBVIOUS
  <2> QED BY <1>7, <2>1 DEF HEADER_BYTES
<1> QED BY <1>14, <1>15 DEF Located

\* The header is good.
LEMMA DataLocated ==
    ASSUME SearchTypes, NEW b \in Byte, SeenMore(b), NEW e \in 0 .. Len(seen),
           Located(e), status = "crc8h", Crc8Check(line) = b,
           status' = "data", data' = <<>>, line' = line
    PROVE  Located(e)'
<1>1. PICK n \in Nat : n = Len(seen)
  BY DEF SeenMore
<1>2. Len(line) = 4 /\ Reads(n - 4, e)
  BY <1>1 DEF Located, HEADER_BYTES
<1>3. /\ n - 4 \in Int /\ Len(line) \in Nat /\ (n - 4) + Len(line) <= Len(seen)
      /\ (n + 1) - 5 - 0 = n - 4 /\ (n + 1) - 0 = n + 1 /\ e \in Nat
  BY <1>1, <1>2
<1>4. Reads(n - 4, e)'
  BY <1>2, <1>3, ReadsStays
<1>5. /\ Len(data') = 0 /\ Len(seen') = n + 1 /\ seen'[n + 1] = b
      /\ \A i \in 1 .. 0 : FALSE
  BY <1>1 DEF SeenMore
<1>6. Reads(Len(seen) - 5 - Len(data), e)'
  BY <1>3, <1>4, <1>5
<1> QED BY <1>3, <1>5, <1>6 DEF Located

\* A byte of the data.
LEMMA MoreDataLocated ==
    ASSUME SearchTypes, Len(line) = HEADER_BYTES,
           NEW b \in Byte, SeenMore(b), NEW e \in 0 .. Len(seen),
           Located(e), status = "data", data' = Append(data, b),
           status' \in {"data", "crc8d"}, line' = line
    PROVE  Located(e)'
<1>1. PICK n \in Nat : n = Len(seen)
  BY DEF SeenMore
<1>2. PICK m \in Nat : m = Len(data)
  BY LenProperties DEF SearchTypes
<1>3. /\ Reads(n - 5 - m, e) /\ seen[n - m] = Crc8Check(line)
      /\ \A i \in 1 .. m : seen[n - m + i] = data[i]
  BY <1>1, <1>2 DEF Located
<1>4. /\ n - 5 - m > e /\ n - 5 - m \in Int /\ e \in Nat
      /\ Len(line) \in Nat /\ (n - 5 - m) + Len(line) <= Len(seen)
  <2>1. n - 5 - m > e
    BY <1>3 DEF Reads
  <2> QED BY <1>1, <2>1 DEF HEADER_BYTES
<1>5. Reads(n - 5 - m, e)'
  BY <1>3, <1>4, ReadsStays
<1>6. /\ Len(data') = m + 1 /\ data'[m + 1] = b
      /\ \A i \in 1 .. m : data'[i] = data[i]
  BY <1>2, AppendProperties DEF SearchTypes
<1>7. /\ Len(seen') = n + 1 /\ seen'[n + 1] = b
      /\ \A i \in 1 .. n : seen'[i] = seen[i]
  BY <1>1 DEF SeenMore
<1>8. /\ (n + 1) - 5 - (m + 1) = n - 5 - m /\ (n + 1) - (m + 1) = n - m
      /\ n - m \in 1 .. n /\ (n - m) + (m + 1) = n + 1
      /\ \A i \in 1 .. m : (n - m) + i \in 1 .. n
      /\ \A i \in 1 .. m + 1 : i \in 1 .. m \/ i = m + 1
  BY <1>4
<1>9. Reads(Len(seen) - 5 - Len(data), e)'
  BY <1>5, <1>6, <1>7, <1>8
<1>10. seen'[n - m] = Crc8Check(line')
  BY <1>3, <1>7, <1>8
<1>11. ASSUME NEW i \in 1 .. m + 1 PROVE seen'[(n - m) + i] = data'[i]
  <2>1. CASE i \in 1 .. m
    BY <1>3, <1>6, <1>7, <1>8, <2>1
  <2>2. CASE i = m + 1
    BY <1>6, <1>7, <1>8, <2>2
  <2> QED BY <1>8, <2>1, <2>2
<1>12. PICK t \in Nat : t = n - m
  BY <1>8
<1>13. /\ Len(seen') - Len(data') = t /\ seen'[t] = Crc8Check(line')
       /\ \A i \in 1 .. Len(data') : seen'[t + i] = data'[i]
  BY <1>6, <1>7, <1>8, <1>10, <1>11, <1>12
<1> QED BY <1>9, <1>13 DEF Located

\* A packet that is returned.
LEMMA ReturnedLocated ==
    ASSUME SearchInv, FramerTypeOK, SeenInv, GoodPacket, SeenMore(rxByte)
    PROVE  SeenInv'
<1>0. PICK r : r = [line |-> line, data |-> data]
  OBVIOUS
<1>1. PICK at \in [DOMAIN received -> 1 .. Len(seen)], e \in 0 .. Len(seen) :
           /\ Placed(at) /\ Located(e)
           /\ \A i \in DOMAIN received :
                  at[i] + 6 + Len(received[i].data) <= e
  BY DEF SeenInv
<1>2. /\ status = "crc8d" /\ status' = "sync" /\ Crc8Check(data) = rxByte
      /\ Len(data) <= BufferLength /\ received' = Append(received, r)
  BY <1>0 DEF GoodPacket
<1>3. PICK n \in Nat : n = Len(seen)
  BY DEF SeenMore
<1>4. PICK m \in Nat : m = Len(data)
  BY LenProperties DEF SearchInv, SearchTypes
<1>5. PICK s \in Int : s = n - 5 - m
  OBVIOUS
<1>6. /\ s > e /\ seen[s] = SYNC_CODE
      /\ \A i \in 1 .. 4 : seen[s + i] = line[i]
      /\ seen[s + 5] = Crc8Check(line)
      /\ \A i \in 1 .. m : seen[s + 5 + i] = data[i]
      /\ Len(line) = HEADER_BYTES /\ LengthOf(line) = m /\ m # 0
  <2>1. /\ Len(line) = 4 /\ Len(line) = HEADER_BYTES /\ LengthOf(line) = m
        /\ m # 0
    BY <1>2, <1>4 DEF SearchInv, EntryState, HEADER_BYTES
  <2>2. /\ Reads(s, e) /\ seen[n - m] = Crc8Check(line)
        /\ \A i \in 1 .. m : seen[n - m + i] = data[i]
    BY <1>1, <1>2, <1>3, <1>4, <1>5 DEF Located
  <2>3. n - m = s + 5
    BY <1>5
  <2> QED BY <2>1, <2>2, <2>3 DEF Reads
<1>7. /\ Len(seen') = n + 1 /\ seen'[n + 1] = Crc8Check(data)
      /\ \A i \in 1 .. n : seen'[i] = seen[i]
  BY <1>2, <1>3 DEF SeenMore
<1>8. /\ s \in 1 .. n /\ s + 5 \in 1 .. n /\ s + 6 + m = n + 1 /\ s >= 1
      /\ \A i \in 1 .. 4 : s + i \in 1 .. n
      /\ \A i \in 1 .. m : s + 5 + i \in 1 .. n
      /\ m \in 1 .. BufferLength
  <2>1. m <= BufferLength /\ BufferLength \in Nat
    BY <1>2, <1>4, FramerAssumption
  <2>2. s > e /\ e \in Nat /\ m # 0
    BY <1>6
  <2> QED BY <1>5, <2>1, <2>2
<1>9. r.line = line /\ r.data = data
  BY <1>0
<1>10. FrameAt(r, s)'
  <2>1. /\ Len(r.line) = 4 /\ LengthOf(r.line) = m /\ Len(r.data) = m
    BY <1>4, <1>6, <1>9 DEF HEADER_BYTES
  <2>2. /\ seen'[s] = SYNC_CODE /\ seen'[s + 5] = Crc8Check(r.line)
        /\ \A i \in 1 .. 4 : seen'[s + i] = r.line[i]
        /\ \A i \in 1 .. m : seen'[s + 5 + i] = r.data[i]
    BY <1>6, <1>7, <1>8, <1>9
  <2>3. seen'[s + 6 + m] = Crc8Check(r.data) /\ s + 6 + m <= Len(seen')
    <3>1. s + 6 + m = n + 1 /\ n + 1 <= n + 1
      BY <1>8
    <3> QED BY <1>7, <1>9, <3>1
  <2> QED BY <1>8, <2>1, <2>2, <2>3 DEF FrameAt, HEADER_BYTES
<1>11. PICK k \in Nat : k = Len(received)
  BY LenProperties DEF FramerTypeOK
<1>12. /\ DOMAIN received = 1 .. k /\ DOMAIN received' = 1 .. k + 1
       /\ received'[k + 1] = r
       /\ \A i \in 1 .. k : received'[i] = received[i]
  <2> DEFINE S == [line : Seq(Byte), data : Seq(Byte)]
  <2>1. received \in Seq(S) /\ r \in S
    BY <1>0 DEF FramerTypeOK, SearchInv, SearchTypes
  <2> HIDE DEF S
  <2>2. /\ Append(received, r) \in Seq(S) /\ Len(Append(received, r)) = k + 1
        /\ Append(received, r)[k + 1] = r
        /\ \A i \in 1 .. k : Append(received, r)[i] = received[i]
    BY <1>11, <2>1, AppendProperties
  <2> QED BY <1>2, <1>11, <2>1, <2>2, LenProperties
<1>13. \A i \in 1 .. k + 1 : i \in 1 .. k \/ i = k + 1
  OBVIOUS
<1>14. PICK new \in [1 .. k + 1 -> 1 .. n] :
           /\ \A i \in 1 .. k : new[i] = at[i]
           /\ new[k + 1] = s
  <2> DEFINE c == [i \in 1 .. k + 1 |-> IF i \in 1 .. k THEN at[i] ELSE s]
  <2>1. \A i \in 1 .. k : at[i] \in 1 .. n
    BY <1>1, <1>3, <1>12
  <2>2. c \in [1 .. k + 1 -> 1 .. n]
    BY <1>8, <2>1
  <2>3. k + 1 \in 1 .. k + 1 /\ ~(k + 1 \in 1 .. k)
    OBVIOUS
  <2>4. c[k + 1] = s /\ \A i \in 1 .. k : c[i] = at[i]
    BY <2>3
  <2> HIDE DEF c
  <2> QED BY <2>2, <2>4
<1>15. new \in [DOMAIN received' -> 1 .. Len(seen')]
  <2>1. \A i \in 1 .. n : i \in 1 .. Len(seen')
    BY <1>7
  <2> QED BY <1>12, <1>14, <2>1
<1>16. ASSUME NEW i \in 1 .. k
       PROVE  /\ FrameAt(received[i], new[i])'
              /\ new[i] + 6 + Len(received'[i].data) <= e
  <2>1. PICK q : q = received[i]
    OBVIOUS
  <2>2. PICK a \in Nat : a = at[i]
    BY <1>1, <1>3, <1>12
  <2>3. FrameAt(q, a) /\ a + 6 + Len(q.data) <= e
    BY <1>1, <1>12, <2>1, <2>2 DEF Placed
  <2>4. FrameAt(q, a)'
    BY <2>3, FrameStays
  <2>5. received'[i] = q /\ new[i] = a
    BY <1>12, <1>14, <2>1, <2>2
  <2> QED BY <2>3, <2>4, <2>5
<1>17. \A i \in 1 .. k + 1 : FrameAt(received[i], new[i])'
  BY <1>10, <1>12, <1>13, <1>14, <1>16
<1>18. ASSUME NEW i \in 1 .. k + 1, NEW j \in 1 .. k + 1, i < j
       PROVE  new[i] + 6 + Len(received'[i].data) < new[j]
  <2>1. i \in 1 .. k
    BY <1>18
  <2>2. CASE j \in 1 .. k
    BY <1>1, <1>12, <1>14, <1>18, <2>1, <2>2 DEF Placed
  <2>3. CASE j = k + 1
    <3>1. new[i] + 6 + Len(received'[i].data) <= e /\ new[j] = s
      BY <1>14, <1>16, <2>1, <2>3
    <3>2. Len(received'[i].data) \in Nat /\ new[i] \in Nat
      <4>1. PICK q : q = received'[i]
        OBVIOUS
      <4>2. FrameAt(q, new[i])'
        BY <1>17, <4>1
      <4>3. Len(q.data) \in Nat
        BY <4>2 DEF FrameAt
      <4> QED BY <1>14, <4>1, <4>3
    <3>3. s > e
      BY <1>6
    <3> QED BY <3>1, <3>2, <3>3
  <2> QED BY <1>13, <2>2, <2>3
<1>19. Placed(new)'
  BY <1>12, <1>17, <1>18 DEF Placed
<1>20. PICK f \in 0 .. Len(seen') : f = n + 1
  BY <1>7
<1>21. Located(f)'
  BY <1>2 DEF Located
<1>22. ASSUME NEW i \in 1 .. k + 1
       PROVE  new[i] + 6 + Len(received'[i].data) <= f
  <2>1. FrameAt(received[i], new[i])'
    BY <1>17
  <2> QED BY <1>7, <1>20, <2>1 DEF FrameAt
<1> QED BY <1>12, <1>15, <1>19, <1>20, <1>21, <1>22 DEF SeenInv, SeenMore

LEMMA SeenStep ==
    ASSUME SearchInv, FramerTypeOK, SeenInv, SeenNext
    PROVE  SeenInv'
<1>1. CASE ~ReadByte
  <2>1. /\ UNCHANGED <<seen, line, data, received>>
        /\ status' = status \/ status' = "sync"
    BY <1>1 DEF SeenNext, FramerNext, SendPacket, SendDamaged, GetPacket
  <2>2. \A e : Located(e) => Located(e)'
    BY <2>1 DEF Located, Reads, Deaf
  <2>3. \A at : Placed(at) => Placed(at)'
    BY <2>1 DEF Placed, FrameAt
  <2> QED BY <2>1, <2>2, <2>3 DEF SeenInv
<1>2. CASE ReadByte
  <2>1. Read
    BY <1>2 DEF ReadByte, GetSync, GetHeader, Resync, BadHeader, GoodHeader,
       EmptyPacket, GetData, TooLong, GoodPacket, BadPacket
  <2>2. PICK b \in Byte : b = rxByte
    BY <2>1, ReadTypes DEF SearchInv
  <2>3. SeenMore(b)
    BY <1>2, <2>2, ByteIsSeen DEF SeenNext, SeenInv
  <2>4. SearchTypes
    BY DEF SearchInv
  <2>5. CASE GetSync
    <3>1. /\ received' = received /\ status' \in {"sync", "header"}
          /\ status' = "header" => b = SYNC_CODE /\ line' = <<>>
      BY <2>2, <2>5 DEF GetSync, Continue
    <3> QED BY <2>3, <3>1, SyncLocated, NothingReturned
  <2>6. CASE GetHeader
    <3>1. /\ received' = received /\ status = "header" /\ line' = Append(line, b)
          /\ status' = IF Len(line) + 1 = HEADER_BYTES THEN "crc8h" ELSE status
      BY <2>2, <2>6 DEF GetHeader, Continue
    <3> QED BY <2>3, <2>4, <3>1, HeaderLocated, NothingReturned
  <2>7. CASE Resync
    <3>1. /\ received' = received /\ status = "crc8h"
          /\ \E i \in DOMAIN line : line[i] = SYNC_CODE
          /\ line' = Append(AfterSync, b)
          /\ status' = IF Len(line') < HEADER_BYTES THEN "header" ELSE status
      BY <2>2, <2>7 DEF Resync, Continue
    <3> QED BY <2>3, <2>4, <3>1, ResyncLocated, NothingReturned
  <2>8. CASE BadHeader
    <3>1. /\ received' = received /\ status = "crc8h" /\ line' = line
          /\ status' \in {"sync", "header"}
      BY <2>8 DEF BadHeader, Continue
    <3>2. ASSUME NEW e \in 0 .. Len(seen), Located(e) PROVE Located(e)'
      <4>1. Len(line') = HEADER_BYTES
        BY <3>1, <3>2 DEF Located
      <4>2. status' = "header" => Deaf'
        BY <4>1 DEF Deaf, HEADER_BYTES
      <4> QED BY <3>1, <4>2 DEF Located
    <3> QED BY <2>3, <3>1, <3>2, NothingReturned
  <2>9. CASE GoodHeader
    <3>1. /\ received' = received /\ status = "crc8h" /\ Crc8Check(line) = b
          /\ status' = "data" /\ data' = <<>> /\ line' = line
      BY <2>2, <2>9 DEF GoodHeader, Continue
    <3> QED BY <2>3, <2>4, <3>1, DataLocated, NothingReturned
  <2>10. CASE EmptyPacket
    <3>1. /\ received' = received /\ status' \in {"sync", "header"}
          /\ status' = "header" => b = SYNC_CODE /\ line' = <<>>
      BY <2>2, <2>10 DEF EmptyPacket, Continue, Return
    <3> QED BY <2>3, <3>1, SyncLocated, NothingReturned
  <2>11. CASE GetData
    <3>1. /\ received' = received /\ status = "data" /\ data' = Append(data, b)
          /\ line' = line /\ status' \in {"data", "crc8d"}
      BY <2>2, <2>11 DEF GetData, Continue
    <3>2. Len(line) = HEADER_BYTES
      BY <3>1 DEF SearchInv, EntryState
    <3> QED BY <2>3, <2>4, <3>1, <3>2, MoreDataLocated, NothingReturned
  <2>12. CASE TooLong
    <3>1. /\ received' = received /\ status' \in {"sync", "header"}
          /\ status' # "header"
      BY <2>12 DEF TooLong, Return
    <3> QED BY <2>3, <3>1, SyncLocated, NothingReturned
  <2>13. CASE GoodPacket
    BY <2>2, <2>3, <2>13, ReturnedLocated
  <2>14. CASE BadPacket
    <3>1. /\ received' = received /\ status' \in {"sync", "header"}
          /\ status' = "header" => b = SYNC_CODE /\ line' = <<>>
      BY <2>2, <2>14 DEF BadPacket, Return
    <3> QED BY <2>3, <3>1, SyncLocated, NothingReturned
  <2> QED BY <1>2, <2>5, <2>6, <2>7, <2>8, <2>9, <2>10, <2>11, <2>12, <2>13,
             <2>14 DEF ReadByte
<1> QED BY <1>1, <1>2

\* For any packets, noise, damage and CRC: what GetPacket returns are
\* undivided runs of the bytes it read, in their order and none in two
\* packets, that begin with a sync byte, are as long as their headers say,
\* fit the buffer, and have the right CRCs.
THEOREM ReturnedWasOnTheLine == SeenSpec => []OnTheLine
<1>1. SeenInit => FramerInit /\ SeenInv
  <2> SUFFICES ASSUME SeenInit PROVE FramerInit /\ SeenInv
    OBVIOUS
  <2>1. /\ FramerInit /\ seen = <<>> /\ received = <<>> /\ status = "sync"
        /\ DOMAIN received = {} /\ Len(seen) = 0
    BY DEF SeenInit, FramerInit
  <2> DEFINE none == [i \in {} |-> 1]
  <2>2. /\ none \in [DOMAIN received -> 1 .. Len(seen)] /\ 0 \in 0 .. Len(seen)
        /\ seen \in Seq(Byte)
    BY <2>1
  <2>3. Placed(none) /\ Located(0)
    BY <2>1 DEF Placed, Located
  <2> QED BY <2>1, <2>2, <2>3 DEF SeenInv
<1>2. [SeenNext]_<<framerVars, seen>> => [FramerNext]_framerVars
  BY DEF SeenNext
<1>3. HistoryInv /\ SeenInv /\ [SeenNext]_<<framerVars, seen>> => SeenInv'
  <2> SUFFICES ASSUME HistoryInv, SeenInv, [SeenNext]_<<framerVars, seen>>
               PROVE  SeenInv'
    OBVIOUS
  <2>1. CASE SeenNext
    BY <2>1, SeenStep DEF HistoryInv
  <2>2. CASE UNCHANGED <<framerVars, seen>>
    <3>1. UNCHANGED <<seen, status, line, data, received>>
      BY <2>2 DEF framerVars
    <3>2. \A e : Located(e) => Located(e)'
      BY <3>1 DEF Located, Reads, Deaf
    <3>3. \A at : Placed(at) => Placed(at)'
      BY <3>1 DEF Placed, FrameAt
    <3> QED BY <3>1, <3>2, <3>3 DEF SeenInv
  <2> QED BY <2>1, <2>2
<1>4. SeenInv => OnTheLine
  BY DEF SeenInv, OnTheLine
<1>5. SeenSpec => FramerSpec
  BY <1>1, <1>2, PTL DEF SeenSpec, FramerSpec
<1>6. SearchInv' /\ HistoryInv /\ [FramerNext]_framerVars => HistoryInv'
  BY HistoryStep
<1>7. SeenSpec => []HistoryInv
  BY <1>5, <1>6, HistoryInit, FramerInvariance, PTL DEF FramerSpec
<1> QED BY <1>1, <1>3, <1>4, <1>7, PTL DEF SeenSpec

(***************************************************************************)
(* PushPacket.                                                             *)
(***************************************************************************)
\* Every fragment a slot holds is from the device the slot belongs to, and
\* so is every fragment of a telegram pushed.
OwnData == \A q \in Slots : \A i \in DOMAIN slot[q].data :
               slot[q].data[i].dev = slot[q].id

\* A device that has sent everything has no fragment begun.
SentAll == \A d \in Devices : next[d].n \notin Telegrams => next[d].i = 0

SlotInv == TypeOK /\ OwnData /\ SentAll /\ OneDevice

SlotType == [id : Devices \cup {NoDevice}, length : Nat, data : Seq(Fragments)]

\* The slot a fragment goes to is one of the slots.
LEMMA SlotIn ==
    ASSUME NEW f \in Fragments
    PROVE  SlotOf(f) \in Slots
  <1>1. f.n \in Nat
    BY CdmAssumption DEF Fragments, Telegrams
  <1>2. f.n % Seqs \in 0 .. Seqs - 1
    BY <1>1, CdmAssumption
  <1>. QED BY <1>2 DEF SlotOf, SeqNumber, Slots

\* A slot with a fragment it accepts belongs to the fragment's device and
\* holds its fragments only.
LEMMA CollectedOwn ==
    ASSUME NEW s \in SlotType, NEW f \in Fragments, Accepts(s, f),
           \A i \in DOMAIN s.data : s.data[i].dev = s.id
    PROVE  LET c == Collected(s, f) IN
           /\ c \in SlotType
           /\ c.id = f.dev
           /\ \A i \in DOMAIN c.data : c.data[i].dev = c.id
  <1> DEFINE c == Collected(s, f)
  <1>1. f.dev \in Devices /\ f.n \in DOMAIN Pieces
    BY DEF Fragments, Telegrams
  <1>2. CASE f.i = 0
    <2>1. c = [id |-> f.dev, length |-> Pieces[f.n], data |-> <<f>>]
      BY <1>2 DEF Collected
    <2>2. Pieces[f.n] \in Nat
      BY <1>1, CdmAssumption, LenProperties, ElementOfSeq
    <2>3. <<f>> \in Seq(Fragments) /\ DOMAIN <<f>> = {1} /\ <<f>>[1] = f
      OBVIOUS
    <2>. QED BY <1>1, <2>1, <2>2, <2>3 DEF SlotType
  <1>3. CASE f.i # 0
    <2>1. s.id = f.dev
      BY <1>3 DEF Accepts
    <2>2. c = [s EXCEPT !.data = Append(@, f)]
      BY <1>3 DEF Collected
    <2>3. s.data \in Seq(Fragments)
      BY DEF SlotType
    <2>4. /\ Append(s.data, f) \in Seq(Fragments)
          /\ \A i \in DOMAIN Append(s.data, f) :
                \/ Append(s.data, f)[i] = f
                \/ /\ i \in DOMAIN s.data
                   /\ Append(s.data, f)[i] = s.data[i]
      BY <2>3, AppendProperties, LenProperties
    <2>5. /\ c.id = s.id /\ c.length = s.length /\ c.data = Append(s.data, f)
          /\ c = [id |-> c.id, length |-> c.length, data |-> c.data]
      BY <2>2 DEF SlotType
    <2>. QED BY <2>1, <2>4, <2>5 DEF SlotType
  <1>. QED BY <1>2, <1>3

\* What is cut from a complete slot is made of its fragments.
LEMMA ContentOwn ==
    ASSUME NEW c \in SlotType, Complete(c)
    PROVE  /\ Content(c) \in Seq(Fragments)
           /\ \A i \in DOMAIN Content(c) : i \in DOMAIN c.data
                                           /\ Content(c)[i] = c.data[i]
  <1>1. c.data \in Seq(Fragments) /\ c.length \in Nat
    BY DEF SlotType
  <1>2. c.length <= Len(c.data) /\ Len(c.data) \in Nat
    BY <1>1, LenProperties DEF Complete
  <1>3. /\ SubSeq(c.data, 1, c.length) \in Seq(Fragments)
        /\ Len(SubSeq(c.data, 1, c.length)) = c.length
        /\ \A i \in 1 .. c.length : SubSeq(c.data, 1, c.length)[i] = c.data[i]
    BY <1>1, <1>2, SubSeqProperties
  <1>. QED BY <1>1, <1>2, <1>3, LenProperties DEF Content

\* PushPacket keeps the slots and the pushed telegrams in order.
LEMMA PushKeeps ==
    ASSUME SlotInv, NEW f \in Fragments, NEW ok \in BOOLEAN, PushPacket(f, ok)
    PROVE  /\ slot' \in [Slots -> SlotType]
           /\ \A q \in Slots : slot'[q].id = NoDevice => slot'[q].data = <<>>
           /\ pushed' \in Seq(Seq(Fragments))
           /\ missed' \subseteq Devices \X Telegrams
           /\ OwnData'
           /\ OneDevice'
  <1> DEFINE q0 == SlotOf(f)
             s == slot[q0]
             c == Collected(s, f)
  <1>1. /\ slot \in [Slots -> SlotType] /\ pushed \in Seq(Seq(Fragments))
        /\ \A q \in Slots : slot[q].id = NoDevice => slot[q].data = <<>>
        /\ missed \subseteq Devices \X Telegrams /\ OwnData /\ OneDevice
    BY DEF SlotInv, TypeOK, SlotType
  <1>2. q0 \in Slots /\ s \in SlotType
    BY <1>1, SlotIn
  <1>3. \A i \in DOMAIN s.data : s.data[i].dev = s.id
    BY <1>1, <1>2 DEF OwnData
  <1>4. CASE ~Accepts(s, f)
    BY <1>1, <1>4 DEF PushPacket, OwnData, OneDevice
  <1>5. CASE Accepts(s, f)
    <2>1. /\ c \in SlotType /\ c.id = f.dev
          /\ \A i \in DOMAIN c.data : c.data[i].dev = c.id
      BY <1>2, <1>3, <1>5, CollectedOwn
    <2>2. /\ slot' = [slot EXCEPT ![q0] = c]
          /\ pushed' = IF Complete(c) /\ ok
                       THEN Append(pushed, Content(c)) ELSE pushed
          /\ missed' = missed
                \cup {<<s.id, n>> : n \in {s.data[i].n : i \in
                         IF f.i = 0 /\ s.id # f.dev /\ ~Complete(s)
                         THEN DOMAIN s.data ELSE {}}}
                \cup IF Complete(c) /\ ~ok THEN {<<f.dev, f.n>>} ELSE {}
      BY <1>5 DEF PushPacket
    <2>3. f.dev \in Devices /\ f.n \in Telegrams /\ NoDevice \notin Devices
      BY CdmAssumption DEF Fragments
    <2> HIDE DEF c
    <2>4. slot' \in [Slots -> SlotType]
      BY <1>1, <2>1, <2>2
    <2>5. \A q \in Slots : slot'[q].id = NoDevice => slot'[q].data = <<>>
      BY <1>1, <1>2, <2>1, <2>2, <2>3
    <2>6. OwnData'
      BY <1>1, <1>2, <2>1, <2>2 DEF OwnData
    <2>7. pushed' \in Seq(Seq(Fragments))
      BY <1>1, <2>1, <2>2, ContentOwn, AppendProperties
    <2>8. OneDevice'
      <3>1. CASE Complete(c) /\ ok
        <4>1. \A i \in DOMAIN Content(c) : Content(c)[i].dev = c.id
          BY <2>1, <3>1, ContentOwn
        <4>2. pushed' = Append(pushed, Content(c))
          BY <2>2, <3>1
        <4>3. Content(c) \in Seq(Fragments)
          BY <2>1, <3>1, ContentOwn
        <4>4. \A k \in DOMAIN pushed' :
                 \/ pushed'[k] = Content(c)
                 \/ k \in DOMAIN pushed /\ pushed'[k] = pushed[k]
          BY <1>1, <4>2, <4>3, AppendProperties, LenProperties
        <4>. QED BY <1>1, <4>1, <4>4 DEF OneDevice
      <3>2. CASE ~(Complete(c) /\ ok)
        BY <1>1, <2>2, <3>2 DEF OneDevice
      <3>. QED BY <3>1, <3>2
    <2>9. missed' \subseteq Devices \X Telegrams
      <3> DEFINE G == {<<s.id, n>> : n \in {s.data[i].n : i \in
                         IF f.i = 0 /\ s.id # f.dev /\ ~Complete(s)
                         THEN DOMAIN s.data ELSE {}}}
      <3>1. s.data \in Seq(Fragments) /\ s.id \in Devices \cup {NoDevice}
        BY <1>2 DEF SlotType
      <3>2. \A i \in DOMAIN s.data : s.data[i] \in Fragments
        BY <3>1, LenProperties, ElementOfSeq
      <3>3. \A i \in DOMAIN s.data : s.id \in Devices /\ s.data[i].n \in Telegrams
        BY <1>3, <3>2 DEF Fragments
      <3>4. G \subseteq Devices \X Telegrams
        BY <3>3
      <3>. QED BY <1>1, <2>2, <2>3, <3>4
    <2>. QED BY <2>4, <2>5, <2>6, <2>7, <2>8, <2>9
  <1>. QED BY <1>4, <1>5

\* The fragment a device sends next, and the one it sent last.
LEMMA SenderFragments ==
    ASSUME SlotInv, NEW d \in Devices
    PROVE  /\ Send(d) => Fragment(d) \in Fragments
           /\ next[d] # [n |-> 1, i |-> 0] => LastSent(d) \in Fragments
  <1>1. /\ next[d] \in [n : 1 .. Len(Pieces) + 1, i : Nat]
        /\ next[d].n \in 1 .. Len(Pieces) + 1 /\ next[d].i \in Nat
        /\ next[d] = [n |-> next[d].n, i |-> next[d].i]
    BY DEF SlotInv, TypeOK
  <1>2. DOMAIN Pieces = 1 .. Len(Pieces) /\ Len(Pieces) \in Nat
    BY CdmAssumption, LenProperties
  <1>3. \A n \in 1 .. Len(Pieces) : Pieces[n] \in Nat \ {0}
    BY CdmAssumption, ElementOfSeq
  <1>4. Send(d) => Fragment(d) \in Fragments
    BY <1>1 DEF Send, Fragment, Fragments, Telegrams
  <1>5. ASSUME next[d] # [n |-> 1, i |-> 0] PROVE LastSent(d) \in Fragments
    <2>1. CASE next[d].i > 0
      <3>1. next[d].n \in Telegrams
        BY <1>1, <2>1 DEF SlotInv, SentAll
      <3>2. next[d].i - 1 \in Nat
        BY <1>1, <2>1
      <3>. QED BY <2>1, <3>1, <3>2 DEF LastSent, Fragments
    <2>2. CASE next[d].i = 0
      <3>1. next[d].n # 1
        BY <1>1, <1>5, <2>2
      <3>2. next[d].n - 1 \in 1 .. Len(Pieces)
        BY <1>1, <1>2, <3>1
      <3>3. Pieces[next[d].n - 1] - 1 \in Nat
        BY <1>3, <3>2
      <3>. QED BY <1>2, <2>2, <3>2, <3>3 DEF LastSent, Fragments, Telegrams
    <2>. QED BY <1>1, <2>1, <2>2
  <1>. QED BY <1>4, <1>5

\* Sending moves a device on to its next fragment or telegram.
LEMMA SendKeeps ==
    ASSUME SlotInv, NEW d \in Devices, Send(d)
    PROVE  /\ next' \in [Devices -> [n : 1 .. Len(Pieces) + 1, i : Nat]]
           /\ SentAll'
  <1>1. /\ next \in [Devices -> [n : 1 .. Len(Pieces) + 1, i : Nat]]
        /\ SentAll
    BY DEF SlotInv, TypeOK
  <1>2. DOMAIN Pieces = 1 .. Len(Pieces) /\ Len(Pieces) \in Nat
    BY CdmAssumption, LenProperties
  <1>3. next[d].n \in 1 .. Len(Pieces) /\ next[d].i \in Nat
    BY <1>1, <1>2 DEF Send, Telegrams
  <1> DEFINE e == IF next[d].i + 1 < Pieces[next[d].n]
                  THEN [n |-> next[d].n, i |-> next[d].i + 1]
                  ELSE [n |-> next[d].n + 1, i |-> 0]
  <1>4. next' = [next EXCEPT ![d] = e]
    BY DEF Send
  <1>5. /\ e \in [n : 1 .. Len(Pieces) + 1, i : Nat]
        /\ e.n \notin Telegrams => e.i = 0
    BY <1>1, <1>2, <1>3 DEF Telegrams
  <1> HIDE DEF e
  <1>6. next' \in [Devices -> [n : 1 .. Len(Pieces) + 1, i : Nat]]
    BY <1>1, <1>4, <1>5
  <1>7. SentAll'
    BY <1>1, <1>4, <1>5 DEF SentAll, Telegrams
  <1>. QED BY <1>6, <1>7

\* Counting a fault keeps the histories' types.
LEMMA FaultKeeps ==
    ASSUME SlotInv, NEW f \in Fragments, Fault(f)
    PROVE  radioFaults' \in 0 .. MaxRadioFaults /\ hurt' \subseteq Devices \X Slots
  <1>1. SeqNumber(f.n) \in Slots /\ f.dev \in Devices
    BY SlotIn DEF SlotOf, Fragments
  <1>. QED BY <1>1, CdmAssumption DEF Fault, SlotInv, TypeOK

\* The empty slots of a gateway that starts.
LEMMA InitKeeps == Init => SlotInv
  <1> SUFFICES ASSUME Init PROVE SlotInv
    OBVIOUS
  <1>1. 1 \in 1 .. Len(Pieces) + 1
    BY CdmAssumption, LenProperties
  <1>2. \A q \in Slots : slot[q] = [id |-> NoDevice, length |-> 0, data |-> <<>>]
    BY DEF Init
  <1>3. slot \in [Slots -> SlotType]
    BY DEF Init, SlotType
  <1>4. TypeOK
    BY <1>1, <1>2, <1>3, CdmAssumption DEF Init, TypeOK, SlotType
  <1>5. OwnData
    BY <1>2 DEF OwnData
  <1>6. SentAll /\ OneDevice
    BY DEF Init, SentAll, OneDevice
  <1>. QED BY <1>4, <1>5, <1>6 DEF SlotInv

\* No step of PushPacket, of a device or of the radio breaks the invariant.
LEMMA StepKeeps == SlotInv /\ [Next]_vars => SlotInv'
  <1> SUFFICES ASSUME SlotInv, [Next]_vars PROVE SlotInv'
    OBVIOUS
  <1>1. ASSUME NEW d \in Devices, Lose(d) PROVE SlotInv'
    <2>1. Fragment(d) \in Fragments
      BY <1>1, SenderFragments DEF Lose
    <2>2. /\ next' \in [Devices -> [n : 1 .. Len(Pieces) + 1, i : Nat]]
          /\ SentAll'
      BY <1>1, SendKeeps DEF Lose
    <2>3. radioFaults' \in 0 .. MaxRadioFaults /\ hurt' \subseteq Devices \X Slots
      BY <1>1, <2>1, FaultKeeps DEF Lose
    <2>. QED BY <1>1, <2>2, <2>3 DEF Lose, SlotInv, TypeOK, OwnData, OneDevice
  <1>2. ASSUME NEW d \in Devices, NEW ok \in BOOLEAN, Receive(d, ok)
        PROVE SlotInv'
    <2>1. Fragment(d) \in Fragments
      BY <1>2, SenderFragments DEF Receive
    <2>2. /\ next' \in [Devices -> [n : 1 .. Len(Pieces) + 1, i : Nat]]
          /\ SentAll'
      BY <1>2, SendKeeps DEF Receive
    <2>3. /\ slot' \in [Slots -> SlotType]
          /\ \A q \in Slots : slot'[q].id = NoDevice => slot'[q].data = <<>>
          /\ pushed' \in Seq(Seq(Fragments))
          /\ missed' \subseteq Devices \X Telegrams
          /\ OwnData' /\ OneDevice'
      BY <1>2, <2>1, PushKeeps DEF Receive
    <2>. QED BY <1>2, <2>2, <2>3 DEF Receive, SlotInv, TypeOK, SlotType
  <1>3. ASSUME NEW d \in Devices, NEW ok \in BOOLEAN, Repeat(d, ok)
        PROVE SlotInv'
    <2>1. LastSent(d) \in Fragments
      BY <1>3, SenderFragments DEF Repeat
    <2>2. radioFaults' \in 0 .. MaxRadioFaults /\ hurt' \subseteq Devices \X Slots
      BY <1>3, <2>1, FaultKeeps DEF Repeat
    <2>3. /\ slot' \in [Slots -> SlotType]
          /\ \A q \in Slots : slot'[q].id = NoDevice => slot'[q].data = <<>>
          /\ pushed' \in Seq(Seq(Fragments))
          /\ missed' \subseteq Devices \X Telegrams
          /\ OwnData' /\ OneDevice'
      BY <1>3, <2>1, PushKeeps DEF Repeat
    <2>4. next' = next
      BY <1>3 DEF Repeat
    <2>5. SentAll'
      BY <2>4 DEF SlotInv, SentAll, Telegrams
    <2>. QED BY <2>2, <2>3, <2>4, <2>5 DEF SlotInv, TypeOK, SlotType
  <1>4. ASSUME UNCHANGED vars PROVE SlotInv'
    BY <1>4 DEF vars, SlotInv, TypeOK, OwnData, SentAll, OneDevice, Telegrams
  <1>. QED BY <1>1, <1>2, <1>3, <1>4 DEF Next

\* The slots and queued telegrams keep their types, and a slot no telegram
\* has started holds nothing, whatever PushPacket is given.
THEOREM TypeCorrect == Spec => []TypeOK
  <1>1. SlotInv => TypeOK
    BY DEF SlotInv
  <1>. QED BY InitKeeps, StepKeeps, <1>1, PTL DEF Spec

\* A telegram PushPacket queues holds fragments of one device only.
THEOREM AlwaysOneDevice == Spec => []OneDevice
  <1>1. SlotInv => OneDevice
    BY DEF SlotInv
  <1>. QED BY InitKeeps, StepKeeps, <1>1, PTL DEF Spec

(***************************************************************************)
(* Whole telegrams.  A slot knows nothing of the index of a fragment: that *)
(* it holds the beginning of one telegram, in order, follows from where    *)
(* its device is (InStep), as long as nothing of that device and sequence  *)
(* number was lost or repeated.  Such a fault spoils the one slot only,    *)
(* and hurt keeps it for good.                                             *)
(***************************************************************************)
\* What a slot holds came under its own sequence number, and a slot that
\* was started waits for one fragment at least.
Places == \A q \in Slots :
    /\ slot[q].id # NoDevice => slot[q].length >= 1
    /\ \A i \in DOMAIN slot[q].data : SeqNumber(slot[q].data[i].n) = q

\* s holds the first fragments of d's telegram n, in their order.
Begins(s, d, n) ==
    /\ s.length = Pieces[n]
    /\ Len(s.data) \in 1 .. Pieces[n]
    /\ \A i \in DOMAIN s.data : s.data[i] = [dev |-> d, n |-> n, i |-> i - 1]

\* With m fragments of telegram n in its slot a device at p is in the midst
\* of n, or past all of it and not in the midst of one with the same number.
AtPlace(p, m, n) ==
    \/ p.n = n /\ p.i = m /\ m < Pieces[n]
    \/ p.n > n /\ m = Pieces[n] /\ (SeqNumber(p.n) = SeqNumber(n) => p.i = 0)

\* d at p is in step with slot s of number q.
WithSlot(s, p, d, q) ==
    \E n \in Telegrams :
        /\ SeqNumber(n) = q
        /\ Begins(s, d, n)
        /\ AtPlace(p, Len(s.data), n)

InStep ==
    \A q \in Slots, d \in Devices :
        slot[q].id = d /\ <<d, q>> \notin hurt => WithSlot(slot[q], next[d], d, q)

WholeInv == SlotInv /\ Places /\ InStep /\ Faithful

\* Numbers of devices, telegrams and their fragments.
LEMMA TelegramFacts ==
    ASSUME NEW n \in Telegrams
    PROVE  /\ n \in Nat /\ n >= 1
           /\ Pieces[n] \in Nat /\ Pieces[n] >= 1
           /\ SeqNumber(n) \in Slots
           /\ \A d \in Devices : /\ Whole(d, n) \in Seq(Fragments)
                                 /\ Len(Whole(d, n)) = Pieces[n]
                                 /\ Whole(d, n)[1].dev = d
                                 /\ Whole(d, n)[1].n = n
  <1>1. n \in 1 .. Len(Pieces) /\ Len(Pieces) \in Nat
    BY CdmAssumption, LenProperties DEF Telegrams
  <1>2. Pieces[n] \in Nat \ {0}
    BY <1>1, CdmAssumption, ElementOfSeq
  <1>3. SeqNumber(n) \in Slots
    <2>1. n % Seqs \in 0 .. Seqs - 1
      BY <1>1, CdmAssumption
    <2>. QED BY <2>1 DEF SeqNumber, Slots
  <1>4. ASSUME NEW d \in Devices
        PROVE  /\ Whole(d, n) \in Seq(Fragments)
               /\ Len(Whole(d, n)) = Pieces[n]
               /\ Whole(d, n)[1].dev = d
               /\ Whole(d, n)[1].n = n
    <2>1. \A i \in 1 .. Pieces[n] : [dev |-> d, n |-> n, i |-> i - 1] \in Fragments
      BY <1>2 DEF Fragments
    <2>2. Whole(d, n) \in [1 .. Pieces[n] -> Fragments]
      BY <2>1 DEF Whole
    <2>3. Whole(d, n) \in Seq(Fragments) /\ Len(Whole(d, n)) = Pieces[n]
      BY <1>2, <2>2, SeqDef, LenProperties
    <2>4. 1 \in 1 .. Pieces[n]
      BY <1>2
    <2>5. Whole(d, n)[1] = [dev |-> d, n |-> n, i |-> 0]
      BY <2>4 DEF Whole
    <2>. QED BY <2>3, <2>5
  <1>. QED BY <1>1, <1>2, <1>3, <1>4

\* Where devices are.
LEMMA SenderPlace ==
    ASSUME SlotInv, NEW d \in Devices
    PROVE  next[d].n \in Nat /\ next[d].i \in Nat
  <1>1. next[d].n \in 1 .. Len(Pieces) + 1 /\ next[d].i \in Nat
    BY DEF SlotInv, TypeOK
  <1>. QED BY <1>1, CdmAssumption, LenProperties

\* Sending: the fragment, and where the device is then.
LEMMA SendFacts ==
    ASSUME SlotInv, NEW d \in Devices, Send(d)
    PROVE  LET f == Fragment(d) IN
           /\ f \in Fragments
           /\ f.dev = d /\ f.n = next[d].n /\ f.i = next[d].i
           /\ \A e \in Devices \ {d} : next'[e] = next[e]
           /\ \/ f.i + 1 < Pieces[f.n] /\ next'[d] = [n |-> f.n, i |-> f.i + 1]
              \/ f.i + 1 >= Pieces[f.n] /\ next'[d] = [n |-> f.n + 1, i |-> 0]
  <1>1. next \in [Devices -> [n : 1 .. Len(Pieces) + 1, i : Nat]]
    BY DEF SlotInv, TypeOK
  <1>2. Fragment(d) \in Fragments
    BY SenderFragments
  <1>3. /\ Fragment(d).dev = d /\ Fragment(d).n = next[d].n
        /\ Fragment(d).i = next[d].i
    BY DEF Fragment
  <1>4. next[d].n \in Telegrams /\ next[d].i \in Nat
    BY <1>1 DEF Send
  <1>5. Pieces[next[d].n] \in Nat
    BY <1>4, TelegramFacts
  <1>6. next' = [next EXCEPT ![d] =
           IF @.i + 1 < Pieces[@.n] THEN [n |-> @.n, i |-> @.i + 1]
           ELSE [n |-> @.n + 1, i |-> 0]]
    BY DEF Send
  <1>7. \A e \in Devices \ {d} : next'[e] = next[e]
    BY <1>1, <1>6
  <1>8. next'[d] = IF next[d].i + 1 < Pieces[next[d].n]
                   THEN [n |-> next[d].n, i |-> next[d].i + 1]
                   ELSE [n |-> next[d].n + 1, i |-> 0]
    BY <1>1, <1>6
  <1>. QED BY <1>2, <1>3, <1>4, <1>5, <1>7, <1>8

\* PushPacket drops the fragment or puts it in its slot; a complete telegram
\* is queued or given up, and one that loses its slot before is missed.
LEMMA PushCases ==
    ASSUME SlotInv, NEW f \in Fragments, NEW ok \in BOOLEAN, PushPacket(f, ok)
    PROVE  LET s == slot[SlotOf(f)]
               c == Collected(s, f) IN
           /\ \A q \in Slots \ {SlotOf(f)} : slot'[q] = slot[q]
           /\ missed \subseteq missed'
           /\ ~Accepts(s, f) => slot'[SlotOf(f)] = s /\ pushed' = pushed
           /\ Accepts(s, f) =>
                /\ slot'[SlotOf(f)] = c
                /\ c \in SlotType /\ c.id = f.dev
                /\ pushed' = IF Complete(c) /\ ok
                             THEN Append(pushed, Content(c)) ELSE pushed
                /\ Complete(c) /\ ~ok => <<f.dev, f.n>> \in missed'
                /\ f.i = 0 /\ s.id # f.dev /\ ~Complete(s) =>
                      \A i \in DOMAIN s.data : <<s.id, s.data[i].n>> \in missed'
  <1> DEFINE s == slot[SlotOf(f)]
             c == Collected(s, f)
  <1>1. /\ slot \in [Slots -> SlotType] /\ SlotOf(f) \in Slots /\ s \in SlotType
        /\ \A i \in DOMAIN s.data : s.data[i].dev = s.id
    BY SlotIn DEF SlotInv, TypeOK, SlotType, OwnData
  <1>2. CASE ~Accepts(s, f)
    BY <1>2 DEF PushPacket
  <1>3. CASE Accepts(s, f)
    <2>1. c \in SlotType /\ c.id = f.dev
      BY <1>1, <1>3, CollectedOwn
    <2>2. /\ slot' = [slot EXCEPT ![SlotOf(f)] = c]
          /\ pushed' = IF Complete(c) /\ ok
                       THEN Append(pushed, Content(c)) ELSE pushed
          /\ missed' = missed
                \cup {<<s.id, n>> : n \in {s.data[i].n : i \in
                         IF f.i = 0 /\ s.id # f.dev /\ ~Complete(s)
                         THEN DOMAIN s.data ELSE {}}}
                \cup IF Complete(c) /\ ~ok THEN {<<f.dev, f.n>>} ELSE {}
      BY <1>3 DEF PushPacket
    <2> HIDE DEF c, s
    <2>3. slot'[SlotOf(f)] = c /\ \A q \in Slots \ {SlotOf(f)} : slot'[q] = slot[q]
      BY <1>1, <2>2
    <2>4. missed \subseteq missed' /\ (Complete(c) /\ ~ok => <<f.dev, f.n>> \in missed')
      BY <2>2
    <2>5. f.i = 0 /\ s.id # f.dev /\ ~Complete(s) =>
             \A i \in DOMAIN s.data : <<s.id, s.data[i].n>> \in missed'
      BY <2>2
    <2>. QED BY <1>3, <2>1, <2>2, <2>3, <2>4, <2>5 DEF c, s
  <1>. QED BY <1>2, <1>3

\* What becomes of a slot that accepts a fragment.
LEMMA CollectedPlace ==
    ASSUME NEW q \in Slots, NEW s \in SlotType, NEW f \in Fragments,
           SlotOf(f) = q, Accepts(s, f),
           s.id # NoDevice => s.length >= 1,
           \A i \in DOMAIN s.data : SeqNumber(s.data[i].n) = q
    PROVE  LET c == Collected(s, f) IN
           /\ c.length >= 1
           /\ \A i \in DOMAIN c.data : SeqNumber(c.data[i].n) = q
  <1>1. f.dev \in Devices /\ f.n \in Telegrams /\ NoDevice \notin Devices
    BY CdmAssumption DEF Fragments
  <1>2. CASE f.i = 0
    <2>1. Collected(s, f) = [id |-> f.dev, length |-> Pieces[f.n], data |-> <<f>>]
      BY <1>2 DEF Collected
    <2>2. DOMAIN <<f>> = {1} /\ <<f>>[1] = f
      OBVIOUS
    <2>. QED BY <1>1, <2>1, <2>2, TelegramFacts DEF SlotOf
  <1>3. CASE f.i # 0
    <2>1. s.data \in Seq(Fragments) /\ s.id = f.dev
      BY <1>3 DEF SlotType, Accepts
    <2>2. Collected(s, f) = [s EXCEPT !.data = Append(@, f)]
      BY <1>3 DEF Collected
    <2>3. Collected(s, f).length = s.length /\ Collected(s, f).data = Append(s.data, f)
      BY <2>2 DEF SlotType
    <2>4. \A i \in DOMAIN Append(s.data, f) :
             \/ Append(s.data, f)[i] = f
             \/ i \in DOMAIN s.data /\ Append(s.data, f)[i] = s.data[i]
      BY <2>1, AppendProperties, LenProperties
    <2>. QED BY <1>1, <2>1, <2>3, <2>4 DEF SlotOf
  <1>. QED BY <1>2, <1>3

\* A fragment in its turn continues what the slot begins.
LEMMA CollectedBegins ==
    ASSUME NEW s \in SlotType, NEW f \in Fragments,
           \/ f.i = 0
           \/ /\ f.i # 0 /\ f.i < Pieces[f.n]
              /\ Begins(s, f.dev, f.n) /\ Len(s.data) = f.i
    PROVE  LET c == Collected(s, f) IN
           Begins(c, f.dev, f.n) /\ Len(c.data) = f.i + 1
  <1>1. f.dev \in Devices /\ f.n \in Telegrams /\ f.i \in Nat
        /\ f = [dev |-> f.dev, n |-> f.n, i |-> f.i]
    BY DEF Fragments
  <1>2. Pieces[f.n] \in Nat /\ Pieces[f.n] >= 1
    BY <1>1, TelegramFacts
  <1>3. CASE f.i = 0
    <2>1. Collected(s, f) = [id |-> f.dev, length |-> Pieces[f.n], data |-> <<f>>]
      BY <1>3 DEF Collected
    <2>2. DOMAIN <<f>> = {1} /\ <<f>>[1] = f /\ Len(<<f>>) = 1
      OBVIOUS
    <2>. QED BY <1>1, <1>2, <1>3, <2>1, <2>2 DEF Begins
  <1>4. CASE f.i # 0
    <2>1. s.data \in Seq(Fragments)
      BY DEF SlotType
    <2>2. Collected(s, f) = [s EXCEPT !.data = Append(@, f)]
      BY <1>4 DEF Collected
    <2>3. Collected(s, f).length = s.length /\ Collected(s, f).data = Append(s.data, f)
      BY <2>2 DEF SlotType
    <2>4. /\ Begins(s, f.dev, f.n) /\ Len(s.data) = f.i /\ f.i < Pieces[f.n]
      BY <1>4
    <2>5. /\ Len(Append(s.data, f)) = f.i + 1
          /\ DOMAIN s.data = 1 .. f.i
          /\ DOMAIN Append(s.data, f) = 1 .. f.i + 1
          /\ \A i \in 1 .. f.i : Append(s.data, f)[i] = s.data[i]
          /\ Append(s.data, f)[f.i + 1] = f
      BY <1>1, <2>1, <2>4, AppendProperties, LenProperties
    <2> DEFINE new == Append(s.data, f)
    <2> HIDE DEF new
    <2>6. \A i \in DOMAIN new : new[i] = [dev |-> f.dev, n |-> f.n, i |-> i - 1]
      <3> SUFFICES ASSUME NEW i \in 1 .. f.i + 1
                   PROVE  new[i] = [dev |-> f.dev, n |-> f.n, i |-> i - 1]
        BY <2>5 DEF new
      <3>1. CASE i \in 1 .. f.i
        BY <2>4, <2>5, <3>1 DEF Begins, new
      <3>2. CASE i = f.i + 1
        <4>1. i - 1 = f.i
          BY <1>1, <3>2
        <4>. QED BY <1>1, <2>5, <3>2, <4>1 DEF new
      <3>. QED BY <1>1, <3>1, <3>2
    <2>7. f.i + 1 \in 1 .. Pieces[f.n]
      BY <1>1, <1>2, <2>4
    <2>. QED BY <2>3, <2>4, <2>5, <2>6, <2>7 DEF Begins, new
  <1>. QED BY <1>3, <1>4

\* What a complete slot holds of a telegram begun in order is all of it.
LEMMA WholeContent ==
    ASSUME NEW s \in SlotType, NEW d \in Devices, NEW n \in Telegrams,
           Begins(s, d, n), Complete(s)
    PROVE  Content(s) = Whole(d, n) /\ Len(s.data) = Pieces[n]
  <1>1. s.data \in Seq(Fragments) /\ s.length = Pieces[n]
    BY DEF SlotType, Begins
  <1>2. Pieces[n] \in Nat /\ Pieces[n] >= 1
    BY TelegramFacts
  <1>3. Len(s.data) = Pieces[n]
    BY <1>1, <1>2, LenProperties DEF Begins, Complete
  <1>4. /\ Content(s) \in Seq(Fragments) /\ Len(Content(s)) = Pieces[n]
        /\ \A i \in 1 .. Pieces[n] : Content(s)[i] = s.data[i]
    BY <1>1, <1>2, <1>3, SubSeqProperties DEF Content
  <1>5. Whole(d, n) \in Seq(Fragments) /\ Len(Whole(d, n)) = Pieces[n]
    BY TelegramFacts
  <1>6. \A i \in 1 .. Pieces[n] : Content(s)[i] = Whole(d, n)[i]
    BY <1>1, <1>3, <1>4, LenProperties DEF Begins, Whole
  <1>. QED BY <1>2, <1>3, <1>4, <1>5, <1>6, SeqEqual

\* What PushPacket adds to the queue, if anything.
LEMMA PushAdds ==
    ASSUME SlotInv, Places, NEW f \in Fragments, NEW ok \in BOOLEAN,
           PushPacket(f, ok)
    PROVE  /\ Places'
           /\ \/ pushed' = pushed
              \/ \E x \in Seq(Fragments) :
                    /\ pushed' = Append(pushed, x)
                    /\ Len(x) >= 1
                    /\ x[1].dev = f.dev /\ SeqNumber(x[1].n) = SlotOf(f)
                    /\ x = Content(Collected(slot[SlotOf(f)], f))
                    /\ Complete(Collected(slot[SlotOf(f)], f))
                    /\ Accepts(slot[SlotOf(f)], f) /\ ok
  <1> DEFINE q0 == SlotOf(f)
             s == slot[q0]
             c == Collected(s, f)
  <1>1. /\ q0 \in Slots /\ s \in SlotType
        /\ s.id # NoDevice => s.length >= 1
        /\ \A i \in DOMAIN s.data : SeqNumber(s.data[i].n) = q0
        /\ \A i \in DOMAIN s.data : s.data[i].dev = s.id
    BY SlotIn DEF SlotInv, TypeOK, SlotType, Places, OwnData
  <1>2. \A q \in Slots \ {q0} : slot'[q] = slot[q]
    BY PushCases
  <1>3. CASE ~Accepts(s, f)
    <2>1. slot'[q0] = slot[q0] /\ pushed' = pushed
      BY <1>3, PushCases
    <2>. QED BY <1>2, <2>1 DEF Places
  <1>4. CASE Accepts(s, f)
    <2>1. /\ slot'[q0] = c /\ c \in SlotType /\ c.id = f.dev
          /\ pushed' = IF Complete(c) /\ ok
                       THEN Append(pushed, Content(c)) ELSE pushed
      BY <1>4, PushCases
    <2>2. c.length >= 1 /\ \A i \in DOMAIN c.data : SeqNumber(c.data[i].n) = q0
      BY <1>1, <1>4, CollectedPlace
    <2>3. \A i \in DOMAIN c.data : c.data[i].dev = c.id
      BY <1>1, <1>4, CollectedOwn
    <2> HIDE DEF c
    <2>4. Places'
      BY <1>1, <1>2, <2>1, <2>2 DEF Places
    <2>5. CASE Complete(c) /\ ok
      <3>1. /\ Content(c) \in Seq(Fragments)
            /\ \A i \in DOMAIN Content(c) : i \in DOMAIN c.data
                                            /\ Content(c)[i] = c.data[i]
        BY <2>1, <2>5, ContentOwn
      <3>2. c.length \in Nat /\ c.data \in Seq(Fragments) /\ c.length <= Len(c.data)
        BY <2>1, <2>5 DEF SlotType, Complete
      <3>3. Len(Content(c)) = c.length
        BY <2>2, <3>2, SubSeqProperties DEF Content
      <3>4. 1 \in DOMAIN Content(c)
        BY <2>2, <3>1, <3>2, <3>3, LenProperties
      <3>5. Content(c)[1].dev = f.dev /\ SeqNumber(Content(c)[1].n) = q0
        BY <2>1, <2>2, <2>3, <3>1, <3>4
      <3>6. pushed' = Append(pushed, Content(c))
        BY <2>1, <2>5
      <3>. QED BY <1>4, <2>2, <2>4, <2>5, <3>1, <3>3, <3>5, <3>6 DEF c
    <2>6. CASE ~(Complete(c) /\ ok)
      BY <2>1, <2>4, <2>6
    <2>. QED BY <2>5, <2>6
  <1>. QED BY <1>3, <1>4

\* A device that sends under one number stays in step with the others' slots.
LEMMA OtherNumbers ==
    ASSUME SlotInv, NEW d \in Devices, Send(d),
           NEW s \in SlotType, NEW q \in Slots, q # SlotOf(Fragment(d)),
           WithSlot(s, next[d], d, q)
    PROVE  WithSlot(s, next'[d], d, q)
  <1> DEFINE p == next[d]
             m == Len(s.data)
  <1>1. PICK n \in Telegrams : /\ SeqNumber(n) = q
                               /\ Begins(s, d, n)
                               /\ AtPlace(p, m, n)
    BY DEF WithSlot
  <1>2. p.n \in Nat /\ p.i \in Nat /\ n \in Nat
    BY SenderPlace, TelegramFacts
  <1>3. /\ SeqNumber(p.n) # q
        /\ \/ next'[d] = [n |-> p.n, i |-> p.i + 1]
           \/ next'[d] = [n |-> p.n + 1, i |-> 0]
    BY SendFacts DEF SlotOf
  <1>4. p.n # n
    BY <1>1, <1>3
  <1>5. p.n > n /\ m = Pieces[n]
    BY <1>1, <1>4 DEF AtPlace
  <1>6. AtPlace(next'[d], m, n)
    <2>1. CASE next'[d] = [n |-> p.n, i |-> p.i + 1]
      BY <1>1, <1>3, <1>5, <2>1 DEF AtPlace
    <2>2. CASE next'[d] = [n |-> p.n + 1, i |-> 0]
      <3>1. p.n + 1 > n
        BY <1>2, <1>5
      <3>. QED BY <1>5, <2>2, <3>1 DEF AtPlace
    <2>. QED BY <1>3, <2>1, <2>2
  <1>. QED BY <1>1, <1>6 DEF WithSlot

\* A slot that accepts a fragment of its device in its turn is in step.
LEMMA InTurn ==
    ASSUME SlotInv, NEW d \in Devices, Send(d), NEW s \in SlotType,
           Accepts(s, Fragment(d)),
           s.id = d => WithSlot(s, next[d], d, SlotOf(Fragment(d)))
    PROVE  LET f == Fragment(d)
               c == Collected(s, f) IN
           /\ Begins(c, d, f.n) /\ Len(c.data) = f.i + 1
           /\ WithSlot(c, next'[d], d, SlotOf(f))
  <1> DEFINE f == Fragment(d)
             c == Collected(s, f)
  <1>1. /\ f \in Fragments /\ f.dev = d /\ f.n = next[d].n /\ f.i = next[d].i
        /\ \/ f.i + 1 < Pieces[f.n] /\ next'[d] = [n |-> f.n, i |-> f.i + 1]
           \/ f.i + 1 >= Pieces[f.n] /\ next'[d] = [n |-> f.n + 1, i |-> 0]
    BY SendFacts
  <1>2. f.n \in Telegrams /\ f.i \in Nat
    BY <1>1 DEF Fragments
  <1>3. f.n \in Nat /\ Pieces[f.n] \in Nat /\ Pieces[f.n] >= 1
    BY <1>2, TelegramFacts
  <1>4. \/ f.i = 0
        \/ /\ f.i # 0 /\ f.i < Pieces[f.n]
           /\ Begins(s, f.dev, f.n) /\ Len(s.data) = f.i
    <2> SUFFICES ASSUME f.i # 0
                 PROVE  /\ f.i < Pieces[f.n]
                        /\ Begins(s, f.dev, f.n) /\ Len(s.data) = f.i
      OBVIOUS
    <2>1. s.id = d
      BY <1>1 DEF Accepts
    <2>2. PICK n \in Telegrams : /\ SeqNumber(n) = SlotOf(f)
                                 /\ Begins(s, d, n)
                                 /\ AtPlace(next[d], Len(s.data), n)
      BY <2>1 DEF WithSlot
    <2>3. SeqNumber(next[d].n) = SeqNumber(n) /\ next[d].i # 0
      BY <1>1, <2>2 DEF SlotOf
    <2>4. next[d].n = n /\ next[d].i = Len(s.data) /\ Len(s.data) < Pieces[n]
      BY <2>2, <2>3 DEF AtPlace
    <2>. QED BY <1>1, <2>2, <2>4
  <1>5. Begins(c, d, f.n) /\ Len(c.data) = f.i + 1
    BY <1>1, <1>4, CollectedBegins
  <1>6. AtPlace(next'[d], Len(c.data), f.n)
    <2> HIDE DEF c, f
    <2>1. CASE f.i + 1 < Pieces[f.n] /\ next'[d] = [n |-> f.n, i |-> f.i + 1]
      BY <1>5, <2>1 DEF AtPlace
    <2>2. CASE f.i + 1 >= Pieces[f.n] /\ next'[d] = [n |-> f.n + 1, i |-> 0]
      <3>1. Len(c.data) = Pieces[f.n]
        BY <1>2, <1>3, <1>5, <2>2 DEF Begins
      <3>2. f.n + 1 > f.n
        BY <1>3
      <3>. QED BY <2>2, <3>1, <3>2 DEF AtPlace
    <2>. QED BY <1>1, <2>1, <2>2 DEF f, c
  <1>. QED BY <1>2, <1>5, <1>6 DEF WithSlot, SlotOf

\* A fragment lost spoils the slot of its number for its device.
LEMMA LoseInStep ==
    ASSUME SlotInv, InStep, NEW d0 \in Devices, Lose(d0)
    PROVE  InStep'
  <1>1. /\ slot' = slot /\ slot \in [Slots -> SlotType]
        /\ Send(d0) /\ hurt' = hurt \cup {<<d0, SlotOf(Fragment(d0))>>}
        /\ \A e \in Devices \ {d0} : next'[e] = next[e]
    BY SendFacts DEF Lose, Fault, SlotInv, TypeOK, SlotType, SlotOf
  <1> SUFFICES ASSUME NEW q \in Slots, NEW d \in Devices,
                      slot[q].id = d, <<d, q>> \notin hurt'
               PROVE  WithSlot(slot[q], next'[d], d, q)
    BY <1>1 DEF InStep
  <1>2. WithSlot(slot[q], next[d], d, q)
    BY <1>1 DEF InStep
  <1>3. CASE d # d0
    BY <1>1, <1>2, <1>3
  <1>4. CASE d = d0
    BY <1>1, <1>2, <1>4, OtherNumbers
  <1>. QED BY <1>3, <1>4

\* So does one received twice, whatever it does to the slot.
LEMMA RepeatInStep ==
    ASSUME SlotInv, InStep, NEW d0 \in Devices, NEW ok \in BOOLEAN, Repeat(d0, ok)
    PROVE  InStep'
  <1> DEFINE f == LastSent(d0)
  <1>1. f \in Fragments /\ f.dev = d0
    BY SenderFragments DEF Repeat, LastSent
  <1>2. /\ next' = next /\ PushPacket(f, ok)
        /\ hurt' = hurt \cup {<<d0, SlotOf(f)>>}
    BY <1>1 DEF Repeat, Fault, SlotOf
  <1> HIDE DEF f
  <1> SUFFICES ASSUME NEW q \in Slots, NEW d \in Devices,
                      slot'[q].id = d, <<d, q>> \notin hurt'
               PROVE  WithSlot(slot'[q], next[d], d, q)
    BY <1>2 DEF InStep
  <1>3. slot'[q] = slot[q]
    <2>1. CASE q # SlotOf(f)
      BY <1>1, <1>2, <2>1, PushCases
    <2>2. CASE q = SlotOf(f) /\ Accepts(slot[q], f)
      BY <1>1, <1>2, <2>2, PushCases
    <2>3. CASE q = SlotOf(f) /\ ~Accepts(slot[q], f)
      BY <1>1, <1>2, <2>3, PushCases
    <2>. QED BY <2>1, <2>2, <2>3
  <1>. QED BY <1>2, <1>3 DEF InStep

\* A fragment received in its turn keeps its slot in step, or takes it, or
\* is dropped.
LEMMA ReceiveInStep ==
    ASSUME SlotInv, InStep, NEW d0 \in Devices, NEW ok \in BOOLEAN, Receive(d0, ok)
    PROVE  InStep'
  <1> DEFINE f == Fragment(d0)
             q0 == SlotOf(f)
  <1>1. /\ f \in Fragments /\ f.dev = d0 /\ Send(d0) /\ PushPacket(f, ok)
        /\ hurt' = hurt /\ slot \in [Slots -> SlotType] /\ q0 \in Slots
        /\ \A e \in Devices \ {d0} : next'[e] = next[e]
    BY SendFacts, SlotIn DEF Receive, SlotInv, TypeOK, SlotType
  <1> SUFFICES ASSUME NEW q \in Slots, NEW d \in Devices,
                      slot'[q].id = d, <<d, q>> \notin hurt
               PROVE  WithSlot(slot'[q], next'[d], d, q)
    BY <1>1 DEF InStep
  <1>2. CASE slot'[q] = slot[q] /\ (d # d0 \/ q # q0)
    <2>1. WithSlot(slot[q], next[d], d, q)
      BY <1>2 DEF InStep
    <2>2. CASE d # d0
      BY <1>1, <1>2, <2>1, <2>2
    <2>3. CASE d = d0 /\ q # q0
      BY <1>1, <1>2, <2>1, <2>3, OtherNumbers
    <2>. QED BY <1>2, <2>2, <2>3
  <1>3. CASE q = q0 /\ Accepts(slot[q0], f)
    <2>1. slot'[q0] = Collected(slot[q0], f) /\ slot'[q0].id = d0
      BY <1>1, <1>3, PushCases
    <2>2. d = d0
      BY <1>3, <2>1
    <2>3. slot[q0].id = d0 => WithSlot(slot[q0], next[d0], d0, q0)
      BY <1>3, <2>2 DEF InStep
    <2>. QED BY <1>1, <1>3, <2>1, <2>2, <2>3, InTurn
  <1>4. CASE q # q0
    BY <1>1, <1>2, <1>4, PushCases
  <1>5. CASE q = q0 /\ ~Accepts(slot[q0], f)
    <2>1. slot'[q] = slot[q] /\ slot[q0].id # d0
      BY <1>1, <1>5, PushCases DEF Accepts
    <2>. QED BY <1>2, <1>5, <2>1
  <1>. QED BY <1>3, <1>4, <1>5

\* A telegram added to the queue that is not whole is its device's own doing.
LEMMA FaithfulKept ==
    ASSUME SlotInv, Faithful, OneDevice', hurt \subseteq hurt',
           \/ pushed' = pushed
           \/ \E x \in Seq(Fragments) :
                 /\ pushed' = Append(pushed, x)
                 /\ \/ x = Whole(x[1].dev, x[1].n)
                    \/ <<x[1].dev, SeqNumber(x[1].n)>> \in hurt'
    PROVE  Faithful'
  <1>1. pushed \in Seq(Seq(Fragments))
    BY DEF SlotInv, TypeOK
  <1>2. CASE pushed' = pushed
    BY <1>2 DEF Faithful, Whole
  <1>3. ASSUME NEW x \in Seq(Fragments), pushed' = Append(pushed, x),
               \/ x = Whole(x[1].dev, x[1].n)
               \/ <<x[1].dev, SeqNumber(x[1].n)>> \in hurt'
        PROVE  Faithful'
    <2>1. \A k \in DOMAIN pushed' :
             \/ pushed'[k] = x
             \/ k \in DOMAIN pushed /\ pushed'[k] = pushed[k]
      BY <1>1, <1>3, AppendProperties, LenProperties
    <2>. QED BY <1>3, <2>1 DEF Faithful, Whole
  <1>. QED BY <1>2, <1>3

\* What a fragment received in its turn completes is whole, unless its
\* device was hurt before.
LEMMA ReceivedIsWhole ==
    ASSUME SlotInv, InStep, NEW d \in Devices, Send(d),
           <<d, SlotOf(Fragment(d))>> \notin hurt,
           Accepts(slot[SlotOf(Fragment(d))], Fragment(d))
    PROVE  LET f == Fragment(d)
               c == Collected(slot[SlotOf(f)], f) IN
           /\ Begins(c, d, f.n) /\ Len(c.data) = f.i + 1
           /\ Complete(c) => Content(c) = Whole(d, f.n)
  <1> DEFINE f == Fragment(d)
             s == slot[SlotOf(f)]
             c == Collected(s, f)
  <1>1. f \in Fragments /\ f.dev = d /\ f.n \in Telegrams
    BY SendFacts DEF Fragments
  <1>2. SlotOf(f) \in Slots /\ s \in SlotType /\ \A i \in DOMAIN s.data : s.data[i].dev = s.id
    BY <1>1, SlotIn DEF SlotInv, TypeOK, SlotType, OwnData
  <1>3. s.id = d => WithSlot(s, next[d], d, SlotOf(f))
    BY <1>2 DEF InStep
  <1>4. Begins(c, d, f.n) /\ Len(c.data) = f.i + 1
    BY <1>2, <1>3, InTurn
  <1>5. c \in SlotType
    BY <1>1, <1>2, CollectedOwn
  <1>. QED BY <1>1, <1>4, <1>5, WholeContent

LEMMA WholeInit == Init => WholeInv
  <1> SUFFICES ASSUME Init PROVE WholeInv
    OBVIOUS
  <1>1. \A q \in Slots : slot[q] = [id |-> NoDevice, length |-> 0, data |-> <<>>]
    BY DEF Init
  <1>2. SlotInv /\ Places /\ InStep
    BY <1>1, InitKeeps, CdmAssumption DEF Places, InStep
  <1>3. pushed = <<>>
    BY DEF Init
  <1>. QED BY <1>2, <1>3 DEF WholeInv, SlotInv, Faithful

LEMMA WholeStep == WholeInv /\ [Next]_vars => WholeInv'
  <1> SUFFICES ASSUME WholeInv, [Next]_vars PROVE WholeInv'
    OBVIOUS
  <1>0. SlotInv /\ Places /\ InStep /\ Faithful /\ SlotInv'
    BY StepKeeps DEF WholeInv
  <1>1. OneDevice'
    BY <1>0 DEF SlotInv
  <1>2. ASSUME NEW d \in Devices, Lose(d) PROVE WholeInv'
    <2>1. slot' = slot /\ pushed' = pushed /\ hurt \subseteq hurt'
      BY <1>2 DEF Lose, Fault
    <2>2. Places' /\ Faithful'
      BY <1>0, <1>1, <2>1, FaithfulKept DEF Places
    <2>. QED BY <1>0, <1>2, <2>2, LoseInStep DEF WholeInv
  <1>3. ASSUME NEW d \in Devices, NEW ok \in BOOLEAN, Receive(d, ok) PROVE WholeInv'
    <2> DEFINE f == Fragment(d)
    <2>1. f \in Fragments /\ f.dev = d /\ PushPacket(f, ok) /\ hurt' = hurt /\ Send(d)
      BY <1>0, <1>3, SendFacts DEF Receive
    <2>2. Places'
      BY <1>0, <2>1, PushAdds
    <2>3. Faithful'
      <3>1. CASE pushed' = pushed
        BY <1>0, <1>1, <2>1, <3>1, FaithfulKept
      <3>2. ASSUME NEW x \in Seq(Fragments), pushed' = Append(pushed, x),
                   x[1].dev = f.dev, SeqNumber(x[1].n) = SlotOf(f),
                   x = Content(Collected(slot[SlotOf(f)], f)),
                   Complete(Collected(slot[SlotOf(f)], f)),
                   Accepts(slot[SlotOf(f)], f)
            PROVE  Faithful'
        <4>1. CASE <<d, SlotOf(f)>> \in hurt
          <5>1. <<x[1].dev, SeqNumber(x[1].n)>> \in hurt'
            BY <2>1, <3>2, <4>1
          <5>. QED BY <1>0, <1>1, <2>1, <3>2, <5>1, FaithfulKept
        <4>2. CASE <<d, SlotOf(f)>> \notin hurt
          <5>1. x = Whole(d, f.n)
            BY <1>0, <2>1, <3>2, <4>2, ReceivedIsWhole
          <5>2. x[1].dev = d /\ x[1].n = f.n
            BY <2>1, <5>1, TelegramFacts DEF Fragments
          <5>. QED BY <1>0, <1>1, <2>1, <3>2, <5>1, <5>2, FaithfulKept
        <4>. QED BY <4>1, <4>2
      <3>. QED BY <1>0, <2>1, <3>1, <3>2, PushAdds
    <2>. QED BY <1>0, <1>3, <2>2, <2>3, ReceiveInStep DEF WholeInv
  <1>4. ASSUME NEW d \in Devices, NEW ok \in BOOLEAN, Repeat(d, ok) PROVE WholeInv'
    <2> DEFINE f == LastSent(d)
    <2>1. /\ f \in Fragments /\ f.dev = d /\ PushPacket(f, ok)
          /\ hurt' = hurt \cup {<<d, SlotOf(f)>>}
      BY <1>0, <1>4, SenderFragments DEF Repeat, LastSent, Fault, SlotOf
    <2> HIDE DEF f
    <2>2. Places'
      BY <1>0, <2>1, PushAdds
    <2>3. Faithful'
      <3>1. CASE pushed' = pushed
        BY <1>0, <1>1, <2>1, <3>1, FaithfulKept
      <3>2. ASSUME NEW x \in Seq(Fragments), pushed' = Append(pushed, x),
                   x[1].dev = f.dev, SeqNumber(x[1].n) = SlotOf(f)
            PROVE  Faithful'
        <4>1. <<x[1].dev, SeqNumber(x[1].n)>> \in hurt'
          BY <2>1, <3>2
        <4>. QED BY <1>0, <1>1, <2>1, <3>2, <4>1, FaithfulKept
      <3>. QED BY <1>0, <2>1, <3>1, <3>2, PushAdds
    <2>. QED BY <1>0, <1>4, <2>2, <2>3, RepeatInStep DEF WholeInv
  <1>5. ASSUME UNCHANGED vars PROVE WholeInv'
    <2>1. UNCHANGED <<next, slot, pushed, hurt>>
      BY <1>5 DEF vars
    <2>2. Places' /\ InStep'
      BY <1>0, <2>1 DEF Places, InStep
    <2>3. Faithful'
      BY <1>0, <1>1, <2>1, FaithfulKept
    <2>. QED BY <1>0, <2>2, <2>3 DEF WholeInv
  <1>. QED BY <1>2, <1>3, <1>4, <1>5 DEF Next

\* A queued telegram that is not what one device sent comes from fragments of
\* that device and sequence number that the radio lost or repeated: other
\* devices in its slot never damage a telegram PushPacket queues.
THEOREM AlwaysFaithful == Spec => []Faithful
  <1>1. WholeInv => Faithful
    BY DEF WholeInv
  <1>. QED BY WholeInit, WholeStep, <1>1, PTL DEF Spec

(***************************************************************************)
(* Every telegram once.  As long as nothing of its device and number was   *)
(* lost or repeated, a telegram is not queued before its last fragment was *)
(* sent (Unsent), keeps its slot from its first fragment on (Kept), and is *)
(* queued at one place afterwards (Queued), unless it was missed.          *)
(***************************************************************************)
Unsent(d, n) ==
    n >= next[d].n => \A k \in DOMAIN pushed : pushed[k] # Whole(d, n)

Kept(d, n) ==
    n = next[d].n /\ next[d].i > 0 /\ <<d, n>> \notin missed =>
        slot[SeqNumber(n)].id = d

Queued(d, n) ==
    n < next[d].n /\ <<d, n>> \notin missed =>
        \E k \in DOMAIN pushed :
            \A j \in DOMAIN pushed : pushed[j] = Whole(d, n) <=> j = k

Counted ==
    \A d \in Devices, n \in Telegrams :
        <<d, SeqNumber(n)>> \notin hurt => Unsent(d, n) /\ Kept(d, n) /\ Queued(d, n)

CountInv == WholeInv /\ Counted

\* What is added to the queue for another device or number is not the
\* telegram counted.
LEMMA AddedElsewhere ==
    ASSUME SlotInv, Places, NEW f \in Fragments, NEW ok \in BOOLEAN,
           PushPacket(f, ok),
           NEW d \in Devices, NEW n \in Telegrams,
           d # f.dev \/ SeqNumber(n) # SlotOf(f)
    PROVE  /\ \A k \in DOMAIN pushed : k \in DOMAIN pushed' /\ pushed'[k] = pushed[k]
           /\ \A k \in DOMAIN pushed' : pushed'[k] = Whole(d, n) => k \in DOMAIN pushed
  <1>1. pushed \in Seq(Seq(Fragments))
    BY DEF SlotInv, TypeOK
  <1>2. CASE pushed' = pushed
    BY <1>2
  <1>3. ASSUME NEW x \in Seq(Fragments), pushed' = Append(pushed, x),
               x[1].dev = f.dev, SeqNumber(x[1].n) = SlotOf(f)
        PROVE  /\ \A k \in DOMAIN pushed : k \in DOMAIN pushed' /\ pushed'[k] = pushed[k]
               /\ \A k \in DOMAIN pushed' : pushed'[k] = Whole(d, n) => k \in DOMAIN pushed
    <2>1. Whole(d, n)[1].dev = d /\ Whole(d, n)[1].n = n
      BY TelegramFacts
    <2>2. x # Whole(d, n)
      BY <1>3, <2>1
    <2>3. /\ \A k \in DOMAIN pushed : k \in DOMAIN pushed' /\ pushed'[k] = pushed[k]
          /\ \A k \in DOMAIN pushed' : pushed'[k] = x \/ k \in DOMAIN pushed
      BY <1>1, <1>3, AppendProperties, LenProperties
    <2>. QED BY <2>2, <2>3
  <1>. QED BY <1>2, <1>3, PushAdds

\* A slot in the midst of a telegram of d, with d's id, goes to another
\* device only with the telegram noted as missed.
LEMMA TakenIsMissed ==
    ASSUME SlotInv, InStep, NEW f \in Fragments, NEW ok \in BOOLEAN,
           PushPacket(f, ok), NEW d \in Devices, f.dev # d,
           next[d].n \in Telegrams, next[d].i > 0,
           <<d, SeqNumber(next[d].n)>> \notin hurt,
           slot[SeqNumber(next[d].n)].id = d
    PROVE  \/ slot'[SeqNumber(next[d].n)].id = d
           \/ <<d, next[d].n>> \in missed'
  <1> DEFINE q == SeqNumber(next[d].n)
             s == slot[q]
  <1>1. q \in Slots /\ s \in SlotType /\ next[d].i \in Nat
    BY TelegramFacts, SenderPlace DEF SlotInv, TypeOK, SlotType
  <1>2. PICK n \in Telegrams : /\ SeqNumber(n) = q
                               /\ Begins(s, d, n)
                               /\ AtPlace(next[d], Len(s.data), n)
    BY <1>1 DEF InStep, WithSlot
  <1>3. next[d].n = n /\ Len(s.data) < Pieces[n]
    BY <1>1, <1>2 DEF AtPlace
  <1>4. Pieces[n] \in Nat /\ Len(s.data) \in 1 .. Pieces[n] /\ s.length = Pieces[n]
    BY <1>2, TelegramFacts DEF Begins
  <1>5. ~Complete(s)
    BY <1>3, <1>4 DEF Complete
  <1>6. 1 \in DOMAIN s.data
    BY <1>1, <1>4, LenProperties DEF SlotType
  <1>7. s.data[1].n = n
    <2>1. s.data[1] = [dev |-> d, n |-> n, i |-> 1 - 1]
      BY <1>2, <1>6 DEF Begins
    <2>. QED BY <2>1
  <1>8. CASE q # SlotOf(f)
    BY <1>1, <1>8, PushCases
  <1>9. CASE q = SlotOf(f) /\ ~Accepts(s, f)
    BY <1>9, PushCases
  <1>10. CASE q = SlotOf(f) /\ Accepts(s, f)
    <2>1. f.i = 0 /\ s.id # f.dev
      BY <1>10 DEF Accepts
    <2>2. <<s.id, s.data[1].n>> \in missed'
      BY <1>5, <1>6, <1>10, <2>1, PushCases
    <2>. QED BY <1>3, <1>7, <2>2
  <1>. QED BY <1>8, <1>9, <1>10

\* A telegram under another number, or of another device, than the fragment
\* stays counted.
LEMMA CountedElsewhere ==
    ASSUME WholeInv, NEW f \in Fragments, NEW ok \in BOOLEAN, PushPacket(f, ok),
           NEW d \in Devices, NEW n \in Telegrams,
           Unsent(d, n) /\ Kept(d, n) /\ Queued(d, n),
           <<d, SeqNumber(n)>> \notin hurt,
           d # f.dev \/ SeqNumber(n) # SlotOf(f),
           \/ next'[d] = next[d]
           \/ d = f.dev /\ f = Fragment(d) /\ Send(d)
    PROVE  Unsent(d, n)' /\ Kept(d, n)' /\ Queued(d, n)'
  <1>1. SlotInv /\ Places /\ InStep
    BY DEF WholeInv
  <1>2. /\ \A k \in DOMAIN pushed : k \in DOMAIN pushed' /\ pushed'[k] = pushed[k]
        /\ \A k \in DOMAIN pushed' : pushed'[k] = Whole(d, n) => k \in DOMAIN pushed
    BY <1>1, AddedElsewhere
  <1>3. missed \subseteq missed' /\ \A q \in Slots \ {SlotOf(f)} : slot'[q] = slot[q]
    BY <1>1, PushCases
  <1>4. n \in Nat /\ next[d].n \in Nat /\ next[d].i \in Nat /\ SeqNumber(n) \in Slots
    BY <1>1, TelegramFacts, SenderPlace
  <1>5. /\ n >= next'[d].n => n >= next[d].n
        /\ n < next'[d].n => n < next[d].n
        /\ n = next'[d].n /\ next'[d].i > 0 => next'[d] = next[d]
    <2>1. CASE next'[d] = next[d]
      BY <1>4, <2>1
    <2>2. CASE d = f.dev /\ f = Fragment(d) /\ Send(d)
      <3>1. /\ f.n = next[d].n
            /\ \/ next'[d] = [n |-> f.n, i |-> f.i + 1]
               \/ next'[d] = [n |-> f.n + 1, i |-> 0]
        BY <1>1, <2>2, SendFacts
      <3>2. n # f.n
        BY <2>2 DEF SlotOf
      <3>3. /\ next'[d].n = next[d].n \/ (next'[d].n = next[d].n + 1 /\ next'[d].i = 0)
            /\ next'[d].n = next[d].n => n # next'[d].n
        BY <3>1, <3>2
      <3>. QED BY <1>4, <3>1, <3>2, <3>3
    <2>. QED BY <2>1, <2>2
  <1>6. Unsent(d, n)'
    BY <1>2, <1>5 DEF Unsent, Whole
  <1>7. Kept(d, n)'
    <2> SUFFICES ASSUME n = next'[d].n, next'[d].i > 0, <<d, n>> \notin missed'
                 PROVE  slot'[SeqNumber(n)].id = d
      BY DEF Kept, SeqNumber
    <2>1. next'[d] = next[d] /\ slot[SeqNumber(n)].id = d
      BY <1>3, <1>5 DEF Kept
    <2>2. CASE SeqNumber(n) # SlotOf(f)
      BY <1>3, <1>4, <2>1, <2>2
    <2>3. CASE d # f.dev
      BY <1>1, <2>1, <2>3, TakenIsMissed
    <2>. QED BY <2>2, <2>3
  <1>8. Queued(d, n)'
    BY <1>2, <1>3, <1>5 DEF Queued, Whole
  <1>. QED BY <1>6, <1>7, <1>8

\* A device's own fragment, received in its turn, and the telegram it is of.
LEMMA CountedHere ==
    ASSUME WholeInv, NEW d \in Devices, NEW ok \in BOOLEAN, Receive(d, ok),
           NEW n \in Telegrams,
           Unsent(d, n) /\ Kept(d, n) /\ Queued(d, n),
           SeqNumber(n) = SlotOf(Fragment(d)),
           <<d, SeqNumber(n)>> \notin hurt
    PROVE  Unsent(d, n)' /\ Kept(d, n)' /\ Queued(d, n)'
  <1> DEFINE f == Fragment(d)
             q0 == SlotOf(f)
             c == Collected(slot[q0], f)
  <1>1. SlotInv /\ Places /\ InStep
    BY DEF WholeInv
  <1>2. Send(d) /\ PushPacket(f, ok)
    BY DEF Receive
  <1>3. /\ f \in Fragments /\ f.dev = d /\ f.n = next[d].n /\ f.i = next[d].i
        /\ \/ f.i + 1 < Pieces[f.n] /\ next'[d] = [n |-> f.n, i |-> f.i + 1]
           \/ f.i + 1 >= Pieces[f.n] /\ next'[d] = [n |-> f.n + 1, i |-> 0]
    BY <1>1, <1>2, SendFacts
  <1>4. /\ f.n \in Telegrams /\ f.n \in Nat /\ f.i \in Nat /\ n \in Nat
        /\ Pieces[f.n] \in Nat /\ Pieces[f.n] >= 1
    BY <1>3, TelegramFacts DEF Fragments
  <1>5. pushed \in Seq(Seq(Fragments)) /\ missed \subseteq missed'
    BY <1>1, <1>2, <1>3, PushCases DEF SlotInv, TypeOK
  <1>6. Accepts(slot[q0], f) =>
           /\ Begins(c, d, f.n) /\ Len(c.data) = f.i + 1
           /\ Complete(c) => Content(c) = Whole(d, f.n)
    BY <1>1, <1>2, ReceivedIsWhole
  <1>7. Accepts(slot[q0], f) =>
           /\ slot'[q0].id = d
           /\ pushed' = IF Complete(c) /\ ok
                        THEN Append(pushed, Content(c)) ELSE pushed
           /\ Complete(c) /\ ~ok => <<d, f.n>> \in missed'
    BY <1>1, <1>2, <1>3, PushCases
  <1>8. ~Accepts(slot[q0], f) => pushed' = pushed /\ slot'[q0] = slot[q0]
    BY <1>1, <1>2, <1>3, PushCases
  <1>9. Accepts(slot[q0], f) => (Complete(c) <=> f.i + 1 >= Pieces[f.n])
    BY <1>6 DEF Begins, Complete
  <1> HIDE DEF c, q0, f
  <1>10. \/ pushed' = pushed
         \/ pushed' = Append(pushed, Whole(d, f.n)) /\ f.i + 1 >= Pieces[f.n]
    BY <1>6, <1>7, <1>8, <1>9
  <1>11. \A w \in Seq(Fragments) : pushed' = Append(pushed, w) =>
            /\ DOMAIN pushed = 1 .. Len(pushed) /\ Len(pushed) \in Nat
            /\ DOMAIN pushed' = 1 .. Len(pushed) + 1
            /\ \A k \in DOMAIN pushed : pushed'[k] = pushed[k]
            /\ pushed'[Len(pushed) + 1] = w
    BY <1>5, AppendProperties, LenProperties
  <1>12. \A m \in Telegrams : Whole(d, m) \in Seq(Fragments) /\ Whole(d, m)[1].n = m
    BY TelegramFacts
  <1>13. f.n >= next[d].n /\ (n >= next'[d].n => n >= next[d].n)
    BY <1>3, <1>4
  <1>14. Unsent(d, n)'
    <2> SUFFICES ASSUME n >= next'[d].n PROVE \A k \in DOMAIN pushed' : pushed'[k] # Whole(d, n)
      BY DEF Unsent, Whole
    <2>1. \A k \in DOMAIN pushed : pushed[k] # Whole(d, n)
      BY <1>13 DEF Unsent
    <2>2. CASE pushed' = pushed
      BY <2>1, <2>2
    <2>3. CASE pushed' = Append(pushed, Whole(d, f.n)) /\ f.i + 1 >= Pieces[f.n]
      <3>1. n # f.n
        BY <1>3, <1>4, <2>3
      <3>2. Whole(d, f.n) # Whole(d, n)
        BY <1>4, <1>12, <3>1
      <3>3. \A k \in DOMAIN pushed' : pushed'[k] = Whole(d, f.n) \/ (k \in DOMAIN pushed /\ pushed'[k] = pushed[k])
        BY <1>4, <1>11, <1>12, <2>3
      <3>. QED BY <2>1, <3>2, <3>3
    <2>. QED BY <1>10, <2>2, <2>3
  <1>15. <<d, f.n>> \notin missed /\ n = f.n => Accepts(slot[q0], f)
    <2> SUFFICES ASSUME <<d, n>> \notin missed, n = f.n PROVE Accepts(slot[q0], f)
      OBVIOUS
    <2>1. f.i > 0 => slot[SeqNumber(n)].id = d
      BY <1>3 DEF Kept
    <2>2. SeqNumber(n) = q0
      BY DEF q0, f
    <2>. QED BY <1>3, <1>4, <2>1, <2>2 DEF Accepts
  <1>16. Kept(d, n)'
    <2> SUFFICES ASSUME n = next'[d].n, next'[d].i > 0, <<d, n>> \notin missed'
                 PROVE  slot'[SeqNumber(n)].id = d
      BY DEF Kept, SeqNumber
    <2>1. n = f.n
      BY <1>3
    <2>2. SeqNumber(n) = q0
      BY DEF q0, f
    <2>. QED BY <1>5, <1>7, <1>15, <2>1, <2>2
  <1>17. Queued(d, n)'
    <2> SUFFICES ASSUME n < next'[d].n, <<d, n>> \notin missed'
                 PROVE  \E k \in DOMAIN pushed' :
                            \A j \in DOMAIN pushed' : pushed'[j] = Whole(d, n) <=> j = k
      BY DEF Queued, Whole
    <2>1. CASE n < next[d].n
      <3>1. PICK k \in DOMAIN pushed :
                \A j \in DOMAIN pushed : pushed[j] = Whole(d, n) <=> j = k
        BY <1>5, <2>1 DEF Queued
      <3>2. CASE pushed' = pushed
        BY <3>1, <3>2
      <3>3. CASE pushed' = Append(pushed, Whole(d, f.n))
        <4>1. n # f.n
          BY <1>3, <1>4, <2>1
        <4>2. Whole(d, f.n) # Whole(d, n)
          BY <1>4, <1>12, <4>1
        <4>3. /\ \A j \in DOMAIN pushed' : pushed'[j] = Whole(d, f.n) \/ (j \in DOMAIN pushed /\ pushed'[j] = pushed[j])
              /\ k \in DOMAIN pushed'
              /\ \A j \in DOMAIN pushed : pushed'[j] = pushed[j]
          BY <1>4, <1>11, <1>12, <3>3
        <4>4. \A j \in DOMAIN pushed' : pushed'[j] = Whole(d, n) <=> j = k
          BY <3>1, <4>2, <4>3
        <4>. QED BY <4>3, <4>4
      <3>. QED BY <1>10, <3>2, <3>3
    <2>2. CASE ~(n < next[d].n)
      <3>1. n = f.n /\ f.i + 1 >= Pieces[f.n]
        BY <1>3, <1>4, <2>2
      <3>2. Accepts(slot[q0], f)
        BY <1>5, <1>15, <3>1
      <3>3. pushed' = Append(pushed, Whole(d, n))
        BY <1>6, <1>7, <1>9, <3>1, <3>2
      <3>4. \A k \in DOMAIN pushed : pushed[k] # Whole(d, n)
        BY <1>3, <1>4, <3>1 DEF Unsent
      <3>5. /\ DOMAIN pushed = 1 .. Len(pushed) /\ Len(pushed) \in Nat
            /\ DOMAIN pushed' = 1 .. Len(pushed) + 1
            /\ \A k \in DOMAIN pushed : pushed'[k] = pushed[k]
            /\ pushed'[Len(pushed) + 1] = Whole(d, n)
        BY <1>11, <1>12, <3>3
      <3>6. Len(pushed) + 1 \in DOMAIN pushed'
            /\ \A j \in DOMAIN pushed' : j \in DOMAIN pushed \/ j = Len(pushed) + 1
        BY <3>5
      <3>7. Len(pushed) + 1 \notin DOMAIN pushed
        BY <3>5
      <3>8. \A j \in DOMAIN pushed' : pushed'[j] = Whole(d, n) <=> j = Len(pushed) + 1
        BY <3>4, <3>5, <3>6, <3>7
      <3>. QED BY <3>6, <3>8
    <2>. QED BY <2>1, <2>2
  <1>. QED BY <1>14, <1>16, <1>17

LEMMA CountInit == Init => CountInv
  <1> SUFFICES ASSUME Init PROVE CountInv
    OBVIOUS
  <1>1. pushed = <<>> /\ \A d \in Devices : next[d] = [n |-> 1, i |-> 0]
    BY DEF Init
  <1>2. \A n \in Telegrams : n \in Nat /\ n >= 1
    BY TelegramFacts
  <1>. QED BY <1>1, <1>2, WholeInit DEF CountInv, Counted, Unsent, Kept, Queued

LEMMA CountStep == CountInv /\ [Next]_vars => CountInv'
  <1> SUFFICES ASSUME CountInv, [Next]_vars PROVE CountInv'
    OBVIOUS
  <1>0. WholeInv /\ Counted /\ WholeInv' /\ SlotInv
    BY WholeStep DEF CountInv, WholeInv
  <1>1. ASSUME NEW d0 \in Devices, Lose(d0) PROVE Counted'
    <2> SUFFICES ASSUME NEW d \in Devices, NEW n \in Telegrams,
                        <<d, SeqNumber(n)>> \notin hurt'
                 PROVE  Unsent(d, n)' /\ Kept(d, n)' /\ Queued(d, n)'
      BY DEF Counted, SeqNumber, Telegrams
    <2>1. /\ Send(d0) /\ slot' = slot /\ pushed' = pushed /\ missed' = missed
          /\ hurt' = hurt \cup {<<d0, SlotOf(Fragment(d0))>>}
          /\ \A e \in Devices \ {d0} : next'[e] = next[e]
      BY <1>0, <1>1, SendFacts DEF Lose, Fault, SlotOf
    <2>2. Unsent(d, n) /\ Kept(d, n) /\ Queued(d, n)
      BY <1>0, <2>1 DEF Counted
    <2>3. CASE d # d0
      <3>1. next'[d] = next[d]
        BY <2>1, <2>3
      <3>. QED BY <2>1, <2>2, <3>1 DEF Unsent, Kept, Queued, Whole, SeqNumber
    <2>4. CASE d = d0
      <3>1. /\ Fragment(d).n = next[d].n
            /\ \/ next'[d] = [n |-> Fragment(d).n, i |-> Fragment(d).i + 1]
               \/ next'[d] = [n |-> Fragment(d).n + 1, i |-> 0]
        BY <1>0, <2>1, <2>4, SendFacts
      <3>2. n # next[d].n /\ n \in Nat /\ next[d].n \in Nat
        BY <1>0, <2>1, <2>4, <3>1, TelegramFacts, SenderPlace DEF SlotOf
      <3>3. /\ n >= next'[d].n => n >= next[d].n
            /\ n < next'[d].n => n < next[d].n
            /\ ~(n = next'[d].n /\ next'[d].i > 0)
        <4>1. CASE next'[d] = [n |-> Fragment(d).n, i |-> Fragment(d).i + 1]
          BY <3>1, <3>2, <4>1
        <4>2. CASE next'[d] = [n |-> Fragment(d).n + 1, i |-> 0]
          BY <3>1, <3>2, <4>2
        <4>. QED BY <3>1, <4>1, <4>2
      <3>. QED BY <2>1, <2>2, <3>3 DEF Unsent, Kept, Queued, Whole
    <2>. QED BY <2>3, <2>4
  <1>2. ASSUME NEW d0 \in Devices, NEW ok \in BOOLEAN, Receive(d0, ok) PROVE Counted'
    <2> SUFFICES ASSUME NEW d \in Devices, NEW n \in Telegrams,
                        <<d, SeqNumber(n)>> \notin hurt'
                 PROVE  Unsent(d, n)' /\ Kept(d, n)' /\ Queued(d, n)'
      BY DEF Counted, SeqNumber, Telegrams
    <2> DEFINE f == Fragment(d0)
    <2>1. /\ Send(d0) /\ PushPacket(f, ok) /\ hurt' = hurt
          /\ f \in Fragments /\ f.dev = d0
          /\ \A e \in Devices \ {d0} : next'[e] = next[e]
      BY <1>0, <1>2, SendFacts DEF Receive
    <2>2. Unsent(d, n) /\ Kept(d, n) /\ Queued(d, n)
      BY <1>0, <2>1 DEF Counted
    <2>3. CASE d = d0 /\ SeqNumber(n) = SlotOf(f)
      BY <1>0, <1>2, <2>1, <2>2, <2>3, CountedHere
    <2>4. CASE d # d0 \/ SeqNumber(n) # SlotOf(f)
      <3>1. next'[d] = next[d] \/ (d = f.dev /\ f = Fragment(d) /\ Send(d))
        BY <2>1
      <3>. QED BY <1>0, <2>1, <2>2, <2>4, <3>1, CountedElsewhere
    <2>. QED BY <2>3, <2>4
  <1>3. ASSUME NEW d0 \in Devices, NEW ok \in BOOLEAN, Repeat(d0, ok) PROVE Counted'
    <2> SUFFICES ASSUME NEW d \in Devices, NEW n \in Telegrams,
                        <<d, SeqNumber(n)>> \notin hurt'
                 PROVE  Unsent(d, n)' /\ Kept(d, n)' /\ Queued(d, n)'
      BY DEF Counted, SeqNumber, Telegrams
    <2> DEFINE f == LastSent(d0)
    <2>1. /\ f \in Fragments /\ f.dev = d0 /\ PushPacket(f, ok) /\ next' = next
          /\ hurt' = hurt \cup {<<d0, SlotOf(f)>>}
      BY <1>0, <1>3, SenderFragments DEF Repeat, LastSent, Fault, SlotOf
    <2> HIDE DEF f
    <2>2. Unsent(d, n) /\ Kept(d, n) /\ Queued(d, n)
      BY <1>0, <2>1 DEF Counted
    <2>3. d # f.dev \/ SeqNumber(n) # SlotOf(f)
      BY <2>1
    <2>. QED BY <1>0, <2>1, <2>2, <2>3, CountedElsewhere
  <1>4. ASSUME UNCHANGED vars PROVE Counted'
    <2>1. UNCHANGED <<next, slot, pushed, hurt, missed>>
      BY <1>4 DEF vars
    <2>. QED BY <1>0, <2>1 DEF Counted, Unsent, Kept, Queued, Whole, SeqNumber, Telegrams
  <1>. QED BY <1>0, <1>1, <1>2, <1>3, <1>4 DEF Next, CountInv

\* However devices collide in a slot, a telegram whose fragments all arrived
\* once is queued exactly once, unless it was missed: PushPacket, which
\* empties no slot, queues it no second time, nor anything equal to it.
THEOREM AlwaysExactlyOnce == Spec => []ExactlyOnce
  <1>1. CountInv => ExactlyOnce
    <2> SUFFICES ASSUME CountInv, NEW d \in Devices, NEW n \in Telegrams,
                        n < next[d].n, <<d, SeqNumber(n)>> \notin hurt,
                        <<d, n>> \notin missed
                 PROVE  Cardinality({k \in DOMAIN pushed : pushed[k] = Whole(d, n)}) = 1
      BY DEF ExactlyOnce
    <2>1. PICK k \in DOMAIN pushed :
              \A j \in DOMAIN pushed : pushed[j] = Whole(d, n) <=> j = k
      BY DEF CountInv, Counted, Queued
    <2>2. {j \in DOMAIN pushed : pushed[j] = Whole(d, n)} = {k}
      BY <2>1
    <2>. QED BY <2>2, FS_Singleton
  <1>. QED BY CountInit, CountStep, <1>1, PTL DEF Spec
=============================================================================
