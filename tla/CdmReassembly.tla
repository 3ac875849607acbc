--------------------------- MODULE CdmReassembly ----------------------------
(***************************************************************************)
(* How MainJob puts chained telegrams together (PushPacket in              *)
(* dpride/dpride.c).  A device cuts a long telegram into fragments with a  *)
(* sequence number of two bits and an index; PushPacket collects them in   *)
(* a slot that the sequence number alone chooses.  The first fragment      *)
(* takes the slot for its device, the others are appended when the slot is *)
(* their device's, whatever their index; the telegram is complete when     *)
(* enough bytes are there, and the slot stays as it is.  Encrypted         *)
(* telegrams have four slots of their own and are left out; fragments all  *)
(* count as one piece of the telegram's length.                            *)
(***************************************************************************)
EXTENDS Naturals, Sequences, FiniteSets

CONSTANTS
    Devices,     \* device addresses
    NoDevice,    \* address 0, in a slot never used
    Seqs,        \* number of sequence numbers: 4
    Pieces,      \* Pieces[n]: fragments of a device's n-th telegram
    MaxRadioFaults  \* bound: fragments lost or repeated, in all

ASSUME CdmAssumption ==
    /\ IsFiniteSet(Devices)
    /\ NoDevice \notin Devices
    /\ Seqs \in Nat \ {0}
    /\ Pieces \in Seq(Nat \ {0})
    /\ MaxRadioFaults \in Nat

VARIABLES
    next,      \* next[d]: telegram and index of d's next fragment
    slot,      \* CdmBuffer
    pushed,    \* telegrams queued for MainJob, as the fragments they hold
    radioFaults, \* history, bounded: fragments lost or repeated
    hurt,      \* history: device and sequence number of those
    missed     \* history: telegrams whose slot another device took before
               \* they were complete, and those PushPacket gave up

vars == <<next, slot, pushed, radioFaults, hurt, missed>>

Telegrams == DOMAIN Pieces
SeqNumber(n) == n % Seqs
Fragments == [dev : Devices, n : Telegrams, i : Nat]
Slots == 0 .. Seqs - 1
SlotOf(f) == SeqNumber(f.n)

\* Types; a slot no telegram has started holds nothing, so that a fragment
\* without a first one is never kept.
TypeOK ==
    /\ next \in [Devices -> [n : 1 .. Len(Pieces) + 1, i : Nat]]
    /\ slot \in [Slots -> [id : Devices \cup {NoDevice}, length : Nat,
                           data : Seq(Fragments)]]
    /\ \A q \in Slots : slot[q].id = NoDevice => slot[q].data = <<>>
    /\ pushed \in Seq(Seq(Fragments))
    /\ radioFaults \in 0 .. MaxRadioFaults
    /\ hurt \subseteq Devices \X Slots
    /\ missed \subseteq Devices \X Telegrams

(***************************************************************************)
(* PushPacket.                                                             *)
(***************************************************************************)
\* Slot s with fragment f, which starts it anew or is appended.
Collected(s, f) ==
    IF f.i = 0
    THEN [id |-> f.dev, length |-> Pieces[f.n], data |-> <<f>>]
    ELSE [s EXCEPT !.data = Append(@, f)]

\* Mutation of Accepts: the ids are not compared.
MutAnyId(s, f) == f.i = 0 \/ s.id # NoDevice

\* A later fragment needs a slot with its device's id; the rest is dropped.
Accepts(s, f) == f.i = 0 \/ s.id = f.dev

\* Mutation of Complete: CurrentLength > Length.
MutMoreThan(s) == Len(s.data) > s.length

Complete(s) == Len(s.data) >= s.length

\* What the slot's first length bytes are.
Content(s) == SubSeq(s.data, 1, s.length)

\* PushPacket(f).  A complete telegram is queued, unless there is no free
\* buffer (ok is FALSE).
PushPacket(f, ok) ==
    LET s == slot[SlotOf(f)]
        new == Collected(s, f) IN
    IF ~Accepts(s, f)
    THEN UNCHANGED <<slot, pushed, missed>>
    ELSE /\ slot' = [slot EXCEPT ![SlotOf(f)] = new]
         /\ pushed' = IF Complete(new) /\ ok
                      THEN Append(pushed, Content(new)) ELSE pushed
         /\ missed' = missed
                \cup {<<s.id, n>> : n \in {s.data[i].n : i \in
                         IF f.i = 0 /\ s.id # f.dev /\ ~Complete(s)
                         THEN DOMAIN s.data ELSE {}}}
                \cup IF Complete(new) /\ ~ok THEN {<<f.dev, f.n>>} ELSE {}

(***************************************************************************)
(* External: devices and radio.                                            *)
(***************************************************************************)
Fragment(d) == [dev |-> d, n |-> next[d].n, i |-> next[d].i]

\* d sends its next fragment.
Send(d) ==
    /\ next[d].n \in Telegrams
    /\ next' = [next EXCEPT ![d] =
           IF @.i + 1 < Pieces[@.n] THEN [n |-> @.n, i |-> @.i + 1]
           ELSE [n |-> @.n + 1, i |-> 0]]

\* The fragment d sent last.
LastSent(d) ==
    IF next[d].i > 0
    THEN [dev |-> d, n |-> next[d].n, i |-> next[d].i - 1]
    ELSE [dev |-> d, n |-> next[d].n - 1, i |-> Pieces[next[d].n - 1] - 1]

Fault(f) ==
    /\ radioFaults < MaxRadioFaults
    /\ radioFaults' = radioFaults + 1
    /\ hurt' = hurt \cup {<<f.dev, SeqNumber(f.n)>>}

Receive(d, ok) ==
    /\ Send(d)
    /\ PushPacket(Fragment(d), ok)
    /\ UNCHANGED <<radioFaults, hurt>>

Lose(d) ==
    /\ Send(d)
    /\ Fault(Fragment(d))
    /\ UNCHANGED <<slot, pushed, missed>>

\* The last fragment is received again, for example from a repeater.
Repeat(d, ok) ==
    /\ next[d] # [n |-> 1, i |-> 0]
    /\ Fault(LastSent(d))
    /\ PushPacket(LastSent(d), ok)
    /\ UNCHANGED next

Init ==
    /\ next = [d \in Devices |-> [n |-> 1, i |-> 0]]
    /\ slot = [q \in Slots |-> [id |-> NoDevice, length |-> 0, data |-> <<>>]]
    /\ pushed = <<>>
    /\ radioFaults = 0
    /\ hurt = {}
    /\ missed = {}

Next ==
    \E d \in Devices :
        \/ Lose(d)
        \/ \E ok \in BOOLEAN : Receive(d, ok) \/ Repeat(d, ok)

Spec == Init /\ [][Next]_vars

(***************************************************************************)
(* Properties.                                                             *)
(***************************************************************************)
\* A telegram MainJob gets holds fragments of one device only, however
\* devices collide in a slot and whatever is lost or repeated.
OneDevice ==
    \A k \in DOMAIN pushed :
        \A i, j \in DOMAIN pushed[k] : pushed[k][i].dev = pushed[k][j].dev

Whole(d, n) == [i \in 1 .. Pieces[n] |-> [dev |-> d, n |-> n, i |-> i - 1]]

\* A telegram that is not a device's telegram as sent comes from fragments
\* that the same device's radio path lost or repeated under the same
\* sequence number: what other devices do never damages a telegram, nor is
\* a piece of theirs in it.
Faithful ==
    /\ OneDevice
    /\ \A k \in DOMAIN pushed :
        LET f == pushed[k][1] IN
        \/ pushed[k] = Whole(f.dev, f.n)
        \/ <<f.dev, SeqNumber(f.n)>> \in hurt

\* A telegram whose fragments all arrived once reaches MainJob exactly
\* once, unless another device took its slot or PushPacket gave it up.  A
\* slot is not emptied: a repeated last fragment, or later fragments under
\* the same sequence number without their first, push it again.
ExactlyOnce ==
    \A d \in Devices, n \in Telegrams :
        /\ n < next[d].n
        /\ <<d, SeqNumber(n)>> \notin hurt /\ <<d, n>> \notin missed
        => Cardinality({k \in DOMAIN pushed : pushed[k] = Whole(d, n)}) = 1
=============================================================================
