---------------------------- MODULE PacketQueues ----------------------------
(***************************************************************************)
(* The packet buffers of dpride and the threads that pass them around      *)
(* (dpride/dpride.c): ReadThread fills a buffer of FreeQueue with a packet *)
(* and queues it by packet type, ActionThread runs MainJob on DataQueue    *)
(* and gives the buffer back, MainJob's PushPacket takes a second buffer   *)
(* for a reassembled telegram, and the main thread collects the responses  *)
(* to its commands.  Dequeue tests for an empty queue before it takes the  *)
(* queue's lock: the test and the locked removal are two steps.            *)
(***************************************************************************)
EXTENDS Naturals, Sequences

CONSTANTS
    FreeQueueCount,   \* number of buffers in the pool
    MaxTelegrams      \* bound: radio telegrams received in a behaviour

ASSUME PoolAssumption ==
    /\ FreeQueueCount \in Nat \ {0}
    /\ MaxTelegrams \in Nat

VARIABLES
    queue,        \* the four queues, sequences of buffers
    hold,         \* the buffer in each thread's hands
    pc,           \* where each thread is in its loop
    packetType,   \* ReadThread's local: type of the last good packet
    content,      \* what each buffer contains
    leaked,       \* buffers no pointer leads to any more
    crashed,      \* the process has dereferenced NULL
    received,     \* history: radio telegrams received so far
    handled       \* history: telegrams MainJob has seen, in order

vars == <<queue, hold, pc, packetType, content, leaked, crashed,
          received, handled>>

Buffers == 1 .. FreeQueueCount
NoBuffer == 0
QueueNames == {"free", "data", "response", "extra"}
Holders == {"read", "action", "push", "command"}
Threads == {"read", "action", "command"}
ReadSteps == {"free", "take", "packet", "down"}
ActionSteps == {"data", "dataTake", "job", "push", "pushTake", "assemble",
                "release", "extra", "extraTake", "extraRelease"}
CommandSteps == {"idle", "poll", "take", "release"}

\* The kinds of packet that reach ReadThread; both radio kinds have the
\* packet type of the radio telegrams.
Kinds == {"erp", "cdm", "response", "event"}
TypeOf(kind) == IF kind \in {"erp", "cdm"} THEN "radio" ELSE kind
QueueOf(type) ==
    CASE type = "radio" -> "data"
      [] type = "response" -> "response"
      [] OTHER -> "extra"

Contents ==
    [kind : Kinds \cup {"blank", "garbage", "assembled"},
     n : 0 .. MaxTelegrams]
Blank == [kind |-> "blank", n |-> 0]
Garbage == [kind |-> "garbage", n |-> 0]
Assembled == [kind |-> "assembled", n |-> 0]

TypeOK ==
    /\ queue \in [QueueNames -> Seq(Buffers)]
    /\ hold \in [Holders -> Buffers \cup {NoBuffer}]
    /\ pc \in [Threads -> ReadSteps \cup ActionSteps \cup CommandSteps]
    /\ pc["read"] \in ReadSteps
    /\ pc["action"] \in ActionSteps
    /\ pc["command"] \in CommandSteps
    /\ packetType \in {"none", "radio", "response", "event"}
    /\ content \in [Buffers -> Contents]
    /\ leaked \subseteq Buffers
    /\ crashed \in BOOLEAN
    /\ received \in 0 .. MaxTelegrams
    /\ handled \in Seq(1 .. MaxTelegrams)

(***************************************************************************)
(* The queue operations.                                                   *)
(***************************************************************************)
\* Enqueue(q, hold[h]): the buffer in h's hands goes to the tail of q.
Enqueue(h, q) ==
    /\ queue' = [queue EXCEPT ![q] = Append(@, hold[h])]
    /\ hold' = [hold EXCEPT ![h] = NoBuffer]

\* First half of Dequeue(q), without the lock: thread t goes on to the
\* removal, or to no when it finds q empty.
IsEmpty(q) == queue[q] = <<>>

\* Mutation of Test: the queue is taken for full of buffers.
MutTestNothing(t, q, yes, no) ==
    /\ pc' = [pc EXCEPT ![t] = yes]
    /\ UNCHANGED <<queue, hold, packetType, content, leaked, crashed,
                   received, handled>>
Test(t, q, yes, no) ==
    /\ pc' = [pc EXCEPT ![t] = IF IsEmpty(q) THEN no ELSE yes]
    /\ UNCHANGED <<queue, hold, packetType, content, leaked, crashed,
                   received, handled>>

\* Mutation of Remove: the newest buffer is taken.
MutRemoveNewest(t, h, q, next) ==
    /\ IF IsEmpty(q)
       THEN crashed' = TRUE /\ UNCHANGED <<queue, hold, pc>>
       ELSE /\ hold' = [hold EXCEPT ![h] = queue[q][Len(queue[q])]]
            /\ queue' = [queue EXCEPT ![q] = SubSeq(@, 1, Len(@) - 1)]
            /\ pc' = [pc EXCEPT ![t] = next]
            /\ UNCHANGED crashed
    /\ UNCHANGED <<packetType, content, leaked, received, handled>>

\* Second half of Dequeue(q), under the lock: STAILQ_REMOVE of the first
\* entry, which dereferences NULL when the queue has become empty.
Remove(t, h, q, next) ==
    /\ IF IsEmpty(q)
       THEN crashed' = TRUE /\ UNCHANGED <<queue, hold, pc>>
       ELSE /\ hold' = [hold EXCEPT ![h] = Head(queue[q])]
            /\ queue' = [queue EXCEPT ![q] = Tail(@)]
            /\ pc' = [pc EXCEPT ![t] = next]
            /\ UNCHANGED crashed
    /\ UNCHANGED <<packetType, content, leaked, received, handled>>

\* Thread t gives the buffer of h back to FreeQueue.  What a free buffer
\* contains is not tracked.
GiveBack(t, h, next) ==
    /\ Enqueue(h, "free")
    /\ content' = [content EXCEPT ![hold[h]] = Blank]
    /\ pc' = [pc EXCEPT ![t] = next]
    /\ UNCHANGED <<packetType, leaked, crashed, received, handled>>

(***************************************************************************)
(* ReadThread.  An empty FreeQueue ends the thread at once: its retry test *)
(* QueueTryTimes >= count already holds for count = 0.                     *)
(***************************************************************************)
ReadTest == pc["read"] = "free" /\ Test("read", "free", "take", "down")
ReadTake == pc["read"] = "take" /\ Remove("read", "read", "free", "packet")

\* QueueData by the type in the local packetType, which a failed GetPacket
\* leaves as the previous packet set it.
QueueByType(type, c) ==
    /\ pc["read"] = "packet"
    /\ packetType' = type
    /\ content' = [content EXCEPT ![hold["read"]] = c]
    /\ Enqueue("read", QueueOf(type))
    /\ pc' = [pc EXCEPT !["read"] = "free"]
    /\ UNCHANGED <<leaked, crashed, handled>>

\* GetPacket returns OK.
ReadPacket(kind) ==
    /\ IF TypeOf(kind) = "radio"
       THEN received < MaxTelegrams /\ received' = received + 1
       ELSE UNCHANGED received
    /\ QueueByType(TypeOf(kind),
           [kind |-> kind, n |-> IF TypeOf(kind) = "radio"
                                 THEN received + 1 ELSE 0])

\* Mutation of ReadError: a damaged packet counts as a radio telegram.
MutErrorAsRadio == QueueByType("radio", Garbage) /\ UNCHANGED received

\* GetPacket returns an error: the buffer is queued all the same.
ReadError == QueueByType(packetType, Garbage) /\ UNCHANGED received

(***************************************************************************)
(* ActionThread, with MainJob as far as it touches the buffers.            *)
(***************************************************************************)
DataTest ==
    pc["action"] = "data" /\ Test("action", "data", "dataTake", "extra")
DataTake ==
    /\ pc["action"] = "dataTake"
    /\ Remove("action", "action", "data", "job")

\* Mutation of MainJob: a reassembled telegram counts as a last fragment.
MutJobRepeats ==
    LET c == content[hold["action"]] IN
    /\ pc["action"] = "job"
    /\ handled' = IF c.n > 0 THEN Append(handled, c.n) ELSE handled
    /\ \E next \in IF c.kind \in {"cdm", "garbage", "assembled"}
                   THEN {"push", "release"} ELSE {"release"} :
           pc' = [pc EXCEPT !["action"] = next]
    /\ UNCHANGED <<queue, hold, packetType, content, leaked, crashed,
                   received>>

\* MainJob: a fragment, or a damaged packet that looks like one, may be
\* the last of its telegram and make PushPacket ask for a buffer.
MainJob ==
    LET c == content[hold["action"]] IN
    /\ pc["action"] = "job"
    /\ handled' = IF c.n > 0 THEN Append(handled, c.n) ELSE handled
    /\ \E next \in IF c.kind \in {"cdm", "garbage"}
                   THEN {"push", "release"} ELSE {"release"} :
           pc' = [pc EXCEPT !["action"] = next]
    /\ UNCHANGED <<queue, hold, packetType, content, leaked, crashed,
                   received>>

\* PushPacket's Dequeue of FreeQueue: an empty queue drops the telegram.
PushTest ==
    pc["action"] = "push" /\ Test("action", "free", "pushTake", "release")
PushTake ==
    pc["action"] = "pushTake" /\ Remove("action", "push", "free", "assemble")

\* Mutation of PushQueue: MainJob's own buffer is queued again.
MutPushInPlace ==
    /\ pc["action"] = "assemble"
    /\ queue' = [queue EXCEPT !["data"] = Append(@, hold["action"])]
    /\ hold' = [hold EXCEPT !["push"] = NoBuffer]
    /\ pc' = [pc EXCEPT !["action"] = "release"]
    /\ UNCHANGED <<packetType, content, leaked, crashed, received, handled>>

\* PushPacket queues the reassembled telegram, or returns without its
\* buffer: secure telegram of an unknown device, SecCreate fails.
PushQueue ==
    /\ pc["action"] = "assemble"
    /\ content' = [content EXCEPT ![hold["push"]] = Assembled]
    /\ Enqueue("push", "data")
    /\ pc' = [pc EXCEPT !["action"] = "release"]
    /\ UNCHANGED <<packetType, leaked, crashed, received, handled>>
PushGiveUp ==
    /\ pc["action"] = "assemble"
    /\ leaked' = leaked \cup {hold["push"]}
    /\ hold' = [hold EXCEPT !["push"] = NoBuffer]
    /\ pc' = [pc EXCEPT !["action"] = "release"]
    /\ UNCHANGED <<queue, packetType, content, crashed, received, handled>>

DataRelease ==
    pc["action"] = "release" /\ GiveBack("action", "action", "extra")

\* Mutation of ExtraTest: the loop waits for a packet in ExtraQueue.
MutExtraWaits ==
    pc["action"] = "extra" /\ Test("action", "extra", "extraTake", "extra")
ExtraTest ==
    pc["action"] = "extra" /\ Test("action", "extra", "extraTake", "data")
ExtraTake ==
    /\ pc["action"] = "extraTake"
    /\ Remove("action", "action", "extra", "extraRelease")

\* Mutation of ExtraRelease: the buffer goes back to where it was.
MutExtraRequeue ==
    /\ pc["action"] = "extraRelease"
    /\ Enqueue("action", "extra")
    /\ pc' = [pc EXCEPT !["action"] = "data"]
    /\ UNCHANGED <<packetType, content, leaked, crashed, received, handled>>
ExtraRelease ==
    pc["action"] = "extraRelease" /\ GiveBack("action", "action", "data")

(***************************************************************************)
(* The main thread's commands: SendCommand, then GetResponse.              *)
(***************************************************************************)
SendCommand ==
    /\ pc["command"] = "idle"
    /\ pc' = [pc EXCEPT !["command"] = "poll"]
    /\ UNCHANGED <<queue, hold, packetType, content, leaked, crashed,
                   received, handled>>

\* GetResponse polls until it finds a response or its time is over.
ResponseTest ==
    /\ pc["command"] = "poll"
    /\ \E no \in {"poll", "idle"} : Test("command", "response", "take", no)
ResponseTake ==
    /\ pc["command"] = "take"
    /\ Remove("command", "command", "response", "release")
ResponseRelease ==
    pc["command"] = "release" /\ GiveBack("command", "command", "idle")

(***************************************************************************)
(* The specification.                                                      *)
(***************************************************************************)
\* FreeQueueInit has run and the threads are at the top of their loops.
Init ==
    /\ queue = [q \in QueueNames |->
                   IF q = "free" THEN [i \in Buffers |-> i] ELSE <<>>]
    /\ hold = [h \in Holders |-> NoBuffer]
    /\ pc = [t \in Threads |-> CASE t = "read" -> "free"
                                 [] t = "action" -> "data"
                                 [] OTHER -> "idle"]
    /\ packetType = "none"
    /\ content = [b \in Buffers |-> Blank]
    /\ leaked = {}
    /\ crashed = FALSE
    /\ received = 0
    /\ handled = <<>>

ReadThread ==
    \/ ReadTest
    \/ ReadTake
    \/ \E kind \in Kinds : ReadPacket(kind)
    \/ ReadError

ActionThread ==
    \/ DataTest
    \/ DataTake
    \/ MainJob
    \/ PushTest
    \/ PushTake
    \/ PushQueue
    \/ PushGiveUp
    \/ DataRelease
    \/ ExtraTest
    \/ ExtraTake
    \/ ExtraRelease

GetResponse ==
    \/ ResponseTest
    \/ ResponseTake
    \/ ResponseRelease

MainThread == SendCommand \/ GetResponse

Next == ~crashed /\ (ReadThread \/ ActionThread \/ MainThread)

Spec == Init /\ [][Next]_vars

\* ActionThread and a GetResponse under way run whenever they can; packets
\* come from outside, and so do commands.
FairSpec ==
    /\ Spec
    /\ WF_vars(~crashed /\ ActionThread)
    /\ WF_vars(~crashed /\ GetResponse)

(***************************************************************************)
(* Who owns a buffer.                                                      *)
(***************************************************************************)
Elems(s) == {s[i] : i \in DOMAIN s}
Distinct(s) == \A i, j \in DOMAIN s : s[i] = s[j] => i = j

\* A buffer is never in two places: not twice in a queue, not in two
\* queues, not queued while a thread works on it, not in two threads'
\* hands.  A buffer queued twice would be filled by ReadThread under
\* MainJob's eyes, and would cut the list behind it.
NoSharing ==
    /\ \A q \in QueueNames : Distinct(queue[q])
    /\ \A p, q \in QueueNames :
           p # q => Elems(queue[p]) \cap Elems(queue[q]) = {}
    /\ \A h \in Holders, q \in QueueNames : hold[h] \notin Elems(queue[q])
    /\ \A g, h \in Holders : hold[g] = hold[h] => g = h \/ hold[g] = NoBuffer
    /\ \A b \in leaked :
           /\ \A q \in QueueNames : b \notin Elems(queue[q])
           /\ \A h \in Holders : hold[h] # b

\* No buffer gets lost, except the ones PushPacket gives up.
Conserved ==
    \A b \in Buffers :
        \/ \E q \in QueueNames : b \in Elems(queue[q])
        \/ \E h \in Holders : hold[h] = b
        \/ b \in leaked

\* Every buffer is in exactly one place: a queue, a thread's hands, or among
\* those PushPacket gave up.
OnePlace == NoSharing /\ Conserved

\* A thread has a buffer in hand at the steps between Dequeue and Enqueue,
\* and at no other.
HandsMatchSteps ==
    /\ hold["read"] # NoBuffer <=> pc["read"] = "packet"
    /\ hold["action"] # NoBuffer <=>
           pc["action"] \in {"job", "push", "pushTake", "assemble", "release",
                            "extraRelease"}
    /\ hold["push"] # NoBuffer <=> pc["action"] = "assemble"
    /\ hold["command"] # NoBuffer <=> pc["command"] = "release"

\* The invariant that carries the proofs: what a thread has in hand follows
\* from its step, so that a Dequeue never drops a buffer and an Enqueue
\* never queues NULL.
IInv == TypeOK /\ HandsMatchSteps /\ NoSharing /\ Conserved

\* The queues with one consumer are safe without a second test under the
\* lock: whoever has found DataQueue, ExtraQueue or ResponseQueue not
\* empty still finds a buffer in it when it has the lock.
SingleConsumerSafe ==
    /\ pc["action"] = "dataTake" => ~IsEmpty("data")
    /\ pc["action"] = "extraTake" => ~IsEmpty("extra")
    /\ pc["command"] = "take" => ~IsEmpty("response")

\* FreeQueue has two consumers.  ReadThread can find it emptied between
\* test and removal only while PushPacket, which took the last buffer,
\* still works for the telegram whose buffer it is about to give back; and
\* PushPacket only when ReadThread went on to GetPacket with that buffer.
\* A crash is one of these two cases.
FreeQueueRace ==
    /\ pc["read"] = "take" /\ IsEmpty("free") =>
           pc["action"] \in {"assemble", "release"}
    /\ pc["action"] = "pushTake" /\ IsEmpty("free") =>
           pc["read"] \in {"packet", "free", "down"}
    /\ crashed => /\ IsEmpty("free")
                  /\ \/ pc["read"] = "take"
                     \/ pc["action"] = "pushTake"

\* Dequeue's test without the lock is enough for the queues that have one
\* consumer, and on FreeQueue it fails in the two known ways only.
Guarded == SingleConsumerSafe /\ FreeQueueRace

\* A damaged packet is queued by the type of the packet before it: none
\* reaches MainJob before a good radio telegram has.
DamagedNeedsRadio ==
    \A b \in Elems(queue["data"]) :
        content[b].kind = "garbage" => received > 0

\* Every radio telegram received correctly reaches MainJob, unless the
\* process crashes first: ReadThread's end, leaked buffers and responses
\* nobody collects do not hold up what is queued already.
TelegramsHandled ==
    \A n \in 1 .. MaxTelegrams :
        (received >= n) ~> (crashed \/ n \in Elems(handled))

\* Once ReadThread has ended for want of a free buffer, the other threads
\* clear DataQueue and ExtraQueue for good.
DrainedAfterEnd ==
    (pc["read"] = "down") ~>
        (crashed \/ [](IsEmpty("data") /\ IsEmpty("extra")))

\* The owner of each buffer, as the abstract BufferPool sees it.
Owner ==
    [b \in Buffers |->
        CASE b \in leaked -> "leaked"
          [] \E h \in Holders : hold[h] = b ->
                 CHOOSE h \in Holders : hold[h] = b
          [] OTHER -> CHOOSE q \in QueueNames : b \in Elems(queue[q])]

Pool == INSTANCE BufferPool WITH owner <- Owner
Path == INSTANCE DataPath

\* The queues and threads implement the buffer pool: every step moves at
\* most one buffer, along one of the pool's paths.
ImplementsPool == Pool!Spec

\* MainJob sees the radio telegrams in the order ReadThread received them,
\* each of them once.
ImplementsPath == Path!Spec
=============================================================================
