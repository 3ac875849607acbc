---------------------------- MODULE JsonService -----------------------------
(***************************************************************************)
(* The JSON service (dpride/json.c): MainJob writes telegrams into a ring  *)
(* of buffers and links each into JsonQueue with Enqueue (dpride.c),       *)
(* whether or not it is linked there from the round before.  One server    *)
(* thread takes them out for one client.  Changes of mode start and stop   *)
(* it.                                                                     *)
(*                                                                         *)
(* The queue is the list queue.h's macros build: next pointers, and the    *)
(* head's pointers to the first entry and to the last next field.          *)
(***************************************************************************)
EXTENDS Naturals, Sequences

CONSTANTS
    Ring,            \* JSON_BUFFER_COUNT
    MaxTelegrams     \* bound: telegrams released

\* The code's is four.  With a single buffer Enqueue would make it its own
\* successor.
ASSUME RingAssumption == Ring \in Nat \ {0, 1} /\ MaxTelegrams \in Nat

Buffers == 0 .. Ring - 1
Null == Ring         \* a pointer to no buffer
AtHead == Ring       \* stqh_last points to stqh_first
Torn == 0            \* contents half written; telegrams count from 1

VARIABLES
    first,     \* stqh_first
    last,      \* the buffer whose next field stqh_last points to, or AtHead
    next,      \* the buffers' next fields
    content,   \* the telegram in each buffer
    index,     \* JsonIndex modulo Ring
    job,       \* MainJob in JsonRelease: "idle", "copy", "link" or "crashed"
    released,  \* telegrams JsonRelease was called for
    ready,     \* JsonSetup has run
    mode,      \* "Operation" or "other"
    filter,    \* the main thread is between Mode = Operation and JsonStart
    stop,      \* Json.Stop
    handle,    \* JsonHandle is not NULL
    server,    \* the server thread's step
    hand,      \* the buffer the server took out
    client,    \* the client: "none", "here" or "gone"
    sent,      \* telegrams the client got
    lapped,    \* history: a buffer linked or in the server's hand was reused
    late       \* history: telegrams sent after JsonStop hit a started server

queue == <<first, last, next>>
jobVars == <<content, index, job, released, lapped>>
mainVars == <<ready, mode, filter, stop, handle>>
vars == <<queue, jobVars, mainVars, server, hand, client, sent, late>>

\* The buffers linked, from the first on: Walk[k] is the k-th one after it.
Walk[k \in 0 .. Ring] ==
    IF k = 0 THEN first
    ELSE IF Walk[k - 1] = Null THEN Null ELSE next[Walk[k - 1]]
Linked(b) == \E k \in 0 .. Ring : Walk[k] = b

(***************************************************************************)
(* MainJob: JsonRelease, in Operation mode only.                           *)
(***************************************************************************)
\* JsonIndex++ & (JSON_BUFFER_COUNT - 1).
NextIndex(i) == (i + 1) % Ring

\* JsonGetBuffer and the first half of memcpy.  Before JsonSetup there is
\* no buffer: the program crashes.
GetBuffer ==
    /\ job = "idle" /\ mode = "Operation" /\ released < MaxTelegrams
    /\ released' = released + 1
    /\ IF ready
       THEN /\ job' = "copy"
            /\ index' = NextIndex(index)
            /\ content' = [content EXCEPT ![index] = Torn]
            /\ lapped' = (lapped \/ Linked(index) \/ hand = index)
       ELSE job' = "crashed" /\ UNCHANGED <<index, content, lapped>>
    /\ UNCHANGED <<queue, mainVars, server, hand, client, sent, late>>

\* The buffer JsonGetBuffer gave out.
Filled == (index + Ring - 1) % Ring

Copied ==
    /\ job = "copy"
    /\ job' = "link"
    /\ content' = [content EXCEPT ![Filled] = released]
    /\ UNCHANGED <<queue, index, released, lapped, mainVars, server, hand,
                   client, sent, late>>

\* Mutation of Enqueue: STAILQ_INSERT_HEAD.
MutInsertHead ==
    /\ job = "link"
    /\ job' = "idle"
    /\ first' = Filled
    /\ next' = [next EXCEPT ![Filled] = first]
    /\ last' = IF first = Null THEN Filled ELSE last
    /\ UNCHANGED <<content, index, released, lapped, mainVars, server, hand,
                   client, sent, late>>

\* Enqueue: STAILQ_INSERT_TAIL, whatever list the buffer is in.  The next
\* field that stqh_last points to is set after the buffer's own.
Enqueue ==
    LET b == Filled IN
    /\ job = "link"
    /\ job' = "idle"
    /\ next' = IF last = AtHead THEN [next EXCEPT ![b] = Null]
               ELSE [[next EXCEPT ![b] = Null] EXCEPT ![last] = b]
    /\ first' = IF last = AtHead THEN b ELSE first
    /\ last' = b
    /\ UNCHANGED <<content, index, released, lapped, mainVars, server, hand,
                   client, sent, late>>

(***************************************************************************)
(* The server thread.                                                      *)
(***************************************************************************)
\* bind fails, or accept does: the thread ends.
ServeFails ==
    /\ server = "accept"
    /\ server' = "done"
    /\ UNCHANGED <<queue, jobVars, mainVars, hand, client, sent, late>>

Accept ==
    /\ server = "accept"
    /\ server' = "loop"
    /\ client' = "here"
    /\ UNCHANGED <<queue, jobVars, mainVars, hand, sent, late>>

\* while (!Json.Stop): the end of the thread leaves JsonHandle alone.
TestStop ==
    /\ server = "loop"
    /\ server' = IF stop THEN "done" ELSE "take"
    /\ UNCHANGED <<queue, jobVars, mainVars, hand, client, sent, late>>

\* Mutation of Dequeue: stqh_last stays when the list gets empty.
MutLastStays ==
    /\ server = "take" /\ first # Null
    /\ server' = "send"
    /\ hand' = first
    /\ first' = next[first]
    /\ UNCHANGED <<last, next, jobVars, mainVars, client, sent, late>>

\* Dequeue: STAILQ_REMOVE_HEAD, or nothing and a second's sleep.
Dequeue ==
    /\ server = "take"
    /\ IF first = Null
       THEN server' = "loop" /\ UNCHANGED <<queue, hand>>
       ELSE /\ server' = "send"
            /\ hand' = first
            /\ first' = next[first]
            /\ last' = IF next[first] = Null THEN AtHead ELSE last
            /\ UNCHANGED next
    /\ UNCHANGED <<jobVars, mainVars, client, sent, late>>

\* send, and a second's sleep.  An error is printed and forgotten.
Send ==
    /\ server = "send"
    /\ server' = "loop"
    /\ hand' = Null
    /\ sent' = IF client = "here" THEN Append(sent, content[hand]) ELSE sent
    /\ late' = IF stop THEN late + 1 ELSE late
    /\ UNCHANGED <<queue, jobVars, mainVars, client>>

(***************************************************************************)
(* The main thread.                                                        *)
(***************************************************************************)
\* Mutation of JsonStart: a server that has ended is started again.
MutStartAgain ==
    IF handle /\ server # "done" THEN UNCHANGED <<handle, stop, server>>
    ELSE handle' = TRUE /\ stop' = FALSE /\ server' = "accept"

\* JsonStart: Json.Running is never set, JsonHandle never cleared.
JsonStart ==
    IF handle THEN UNCHANGED <<handle, stop, server>>
    ELSE handle' = TRUE /\ stop' = FALSE /\ server' = "accept"

\* JsonSetup after the start loop, and JsonStart if devices are known.
JsonSetup(known) ==
    /\ ~ready
    /\ ready' = TRUE
    /\ IF mode = "Operation" /\ known
       THEN JsonStart ELSE UNCHANGED <<handle, stop, server>>
    /\ UNCHANGED <<queue, jobVars, mode, filter, hand, client, sent, late>>

\* CMD_CHANGE_MODE to Monitor, Register or Clear and Register: JsonStop.
LeaveOperation ==
    /\ ready /\ ~filter
    /\ stop' = TRUE
    /\ mode' = "other"
    /\ UNCHANGED <<queue, jobVars, ready, filter, handle, server, hand,
                   client, sent, late>>

\* CMD_CHANGE_MODE to Operation; EoApplyFilter and JsonStart follow if
\* devices are known.
EnterOperation(known) ==
    /\ ready /\ ~filter
    /\ mode' = "Operation"
    /\ filter' = known
    /\ UNCHANGED <<queue, jobVars, ready, stop, handle, server, hand, client,
                   sent, late>>

FilterApplied ==
    /\ filter
    /\ filter' = FALSE
    /\ JsonStart
    /\ UNCHANGED <<queue, jobVars, ready, mode, hand, client, sent, late>>

(***************************************************************************)
(* External: the client closes its socket.  Nobody accepts another.        *)
(***************************************************************************)
Leave ==
    /\ client = "here"
    /\ client' = "gone"
    /\ UNCHANGED <<queue, jobVars, mainVars, server, hand, sent, late>>

Init ==
    /\ first = Null /\ last = AtHead /\ next = [b \in Buffers |-> Null]
    /\ content = [b \in Buffers |-> Torn]
    /\ index = 0 /\ job = "idle" /\ released = 0
    /\ ready = FALSE /\ mode \in {"Operation", "other"}
    /\ filter = FALSE /\ stop = FALSE /\ handle = FALSE
    /\ server = "none" /\ hand = Null
    /\ client = "none" /\ sent = <<>>
    /\ lapped = FALSE /\ late = 0

Next ==
    /\ job # "crashed"
    /\ \/ GetBuffer \/ Copied \/ Enqueue
       \/ Accept \/ ServeFails \/ TestStop \/ Dequeue \/ Send
       \/ LeaveOperation \/ FilterApplied \/ Leave
       \/ \E known \in BOOLEAN : JsonSetup(known) \/ EnterOperation(known)

Spec == Init /\ [][Next]_vars

(***************************************************************************)
(* Properties.                                                             *)
(***************************************************************************)
TypeOK ==
    /\ first \in Buffers \cup {Null} /\ last \in Buffers \cup {AtHead}
    /\ next \in [Buffers -> Buffers \cup {Null}]
    /\ content \in [Buffers -> 0 .. MaxTelegrams]
    /\ index \in Buffers /\ released \in 0 .. MaxTelegrams
    /\ job \in {"idle", "copy", "link", "crashed"}
    /\ ready \in BOOLEAN /\ mode \in {"Operation", "other"}
    /\ filter \in BOOLEAN /\ stop \in BOOLEAN /\ handle \in BOOLEAN
    /\ server \in {"none", "accept", "loop", "take", "send", "done"}
    /\ hand \in Buffers \cup {Null}
    /\ client \in {"none", "here", "gone"}
    /\ sent \in Seq(0 .. MaxTelegrams)
    /\ lapped \in BOOLEAN /\ late \in Nat

\* As long as no buffer was reused before it was sent, the client gets the
\* telegrams whole, in the order they were released, and none is missing.
\* Every variable keeps its type.
InOrder == TypeOK /\ (~lapped => \A k \in DOMAIN sent : sent[k] = k)

\* A change of mode ends the service for good.  After JsonStop has hit a
\* server thread that was started, it sends one telegram at most; JsonStart
\* neither clears Stop nor starts another thread, for the handle is set.
StopIsFinal == late <= 1

\* The buffers that wait for the server, as the server will come to them,
\* and the buffer that is linked next: JsonIndex is ahead of it while
\* JsonRelease is under way.
Waiting == [k \in {j \in 1 .. Ring : Walk[j - 1] # Null} |-> Walk[k - 1]]
Turn == IF job \in {"copy", "link"} THEN Filled ELSE index

Line == INSTANCE JsonRing
            WITH Nobody <- Null, waiting <- Waiting, turn <- Turn, taken <- hand

\* The pointers implement a first-in first-out line, though Enqueue links
\* buffers that are linked already and leaves a buffer's next field alone
\* when it takes it out: the server gets each buffer in its turn, each link
\* adds exactly one buffer to the end, and a buffer that is linked already
\* drops the whole line and is alone in it.
ImplementsLine == Line!RingSpec
=============================================================================
