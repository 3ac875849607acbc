-------------------------- MODULE WebSocketLogger ---------------------------
(***************************************************************************)
(* The WebSocket logger (dpride/logger.c): MonitorMain accepts clients,    *)
(* each with a worker thread and a buffer; MonitorMessage, in MainJob's    *)
(* thread, writes a frame into every client's buffer and unlocks the       *)
(* worker's dataLock, which serves as a signal.  No lock guards the list   *)
(* of clients, their number or the buffers.                                *)
(***************************************************************************)
EXTENDS Integers, Sequences, FiniteSets, SequencesExt

CONSTANTS
    Clients,         \* each connects once
    End,             \* the list's head, and no client
    MaxMessages      \* bound: calls of MonitorMessage

ASSUME LoggerAssumption ==
    /\ IsFiniteSet(Clients) /\ End \notin Clients
    /\ MaxMessages \in Nat

\* What a buffer holds: zeros, a message's frame, or HTTP.
Blank == 0
Messages == 1 .. MaxMessages
Request == MaxMessages + 1
Answer == MaxMessages + 2
Refusal == MaxMessages + 3
Contents == 0 .. Refusal

VARIABLES
    monitor,   \* the client MonitorMain is taking in, or End
    adding,    \* it has counted that client
    worker,    \* the workers' steps
    listed,    \* sock_list
    count,     \* sock_count
    reg,       \* sock_count as read by MonitorMain (reg[End]) and the workers
    buffer,    \* gBuffer
    unlocked,  \* dataLock is free: the worker is signalled
    continue,  \* isContinue of each client
    online,    \* clients that have not closed their sockets
    got,       \* what each client received
    at,        \* MonitorMessage: the client it is at,
    after,     \* the one saved as the next,
    framed,    \* and whether its frame has been made
    message,   \* the number of MonitorMessage's calls
    fate,      \* "running", "aborted" by an assert, or "undefined"
    given,     \* history: messages whose frames were made for a client
    late,      \* history: clients given one while they were not waiting
    overlap    \* history: two threads were changing sock_count at once

monitorVars == <<monitor, adding>>
countVars == <<count, reg, overlap>>
jobVars == <<at, after, framed, message, given, late>>
vars == <<monitorVars, worker, listed, countVars, buffer, unlocked, continue,
          online, got, jobVars, fate>>

\* The client after c in sock_list.
Successor(c) ==
    IF \E i \in 1 .. Len(listed) - 1 : listed[i] = c
    THEN listed[1 + CHOOSE i \in DOMAIN listed : listed[i] = c] ELSE End

FirstListed == IF listed = <<>> THEN End ELSE listed[1]

\* The threads between their read of sock_count and their write.
Counting ==
    {c \in Clients : worker[c] = "count"}
        \cup (IF monitor # End /\ ~adding THEN {monitor} ELSE {})

(***************************************************************************)
(* MonitorMain.  sock_count++ is a read and a write.                       *)
(***************************************************************************)
Accept(c) ==
    /\ monitor = End /\ worker[c] = "none"
    /\ monitor' = c
    /\ reg' = [reg EXCEPT ![End] = count]
    /\ overlap' = (overlap \/ Counting # {})
    /\ UNCHANGED <<adding, worker, listed, count, buffer, unlocked, continue,
                   online, got, jobVars, fate>>

CountUp ==
    /\ monitor # End /\ ~adding
    /\ adding' = TRUE
    /\ count' = reg[End] + 1
    /\ UNCHANGED <<monitor, worker, listed, reg, overlap, buffer, unlocked, continue,
                   online, got, jobVars, fate>>

\* list_add_tail and pthread_create; the worker sets isContinue and clears
\* the buffer.
AddClient ==
    /\ adding
    /\ listed' = Append(listed, monitor)
    /\ worker' = [worker EXCEPT ![monitor] = "start"]
    /\ monitor' = End
    /\ adding' = FALSE
    /\ UNCHANGED <<countVars, buffer, unlocked, continue, online, got,
                   jobVars, fate>>

(***************************************************************************)
(* clientWorker.                                                           *)
(***************************************************************************)
Step(c, from, to) == worker[c] = from /\ worker' = [worker EXCEPT ![c] = to]

Start(c) ==
    /\ Step(c, "start", "opening")
    /\ buffer' = [buffer EXCEPT ![c] = Blank]
    /\ continue' = [continue EXCEPT ![c] = TRUE]
    /\ UNCHANGED <<monitorVars, listed, countVars, unlocked, online, got,
                   jobVars, fate>>

\* recv, tried again until something comes.  A request that comes in two
\* pieces is parsed as incomplete, and the assert that it is an opening
\* frame aborts the program.
Receive(c, whole) ==
    /\ c \in online
    /\ Step(c, "opening", "parse")
    /\ buffer' = [buffer EXCEPT ![c] = Request]
    /\ fate' = IF whole THEN fate ELSE "aborted"
    /\ UNCHANGED <<monitorVars, listed, countVars, unlocked, continue, online,
                   got, jobVars>>

\* A request for the one resource is answered.
ParseGood(c) ==
    /\ buffer[c] = Request
    /\ Step(c, "parse", "answer")
    /\ buffer' = [buffer EXCEPT ![c] = Answer]
    /\ UNCHANGED <<monitorVars, listed, countVars, unlocked, continue, online,
                   got, jobVars, fate>>

\* A request for another resource is refused.
ParseNotFound(c) ==
    /\ buffer[c] = Request
    /\ Step(c, "parse", "leave")
    /\ buffer' = [buffer EXCEPT ![c] = Refusal]
    /\ got' = [got EXCEPT ![c] =
                  IF c \in online THEN Append(@, Refusal) ELSE @]
    /\ UNCHANGED <<monitorVars, listed, countVars, unlocked, continue, online,
                   jobVars, fate>>

\* A malformed request is refused to all clients (safeSendAll).
ParseError(c) ==
    /\ buffer[c] = Request
    /\ Step(c, "parse", "leave")
    /\ buffer' = [buffer EXCEPT ![c] = Refusal]
    /\ got' = [d \in Clients |->
                  IF Contains(listed, d) /\ d \in online
                  THEN Append(got[d], Refusal) ELSE got[d]]
    /\ continue' = [d \in Clients |->
                       continue[d] /\ (Contains(listed, d) => d \in online)]
    /\ UNCHANGED <<monitorVars, listed, countVars, unlocked, online, jobVars,
                   fate>>

\* A request a frame was written over ends where the frame ends, and is
\* parsed as incomplete: the assert again.
ParseOverwritten(c) ==
    /\ worker[c] = "parse" /\ buffer[c] # Request
    /\ fate' = "aborted"
    /\ UNCHANGED <<monitorVars, worker, listed, countVars, buffer, unlocked,
                   continue, online, got, jobVars>>

\* safeSend, of the handshake's answer or a frame, from the buffer as it
\* is.  To a client that has left it fails after five tries, or the kernel
\* takes it.
Send(c) ==
    /\ worker[c] \in {"answer", "send"}
    /\ \/ Step(c, worker[c], "clear")
       \/ c \notin online /\ Step(c, worker[c], "leave")
    /\ got' = [got EXCEPT ![c] =
                  IF c \in online THEN Append(@, buffer[c]) ELSE @]
    /\ UNCHANGED <<monitorVars, listed, countVars, buffer, unlocked, continue,
                   online, jobVars, fate>>

\* Mutation of Wait: the lock is tried and not kept.
MutNotLocked(c) ==
    /\ unlocked[c]
    /\ Step(c, "wait", "send")
    /\ UNCHANGED <<monitorVars, listed, countVars, buffer, unlocked, continue,
                   online, got, jobVars, fate>>

\* pthread_mutex_lock(&dataLock).
Wait(c) ==
    /\ unlocked[c]
    /\ Step(c, "wait", "send")
    /\ unlocked' = [unlocked EXCEPT ![c] = FALSE]
    /\ UNCHANGED <<monitorVars, listed, countVars, buffer, continue, online,
                   got, jobVars, fate>>

\* Mutation of Clear: the buffer is kept.
MutKept(c) ==
    /\ Step(c, "clear", IF continue[c] THEN "wait" ELSE "leave")
    /\ UNCHANGED <<monitorVars, listed, countVars, buffer, unlocked, continue,
                   online, got, jobVars, fate>>

\* After safeSend's pause of 40 ms or more: initNewFrame zeroes the buffer.
Clear(c) ==
    /\ Step(c, "clear", IF continue[c] THEN "wait" ELSE "leave")
    /\ buffer' = [buffer EXCEPT ![c] = Blank]
    /\ UNCHANGED <<monitorVars, listed, countVars, unlocked, continue, online,
                   got, jobVars, fate>>

\* sock_count--, a read and a write.
CountRead(c) ==
    /\ Step(c, "leave", "count")
    /\ reg' = [reg EXCEPT ![c] = count]
    /\ overlap' = (overlap \/ Counting # {})
    /\ UNCHANGED <<monitorVars, listed, count, buffer, unlocked, continue,
                   online, got, jobVars, fate>>

\* Mutation of CountDown: a client that was refused is not counted down.
MutRefusedStays(c) ==
    /\ Step(c, "count", "free")
    /\ count' = IF buffer[c] = Refusal THEN count ELSE reg[c] - 1
    /\ UNCHANGED <<monitorVars, listed, reg, overlap, buffer, unlocked,
                   continue, online, got, jobVars, fate>>

CountDown(c) ==
    /\ Step(c, "count", "free")
    /\ count' = reg[c] - 1
    /\ UNCHANGED <<monitorVars, listed, reg, overlap, buffer, unlocked,
                   continue, online, got, jobVars, fate>>

\* close and free(gBuffer): the client is still in the list.
FreeBuffer(c) ==
    /\ Step(c, "free", "unlink")
    /\ online' = online \ {c}
    /\ UNCHANGED <<monitorVars, listed, countVars, buffer, unlocked, continue,
                   got, jobVars, fate>>

\* list_del and free.
Unlink(c) ==
    /\ Step(c, "unlink", "freed")
    /\ \E i \in DOMAIN listed : listed[i] = c /\ listed' = RemoveAt(listed, i)
    /\ UNCHANGED <<monitorVars, countVars, buffer, unlocked, continue, online,
                   got, jobVars, fate>>

Worker(c) ==
    \/ Start(c) \/ ParseGood(c) \/ ParseNotFound(c) \/ ParseError(c)
    \/ ParseOverwritten(c) \/ Wait(c) \/ Send(c) \/ Clear(c)
    \/ CountRead(c) \/ CountDown(c) \/ FreeBuffer(c) \/ Unlink(c)
    \/ \E whole \in BOOLEAN : Receive(c, whole)

(***************************************************************************)
(* MonitorMessage: "now distribute message to all".                        *)
(***************************************************************************)
\* The end of the traversal, or its step to client d with the client after
\* it saved, which reads d's memory.
GoTo(d) ==
    /\ at' = d
    /\ after' = IF d = End THEN End ELSE Successor(d)
    /\ framed' = FALSE
    /\ fate' = IF d # End /\ worker[d] = "freed" THEN "undefined" ELSE fate

\* A call.  With no client counted it is refused.
Distribute ==
    /\ at = End /\ message < MaxMessages
    /\ message' = message + 1
    /\ IF count > 0 THEN GoTo(FirstListed)
       ELSE UNCHANGED <<at, after, framed, fate>>
    /\ UNCHANGED <<monitorVars, worker, listed, countVars, buffer, unlocked,
                   continue, online, got, given, late>>

\* wsMakeFrame into the client's buffer, which may have been freed.
MakeFrame ==
    /\ at # End /\ ~framed
    /\ framed' = TRUE
    /\ buffer' = [buffer EXCEPT ![at] = message]
    /\ given' = [given EXCEPT ![at] = @ \cup {message}]
    /\ late' = IF worker[at] = "wait" /\ ~unlocked[at] THEN late
               ELSE late \cup {at}
    /\ fate' = IF worker[at] \in {"unlink", "freed"} THEN "undefined" ELSE fate
    /\ UNCHANGED <<monitorVars, worker, listed, countVars, unlocked, continue,
                   online, got, at, after, message>>

\* pthread_mutex_unlock(&dataLock), and on to the client saved.
Unlock ==
    /\ framed
    /\ unlocked' = [unlocked EXCEPT ![at] = TRUE]
    /\ IF worker[at] = "freed"
       THEN fate' = "undefined" /\ UNCHANGED <<at, after, framed>>
       ELSE GoTo(after)
    /\ UNCHANGED <<monitorVars, worker, listed, countVars, buffer, continue,
                   online, got, message, given, late>>

\* External: a client closes its socket.
Disconnect(c) ==
    /\ worker[c] # "none" /\ c \in online
    /\ online' = online \ {c}
    /\ UNCHANGED <<monitorVars, worker, listed, countVars, buffer, unlocked,
                   continue, got, jobVars, fate>>

Init ==
    /\ monitor = End /\ adding = FALSE
    /\ worker = [c \in Clients |-> "none"]
    /\ listed = <<>>
    /\ count = 0 /\ reg = [c \in Clients \cup {End} |-> 0]
    /\ overlap = FALSE
    /\ buffer = [c \in Clients |-> Blank]
    /\ unlocked = [c \in Clients |-> FALSE]
    /\ continue = [c \in Clients |-> FALSE]
    /\ online = Clients
    /\ got = [c \in Clients |-> <<>>]
    /\ at = End /\ after = End /\ framed = FALSE /\ message = 0
    /\ fate = "running"
    /\ given = [c \in Clients |-> {}] /\ late = {}

\* After an abort, or once freed memory was used, nothing is promised.
Next ==
    /\ fate = "running"
    /\ \/ CountUp \/ AddClient \/ Distribute \/ MakeFrame \/ Unlock
       \/ \E c \in Clients : Accept(c) \/ Worker(c) \/ Disconnect(c)

Spec == Init /\ [][Next]_vars

(***************************************************************************)
(* Properties.                                                             *)
(***************************************************************************)
Steps == {"none", "start", "opening", "parse", "answer", "wait", "send",
          "clear", "leave", "count", "free", "unlink", "freed"}

TypeOK ==
    /\ monitor \in Clients \cup {End} /\ adding \in BOOLEAN
    /\ worker \in [Clients -> Steps]
    /\ listed \in Seq(Clients)
    /\ overlap \in BOOLEAN /\ count \in Int /\ reg \in [Clients \cup {End} -> Int]
    /\ buffer \in [Clients -> Contents]
    /\ unlocked \in [Clients -> BOOLEAN] /\ continue \in [Clients -> BOOLEAN]
    /\ online \subseteq Clients
    /\ got \in [Clients -> Seq(Contents)]
    /\ at \in Clients \cup {End} /\ after \in Clients \cup {End}
    /\ framed \in BOOLEAN /\ message \in 0 .. MaxMessages
    /\ fate \in {"running", "aborted", "undefined"}
    /\ given \in [Clients -> SUBSET Messages] /\ late \subseteq Clients
    /\ IsInjective(listed)

\* The clients sock_count should count: from MonitorMain's increment to the
\* worker's decrement.
Counted ==
    {c \in Clients : worker[c] \notin {"none", "free", "unlink", "freed"}}
        \cup (IF adding THEN {monitor} ELSE {})

\* sock_count, which makes MonitorMessage refuse messages, is the number of
\* clients as long as no two threads were changing it at the same time: an
\* update is lost in no other way.
CountTrue == ~overlap => count = Cardinality(Counted)

\* The frames among what a client received.
Frames(s) == Range(s) \cap (Messages \cup {Blank})

\* A client whose worker was waiting, with nothing pending, whenever a
\* frame was made for it gets every message whose frame was made, all of
\* them but perhaps the last, and no frame of zeros.  (Once and in order:
\* NeverAgain.)
WaitingGetsAll ==
    \A c \in Clients \ late :
        c \in online =>
            \/ Frames(got[c]) = given[c]
            \/ \E m \in given[c] : /\ \A n \in given[c] : n <= m
                                  /\ Frames(got[c]) = given[c] \ {m}

\* Late or not, no message comes twice or after a later one.  Every variable
\* keeps its type, and no client is listed twice.
NeverAgain ==
    /\ TypeOK
    /\ \A c \in Clients : \A i, j \in DOMAIN got[c] :
        i < j /\ got[c][i] \in Messages /\ got[c][j] \in Messages
        => got[c][i] < got[c][j]

\* The worker is done with what it was signalled.
Resting(c) ==
    worker[c] = "wait" /\ ~unlocked[c] /\ ~(at = c /\ framed)

\* What logger.c says of MonitorMessage, "now distribute message to all": a
\* client past its handshake, which was answered and got a message, gets
\* every later one by the time its worker rests.  A message that comes
\* while the worker still pauses in safeSend, behind the one before, is
\* zeroed by initNewFrame before the worker takes the signal: the client
\* gets a frame of zeros instead.
Distributed ==
    \A c \in online : Resting(c) =>
        \A m, n \in given[c] :
            m < n /\ {Answer, m} \subseteq Range(got[c]) => n \in Range(got[c])
=============================================================================
