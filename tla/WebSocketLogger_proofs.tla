----------------------- MODULE WebSocketLogger_proofs -----------------------
(***************************************************************************)
(* Proofs about WebSocketLogger, for any finite set of clients and any     *)
(* number of messages.                                                     *)
(*                                                                         *)
(* CountTrue: between its read and its write of sock_count a thread has a  *)
(* number of its own, which is the current one while it is alone there,    *)
(* unless two threads have overlapped.                                     *)
(* NeverAgain: nobody the walk over the list has still to come to has a    *)
(* frame of this call, and a message in a buffer is its client's last.     *)
(* WaitingGetsAll: frame and signal come together for a client that was    *)
(* always waiting, and go together when its worker has sent the frame.     *)
(***************************************************************************)
EXTENDS WebSocketLogger, SequenceTheorems, FiniteSetTheorems, TLAPS

Uncounted == {"none", "free", "unlink", "freed"}

CountTypes ==
    /\ monitor \in Clients \cup {End} /\ adding \in BOOLEAN
    /\ worker \in [Clients -> Steps]
    /\ overlap \in BOOLEAN
    /\ count \in Int /\ reg \in [Clients \cup {End} -> Int]

\* The client MonitorMain takes in has no worker yet.
TakingIn ==
    /\ adding => monitor # End
    /\ monitor # End => worker[monitor] = "none"

\* A thread between read and write is alone and holds the number of clients.
Alone ==
    /\ monitor # End /\ ~adding =>
           /\ reg[End] = count
           /\ \A c \in Clients : worker[c] # "count"
    /\ \A c \in Clients : worker[c] = "count" =>
           /\ reg[c] = count
           /\ \A d \in Clients : worker[d] = "count" => d = c

IInv ==
    /\ CountTypes /\ TakingIn
    /\ ~overlap => Alone /\ count = Cardinality(Counted)

\* Steps that leave the count alone, move worker c within the counted or
\* within the uncounted steps, and take part in no count.
LEMMA OtherStepKeeps ==
    ASSUME IInv, UNCHANGED <<monitorVars, countVars>>,
           NEW c \in Clients, NEW to \in Steps,
           worker' = [worker EXCEPT ![c] = to],
           worker[c] # "none", to # "none",
           worker[c] \in Uncounted <=> to \in Uncounted,
           worker[c] # "count", to # "count"
    PROVE  IInv'
<1>1. worker' \in [Clients -> Steps]
  BY DEF IInv, CountTypes
<1>2. \A d \in Clients : worker'[d] = IF d = c THEN to ELSE worker[d]
  BY DEF IInv, CountTypes
<1>3. Counted' = Counted
  BY <1>2 DEF Counted, Uncounted, monitorVars
<1>4. TakingIn'
  <2>1. monitor' = monitor /\ adding' = adding
    BY DEF monitorVars
  <2>2. monitor # End => monitor \in Clients /\ monitor # c
    BY DEF IInv, CountTypes, TakingIn
  <2> QED BY <2>1, <2>2, <1>2 DEF IInv, TakingIn
<1>5. Alone => Alone'
  BY <1>2 DEF Alone, monitorVars, countVars
<1> QED
  BY <1>1, <1>3, <1>4, <1>5 DEF IInv, CountTypes, monitorVars, countVars

\* Steps that change neither workers nor the count.
LEMMA FrameKeeps ==
    ASSUME IInv, UNCHANGED <<monitorVars, countVars, worker>>
    PROVE  IInv'
<1> USE DEF monitorVars, countVars
<1>1. Counted' = Counted
  BY DEF Counted
<1>2. Alone => Alone'
  BY DEF Alone
<1> QED BY <1>1, <1>2 DEF IInv, CountTypes, TakingIn

LEMMA CountedFinite ==
    ASSUME CountTypes, TakingIn
    PROVE  IsFiniteSet(Counted) /\ Counted \subseteq Clients
<1>1. Counted \subseteq Clients
  BY DEF Counted, CountTypes, TakingIn
<1> QED BY <1>1, LoggerAssumption, FS_Subset

LEMMA AcceptKeeps ==
    ASSUME IInv, NEW c \in Clients, Accept(c)
    PROVE  IInv'
<1>1. /\ monitor = End /\ ~adding /\ worker[c] = "none"
      /\ monitor' = c /\ adding' = adding
      /\ reg' = [reg EXCEPT ![End] = count]
      /\ overlap' = (overlap \/ Counting # {})
      /\ count' = count /\ worker' = worker
  BY DEF Accept, IInv, TakingIn
<1>2. reg' \in [Clients \cup {End} -> Int] /\ reg'[End] = count
  BY <1>1 DEF IInv, CountTypes
<1>3. \A d \in Clients : reg'[d] = reg[d]
  BY <1>1, LoggerAssumption DEF IInv, CountTypes
<1>4. Counted' = Counted
  BY <1>1 DEF Counted
<1>5. c # End
  BY LoggerAssumption
<1>6. CountTypes' /\ TakingIn'
  <2>1. overlap' \in BOOLEAN
    BY <1>1 DEF IInv, CountTypes
  <2> QED BY <2>1, <1>1, <1>2, <1>5 DEF IInv, CountTypes, TakingIn
<1>7. ASSUME ~overlap'
      PROVE  Alone' /\ count' = Cardinality(Counted')
  <2>1. ~overlap /\ Counting = {}
    BY <1>7, <1>1
  <2>2. \A d \in Clients : worker[d] # "count"
    BY <2>1 DEF Counting
  <2> QED BY <2>1, <2>2, <1>1, <1>2, <1>4 DEF IInv, Alone
<1> QED BY <1>6, <1>7 DEF IInv

LEMMA CountUpKeeps ==
    ASSUME IInv, CountUp
    PROVE  IInv'
<1>1. /\ monitor # End /\ ~adding /\ adding' = TRUE
      /\ count' = reg[End] + 1
      /\ UNCHANGED <<monitor, worker, reg, overlap>>
  BY DEF CountUp
<1>2. monitor \in Clients /\ worker[monitor] = "none" /\ End \in Clients \cup {End}
  BY <1>1 DEF IInv, CountTypes, TakingIn
<1>3. reg[End] \in Int
  BY <1>2 DEF IInv, CountTypes
<1>4. CountTypes' /\ TakingIn'
  BY <1>1, <1>2, <1>3 DEF IInv, CountTypes, TakingIn
<1>5. Counted' = Counted \cup {monitor} /\ monitor \notin Counted
  BY <1>1, <1>2 DEF Counted
<1>6. ASSUME ~overlap
      PROVE  Alone' /\ count' = Cardinality(Counted')
  <2>1. reg[End] = count /\ \A c \in Clients : worker[c] # "count"
    BY <1>1, <1>6 DEF IInv, Alone
  <2>2. Cardinality(Counted') = Cardinality(Counted) + 1
    BY <1>5, CountedFinite, FS_AddElement DEF IInv
  <2> QED BY <2>1, <2>2, <1>1, <1>6 DEF IInv, Alone
<1> QED BY <1>1, <1>4, <1>6 DEF IInv

LEMMA AddClientKeeps ==
    ASSUME IInv, AddClient
    PROVE  IInv'
<1>1. /\ adding /\ monitor' = End /\ adding' = FALSE
      /\ worker' = [worker EXCEPT ![monitor] = "start"]
      /\ UNCHANGED countVars
  BY DEF AddClient
<1>2. monitor \in Clients /\ worker[monitor] = "none"
  BY <1>1 DEF IInv, CountTypes, TakingIn
<1>3. \A d \in Clients : worker'[d] = IF d = monitor THEN "start" ELSE worker[d]
  BY <1>1, <1>2 DEF IInv, CountTypes
<1>4. Counted' = Counted
  BY <1>1, <1>2, <1>3 DEF Counted
<1>5. CountTypes' /\ TakingIn'
  <2>1. worker' \in [Clients -> Steps]
    BY <1>1 DEF IInv, CountTypes, Steps
  <2> QED BY <2>1, <1>1 DEF IInv, CountTypes, TakingIn, countVars
<1>6. Alone => Alone'
  BY <1>1, <1>2, <1>3 DEF Alone, countVars
<1> QED BY <1>1, <1>4, <1>5, <1>6 DEF IInv, countVars

LEMMA CountReadKeeps ==
    ASSUME IInv, NEW c \in Clients, CountRead(c)
    PROVE  IInv'
<1>1. /\ worker[c] = "leave"
      /\ worker' = [worker EXCEPT ![c] = "count"]
      /\ reg' = [reg EXCEPT ![c] = count]
      /\ overlap' = (overlap \/ Counting # {})
      /\ UNCHANGED <<monitor, adding, count>>
  BY DEF CountRead, Step, monitorVars
<1>2. \A d \in Clients : worker'[d] = IF d = c THEN "count" ELSE worker[d]
  BY <1>1 DEF IInv, CountTypes
<1>3. /\ reg' \in [Clients \cup {End} -> Int]
      /\ reg'[c] = count
  BY <1>1 DEF IInv, CountTypes
<1>4. Counted' = Counted
  BY <1>1, <1>2 DEF Counted
<1>5. CountTypes' /\ TakingIn'
  <2>1. worker' \in [Clients -> Steps] /\ overlap' \in BOOLEAN
    BY <1>1 DEF IInv, CountTypes, Steps
  <2>2. monitor # End => monitor \in Clients /\ monitor # c
    BY <1>1 DEF IInv, CountTypes, TakingIn
  <2> QED BY <2>1, <2>2, <1>1, <1>2, <1>3 DEF IInv, CountTypes, TakingIn
<1>6. ASSUME ~overlap'
      PROVE  Alone' /\ count' = Cardinality(Counted')
  <2>1. ~overlap /\ Counting = {}
    BY <1>6, <1>1
  <2>2. \A d \in Clients : worker[d] # "count"
    BY <2>1 DEF Counting
  <2>3. ~(monitor # End /\ ~adding)
    BY <2>1 DEF Counting
  <2> QED BY <2>1, <2>2, <2>3, <1>1, <1>2, <1>3, <1>4 DEF IInv, Alone
<1> QED BY <1>5, <1>6 DEF IInv

LEMMA CountDownKeeps ==
    ASSUME IInv, NEW c \in Clients, CountDown(c)
    PROVE  IInv'
<1>1. /\ worker[c] = "count"
      /\ worker' = [worker EXCEPT ![c] = "free"]
      /\ count' = reg[c] - 1
      /\ UNCHANGED <<monitor, adding, reg, overlap>>
  BY DEF CountDown, Step, monitorVars
<1>2. \A d \in Clients : worker'[d] = IF d = c THEN "free" ELSE worker[d]
  BY <1>1 DEF IInv, CountTypes
<1>3. monitor # End => monitor \in Clients /\ monitor # c
  BY <1>1 DEF IInv, CountTypes, TakingIn
<1>4. Counted' = Counted \ {c} /\ c \in Counted
  BY <1>1, <1>2, <1>3 DEF Counted, IInv, TakingIn
<1>5. CountTypes' /\ TakingIn'
  <2>1. worker' \in [Clients -> Steps]
    BY <1>1 DEF IInv, CountTypes, Steps
  <2>2. count' \in Int
    BY <1>1 DEF IInv, CountTypes
  <2> QED BY <2>1, <2>2, <1>1, <1>2, <1>3 DEF IInv, CountTypes, TakingIn
<1>6. ASSUME ~overlap
      PROVE  Alone' /\ count' = Cardinality(Counted')
  <2>1. /\ reg[c] = count
        /\ \A d \in Clients : worker[d] = "count" => d = c
        /\ ~(monitor # End /\ ~adding)
    BY <1>1, <1>6 DEF IInv, Alone
  <2>2. Cardinality(Counted') = Cardinality(Counted) - 1
    BY <1>4, CountedFinite, FS_RemoveElement DEF IInv
  <2> QED BY <2>1, <2>2, <1>1, <1>2, <1>6 DEF IInv, Alone
<1> QED BY <1>1, <1>5, <1>6 DEF IInv

\* The other steps of a worker.
LEMMA WorkerKeeps ==
    ASSUME IInv, NEW c \in Clients, Worker(c)
    PROVE  IInv'
<1> USE DEF Steps, Uncounted
<1>1. CASE CountRead(c)
  BY <1>1, CountReadKeeps
<1>2. CASE CountDown(c)
  BY <1>2, CountDownKeeps
<1>3. CASE ParseOverwritten(c)
  BY <1>3, FrameKeeps DEF ParseOverwritten
<1>4. CASE Start(c)
  BY <1>4, OtherStepKeeps DEF Start, Step
<1>5. CASE ParseGood(c)
  BY <1>5, OtherStepKeeps DEF ParseGood, Step
<1>6. CASE ParseNotFound(c)
  BY <1>6, OtherStepKeeps DEF ParseNotFound, Step
<1>7. CASE ParseError(c)
  BY <1>7, OtherStepKeeps DEF ParseError, Step
<1>8. CASE Wait(c)
  BY <1>8, OtherStepKeeps DEF Wait, Step
<1>9. CASE Send(c)
  <2>1. CASE Step(c, worker[c], "clear")
    BY <1>9, <2>1, OtherStepKeeps DEF Send, Step
  <2>2. CASE Step(c, worker[c], "leave")
    BY <1>9, <2>2, OtherStepKeeps DEF Send, Step
  <2> QED BY <1>9, <2>1, <2>2 DEF Send
<1>10. CASE Clear(c)
  <2>1. PICK to \in {"wait", "leave"} : Step(c, "clear", to)
    BY <1>10 DEF Clear
  <2> QED BY <1>10, <2>1, OtherStepKeeps DEF Clear, Step
<1>11. CASE FreeBuffer(c)
  BY <1>11, OtherStepKeeps DEF FreeBuffer, Step
<1>12. CASE Unlink(c)
  BY <1>12, OtherStepKeeps DEF Unlink, Step
<1>13. ASSUME NEW whole \in BOOLEAN, Receive(c, whole)
       PROVE  IInv'
  BY <1>13, OtherStepKeeps DEF Receive, Step
<1> QED
  BY <1>1, <1>2, <1>3, <1>4, <1>5, <1>6, <1>7, <1>8, <1>9, <1>10, <1>11,
     <1>12, <1>13
  DEF Worker

\* sock_count starts right, with nobody counting.
LEMMA CountInit == Init => IInv
<1> SUFFICES ASSUME Init
             PROVE  IInv
  OBVIOUS
<1>1. /\ monitor = End /\ adding = FALSE /\ overlap = FALSE /\ count = 0
      /\ worker = [c \in Clients |-> "none"]
      /\ reg = [c \in Clients \cup {End} |-> 0]
  BY DEF Init
<1>2. CountTypes /\ TakingIn
  <2>1. worker \in [Clients -> Steps]
    BY <1>1 DEF Steps
  <2>2. reg \in [Clients \cup {End} -> Int] /\ count \in Int
    BY <1>1
  <2>3. adding \in BOOLEAN /\ overlap \in BOOLEAN
    BY <1>1
  <2> QED BY <1>1, <2>1, <2>2, <2>3 DEF CountTypes, TakingIn
<1>3. Counted = {}
  BY <1>1 DEF Counted
<1>4. count = Cardinality(Counted)
  BY <1>1, <1>3, FS_EmptySet
<1>5. Alone
  BY <1>1 DEF Alone
<1> QED BY <1>2, <1>4, <1>5 DEF IInv

\* No step breaks the invariant.
LEMMA CountStep == IInv /\ [Next]_vars => IInv'
<1> SUFFICES ASSUME IInv, [Next]_vars
             PROVE  IInv'
  OBVIOUS
<1>1. CASE CountUp
  BY <1>1, CountUpKeeps
<1>2. CASE AddClient
  BY <1>2, AddClientKeeps
<1>3. CASE Distribute \/ MakeFrame \/ Unlock
  BY <1>3, FrameKeeps DEF Distribute, MakeFrame, Unlock
<1>4. ASSUME NEW c \in Clients, Accept(c)
      PROVE  IInv'
  BY <1>4, AcceptKeeps
<1>5. ASSUME NEW c \in Clients, Worker(c)
      PROVE  IInv'
  BY <1>5, WorkerKeeps
<1>6. ASSUME NEW c \in Clients, Disconnect(c)
      PROVE  IInv'
  BY <1>6, FrameKeeps DEF Disconnect
<1>7. CASE UNCHANGED vars
  BY <1>7, FrameKeeps DEF vars
<1> QED BY <1>1, <1>2, <1>3, <1>4, <1>5, <1>6, <1>7 DEF Next

\* sock_count counts the clients as long as no two threads have changed it
\* at the same time.
THEOREM CountIsTrue == Spec => []CountTrue
<1>1. IInv => CountTrue
  BY DEF IInv, CountTrue
<1> QED
  BY CountInit, CountStep, <1>1, PTL DEF Spec

(***************************************************************************)
(* What clients get.  MonitorMessage walks a list that grows at its end    *)
(* and loses clients anywhere meanwhile, and works with a client saved a   *)
(* step before.  Listed says who is in the list, Walk that nobody is ahead *)
(* who has this call's frame, Rising that a buffer holds nothing its       *)
(* client got before, and Paired that the signal and the frame of a client *)
(* that was waiting come and go together.                                  *)
(***************************************************************************)
LEMMA RemovedAt ==
    ASSUME NEW s \in Seq(Clients), NEW i \in DOMAIN s, IsInjective(s)
    PROVE  LET t == RemoveAt(s, i) IN
           /\ t \in Seq(Clients) /\ Len(t) = Len(s) - 1
           /\ \A j \in 1 .. Len(t) : t[j] = IF j < i THEN s[j] ELSE s[j + 1]
           /\ IsInjective(t)
<1> DEFINE a == SubSeq(s, 1, i - 1)
           b == SubSeq(s, i + 1, Len(s))
           t == RemoveAt(s, i)
<1>1. i \in 1 .. Len(s) /\ Len(s) \in Nat
  OBVIOUS
<1>2. /\ a \in Seq(Clients) /\ Len(a) = i - 1
      /\ b \in Seq(Clients) /\ Len(b) = Len(s) - i
  BY <1>1
<1>3. /\ \A j \in 1 .. i - 1 : a[j] = s[j]
      /\ \A j \in 1 .. Len(s) - i : b[j] = s[i + j]
  BY <1>1
<1>4. t = a \o b
  BY DEF RemoveAt
<1> HIDE DEF a, b, t
<1>5. t \in Seq(Clients) /\ Len(t) = Len(s) - 1
  BY <1>1, <1>2, <1>4
<1>6. \A j \in 1 .. Len(t) : t[j] = IF j < i THEN a[j] ELSE b[j - (i - 1)]
  <2>1. \A j \in 1 .. Len(t) : t[j] = IF j <= Len(a) THEN a[j] ELSE b[j - Len(a)]
    BY <1>1, <1>2, <1>4, <1>5
  <2>2. \A j \in 1 .. Len(t) : j <= i - 1 <=> j < i
    BY <1>1, <1>5
  <2> QED BY <1>2, <2>1, <2>2
<1>7. \A j \in 1 .. Len(t) : t[j] = IF j < i THEN s[j] ELSE s[j + 1]
  <2> SUFFICES ASSUME NEW j \in 1 .. Len(t) PROVE t[j] = IF j < i THEN s[j] ELSE s[j + 1]
    OBVIOUS
  <2>1. CASE j < i
    BY <1>1, <1>3, <1>6, <2>1
  <2>2. CASE ~(j < i)
    <3>1. j - (i - 1) \in 1 .. Len(s) - i /\ i + (j - (i - 1)) = j + 1
      BY <1>1, <1>5, <2>2
    <3> QED BY <1>3, <1>6, <2>2, <3>1
  <2> QED BY <2>1, <2>2
<1>8. IsInjective(t)
  <2> SUFFICES ASSUME NEW j \in 1 .. Len(t), NEW k \in 1 .. Len(t), t[j] = t[k]
               PROVE  j = k
    BY <1>5 DEF IsInjective
  <2> DEFINE J == IF j < i THEN j ELSE j + 1
             K == IF k < i THEN k ELSE k + 1
  <2>1. J \in DOMAIN s /\ K \in DOMAIN s /\ (J = K => j = k)
    BY <1>1, <1>5
  <2>2. s[J] = s[K]
    BY <1>7
  <2> QED BY <2>1, <2>2 DEF IsInjective
<1> QED BY <1>5, <1>7, <1>8 DEF t

\* The client after d in the list, where d is in it.
LEMMA SuccessorIs ==
    ASSUME listed \in Seq(Clients), IsInjective(listed), NEW d
    PROVE  /\ Successor(d) \in Clients \cup {End}
           /\ \A i \in DOMAIN listed : listed[i] = d =>
                 Successor(d) = IF i < Len(listed) THEN listed[i + 1] ELSE End
<1>1. Len(listed) \in Nat /\ DOMAIN listed = 1 .. Len(listed)
  OBVIOUS
<1>2. CASE \E i \in 1 .. Len(listed) - 1 : listed[i] = d
  <2> DEFINE k == CHOOSE i \in DOMAIN listed : listed[i] = d
  <2>1. PICK i \in 1 .. Len(listed) - 1 : listed[i] = d
    BY <1>2
  <2>2. i \in DOMAIN listed
    BY <1>1, <2>1
  <2>3. k \in DOMAIN listed /\ listed[k] = d
    BY <2>1, <2>2
  <2>4. k = i /\ \A j \in DOMAIN listed : listed[j] = d => j = i
    BY <2>1, <2>2, <2>3 DEF IsInjective
  <2>5. Successor(d) = listed[1 + k]
    BY <1>2 DEF Successor
  <2> HIDE DEF k
  <2>6. i + 1 \in DOMAIN listed /\ 1 + k = i + 1 /\ i < Len(listed)
    BY <1>1, <2>1, <2>4
  <2> QED BY <2>4, <2>5, <2>6
<1>3. CASE ~\E i \in 1 .. Len(listed) - 1 : listed[i] = d
  <2>1. Successor(d) = End
    BY <1>3 DEF Successor
  <2>2. \A i \in DOMAIN listed : listed[i] = d => ~(i < Len(listed))
    BY <1>1, <1>3
  <2> QED BY <2>1, <2>2
<1> QED BY <1>2, <1>3

LEMMA FirstIs ==
    ASSUME listed \in Seq(Clients)
    PROVE  /\ FirstListed \in Clients \cup {End}
           /\ FirstListed # End => 1 \in DOMAIN listed /\ FirstListed = listed[1]
<1>1. listed # <<>> => 1 \in DOMAIN listed /\ listed[1] \in Clients
  OBVIOUS
<1> QED BY <1>1, LoggerAssumption DEF FirstListed

\* The numbers of messages and of what else a buffer holds.
LEMMA Numbers ==
    /\ Messages \subseteq Contents /\ Messages \subseteq Nat /\ Contents \subseteq Int
    /\ Blank \in Contents /\ Request \in Contents /\ Answer \in Contents
    /\ Refusal \in Contents
    /\ Blank \notin Messages
    /\ \A x \in {Request, Answer, Refusal} : x \notin Messages /\ x # Blank
    /\ Answer # Request /\ Refusal # Answer
BY LoggerAssumption DEF Messages, Contents, Blank, Request, Answer, Refusal

\* What a worker's step leaves alone, and what it may do to other clients:
\* refuse a malformed request to them.
Locally(c) ==
    /\ UNCHANGED <<monitor, adding, at, after, framed, message, given, late>>
    /\ worker[c] \notin {"none", "freed"}
    /\ worker' \in [Clients -> Steps] /\ worker'[c] # "none"
    /\ \A d \in Clients \ {c} :
           /\ worker'[d] = worker[d]
           /\ buffer'[d] = buffer[d]
           /\ unlocked'[d] = unlocked[d]
           /\ \/ got'[d] = got[d]
              \/ Contains(listed, d) /\ got'[d] = Append(got[d], Refusal)
    /\ online' \subseteq online
    /\ fate' \in {fate, "aborted"}

LEMMA StepTo ==
    ASSUME TypeOK, NEW c \in Clients, NEW from, NEW to \in Steps, Step(c, from, to)
    PROVE  /\ worker' \in [Clients -> Steps]
           /\ worker[c] = from /\ worker'[c] = to
           /\ \A d \in Clients \ {c} : worker'[d] = worker[d]
BY DEF TypeOK, Step

LEMMA WorkerIsLocal ==
    ASSUME TypeOK, NEW c \in Clients, Worker(c)
    PROVE  Locally(c)
<1> USE DEF monitorVars, jobVars, Locally
<1>0. /\ buffer \in [Clients -> Contents] /\ unlocked \in [Clients -> BOOLEAN]
      /\ got \in [Clients -> Seq(Contents)] /\ worker \in [Clients -> Steps]
  BY DEF TypeOK
<1>1. CASE Start(c)
  BY <1>0, <1>1, StepTo DEF Start, Steps
<1>2. ASSUME NEW whole \in BOOLEAN, Receive(c, whole)
      PROVE  Locally(c)
  BY <1>0, <1>2, StepTo DEF Receive, Steps
<1>3. CASE ParseGood(c)
  BY <1>0, <1>3, StepTo DEF ParseGood, Steps
<1>4. CASE ParseNotFound(c)
  BY <1>0, <1>4, StepTo DEF ParseNotFound, Steps
<1>5. CASE ParseError(c)
  BY <1>0, <1>5, StepTo DEF ParseError, Steps
<1>6. CASE ParseOverwritten(c)
  BY <1>0, <1>6 DEF ParseOverwritten, Steps
<1>7. CASE Wait(c)
  BY <1>0, <1>7, StepTo DEF Wait, Steps
<1>8. CASE Send(c)
  <2>1. PICK to \in {"clear", "leave"} : Step(c, worker[c], to)
    BY <1>8 DEF Send
  <2> QED BY <1>0, <1>8, <2>1, StepTo DEF Send, Steps
<1>9. CASE Clear(c)
  <2>1. PICK to \in {"wait", "leave"} : Step(c, "clear", to)
    BY <1>9 DEF Clear
  <2> QED BY <1>0, <1>9, <2>1, StepTo DEF Clear, Steps
<1>10. CASE CountRead(c)
  BY <1>0, <1>10, StepTo DEF CountRead, Steps
<1>11. CASE CountDown(c)
  BY <1>0, <1>11, StepTo DEF CountDown, Steps
<1>12. CASE FreeBuffer(c)
  BY <1>0, <1>12, StepTo DEF FreeBuffer, Steps
<1>13. CASE Unlink(c)
  BY <1>0, <1>13, StepTo DEF Unlink, Steps
<1> QED
  BY <1>1, <1>2, <1>3, <1>4, <1>5, <1>6, <1>7, <1>8, <1>9, <1>10, <1>11,
     <1>12, <1>13
  DEF Worker

\* The list holds the clients that have a worker, and MonitorMessage is at
\* one that had; MonitorMain's client has none yet.
Listed ==
    /\ \A c \in Clients : Contains(listed, c) <=> worker[c] \notin {"none", "freed"}
    /\ at # End => worker[at] # "none" /\ message # 0
    /\ adding => monitor # End
    /\ monitor # End => worker[monitor] = "none"
    /\ framed => at # End

\* Where MonitorMessage goes is a client in the list, or was.
LEMMA GoToIs ==
    ASSUME TypeOK, Listed, NEW d \in Clients \cup {End},
           d # End => worker[d] # "none", GoTo(d)
    PROVE  /\ at' = d /\ framed' = FALSE /\ after' \in Clients \cup {End}
           /\ fate' \in {fate, "undefined"}
           /\ d # End /\ fate' = "running" => worker[d] # "freed"
           /\ d = End => after' = End
           /\ d # End => after' = Successor(d)
<1>1. listed \in Seq(Clients) /\ IsInjective(listed)
  BY DEF TypeOK
<1>2. Successor(d) \in Clients \cup {End}
  BY <1>1, SuccessorIs
<1> QED BY <1>2 DEF GoTo

\* The client saved as the next has, or had, a worker too.
Saved == after # End => worker[after] # "none"

LEMMA SavedAfter ==
    ASSUME TypeOK, Listed, NEW d \in Clients \cup {End}
    PROVE  /\ FirstListed # End => worker[FirstListed] # "none"
           /\ d # End /\ Successor(d) # End => worker[Successor(d)] # "none"
<1>1. \A i \in DOMAIN listed : listed[i] \in Clients /\ Contains(listed, listed[i])
  BY DEF TypeOK, Contains
<1>2. \A i \in DOMAIN listed : worker[listed[i]] # "none"
  BY <1>1 DEF Listed
<1>3. FirstListed # End => worker[FirstListed] # "none"
  BY <1>2, FirstIs DEF TypeOK
<1>4. ASSUME Successor(d) # End PROVE worker[Successor(d)] # "none"
  <2>1. PICK i \in 1 .. Len(listed) - 1 : listed[i] = d
    BY <1>4 DEF Successor
  <2>2. i \in DOMAIN listed /\ i + 1 \in DOMAIN listed /\ i < Len(listed)
    BY <2>1 DEF TypeOK
  <2>3. Successor(d) = listed[i + 1]
    BY <2>1, <2>2, SuccessorIs DEF TypeOK
  <2> QED BY <1>2, <2>2, <2>3
<1> QED BY <1>3, <1>4

Base == TypeOK /\ Listed /\ Saved

\* Steps of MonitorMessage.
LEMMA MessageKeepsBase ==
    ASSUME Base, Distribute \/ MakeFrame \/ Unlock
    PROVE  Base'
<1> USE DEF monitorVars, countVars
<1>0. TypeOK /\ Listed /\ Saved
  BY DEF Base
<1>1. CASE Distribute
  <2>1. /\ UNCHANGED <<monitor, adding, worker, listed, count, reg, overlap, buffer,
                       unlocked, continue, online, got, given, late>>
        /\ at = End /\ message < MaxMessages /\ message' = message + 1
    BY <1>1 DEF Distribute
  <2>2. message' \in 0 .. MaxMessages /\ message' # 0
    BY <1>0, <2>1, LoggerAssumption DEF TypeOK
  <2>3. CASE count > 0
    <3>1. GoTo(FirstListed)
      BY <1>1, <2>3 DEF Distribute
    <3>2. FirstListed \in Clients \cup {End}
      BY <1>0, FirstIs DEF TypeOK
    <3>3. /\ at' = FirstListed /\ framed' = FALSE /\ after' \in Clients \cup {End}
          /\ fate' \in {fate, "undefined"}
          /\ FirstListed # End => worker[FirstListed] # "none"
          /\ after' # End => worker[after'] # "none"
      BY <1>0, <3>1, <3>2, GoToIs, SavedAfter
    <3>4. TypeOK'
      BY <1>0, <2>1, <2>2, <3>2, <3>3 DEF TypeOK
    <3>5. Listed'
      BY <1>0, <2>1, <2>2, <3>3 DEF Listed
    <3>6. Saved'
      BY <2>1, <3>3 DEF Saved
    <3> QED BY <3>4, <3>5, <3>6 DEF Base
  <2>4. CASE ~(count > 0)
    <3>1. UNCHANGED <<at, after, framed, fate>>
      BY <1>1, <2>4 DEF Distribute
    <3> QED BY <1>0, <2>1, <2>2, <3>1 DEF Base, TypeOK, Listed, Saved
  <2> QED BY <2>3, <2>4
<1>2. CASE MakeFrame
  <2>1. /\ UNCHANGED <<monitor, adding, worker, listed, count, reg, overlap,
                       unlocked, continue, online, got, at, after, message>>
        /\ at # End /\ framed' = TRUE /\ fate' \in {fate, "undefined"}
        /\ buffer' = [buffer EXCEPT ![at] = message]
        /\ given' = [given EXCEPT ![at] = @ \cup {message}]
        /\ late' \subseteq late \cup {at}
    BY <1>2 DEF MakeFrame
  <2>2. at \in Clients
    BY <1>0, <2>1 DEF TypeOK
  <2>3. message \in Messages /\ message \in Contents
    <3>1. message \in 0 .. MaxMessages /\ message # 0
      BY <1>0, <2>1 DEF TypeOK, Listed
    <3> QED BY <3>1, LoggerAssumption DEF Messages, Contents, Refusal
  <2> QED BY <1>0, <2>1, <2>2, <2>3 DEF Base, TypeOK, Listed, Saved
<1>3. CASE Unlock
  <2>1. /\ UNCHANGED <<monitor, adding, worker, listed, count, reg, overlap, buffer,
                       continue, online, got, message, given, late>>
        /\ unlocked' = [unlocked EXCEPT ![at] = TRUE]
    BY <1>3 DEF Unlock
  <2>2. unlocked' \in [Clients -> BOOLEAN]
    BY <1>0, <2>1 DEF TypeOK
  <2>3. CASE worker[at] = "freed"
    <3>1. fate' = "undefined" /\ UNCHANGED <<at, after, framed>>
      BY <1>3, <2>3 DEF Unlock
    <3> QED BY <1>0, <2>1, <2>2, <3>1 DEF Base, TypeOK, Listed, Saved
  <2>4. CASE worker[at] # "freed"
    <3>1. GoTo(after)
      BY <1>3, <2>4 DEF Unlock
    <3>2. after \in Clients \cup {End} /\ (after # End => worker[after] # "none")
      BY <1>0 DEF TypeOK, Saved
    <3>3. /\ at' = after /\ framed' = FALSE /\ after' \in Clients \cup {End}
          /\ fate' \in {fate, "undefined"}
          /\ after' # End => worker[after'] # "none"
      BY <1>0, <3>1, <3>2, GoToIs, SavedAfter
    <3>4. TypeOK'
      BY <1>0, <2>1, <2>2, <3>2, <3>3 DEF TypeOK
    <3>5. message # 0
      BY <1>0, <1>3 DEF Listed, Unlock
    <3>6. Listed'
      BY <1>0, <2>1, <3>2, <3>3, <3>5 DEF Listed
    <3>7. Saved'
      BY <2>1, <3>3 DEF Saved
    <3> QED BY <3>4, <3>6, <3>7 DEF Base
  <2> QED BY <2>3, <2>4
<1> QED BY <1>1, <1>2, <1>3

\* MonitorMain takes a client in at the end of the list.
LEMMA MonitorKeepsBase ==
    ASSUME Base, NEW c \in Clients, Accept(c) \/ CountUp \/ AddClient, IInv'
    PROVE  Base'
<1>0. TypeOK /\ Listed /\ Saved /\ CountTypes'
  BY DEF Base, IInv
<1>1. CASE Accept(c)
  BY <1>0, <1>1, LoggerAssumption DEF Accept, jobVars, Base, TypeOK, Listed, Saved, CountTypes
<1>2. CASE CountUp
  BY <1>0, <1>2 DEF CountUp, jobVars, Base, TypeOK, Listed, Saved, CountTypes
<1>3. CASE AddClient
  <2>1. /\ adding /\ adding' = FALSE /\ monitor' = End
        /\ listed' = Append(listed, monitor)
        /\ worker' = [worker EXCEPT ![monitor] = "start"]
        /\ UNCHANGED <<buffer, unlocked, continue, online, got, at, after, framed,
                       message, given, late, fate>>
    BY <1>3 DEF AddClient, jobVars
  <2>2. monitor \in Clients /\ worker[monitor] = "none"
    BY <1>0, <2>1 DEF TypeOK, Listed
  <2>3. \A d \in Clients : worker'[d] = IF d = monitor THEN "start" ELSE worker[d]
    BY <1>0, <2>1, <2>2 DEF TypeOK
  <2>4. listed \in Seq(Clients) /\ IsInjective(listed) /\ ~Contains(listed, monitor)
    BY <1>0, <2>2 DEF TypeOK, Listed
  <2>5. /\ listed' \in Seq(Clients) /\ Len(listed') = Len(listed) + 1
        /\ \A i \in DOMAIN listed : listed'[i] = listed[i]
        /\ listed'[Len(listed) + 1] = monitor
    BY <2>1, <2>2, <2>4
  <2>6. IsInjective(listed')
    BY <2>4, <2>5 DEF IsInjective, Contains
  <2>7. \A d \in Clients : Contains(listed', d) <=> Contains(listed, d) \/ d = monitor
    BY <2>4, <2>5 DEF Contains
  <2>8. TypeOK'
    BY <1>0, <2>1, <2>5, <2>6 DEF TypeOK, CountTypes
  <2>9. Listed' /\ Saved'
    BY <1>0, <2>1, <2>2, <2>3, <2>7 DEF Listed, Saved, TypeOK
  <2> QED BY <2>8, <2>9 DEF Base
<1> QED BY <1>1, <1>2, <1>3

\* list_del takes one client out and leaves the others in their order.
LEMMA UnlinkIs ==
    ASSUME TypeOK, NEW c \in Clients, Unlink(c)
    PROVE  \E i \in DOMAIN listed :
               /\ listed[i] = c
               /\ listed' \in Seq(Clients) /\ Len(listed') = Len(listed) - 1
               /\ \A j \in 1 .. Len(listed') :
                      listed'[j] = IF j < i THEN listed[j] ELSE listed[j + 1]
               /\ IsInjective(listed')
               /\ \A d \in Clients : Contains(listed', d) <=> Contains(listed, d) /\ d # c
<1>1. listed \in Seq(Clients) /\ IsInjective(listed)
  BY DEF TypeOK
<1>2. PICK i \in DOMAIN listed : listed[i] = c /\ listed' = RemoveAt(listed, i)
  BY DEF Unlink
<1>3. /\ listed' \in Seq(Clients) /\ Len(listed') = Len(listed) - 1
      /\ \A j \in 1 .. Len(listed') :
             listed'[j] = IF j < i THEN listed[j] ELSE listed[j + 1]
      /\ IsInjective(listed')
  BY <1>1, <1>2, RemovedAt
<1>4. Len(listed) \in Nat /\ i \in 1 .. Len(listed) /\ Len(listed') \in Nat
  BY <1>1, <1>3
<1>5. ASSUME NEW d \in Clients
      PROVE  Contains(listed', d) <=> Contains(listed, d) /\ d # c
  <2>1. ASSUME Contains(listed', d) PROVE Contains(listed, d) /\ d # c
    <3>1. PICK j \in 1 .. Len(listed') : listed'[j] = d
      BY <2>1 DEF Contains
    <3> DEFINE k == IF j < i THEN j ELSE j + 1
    <3>2. k \in 1 .. Len(listed) /\ k # i
      BY <1>3, <1>4
    <3>3. listed[k] = d
      BY <1>3, <3>1
    <3>4. d # c
      BY <1>1, <1>2, <3>2, <3>3 DEF IsInjective
    <3> QED BY <3>2, <3>3, <3>4 DEF Contains
  <2>2. ASSUME Contains(listed, d), d # c PROVE Contains(listed', d)
    <3>1. PICK k \in 1 .. Len(listed) : listed[k] = d
      BY <2>2 DEF Contains
    <3>2. k # i
      BY <1>2, <2>2, <3>1
    <3> DEFINE j == IF k < i THEN k ELSE k - 1
    <3>3. j \in 1 .. Len(listed') /\ (IF j < i THEN j ELSE j + 1) = k
      BY <1>3, <1>4, <3>2
    <3>4. listed'[j] = listed[k]
      BY <1>3, <3>3
    <3> QED BY <3>1, <3>3, <3>4 DEF Contains
  <2> QED BY <2>1, <2>2
<1> QED BY <1>2, <1>3, <1>5

LEMMA WorkerKeepsBase ==
    ASSUME Base, NEW c \in Clients, Worker(c), IInv'
    PROVE  Base'
<1>0. /\ TypeOK /\ Listed /\ Saved /\ CountTypes' /\ Locally(c)
      /\ monitor \in Clients \cup {End} /\ at \in Clients \cup {End}
      /\ after \in Clients \cup {End}
  BY WorkerIsLocal DEF Base, IInv, TypeOK
<1>1. /\ UNCHANGED <<monitor, adding, at, after, framed, message, given, late>>
      /\ worker[c] \notin {"none", "freed"} /\ worker'[c] # "none"
      /\ worker \in [Clients -> Steps] /\ worker' \in [Clients -> Steps]
      /\ \A d \in Clients \ {c} : worker'[d] = worker[d]
  BY <1>0 DEF Locally, TypeOK
<1>2. Saved' /\ (at # End => worker'[at] # "none")
      /\ (monitor # End => worker'[monitor] = "none")
  BY <1>0, <1>1 DEF Saved, Listed
<1>3. /\ listed' \in Seq(Clients) /\ IsInjective(listed')
      /\ \A d \in Clients : Contains(listed', d) <=> worker'[d] \notin {"none", "freed"}
  <2>1. CASE Unlink(c)
    <3>1. worker'[c] = "freed"
      BY <1>0, <2>1 DEF Unlink, Step, TypeOK
    <3> QED BY <1>0, <1>1, <2>1, <3>1, UnlinkIs DEF Listed
  <2>2. CASE ~Unlink(c)
    <3>1. listed' = listed
      BY <2>2 DEF Worker, Start, ParseGood, ParseNotFound, ParseError, ParseOverwritten,
         Wait, Send, Clear, CountRead, CountDown, FreeBuffer, Receive
    <3>2. worker'[c] # "freed"
      <4>1. worker' = worker \/ \E to \in Steps \ {"freed"} : worker' = [worker EXCEPT ![c] = to]
        BY <2>2 DEF Worker, Start, ParseGood, ParseNotFound, ParseError, ParseOverwritten,
           Wait, Send, Clear, CountRead, CountDown, FreeBuffer, Receive, Step, Steps
      <4> QED BY <1>1, <4>1
    <3> QED BY <1>0, <1>1, <3>1, <3>2 DEF Listed, TypeOK
  <2> QED BY <2>1, <2>2
<1>4. Listed'
  BY <1>0, <1>1, <1>2, <1>3 DEF Listed
<1>5. online' \subseteq Clients /\ fate' \in {"running", "aborted", "undefined"}
  BY <1>0 DEF Locally, TypeOK
<1>6. /\ buffer' \in [Clients -> Contents] /\ unlocked' \in [Clients -> BOOLEAN]
      /\ continue' \in [Clients -> BOOLEAN] /\ got' \in [Clients -> Seq(Contents)]
  <2>1. /\ buffer \in [Clients -> Contents] /\ unlocked \in [Clients -> BOOLEAN]
        /\ continue \in [Clients -> BOOLEAN] /\ got \in [Clients -> Seq(Contents)]
        /\ online \subseteq Clients
    BY <1>0 DEF TypeOK
  <2> DEFINE Typed == /\ buffer' \in [Clients -> Contents]
                      /\ unlocked' \in [Clients -> BOOLEAN]
                      /\ continue' \in [Clients -> BOOLEAN]
                      /\ got' \in [Clients -> Seq(Contents)]
  <2>2. CASE Start(c)
    BY <2>1, <2>2, Numbers DEF Start
  <2>3. CASE ParseGood(c)
    BY <2>1, <2>3, Numbers DEF ParseGood
  <2>4. CASE ParseNotFound(c)
    BY <2>1, <2>4, Numbers DEF ParseNotFound
  <2>5. CASE ParseError(c)
    BY <2>1, <2>5, Numbers DEF ParseError
  <2>6. CASE ParseOverwritten(c)
    BY <2>1, <2>6, Numbers DEF ParseOverwritten
  <2>7. CASE Wait(c)
    BY <2>1, <2>7, Numbers DEF Wait
  <2>8. CASE Send(c)
    BY <2>1, <2>8, Numbers DEF Send
  <2>9. CASE Clear(c)
    BY <2>1, <2>9, Numbers DEF Clear
  <2>10. CASE CountRead(c)
    BY <2>1, <2>10, Numbers DEF CountRead
  <2>11. CASE CountDown(c)
    BY <2>1, <2>11, Numbers DEF CountDown
  <2>12. CASE FreeBuffer(c)
    BY <2>1, <2>12, Numbers DEF FreeBuffer
  <2>13. CASE Unlink(c)
    BY <2>1, <2>13, Numbers DEF Unlink
  <2>14. ASSUME NEW whole \in BOOLEAN, Receive(c, whole) PROVE Typed
    BY <2>1, <2>14, Numbers DEF Receive
  <2> QED
    BY <2>2, <2>3, <2>4, <2>5, <2>6, <2>7, <2>8, <2>9,
       <2>10, <2>11, <2>12, <2>13, <2>14
    DEF Worker
<1> QED BY <1>0, <1>1, <1>3, <1>4, <1>5, <1>6, <1>2 DEF Base, TypeOK, CountTypes

\* A client nobody has taken in has nothing.
Quiet ==
    \A c \in Clients : worker[c] = "none" =>
        buffer[c] = Blank /\ got[c] = <<>> /\ given[c] = {} /\ ~unlocked[c]

\* Messages come from MonitorMessage's calls, by way of the buffer.
Known ==
    \A c \in Clients :
        /\ \A m \in given[c] : m <= message
        /\ buffer[c] \in Messages => buffer[c] \in given[c]
        /\ \A i \in DOMAIN got[c] : got[c][i] \in Messages => got[c][i] \in given[c]

\* Neither the client MonitorMessage is at nor one it will come to has had a
\* frame in this call.
Walk ==
    fate = "running" /\ at # End =>
        /\ ~framed => message \notin given[at]
        /\ \A p \in DOMAIN listed : listed[p] = after =>
               \A j \in p .. Len(listed) :
                   listed[j] # at /\ message \notin given[listed[j]]

\* A message in the buffer is the last made for its client, and until the
\* worker has sent what it takes from there the client has not received it.
Unsent == {"start", "opening", "parse", "answer", "wait", "send"}
Rising ==
    \A c \in Clients : buffer[c] \in Messages =>
        /\ \A m \in given[c] : m <= buffer[c]
        /\ worker[c] \in Unsent => \A i \in DOMAIN got[c] : got[c][i] # buffer[c]

InOrder ==
    \A c \in Clients : \A i, j \in DOMAIN got[c] :
        i < j /\ got[c][i] \in Messages /\ got[c][j] \in Messages
        => got[c][i] < got[c][j]

OrderInv == IInv /\ Base /\ Quiet /\ Known /\ Walk /\ Rising /\ InOrder

\* What a worker puts into its own buffer and sends.
LEMMA WorkerOwn ==
    ASSUME TypeOK, NEW c \in Clients, Worker(c)
    PROVE  /\ \/ buffer'[c] = buffer[c]
              \/ buffer'[c] \in {Blank, Request, Answer, Refusal}
           /\ \/ got'[c] = got[c]
              \/ got'[c] = Append(got[c], Refusal)
              \/ /\ worker[c] \in {"answer", "send"} /\ worker'[c] \in {"clear", "leave"}
                 /\ got'[c] = Append(got[c], buffer[c]) /\ buffer'[c] = buffer[c]
           /\ worker'[c] \in Unsent =>
                 worker[c] \in Unsent \/ buffer'[c] = Blank
<1>0. /\ buffer \in [Clients -> Contents] /\ got \in [Clients -> Seq(Contents)]
      /\ worker \in [Clients -> Steps]
  BY DEF TypeOK
<1> DEFINE Own == /\ \/ buffer'[c] = buffer[c]
                     \/ buffer'[c] \in {Blank, Request, Answer, Refusal}
                  /\ \/ got'[c] = got[c]
                     \/ got'[c] = Append(got[c], Refusal)
                     \/ /\ worker[c] \in {"answer", "send"} /\ worker'[c] \in {"clear", "leave"}
                        /\ got'[c] = Append(got[c], buffer[c]) /\ buffer'[c] = buffer[c]
                  /\ worker'[c] \in Unsent =>
                        worker[c] \in Unsent \/ buffer'[c] = Blank
<1> USE DEF Step, Unsent
<1>1. CASE Start(c)
  BY <1>0, <1>1 DEF Start
<1>2. CASE ParseGood(c)
  BY <1>0, <1>2 DEF ParseGood
<1>3. CASE ParseNotFound(c)
  BY <1>0, <1>3 DEF ParseNotFound
<1>4. CASE ParseError(c)
  BY <1>0, <1>4 DEF ParseError
<1>5. CASE ParseOverwritten(c)
  BY <1>0, <1>5 DEF ParseOverwritten
<1>6. CASE Wait(c)
  BY <1>0, <1>6 DEF Wait
<1>7. CASE Send(c)
  BY <1>0, <1>7 DEF Send
<1>8. CASE Clear(c)
  BY <1>0, <1>8 DEF Clear
<1>9. CASE CountRead(c) \/ CountDown(c)
  BY <1>0, <1>9 DEF CountRead, CountDown
<1>10. CASE FreeBuffer(c) \/ Unlink(c)
  BY <1>0, <1>10 DEF FreeBuffer, Unlink
<1>11. ASSUME NEW whole \in BOOLEAN, Receive(c, whole) PROVE Own
  BY <1>0, <1>11 DEF Receive
<1> QED
  BY <1>1, <1>2, <1>3, <1>4, <1>5, <1>6, <1>7, <1>8, <1>9, <1>10, <1>11 DEF Worker

\* What is appended to what a client got.
LEMMA GotMore ==
    ASSUME NEW s \in Seq(Contents), NEW x \in Contents
    PROVE  /\ Append(s, x) \in Seq(Contents)
           /\ Len(s) \in Nat /\ DOMAIN s = 1 .. Len(s)
           /\ DOMAIN Append(s, x) = 1 .. Len(s) + 1
           /\ \A i \in DOMAIN s : Append(s, x)[i] = s[i]
           /\ Append(s, x)[Len(s) + 1] = x
BY AppendProperties, LenProperties

\* A step of a worker, for one client, its own or another.
LEMMA WorkerKeepsOrder ==
    ASSUME OrderInv, NEW c \in Clients, Worker(c)
    PROVE  Quiet' /\ Known' /\ Rising' /\ InOrder'
<1>0. TypeOK /\ Listed /\ Locally(c)
  BY WorkerIsLocal DEF OrderInv, Base
<1>1. Quiet /\ Known /\ Rising /\ InOrder
  BY DEF OrderInv
<1>2. /\ buffer \in [Clients -> Contents] /\ got \in [Clients -> Seq(Contents)]
      /\ worker \in [Clients -> Steps]
  BY <1>0 DEF TypeOK
<1> DEFINE At(d) ==
       /\ worker'[d] = "none" =>
             buffer'[d] = Blank /\ got'[d] = <<>> /\ given[d] = {} /\ ~unlocked'[d]
       /\ buffer'[d] \in Messages =>
             /\ buffer'[d] \in given[d]
             /\ \A m \in given[d] : m <= buffer'[d]
             /\ worker'[d] \in Unsent => \A i \in DOMAIN got'[d] : got'[d][i] # buffer'[d]
       /\ \A i \in DOMAIN got'[d] : got'[d][i] \in Messages => got'[d][i] \in given[d]
       /\ \A i, j \in DOMAIN got'[d] :
             i < j /\ got'[d][i] \in Messages /\ got'[d][j] \in Messages
             => got'[d][i] < got'[d][j]
<1>3. ASSUME NEW d \in Clients \ {c} PROVE At(d)
  <2>1. /\ worker'[d] = worker[d] /\ buffer'[d] = buffer[d] /\ unlocked'[d] = unlocked[d]
        /\ \/ got'[d] = got[d]
           \/ worker[d] # "none" /\ got'[d] = Append(got[d], Refusal)
    BY <1>0 DEF Locally, Listed
  <2>2. CASE got'[d] = got[d]
    BY <1>1, <2>1, <2>2 DEF Quiet, Known, Rising, InOrder
  <2>3. CASE worker[d] # "none" /\ got'[d] = Append(got[d], Refusal)
    <3>1. Refusal \notin Messages
      BY Numbers
    <3>2. /\ Len(got[d]) \in Nat /\ DOMAIN got[d] = 1 .. Len(got[d])
          /\ DOMAIN got'[d] = 1 .. Len(got[d]) + 1
          /\ \A i \in DOMAIN got[d] : got'[d][i] = got[d][i]
          /\ got'[d][Len(got[d]) + 1] = Refusal
      BY <1>2, <2>3, GotMore, Numbers
    <3>3. \A i \in DOMAIN got'[d] : got'[d][i] \in Messages =>
              i \in DOMAIN got[d] /\ got'[d][i] = got[d][i]
      BY <3>1, <3>2
    <3>4. \A i \in DOMAIN got'[d] : got'[d][i] \in Messages => got'[d][i] \in given[d]
      BY <1>1, <3>3 DEF Known
    <3>5. \A i, j \in DOMAIN got'[d] :
             i < j /\ got'[d][i] \in Messages /\ got'[d][j] \in Messages
             => got'[d][i] < got'[d][j]
      BY <1>1, <3>3 DEF InOrder
    <3>6. buffer'[d] \in Messages =>
             /\ buffer'[d] \in given[d]
             /\ \A m \in given[d] : m <= buffer'[d]
             /\ worker'[d] \in Unsent => \A i \in DOMAIN got'[d] : got'[d][i] # buffer'[d]
      BY <1>1, <2>1, <3>3 DEF Known, Rising
    <3> QED BY <2>1, <2>3, <3>4, <3>5, <3>6
  <2> QED BY <2>1, <2>2, <2>3
<1>4. At(c)
  <2>1. worker'[c] # "none"
    BY <1>0 DEF Locally
  <2>2. /\ \/ buffer'[c] = buffer[c]
           \/ buffer'[c] \in {Blank, Request, Answer, Refusal}
        /\ \/ got'[c] = got[c]
           \/ got'[c] = Append(got[c], Refusal)
           \/ /\ worker[c] \in {"answer", "send"} /\ worker'[c] \in {"clear", "leave"}
              /\ got'[c] = Append(got[c], buffer[c]) /\ buffer'[c] = buffer[c]
        /\ worker'[c] \in Unsent =>
              worker[c] \in Unsent \/ buffer'[c] = Blank
    BY <1>0, WorkerOwn
  <2>3. /\ buffer'[c] \in Messages => buffer'[c] = buffer[c] /\ buffer[c] \in given[c]
        /\ \A x \in {Blank, Request, Answer, Refusal} : x \notin Messages
    BY <1>1, <2>2, Numbers DEF Known
  <2>4. buffer'[c] \in Messages =>
           /\ buffer'[c] \in given[c] /\ \A m \in given[c] : m <= buffer'[c]
           /\ worker'[c] \in Unsent => worker[c] \in Unsent
    BY <1>1, <2>2, <2>3 DEF Rising
  <2>5. CASE got'[c] = got[c]
    BY <1>1, <2>1, <2>2, <2>3, <2>4, <2>5 DEF Known, Rising, InOrder
  <2>6. ASSUME NEW x \in {Refusal, buffer[c]}, got'[c] = Append(got[c], x),
               x \in Messages =>
                   worker[c] \in Unsent /\ x = buffer[c] /\ worker'[c] \notin Unsent
        PROVE  At(c)
    <3>1. x \in Contents
      BY <1>2, Numbers
    <3>2. /\ Len(got[c]) \in Nat /\ DOMAIN got[c] = 1 .. Len(got[c])
          /\ DOMAIN got'[c] = 1 .. Len(got[c]) + 1
          /\ \A i \in DOMAIN got[c] : got'[c][i] = got[c][i]
          /\ got'[c][Len(got[c]) + 1] = x
      BY <1>2, <2>6, <3>1, GotMore
    <3>3. \A i \in DOMAIN got'[c] : \/ i \in DOMAIN got[c] /\ got'[c][i] = got[c][i]
                                    \/ i = Len(got[c]) + 1 /\ got'[c][i] = x
      BY <3>2
    <3>4. x \in Messages => x \in given[c]
      BY <1>1, <2>6 DEF Known
    <3>5. \A i \in DOMAIN got'[c] : got'[c][i] \in Messages => got'[c][i] \in given[c]
      BY <1>1, <3>3, <3>4 DEF Known
    <3>6. ASSUME NEW i \in DOMAIN got'[c], NEW j \in DOMAIN got'[c],
                 i < j, got'[c][i] \in Messages, got'[c][j] \in Messages
          PROVE  got'[c][i] < got'[c][j]
      <4>1. i \in DOMAIN got[c] /\ got'[c][i] = got[c][i]
        BY <3>2, <3>3, <3>6
      <4>2. CASE j \in DOMAIN got[c]
        BY <1>1, <3>2, <3>6, <4>1, <4>2 DEF InOrder
      <4>3. CASE j = Len(got[c]) + 1
        <5>1. got'[c][j] = x /\ x = buffer[c] /\ x \in Messages
          BY <2>6, <3>2, <3>6, <4>3
        <5>2. got[c][i] \in given[c] /\ got[c][i] # x
          BY <1>1, <2>6, <3>6, <4>1, <5>1 DEF Known, Rising
        <5>3. got[c][i] <= x
          BY <1>1, <5>1, <5>2 DEF Rising
        <5>4. got[c][i] \in Nat /\ x \in Nat
          BY <3>6, <4>1, <5>1, Numbers
        <5> QED BY <4>1, <5>1, <5>2, <5>3, <5>4
      <4> QED BY <3>3, <4>2, <4>3
    <3>7. buffer'[c] \in Messages /\ worker'[c] \in Unsent =>
              \A i \in DOMAIN got'[c] : got'[c][i] # buffer'[c]
      <4> SUFFICES ASSUME buffer'[c] \in Messages, worker'[c] \in Unsent,
                          NEW i \in DOMAIN got'[c]
                   PROVE  got'[c][i] # buffer'[c]
        OBVIOUS
      <4>1. x \notin Messages
        BY <2>6
      <4> QED BY <1>1, <2>3, <2>4, <3>3, <4>1 DEF Rising
    <3> QED BY <2>1, <2>4, <3>5, <3>6, <3>7
  <2>7. Refusal \notin Messages /\ {"answer", "send"} \subseteq Unsent
        /\ "clear" \notin Unsent /\ "leave" \notin Unsent
    BY Numbers DEF Unsent
  <2> QED BY <2>2, <2>5, <2>6, <2>7
<1>5. given' = given /\ message' = message
  BY <1>0 DEF Locally
<1>6. \A d \in Clients : At(d)
  BY <1>3, <1>4
<1>7. Quiet' /\ InOrder'
  BY <1>5, <1>6 DEF Quiet, InOrder
<1>8. Known'
  BY <1>1, <1>5, <1>6 DEF Known, Messages
<1>9. Rising'
  BY <1>5, <1>6 DEF Rising, Messages
<1> QED BY <1>7, <1>8, <1>9

\* A worker moves neither MonitorMessage nor what lies ahead of it, whether
\* it stays in the list or leaves it.
LEMMA WorkerKeepsWalk ==
    ASSUME OrderInv, NEW c \in Clients, Worker(c), fate = "running"
    PROVE  Walk'
<1>0. TypeOK /\ Locally(c) /\ Walk
  BY WorkerIsLocal DEF OrderInv, Base
<1>1. UNCHANGED <<at, after, framed, message, given>>
  BY <1>0 DEF Locally
<1> SUFFICES ASSUME at # End
             PROVE  /\ ~framed => message \notin given[at]
                    /\ \A p \in DOMAIN listed' : listed'[p] = after =>
                           \A j \in p .. Len(listed') :
                               listed'[j] # at /\ message \notin given[listed'[j]]
  BY <1>1 DEF Walk
<1>2. /\ ~framed => message \notin given[at]
      /\ \A p \in DOMAIN listed : listed[p] = after =>
             \A j \in p .. Len(listed) :
                 listed[j] # at /\ message \notin given[listed[j]]
  BY <1>0 DEF Walk
<1>3. listed \in Seq(Clients) /\ DOMAIN listed = 1 .. Len(listed) /\ Len(listed) \in Nat
  BY <1>0 DEF TypeOK
<1>4. CASE Unlink(c)
  <2>1. PICK i \in DOMAIN listed :
            /\ listed' \in Seq(Clients) /\ Len(listed') = Len(listed) - 1
            /\ \A j \in 1 .. Len(listed') :
                   listed'[j] = IF j < i THEN listed[j] ELSE listed[j + 1]
    BY <1>0, <1>4, UnlinkIs
  <2> SUFFICES ASSUME NEW p \in DOMAIN listed', listed'[p] = after,
                      NEW j \in p .. Len(listed')
               PROVE  listed'[j] # at /\ message \notin given[listed'[j]]
    BY <1>2
  <2> DEFINE P == IF p < i THEN p ELSE p + 1
             J == IF j < i THEN j ELSE j + 1
  <2>2. p \in 1 .. Len(listed') /\ j \in 1 .. Len(listed') /\ Len(listed') \in Nat
    BY <2>1
  <2>3. P \in DOMAIN listed /\ J \in P .. Len(listed)
    BY <1>3, <2>1, <2>2
  <2>4. listed[P] = listed'[p] /\ listed[J] = listed'[j]
    BY <2>1, <2>2
  <2> QED BY <1>2, <2>3, <2>4
<1>5. CASE ~Unlink(c)
  <2>1. listed' = listed
    BY <1>5 DEF Worker, Start, ParseGood, ParseNotFound, ParseError, ParseOverwritten,
       Wait, Send, Clear, CountRead, CountDown, FreeBuffer, Receive
  <2> QED BY <1>2, <2>1
<1> QED BY <1>4, <1>5

\* A new client is at the end of the list and has had no frame.
LEMMA MonitorKeepsOrder ==
    ASSUME OrderInv, NEW c \in Clients, Accept(c) \/ CountUp \/ AddClient
    PROVE  Quiet' /\ Known' /\ Walk' /\ Rising' /\ InOrder'
<1>0. TypeOK /\ Listed /\ Saved /\ Quiet /\ Known /\ Walk /\ Rising /\ InOrder
  BY DEF OrderInv, Base
<1>1. UNCHANGED <<buffer, unlocked, got, at, after, framed, message, given, fate>>
  BY DEF Accept, CountUp, AddClient, jobVars
<1>2. Known' /\ InOrder'
  BY <1>0, <1>1 DEF Known, InOrder, Messages
<1>3. CASE Accept(c) \/ CountUp
  <2>1. UNCHANGED <<worker, listed>>
    BY <1>3 DEF Accept, CountUp
  <2>2. Quiet' /\ Walk' /\ Rising'
    BY <1>0, <1>1, <2>1 DEF Quiet, Walk, Rising, Messages
  <2> QED BY <1>2, <2>2
<1>4. CASE AddClient
  <2>1. /\ listed' = Append(listed, monitor)
        /\ worker' = [worker EXCEPT ![monitor] = "start"] /\ adding
    BY <1>4 DEF AddClient
  <2>2. monitor \in Clients /\ worker[monitor] = "none"
    BY <1>0, <2>1 DEF TypeOK, Listed
  <2>3. \A d \in Clients : worker'[d] = IF d = monitor THEN "start" ELSE worker[d]
    BY <1>0, <2>1, <2>2 DEF TypeOK
  <2>4. buffer[monitor] = Blank /\ given[monitor] = {} /\ Blank \notin Messages
    BY <1>0, <2>2, Numbers DEF Quiet
  <2>5. Quiet'
    BY <1>0, <1>1, <2>3 DEF Quiet
  <2>6. Rising'
    BY <1>0, <1>1, <2>3, <2>4 DEF Rising, Messages
  <2>7. listed \in Seq(Clients)
    BY <1>0 DEF TypeOK
  <2>8. /\ Len(listed') = Len(listed) + 1 /\ DOMAIN listed' = 1 .. Len(listed')
        /\ DOMAIN listed = 1 .. Len(listed) /\ Len(listed) \in Nat
        /\ \A i \in 1 .. Len(listed) : listed'[i] = listed[i]
        /\ listed'[Len(listed) + 1] = monitor
    BY <2>1, <2>2, <2>7
  <2>9. ASSUME at # End, fate = "running", NEW p \in DOMAIN listed', listed'[p] = after,
               NEW j \in p .. Len(listed')
        PROVE  listed'[j] # at /\ message \notin given[listed'[j]]
    <3>1. monitor # at
      BY <1>0, <2>2, <2>9 DEF Listed
    <3>2. CASE j = Len(listed) + 1
      BY <2>4, <2>8, <3>1, <3>2
    <3>3. CASE j # Len(listed) + 1
      <4>1. p \in DOMAIN listed /\ j \in p .. Len(listed)
        BY <2>8, <2>9, <3>3
      <4>2. listed[p] = after /\ listed'[j] = listed[j]
        BY <2>8, <2>9, <4>1
      <4> QED BY <1>0, <2>9, <4>1, <4>2 DEF Walk
    <3> QED BY <3>2, <3>3
  <2>10. Walk'
    BY <1>0, <1>1, <2>9 DEF Walk
  <2> QED BY <1>2, <2>5, <2>6, <2>10
<1> QED BY <1>3, <1>4

\* A step of the walk leaves what lies ahead of it behind.
LEMMA GoToWalk ==
    ASSUME TypeOK, Listed, NEW d \in Clients \cup {End}, GoTo(d),
           d # End => worker[d] # "none",
           NEW m,
           \A p \in DOMAIN listed : listed[p] = d =>
               \A j \in p .. Len(listed) : m \notin given[listed[j]],
           fate' = "running", d # End
    PROVE  /\ m \notin given[d]
           /\ \A p \in DOMAIN listed : listed[p] = after' =>
                  \A j \in p .. Len(listed) :
                      listed[j] # d /\ m \notin given[listed[j]]
<1>1. /\ listed \in Seq(Clients) /\ IsInjective(listed)
      /\ DOMAIN listed = 1 .. Len(listed) /\ Len(listed) \in Nat
  BY DEF TypeOK
<1>2. worker[d] \notin {"none", "freed"} /\ after' = Successor(d)
  BY GoToIs
<1>3. PICK k \in DOMAIN listed : listed[k] = d
  BY <1>1, <1>2 DEF Listed, Contains
<1>4. \A j \in k .. Len(listed) : m \notin given[listed[j]]
  BY <1>3
<1>5. Successor(d) = IF k < Len(listed) THEN listed[k + 1] ELSE End
  BY <1>1, <1>3, SuccessorIs
<1>6. ASSUME NEW p \in DOMAIN listed, listed[p] = after', NEW j \in p .. Len(listed)
      PROVE  listed[j] # d /\ m \notin given[listed[j]]
  <2>1. listed[p] # End
    BY <1>1, LoggerAssumption
  <2>2. k < Len(listed) /\ listed[p] = listed[k + 1] /\ k + 1 \in DOMAIN listed
    BY <1>1, <1>2, <1>5, <1>6, <2>1
  <2>3. p = k + 1
    BY <1>1, <2>2 DEF IsInjective
  <2>4. j \in DOMAIN listed /\ j # k /\ j \in k .. Len(listed)
    BY <1>1, <2>3
  <2> QED BY <1>1, <1>3, <1>4, <2>4 DEF IsInjective
<1>7. k \in k .. Len(listed)
  BY <1>1
<1> QED BY <1>3, <1>4, <1>6, <1>7

\* Steps of MonitorMessage.
LEMMA MessageKeepsOrder ==
    ASSUME OrderInv, fate = "running", Distribute \/ MakeFrame \/ Unlock
    PROVE  Quiet' /\ Known' /\ Walk' /\ Rising' /\ InOrder'
<1>0. TypeOK /\ Listed /\ Saved /\ Quiet /\ Known /\ Walk /\ Rising /\ InOrder
  BY DEF OrderInv, Base
<1>a. /\ message \in Nat /\ \A c \in Clients : given[c] \subseteq Nat
      /\ buffer \in [Clients -> Contents] /\ given \in [Clients -> SUBSET Messages]
  <2>1. message \in 0 .. MaxMessages /\ MaxMessages \in Nat
    BY <1>0, LoggerAssumption DEF TypeOK
  <2>2. message \in Nat
    BY <2>1
  <2>3. buffer \in [Clients -> Contents] /\ given \in [Clients -> SUBSET Messages]
    BY <1>0 DEF TypeOK
  <2> QED BY <2>2, <2>3, Numbers
<1>1. CASE Distribute
  <2>1. /\ UNCHANGED <<worker, listed, buffer, unlocked, got, given>>
        /\ at = End /\ message' = message + 1
    BY <1>1 DEF Distribute
  <2>2. \A c \in Clients : message' \notin given[c] /\ \A m \in given[c] : m <= message'
    BY <1>0, <1>a, <2>1 DEF Known
  <2>3. Quiet' /\ Known' /\ Rising' /\ InOrder'
    BY <1>0, <2>1, <2>2 DEF Quiet, Known, Rising, InOrder, Messages
  <2>4. Walk'
    <3> SUFFICES ASSUME fate' = "running", at' # End PROVE Walk'
      BY DEF Walk
    <3>1. GoTo(FirstListed)
      BY <1>1, <2>1 DEF Distribute
    <3>2. /\ FirstListed \in Clients \cup {End}
          /\ FirstListed # End => worker[FirstListed] # "none"
      BY <1>0, FirstIs, SavedAfter DEF TypeOK
    <3>3. at' = FirstListed /\ framed' = FALSE
      BY <1>0, <3>1, <3>2, GoToIs
    <3>4. \A j \in DOMAIN listed : listed[j] \in Clients
      BY <1>0 DEF TypeOK
    <3>5. \A p \in DOMAIN listed : \A j \in p .. Len(listed) :
              message' \notin given[listed[j]]
      BY <1>0, <2>2, <3>4 DEF TypeOK
    <3>6. PICK m : m = message'
      OBVIOUS
    <3>7. /\ m \notin given[FirstListed]
          /\ \A p \in DOMAIN listed : listed[p] = after' =>
                 \A j \in p .. Len(listed) :
                     listed[j] # FirstListed /\ m \notin given[listed[j]]
      BY <1>0, <3>1, <3>2, <3>3, <3>5, <3>6, GoToWalk
    <3> QED BY <2>1, <3>3, <3>6, <3>7 DEF Walk
  <2> QED BY <2>3, <2>4
<1>2. CASE MakeFrame
  <2>1. /\ UNCHANGED <<worker, listed, unlocked, got, at, after, message>>
        /\ at # End /\ ~framed /\ framed' = TRUE
        /\ buffer' = [buffer EXCEPT ![at] = message]
        /\ given' = [given EXCEPT ![at] = @ \cup {message}]
    BY <1>2 DEF MakeFrame
  <2>2. at \in Clients /\ worker[at] # "none" /\ message \notin given[at]
    BY <1>0, <2>1 DEF TypeOK, Listed, Walk
  <2>3. /\ \A d \in Clients : buffer'[d] = IF d = at THEN message ELSE buffer[d]
        /\ \A d \in Clients : given'[d] = IF d = at THEN given[d] \cup {message} ELSE given[d]
    BY <1>a, <2>1, <2>2
  <2>0. message <= message
    BY <1>a
  <2>4. Quiet'
    BY <1>0, <2>1, <2>2, <2>3 DEF Quiet
  <2>5. Known'
    <3>1. \A d \in Clients : /\ \A m \in given'[d] : m <= message
                             /\ given[d] \subseteq given'[d]
      BY <1>0, <2>0, <2>3 DEF Known
    <3>2. \A d \in Clients : buffer'[d] \in Messages => buffer'[d] \in given'[d]
      BY <1>0, <2>3 DEF Known
    <3> QED BY <1>0, <2>1, <3>1, <3>2 DEF Known, Messages
  <2>6. Rising'
    <3> SUFFICES ASSUME NEW d \in Clients, buffer'[d] \in Messages
                 PROVE  /\ \A m \in given'[d] : m <= buffer'[d]
                        /\ worker[d] \in Unsent =>
                              \A i \in DOMAIN got[d] : got[d][i] # buffer'[d]
      BY <2>1 DEF Rising, Messages
    <3>1. CASE d = at
      <4>1. \A m \in given'[d] : m <= message
        BY <1>0, <2>0, <2>3 DEF Known
      <4>2. buffer'[d] = message /\ message \in Messages
        BY <2>3, <3>1
      <4>3. \A i \in DOMAIN got[d] : got[d][i] # message
        BY <1>0, <2>2, <3>1, <4>2 DEF Known
      <4> QED BY <4>1, <4>2, <4>3
    <3>2. CASE d # at
      BY <1>0, <2>3, <3>2 DEF Rising
    <3> QED BY <3>1, <3>2
  <2>7. InOrder'
    BY <1>0, <2>1 DEF InOrder, Messages
  <2>8. Walk'
    <3> SUFFICES ASSUME NEW p \in DOMAIN listed, listed[p] = after,
                        NEW j \in p .. Len(listed)
                 PROVE  listed[j] # at /\ message \notin given'[listed[j]]
      BY <2>1 DEF Walk
    <3>1. listed[j] # at /\ message \notin given[listed[j]]
      BY <1>0, <2>1 DEF Walk
    <3>2. listed[j] \in Clients
      BY <1>0 DEF TypeOK
    <3> QED BY <2>3, <3>1, <3>2
  <2> QED BY <2>4, <2>5, <2>6, <2>7, <2>8
<1>3. CASE Unlock
  <2>1. /\ UNCHANGED <<worker, listed, buffer, got, message, given>>
        /\ unlocked' = [unlocked EXCEPT ![at] = TRUE] /\ framed
    BY <1>3 DEF Unlock
  <2>2. at \in Clients /\ worker[at] # "none"
    BY <1>0, <2>1 DEF TypeOK, Listed
  <2>3. Quiet'
    BY <1>0, <2>1, <2>2 DEF Quiet, TypeOK
  <2>4. Known' /\ Rising' /\ InOrder'
    BY <1>0, <2>1 DEF Known, Rising, InOrder, Messages
  <2>5. Walk'
    <3> SUFFICES ASSUME fate' = "running", at' # End PROVE Walk'
      BY DEF Walk
    <3>1. GoTo(after)
      BY <1>3 DEF Unlock
    <3>2. after \in Clients \cup {End} /\ (after # End => worker[after] # "none")
      BY <1>0 DEF TypeOK, Saved
    <3>3. at' = after /\ framed' = FALSE
      BY <1>0, <3>1, <3>2, GoToIs
    <3>4. \A p \in DOMAIN listed : listed[p] = after =>
              \A j \in p .. Len(listed) : message \notin given[listed[j]]
      BY <1>0, <2>1, <2>2, LoggerAssumption DEF Walk
    <3>5. /\ message \notin given[after]
          /\ \A p \in DOMAIN listed : listed[p] = after' =>
                 \A j \in p .. Len(listed) :
                     listed[j] # after /\ message \notin given[listed[j]]
      BY <1>0, <3>1, <3>2, <3>3, <3>4, GoToWalk
    <3> QED BY <2>1, <3>3, <3>5 DEF Walk
  <2> QED BY <2>3, <2>4, <2>5
<1> QED BY <1>1, <1>2, <1>3

LEMMA OrderInit == Init => OrderInv
<1> SUFFICES ASSUME Init PROVE OrderInv
  OBVIOUS
<1>1. /\ monitor = End /\ adding = FALSE /\ worker = [c \in Clients |-> "none"]
      /\ listed = <<>> /\ buffer = [c \in Clients |-> Blank]
      /\ unlocked = [c \in Clients |-> FALSE] /\ continue = [c \in Clients |-> FALSE]
      /\ online = Clients /\ got = [c \in Clients |-> <<>>]
      /\ at = End /\ after = End /\ framed = FALSE /\ message = 0 /\ fate = "running"
      /\ given = [c \in Clients |-> {}] /\ late = {}
  BY DEF Init
<1>2. IInv /\ CountTypes
  BY CountInit DEF IInv
<1>3. listed \in Seq(Clients) /\ IsInjective(listed) /\ \A c \in Clients : ~Contains(listed, c)
  BY <1>1 DEF IsInjective, Contains
<1>4. message \in 0 .. MaxMessages
  BY <1>1, LoggerAssumption
<1>5. TypeOK
  <2>1. got \in [Clients -> Seq(Contents)] /\ buffer \in [Clients -> Contents]
    BY <1>1, Numbers
  <2> QED BY <1>1, <1>2, <1>3, <1>4, <2>1 DEF TypeOK, CountTypes
<1>6. Listed /\ Saved
  BY <1>1, <1>3 DEF Listed, Saved
<1>7. Quiet /\ Known /\ Walk /\ Rising /\ InOrder
  BY <1>1, Numbers DEF Quiet, Known, Walk, Rising, InOrder
<1> QED BY <1>2, <1>5, <1>6, <1>7 DEF OrderInv, Base

LEMMA OrderStep == OrderInv /\ [Next]_vars => OrderInv'
<1> SUFFICES ASSUME OrderInv, [Next]_vars PROVE OrderInv'
  OBVIOUS
<1>0. Base /\ IInv /\ IInv' /\ TypeOK
  BY CountStep DEF OrderInv, Base
<1>1. ASSUME UNCHANGED <<monitor, adding, worker, listed, buffer, unlocked, continue, got,
                         jobVars, fate>>,
             online' \subseteq online
      PROVE  OrderInv'
  <2>1. UNCHANGED <<at, after, framed, message, given, late>>
    BY <1>1 DEF jobVars
  <2>2. Base'
    BY <1>0, <1>1, <2>1 DEF Base, TypeOK, Listed, Saved, IInv, CountTypes
  <2>3. Quiet' /\ Known' /\ Walk' /\ Rising' /\ InOrder'
    BY <1>1, <2>1 DEF OrderInv, Quiet, Known, Walk, Rising, InOrder, Messages
  <2> QED BY <1>0, <2>2, <2>3 DEF OrderInv
<1>2. CASE UNCHANGED vars
  BY <1>1, <1>2 DEF vars, monitorVars
<1>3. ASSUME NEW c \in Clients, Disconnect(c) PROVE OrderInv'
  BY <1>1, <1>3 DEF Disconnect, monitorVars
<1>4. ASSUME NEW c \in Clients, Worker(c), fate = "running" PROVE OrderInv'
  BY <1>0, <1>4, WorkerKeepsBase, WorkerKeepsOrder, WorkerKeepsWalk DEF OrderInv
<1>5. ASSUME NEW c \in Clients, Accept(c) PROVE OrderInv'
  BY <1>0, <1>5, MonitorKeepsBase, MonitorKeepsOrder DEF OrderInv
<1>6. CASE CountUp \/ AddClient
  <2>1. PICK c \in Clients : TRUE
    BY <1>0, <1>6 DEF CountUp, AddClient, TypeOK, Base, Listed
  <2> QED BY <1>0, <1>6, <2>1, MonitorKeepsBase, MonitorKeepsOrder DEF OrderInv
<1>7. CASE fate = "running" /\ (Distribute \/ MakeFrame \/ Unlock)
  BY <1>0, <1>7, MessageKeepsBase, MessageKeepsOrder DEF OrderInv
<1> QED BY <1>2, <1>3, <1>4, <1>5, <1>6, <1>7 DEF Next

\* Whatever clients come and leave while MonitorMessage walks their list, and
\* however late a frame is, no client gets a message twice or after a later
\* one: a call meets no client twice, and a buffer is cleared once sent.
THEOREM NoMessageAgain == Spec => []NeverAgain
<1>1. OrderInv => NeverAgain
  BY DEF OrderInv, Base, NeverAgain, InOrder
<1> QED BY OrderInit, OrderStep, <1>1, PTL DEF Spec

(***************************************************************************)
(* A client that was always waiting.  Its frame is made (Framed) and then  *)
(* signalled by unlocking; until the worker has sent it, what the client   *)
(* got lacks the message in the buffer, and nothing else (Pending).        *)
(***************************************************************************)
Framed(c) == framed /\ at = c

Pending(c) ==
    \/ worker[c] = "send"
    \/ worker[c] = "wait" /\ unlocked[c]
    \/ worker[c] = "wait" /\ Framed(c)

Early == {"none", "start", "opening", "parse", "answer"}

PairedAt(c) ==
    /\ Framed(c) => worker[c] = "wait" /\ ~unlocked[c]
    /\ worker[c] \in Early => given[c] = {}
    /\ worker[c] = "answer" => buffer[c] = Answer
    /\ unlocked[c] => worker[c] \notin Early \cup {"send", "clear"}
    /\ Pending(c) => buffer[c] \in given[c] /\ Frames(got[c]) = given[c] \ {buffer[c]}
    /\ ~Pending(c) => Frames(got[c]) = given[c]

Paired == \A c \in Clients : c \in online /\ c \notin late => PairedAt(c)

PairInv == OrderInv /\ Paired

\* The frames in what a client gets: HTTP adds none.
LEMMA FramesMore ==
    ASSUME NEW s \in Seq(Contents), NEW x \in Contents
    PROVE  /\ x \in Messages => Frames(Append(s, x)) = Frames(s) \cup {x}
           /\ x \in {Request, Answer, Refusal} => Frames(Append(s, x)) = Frames(s)
<1>1. /\ Len(s) \in Nat /\ DOMAIN s = 1 .. Len(s)
      /\ DOMAIN Append(s, x) = 1 .. Len(s) + 1
      /\ \A i \in DOMAIN s : Append(s, x)[i] = s[i]
      /\ Append(s, x)[Len(s) + 1] = x
  BY GotMore
<1> DEFINE t == Append(s, x)
<1> HIDE DEF t
<1>2. /\ \A i \in DOMAIN t : i \in DOMAIN s \/ i = Len(s) + 1
      /\ \A i \in DOMAIN s : i \in DOMAIN t
      /\ Len(s) + 1 \in DOMAIN t
  BY <1>1 DEF t
<1>3. Range(t) = Range(s) \cup {x}
  BY <1>1, <1>2 DEF t, Range
<1>4. \A y \in {Request, Answer, Refusal} : y \notin Messages /\ y # Blank
  BY Numbers
<1> QED BY <1>3, <1>4 DEF Frames, t

\* A worker's step leaves the others as they are.
LEMMA OthersPaired ==
    ASSUME PairInv, NEW c \in Clients, Worker(c), NEW d \in Clients, d # c,
           d \in online', d \notin late'
    PROVE  PairedAt(d)'
<1>1. TypeOK /\ Locally(c)
  BY WorkerIsLocal DEF PairInv, OrderInv, Base
<1>2. /\ UNCHANGED <<at, framed, given, late>> /\ d \in online
      /\ worker'[d] = worker[d] /\ buffer'[d] = buffer[d] /\ unlocked'[d] = unlocked[d]
      /\ got'[d] = got[d] \/ got'[d] = Append(got[d], Refusal)
  BY <1>1 DEF Locally
<1>3. PairedAt(d)
  BY <1>2 DEF PairInv, Paired
<1>4. Frames(got'[d]) = Frames(got[d])
  <2>1. got[d] \in Seq(Contents) /\ Refusal \in Contents
    BY <1>1, Numbers DEF TypeOK
  <2>2. Frames(Append(got[d], Refusal)) = Frames(got[d])
    BY <2>1, FramesMore
  <2> QED BY <1>2, <2>2
<1>5. Frames(got[d])' = Frames(got'[d])
  BY DEF Frames, Messages, Blank
<1> QED BY <1>2, <1>3, <1>4, <1>5 DEF PairedAt, Pending, Framed, Answer

\* The worker's own client.
LEMMA OwnPaired ==
    ASSUME PairInv, NEW c \in Clients, Worker(c), c \in online', c \notin late'
    PROVE  PairedAt(c)'
<1>1. TypeOK /\ Locally(c)
  BY WorkerIsLocal DEF PairInv, OrderInv, Base
<1>2. UNCHANGED <<at, framed, given, late>> /\ c \in online
  BY <1>1 DEF Locally
<1>3. PairedAt(c)
  BY <1>2 DEF PairInv, Paired
<1>4. /\ buffer \in [Clients -> Contents] /\ unlocked \in [Clients -> BOOLEAN]
      /\ got \in [Clients -> Seq(Contents)] /\ worker \in [Clients -> Steps]
      /\ got[c] \in Seq(Contents) /\ given[c] \subseteq Messages
  BY <1>1 DEF TypeOK
<1>5. Frames(got[c])' = Frames(got'[c])
  BY DEF Frames, Messages, Blank
<1> DEFINE Goal ==
       /\ Framed(c) => worker'[c] = "wait" /\ ~unlocked'[c]
       /\ worker'[c] \in Early => given[c] = {}
       /\ worker'[c] = "answer" => buffer'[c] = Answer
       /\ unlocked'[c] => worker'[c] \notin Early \cup {"send", "clear"}
       /\ worker'[c] = "send" \/ (worker'[c] = "wait" /\ (unlocked'[c] \/ Framed(c))) =>
             buffer'[c] \in given[c] /\ Frames(got'[c]) = given[c] \ {buffer'[c]}
       /\ ~(worker'[c] = "send" \/ (worker'[c] = "wait" /\ (unlocked'[c] \/ Framed(c)))) =>
             Frames(got'[c]) = given[c]
<1>6. SUFFICES Goal
  BY <1>2, <1>5 DEF PairedAt, Pending, Framed, Answer
<1> USE DEF Step, Early, PairedAt, Pending
<1>7. CASE Start(c)
  BY <1>3, <1>4, <1>7 DEF Start
<1>8. ASSUME NEW whole \in BOOLEAN, Receive(c, whole) PROVE Goal
  BY <1>3, <1>4, <1>8 DEF Receive
<1>9. CASE ParseGood(c)
  BY <1>3, <1>4, <1>9 DEF ParseGood
<1>10. CASE ParseNotFound(c)
  <2>1. /\ worker[c] = "parse" /\ worker'[c] = "leave" /\ unlocked' = unlocked
        /\ got'[c] = Append(got[c], Refusal)
    BY <1>2, <1>4, <1>10 DEF ParseNotFound
  <2>2. Frames(got'[c]) = Frames(got[c])
    BY <1>4, <2>1, FramesMore, Numbers
  <2> QED BY <1>3, <2>1, <2>2
<1>11. CASE ParseError(c)
  <2>1. /\ worker[c] = "parse" /\ worker'[c] = "leave" /\ unlocked' = unlocked
        /\ got'[c] = got[c] \/ got'[c] = Append(got[c], Refusal)
    BY <1>2, <1>4, <1>11 DEF ParseError
  <2>2. Frames(got'[c]) = Frames(got[c])
    BY <1>4, <2>1, FramesMore, Numbers
  <2> QED BY <1>3, <2>1, <2>2
<1>12. CASE ParseOverwritten(c)
  BY <1>3, <1>4, <1>12 DEF ParseOverwritten
<1>13. CASE Wait(c)
  BY <1>3, <1>4, <1>13 DEF Wait
<1>14. CASE Send(c)
  <2>1. /\ worker[c] \in {"answer", "send"} /\ worker'[c] = "clear"
        /\ unlocked' = unlocked /\ got'[c] = Append(got[c], buffer[c])
    BY <1>2, <1>4, <1>14 DEF Send
  <2>2. CASE worker[c] = "answer"
    <3>1. buffer[c] = Answer /\ ~Framed(c) /\ ~unlocked[c]
      BY <1>3, <2>2
    <3>2. Frames(got'[c]) = Frames(got[c])
      BY <1>4, <2>1, <3>1, FramesMore, Numbers
    <3> QED BY <1>3, <2>1, <2>2, <3>1, <3>2
  <2>3. CASE worker[c] = "send"
    <3>1. buffer[c] \in given[c] /\ Frames(got[c]) = given[c] \ {buffer[c]}
          /\ ~Framed(c) /\ ~unlocked[c]
      BY <1>3, <2>3
    <3>2. Frames(got'[c]) = Frames(got[c]) \cup {buffer[c]}
      BY <1>4, <2>1, <3>1, FramesMore, Numbers
    <3>3. Frames(got'[c]) = given[c]
      BY <3>1, <3>2
    <3> QED BY <2>1, <3>1, <3>3
  <2> QED BY <2>1, <2>2, <2>3
<1>15. CASE Clear(c)
  BY <1>3, <1>4, <1>15 DEF Clear
<1>16. CASE CountRead(c) \/ CountDown(c)
  BY <1>3, <1>4, <1>16 DEF CountRead, CountDown
<1>17. CASE FreeBuffer(c) \/ Unlink(c)
  BY <1>3, <1>4, <1>17 DEF FreeBuffer, Unlink
<1> QED
  BY <1>7, <1>8, <1>9, <1>10, <1>11, <1>12, <1>13, <1>14, <1>15, <1>16, <1>17
  DEF Worker

\* MonitorMain gives the new client a worker; nothing else changes.
LEMMA MonitorPaired ==
    ASSUME PairInv, NEW c \in Clients, Accept(c) \/ CountUp \/ AddClient
    PROVE  Paired'
<1>1. UNCHANGED <<buffer, unlocked, online, got, at, framed, given, late>>
  BY DEF Accept, CountUp, AddClient, jobVars
<1> SUFFICES ASSUME NEW d \in Clients, d \in online, d \notin late PROVE PairedAt(d)'
  BY <1>1 DEF Paired
<1>2. PairedAt(d)
  BY DEF PairInv, Paired
<1>3. Frames(got[d])' = Frames(got[d])
  BY <1>1 DEF Frames, Messages, Blank
<1>4. CASE worker'[d] = worker[d]
  BY <1>1, <1>2, <1>3, <1>4 DEF PairedAt, Pending, Framed, Answer
<1>5. CASE worker'[d] # worker[d]
  <2>1. worker[d] = "none" /\ worker'[d] = "start"
    BY <1>5 DEF Accept, CountUp, AddClient, PairInv, OrderInv, Base, TypeOK, Listed
  <2> QED BY <1>1, <1>2, <1>3, <2>1 DEF PairedAt, Pending, Framed, Early
<1> QED BY <1>4, <1>5

\* MonitorMessage: a frame made for a waiting client is pending, one made for
\* another makes the client late, and the signal follows the frame.
LEMMA MessagePaired ==
    ASSUME PairInv, fate = "running", Distribute \/ MakeFrame \/ Unlock
    PROVE  Paired'
<1>0. TypeOK /\ Listed /\ Saved /\ Walk /\ Paired
  BY DEF PairInv, OrderInv, Base
<1>1. UNCHANGED <<worker, online, got>>
  BY DEF Distribute, MakeFrame, Unlock
<1>2. late \subseteq late'
  BY DEF Distribute, MakeFrame, Unlock
<1> SUFFICES ASSUME NEW d \in Clients, d \in online, d \notin late' PROVE PairedAt(d)'
  BY <1>1 DEF Paired
<1>3. PairedAt(d) /\ d # End
  BY <1>0, <1>2, LoggerAssumption DEF Paired
<1>4. Frames(got[d])' = Frames(got[d])
  BY <1>1 DEF Frames, Messages, Blank
<1>5. CASE Distribute
  <2>1. UNCHANGED <<buffer, unlocked, given>> /\ at = End /\ ~framed
    BY <1>0, <1>5 DEF Distribute, Listed
  <2>2. ~framed'
    <3>1. CASE count > 0
      BY <1>5, <3>1 DEF Distribute, GoTo
    <3>2. CASE ~(count > 0)
      BY <1>5, <2>1, <3>2 DEF Distribute
    <3> QED BY <3>1, <3>2
  <2> QED BY <1>1, <1>3, <1>4, <2>1, <2>2 DEF PairedAt, Pending, Framed, Answer
<1>6. CASE MakeFrame
  <2>1. /\ UNCHANGED <<unlocked, at, message>> /\ at # End /\ ~framed /\ framed' = TRUE
        /\ buffer' = [buffer EXCEPT ![at] = message]
        /\ given' = [given EXCEPT ![at] = @ \cup {message}]
        /\ late' = IF worker[at] = "wait" /\ ~unlocked[at] THEN late
                   ELSE late \cup {at}
    BY <1>6 DEF MakeFrame
  <2>2. at \in Clients /\ message \notin given[at]
        /\ buffer \in [Clients -> Contents] /\ given \in [Clients -> SUBSET Messages]
    BY <1>0, <2>1 DEF TypeOK, Walk
  <2>3. CASE d = at
    <3>1. worker[d] = "wait" /\ ~unlocked[d] /\ ~Pending(d)
      BY <2>1, <2>3 DEF Pending, Framed
    <3>2. Frames(got[d]) = given[d] /\ message \notin given[d]
      BY <1>3, <2>2, <2>3, <3>1 DEF PairedAt
    <3>3. buffer'[d] = message /\ given'[d] = given[d] \cup {message}
      BY <2>1, <2>2, <2>3
    <3>4. Frames(got[d]) = given'[d] \ {buffer'[d]} /\ buffer'[d] \in given'[d]
      BY <3>2, <3>3
    <3> QED BY <1>1, <1>4, <2>1, <2>3, <3>1, <3>4 DEF PairedAt, Pending, Framed, Early, Answer
  <2>4. CASE d # at
    <3>1. buffer'[d] = buffer[d] /\ given'[d] = given[d]
      BY <2>1, <2>2, <2>4
    <3> QED BY <1>1, <1>3, <1>4, <2>1, <2>4, <3>1 DEF PairedAt, Pending, Framed, Answer
  <2> QED BY <2>3, <2>4
<1>7. CASE Unlock
  <2>1. /\ UNCHANGED <<buffer, given>> /\ framed /\ at # End
        /\ unlocked' = [unlocked EXCEPT ![at] = TRUE]
    BY <1>0, <1>7 DEF Unlock, Listed
  <2>2. at \in Clients /\ unlocked \in [Clients -> BOOLEAN]
    BY <1>0, <2>1 DEF TypeOK
  <2>3. CASE d = at
    <3>1. Framed(d)
      BY <2>1, <2>3 DEF Framed
    <3>2. worker[d] = "wait" /\ Pending(d)
      BY <1>3, <3>1 DEF PairedAt, Pending
    <3>3. worker[at] # "freed"
      BY <2>3, <3>2
    <3>4. framed' = FALSE
      BY <1>7, <3>3 DEF Unlock, GoTo
    <3>5. unlocked'[d] = TRUE
      BY <2>1, <2>2, <2>3
    <3> QED BY <1>1, <1>3, <1>4, <2>1, <3>2, <3>4, <3>5 DEF PairedAt, Pending, Framed, Early
  <2>4. CASE d # at
    <3>1. unlocked'[d] = unlocked[d]
      BY <2>1, <2>2, <2>4
    <3>2. framed' = FALSE \/ at' = at
      BY <1>7 DEF Unlock, GoTo
    <3> QED BY <1>1, <1>3, <1>4, <2>1, <2>4, <3>1, <3>2 DEF PairedAt, Pending, Framed, Answer
  <2> QED BY <2>3, <2>4
<1> QED BY <1>5, <1>6, <1>7

\* A client that waited, with nothing pending, whenever a frame was made for
\* it misses none of its frames but perhaps the last, which its worker has
\* yet to send, and gets no zeros: buffer and signal are not guarded
\* together, but then they cannot part.
THEOREM WaitingClientGetsAll == Spec => []WaitingGetsAll
<1>1. Init => PairInv
  <2> SUFFICES ASSUME Init PROVE Paired
    BY OrderInit DEF PairInv
  <2>1. \A c \in Clients : /\ worker[c] = "none" /\ given[c] = {} /\ got[c] = <<>>
                           /\ ~unlocked[c] /\ ~framed
    BY DEF Init
  <2>2. Frames(<<>>) = {}
    BY DEF Frames, Range
  <2> QED BY <2>1, <2>2 DEF Paired, PairedAt, Pending, Framed, Early
<1>2. PairInv /\ [Next]_vars => PairInv'
  <2> SUFFICES ASSUME PairInv, [Next]_vars PROVE Paired'
    BY OrderStep DEF PairInv
  <2>1. ASSUME UNCHANGED <<worker, buffer, unlocked, got, jobVars>>, online' \subseteq online
        PROVE  Paired'
    <3>1. UNCHANGED <<at, framed, given, late>>
      BY <2>1 DEF jobVars
    <3>2. \A d \in Clients : Frames(got[d])' = Frames(got[d])
      BY <2>1 DEF Frames, Messages, Blank
    <3> QED BY <2>1, <3>1, <3>2 DEF PairInv, Paired, PairedAt, Pending, Framed, Answer
  <2>2. CASE UNCHANGED vars
    BY <2>1, <2>2 DEF vars
  <2>3. ASSUME NEW c \in Clients, Disconnect(c) PROVE Paired'
    BY <2>1, <2>3 DEF Disconnect
  <2>4. ASSUME NEW c \in Clients, Worker(c) PROVE Paired'
    BY <2>4, OwnPaired, OthersPaired DEF Paired
  <2>5. ASSUME NEW c \in Clients, Accept(c) PROVE Paired'
    BY <2>5, MonitorPaired
  <2>6. CASE CountUp \/ AddClient
    <3>1. PICK c \in Clients : TRUE
      BY <2>6 DEF CountUp, AddClient, TypeOK, PairInv, OrderInv, Base, Listed
    <3> QED BY <2>6, <3>1, MonitorPaired
  <2>7. CASE fate = "running" /\ (Distribute \/ MakeFrame \/ Unlock)
    BY <2>7, MessagePaired
  <2> QED BY <2>2, <2>3, <2>4, <2>5, <2>6, <2>7 DEF Next
<1>3. PairInv => WaitingGetsAll
  <2> SUFFICES ASSUME PairInv, NEW c \in Clients \ late, c \in online
               PROVE  \/ Frames(got[c]) = given[c]
                      \/ \E m \in given[c] : /\ \A n \in given[c] : n <= m
                                             /\ Frames(got[c]) = given[c] \ {m}
    BY DEF WaitingGetsAll
  <2>1. PairedAt(c) /\ Rising /\ given[c] \subseteq Messages
    BY DEF PairInv, Paired, OrderInv, Base, TypeOK
  <2>2. CASE Pending(c)
    <3>1. buffer[c] \in given[c] /\ Frames(got[c]) = given[c] \ {buffer[c]}
      BY <2>1, <2>2 DEF PairedAt
    <3>2. \A n \in given[c] : n <= buffer[c]
      BY <2>1, <3>1 DEF Rising
    <3> QED BY <3>1, <3>2
  <2>3. CASE ~Pending(c)
    BY <2>1, <2>3 DEF PairedAt
  <2> QED BY <2>2, <2>3
<1> QED BY <1>1, <1>2, <1>3, PTL DEF Spec
=============================================================================
