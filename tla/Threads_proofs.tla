--------------------------- MODULE Threads_proofs ---------------------------
(***************************************************************************)
(* Proofs about dpride's threads: what PacketQueues says of the buffers    *)
(* they pass around, for every size of the pool, and what CommandLoop says *)
(* of the main thread and its signal, for any commands and number of       *)
(* writes.                                                                 *)
(***************************************************************************)
EXTENDS PacketQueues, CommandLoop, SequenceTheorems, TLAPS

(***************************************************************************)
(* What Append and Tail do to the elements of a queue.                     *)
(***************************************************************************)
\* The elements of an empty queue and of a queue of S.
LEMMA ElemsType ==
    ASSUME NEW S, NEW s \in Seq(S)
    PROVE  /\ Elems(s) \subseteq S
           /\ s = <<>> <=> Elems(s) = {}
  <1>1. DOMAIN s = 1 .. Len(s) /\ Len(s) \in Nat
    BY LenProperties
  <1>2. Elems(s) \subseteq S
    BY <1>1, ElementOfSeq DEF Elems
  <1>3. s = <<>> => Elems(s) = {}
    BY <1>1, EmptySeq DEF Elems
  <1>4. ASSUME s # <<>> PROVE Elems(s) # {}
    <2>1. 1 \in 1 .. Len(s)
      BY <1>1, <1>4, EmptySeq
    <2>2. s[1] \in Elems(s)
      BY <1>1, <2>1 DEF Elems
    <2>. QED BY <2>2
  <1>. QED BY <1>2, <1>3, <1>4

\* Enqueue of a buffer that is not in the queue adds just that buffer.
LEMMA AppendElems ==
    ASSUME NEW S, NEW s \in Seq(S), NEW e \in S
    PROVE  /\ Append(s, e) \in Seq(S)
           /\ Elems(Append(s, e)) = Elems(s) \cup {e}
           /\ Distinct(s) /\ e \notin Elems(s) => Distinct(Append(s, e))
  <1> DEFINE t == Append(s, e)
  <1>1. /\ t \in Seq(S)
        /\ Len(t) = Len(s) + 1
        /\ \A i \in 1 .. Len(s) : t[i] = s[i]
        /\ t[Len(s) + 1] = e
    BY AppendProperties
  <1>2. DOMAIN s = 1 .. Len(s) /\ DOMAIN t = 1 .. Len(t) /\ Len(s) \in Nat
    BY <1>1, LenProperties
  <1>3. DOMAIN t = DOMAIN s \cup {Len(s) + 1} /\ Len(s) + 1 \notin DOMAIN s
    BY <1>1, <1>2
  <1> HIDE DEF t
  <1>4. Elems(t) = Elems(s) \cup {e}
    BY <1>1, <1>2, <1>3 DEF Elems
  <1>5. ASSUME Distinct(s), e \notin Elems(s) PROVE Distinct(t)
    BY <1>1, <1>2, <1>3, <1>5 DEF Distinct, Elems
  <1>. QED BY <1>1, <1>4, <1>5 DEF t

\* Dequeue takes out just the head.
LEMMA TailElems ==
    ASSUME NEW S, NEW s \in Seq(S), s # <<>>, Distinct(s)
    PROVE  /\ Head(s) \in Elems(s)
           /\ Tail(s) \in Seq(S)
           /\ Elems(Tail(s)) = Elems(s) \ {Head(s)}
           /\ Distinct(Tail(s))
  <1> DEFINE t == Tail(s)
  <1>1. /\ t \in Seq(S)
        /\ Len(t) = Len(s) - 1
        /\ \A i \in 1 .. Len(t) : t[i] = s[i + 1]
    BY HeadTailProperties
  <1>2. DOMAIN s = 1 .. Len(s) /\ DOMAIN t = 1 .. Len(t) /\ Len(s) \in Nat \ {0}
    BY <1>1, LenProperties, EmptySeq
  <1>3. Head(s) = s[1]
    OBVIOUS
  <1> HIDE DEF t
  <1>4. \A i \in DOMAIN t : i + 1 \in DOMAIN s /\ i + 1 # 1 /\ t[i] = s[i + 1]
    BY <1>1, <1>2
  <1>5. \A j \in DOMAIN s : j # 1 => j - 1 \in DOMAIN t /\ t[j - 1] = s[j]
    BY <1>1, <1>2
  <1>6. s[1] \in Elems(s) /\ 1 \in DOMAIN s
    BY <1>2 DEF Elems
  <1>7. Elems(t) \subseteq Elems(s) \ {s[1]}
    BY <1>4, <1>6 DEF Elems, Distinct
  <1>8. Elems(s) \ {s[1]} \subseteq Elems(t)
    BY <1>5 DEF Elems
  <1>9. Distinct(t)
    <2> SUFFICES ASSUME NEW i \in DOMAIN t, NEW j \in DOMAIN t, t[i] = t[j]
                 PROVE  i = j
      BY DEF Distinct
    <2>1. i + 1 = j + 1
      BY <1>4 DEF Distinct
    <2>. QED BY <2>1, <1>2
  <1>. QED BY <1>1, <1>3, <1>6, <1>7, <1>8, <1>9 DEF t

(***************************************************************************)
(* The three ways a step of PacketQueues can move a buffer.                *)
(***************************************************************************)
Takes(h, q) ==
    /\ hold[h] = NoBuffer
    /\ ~IsEmpty(q)
    /\ hold' = [hold EXCEPT ![h] = Head(queue[q])]
    /\ queue' = [queue EXCEPT ![q] = Tail(@)]
    /\ UNCHANGED leaked

Puts(h, q) ==
    /\ hold[h] # NoBuffer
    /\ Enqueue(h, q)
    /\ UNCHANGED leaked

Leaks ==
    /\ hold["push"] # NoBuffer
    /\ leaked' = leaked \cup {hold["push"]}
    /\ hold' = [hold EXCEPT !["push"] = NoBuffer]
    /\ UNCHANGED queue

Placed == TypeOK /\ NoSharing /\ Conserved

LEMMA NoBufferIsNone == NoBuffer \notin Buffers
  BY PoolAssumption DEF NoBuffer, Buffers

\* Dequeue keeps the buffers apart and loses none.
LEMMA TakesPlaced ==
    ASSUME NEW h \in Holders, NEW q \in QueueNames, Placed, TypeOK',
           Takes(h, q)
    PROVE  NoSharing' /\ Conserved'
  <1> USE DEF Placed
  <1> DEFINE b == Head(queue[q])
  <1>1. queue \in [QueueNames -> Seq(Buffers)] /\ queue[q] # <<>>
    BY DEF TypeOK, Takes, IsEmpty
  <1>2. /\ b \in Elems(queue[q])
        /\ Elems(Tail(queue[q])) = Elems(queue[q]) \ {b}
        /\ Distinct(Tail(queue[q]))
    BY <1>1, TailElems DEF NoSharing
  <1>3. \A p \in QueueNames :
           /\ Elems(queue'[p]) = Elems(queue[p]) \ {b}
           /\ Distinct(queue'[p])
    <2> TAKE p \in QueueNames
    <2>1. CASE p = q
      BY <2>1, <1>1, <1>2 DEF Takes
    <2>2. CASE p # q
      <3>1. queue'[p] = queue[p]
        BY <2>2, <1>1 DEF Takes
      <3>. QED BY <3>1, <2>2, <1>2 DEF NoSharing
    <2>. QED BY <2>1, <2>2
  <1>4. hold \in [Holders -> Buffers \cup {NoBuffer}]
    BY DEF TypeOK
  <1>5. \A g \in Holders : hold'[g] = IF g = h THEN b ELSE hold[g]
    BY <1>4 DEF Takes
  <1>6. b \in Buffers /\ b # NoBuffer /\ hold[h] = NoBuffer /\ leaked' = leaked
    BY <1>1, <1>2, ElemsType, NoBufferIsNone DEF Takes
  <1>7. /\ \A g \in Holders : hold[g] # b
        /\ b \notin leaked
        /\ \A p \in QueueNames : p # q => b \notin Elems(queue[p])
    BY <1>2 DEF NoSharing
  <1> HIDE DEF b
  <1>8. NoSharing'
    <2>1. \A p \in QueueNames : Distinct(queue'[p])
      BY <1>3
    <2>2. \A p, r \in QueueNames :
             p # r => Elems(queue'[p]) \cap Elems(queue'[r]) = {}
      BY <1>3 DEF NoSharing
    <2>3. \A g \in Holders, p \in QueueNames : hold'[g] \notin Elems(queue'[p])
      BY <1>3, <1>5 DEF NoSharing
    <2>4. \A g, k \in Holders :
             hold'[g] = hold'[k] => g = k \/ hold'[g] = NoBuffer
      BY <1>5, <1>7 DEF NoSharing
    <2>5. \A c \in leaked' :
             /\ \A p \in QueueNames : c \notin Elems(queue'[p])
             /\ \A g \in Holders : hold'[g] # c
      BY <1>3, <1>5, <1>6, <1>7 DEF NoSharing
    <2>. QED BY <2>1, <2>2, <2>3, <2>4, <2>5 DEF NoSharing
  <1>9. Conserved'
    <2> SUFFICES ASSUME NEW c \in Buffers
                 PROVE  \/ \E p \in QueueNames : c \in Elems(queue'[p])
                        \/ \E g \in Holders : hold'[g] = c
                        \/ c \in leaked'
      BY DEF Conserved, Buffers
    <2>1. CASE c = b
      BY <2>1, <1>5
    <2>2. CASE c # b
      BY <2>2, <1>3, <1>5, <1>6, NoBufferIsNone DEF Conserved
    <2>. QED BY <2>1, <2>2
  <1>. QED BY <1>8, <1>9

\* Enqueue keeps the buffers apart and loses none.
LEMMA PutsPlaced ==
    ASSUME NEW h \in Holders, NEW q \in QueueNames, Placed, TypeOK',
           Puts(h, q)
    PROVE  NoSharing' /\ Conserved'
  <1> USE DEF Placed
  <1> DEFINE b == hold[h]
  <1>1. /\ queue \in [QueueNames -> Seq(Buffers)]
        /\ hold \in [Holders -> Buffers \cup {NoBuffer}]
    BY DEF TypeOK
  <1>2. b \in Buffers /\ b # NoBuffer /\ leaked' = leaked
    BY <1>1 DEF Puts
  <1>3. \A g \in Holders : hold'[g] = IF g = h THEN NoBuffer ELSE hold[g]
    BY <1>1 DEF Puts, Enqueue
  <1>4. /\ \A p \in QueueNames : b \notin Elems(queue[p])
        /\ \A g \in Holders : hold[g] = b => g = h
        /\ b \notin leaked
    BY <1>2 DEF NoSharing
  <1>5. \A p \in QueueNames :
           /\ Elems(queue'[p]) =
                  IF p = q THEN Elems(queue[p]) \cup {b} ELSE Elems(queue[p])
           /\ Distinct(queue'[p])
    <2> TAKE p \in QueueNames
    <2>1. queue'[p] = IF p = q THEN Append(queue[p], b) ELSE queue[p]
      BY <1>1 DEF Puts, Enqueue
    <2>2. Distinct(queue[p]) /\ queue[p] \in Seq(Buffers)
      BY <1>1 DEF NoSharing
    <2>3. /\ Elems(Append(queue[p], b)) = Elems(queue[p]) \cup {b}
          /\ Distinct(Append(queue[p], b))
      BY <2>2, <1>2, <1>4, AppendElems
    <2>. QED BY <2>1, <2>2, <2>3
  <1> HIDE DEF b
  <1>6. NoSharing'
    <2>1. \A p \in QueueNames : Distinct(queue'[p])
      BY <1>5
    <2>2. \A p, r \in QueueNames :
             p # r => Elems(queue'[p]) \cap Elems(queue'[r]) = {}
      <3> TAKE p \in QueueNames, r \in QueueNames
      <3> HAVE p # r
      <3>1. Elems(queue[p]) \cap Elems(queue[r]) = {}
        BY DEF NoSharing
      <3>. QED BY <3>1, <1>4, <1>5
    <2>3. \A g \in Holders, p \in QueueNames : hold'[g] \notin Elems(queue'[p])
      <3> TAKE g \in Holders, p \in QueueNames
      <3>1. CASE g = h
        <4>1. Elems(queue[p]) \subseteq Buffers
          BY <1>1, ElemsType
        <4>. QED BY <3>1, <4>1, <1>2, <1>3, <1>5, NoBufferIsNone
      <3>2. CASE g # h
        BY <3>2, <1>3, <1>4, <1>5 DEF NoSharing
      <3>. QED BY <3>1, <3>2
    <2>4. \A g, k \in Holders :
             hold'[g] = hold'[k] => g = k \/ hold'[g] = NoBuffer
      BY <1>3 DEF NoSharing
    <2>5. \A c \in leaked' :
             /\ \A p \in QueueNames : c \notin Elems(queue'[p])
             /\ \A g \in Holders : hold'[g] # c
      <3>1. leaked \subseteq Buffers
        BY DEF TypeOK
      <3> TAKE c \in leaked'
      <3>2. c \in leaked /\ c \in Buffers /\ c # b
        BY <3>1, <1>2, <1>4
      <3>3. /\ \A p \in QueueNames : c \notin Elems(queue[p])
            /\ \A g \in Holders : hold[g] # c
        BY <3>2 DEF NoSharing
      <3>. QED BY <3>2, <3>3, <1>3, <1>5, NoBufferIsNone
    <2>. QED BY <2>1, <2>2, <2>3, <2>4, <2>5 DEF NoSharing
  <1>7. Conserved'
    <2> SUFFICES ASSUME NEW c \in Buffers
                 PROVE  \/ \E p \in QueueNames : c \in Elems(queue'[p])
                        \/ \E g \in Holders : hold'[g] = c
                        \/ c \in leaked'
      BY DEF Conserved, Buffers
    <2>1. CASE c = b
      BY <2>1, <1>5
    <2>2. CASE c # b
      <3>1. \A g \in Holders : hold[g] = c => hold'[g] = c
        BY <2>2, <1>3 DEF b
      <3>. QED BY <3>1, <1>2, <1>5 DEF Conserved
    <2>. QED BY <2>1, <2>2
  <1>. QED BY <1>6, <1>7

\* A buffer PushPacket gives up is nowhere else.
LEMMA LeaksPlaced ==
    ASSUME Placed, Leaks
    PROVE  NoSharing' /\ Conserved'
  <1> USE DEF Placed
  <1>1. /\ hold \in [Holders -> Buffers \cup {NoBuffer}]
        /\ queue \in [QueueNames -> Seq(Buffers)]
        /\ leaked \subseteq Buffers
        /\ "push" \in Holders
    BY DEF TypeOK, Holders
  <1>2. \A g \in Holders :
           hold'[g] = IF g = "push" THEN NoBuffer ELSE hold[g]
    BY <1>1 DEF Leaks
  <1>3. /\ queue' = queue
        /\ leaked' = leaked \cup {hold["push"]}
        /\ hold["push"] \in Buffers
        /\ hold["push"] # NoBuffer
    BY <1>1 DEF Leaks
  <1>4. \A p \in QueueNames : Elems(queue[p]) \subseteq Buffers
    BY <1>1, ElemsType
  <1>5. NoSharing'
    <2>1. \A g \in Holders, p \in QueueNames : hold'[g] \notin Elems(queue'[p])
      BY <1>2, <1>3, <1>4, NoBufferIsNone DEF NoSharing
    <2>2. \A g, k \in Holders :
             hold'[g] = hold'[k] => g = k \/ hold'[g] = NoBuffer
      BY <1>2 DEF NoSharing
    <2>3. \A c \in leaked' :
             /\ \A p \in QueueNames : c \notin Elems(queue'[p])
             /\ \A g \in Holders : hold'[g] # c
      BY <1>1, <1>2, <1>3, NoBufferIsNone DEF NoSharing
    <2>. QED BY <2>1, <2>2, <2>3, <1>3 DEF NoSharing
  <1>6. Conserved'
    BY <1>1, <1>2, <1>3 DEF Conserved, Buffers
  <1>. QED BY <1>5, <1>6

(***************************************************************************)
(* The invariant.                                                          *)
(***************************************************************************)
LEMMA InitIInv == Init => IInv
  <1> SUFFICES ASSUME Init PROVE IInv
    OBVIOUS
  <1>1. /\ queue \in [QueueNames -> Seq(Buffers)]
        /\ queue["free"] = [i \in Buffers |-> i]
        /\ \A q \in QueueNames : q # "free" => queue[q] = <<>>
    <2>1. [i \in Buffers |-> i] \in Seq(Buffers)
      BY PoolAssumption DEF Buffers
    <2>. QED BY <2>1 DEF Init, QueueNames
  <1>2. DOMAIN queue["free"] = Buffers /\ Elems(queue["free"]) = Buffers
    BY <1>1 DEF Elems
  <1>3. \A q \in QueueNames : q # "free" => DOMAIN queue[q] = {}
    BY <1>1
  <1>4. TypeOK
    <2>1. pc \in [Threads -> ReadSteps \cup ActionSteps \cup CommandSteps]
      BY DEF Init, Threads, ReadSteps, ActionSteps, CommandSteps
    <2>2. /\ pc["read"] \in ReadSteps
          /\ pc["action"] \in ActionSteps
          /\ pc["command"] \in CommandSteps
      BY DEF Init, Threads, ReadSteps, ActionSteps, CommandSteps
    <2>3. content \in [Buffers -> Contents]
      BY PoolAssumption DEF Init, Blank, Contents
    <2>4. handled \in Seq(1 .. MaxTelegrams) /\ received \in 0 .. MaxTelegrams
      BY PoolAssumption DEF Init
    <2>. QED BY <1>1, <2>1, <2>2, <2>3, <2>4 DEF Init, TypeOK
  <1>5. HandsMatchSteps
    BY DEF Init, HandsMatchSteps, Holders, Threads
  <1>6. NoSharing
    <2>1. \A h \in Holders : hold[h] = NoBuffer
      BY DEF Init
    <2>2. \A q \in QueueNames : Distinct(queue[q])
      BY <1>1, <1>2, <1>3 DEF Distinct
    <2>3. \A q \in QueueNames : Elems(queue[q]) \subseteq Buffers
      BY <1>1, ElemsType
    <2>4. \A q \in QueueNames : q # "free" => Elems(queue[q]) = {}
      BY <1>3 DEF Elems
    <2>. QED
      BY <2>1, <2>2, <2>3, <2>4, NoBufferIsNone DEF Init, NoSharing
  <1>7. Conserved
    BY <1>2 DEF Conserved, QueueNames
  <1>. QED BY <1>4, <1>5, <1>6, <1>7 DEF IInv

(***************************************************************************)
(* Every step is a move of at most one buffer along one of these paths.    *)
(***************************************************************************)
TakePaths ==
    {<<"read", "free">>, <<"push", "free">>, <<"action", "data">>,
     <<"action", "extra">>, <<"command", "response">>}
PutPaths ==
    {<<"read", "data">>, <<"read", "response">>, <<"read", "extra">>,
     <<"action", "free">>, <<"push", "data">>, <<"command", "free">>}

Moves ==
    \/ UNCHANGED <<queue, hold, leaked>>
    \/ \E m \in TakePaths : Takes(m[1], m[2])
    \/ \E m \in PutPaths : Puts(m[1], m[2])
    \/ Leaks

Sound == TypeOK' /\ HandsMatchSteps' /\ Moves

\* The type of the next state, by the way the step moves buffers.
LEMMA TakesType ==
    ASSUME TypeOK, NEW h \in Holders, NEW q \in QueueNames, Takes(h, q)
    PROVE  /\ queue' \in [QueueNames -> Seq(Buffers)]
           /\ hold' \in [Holders -> Buffers \cup {NoBuffer}]
           /\ hold'[h] # NoBuffer
           /\ \A g \in Holders : g # h => hold'[g] = hold[g]
  <1>1. /\ queue \in [QueueNames -> Seq(Buffers)]
        /\ hold \in [Holders -> Buffers \cup {NoBuffer}]
        /\ queue[q] # <<>>
    BY DEF TypeOK, Takes, IsEmpty
  <1>2. Head(queue[q]) \in Buffers /\ Tail(queue[q]) \in Seq(Buffers)
    BY <1>1, HeadTailProperties
  <1>. QED BY <1>1, <1>2, NoBufferIsNone DEF Takes

LEMMA PutsType ==
    ASSUME TypeOK, NEW h \in Holders, NEW q \in QueueNames, Puts(h, q)
    PROVE  /\ queue' \in [QueueNames -> Seq(Buffers)]
           /\ hold' \in [Holders -> Buffers \cup {NoBuffer}]
           /\ hold'[h] = NoBuffer
           /\ \A g \in Holders : g # h => hold'[g] = hold[g]
  <1>1. /\ queue \in [QueueNames -> Seq(Buffers)]
        /\ hold \in [Holders -> Buffers \cup {NoBuffer}]
        /\ hold[h] \in Buffers
    BY DEF TypeOK, Puts
  <1>2. Append(queue[q], hold[h]) \in Seq(Buffers)
    BY <1>1, AppendProperties
  <1>. QED BY <1>1, <1>2 DEF Puts, Enqueue

\* ReadThread.
LEMMA ReadThreadSound == ASSUME IInv, ReadThread PROVE Sound
  <1> USE DEF IInv, Threads, Holders, QueueNames
  <1>1. CASE ReadTest
    BY <1>1 DEF ReadTest, Test, Sound, Moves, TypeOK, HandsMatchSteps, ReadSteps
  <1>2. CASE ReadTake
    <2>1. CASE IsEmpty("free")
      BY <1>2, <2>1
      DEF ReadTake, Remove, Sound, Moves, TypeOK, HandsMatchSteps
    <2>2. CASE ~IsEmpty("free")
      <3>1. Takes("read", "free") /\ pc' = [pc EXCEPT !["read"] = "packet"]
        BY <1>2, <2>2 DEF ReadTake, Remove, Takes, HandsMatchSteps
      <3>2. TypeOK'
        BY <1>2, <2>2, <3>1, TakesType
        DEF ReadTake, Remove, TypeOK, ReadSteps
      <3>3. HandsMatchSteps'
        BY <3>1, TakesType DEF TypeOK, HandsMatchSteps
      <3>. QED BY <3>1, <3>2, <3>3 DEF Sound, Moves, TakePaths
    <2>. QED BY <2>1, <2>2
  <1>3. ASSUME NEW type \in {"none", "radio", "response", "event"},
               NEW c \in Contents, QueueByType(type, c),
               received' \in 0 .. MaxTelegrams
        PROVE  Sound
    <2>1. QueueOf(type) \in {"data", "response", "extra"}
      BY DEF QueueOf
    <2>2. Puts("read", QueueOf(type))
      BY <1>3 DEF QueueByType, Puts, HandsMatchSteps
    <2>3. TypeOK'
      BY <1>3, <2>1, <2>2, PutsType DEF QueueByType, TypeOK, ReadSteps
    <2>4. HandsMatchSteps'
      BY <1>3, <2>1, <2>2, PutsType DEF QueueByType, TypeOK, HandsMatchSteps
    <2>. QED BY <2>1, <2>2, <2>3, <2>4 DEF Sound, Moves, PutPaths
  <1>4. ASSUME NEW kind \in Kinds, ReadPacket(kind) PROVE Sound
    <2> DEFINE c == [kind |-> kind, n |-> IF TypeOf(kind) = "radio"
                                          THEN received + 1 ELSE 0]
    <2>1. TypeOf(kind) \in {"none", "radio", "response", "event"}
      BY DEF TypeOf, Kinds
    <2>2. received' \in 0 .. MaxTelegrams /\ c \in Contents
      BY <1>4, PoolAssumption DEF ReadPacket, TypeOK, Contents
    <2>3. QueueByType(TypeOf(kind), c)
      BY <1>4 DEF ReadPacket
    <2>. QED BY <2>1, <2>2, <2>3, <1>3
  <1>5. CASE ReadError
    <2>1. Garbage \in Contents /\ received' \in 0 .. MaxTelegrams
      BY <1>5, PoolAssumption DEF ReadError, Garbage, Contents, TypeOK
    <2>2. packetType \in {"none", "radio", "response", "event"}
      BY DEF TypeOK
    <2>3. QueueByType(packetType, Garbage)
      BY <1>5 DEF ReadError
    <2>. QED BY <2>1, <2>2, <2>3, <1>3
  <1>. QED BY <1>1, <1>2, <1>4, <1>5 DEF ReadThread

\* A removal by thread t, from step now to step next, is sound if it only
\* changes what t has in hand the way HandsMatchSteps says.
LEMMA RemoveSound ==
    ASSUME IInv,
           NEW t \in Threads, NEW m \in TakePaths, NEW next,
           Remove(t, m[1], m[2], next),
           hold[m[1]] = NoBuffer,
           t = "action" => next \in ActionSteps,
           t = "command" => next \in CommandSteps,
           t = "read" => next \in ReadSteps,
           HandsMatchSteps'
    PROVE  Sound
  <1> USE DEF IInv
  <1>1. m[1] \in Holders /\ m[2] \in QueueNames
    BY DEF TakePaths, Holders, QueueNames
  <1>2. CASE IsEmpty(m[2])
    BY <1>2 DEF Remove, Sound, Moves, TypeOK
  <1>3. CASE ~IsEmpty(m[2])
    <2>1. Takes(m[1], m[2]) /\ pc' = [pc EXCEPT ![t] = next]
      BY <1>3 DEF Remove, Takes
    <2>2. TypeOK'
      BY <1>1, <1>3, <2>1, TakesType DEF Remove, TypeOK, Threads
    <2>. QED BY <2>1, <2>2 DEF Sound, Moves
  <1>. QED BY <1>2, <1>3

\* ActionThread.
LEMMA ActionThreadSound == ASSUME IInv, ActionThread PROVE Sound
  <1> USE DEF IInv, Threads, Holders, QueueNames, ActionSteps
  <1>1. CASE DataTest \/ PushTest \/ ExtraTest
    BY <1>1
    DEF DataTest, PushTest, ExtraTest, Test, Sound, Moves, TypeOK,
        HandsMatchSteps
  <1>2. ASSUME NEW q \in {"data", "extra"}, NEW next \in {"job", "extraRelease"},
               pc["action"] \in {"dataTake", "extraTake"},
               Remove("action", "action", q, next)
        PROVE  Sound
    <2>1. HandsMatchSteps'
      <3>1. CASE IsEmpty(q)
        BY <1>2, <3>1 DEF Remove, HandsMatchSteps
      <3>2. CASE ~IsEmpty(q)
        <4>1. Takes("action", q) /\ pc' = [pc EXCEPT !["action"] = next]
          BY <1>2, <3>2 DEF Remove, Takes, HandsMatchSteps
        <4>. QED BY <1>2, <4>1, TakesType DEF TypeOK, HandsMatchSteps
      <3>. QED BY <3>1, <3>2
    <2>2. <<"action", q>> \in TakePaths /\ hold["action"] = NoBuffer
      BY <1>2 DEF TakePaths, HandsMatchSteps
    <2>. QED BY <1>2, <2>1, <2>2, RemoveSound
  <1>3. CASE MainJob
    <2>1. handled' \in Seq(1 .. MaxTelegrams)
      <3>1. hold["action"] \in Buffers /\ content \in [Buffers -> Contents]
        BY <1>3 DEF MainJob, TypeOK, HandsMatchSteps
      <3>2. content[hold["action"]].n \in 0 .. MaxTelegrams
        BY <3>1 DEF Contents
      <3> DEFINE n == content[hold["action"]].n
      <3>3. handled \in Seq(1 .. MaxTelegrams)
        BY DEF TypeOK
      <3>4. handled' = IF n > 0 THEN Append(handled, n) ELSE handled
        BY <1>3 DEF MainJob
      <3>5. n > 0 => n \in 1 .. MaxTelegrams
        BY <3>2, PoolAssumption
      <3> HIDE DEF n
      <3>. QED BY <3>3, <3>4, <3>5, AppendProperties
    <2>2. \E next \in {"push", "release"} :
             pc' = [pc EXCEPT !["action"] = next]
      BY <1>3 DEF MainJob
    <2>3. pc["action"] = "job" /\ UNCHANGED <<queue, hold, packetType, content,
                                             leaked, crashed, received>>
      BY <1>3 DEF MainJob
    <2>. QED BY <2>1, <2>2, <2>3 DEF Sound, Moves, TypeOK, HandsMatchSteps
  <1>4. CASE PushTake
    <2>1. HandsMatchSteps'
      <3>1. CASE IsEmpty("free")
        BY <1>4, <3>1 DEF PushTake, Remove, HandsMatchSteps
      <3>2. CASE ~IsEmpty("free")
        <4>1. Takes("push", "free") /\ pc' = [pc EXCEPT !["action"] = "assemble"]
          BY <1>4, <3>2 DEF PushTake, Remove, Takes, HandsMatchSteps
        <4>. QED BY <1>4, <4>1, TakesType DEF PushTake, TypeOK, HandsMatchSteps
      <3>. QED BY <3>1, <3>2
    <2>2. <<"push", "free">> \in TakePaths /\ hold["push"] = NoBuffer
      BY <1>4 DEF PushTake, TakePaths, HandsMatchSteps
    <2>. QED BY <1>4, <2>1, <2>2, RemoveSound DEF PushTake
  <1>5. CASE PushQueue
    <2>1. Puts("push", "data") /\ pc' = [pc EXCEPT !["action"] = "release"]
      BY <1>5 DEF PushQueue, Puts, HandsMatchSteps
    <2>2. Assembled \in Contents
      BY PoolAssumption DEF Assembled, Contents
    <2>3. TypeOK'
      BY <1>5, <2>1, <2>2, PutsType DEF PushQueue, TypeOK
    <2>4. HandsMatchSteps'
      BY <1>5, <2>1, PutsType DEF PushQueue, TypeOK, HandsMatchSteps
    <2>. QED BY <2>1, <2>3, <2>4 DEF Sound, Moves, PutPaths
  <1>6. CASE PushGiveUp
    <2>1. Leaks
      BY <1>6 DEF PushGiveUp, Leaks, HandsMatchSteps
    <2>2. TypeOK'
      BY <1>6, <2>1 DEF PushGiveUp, Leaks, TypeOK
    <2>3. HandsMatchSteps'
      BY <1>6 DEF PushGiveUp, TypeOK, HandsMatchSteps
    <2>. QED BY <2>1, <2>2, <2>3 DEF Sound, Moves
  <1>7. ASSUME NEW next \in {"data", "extra"},
               pc["action"] \in {"release", "extraRelease"},
               GiveBack("action", "action", next)
        PROVE  Sound
    <2>1. Puts("action", "free") /\ pc' = [pc EXCEPT !["action"] = next]
      BY <1>7 DEF GiveBack, Puts, HandsMatchSteps
    <2>2. Blank \in Contents
      BY PoolAssumption DEF Blank, Contents
    <2>3. TypeOK'
      BY <1>7, <2>1, <2>2, PutsType DEF GiveBack, TypeOK
    <2>4. HandsMatchSteps'
      BY <1>7, <2>1, PutsType DEF GiveBack, TypeOK, HandsMatchSteps
    <2>. QED BY <2>1, <2>3, <2>4 DEF Sound, Moves, PutPaths
  <1>. QED
    BY <1>1, <1>2, <1>3, <1>4, <1>5, <1>6, <1>7
    DEF ActionThread, DataTake, ExtraTake, DataRelease, ExtraRelease

\* The main thread.
LEMMA MainThreadSound == ASSUME IInv, MainThread PROVE Sound
  <1> USE DEF IInv, Threads, Holders, QueueNames, CommandSteps
  <1>1. CASE SendCommand
    BY <1>1 DEF SendCommand, Sound, Moves, TypeOK, HandsMatchSteps
  <1>2. CASE ResponseTest
    BY <1>2 DEF ResponseTest, Test, Sound, Moves, TypeOK, HandsMatchSteps
  <1>3. CASE ResponseTake
    <2>1. HandsMatchSteps'
      <3>1. CASE IsEmpty("response")
        BY <1>3, <3>1 DEF ResponseTake, Remove, HandsMatchSteps
      <3>2. CASE ~IsEmpty("response")
        <4>1. /\ Takes("command", "response")
              /\ pc' = [pc EXCEPT !["command"] = "release"]
          BY <1>3, <3>2 DEF ResponseTake, Remove, Takes, HandsMatchSteps
        <4>. QED
          BY <1>3, <4>1, TakesType DEF ResponseTake, TypeOK, HandsMatchSteps
      <3>. QED BY <3>1, <3>2
    <2>2. <<"command", "response">> \in TakePaths /\ hold["command"] = NoBuffer
      BY <1>3 DEF ResponseTake, TakePaths, HandsMatchSteps
    <2>. QED BY <1>3, <2>1, <2>2, RemoveSound DEF ResponseTake
  <1>4. CASE ResponseRelease
    <2>1. Puts("command", "free") /\ pc' = [pc EXCEPT !["command"] = "idle"]
      BY <1>4 DEF ResponseRelease, GiveBack, Puts, HandsMatchSteps
    <2>2. Blank \in Contents
      BY PoolAssumption DEF Blank, Contents
    <2>3. TypeOK'
      BY <1>4, <2>1, <2>2, PutsType DEF ResponseRelease, GiveBack, TypeOK
    <2>4. HandsMatchSteps'
      BY <1>4, <2>1, PutsType
      DEF ResponseRelease, GiveBack, TypeOK, HandsMatchSteps
    <2>. QED BY <2>1, <2>3, <2>4 DEF Sound, Moves, PutPaths
  <1>. QED BY <1>1, <1>2, <1>3, <1>4 DEF MainThread, GetResponse

(***************************************************************************)
(* The theorems.                                                           *)
(***************************************************************************)
LEMMA NextSound == ASSUME IInv, Next PROVE Sound
  BY ReadThreadSound, ActionThreadSound, MainThreadSound DEF Next

LEMMA NextIInv == IInv /\ [Next]_vars => IInv'
  <1> SUFFICES ASSUME IInv, [Next]_vars PROVE IInv'
    OBVIOUS
  <1>1. CASE Next
    <2>1. Sound /\ Placed
      BY <1>1, NextSound DEF Placed, IInv
    <2>2. NoSharing' /\ Conserved'
      <3>1. CASE UNCHANGED <<queue, hold, leaked>>
        BY <3>1 DEF IInv, NoSharing, Conserved, Buffers
      <3>2. ASSUME NEW m \in TakePaths, Takes(m[1], m[2])
            PROVE  NoSharing' /\ Conserved'
        <4>1. m[1] \in Holders /\ m[2] \in QueueNames
          BY DEF TakePaths, Holders, QueueNames
        <4>. QED BY <2>1, <3>2, <4>1, TakesPlaced DEF Sound
      <3>3. ASSUME NEW m \in PutPaths, Puts(m[1], m[2])
            PROVE  NoSharing' /\ Conserved'
        <4>1. m[1] \in Holders /\ m[2] \in QueueNames
          BY DEF PutPaths, Holders, QueueNames
        <4>. QED BY <2>1, <3>3, <4>1, PutsPlaced DEF Sound
      <3>4. CASE Leaks
        BY <2>1, <3>4, LeaksPlaced
      <3>. QED BY <2>1, <3>1, <3>2, <3>3, <3>4 DEF Sound, Moves
    <2>. QED BY <2>1, <2>2 DEF Sound, IInv
  <1>2. CASE UNCHANGED vars
    BY <1>2
    DEF vars, IInv, TypeOK, HandsMatchSteps, NoSharing, Conserved, IsEmpty,
        Buffers, Contents
  <1>. QED BY <1>1, <1>2

\* The inductive invariant holds in every behaviour.
THEOREM Invariance == Spec => []IInv
  BY InitIInv, NextIInv, PTL DEF Spec

\* Type correctness, for every size of the pool.
THEOREM TypeCorrect == Spec => []TypeOK
  <1>1. IInv => TypeOK
    BY DEF IInv
  <1>. QED BY <1>1, Invariance, PTL

\* A buffer is always in exactly one place, for every size of the pool:
\* neither the unlocked test of Dequeue nor PushPacket's second consumer of
\* FreeQueue can make two threads share one, and what is not queued or in a
\* thread's hands was given up by PushPacket.
THEOREM BuffersInOnePlace == Spec => []OnePlace
  <1>1. IInv => OnePlace
    BY DEF IInv, OnePlace
  <1>. QED BY <1>1, Invariance, PTL

(***************************************************************************)
(* Where Dequeue can meet a queue that has become empty.                   *)
(***************************************************************************)
LEMMA PutsFills ==
    ASSUME TypeOK, NEW h \in Holders, NEW q \in QueueNames, Puts(h, q)
    PROVE  /\ ~IsEmpty(q)'
           /\ \A p \in QueueNames : p # q => IsEmpty(p)' = IsEmpty(p)
  <1>1. queue \in [QueueNames -> Seq(Buffers)] /\ hold[h] \in Buffers
    BY DEF TypeOK, Puts
  <1>2. Append(queue[q], hold[h]) # <<>>
    BY <1>1, AppendProperties
  <1>. QED BY <1>1, <1>2 DEF Puts, Enqueue, IsEmpty

LEMMA GuardedStep == ASSUME IInv, Guarded, Next PROVE Guarded'
  <1> USE DEF Guarded, SingleConsumerSafe, FreeQueueRace, Threads, Holders,
              QueueNames
  <1>1. /\ TypeOK
        /\ HandsMatchSteps
        /\ queue \in [QueueNames -> Seq(Buffers)]
        /\ pc \in [Threads -> ReadSteps \cup ActionSteps \cup CommandSteps]
        /\ crashed = FALSE
    BY DEF IInv, TypeOK, Next
  <1>2. CASE ReadTest
    BY <1>1, <1>2 DEF ReadTest, Test, IsEmpty
  <1>3. CASE ReadTake
    BY <1>1, <1>3 DEF ReadTake, Remove, IsEmpty
  <1>4. ASSUME NEW type, NEW c, QueueByType(type, c) PROVE Guarded'
    <2>1. QueueOf(type) \in {"data", "response", "extra"}
      BY DEF QueueOf
    <2>2. Puts("read", QueueOf(type))
      BY <1>1, <1>4 DEF QueueByType, Puts, HandsMatchSteps
    <2>. QED BY <1>1, <1>4, <2>1, <2>2, PutsFills DEF QueueByType
  <1>5. CASE DataTest \/ PushTest \/ ExtraTest
    BY <1>1, <1>5 DEF DataTest, PushTest, ExtraTest, Test, IsEmpty
  <1>6. CASE DataTake \/ ExtraTake
    BY <1>1, <1>6 DEF DataTake, ExtraTake, Remove, IsEmpty
  <1>7. CASE MainJob
    BY <1>1, <1>7 DEF MainJob, IsEmpty
  <1>8. CASE PushTake
    BY <1>1, <1>8 DEF PushTake, Remove, IsEmpty
  <1>9. CASE PushQueue
    <2>1. Puts("push", "data")
      BY <1>1, <1>9 DEF PushQueue, Puts, HandsMatchSteps
    <2>. QED BY <1>1, <1>9, <2>1, PutsFills DEF PushQueue
  <1>10. CASE PushGiveUp
    BY <1>1, <1>10 DEF PushGiveUp, IsEmpty
  <1>11. CASE DataRelease \/ ExtraRelease
    <2>1. Puts("action", "free")
      BY <1>1, <1>11
      DEF DataRelease, ExtraRelease, GiveBack, Puts, HandsMatchSteps
    <2>. QED
      BY <1>1, <1>11, <2>1, PutsFills DEF DataRelease, ExtraRelease, GiveBack
  <1>12. CASE SendCommand \/ ResponseTest
    BY <1>1, <1>12 DEF SendCommand, ResponseTest, Test, IsEmpty
  <1>13. CASE ResponseTake
    BY <1>1, <1>13 DEF ResponseTake, Remove, IsEmpty
  <1>14. CASE ResponseRelease
    <2>1. Puts("command", "free")
      BY <1>1, <1>14 DEF ResponseRelease, GiveBack, Puts, HandsMatchSteps
    <2>. QED BY <1>1, <1>14, <2>1, PutsFills DEF ResponseRelease, GiveBack
  <1>. QED
    BY <1>2, <1>3, <1>4, <1>5, <1>6, <1>7, <1>8, <1>9, <1>10, <1>11, <1>12,
       <1>13, <1>14
    DEF Next, ReadThread, ReadPacket, ReadError, ActionThread, MainThread,
        GetResponse

\* For any pool and any number of telegrams: whoever passed Dequeue's test
\* on DataQueue, ExtraQueue or ResponseQueue finds a buffer when it has the
\* lock, and a removal from an empty FreeQueue is one of the two races.
THEOREM GuardedAlways == Spec => []Guarded
  <1>1. Init => Guarded
    BY DEF Init, Guarded, SingleConsumerSafe, FreeQueueRace, Threads
  <1>2. IInv /\ Guarded /\ [Next]_vars => Guarded'
    <2> SUFFICES ASSUME IInv, Guarded, [Next]_vars PROVE Guarded'
      OBVIOUS
    <2>1. CASE Next
      BY <2>1, GuardedStep
    <2>2. CASE UNCHANGED vars
      BY <2>2 DEF vars, Guarded, SingleConsumerSafe, FreeQueueRace, IsEmpty
    <2>. QED BY <2>1, <2>2
  <1>. QED BY <1>1, <1>2, Invariance, PTL DEF Spec

(***************************************************************************)
(* PacketQueues implements BufferPool.                                     *)
(***************************************************************************)
OwnerIsPlace ==
    \A b \in Buffers :
        /\ b \in leaked => Owner[b] = "leaked"
        /\ \A h \in Holders : hold[h] = b => Owner[b] = h
        /\ \A q \in QueueNames : b \in Elems(queue[q]) => Owner[b] = q

LEMMA OwnerOfPlaced == Placed => OwnerIsPlace
  <1> SUFFICES ASSUME Placed, NEW b \in Buffers
               PROVE  /\ b \in leaked => Owner[b] = "leaked"
                      /\ \A h \in Holders : hold[h] = b => Owner[b] = h
                      /\ \A q \in QueueNames :
                             b \in Elems(queue[q]) => Owner[b] = q
    BY DEF OwnerIsPlace
  <1> USE DEF Placed
  <1>1. CASE b \in leaked
    BY <1>1 DEF Owner, NoSharing
  <1>2. ASSUME NEW h \in Holders, hold[h] = b PROVE Owner[b] = h
    <2>1. b \notin leaked /\ b # NoBuffer
      BY <1>2, NoBufferIsNone DEF NoSharing
    <2>2. \A g \in Holders : hold[g] = b <=> g = h
      BY <1>2, <2>1 DEF NoSharing
    <2>3. (CHOOSE g \in Holders : hold[g] = b) = h
      BY <2>2
    <2>. QED BY <1>2, <2>1, <2>3 DEF Owner
  <1>3. ASSUME NEW q \in QueueNames, b \in Elems(queue[q]) PROVE Owner[b] = q
    <2>1. b \notin leaked /\ \A h \in Holders : hold[h] # b
      BY <1>3 DEF NoSharing
    <2>2. \A r \in QueueNames : b \in Elems(queue[r]) <=> r = q
      BY <1>3 DEF NoSharing
    <2>3. (CHOOSE r \in QueueNames : b \in Elems(queue[r])) = q
      BY <2>2
    <2>. QED BY <2>1, <2>3 DEF Owner
  <1>4. b \in leaked \/ (\E h \in Holders : hold[h] = b)
           \/ (\E q \in QueueNames : b \in Elems(queue[q]))
    BY DEF Conserved
  <1>. QED BY <1>1, <1>2, <1>3

LEMMA OwnerFunction == Owner = [b \in Buffers |-> Owner[b]]
  BY DEF Owner

\* Taking buffer b passes it from its queue to the thread.
LEMMA TakesPasses ==
    ASSUME IInv, IInv', OwnerIsPlace, OwnerIsPlace',
           NEW m \in TakePaths, Takes(m[1], m[2])
    PROVE  Pool!Next
  <1> DEFINE h == m[1]
             q == m[2]
             b == Head(queue[q])
  <1>1. /\ h \in Holders /\ q \in QueueNames
        /\ <<q, h>> \in Pool!Hand
        /\ h \in Pool!Owners
    BY DEF TakePaths, Holders, QueueNames, Pool!Hand, Pool!Owners, Pool!Holders
  <1>2. /\ queue[q] \in Seq(Buffers) /\ queue[q] # <<>>
        /\ Distinct(queue[q])
        /\ queue \in [QueueNames -> Seq(Buffers)]
        /\ hold \in [Holders -> Buffers \cup {NoBuffer}]
    BY <1>1 DEF IInv, TypeOK, NoSharing, Takes, IsEmpty
  <1>3. /\ b \in Elems(queue[q])
        /\ Elems(Tail(queue[q])) = Elems(queue[q]) \ {b}
        /\ b \in Buffers
    BY <1>2, TailElems, ElemsType
  <1>4. /\ leaked' = leaked
        /\ hold[h] = NoBuffer
        /\ \A g \in Holders : hold'[g] = IF g = h THEN b ELSE hold[g]
        /\ \A p \in QueueNames :
               queue'[p] = IF p = q THEN Tail(queue[q]) ELSE queue[p]
    BY <1>1, <1>2 DEF Takes
  <1> HIDE DEF b, h, q
  <1>5. \A c \in Buffers :
           \/ c \in leaked
           \/ \E g \in Holders : hold[g] = c
           \/ \E p \in QueueNames : c \in Elems(queue[p])
    BY DEF IInv, Conserved
  <1>6. Owner[b] = q /\ Owner'[b] = h
    BY <1>1, <1>3, <1>4 DEF OwnerIsPlace, Buffers
  <1>7. \A c \in Buffers : Owner[c] # h
    <2> TAKE c \in Buffers
    <2>1. CASE c \in leaked
      BY <2>1, <1>1 DEF OwnerIsPlace, Holders
    <2>2. CASE \E g \in Holders : hold[g] = c
      BY <2>2, <1>4, NoBufferIsNone DEF OwnerIsPlace
    <2>3. CASE \E p \in QueueNames : c \in Elems(queue[p])
      BY <2>3, <1>1 DEF OwnerIsPlace, Holders, QueueNames
    <2>. QED BY <1>5, <2>1, <2>2, <2>3
  <1>8. \A c \in Buffers : c # b => Owner'[c] = Owner[c]
    <2> SUFFICES ASSUME NEW c \in Buffers, c # b PROVE Owner'[c] = Owner[c]
      OBVIOUS
    <2>1. CASE c \in leaked
      BY <2>1, <1>4 DEF OwnerIsPlace, Buffers
    <2>2. ASSUME NEW g \in Holders, hold[g] = c PROVE Owner'[c] = Owner[c]
      <3>1. hold'[g] = c
        BY <2>2, <1>4, NoBufferIsNone
      <3>. QED BY <3>1, <2>2 DEF OwnerIsPlace, Buffers
    <2>3. ASSUME NEW p \in QueueNames, c \in Elems(queue[p])
          PROVE  Owner'[c] = Owner[c]
      <3>1. c \in Elems(queue'[p])
        BY <2>3, <1>3, <1>4
      <3>. QED BY <3>1, <2>3 DEF OwnerIsPlace, Buffers
    <2>. QED BY <1>5, <2>1, <2>2, <2>3
  <1>9. Owner' = [Owner EXCEPT ![b] = h]
    <2>1. Owner = [c \in Buffers |-> Owner[c]]
      BY OwnerFunction
    <2>2. Owner' = [c \in Buffers |-> Owner'[c]]
      BY DEF Owner, Buffers
    <2>. QED BY <2>1, <2>2, <1>3, <1>6, <1>8
  <1>10. Pool!Pass(b, h)
    BY <1>1, <1>6, <1>7, <1>9 DEF Pool!Pass
  <1>. QED BY <1>1, <1>3, <1>10 DEF Pool!Next

\* Giving up buffer b of thread h passes it to its new owner: a queue that
\* now has it, or nobody.
LEMMA LeavesPass ==
    ASSUME IInv, IInv', OwnerIsPlace, OwnerIsPlace',
           NEW h \in Holders, NEW to \in Pool!Owners \ Pool!Holders,
           hold[h] # NoBuffer,
           <<h, to>> \in Pool!Hand,
           hold' = [hold EXCEPT ![h] = NoBuffer],
           Owner'[hold[h]] = to,
           \A p \in QueueNames : Elems(queue[p]) \subseteq Elems(queue'[p]),
           leaked \subseteq leaked'
    PROVE  Pool!Next
  <1> DEFINE b == hold[h]
  <1>1. hold \in [Holders -> Buffers \cup {NoBuffer}] /\ b \in Buffers
    BY DEF IInv, TypeOK
  <1>2. \A g \in Holders : g # h => hold'[g] = hold[g]
    BY <1>1
  <1>3. Owner[b] = h
    BY <1>1 DEF OwnerIsPlace
  <1> HIDE DEF b
  <1>4. \A c \in Buffers :
           \/ c \in leaked
           \/ \E g \in Holders : hold[g] = c
           \/ \E p \in QueueNames : c \in Elems(queue[p])
    BY DEF IInv, Conserved
  <1>5. \A c \in Buffers : c # b => Owner'[c] = Owner[c]
    <2> SUFFICES ASSUME NEW c \in Buffers, c # b PROVE Owner'[c] = Owner[c]
      OBVIOUS
    <2>1. CASE c \in leaked
      BY <2>1 DEF OwnerIsPlace, Buffers
    <2>2. ASSUME NEW g \in Holders, hold[g] = c PROVE Owner'[c] = Owner[c]
      <3>1. hold'[g] = c
        BY <2>2, <1>2 DEF b
      <3>. QED BY <3>1, <2>2 DEF OwnerIsPlace, Buffers
    <2>3. ASSUME NEW p \in QueueNames, c \in Elems(queue[p])
          PROVE  Owner'[c] = Owner[c]
      <3>1. c \in Elems(queue'[p])
        BY <2>3
      <3>. QED BY <3>1, <2>3 DEF OwnerIsPlace, Buffers
    <2>. QED BY <1>4, <2>1, <2>2, <2>3
  <1>6. Owner' = [Owner EXCEPT ![b] = to]
    <2>1. Owner = [c \in Buffers |-> Owner[c]]
      BY OwnerFunction
    <2>2. Owner' = [c \in Buffers |-> Owner'[c]]
      BY DEF Owner, Buffers
    <2>3. Owner'[b] = to
      BY DEF b
    <2>. QED BY <2>1, <2>2, <2>3, <1>1, <1>5
  <1>7. Pool!Pass(b, to)
    BY <1>3, <1>6 DEF Pool!Pass
  <1>. QED BY <1>1, <1>7 DEF Pool!Next

LEMMA PutsPasses ==
    ASSUME IInv, IInv', OwnerIsPlace, OwnerIsPlace',
           NEW m \in PutPaths, Puts(m[1], m[2])
    PROVE  Pool!Next
  <1> DEFINE h == m[1]
             q == m[2]
  <1>1. /\ h \in Holders /\ q \in QueueNames
        /\ <<h, q>> \in Pool!Hand
        /\ q \in Pool!Owners \ Pool!Holders
    BY DEF PutPaths, Holders, QueueNames, Pool!Hand, Pool!Owners, Pool!Holders
  <1>2. /\ queue \in [QueueNames -> Seq(Buffers)]
        /\ hold[h] \in Buffers
        /\ hold[h] # NoBuffer
        /\ hold' = [hold EXCEPT ![h] = NoBuffer]
        /\ queue' = [queue EXCEPT ![q] = Append(@, hold[h])]
        /\ leaked' = leaked
    BY <1>1 DEF IInv, TypeOK, Puts, Enqueue
  <1>3. \A p \in QueueNames :
           Elems(queue'[p]) = IF p = q THEN Elems(queue[p]) \cup {hold[h]}
                              ELSE Elems(queue[p])
    <2> TAKE p \in QueueNames
    <2>1. queue'[p] = IF p = q THEN Append(queue[p], hold[h]) ELSE queue[p]
      BY <1>2
    <2>2. Elems(Append(queue[p], hold[h])) = Elems(queue[p]) \cup {hold[h]}
      BY <1>2, AppendElems
    <2>. QED BY <2>1, <2>2
  <1>4. Owner'[hold[h]] = q
    BY <1>1, <1>2, <1>3 DEF OwnerIsPlace, Buffers
  <1> HIDE DEF h, q
  <1>. QED BY <1>1, <1>2, <1>3, <1>4, LeavesPass

LEMMA LeaksPasses ==
    ASSUME IInv, IInv', OwnerIsPlace, OwnerIsPlace', Leaks
    PROVE  Pool!Next
  <1>1. /\ "push" \in Holders
        /\ <<"push", "leaked">> \in Pool!Hand
        /\ "leaked" \in Pool!Owners \ Pool!Holders
    BY DEF Holders, Pool!Hand, Pool!Owners, Pool!Holders
  <1>2. hold["push"] \in Buffers
    BY <1>1 DEF IInv, TypeOK, Leaks
  <1>3. Owner'[hold["push"]] = "leaked"
    BY <1>2 DEF Leaks, OwnerIsPlace, Buffers
  <1>. QED BY <1>1, <1>3, LeavesPass DEF Leaks

\* The packet queues implement the buffer pool: every buffer always has
\* one owner and only ever takes one of the pool's paths.
THEOREM PoolImplemented == Spec => ImplementsPool
  <1>1. Init => Pool!Init
    <2> SUFFICES ASSUME Init PROVE Pool!Init
      OBVIOUS
    <2>1. Placed
      BY InitIInv DEF IInv, Placed
    <2>2. OwnerIsPlace
      BY <2>1, OwnerOfPlaced
    <2>3. \A b \in Buffers : b \in Elems(queue["free"])
      <3>1. queue["free"] = [i \in Buffers |-> i]
        BY DEF Init, QueueNames
      <3>. QED BY <3>1 DEF Elems
    <2>4. \A b \in Buffers : Owner[b] = "free"
      BY <2>2, <2>3 DEF OwnerIsPlace, QueueNames
    <2>. QED BY <2>4, OwnerFunction DEF Pool!Init
  <1>2. IInv => OwnerIsPlace
    BY OwnerOfPlaced DEF IInv, Placed
  <1>3. IInv /\ IInv' /\ OwnerIsPlace /\ OwnerIsPlace' /\ [Next]_vars
            => [Pool!Next]_Owner
    <2> SUFFICES ASSUME IInv, IInv', OwnerIsPlace, OwnerIsPlace', [Next]_vars
                 PROVE  [Pool!Next]_Owner
      OBVIOUS
    <2>1. CASE UNCHANGED <<queue, hold, leaked>>
      BY <2>1 DEF Owner, Buffers
    <2>2. CASE UNCHANGED vars
      BY <2>1, <2>2 DEF vars
    <2>3. CASE Next
      <3>1. Moves
        BY <2>3, NextSound DEF Sound
      <3>. QED BY <3>1, <2>1, TakesPasses, PutsPasses, LeaksPasses DEF Moves
    <2>. QED BY <2>2, <2>3
  <1>. QED BY <1>1, <1>2, <1>3, Invariance, PTL DEF Spec, ImplementsPool, Pool!Spec

(***************************************************************************)
(* The order of the telegrams.  How a step can touch DataQueue: not at     *)
(* all, by a buffer at its end, by MainJob's taking the first, or by       *)
(* MainJob's work on the one it took.                                      *)
(***************************************************************************)
JobKept ==
    /\ \A b \in Elems(queue["data"]) : content'[b] = content[b]
    /\ pc'["action"] = "job" <=> pc["action"] = "job"
    /\ pc["action"] = "job" =>
           content'[hold'["action"]] = content[hold["action"]]
    /\ UNCHANGED handled

DataQuiet ==
    /\ JobKept
    /\ queue'["data"] = queue["data"]
    /\ UNCHANGED received

DataAppend(b) ==
    /\ JobKept
    /\ b \in Buffers \ Elems(queue["data"])
    /\ queue'["data"] = Append(queue["data"], b)
    /\ \/ content'[b].n = received + 1 /\ received' = received + 1
       \/ content'[b].n = 0 /\ UNCHANGED received
    /\ content'[b].kind = "garbage" => packetType = "radio"

DataTaken ==
    /\ pc["action"] # "job" /\ pc'["action"] = "job"
    /\ queue["data"] # <<>>
    /\ hold'["action"] = Head(queue["data"])
    /\ queue'["data"] = Tail(queue["data"])
    /\ UNCHANGED <<content, received, handled>>

JobDone ==
    LET n == content[hold["action"]].n IN
    /\ pc["action"] = "job" /\ pc'["action"] # "job"
    /\ handled' = IF n > 0 THEN Append(handled, n) ELSE handled
    /\ UNCHANGED <<queue, hold, content, received>>

DataMoves ==
    DataQuiet \/ (\E b \in Buffers : DataAppend(b)) \/ DataTaken \/ JobDone

\* A buffer in a thread's hands is not in DataQueue, and not in MainJob's.
LEMMA InHand ==
    ASSUME IInv, NEW h \in Holders, hold[h] # NoBuffer
    PROVE  /\ hold[h] \in Buffers
           /\ hold[h] \notin Elems(queue["data"])
           /\ h # "action" => hold[h] # hold["action"]
  BY DEF IInv, TypeOK, NoSharing, Holders, QueueNames

LEMMA NextMovesData == ASSUME IInv, Next PROVE DataMoves
  <1> USE DEF Threads, Holders, QueueNames
  <1>1. /\ TypeOK /\ HandsMatchSteps
        /\ queue \in [QueueNames -> Seq(Buffers)]
        /\ hold \in [Holders -> Buffers \cup {NoBuffer}]
        /\ pc \in [Threads -> ReadSteps \cup ActionSteps \cup CommandSteps]
        /\ content \in [Buffers -> Contents]
        /\ Elems(queue["data"]) \subseteq Buffers
    BY ElemsType DEF IInv, TypeOK
  <1>2. CASE ReadTest \/ DataTest \/ PushTest \/ ExtraTest \/ SendCommand \/ ResponseTest
    BY <1>1, <1>2 DEF ReadTest, DataTest, PushTest, ExtraTest, SendCommand, ResponseTest,
       Test, DataMoves, DataQuiet, JobKept
  <1>3. CASE ReadTake \/ PushTake \/ ExtraTake \/ ResponseTake
    BY <1>1, <1>3 DEF ReadTake, PushTake, ExtraTake, ResponseTake, Remove,
       DataMoves, DataQuiet, JobKept, HandsMatchSteps
  <1>4. CASE DataTake
    BY <1>1, <1>4 DEF DataTake, Remove, IsEmpty, DataMoves, DataQuiet, JobKept, DataTaken
  <1>5. CASE MainJob
    BY <1>1, <1>5 DEF MainJob, DataMoves, JobDone
  <1>6. CASE PushGiveUp
    BY <1>1, <1>6 DEF PushGiveUp, DataMoves, DataQuiet, JobKept
  <1>7. ASSUME NEW t \in Threads, NEW h \in {"action", "command"}, NEW next,
               GiveBack(t, h, next), hold[h] # NoBuffer,
               t = "read" => FALSE,
               t = "action" => pc["action"] # "job" /\ next # "job",
               h = "action" => pc["action"] # "job"
        PROVE  DataMoves
    <2>1. /\ hold[h] \in Buffers /\ hold[h] \notin Elems(queue["data"])
          /\ h # "action" => hold[h] # hold["action"]
      BY <1>7, InHand
    <2>. QED BY <1>1, <1>7, <2>1 DEF GiveBack, Enqueue, DataMoves, DataQuiet, JobKept
  <1>8. CASE DataRelease \/ ExtraRelease \/ ResponseRelease
    BY <1>1, <1>7, <1>8 DEF DataRelease, ExtraRelease, ResponseRelease, HandsMatchSteps
  <1>9. CASE PushQueue
    <2>1. /\ hold["push"] \in Buffers /\ hold["push"] \notin Elems(queue["data"])
          /\ hold["push"] # hold["action"]
      BY <1>1, <1>9, InHand DEF PushQueue, HandsMatchSteps
    <2>2. DataAppend(hold["push"])
      BY <1>1, <1>9, <2>1
      DEF PushQueue, Enqueue, Assembled, DataAppend, JobKept
    <2>. QED BY <2>1, <2>2 DEF DataMoves
  <1>10. ASSUME NEW type, NEW c, QueueByType(type, c),
                \/ type = "radio" /\ c.n = received + 1 /\ received' = received + 1
                \/ c.n = 0 /\ received' = received,
                c.kind = "garbage" => type = packetType
         PROVE  DataMoves
    <2> DEFINE b == hold["read"]
    <2>1. b \in Buffers /\ b \notin Elems(queue["data"]) /\ b # hold["action"]
      BY <1>1, <1>10, InHand DEF QueueByType, HandsMatchSteps
    <2>2. JobKept
      BY <1>1, <1>10, <2>1 DEF QueueByType, Enqueue, JobKept
    <2>3. content'[b] = c
      BY <1>1, <1>10, <2>1 DEF QueueByType
    <2>4. CASE type = "radio"
      <3>1. queue'["data"] = Append(queue["data"], b)
        BY <1>1, <1>10, <2>4 DEF QueueByType, QueueOf, Enqueue
      <3>. QED BY <1>10, <2>1, <2>2, <2>3, <2>4, <3>1 DEF DataMoves, DataAppend
    <2>5. CASE type # "radio"
      <3>1. queue'["data"] = queue["data"]
        BY <1>1, <1>10, <2>5 DEF QueueByType, QueueOf, Enqueue
      <3>. QED BY <1>10, <2>2, <2>5, <3>1 DEF DataMoves, DataQuiet
    <2>. QED BY <2>4, <2>5
  <1>11. ASSUME NEW kind \in Kinds, ReadPacket(kind)
         PROVE  DataMoves
    <2> DEFINE c == [kind |-> kind, n |-> IF TypeOf(kind) = "radio" THEN received + 1 ELSE 0]
    <2>1. QueueByType(TypeOf(kind), c)
      BY <1>11 DEF ReadPacket
    <2>2. c.kind # "garbage"
      BY DEF Kinds
    <2>3. CASE TypeOf(kind) = "radio"
      BY <1>10, <1>11, <2>1, <2>2, <2>3 DEF ReadPacket
    <2>4. CASE TypeOf(kind) # "radio"
      BY <1>10, <1>11, <2>1, <2>2, <2>4 DEF ReadPacket
    <2>. QED BY <2>3, <2>4
  <1>12. CASE ReadError
    BY <1>10, <1>12 DEF ReadError, Garbage
  <1>. QED
    BY <1>2, <1>3, <1>4, <1>5, <1>6, <1>8, <1>9, <1>11, <1>12
    DEF Next, ReadThread, ActionThread, MainThread, GetResponse

(***************************************************************************)
(* The telegrams received and not yet handled are in DataQueue, in order,  *)
(* or in MainJob's hands.                                                  *)
(***************************************************************************)
Number(b) == content[b].n
InJob == pc["action"] = "job"

OrderInv ==
    /\ Len(handled) <= received
    /\ \A b \in Elems(queue["data"]) :
           Number(b) > 0 => Len(handled) < Number(b) /\ Number(b) <= received
    /\ \A i, j \in DOMAIN queue["data"] :
           i < j /\ Number(queue["data"][i]) > 0 /\ Number(queue["data"][j]) > 0
           => Number(queue["data"][i]) < Number(queue["data"][j])
    /\ \A k \in Len(handled) + 1 .. received :
           \/ \E b \in Elems(queue["data"]) : Number(b) = k
           \/ InJob /\ Number(hold["action"]) = k
    /\ InJob /\ Number(hold["action"]) > 0 =>
           /\ Number(hold["action"]) = Len(handled) + 1
           /\ Number(hold["action"]) <= received
           /\ \A b \in Elems(queue["data"]) :
                  Number(b) > 0 => Number(hold["action"]) < Number(b)

\* What is used of the types.
LEMMA OrderTypes ==
    ASSUME IInv
    PROVE  /\ queue["data"] \in Seq(Buffers)
           /\ Elems(queue["data"]) \subseteq Buffers
           /\ DOMAIN queue["data"] = 1 .. Len(queue["data"])
           /\ Len(queue["data"]) \in Nat
           /\ Distinct(queue["data"])
           /\ \A b \in Buffers : Number(b) \in Nat
           /\ InJob => hold["action"] \in Buffers
           /\ handled \in Seq(1 .. MaxTelegrams) /\ Len(handled) \in Nat
           /\ received \in Nat
  <1>1. queue["data"] \in Seq(Buffers) /\ Distinct(queue["data"])
    BY DEF IInv, TypeOK, NoSharing, QueueNames
  <1>2. \A b \in Buffers : Number(b) \in Nat
    BY PoolAssumption DEF IInv, TypeOK, Contents, Number
  <1>3. InJob => hold["action"] \in Buffers
    BY DEF IInv, TypeOK, HandsMatchSteps, InJob, Holders
  <1>4. handled \in Seq(1 .. MaxTelegrams) /\ received \in Nat
    BY PoolAssumption DEF IInv, TypeOK
  <1>. QED BY <1>1, <1>2, <1>3, <1>4, ElemsType, LenProperties

LEMMA QuietOrder ==
    ASSUME IInv, OrderInv, DataQuiet
    PROVE  OrderInv'
  <1>1. \A b \in Elems(queue["data"]) : Number(b)' = Number(b)
    BY DEF DataQuiet, JobKept, Number
  <1>2. /\ queue'["data"] = queue["data"] /\ InJob' = InJob
        /\ InJob => Number(hold["action"])' = Number(hold["action"])
        /\ handled' = handled /\ received' = received
    BY DEF DataQuiet, JobKept, InJob, Number
  <1>3. \A i \in DOMAIN queue["data"] : queue["data"][i] \in Elems(queue["data"])
    BY DEF Elems
  <1>4. Elems(queue["data"])' = Elems(queue["data"])
    BY <1>2 DEF Elems
  <1>. QED BY <1>1, <1>2, <1>3, <1>4 DEF OrderInv

\* The buffer that goes to the end has the newest number, or none.
LEMMA AppendOrder ==
    ASSUME IInv, OrderInv, NEW b \in Buffers, DataAppend(b)
    PROVE  OrderInv'
  <1> DEFINE s == queue["data"]
             t == Append(s, b)
             n == content'[b].n
  <1>1. /\ s \in Seq(Buffers) /\ Elems(s) \subseteq Buffers
        /\ DOMAIN s = 1 .. Len(s) /\ Len(s) \in Nat
        /\ \A c \in Buffers : Number(c) \in Nat
        /\ Len(handled) \in Nat /\ received \in Nat
    BY OrderTypes
  <1>2. /\ queue'["data"] = t /\ b \notin Elems(s)
        /\ \A c \in Elems(s) : content'[c].n = Number(c)
        /\ InJob' = InJob /\ handled' = handled
        /\ InJob => content'[hold'["action"]].n = Number(hold["action"])
        /\ \/ n = received + 1 /\ received' = received + 1
           \/ n = 0 /\ received' = received
    BY DEF DataAppend, JobKept, InJob, Number
  <1>3. /\ Elems(t) = Elems(s) \cup {b} /\ Len(t) = Len(s) + 1
        /\ \A i \in 1 .. Len(s) : t[i] = s[i]
        /\ t[Len(s) + 1] = b
        /\ DOMAIN t = 1 .. Len(s) + 1
    BY <1>1, AppendElems, AppendProperties, LenProperties
  <1>4. \A i \in 1 .. Len(s) : s[i] \in Elems(s)
    BY <1>1 DEF Elems
  <1>5. InJob => hold["action"] \in Buffers /\ Number(hold["action"]) \in Nat
    BY OrderTypes
  <1> HIDE DEF s, t, n
  <1>6. /\ \A c \in Elems(s) : Number(c) \in Nat /\ Number(c) <= received
        /\ \A c \in Elems(s) : Number(c) > 0 => Len(handled) < Number(c)
    BY <1>1 DEF OrderInv, s
  <1>7. Len(handled) <= received /\ Len(handled) <= received'
        /\ n \in Nat /\ n <= received' /\ received' \in Nat
    BY <1>1, <1>2 DEF OrderInv
  <1>8. \A c \in Elems(t) : /\ content'[c].n \in Nat
                            /\ content'[c].n <= received'
                            /\ content'[c].n > 0 => Len(handled) < content'[c].n
    <2> TAKE c \in Elems(t)
    <2>1. CASE c \in Elems(s)
      BY <1>1, <1>2, <1>6, <2>1
    <2>2. CASE c = b
      BY <1>1, <1>2, <1>7, <2>2 DEF n
    <2>. QED BY <1>3, <2>1, <2>2
  <1>9. ASSUME NEW i \in DOMAIN t, NEW j \in DOMAIN t, i < j,
               content'[t[i]].n > 0, content'[t[j]].n > 0
        PROVE  content'[t[i]].n < content'[t[j]].n
    <2>1. i \in 1 .. Len(s) /\ t[i] = s[i] /\ s[i] \in Elems(s)
      BY <1>1, <1>3, <1>4, <1>9
    <2>2. CASE j \in 1 .. Len(s)
      <3>1. t[j] = s[j] /\ s[j] \in Elems(s)
        BY <1>3, <1>4, <2>2
      <3>2. content'[t[i]].n = Number(s[i]) /\ content'[t[j]].n = Number(s[j])
        BY <1>2, <2>1, <3>1
      <3>3. Number(s[i]) < Number(s[j])
        BY <1>1, <1>9, <2>1, <2>2, <3>2 DEF OrderInv, s
      <3>. QED BY <3>2, <3>3
    <2>3. CASE j = Len(s) + 1
      <3>1. content'[t[j]].n = n /\ n = received + 1
        BY <1>2, <1>3, <1>9, <2>3 DEF n
      <3>2. content'[t[i]].n = Number(s[i])
        BY <1>2, <2>1
      <3>. QED BY <1>1, <1>6, <2>1, <3>1, <3>2
    <2>. QED BY <1>1, <1>3, <2>2, <2>3
  <1>10. ASSUME NEW k \in Len(handled) + 1 .. received'
         PROVE  \/ \E c \in Elems(t) : content'[c].n = k
                \/ InJob /\ Number(hold["action"]) = k
    <2>1. CASE k \in Len(handled) + 1 .. received
      <3>1. CASE \E c \in Elems(s) : Number(c) = k
        BY <1>2, <1>3, <3>1
      <3>2. CASE InJob /\ Number(hold["action"]) = k
        BY <3>2
      <3>. QED BY <2>1, <3>1, <3>2 DEF OrderInv, s
    <2>2. CASE k = received + 1 /\ received' = received + 1
      <3>1. n = k
        BY <1>1, <1>2, <2>2
      <3>. QED BY <1>3, <3>1 DEF n
    <2>. QED BY <1>1, <1>2, <2>1, <2>2
  <1>11. ASSUME InJob, Number(hold["action"]) > 0
         PROVE  /\ Number(hold["action"]) = Len(handled) + 1
                /\ Number(hold["action"]) <= received'
                /\ \A c \in Elems(t) :
                       content'[c].n > 0 => Number(hold["action"]) < content'[c].n
    <2>1. /\ Number(hold["action"]) = Len(handled) + 1
          /\ Number(hold["action"]) <= received
          /\ \A c \in Elems(s) :
                 Number(c) > 0 => Number(hold["action"]) < Number(c)
      BY <1>11 DEF OrderInv, s
    <2>2. Number(hold["action"]) <= received'
      BY <1>1, <1>2, <2>1
    <2>3. n > 0 => Number(hold["action"]) < n
      BY <1>1, <1>2, <2>1
    <2>. QED BY <1>2, <1>3, <2>1, <2>2, <2>3 DEF n
  <1>12. /\ queue'["data"] = t /\ Elems(queue["data"])' = Elems(t)
         /\ \A c : Number(c)' = content'[c].n
         /\ InJob => Number(hold["action"])' = Number(hold["action"])
    BY <1>2 DEF Number, Elems
  <1> HIDE DEF Number, Elems, InJob
  <1>. QED BY <1>2, <1>7, <1>8, <1>9, <1>10, <1>11, <1>12 DEF OrderInv

\* Its first buffer has the next number, or none.
LEMMA TakenOrder ==
    ASSUME IInv, OrderInv, DataTaken
    PROVE  OrderInv'
  <1> DEFINE s == queue["data"]
             t == Tail(s)
             h == Head(s)
  <1>1. /\ s \in Seq(Buffers) /\ Elems(s) \subseteq Buffers /\ Distinct(s)
        /\ DOMAIN s = 1 .. Len(s) /\ Len(s) \in Nat /\ s # <<>>
        /\ \A c \in Buffers : Number(c) \in Nat
        /\ Len(handled) \in Nat /\ received \in Nat
    BY OrderTypes DEF DataTaken
  <1>2. /\ queue'["data"] = t /\ hold'["action"] = h
        /\ ~InJob /\ InJob' /\ UNCHANGED <<content, handled, received>>
    BY DEF DataTaken, InJob
  <1>3. h \in Elems(s) /\ Elems(t) = Elems(s) \ {h}
    BY <1>1, TailElems
  <1>4. /\ Len(s) >= 1 /\ h = s[1] /\ DOMAIN t = 1 .. Len(s) - 1
        /\ \A i \in 1 .. Len(s) - 1 : t[i] = s[i + 1]
    <2>1. Len(s) # 0 /\ Head(s) = s[1]
      BY <1>1, EmptySeq
    <2>2. /\ Tail(s) \in Seq(Buffers) /\ Len(Tail(s)) = Len(s) - 1
          /\ \A i \in 1 .. Len(Tail(s)) : Tail(s)[i] = s[i + 1]
      BY <1>1, HeadTailProperties
    <2>. QED BY <1>1, <2>1, <2>2, LenProperties
  <1> HIDE DEF s, t, h
  <1>5. ASSUME NEW i \in DOMAIN t, NEW j \in DOMAIN t, i < j,
               Number(t[i]) > 0, Number(t[j]) > 0
        PROVE  Number(t[i]) < Number(t[j])
    <2>1. i + 1 \in DOMAIN s /\ j + 1 \in DOMAIN s /\ i + 1 < j + 1
          /\ t[i] = s[i + 1] /\ t[j] = s[j + 1]
      BY <1>1, <1>4, <1>5
    <2>. QED BY <1>5, <2>1 DEF OrderInv, s
  <1>6. ASSUME NEW b \in Elems(t), Number(b) > 0, Number(h) > 0
        PROVE  Number(h) < Number(b)
    <2>1. PICK i \in DOMAIN t : t[i] = b
      BY DEF Elems
    <2>2. 1 \in DOMAIN s /\ i + 1 \in DOMAIN s /\ 1 < i + 1 /\ b = s[i + 1]
      BY <1>1, <1>4, <2>1
    <2>. QED BY <1>4, <1>6, <2>2 DEF OrderInv, s
  <1>7. Number(h) > 0 => Number(h) = Len(handled) + 1 /\ Number(h) <= received
    <2> SUFFICES ASSUME Number(h) > 0
                 PROVE  Number(h) = Len(handled) + 1 /\ Number(h) <= received
      OBVIOUS
    <2>1. Len(handled) < Number(h) /\ Number(h) <= received /\ Number(h) \in Nat
      BY <1>1, <1>3 DEF OrderInv, s
    <2>2. Len(handled) + 1 \in Len(handled) + 1 .. received
      BY <1>1, <2>1
    <2>3. PICK b \in Elems(s) : Number(b) = Len(handled) + 1
      BY <1>2, <2>2 DEF OrderInv, s
    <2>4. CASE b = h
      BY <2>1, <2>3, <2>4
    <2>5. CASE b # h
      <3>1. Number(h) < Number(b)
        BY <1>1, <1>3, <1>6, <2>3, <2>5
      <3>. QED BY <1>1, <2>1, <2>3, <3>1
    <2>. QED BY <2>4, <2>5
  <1>8. \A k \in Len(handled) + 1 .. received :
            (\E b \in Elems(t) : Number(b) = k) \/ Number(h) = k
    BY <1>2, <1>3 DEF OrderInv, s
  <1>9. \A b \in Elems(t) :
            Number(b) > 0 => Len(handled) < Number(b) /\ Number(b) <= received
    BY <1>3 DEF OrderInv, s
  <1>. QED BY <1>2, <1>5, <1>6, <1>7, <1>8, <1>9 DEF OrderInv, Number, Elems, t

LEMMA DoneOrder ==
    ASSUME IInv, OrderInv, JobDone
    PROVE  OrderInv'
  <1> DEFINE n == Number(hold["action"])
  <1>1. /\ Elems(queue["data"]) \subseteq Buffers
        /\ \A c \in Buffers : Number(c) \in Nat
        /\ handled \in Seq(1 .. MaxTelegrams) /\ Len(handled) \in Nat /\ received \in Nat
        /\ InJob /\ n \in Nat
    BY OrderTypes DEF JobDone, InJob
  <1>2. /\ UNCHANGED <<queue, hold, content, received>> /\ ~InJob'
        /\ handled' = IF n > 0 THEN Append(handled, n) ELSE handled
    BY DEF JobDone, InJob, Number
  <1>3. /\ \A b \in Elems(queue["data"]) : Number(b)' = Number(b)
        /\ \A i \in DOMAIN queue["data"] : Number(queue["data"][i])' = Number(queue["data"][i])
        /\ Elems(queue["data"])' = Elems(queue["data"])
    BY <1>2 DEF Number, Elems
  <1> HIDE DEF n
  <1>4. CASE n = 0
    <2>1. handled' = handled
      BY <1>2, <1>4
    <2>2. \A k \in Len(handled) + 1 .. received : \E b \in Elems(queue["data"]) : Number(b) = k
      <3>1. \A k \in Len(handled) + 1 .. received : k # 0
        BY <1>1
      <3>. QED BY <1>4, <3>1 DEF OrderInv, n
    <2>. QED BY <1>2, <1>3, <2>1, <2>2 DEF OrderInv
  <1>5. CASE n > 0
    <2>1. /\ n = Len(handled) + 1 /\ n <= received
          /\ \A b \in Elems(queue["data"]) : Number(b) > 0 => n < Number(b)
      BY <1>1, <1>5 DEF OrderInv, n
    <2>2. n \in 1 .. MaxTelegrams
      BY <1>1, <1>5, <2>1, PoolAssumption DEF IInv, TypeOK
    <2>3. Len(handled') = n
      BY <1>1, <1>2, <1>5, <2>1, <2>2, AppendProperties
    <2>4. \A k \in n + 1 .. received : \E b \in Elems(queue["data"]) : Number(b) = k
      <3> TAKE k \in n + 1 .. received
      <3>1. k \in Len(handled) + 1 .. received /\ k # n
        BY <1>1, <2>1
      <3>. QED BY <3>1 DEF OrderInv, n
    <2>. QED BY <1>2, <1>3, <2>1, <2>3, <2>4 DEF OrderInv
  <1>. QED BY <1>1, <1>4, <1>5

LEMMA InitOrder == Init => OrderInv
  <1> SUFFICES ASSUME Init PROVE OrderInv
    OBVIOUS
  <1>1. queue["data"] = <<>> /\ handled = <<>> /\ received = 0 /\ ~InJob
    BY DEF Init, QueueNames, Threads, InJob
  <1>2. Elems(<<>>) = {} /\ DOMAIN <<>> = {} /\ Len(<<>>) = 0
    BY DEF Elems
  <1>. QED BY <1>1, <1>2 DEF OrderInv

LEMMA NextOrder == IInv /\ OrderInv /\ [Next]_vars => OrderInv'
  <1> SUFFICES ASSUME IInv, OrderInv, [Next]_vars PROVE OrderInv'
    OBVIOUS
  <1>1. CASE Next
    BY <1>1, NextMovesData, QuietOrder, AppendOrder, TakenOrder, DoneOrder DEF DataMoves
  <1>2. CASE UNCHANGED vars
    BY <1>2, QuietOrder DEF vars, DataQuiet, JobKept
  <1>. QED BY <1>1, <1>2

\* MainJob sees the radio telegrams in the order of their reception, each of
\* them once: every step receives one, handles the oldest that is not handled,
\* or changes neither.
THEOREM PathImplemented == Spec => ImplementsPath
  <1>1. Init => Path!Init
    BY DEF Init, Path!Init
  <1>2. IInv /\ OrderInv /\ [Next]_vars => [Path!Next]_<<received, handled>>
    <2> SUFFICES ASSUME IInv, OrderInv, [Next]_vars
                 PROVE  [Path!Next]_<<received, handled>>
      OBVIOUS
    <2>1. CASE UNCHANGED vars
      BY <2>1 DEF vars
    <2>2. CASE DataQuiet \/ DataTaken
      BY <2>2 DEF DataQuiet, JobKept, DataTaken
    <2>3. ASSUME NEW b \in Buffers, DataAppend(b)
          PROVE  [Path!Next]_<<received, handled>>
      BY <2>3 DEF DataAppend, JobKept, Path!Next, Path!Receive
    <2>4. CASE JobDone
      <3> DEFINE n == content[hold["action"]].n
      <3>1. handled' = (IF n > 0 THEN Append(handled, n) ELSE handled)
            /\ received' = received
        BY <2>4 DEF JobDone
      <3>2. n > 0 => n = Len(handled) + 1 /\ n <= received
        BY <2>4 DEF JobDone, InJob, OrderInv, Number
      <3> HIDE DEF n
      <3>3. Len(handled) \in Nat /\ received \in Nat
        BY OrderTypes
      <3>4. n > 0 => Len(handled) < received
        BY <3>2, <3>3
      <3>. QED BY <3>1, <3>2, <3>4 DEF Path!Next, Path!Handle
    <2>. QED BY <2>1, <2>2, <2>3, <2>4, NextMovesData DEF DataMoves
  <1>. QED BY <1>1, <1>2, Invariance, InitOrder, NextOrder, PTL
           DEF Spec, ImplementsPath, Path!Spec

\* A damaged packet reaches MainJob only after a good radio telegram has, for
\* any pool and any number of telegrams.
THEOREM DamagedAfterRadio == Spec => []DamagedNeedsRadio
  <1> DEFINE DInv == /\ packetType = "radio" => received > 0
                     /\ DamagedNeedsRadio
  <1>1. Init => DInv
    <2>1. Elems(<<>>) = {}
      BY DEF Elems
    <2>. QED BY <2>1 DEF Init, DamagedNeedsRadio, QueueNames
  <1>2. IInv /\ DInv /\ [Next]_vars => DInv'
    <2> SUFFICES ASSUME IInv, DInv, [Next]_vars PROVE DInv'
      OBVIOUS
    <2>1. CASE UNCHANGED vars
      BY <2>1 DEF vars, DamagedNeedsRadio, Elems
    <2>2. CASE Next
      <3>0. /\ queue["data"] \in Seq(Buffers) /\ Distinct(queue["data"]) /\ received \in Nat
        BY OrderTypes
      <3>1. (packetType' = "radio" => received' > 0)
            /\ (received' = received \/ received' = received + 1)
        <4>1. CASE ReadThread
          <5>1. CASE \E kind \in Kinds : ReadPacket(kind)
            BY <3>0, <5>1 DEF ReadPacket, QueueByType
          <5>2. CASE ReadError \/ ReadTest \/ ReadTake
            BY <5>2 DEF ReadError, QueueByType, ReadTest, ReadTake, Test, Remove
          <5>. QED BY <4>1, <5>1, <5>2 DEF ReadThread
        <4>2. CASE ActionThread
          BY <4>2
          DEF ActionThread, DataTest, DataTake, MainJob, PushTest, PushTake, PushQueue,
              PushGiveUp, DataRelease, ExtraTest, ExtraTake, ExtraRelease, Test,
              Remove, GiveBack
        <4>3. CASE MainThread
          BY <4>3
          DEF MainThread, GetResponse, SendCommand, ResponseTest, ResponseTake,
              ResponseRelease, Test, Remove, GiveBack
        <4>. QED BY <2>2, <4>1, <4>2, <4>3 DEF Next
      <3>2. received > 0 => received' > 0
        BY <3>0, <3>1
      <3>3. DamagedNeedsRadio'
        <4>1. CASE DataQuiet
          BY <3>2, <4>1 DEF DataQuiet, JobKept, DamagedNeedsRadio, Elems
        <4>2. ASSUME NEW b \in Buffers, DataAppend(b)
              PROVE  DamagedNeedsRadio'
          <5>1. Elems(queue["data"])' = Elems(queue["data"]) \cup {b}
            <6>1. queue'["data"] = Append(queue["data"], b)
              BY <4>2 DEF DataAppend
            <6>2. Elems(Append(queue["data"], b)) = Elems(queue["data"]) \cup {b}
              BY <3>0, AppendElems
            <6>. QED BY <6>1, <6>2 DEF Elems
          <5>. QED BY <3>2, <4>2, <5>1 DEF DataAppend, JobKept, DamagedNeedsRadio
        <4>3. CASE DataTaken
          <5>1. Elems(queue["data"])' \subseteq Elems(queue["data"])
            <6>1. queue'["data"] = Tail(queue["data"]) /\ queue["data"] # <<>>
              BY <4>3 DEF DataTaken
            <6>2. Elems(Tail(queue["data"])) = Elems(queue["data"]) \ {Head(queue["data"])}
              BY <3>0, <6>1, TailElems
            <6>. QED BY <6>1, <6>2 DEF Elems
          <5>. QED BY <4>3, <5>1 DEF DataTaken, DamagedNeedsRadio
        <4>4. CASE JobDone
          BY <4>4 DEF JobDone, DamagedNeedsRadio, Elems
        <4>. QED BY <2>2, <4>1, <4>2, <4>3, <4>4, NextMovesData DEF DataMoves
      <3>. QED BY <3>1, <3>3
    <2>. QED BY <2>1, <2>2
  <1>3. DInv => DamagedNeedsRadio
    OBVIOUS
  <1> HIDE DEF DInv
  <1>. QED BY <1>1, <1>2, <1>3, Invariance, PTL DEF Spec

(***************************************************************************)
(* CommandLoop: commands are executed in the order in which they were      *)
(* written and each once, and a deaf main thread stays deaf.               *)
(***************************************************************************)
\* ReadCmd keeps the invariant: a new command is numbered above all that
\* were executed, because the newest one executed is remembered in last.
LEMMA ReadCmdKeeps ==
    ASSUME LoopInv, ReadCmd, UNCHANGED <<file, torn, disposition, caught>>,
           stage' \in {"arm", "armed", "asleep", "awake", "busy"}
    PROVE  LoopInv'
<1> USE CommandAssumption DEF CommandAssumption
<1>1. CASE torn \/ file.cmd = NoCommand
  BY <1>1 DEF ReadCmd, LoopInv, LoopTypeOK, ExecutedInOrder, NewestRemembered,
              WritesBounded
<1>2. CASE ~(torn \/ file.cmd = NoCommand) /\ file.cmd = last
  BY <1>2 DEF ReadCmd, LoopInv, LoopTypeOK, ExecutedInOrder, NewestRemembered,
              WritesBounded
<1>3. CASE ~(torn \/ file.cmd = NoCommand) /\ file.cmd # last
  <2>1. /\ executed' = Append(executed, file.n)
        /\ last' = file.cmd /\ served' = file.n
        /\ UNCHANGED <<file, torn, disposition, caught, misread>>
    BY <1>3 DEF ReadCmd
  <2>2. executed \in Seq(1 .. MaxWrites) /\ file.n \in 0 .. MaxWrites
    BY DEF LoopInv, LoopTypeOK
  <2>3. \A i \in DOMAIN executed : executed[i] < file.n
    BY <1>3, <2>2, ElementOfSeq DEF LoopInv, NewestRemembered
  <2>4. file.n \in 1 .. MaxWrites
    BY <1>3, <2>2 DEF LoopInv, LoopTypeOK, NewestRemembered
  <2>5. /\ executed' \in Seq(1 .. MaxWrites)
        /\ DOMAIN executed' = 1 .. Len(executed) + 1
        /\ \A i \in 1 .. Len(executed) : executed'[i] = executed[i]
        /\ executed'[Len(executed) + 1] = file.n
    BY <2>1, <2>2, <2>4, AppendProperties, LenProperties
  <2>6. DOMAIN executed = 1 .. Len(executed) /\ Len(executed) \in Nat
    BY <2>2, LenProperties
  <2>7. LoopTypeOK'
    BY <2>1, <2>2, <2>4, <2>5 DEF LoopInv, LoopTypeOK
  <2>8. ExecutedInOrder'
    BY <2>3, <2>5, <2>6 DEF LoopInv, ExecutedInOrder
  <2>9. NewestRemembered'
    BY <2>1, <2>2, <2>3, <2>5, <2>6 DEF LoopInv, NewestRemembered
  <2> QED
    BY <2>1, <2>7, <2>8, <2>9 DEF LoopInv, WritesBounded
<1> QED
  BY <1>1, <1>2, <1>3

\* The invariant that carries the order of the executed commands.
THEOREM LoopInvariance == LoopSpec => []LoopInv
<1>1. LoopInit => LoopInv
  <2> SUFFICES ASSUME LoopInit
               PROVE  LoopInv
    OBVIOUS
  <2>1. executed = <<>> /\ executed \in Seq(1 .. MaxWrites)
        /\ DOMAIN executed = {}
    BY EmptySeq DEF LoopInit
  <2>2. LoopTypeOK
    <3>1. 0 \in 0 .. MaxWrites
      BY CommandAssumption DEF CommandAssumption
    <3>2. file \in [n : 0 .. MaxWrites, cmd : Commands \cup {NoCommand}]
      BY <3>1 DEF LoopInit
    <3> QED
      BY <2>1, <3>1, <3>2 DEF LoopInit, LoopTypeOK
  <2> QED
    BY <2>1, <2>2
    DEF LoopInit, LoopInv, ExecutedInOrder, NewestRemembered, WritesBounded
<1>2. LoopInv /\ [LoopNext]_loopVars => LoopInv'
  <2> SUFFICES ASSUME LoopInv, [LoopNext]_loopVars
               PROVE  LoopInv'
    OBVIOUS
  <2> USE CommandAssumption DEF CommandAssumption
  <2>1. CASE HostOpen
    BY <2>1 DEF HostOpen, LoopInv, LoopTypeOK, ExecutedInOrder,
                NewestRemembered, WritesBounded
  <2>2. ASSUME NEW c \in Commands, HostWrite(c)
        PROVE  LoopInv'
    <3>1. file'.n = file.n + 1 /\ file'.cmd = c /\ file.n \in 0 .. MaxWrites
      BY <2>2 DEF HostWrite, LoopInv, LoopTypeOK
    <3>2. LoopTypeOK'
      <4>1. file' = [n |-> file.n + 1, cmd |-> c] /\ file.n < MaxWrites
        BY <2>2 DEF HostWrite, LoopInv, WritesBounded
      <4>2. file.n + 1 \in 0 .. MaxWrites
        BY <3>1, <4>1
      <4>3. file' \in [n : 0 .. MaxWrites, cmd : Commands \cup {NoCommand}]
        BY <4>1, <4>2
      <4> QED
        BY <2>2, <4>3 DEF HostWrite, LoopInv, LoopTypeOK
    <3>3. executed \in Seq(1 .. MaxWrites)
      BY DEF LoopInv, LoopTypeOK
    <3>4. \A i \in DOMAIN executed : executed[i] \in Nat
      BY <3>3, ElementOfSeq
    <3>5. NewestRemembered'
      BY <2>2, <3>1, <3>4 DEF HostWrite, LoopInv, NewestRemembered
    <3> QED
      BY <2>2, <3>2, <3>5
      DEF HostWrite, LoopInv, ExecutedInOrder, WritesBounded
  <2>3. CASE HostSignal
    BY <2>3 DEF HostSignal, SignalCatch, LoopInv, LoopTypeOK, ExecutedInOrder,
                NewestRemembered, WritesBounded
  <2>4. CASE Arm
    BY <2>4 DEF Arm, LoopInv, LoopTypeOK, ExecutedInOrder, NewestRemembered,
                WritesBounded
  <2>5. CASE Sleep
    BY <2>5 DEF Sleep, LoopInv, LoopTypeOK, ExecutedInOrder, NewestRemembered,
                WritesBounded
  <2>6. CASE GetCommand
    BY <2>6, ReadCmdKeeps DEF GetCommand
  <2>7. CASE Finish
    BY <2>7 DEF Finish, LoopInv, LoopTypeOK, ExecutedInOrder, NewestRemembered,
                WritesBounded
  <2>8. CASE UNCHANGED loopVars
    BY <2>8 DEF loopVars, LoopInv, LoopTypeOK, ExecutedInOrder,
                NewestRemembered, WritesBounded
  <2> QED
    BY <2>1, <2>2, <2>3, <2>4, <2>5, <2>6, <2>7, <2>8
    DEF LoopNext, Host, MainLoop
<1>3. QED
  BY <1>1, <1>2, PTL DEF LoopSpec

\* Every variable keeps its type, for any commands and any number of writes.
THEOREM LoopTypeCorrect == LoopSpec => []LoopTypeOK
<1>1. LoopInv => LoopTypeOK
  BY DEF LoopInv
<1> QED
  BY <1>1, LoopInvariance, PTL

\* Commands are executed in the order of writing, each of them once.
THEOREM CommandsInOrder == LoopSpec => []ExecutedInOrder
<1>1. LoopInv => ExecutedInOrder
  BY DEF LoopInv
<1> QED
  BY <1>1, LoopInvariance, PTL

\* Nothing wakes a main thread that sleeps with SIGUSR2 ignored: the host's
\* signal needs the handler, and the main thread's own steps start elsewhere.
THEOREM DeafnessLasts == LoopSpec => DeafForGood
<1>1. [LoopNext]_loopVars => [Deaf => Deaf']_loopVars
  BY DEF LoopNext, loopVars, Deaf, Host, MainLoop, HostOpen, HostWrite,
         HostSignal, SignalCatch, Arm, Sleep, GetCommand, Finish
<1> QED
  BY <1>1, PTL DEF LoopSpec, DeafForGood
=============================================================================
