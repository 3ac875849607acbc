------------------------- MODULE JsonService_proofs -------------------------
(***************************************************************************)
(* Proofs that one JsonStop ends the JSON service for good, that its queue *)
(* stays a list and implements a first-in first-out line, and what the     *)
(* client gets, for any ring of two buffers or more and any number of      *)
(* telegrams and changes of mode.                                          *)
(***************************************************************************)
EXTENDS JsonService, SequenceTheorems, FiniteSetTheorems,
        WellFoundedInduction, TLAPS

(***************************************************************************)
(* StopIsFinal counts what is sent after JsonStop.  It is inductive with   *)
(* two facts: whoever has sent such a telegram is back at the test of      *)
(* Json.Stop or has ended, and there is no server without a handle, so     *)
(* that JsonStart cannot clear Stop under a server.                        *)
(***************************************************************************)
ServerSteps == {"none", "accept", "loop", "take", "send", "done"}

IInv ==
    /\ server \in ServerSteps /\ stop \in BOOLEAN /\ handle \in BOOLEAN
    /\ late \in {0, 1}
    /\ late = 1 => stop /\ handle /\ server \in {"loop", "done"}
    /\ ~handle => server = "none"

\* JsonStart, with or without the rest of the action that calls it.
LEMMA JsonStartKeeps ==
    ASSUME IInv, JsonStart, late' = late
    PROVE  IInv'
<1>1. CASE handle
  BY <1>1 DEF JsonStart, IInv
<1>2. CASE ~handle
  BY <1>2 DEF JsonStart, IInv, ServerSteps
<1> QED BY <1>1, <1>2

LEMMA ServerKeeps ==
    ASSUME IInv, GetBuffer \/ Copied \/ Enqueue \/ Accept \/ ServeFails
                 \/ TestStop \/ Dequeue \/ Leave
    PROVE  IInv'
<1>1. CASE GetBuffer
  BY <1>1 DEF GetBuffer, IInv, mainVars
<1>2. CASE Copied \/ Enqueue
  BY <1>2 DEF Copied, Enqueue, IInv, mainVars
<1>3. CASE Accept \/ ServeFails
  BY <1>3 DEF Accept, ServeFails, IInv, ServerSteps, mainVars
<1>4. CASE TestStop
  BY <1>4 DEF TestStop, IInv, ServerSteps, mainVars
<1>5. CASE Dequeue
  BY <1>5 DEF Dequeue, IInv, ServerSteps, mainVars
<1>6. CASE Leave
  BY <1>6 DEF Leave, IInv, mainVars
<1> QED BY <1>1, <1>2, <1>3, <1>4, <1>5, <1>6

LEMMA IInvInit == Init => IInv
<1> SUFFICES ASSUME Init
             PROVE  IInv
  OBVIOUS
<1>1. server = "none" /\ late = 0 /\ stop = FALSE /\ handle = FALSE
  BY DEF Init
<1>2. late \in {0, 1} /\ late # 1 /\ server \in ServerSteps
  BY <1>1 DEF ServerSteps
<1>3. stop \in BOOLEAN /\ handle \in BOOLEAN
  BY <1>1
<1> QED BY <1>1, <1>2, <1>3 DEF IInv

LEMMA IInvKept == IInv /\ [Next]_vars => IInv'
<1> SUFFICES ASSUME IInv, [Next]_vars
             PROVE  IInv'
  OBVIOUS
<1>1. CASE GetBuffer \/ Copied \/ Enqueue \/ Accept \/ ServeFails
           \/ TestStop \/ Dequeue \/ Leave
  BY <1>1, ServerKeeps
<1>2. CASE Send
  <2>1. late = 0 /\ handle
    BY <1>2 DEF Send, IInv
  <2> QED BY <1>2, <2>1 DEF Send, IInv, ServerSteps, mainVars
<1>3. CASE LeaveOperation
  BY <1>3 DEF LeaveOperation, IInv
<1>4. CASE FilterApplied
  BY <1>4, JsonStartKeeps DEF FilterApplied
<1>5. ASSUME NEW known \in BOOLEAN, JsonSetup(known)
      PROVE  IInv'
  <2>1. CASE mode = "Operation" /\ known
    BY <1>5, <2>1, JsonStartKeeps DEF JsonSetup
  <2>2. CASE ~(mode = "Operation" /\ known)
    BY <1>5, <2>2 DEF JsonSetup, IInv
  <2> QED BY <2>1, <2>2
<1>6. ASSUME NEW known \in BOOLEAN, EnterOperation(known)
      PROVE  IInv'
  BY <1>6 DEF EnterOperation, IInv
<1>7. CASE UNCHANGED vars
  BY <1>7 DEF vars, mainVars, IInv
<1> QED
  BY <1>1, <1>2, <1>3, <1>4, <1>5, <1>6, <1>7 DEF Next

\* A change of mode ends the service for good: after JsonStop at most the
\* telegram under way is sent, whatever JsonStart is called for later.
THEOREM ServiceEnds == Spec => []StopIsFinal
<1>1. IInv => StopIsFinal
  BY DEF IInv, StopIsFinal
<1> QED
  BY <1>1, IInvInit, IInvKept, PTL DEF Spec

(***************************************************************************)
(* A least number of a set, for an induction along the list.               *)
(***************************************************************************)
LEMMA LeastNumber ==
    ASSUME NEW S \in SUBSET Nat, S # {}
    PROVE  \E n \in S : \A m \in S : n <= m
<1> DEFINE upTo(n) == {k \in S : k <= n}
<1> DEFINE parts == {upTo(n) : n \in S}
<1>0. \A k \in S : k \in Nat
  OBVIOUS
<1>1. ASSUME NEW n \in S
      PROVE  IsFiniteSet(upTo(n)) /\ n \in upTo(n)
  <2>1. n \in Nat /\ n <= n
    BY <1>0
  <2>2. IsFiniteSet(0 .. n)
    BY <2>1, FS_Interval
  <2>3. \A k \in S : k <= n => k \in 0 .. n
    BY <1>0, <2>1
  <2>4. \A k \in upTo(n) : k \in S /\ k <= n
    OBVIOUS
  <2>5. upTo(n) \subseteq 0 .. n
    BY <2>3, <2>4
  <2> QED BY <2>1, <2>2, <2>5, FS_Subset
<1>2. parts \subseteq FiniteSubsetsOf(Nat) /\ parts # {}
  BY <1>1 DEF FiniteSubsetsOf
<1> DEFINE R == StrictSubsetOrdering(Nat)
<1>3. \E part \in parts : \A other \in parts : ~(<<other, part>> \in R)
  <2>1. IsWellFoundedOn(R, FiniteSubsetsOf(Nat))
    BY FS_StrictSubsetOrderingWellFounded
  <2> HIDE DEF R, parts
  <2> QED BY <1>2, <2>1, WFMin
<1>4. PICK n \in S : \A other \in parts : ~(<<other, upTo(n)>> \in R)
  BY <1>3
<1>5. ASSUME NEW m \in S, m < n
      PROVE  FALSE
  <2>1. n \in Nat /\ m \in Nat /\ ~(n <= m)
    BY <1>0, <1>5
  <2>2. \A k \in upTo(m) : k \in S /\ k \in Nat /\ k <= m
    BY <1>0
  <2>3. \A k \in upTo(m) : k <= n
    BY <1>5, <2>1, <2>2
  <2>4. upTo(m) \subseteq upTo(n) /\ n \notin upTo(m)
    BY <2>1, <2>2, <2>3
  <2>5. upTo(m) # upTo(n) /\ upTo(n) \subseteq Nat
    BY <1>0, <1>1, <2>4
  <2>6. <<upTo(m), upTo(n)>> \in R
    BY <2>4, <2>5 DEF StrictSubsetOrdering
  <2> QED BY <1>4, <2>6
<1> QED BY <1>0, <1>5

(***************************************************************************)
(* SoundList and InOrder.  The buffers linked are those used last: they    *)
(* end with the one linked last, and each leads to the one after it in the *)
(* ring.  A buffer that is linked again was the first of a whole ring of   *)
(* them, and is the only one afterwards.                                   *)
(***************************************************************************)
\* The buffer j places before b in the ring.
Before(b, j) == IF j <= b THEN b - j ELSE b - j + Ring

\* The buffer linked last, and the number of telegrams linked so far.
Tip == IF job \in {"copy", "link"} THEN Before(Before(index, 1), 1)
       ELSE Before(index, 1)
Done == IF job = "idle" THEN released ELSE released - 1

\* n buffers are linked, and t is the last of them.
Chained(t, n) ==
    /\ n = 0 => first = Null /\ last = AtHead
    /\ n > 0 => first = Before(t, n - 1) /\ last = t /\ next[t] = Null
    /\ \A j \in 1 .. n - 1 : next[Before(t, j)] = Before(t, j - 1)

\* The last of them has telegram d, and the one taken out last is the one
\* before theirs.
Ordered(t, d, n) ==
    /\ n <= d
    /\ \A j \in 0 .. n - 1 : content[Before(t, j)] = d - j
    /\ hand # Null => content[hand] = d - n /\ n < d
    /\ job \in {"copy", "link"} => n < Ring /\ hand # Filled
    /\ job = "link" => content[Filled] = released
    /\ server \in {"none", "accept"} => d = n
    /\ client = "here" => Len(sent) = d - n - (IF hand = Null THEN 0 ELSE 1)
    /\ \A k \in DOMAIN sent : sent[k] = k

Stages ==
    /\ server = "send" <=> hand # Null
    /\ server \in {"none", "accept"} => client = "none"
    /\ client = "none" => sent = <<>>
    /\ job # "idle" => released > 0

Queue ==
    \E n \in 0 .. Ring :
        Chained(Tip, n) /\ (~lapped => Ordered(Tip, Done, n))

LEMMA RingOfTwo == Ring \in Nat /\ Ring >= 2 /\ Null = Ring /\ AtHead = Ring
                   /\ Buffers = 0 .. Ring - 1 /\ MaxTelegrams \in Nat
BY RingAssumption DEF Null, AtHead, Buffers

LEMMA BeforeIs ==
    ASSUME NEW b \in Buffers, NEW j \in 0 .. Ring - 1
    PROVE  /\ Before(b, j) \in Buffers /\ Before(b, j) # Null
           /\ j # 0 => Before(b, j) # b
BY RingOfTwo DEF Before

LEMMA BeforeDiffers ==
    ASSUME NEW b \in Buffers, NEW i \in 0 .. Ring - 1, NEW j \in 0 .. Ring - 1, i # j
    PROVE  Before(b, i) # Before(b, j)
BY RingOfTwo DEF Before

LEMMA BeforeZero == ASSUME NEW b \in Buffers PROVE Before(b, 0) = b
BY RingOfTwo DEF Before

LEMMA NextIs ==
    ASSUME NEW b \in Buffers
    PROVE  NextIndex(b) \in Buffers /\ Before(NextIndex(b), 1) = b
<1>1. NextIndex(b) = IF b = Ring - 1 THEN 0 ELSE b + 1
  BY RingAssumption DEF NextIndex, Buffers
<1> QED BY <1>1, RingOfTwo DEF Before

LEMMA BackOne ==
    ASSUME NEW b \in Buffers
    PROVE  (b + Ring - 1) % Ring = Before(b, 1)
<1>1. CASE b = 0
  <2>1. (0 + Ring - 1) % Ring = Ring - 1
    BY RingOfTwo
  <2> QED BY <1>1, <2>1, RingOfTwo DEF Before
<1>2. CASE b # 0
  <2>1. (b + Ring - 1) % Ring = b - 1
    BY <1>2, RingAssumption DEF Buffers
  <2> QED BY <1>2, <2>1, RingOfTwo DEF Before
<1> QED BY <1>1, <1>2

LEMMA FilledIs == ASSUME index \in Buffers PROVE Filled = Before(index, 1)
BY BackOne DEF Filled

\* t is the buffer before b: what is j before t is j + 1 before b.
LEMMA BeforeNext ==
    ASSUME NEW b \in Buffers, NEW j \in 0 .. Ring - 1
    PROVE  /\ j < Ring - 1 => Before(Before(b, 1), j) = Before(b, j + 1)
           /\ j = Ring - 1 => Before(Before(b, 1), j) = b
<1>1. CASE b = 0
  BY <1>1, RingOfTwo DEF Before
<1>2. CASE b # 0
  BY <1>2, RingOfTwo DEF Before
<1> QED BY <1>1, <1>2

(***************************************************************************)
(* The walk along the list.                                                *)
(***************************************************************************)
\* What Walk would be for a chain of n buffers that ends with t.
Path(t, n) == [k \in 0 .. Ring |-> IF k < n THEN Before(t, n - 1 - k) ELSE Null]

LEMMA PathWalks ==
    ASSUME NEW t \in Buffers, NEW n \in 0 .. Ring, Chained(t, n)
    PROVE  Path(t, n) =
               [k \in 0 .. Ring |->
                   IF k = 0 THEN first
                   ELSE IF Path(t, n)[k - 1] = Null THEN Null
                   ELSE next[Path(t, n)[k - 1]]]
<1> DEFINE p == Path(t, n)
<1> SUFFICES ASSUME NEW k \in 0 .. Ring
             PROVE  p[k] = IF k = 0 THEN first
                           ELSE IF p[k - 1] = Null THEN Null ELSE next[p[k - 1]]
  BY DEF Path
<1>0. Ring \in Nat /\ Ring >= 2 /\ n \in Nat /\ k \in Nat /\ n <= Ring /\ k <= Ring
  BY RingOfTwo
<1>p. \A i \in 0 .. Ring : p[i] = IF i < n THEN Before(t, n - 1 - i) ELSE Null
  BY DEF Path
<1>1. CASE k = 0
  BY <1>1, <1>0, <1>p DEF Chained
<1>2. CASE k # 0 /\ k - 1 >= n
  <2>1. p[k - 1] = Null /\ p[k] = Null
    BY <1>0, <1>2, <1>p
  <2> QED BY <1>2, <2>1
<1>3. CASE k # 0 /\ k - 1 = n - 1
  <2>1. p[k - 1] = Before(t, 0) /\ p[k] = Null
    BY <1>0, <1>3, <1>p
  <2>2. p[k - 1] = t /\ t # Null /\ next[t] = Null
    BY <2>1, <1>0, <1>3, BeforeZero, RingOfTwo DEF Chained
  <2> QED BY <1>3, <2>1, <2>2
<1>4. CASE k # 0 /\ k - 1 < n - 1
  <2>1. p[k - 1] = Before(t, n - k) /\ p[k] = Before(t, n - k - 1)
    <3>1. k - 1 < n /\ k < n /\ n - 1 - (k - 1) = n - k /\ n - 1 - k = n - k - 1
          /\ k - 1 \in 0 .. Ring
      BY <1>0, <1>4
    <3> QED BY <1>p, <3>1
  <2>2. n - k \in 1 .. n - 1 /\ n - k \in 0 .. Ring - 1
    BY <1>0, <1>4
  <2>3. next[Before(t, n - k)] = Before(t, n - k - 1) /\ Before(t, n - k) # Null
    BY <2>2, BeforeIs DEF Chained
  <2> QED BY <1>4, <2>1, <2>3
<1>5. k # 0 => k - 1 >= n \/ k - 1 = n - 1 \/ k - 1 < n - 1
  BY <1>0
<1> QED BY <1>1, <1>2, <1>3, <1>4, <1>5

LEMMA WalkExists ==
    ASSUME NEW t \in Buffers, NEW n \in 0 .. Ring, Chained(t, n)
    PROVE  Walk = [k \in 0 .. Ring |->
                      IF k = 0 THEN first
                      ELSE IF Walk[k - 1] = Null THEN Null ELSE next[Walk[k - 1]]]
<1> DEFINE p == Path(t, n)
<1>1. p = [k \in 0 .. Ring |-> IF k = 0 THEN first
                               ELSE IF p[k - 1] = Null THEN Null ELSE next[p[k - 1]]]
  BY PathWalks
<1> HIDE DEF p
<1> QED BY <1>1 DEF Walk

LEMMA WalkIs ==
    ASSUME NEW t \in Buffers, NEW n \in 0 .. Ring, Chained(t, n)
    PROVE  \A k \in 0 .. Ring : Walk[k] = Path(t, n)[k]
<1> DEFINE p == Path(t, n)
<1> DEFINE bad == {k \in 0 .. Ring : Walk[k] # p[k]}
<1>0. p = [k \in 0 .. Ring |-> IF k = 0 THEN first
                               ELSE IF p[k - 1] = Null THEN Null ELSE next[p[k - 1]]]
  BY PathWalks
<1> HIDE DEF p
<1>1. \A k \in 0 .. Ring : p[k] = IF k = 0 THEN first
                                  ELSE IF p[k - 1] = Null THEN Null ELSE next[p[k - 1]]
  BY <1>0
<1>2. \A k \in 0 .. Ring : Walk[k] = IF k = 0 THEN first
                                     ELSE IF Walk[k - 1] = Null THEN Null ELSE next[Walk[k - 1]]
  BY WalkExists
<1>3. SUFFICES ASSUME bad # {} PROVE FALSE
  BY DEF p
<1>4. bad \in SUBSET Nat
  BY RingOfTwo
<1>5. PICK k \in bad : \A m \in bad : k <= m
  BY <1>3, <1>4, LeastNumber
<1>6. k \in 0 .. Ring /\ Walk[k] # p[k] /\ k # 0
  BY <1>1, <1>2
<1>7. k - 1 \in 0 .. Ring /\ ~(k <= k - 1)
  BY <1>6, RingOfTwo
<1>8. Walk[k - 1] = p[k - 1]
  BY <1>5, <1>7
<1> QED BY <1>1, <1>2, <1>6, <1>8

LEMMA TypesKept ==
    ASSUME TypeOK, Stages, handle \/ server = "none", [Next]_vars
    PROVE  TypeOK' /\ Stages'
<1> USE RingOfTwo DEF queue, jobVars, mainVars
<1>0. hand = Null <=> server # "send"
  BY DEF Stages
<1>1. CASE GetBuffer
  <2>1. released' \in 0 .. MaxTelegrams /\ released' > 0
    BY <1>1 DEF GetBuffer, TypeOK
  <2>2. content' \in [Buffers -> 0 .. MaxTelegrams] /\ index' \in Buffers
        /\ job' \in {"idle", "copy", "link", "crashed"}
    <3>1. CASE ready
      <4>1. index \in Buffers /\ NextIndex(index) \in Buffers /\ Torn \in 0 .. MaxTelegrams
        BY NextIs DEF TypeOK, Torn
      <4> QED BY <1>1, <3>1, <4>1 DEF GetBuffer, TypeOK
    <3>2. CASE ~ready
      BY <1>1, <3>2 DEF GetBuffer, TypeOK
    <3> QED BY <3>1, <3>2
  <2>3. lapped' \in BOOLEAN
    BY <1>1 DEF GetBuffer, Linked, TypeOK
  <2>4. UNCHANGED <<queue, mainVars, server, hand, client, sent, late>>
    BY <1>1 DEF GetBuffer
  <2>5. TypeOK'
    BY <2>1, <2>2, <2>3, <2>4 DEF TypeOK
  <2> QED BY <2>1, <2>4, <2>5 DEF Stages
<1>2. CASE Copied
  <2>1. content' \in [Buffers -> 0 .. MaxTelegrams]
    BY <1>2 DEF Copied, TypeOK
  <2> QED BY <1>2, <2>1 DEF Copied, TypeOK, Stages
<1>3. CASE Enqueue
  <2>1. Filled \in Buffers
    BY FilledIs, BeforeIs DEF TypeOK
  <2>2. next' \in [Buffers -> Buffers \cup {Null}] /\ first' \in Buffers \cup {Null}
        /\ last' \in Buffers \cup {AtHead} /\ job' = "idle"
        /\ UNCHANGED <<content, index, released, lapped, mainVars, server, hand, client, sent, late>>
    BY <1>3, <2>1 DEF Enqueue, TypeOK
  <2> QED BY <2>2 DEF TypeOK, Stages
<1>4. CASE Accept
  BY <1>4, <1>0 DEF Accept, TypeOK, Stages
<1>5. CASE ServeFails
  BY <1>5, <1>0 DEF ServeFails, TypeOK, Stages
<1>6. CASE TestStop
  BY <1>6, <1>0 DEF TestStop, TypeOK, Stages
<1>7. CASE Dequeue
  <2>1. CASE first = Null
    BY <1>7, <2>1, <1>0 DEF Dequeue, TypeOK, Stages
  <2>2. CASE first # Null
    <3>1. first \in Buffers /\ next[first] \in Buffers \cup {Null}
      BY <2>2 DEF TypeOK
    <3>2. /\ first' = next[first] /\ hand' = first /\ server' = "send" /\ next' = next
          /\ last' \in Buffers \cup {AtHead}
      BY <1>7, <2>2 DEF Dequeue, TypeOK
    <3>3. UNCHANGED <<jobVars, mainVars, client, sent, late>>
      BY <1>7 DEF Dequeue
    <3>4. client # "none" \/ sent = <<>>
      BY DEF Stages
    <3> QED BY <2>2, <3>1, <3>2, <3>3, <3>4 DEF TypeOK, Stages
  <2> QED BY <2>1, <2>2
<1>8. CASE Send
  <2>1. hand \in Buffers
    BY <1>8, <1>0 DEF Send, TypeOK
  <2>2. content[hand] \in 0 .. MaxTelegrams
    BY <2>1 DEF TypeOK
  <2>3. sent' \in Seq(0 .. MaxTelegrams)
    BY <1>8, <2>2, AppendProperties DEF Send, TypeOK
  <2>4. late' \in Nat
    BY <1>8 DEF Send, TypeOK
  <2>5. /\ server' = "loop" /\ hand' = Null /\ UNCHANGED <<queue, jobVars, mainVars, client>>
        /\ client = "none" => sent' = sent
    BY <1>8 DEF Send
  <2>6. TypeOK'
    BY <2>3, <2>4, <2>5 DEF TypeOK
  <2> QED BY <2>5, <2>6 DEF Stages
<1>9. CASE LeaveOperation
  BY <1>9 DEF LeaveOperation, TypeOK, Stages
<1>10. ASSUME JsonStart
       PROVE  /\ handle' \in BOOLEAN /\ stop' \in BOOLEAN
              /\ server' \in {"none", "accept", "loop", "take", "send", "done"}
              /\ server' = server \/ (server = "none" /\ server' = "accept")
  BY <1>10 DEF JsonStart, TypeOK
<1>11. ASSUME UNCHANGED <<queue, jobVars, hand, client, sent, late>>,
              server' = server \/ (server = "none" /\ server' = "accept")
       PROVE  Stages'
  BY <1>11, <1>0 DEF Stages
<1>12. CASE FilterApplied
  BY <1>10, <1>11, <1>12 DEF FilterApplied, TypeOK
<1>13. CASE Leave
  BY <1>13 DEF Leave, TypeOK, Stages
<1>14. ASSUME NEW known \in BOOLEAN, JsonSetup(known)
       PROVE  TypeOK' /\ Stages'
  <2>1. CASE mode = "Operation" /\ known
    BY <1>10, <1>11, <1>14, <2>1 DEF JsonSetup, TypeOK
  <2>2. CASE ~(mode = "Operation" /\ known)
    BY <1>11, <1>14, <2>2 DEF JsonSetup, TypeOK
  <2> QED BY <2>1, <2>2
<1>15. ASSUME NEW known \in BOOLEAN, EnterOperation(known)
       PROVE  TypeOK' /\ Stages'
  BY <1>15 DEF EnterOperation, TypeOK, Stages
<1>16. CASE UNCHANGED vars
  BY <1>16 DEF vars, TypeOK, Stages
<1> QED
  BY <1>1, <1>2, <1>3, <1>4, <1>5, <1>6, <1>7, <1>8, <1>9, <1>12, <1>13, <1>14,
     <1>15, <1>16
  DEF Next

LEMMA TipIs ==
    ASSUME TypeOK
    PROVE  /\ Tip \in Buffers /\ Done \in Int
           /\ job \in {"copy", "link"} => Tip = Before(Before(index, 1), 1)
           /\ job \notin {"copy", "link"} => Tip = Before(index, 1)
<1>0. 1 \in 0 .. Ring - 1 /\ index \in Buffers
  BY RingOfTwo DEF TypeOK
<1>1. Before(index, 1) \in Buffers
  BY <1>0, BeforeIs
<1>2. Before(Before(index, 1), 1) \in Buffers
  BY <1>0, <1>1, BeforeIs
<1> QED BY <1>1, <1>2, RingOfTwo DEF Tip, Done, TypeOK

\* The buffer after the last one is the one a whole ring before it.
LEMMA AfterTip ==
    ASSUME NEW b \in Buffers
    PROVE  Before(Before(b, 1), Ring - 1) = b
BY RingOfTwo, BeforeNext

\* Neither queue nor buffers change, and the server does not send.
LEMMA QueueRests ==
    ASSUME TypeOK, Queue, UNCHANGED <<queue, jobVars, hand, sent>>,
           client' = "here" => client = "here",
           server' \in {"none", "accept"} => server \in {"none", "accept"}
    PROVE  Queue'
<1> USE DEF queue, jobVars
<1>1. PICK n \in 0 .. Ring : Chained(Tip, n) /\ (~lapped => Ordered(Tip, Done, n))
  BY DEF Queue
<1>2. Tip' = Tip /\ Done' = Done /\ Filled' = Filled
  BY DEF Tip, Done, Filled
<1>3. Chained(Tip, n)' <=> Chained(Tip, n)
  BY <1>2 DEF Chained
<1>4. Ordered(Tip, Done, n) => Ordered(Tip, Done, n)'
  BY <1>2 DEF Ordered
<1> QED BY <1>1, <1>3, <1>4 DEF Queue

LEMMA QueueAccepted == ASSUME TypeOK, Stages, Queue, Accept PROVE Queue'
<1> USE DEF queue, jobVars, mainVars
<1>1. PICK n \in 0 .. Ring : Chained(Tip, n) /\ (~lapped => Ordered(Tip, Done, n))
  BY DEF Queue
<1>2. /\ Tip' = Tip /\ Done' = Done /\ Filled' = Filled
      /\ UNCHANGED <<queue, jobVars, hand, sent>> /\ server = "accept" /\ server' = "loop"
  BY DEF Accept, Tip, Done, Filled
<1>3. Chained(Tip, n)' <=> Chained(Tip, n)
  BY <1>2 DEF Chained
<1>4. hand = Null /\ sent = <<>>
  BY <1>2 DEF Stages
<1>5. ASSUME Ordered(Tip, Done, n)
      PROVE  Ordered(Tip, Done, n)'
  <2>1. Len(sent) = 0 /\ Done = n /\ n \in Int
    BY <1>2, <1>4, <1>5, RingOfTwo DEF Ordered
  <2>2. Len(sent) = Done - n - 0
    BY <2>1
  <2> QED BY <1>2, <1>4, <1>5, <2>2 DEF Ordered
<1> QED BY <1>1, <1>2, <1>3, <1>5 DEF Queue

LEMMA QueueGot == ASSUME TypeOK, Stages, Queue, GetBuffer PROVE Queue'
<1> USE DEF queue, mainVars
<1>1. PICK n \in 0 .. Ring : Chained(Tip, n) /\ (~lapped => Ordered(Tip, Done, n))
  BY DEF Queue
<1>2. /\ UNCHANGED <<queue, server, hand, client, sent>> /\ job = "idle"
      /\ released' = released + 1 /\ released \in Nat /\ n \in Nat /\ n <= Ring
      /\ index \in Buffers /\ Tip \in Buffers
  BY TipIs DEF GetBuffer, TypeOK
<1>3. CASE ~ready
  <2>1. job' = "crashed" /\ UNCHANGED <<index, content, lapped>>
    BY <1>3 DEF GetBuffer
  <2>2. Tip' = Tip /\ Done' = Done
    BY <1>2, <2>1 DEF Tip, Done
  <2>3. Chained(Tip, n)' <=> Chained(Tip, n)
    BY <1>2, <2>2 DEF Chained
  <2>4. Ordered(Tip, Done, n) => Ordered(Tip, Done, n)'
    BY <1>2, <2>1, <2>2 DEF Ordered
  <2> QED BY <1>1, <2>1, <2>3, <2>4 DEF Queue
<1>4. CASE ready
  <2>1. /\ job' = "copy" /\ index' = NextIndex(index)
        /\ content' = [content EXCEPT ![index] = Torn]
        /\ lapped' = (lapped \/ Linked(index) \/ hand = index)
    BY <1>4 DEF GetBuffer
  <2>2. Before(index', 1) = index /\ index' \in Buffers
    BY <1>2, <2>1, NextIs
  <2>3. Filled' = index
    <3>1. (index' + Ring - 1) % Ring = Before(index', 1)
      BY <2>2, BackOne
    <3> QED BY <2>2, <3>1 DEF Filled
  <2>4. Tip' = Tip /\ Done' = Done
    <3>1. Tip = Before(index, 1) /\ Tip' = Before(Before(index', 1), 1)
      BY <1>2, <2>1 DEF Tip
    <3>2. Done' = released' - 1 /\ Done = released
      BY <1>2, <2>1 DEF Done
    <3> QED BY <1>2, <2>2, <3>1, <3>2
  <2>5. Chained(Tip, n)' <=> Chained(Tip, n)
    BY <1>2, <2>4 DEF Chained
  <2>6. Before(Tip, Ring - 1) = index
    <3>1. Tip = Before(index, 1)
      BY <1>2 DEF Tip
    <3> QED BY <1>2, <3>1, AfterTip
  <2>7. n = Ring => Linked(index)
    <3>1. ASSUME n = Ring PROVE Linked(index)
      <4>1. first = index
        BY <1>1, <2>6, <3>1, RingOfTwo DEF Chained
      <4>2. Walk[0] = first
        <5>1. 0 \in 0 .. Ring /\ Tip \in Buffers
          BY <1>2, RingOfTwo
        <5> QED BY <1>1, <5>1, WalkExists
      <4> QED BY <4>1, <4>2, RingOfTwo DEF Linked
    <3> QED BY <3>1
  <2>8. ASSUME Ordered(Tip, Done, n), ~lapped'
        PROVE  Ordered(Tip, Done, n)'
    <3>0. ~Linked(index) /\ hand # index
      BY <2>1, <2>8
    <3>1. n < Ring /\ hand # index
      <4>1. n # Ring
        BY <2>7, <3>0
      <4> QED BY <1>2, <3>0, <4>1, RingOfTwo
    <3>2. ASSUME NEW j \in 0 .. n - 1
          PROVE  content'[Before(Tip, j)] = Done - j
      <4>1. j \in 0 .. Ring - 1 /\ Ring - 1 \in 0 .. Ring - 1 /\ j # Ring - 1
        BY <1>2, <3>1, RingOfTwo
      <4>2. Before(Tip, j) # index /\ Before(Tip, j) \in Buffers
        BY <1>2, <2>6, <4>1, BeforeDiffers, BeforeIs
      <4>3. content'[Before(Tip, j)] = content[Before(Tip, j)]
        BY <2>1, <4>2 DEF TypeOK
      <4> QED BY <2>8, <4>3 DEF Ordered
    <3>3. hand # Null => content'[hand] = content[hand]
      BY <2>1, <3>1 DEF TypeOK
    <3> QED BY <1>2, <2>1, <2>3, <2>4, <2>8, <3>1, <3>2, <3>3 DEF Ordered
  <2> QED BY <1>1, <2>1, <2>5, <2>8 DEF Queue
<1> QED BY <1>3, <1>4

LEMMA QueueCopied == ASSUME TypeOK, Stages, Queue, Copied PROVE Queue'
<1> USE DEF queue, mainVars
<1>1. PICK n \in 0 .. Ring : Chained(Tip, n) /\ (~lapped => Ordered(Tip, Done, n))
  BY DEF Queue
<1>2. /\ UNCHANGED <<queue, index, released, lapped, server, hand, client, sent>>
      /\ job = "copy" /\ job' = "link" /\ n \in Nat /\ n <= Ring
      /\ content' = [content EXCEPT ![Filled] = released]
      /\ index \in Buffers /\ Tip \in Buffers
  BY TipIs DEF Copied, TypeOK
<1>3. Tip' = Tip /\ Done' = Done /\ Filled' = Filled
  BY <1>2 DEF Tip, Done, Filled
<1>4. Chained(Tip, n)' <=> Chained(Tip, n)
  BY <1>2, <1>3 DEF Chained
<1>5. Before(Tip, Ring - 1) = Filled /\ Filled \in Buffers
  <2>1. Filled = Before(index, 1) /\ Tip = Before(Filled, 1)
    BY <1>2, FilledIs, TipIs
  <2>2. Filled \in Buffers
    BY <1>2, <2>1, BeforeIs, RingOfTwo
  <2> QED BY <2>1, <2>2, AfterTip
<1>6. ASSUME Ordered(Tip, Done, n)
      PROVE  Ordered(Tip, Done, n)'
  <2>1. n < Ring /\ hand # Filled
    BY <1>2, <1>6 DEF Ordered
  <2>2. ASSUME NEW j \in 0 .. n - 1
        PROVE  content'[Before(Tip, j)] = Done - j
    <3>1. j \in 0 .. Ring - 1 /\ Ring - 1 \in 0 .. Ring - 1 /\ j # Ring - 1
      BY <1>2, <2>1, RingOfTwo
    <3>2. Before(Tip, j) # Filled /\ Before(Tip, j) \in Buffers
      BY <1>2, <1>5, <3>1, BeforeDiffers, BeforeIs
    <3>3. content'[Before(Tip, j)] = content[Before(Tip, j)]
      BY <1>2, <3>2 DEF TypeOK
    <3> QED BY <1>6, <3>3 DEF Ordered
  <2>3. hand # Null => content'[hand] = content[hand]
    BY <1>2, <2>1 DEF TypeOK
  <2>4. content'[Filled] = released
    BY <1>2, <1>5 DEF TypeOK
  <2> QED BY <1>2, <1>3, <1>6, <2>1, <2>2, <2>3, <2>4 DEF Ordered
<1> QED BY <1>1, <1>2, <1>4, <1>6 DEF Queue

LEMMA QueueEnqueued == ASSUME TypeOK, Stages, Queue, Enqueue PROVE Queue'
<1> USE DEF mainVars
<1>1. PICK n \in 0 .. Ring : Chained(Tip, n) /\ (~lapped => Ordered(Tip, Done, n))
  BY DEF Queue
<1>2. PICK b \in Buffers : b = Filled
  <2>1. Filled \in Buffers
    <3>1. 1 \in 0 .. Ring - 1 /\ index \in Buffers
      BY RingOfTwo DEF TypeOK
    <3> QED BY <3>1, FilledIs, BeforeIs
  <2> QED BY <2>1
<1>3. PICK t \in Buffers : t = Tip
  BY TipIs
<1>4. /\ job = "link" /\ job' = "idle"
      /\ next' = IF last = AtHead THEN [next EXCEPT ![b] = Null]
                 ELSE [[next EXCEPT ![b] = Null] EXCEPT ![last] = b]
      /\ first' = IF last = AtHead THEN b ELSE first
      /\ last' = b
      /\ UNCHANGED <<content, index, released, lapped, server, hand, client, sent>>
  BY <1>2 DEF Enqueue
<1>5. /\ t = Before(b, 1) /\ Tip' = b /\ Before(t, Ring - 1) = b /\ Before(b, 0) = b
      /\ Before(t, 0) = t /\ t # b
      /\ released \in Nat /\ Done = released - 1 /\ Done' = released
      /\ n \in Nat /\ n <= Ring
      /\ next \in [Buffers -> Buffers \cup {Null}]
  <2>1. b = Before(index, 1) /\ t = Before(b, 1)
    BY <1>2, <1>3, <1>4, FilledIs, TipIs DEF TypeOK
  <2>2. Tip' = Before(index', 1)
    BY <1>4 DEF Tip
  <2>3. Before(t, Ring - 1) = b /\ Before(b, 0) = b /\ Before(t, 0) = t
    BY <2>1, AfterTip, BeforeZero
  <2>4. t # b
    <3>1. 1 \in 0 .. Ring - 1 /\ 1 # 0
      BY RingOfTwo
    <3> QED BY <2>1, <3>1, BeforeIs
  <2>5. released \in Nat /\ Done = released - 1 /\ Done' = released
        /\ next \in [Buffers -> Buffers \cup {Null}]
    BY <1>4 DEF Done, TypeOK
  <2>6. n \in Nat /\ n <= Ring
    BY RingOfTwo
  <2> QED BY <1>4, <2>1, <2>2, <2>3, <2>4, <2>5, <2>6
<1>6. ASSUME NEW j \in 0 .. Ring - 2
      PROVE  Before(b, j + 1) = Before(t, j)
  BY <1>5, RingOfTwo, BeforeNext
<1>7. b \in 0 .. Ring - 1 /\ t \in 0 .. Ring - 1
  BY RingOfTwo
<1>o. ASSUME Ordered(Tip, Done, n), n < Ring, NEW m \in 0 .. Ring, m = n + 1
      PROVE  Ordered(b, released, m)'
  <2>1. content[b] = released
    BY <1>2, <1>4, <1>o DEF Ordered
  <2>2. ASSUME NEW j \in 0 .. m - 1
        PROVE  content'[Before(b, j)] = released' - j
    <3>1. CASE j = 0
      BY <1>4, <1>5, <2>1, <3>1
    <3>2. CASE j # 0
      <4>1. j - 1 \in 0 .. Ring - 2 /\ j - 1 \in 0 .. n - 1 /\ (j - 1) + 1 = j
        BY <1>5, <1>o, <3>2, RingOfTwo
      <4>2. Before(b, j) = Before(t, j - 1)
        BY <4>1, <1>6
      <4>3. content[Before(t, j - 1)] = Done - (j - 1)
        BY <4>1, <1>3, <1>o DEF Ordered
      <4>4. Done - (j - 1) = released - j
        BY <1>5, <4>1
      <4> QED BY <1>4, <4>2, <4>3, <4>4
    <3> QED BY <3>1, <3>2
  <2>3. n <= Done /\ m <= released /\ (n < Done => m < released)
        /\ Done - n = released - m /\ (Done = n => released = m)
    BY <1>5, <1>o DEF Ordered
  <2>4. Len(sent) = Done - n - (IF hand = Null THEN 0 ELSE 1) =>
            Len(sent) = released - m - (IF hand = Null THEN 0 ELSE 1)
    BY <2>3
  <2>5. hand # Null => content[hand] = released - m /\ m < released
    BY <1>o, <2>3 DEF Ordered
  <2>6. server \in {"none", "accept"} => released = m
    BY <1>o, <2>3 DEF Ordered
  <2>7. client = "here" => Len(sent) = released - m - (IF hand = Null THEN 0 ELSE 1)
    BY <1>o, <2>4 DEF Ordered
  <2>8. \A k \in DOMAIN sent : sent[k] = k
    BY <1>o DEF Ordered
  <2> QED BY <1>4, <2>2, <2>3, <2>5, <2>6, <2>7, <2>8 DEF Ordered
<1>8. CASE n = 0
  <2>1. first' = b /\ last' = b /\ next'[b] = Null
    BY <1>1, <1>4, <1>5, <1>8 DEF Chained
  <2>2. \A j \in 1 .. 1 - 1 : next'[Before(b, j)] = Before(b, j - 1)
    OBVIOUS
  <2>3. Chained(b, 1)'
    BY <1>5, <2>1, <2>2 DEF Chained
  <2>4. 1 \in 0 .. Ring /\ 1 = n + 1 /\ n < Ring
    BY <1>8, RingOfTwo
  <2>5. ~lapped' => Ordered(b, released, 1)'
    BY <1>1, <1>4, <1>o, <2>4
  <2> QED BY <1>4, <1>5, <2>3, <2>4, <2>5 DEF Queue
<1>9. CASE 0 < n /\ n < Ring
  <2>1. /\ first = Before(t, n - 1) /\ last = t
        /\ \A j \in 1 .. n - 1 : next[Before(t, j)] = Before(t, j - 1)
    BY <1>1, <1>3, <1>5, <1>9 DEF Chained
  <2>2. last # AtHead
    BY <2>1, <1>7, RingOfTwo
  <2>3. first' = first /\ next' = [[next EXCEPT ![b] = Null] EXCEPT ![t] = b]
    BY <1>4, <2>1, <2>2
  <2>4. next'[b] = Null /\ next'[t] = b
        /\ \A c \in Buffers : c # b /\ c # t => next'[c] = next[c]
    BY <1>5, <2>3
  <2>5. ASSUME NEW j \in 1 .. n
        PROVE  next'[Before(b, j)] = Before(b, j - 1)
    <3>1. CASE j = 1
      BY <1>5, <2>4, <3>1
    <3>2. CASE j # 1
      <4>1. j - 1 \in 1 .. n - 1 /\ j - 1 \in 0 .. Ring - 2 /\ j - 2 \in 0 .. Ring - 2
            /\ (j - 1) + 1 = j /\ (j - 2) + 1 = j - 1 /\ (j - 1) - 1 = j - 2
            /\ j - 1 \in 0 .. Ring - 1 /\ j - 1 # Ring - 1 /\ j - 1 # 0
            /\ Ring - 1 \in 0 .. Ring - 1
        BY <1>5, <1>9, <3>2, RingOfTwo
      <4>2. Before(b, j) = Before(t, j - 1) /\ Before(b, j - 1) = Before(t, j - 2)
        BY <4>1, <1>6
      <4>3. Before(t, j - 1) \in Buffers /\ Before(t, j - 1) # b /\ Before(t, j - 1) # t
        BY <4>1, <1>5, BeforeIs, BeforeDiffers
      <4>4. next[Before(t, j - 1)] = Before(t, j - 2)
        BY <2>1, <4>1
      <4> QED BY <2>4, <4>2, <4>3, <4>4
    <3> QED BY <3>1, <3>2
  <2>6. n + 1 \in 0 .. Ring /\ n - 1 \in 0 .. Ring - 2 /\ (n - 1) + 1 = n
        /\ (n + 1) - 1 = n /\ n + 1 > 0
    BY <1>5, <1>9, RingOfTwo
  <2>7. first' = Before(b, n)
    BY <2>1, <2>3, <2>6, <1>6
  <2>8. Chained(b, n + 1)'
    <3>1. first' = Before(b, (n + 1) - 1) /\ n + 1 # 0
      BY <2>6, <2>7
    <3>2. \A j \in 1 .. (n + 1) - 1 : next'[Before(b, j)] = Before(b, j - 1)
      BY <2>5, <2>6
    <3> QED BY <1>4, <2>4, <3>1, <3>2 DEF Chained
  <2>9. ~lapped' => Ordered(b, released, n + 1)'
    BY <1>1, <1>4, <1>9, <1>o, <2>6
  <2> QED BY <1>4, <1>5, <2>6, <2>8, <2>9 DEF Queue
<1>10. CASE n = Ring
  <2>1. first = b /\ last = t
    BY <1>1, <1>3, <1>5, <1>10, RingOfTwo DEF Chained
  <2>2. last # AtHead
    BY <2>1, <1>7, RingOfTwo
  <2>3. first' = b /\ next'[b] = Null
    BY <1>4, <1>5, <2>1, <2>2
  <2>4. \A j \in 1 .. 1 - 1 : next'[Before(b, j)] = Before(b, j - 1)
    OBVIOUS
  <2>5. Chained(b, 1)'
    BY <1>4, <1>5, <2>3, <2>4 DEF Chained
  <2>6. lapped'
    <3>1. n < Ring \/ lapped
      BY <1>1, <1>4 DEF Ordered
    <3> QED BY <3>1, <1>4, <1>10, <1>5, RingOfTwo
  <2> QED BY <1>5, <2>5, <2>6, RingOfTwo DEF Queue
<1> QED BY <1>5, <1>8, <1>9, <1>10, RingOfTwo

LEMMA QueueTaken == ASSUME TypeOK, Stages, Queue, Dequeue PROVE Queue'
<1> USE DEF jobVars, mainVars
<1>1. PICK n \in 0 .. Ring : Chained(Tip, n) /\ (~lapped => Ordered(Tip, Done, n))
  BY DEF Queue
<1>2. CASE first = Null
  BY <1>2, QueueRests DEF Dequeue, queue
<1>3. CASE first # Null
  <2>1. PICK t \in Buffers : t = Tip
    BY TipIs
  <2>2. PICK d \in Int : d = Done
    BY TipIs
  <2>3. /\ server = "take" /\ server' = "send" /\ hand' = first /\ first' = next[first]
        /\ last' = (IF next[first] = Null THEN AtHead ELSE last)
        /\ UNCHANGED <<next, content, index, job, released, lapped, client, sent>>
    BY <1>3 DEF Dequeue
  <2>4. Tip' = t /\ Done' = d /\ Filled' = Filled
    BY <2>1, <2>2, <2>3 DEF Tip, Done, Filled
  <2>5. n \in Nat /\ n > 0 /\ n <= Ring /\ n - 1 \in 0 .. Ring - 1 /\ n - 1 \in 0 .. Ring
    BY <1>1, <1>3, RingOfTwo DEF Chained
  <2>6. /\ first = Before(t, n - 1) /\ last = t /\ next[t] = Null
        /\ \A j \in 1 .. n - 1 : next[Before(t, j)] = Before(t, j - 1)
    BY <1>1, <2>1, <2>5 DEF Chained
  <2>7. first \in Buffers /\ Before(t, 0) = t
    BY <2>5, <2>6, BeforeIs, BeforeZero
  <2>8. Chained(t, n - 1)'
    <3>1. CASE n = 1
      <4>1. first = t
        BY <2>6, <2>7, <3>1
      <4>2. first' = Null /\ last' = AtHead
        BY <2>3, <2>6, <4>1
      <4>3. n - 1 = 0
        BY <3>1
      <4> QED BY <4>2, <4>3 DEF Chained
    <3>2. CASE n # 1
      <4>1. n - 1 \in 1 .. n - 1 /\ (n - 1) - 1 = n - 2 /\ n - 2 \in 0 .. Ring - 1
            /\ n - 1 # 0 /\ (n - 1) - 1 \in 0 .. n - 1
        BY <2>5, <3>2, RingOfTwo
      <4>2. next[first] = Before(t, n - 2) /\ Before(t, n - 2) # Null
        BY <2>6, <4>1, BeforeIs
      <4>3. first' = Before(t, (n - 1) - 1) /\ last' = t
        BY <2>3, <2>6, <4>1, <4>2
      <4>4. \A j \in 1 .. (n - 1) - 1 : next[Before(t, j)] = Before(t, j - 1)
        <5>1. \A j \in 1 .. (n - 1) - 1 : j \in 1 .. n - 1
          BY <2>5
        <5> QED BY <2>6, <5>1
      <4> QED BY <2>3, <2>6, <4>1, <4>3, <4>4 DEF Chained
    <3> QED BY <3>1, <3>2
  <2>9. ASSUME Ordered(t, d, n)
        PROVE  Ordered(t, d, n - 1)'
    <3>1. n <= d /\ n - 1 <= d /\ n - 1 < d /\ d - (n - 1) = d - n + 1
      BY <2>5, <2>9 DEF Ordered
    <3>2. hand = Null /\ hand' # Null
      BY <1>3, <2>3 DEF Stages
    <3>3. content[hand'] = d - (n - 1)
      <4>1. n - 1 \in 0 .. n - 1
        BY <2>5
      <4> QED BY <2>3, <2>6, <2>9, <4>1 DEF Ordered
    <3>4. ASSUME NEW j \in 0 .. (n - 1) - 1
          PROVE  content[Before(t, j)] = d - j
      <4>1. j \in 0 .. n - 1
        BY <2>5
      <4> QED BY <2>9, <4>1 DEF Ordered
    <3>5. ASSUME job \in {"copy", "link"}
          PROVE  n - 1 < Ring /\ hand' # Filled
      <4>1. n < Ring
        BY <2>9, <3>5 DEF Ordered
      <4>2. Filled = Before(t, Ring - 1)
        <5>1. index \in Buffers /\ 1 \in 0 .. Ring - 1
          BY RingOfTwo DEF TypeOK
        <5>2. Filled = Before(index, 1) /\ t = Before(Filled, 1) /\ Filled \in Buffers
          BY <2>1, <3>5, <5>1, FilledIs, TipIs, BeforeIs
        <5> QED BY <5>2, AfterTip
      <4>3. n - 1 # Ring - 1 /\ Ring - 1 \in 0 .. Ring - 1
        BY <2>5, <4>1, RingOfTwo
      <4>4. hand' # Filled
        BY <2>3, <2>5, <2>6, <4>2, <4>3, BeforeDiffers
      <4>5. n - 1 < Ring
        BY <2>5, <4>1, RingOfTwo
      <4> QED BY <4>4, <4>5
    <3>6. ASSUME client = "here"
          PROVE  Len(sent) = d - (n - 1) - 1
      <4>1. Len(sent) = d - n - 0
        BY <2>9, <3>2, <3>6 DEF Ordered
      <4> QED BY <4>1, <2>5
    <3>7. /\ job = "link" => content[Filled] = released
          /\ \A k \in DOMAIN sent : sent[k] = k
      BY <2>9 DEF Ordered
    <3> QED BY <2>3, <2>4, <3>1, <3>2, <3>3, <3>4, <3>5, <3>6, <3>7 DEF Ordered
  <2>10. ~lapped' => Ordered(t, d, n - 1)'
    BY <1>1, <2>1, <2>2, <2>3, <2>9
  <2> QED BY <2>4, <2>5, <2>8, <2>10 DEF Queue
<1> QED BY <1>2, <1>3

LEMMA QueueSent == ASSUME TypeOK, Stages, Queue, Send PROVE Queue'
<1> USE DEF queue, jobVars, mainVars
<1>1. PICK n \in 0 .. Ring : Chained(Tip, n) /\ (~lapped => Ordered(Tip, Done, n))
  BY DEF Queue
<1>2. PICK t \in Buffers : t = Tip
  BY TipIs
<1>3. PICK d \in Int : d = Done
  BY TipIs
<1>4. /\ server = "send" /\ server' = "loop" /\ hand' = Null
      /\ sent' = (IF client = "here" THEN Append(sent, content[hand]) ELSE sent)
      /\ UNCHANGED <<queue, jobVars, client>>
  BY DEF Send
<1>5. Tip' = t /\ Done' = d /\ Filled' = Filled
  BY <1>2, <1>3, <1>4 DEF Tip, Done, Filled
<1>6. Chained(t, n)'
  BY <1>1, <1>2, <1>4 DEF Chained
<1>7. hand # Null /\ hand \in Buffers /\ n \in Nat
  BY <1>4, RingOfTwo DEF Stages, TypeOK
<1>8. ASSUME Ordered(t, d, n)
      PROVE  Ordered(t, d, n)'
  <2>1. content[hand] = d - n /\ n < d
    BY <1>7, <1>8 DEF Ordered
  <2>a. /\ n <= d
        /\ \A j \in 0 .. n - 1 : content'[Before(t, j)] = d - j
        /\ job' \in {"copy", "link"} => n < Ring /\ hand' # Filled'
        /\ job' = "link" => content'[Filled'] = released'
    <3>1. Filled \in Buffers
      <4>1. index \in Buffers /\ 1 \in 0 .. Ring - 1
        BY RingOfTwo DEF TypeOK
      <4> QED BY <4>1, FilledIs, BeforeIs
    <3>2. hand' # Filled'
      BY <1>4, <1>5, <3>1, RingOfTwo
    <3>3. content' = content /\ job' = job /\ released' = released
      BY <1>4
    <3> QED BY <1>5, <1>8, <3>2, <3>3 DEF Ordered
  <2>b. SUFFICES /\ client = "here" => Len(sent') = d - n - 0
                 /\ \A k \in DOMAIN sent' : sent'[k] = k
    BY <1>4, <2>a DEF Ordered
  <2>2. CASE client = "here"
    <3>1. Len(sent) = d - n - 1
      BY <1>7, <1>8, <2>2 DEF Ordered
    <3>2. sent' = Append(sent, d - n) /\ sent \in Seq(0 .. MaxTelegrams)
          /\ d - n \in 0 .. MaxTelegrams
      <4>1. content[hand] \in 0 .. MaxTelegrams
        BY <1>7 DEF TypeOK
      <4> QED BY <1>4, <2>1, <2>2, <4>1 DEF TypeOK
    <3>3. /\ Len(sent') = Len(sent) + 1 /\ DOMAIN sent' = 1 .. Len(sent) + 1
          /\ \A k \in 1 .. Len(sent) : sent'[k] = sent[k]
          /\ sent'[Len(sent) + 1] = d - n
          /\ DOMAIN sent = 1 .. Len(sent) /\ Len(sent) \in Nat
      <4>1. sent' \in Seq(0 .. MaxTelegrams)
        BY <3>2, AppendProperties
      <4> QED BY <3>2, <4>1, AppendProperties, LenProperties
    <3>4. ASSUME NEW k \in DOMAIN sent'
          PROVE  sent'[k] = k
      <4>1. CASE k = Len(sent) + 1
        BY <4>1, <3>1, <3>3, <1>7
      <4>2. CASE k # Len(sent) + 1
        <5>1. k \in DOMAIN sent
          BY <3>3, <4>2
        <5>2. sent[k] = k
          BY <1>8, <5>1 DEF Ordered
        <5> QED BY <3>3, <5>1, <5>2
      <4> QED BY <4>1, <4>2
    <3>5. Len(sent') = d - n - 0
      BY <3>1, <3>3, <1>7
    <3> QED BY <3>4, <3>5
  <2>3. CASE client # "here"
    BY <1>4, <1>5, <1>8, <2>3 DEF Ordered
  <2> QED BY <2>2, <2>3
<1> QED BY <1>1, <1>2, <1>3, <1>4, <1>5, <1>6, <1>8 DEF Queue

LEMMA QueueKept ==
    ASSUME TypeOK, Stages, Queue, handle \/ server = "none", [Next]_vars
    PROVE  Queue'
<1> USE DEF mainVars
<1>1. ASSUME JsonStart
      PROVE  server' \in {"none", "accept"} => server \in {"none", "accept"}
  BY <1>1 DEF JsonStart
<1>2. CASE ServeFails
  BY <1>2, QueueRests DEF ServeFails
<1>3. CASE TestStop
  BY <1>3, QueueRests DEF TestStop
<1>4. CASE LeaveOperation
  BY <1>4, QueueRests DEF LeaveOperation
<1>5. CASE FilterApplied
  BY <1>1, <1>5, QueueRests DEF FilterApplied
<1>6. CASE Leave
  BY <1>6, QueueRests DEF Leave
<1>7. ASSUME NEW known \in BOOLEAN, JsonSetup(known)
      PROVE  Queue'
  BY <1>1, <1>7, QueueRests DEF JsonSetup
<1>8. ASSUME NEW known \in BOOLEAN, EnterOperation(known)
      PROVE  Queue'
  BY <1>8, QueueRests DEF EnterOperation
<1>9. CASE UNCHANGED vars
  BY <1>9, QueueRests DEF vars
<1> QED
  BY <1>2, <1>3, <1>4, <1>5, <1>6, <1>7, <1>8, <1>9, QueueAccepted, QueueGot,
     QueueCopied, QueueEnqueued, QueueTaken, QueueSent
  DEF Next

LEMMA QueueInit == Init => TypeOK /\ Stages /\ Queue
<1> SUFFICES ASSUME Init
             PROVE  TypeOK /\ Stages /\ Queue
  OBVIOUS
<1>1. 0 \in Buffers /\ 0 \in 0 .. Ring /\ 0 \in 0 .. MaxTelegrams
      /\ <<>> \in Seq(0 .. MaxTelegrams) /\ Len(<<>>) = 0 /\ DOMAIN <<>> = {}
  BY RingOfTwo, EmptySeq
<1>2. TypeOK
  BY <1>1 DEF Init, TypeOK, Torn
<1>3. Stages
  BY DEF Init, Stages
<1>4. Chained(Tip, 0)
  BY DEF Init, Chained
<1>5. Ordered(Tip, Done, 0)
  <2>1. Done = 0
    BY DEF Init, Done
  <2> QED BY <1>1, <2>1 DEF Init, Ordered
<1> QED BY <1>1, <1>2, <1>3, <1>4, <1>5 DEF Queue

\* The list is a list: from the first buffer the next fields lead to an
\* end, which is where stqh_last points.
SoundList ==
    /\ TypeOK
    /\ Walk[Ring] = Null
    /\ IF first = Null THEN last = AtHead
       ELSE \E k \in 0 .. Ring - 1 : Walk[k] = last /\ next[last] = Null
                                     /\ last # AtHead

LEMMA QueueIsSound == TypeOK /\ Queue => SoundList /\ InOrder
<1> SUFFICES ASSUME TypeOK, Queue
             PROVE  SoundList /\ InOrder
  OBVIOUS
<1>1. PICK n \in 0 .. Ring : Chained(Tip, n) /\ (~lapped => Ordered(Tip, Done, n))
  BY DEF Queue
<1>2. PICK t \in Buffers : t = Tip
  BY TipIs
<1>3. \A k \in 0 .. Ring : Walk[k] = Path(t, n)[k]
  BY <1>1, <1>2, WalkIs
<1>4. \A k \in 0 .. Ring : Walk[k] = IF k < n THEN Before(t, n - 1 - k) ELSE Null
  BY <1>3 DEF Path
<1>5. Walk[Ring] = Null
  <2>1. Ring \in 0 .. Ring /\ ~(Ring < n)
    BY RingOfTwo
  <2> QED BY <1>4, <2>1
<1>6. CASE n = 0
  <2>1. first = Null /\ last = AtHead
    BY <1>1, <1>6 DEF Chained
  <2> QED BY <1>1, <1>5, <2>1 DEF SoundList, InOrder, Ordered
<1>7. CASE n > 0
  <2>1. last = t /\ next[t] = Null /\ t # AtHead
    BY <1>1, <1>2, <1>7, RingOfTwo DEF Chained
  <2>2. n - 1 \in 0 .. Ring - 1 /\ n - 1 \in 0 .. Ring /\ n - 1 < n /\ n - 1 - (n - 1) = 0
    BY <1>7, RingOfTwo
  <2>3. Walk[n - 1] = t
    BY <1>4, <2>2, BeforeZero
  <2>4. first # Null
    BY <1>1, <1>2, <1>7, <2>2, BeforeIs DEF Chained
  <2> QED BY <1>1, <1>5, <2>1, <2>2, <2>3, <2>4 DEF SoundList, InOrder, Ordered
<1> QED BY <1>6, <1>7, RingOfTwo

QueueInv == IInv /\ TypeOK /\ Stages /\ Queue

\* The invariant the theorems below rest on.
THEOREM QueueInvariance == Spec => []QueueInv
<1>1. Init => QueueInv
  BY QueueInit, IInvInit DEF QueueInv
<1>2. QueueInv /\ [Next]_vars => QueueInv'
  <2> SUFFICES ASSUME QueueInv, [Next]_vars
               PROVE  QueueInv'
    OBVIOUS
  <2>1. handle \/ server = "none"
    BY DEF QueueInv, IInv
  <2> QED BY <2>1, IInvKept, TypesKept, QueueKept DEF QueueInv
<1> QED
  BY <1>1, <1>2, PTL DEF Spec

\* Over any changes of mode and comings and goings of clients JsonQueue
\* stays a list that ends where stqh_last points, though Enqueue links
\* buffers that are linked already, for any ring of two buffers or more.
THEOREM QueueIsAList == Spec => []SoundList
<1>1. QueueInv => SoundList
  BY QueueIsSound DEF QueueInv
<1> QED
  BY <1>1, QueueInvariance, PTL

\* As long as no buffer was reused before it was sent, the client gets the
\* telegrams whole, in the order they were released, and none is missing,
\* for any ring of two buffers or more.
THEOREM OrderedUntilReused == Spec => []InOrder
<1>1. QueueInv => InOrder
  BY QueueIsSound DEF QueueInv
<1> QED
  BY <1>1, QueueInvariance, PTL

(***************************************************************************)
(* The pointers implement JsonRing's line.  The invariant says how many    *)
(* buffers are linked and which, so a step changes the line by what it     *)
(* does to the number of them and to the one linked last.                  *)
(***************************************************************************)
\* A line of n buffers in the ring's order that ends with t.
Lined(t, n) == [k \in 1 .. n |-> Before(t, n - k)]

Listed ==
    \E t \in Buffers, n \in 0 .. Ring :
        t = Tip /\ Chained(t, n) /\ Waiting = Lined(t, n)

LEMMA WaitingIs ==
    ASSUME NEW t \in Buffers, NEW n \in 0 .. Ring, Chained(t, n)
    PROVE  Waiting = Lined(t, n)
<1>0. Ring \in Nat /\ n \in Nat /\ n <= Ring
  BY RingOfTwo
<1>1. \A k \in 0 .. Ring :
          Walk[k] = IF k < n THEN Before(t, n - 1 - k) ELSE Null
  BY WalkIs DEF Path
<1>2. ASSUME NEW j \in 1 .. Ring
      PROVE  /\ Walk[j - 1] # Null <=> j \in 1 .. n
             /\ j \in 1 .. n => Walk[j - 1] = Before(t, n - j)
  <2>1. j - 1 \in 0 .. Ring /\ (j - 1 < n <=> j \in 1 .. n)
        /\ n - 1 - (j - 1) = n - j
    BY <1>0
  <2>2. j \in 1 .. n => n - j \in 0 .. Ring - 1
    BY <1>0
  <2>3. j \in 1 .. n => Before(t, n - j) # Null
    BY <2>2, BeforeIs
  <2> QED BY <1>1, <2>1, <2>3
<1>3. 1 .. n \subseteq 1 .. Ring
  BY <1>0
<1>4. {j \in 1 .. Ring : Walk[j - 1] # Null} = 1 .. n
  BY <1>2, <1>3
<1>5. \A j \in 1 .. n : Walk[j - 1] = Before(t, n - j)
  BY <1>2, <1>3
<1> QED BY <1>4, <1>5 DEF Waiting, Lined

LEMMA QueueIsListed == TypeOK /\ Queue => Listed
<1> SUFFICES ASSUME TypeOK, Queue
             PROVE  Listed
  OBVIOUS
<1>1. PICK t \in Buffers : t = Tip
  BY TipIs
<1>2. PICK n \in 0 .. Ring : Chained(t, n)
  BY <1>1 DEF Queue
<1>3. Waiting = Lined(t, n)
  BY <1>2, WaitingIs
<1> QED BY <1>1, <1>2, <1>3 DEF Listed

\* The first buffer tells how many are linked.
LEMMA FirstTells ==
    ASSUME NEW t \in Buffers, NEW f, NEW n \in 0 .. Ring, NEW m \in 0 .. Ring,
           n = 0 => f = Null, n > 0 => f = Before(t, n - 1),
           m = 0 => f = Null, m > 0 => f = Before(t, m - 1)
    PROVE  n = m
<1>1. n > 0 => n - 1 \in 0 .. Ring - 1
  BY RingOfTwo
<1>2. m > 0 => m - 1 \in 0 .. Ring - 1
  BY RingOfTwo
<1>3. n > 0 => f # Null
  BY <1>1, BeforeIs
<1>4. m > 0 => f # Null
  BY <1>2, BeforeIs
<1>5. CASE n > 0 /\ m > 0
  <2>1. n - 1 = m - 1
    BY <1>1, <1>2, <1>5, BeforeDiffers
  <2> QED BY <2>1, RingOfTwo
<1>6. CASE ~(n > 0 /\ m > 0)
  <2>1. ~(n > 0) /\ ~(m > 0)
    BY <1>3, <1>4, <1>6
  <2> QED BY <2>1, RingOfTwo
<1> QED BY <1>5, <1>6

LEMMA LinedIs ==
    ASSUME NEW t \in Buffers, NEW n \in 0 .. Ring
    PROVE  /\ Lined(t, n) \in Seq(Buffers) /\ Len(Lined(t, n)) = n
           /\ DOMAIN Lined(t, n) = 1 .. n
           /\ \A k \in 1 .. n : Lined(t, n)[k] = Before(t, n - k)
<1>1. n \in Nat
  BY RingOfTwo
<1>2. ASSUME NEW k \in 1 .. n
      PROVE  Before(t, n - k) \in Buffers
  <2>1. n - k \in 0 .. Ring - 1
    BY RingOfTwo
  <2> QED BY <2>1, BeforeIs
<1>3. Lined(t, n) \in [1 .. n -> Buffers]
  BY <1>2 DEF Lined
<1>4. Lined(t, n) \in Seq(Buffers)
  BY <1>1, <1>3, SeqDef
<1>5. DOMAIN Lined(t, n) = 1 .. n
  BY DEF Lined
<1>6. Len(Lined(t, n)) = n
  BY <1>1, <1>4, <1>5, LenProperties
<1> QED BY <1>4, <1>5, <1>6 DEF Lined

\* One buffer after those linked.
LEMMA LinedMore ==
    ASSUME NEW b \in Buffers, NEW n \in 0 .. Ring - 1
    PROVE  Lined(b, n + 1) = Append(Lined(Before(b, 1), n), b)
<1> DEFINE t == Before(b, 1)
<1>0. n \in Nat /\ n < Ring /\ n + 1 \in 0 .. Ring /\ n \in 0 .. Ring
      /\ 1 \in 0 .. Ring - 1 /\ (n + 1) - (n + 1) = 0
  BY RingOfTwo
<1>1. t \in Buffers
  BY <1>0, BeforeIs
<1> HIDE DEF t
<1>2. /\ Lined(t, n) \in Seq(Buffers) /\ Len(Lined(t, n)) = n
      /\ \A k \in 1 .. n : Lined(t, n)[k] = Before(t, n - k)
  BY <1>0, <1>1, LinedIs
<1>3. /\ Lined(b, n + 1) \in Seq(Buffers) /\ Len(Lined(b, n + 1)) = n + 1
      /\ \A k \in 1 .. n + 1 : Lined(b, n + 1)[k] = Before(b, n + 1 - k)
  BY <1>0, LinedIs
<1>4. /\ Append(Lined(t, n), b) \in Seq(Buffers)
      /\ Len(Append(Lined(t, n), b)) = n + 1
      /\ \A k \in 1 .. n : Append(Lined(t, n), b)[k] = Lined(t, n)[k]
      /\ Append(Lined(t, n), b)[n + 1] = b
  BY <1>2, AppendProperties
<1>5. ASSUME NEW k \in 1 .. n + 1
      PROVE  Lined(b, n + 1)[k] = Append(Lined(t, n), b)[k]
  <2>1. CASE k = n + 1
    <3>1. n + 1 - k = 0
      BY <1>0, <2>1
    <3> QED BY <1>3, <1>4, <2>1, <3>1, BeforeZero
  <2>2. CASE k # n + 1
    <3>1. k \in 1 .. n /\ n - k \in 0 .. Ring - 1 /\ n - k < Ring - 1
          /\ (n - k) + 1 = n + 1 - k
      BY <1>0, <2>2, RingOfTwo
    <3>2. Before(t, n - k) = Before(b, n + 1 - k)
      BY <3>1, BeforeNext DEF t
    <3> QED BY <1>2, <1>3, <1>4, <3>1, <3>2
  <2> QED BY <2>1, <2>2
<1>6. Lined(b, n + 1) = Append(Lined(t, n), b)
  BY <1>3, <1>4, <1>5, SeqEqual
<1> QED BY <1>6 DEF t

\* The first of those linked taken out.
LEMMA LinedLess ==
    ASSUME NEW t \in Buffers, NEW n \in 1 .. Ring
    PROVE  /\ Lined(t, n) # <<>> /\ Head(Lined(t, n)) = Before(t, n - 1)
           /\ Tail(Lined(t, n)) = Lined(t, n - 1)
<1>0. n \in Nat /\ n \in 0 .. Ring /\ n - 1 \in 0 .. Ring /\ 1 \in 1 .. n
      /\ n - 1 \in Nat
  BY RingOfTwo
<1>1. /\ Lined(t, n) \in Seq(Buffers) /\ Len(Lined(t, n)) = n
      /\ \A k \in 1 .. n : Lined(t, n)[k] = Before(t, n - k)
  BY <1>0, LinedIs
<1>2. /\ Lined(t, n - 1) \in Seq(Buffers) /\ Len(Lined(t, n - 1)) = n - 1
      /\ \A k \in 1 .. n - 1 : Lined(t, n - 1)[k] = Before(t, (n - 1) - k)
  BY <1>0, LinedIs
<1>3. Lined(t, n) # <<>>
  BY <1>0, <1>1, EmptySeq
<1>4. /\ Head(Lined(t, n)) = Lined(t, n)[1]
      /\ Tail(Lined(t, n)) \in Seq(Buffers)
      /\ Len(Tail(Lined(t, n))) = n - 1
      /\ \A k \in 1 .. n - 1 : Tail(Lined(t, n))[k] = Lined(t, n)[k + 1]
  BY <1>1, <1>3, HeadTailProperties
<1>5. ASSUME NEW k \in 1 .. n - 1
      PROVE  Tail(Lined(t, n))[k] = Lined(t, n - 1)[k]
  <2>1. k + 1 \in 1 .. n /\ n - (k + 1) = (n - 1) - k
    BY <1>0
  <2> QED BY <1>1, <1>2, <1>4, <2>1
<1>6. Tail(Lined(t, n)) = Lined(t, n - 1)
  BY <1>2, <1>4, <1>5, SeqEqual
<1> QED BY <1>0, <1>1, <1>3, <1>4, <1>6

LEMMA NextOfBefore ==
    ASSUME NEW i \in Buffers
    PROVE  NextIndex(Before(i, 1)) = i
<1>1. CASE i = 0
  <2>1. Before(i, 1) = Ring - 1 /\ (Ring - 1) + 1 = Ring
    BY <1>1, RingOfTwo DEF Before
  <2>2. Ring % Ring = 0
    BY RingOfTwo
  <2> QED BY <1>1, <2>1, <2>2 DEF NextIndex
<1>2. CASE i # 0
  <2>1. Before(i, 1) = i - 1 /\ (i - 1) + 1 = i
    BY <1>2, RingOfTwo DEF Before
  <2>2. i % Ring = i
    BY RingOfTwo
  <2> QED BY <2>1, <2>2 DEF NextIndex
<1> QED BY <1>1, <1>2

\* Where first and the buffer linked last stay, so does the line.
LEMMA LineRests ==
    ASSUME Listed, Listed', first' = first, Tip' = Tip
    PROVE  Waiting' = Waiting
<1>1. PICK t \in Buffers, n \in 0 .. Ring :
          t = Tip /\ Chained(t, n) /\ Waiting = Lined(t, n)
  BY DEF Listed
<1>2. PICK u \in Buffers, m \in 0 .. Ring :
          u = Tip' /\ Chained(u, m)' /\ Waiting' = Lined(u, m)
  BY DEF Listed
<1>3. /\ u = t
      /\ n = 0 => first = Null
      /\ n > 0 => first = Before(t, n - 1)
      /\ m = 0 => first = Null
      /\ m > 0 => first = Before(t, m - 1)
  BY <1>1, <1>2 DEF Chained
<1>4. n = m
  BY <1>3, FirstTells
<1> QED BY <1>1, <1>2, <1>3, <1>4

LEMMA LinePuts ==
    ASSUME TypeOK, Stages, Listed, Listed', Enqueue
    PROVE  Line!Put
<1> USE DEF mainVars
<1>1. PICK t \in Buffers, n \in 0 .. Ring :
          t = Tip /\ Chained(t, n) /\ Waiting = Lined(t, n)
  BY DEF Listed
<1>2. PICK b \in Buffers : b = Filled /\ b = Before(index, 1)
  <2>1. index \in Buffers /\ 1 \in 0 .. Ring - 1
    BY RingOfTwo DEF TypeOK
  <2> QED BY <2>1, FilledIs, BeforeIs
<1>3. /\ job = "link" /\ job' = "idle" /\ index' = index /\ hand' = hand
      /\ first' = IF last = AtHead THEN b ELSE first
  BY <1>2 DEF Enqueue
<1>4. /\ t = Before(b, 1) /\ Tip' = b /\ Before(t, Ring - 1) = b
      /\ Before(b, 0) = b /\ n \in Nat /\ n <= Ring
  <2>1. t = Before(b, 1)
    BY <1>1, <1>2, <1>3, TipIs
  <2>2. Tip' = b
    BY <1>2, <1>3 DEF Tip
  <2> QED BY <2>1, <2>2, AfterTip, BeforeZero, RingOfTwo
<1>5. Turn = b /\ Turn' = (b + 1) % Ring
  <2>1. NextIndex(b) = index /\ Turn' = index
    BY <1>2, <1>3, NextOfBefore DEF TypeOK, Turn
  <2> QED BY <1>2, <1>3, <2>1 DEF Turn, NextIndex
<1>6. PICK m \in 0 .. Ring : Chained(b, m)' /\ Waiting' = Lined(b, m)
  BY <1>4 DEF Listed
<1>7. /\ m = 0 => first' = Null
      /\ m > 0 => first' = Before(b, m - 1)
  BY <1>6 DEF Chained
<1>8. /\ n = 0 => first = Null /\ last = AtHead
      /\ n > 0 => first = Before(t, n - 1) /\ last = t /\ last # AtHead
  BY <1>1, RingOfTwo DEF Chained
<1>9. 0 \in 0 .. Ring - 1 /\ 1 \in 0 .. Ring /\ 0 \in 0 .. Ring /\ 1 - 1 = 0
      /\ 0 + 1 = 1
  BY RingOfTwo
<1>10. Lined(b, 1) = <<b>>
  <2>1. Lined(t, 0) = <<>>
    BY <1>9, LinedIs, EmptySeq
  <2>2. Lined(b, 1) = Append(<<>>, b)
    BY <1>4, <1>9, <2>1, LinedMore
  <2> QED BY <2>2
<1>11. CASE n < Ring
  <2>1. n \in 0 .. Ring - 1 /\ n + 1 \in 0 .. Ring /\ n + 1 > 0 /\ n + 1 # 0
        /\ (n + 1) - 1 = n
    BY <1>4, <1>11, RingOfTwo
  <2>2. first' = Before(b, n)
    <3>1. CASE n = 0
      BY <1>3, <1>4, <1>8, <3>1
    <3>2. CASE n # 0
      <4>1. n > 0 /\ n - 1 \in 0 .. Ring - 1 /\ n - 1 < Ring - 1
            /\ (n - 1) + 1 = n
        BY <1>4, <1>11, <3>2, RingOfTwo
      <4>2. first' = Before(t, n - 1)
        BY <1>3, <1>8, <4>1
      <4> QED BY <1>4, <4>1, <4>2, BeforeNext
    <3> QED BY <3>1, <3>2
  <2>3. PICK f : f = first'
    OBVIOUS
  <2>4. m = n + 1
    BY <1>7, <2>1, <2>2, <2>3, FirstTells
  <2>5. Waiting' = Append(Waiting, b)
    BY <1>1, <1>4, <1>6, <2>1, <2>4, LinedMore
  <2>6. ASSUME NEW k \in DOMAIN Waiting
        PROVE  Waiting[k] # b
    <3>1. k \in 1 .. n /\ Waiting[k] = Before(t, n - k)
      BY <1>1, LinedIs
    <3>2. n - k \in 0 .. Ring - 1 /\ n - k # Ring - 1 /\ Ring - 1 \in 0 .. Ring - 1
      BY <1>4, <1>11, <3>1, RingOfTwo
    <3>3. Before(t, n - k) # Before(t, Ring - 1)
      BY <3>2, BeforeDiffers
    <3> QED BY <1>4, <3>1, <3>3
  <2>7. ~Line!Waits(Turn)
    BY <1>5, <2>6 DEF Line!Waits
  <2> QED BY <1>3, <1>5, <2>5, <2>7 DEF Line!Put
<1>12. CASE n = Ring
  <2>1. n > 0 /\ n - 1 = Ring - 1 /\ 1 \in 1 .. n /\ 1 > 0 /\ 1 # 0
    BY <1>12, RingOfTwo
  <2>2. first' = Before(b, 1 - 1)
    BY <1>3, <1>4, <1>8, <1>9, <2>1
  <2>3. PICK f : f = first'
    OBVIOUS
  <2>4. m = 1
    BY <1>7, <1>9, <2>1, <2>2, <2>3, FirstTells
  <2>5. Waiting' = <<b>>
    BY <1>6, <1>10, <2>4
  <2>6. Waiting[1] = b /\ 1 \in DOMAIN Waiting
    BY <1>1, <1>4, <2>1, LinedIs
  <2>7. Line!Waits(Turn)
    BY <1>5, <2>6 DEF Line!Waits
  <2> QED BY <1>3, <1>5, <2>5, <2>7 DEF Line!Put
<1> QED BY <1>4, <1>11, <1>12, RingOfTwo

LEMMA LineTakes ==
    ASSUME TypeOK, Stages, Listed, Listed', Dequeue, first # Null
    PROVE  Line!Take
<1> USE DEF jobVars, mainVars
<1>1. PICK t \in Buffers, n \in 0 .. Ring :
          t = Tip /\ Chained(t, n) /\ Waiting = Lined(t, n)
  BY DEF Listed
<1>2. /\ server = "take" /\ hand' = first /\ first' = next[first]
      /\ UNCHANGED <<next, index, job>>
  BY DEF Dequeue
<1>3. Tip' = t /\ Turn' = Turn /\ hand = Null
  BY <1>1, <1>2 DEF Tip, Turn, Filled, Stages
<1>4. PICK m \in 0 .. Ring : Chained(t, m)' /\ Waiting' = Lined(t, m)
  BY <1>3 DEF Listed
<1>5. n \in Nat /\ n > 0 /\ n \in 1 .. Ring /\ n - 1 \in 0 .. Ring
      /\ n - 1 \in 0 .. Ring - 1
  BY <1>1, RingOfTwo DEF Chained
<1>6. /\ first = Before(t, n - 1) /\ next[t] = Null
      /\ \A j \in 1 .. n - 1 : next[Before(t, j)] = Before(t, j - 1)
  BY <1>1, <1>5 DEF Chained
<1>7. /\ n - 1 = 0 => first' = Null
      /\ n - 1 > 0 => first' = Before(t, (n - 1) - 1)
  <2>1. n - 1 = 0 => first = t
    BY <1>6, BeforeZero
  <2>2. n - 1 > 0 => n - 1 \in 1 .. n - 1
    BY <1>5
  <2> QED BY <1>2, <1>6, <2>1, <2>2
<1>8. /\ m = 0 => first' = Null
      /\ m > 0 => first' = Before(t, m - 1)
  BY <1>4 DEF Chained
<1>9. PICK f : f = first'
  OBVIOUS
<1>10. m = n - 1
  BY <1>5, <1>7, <1>8, <1>9, FirstTells
<1>11. /\ Waiting # <<>> /\ Head(Waiting) = first
       /\ Tail(Waiting) = Waiting'
  BY <1>1, <1>4, <1>5, <1>6, <1>10, LinedLess
<1> QED BY <1>2, <1>3, <1>11 DEF Line!Take

LEMMA LineStep ==
    ASSUME TypeOK, Stages, Listed, Listed', [Next]_vars
    PROVE  [Line!RingNext]_(Line!ringVars)
<1> USE DEF queue, jobVars, mainVars
<1>1. ASSUME UNCHANGED <<first, index, hand>>,
             job' \in {"copy", "link"} <=> job \in {"copy", "link"}
      PROVE  UNCHANGED Line!ringVars
  <2>1. Tip' = Tip /\ Turn' = Turn
    BY <1>1 DEF Tip, Turn, Filled
  <2> QED BY <1>1, <2>1, LineRests DEF Line!ringVars
<1>2. CASE GetBuffer
  <2>1. CASE ready
    <3>1. /\ job = "idle" /\ job' = "copy" /\ index' = NextIndex(index)
          /\ UNCHANGED <<first, hand>> /\ index \in Buffers
      BY <1>2, <2>1 DEF GetBuffer, TypeOK
    <3>2. Before(index', 1) = index /\ index' \in Buffers
      BY <3>1, NextIs
    <3>3. Turn' = Turn
      <4>1. Filled' = index
        BY <3>2, BackOne DEF Filled
      <4> QED BY <3>1, <4>1 DEF Turn
    <3>4. Tip' = Tip
      BY <3>1, <3>2 DEF Tip
    <3> QED BY <3>1, <3>3, <3>4, LineRests DEF Line!ringVars
  <2>2. CASE ~ready
    BY <1>1, <1>2, <2>2 DEF GetBuffer
  <2> QED BY <2>1, <2>2
<1>3. CASE Enqueue
  BY <1>3, LinePuts DEF Line!RingNext
<1>4. CASE Dequeue
  <2>1. CASE first = Null
    BY <1>1, <1>4, <2>1 DEF Dequeue
  <2>2. CASE first # Null
    BY <1>4, <2>2, LineTakes DEF Line!RingNext
  <2> QED BY <2>1, <2>2
<1>5. CASE Send
  <2>1. hand # Null /\ hand' = Null /\ UNCHANGED <<first, index, job>>
    BY <1>5 DEF Send, Stages
  <2>2. Tip' = Tip /\ Turn' = Turn
    BY <2>1 DEF Tip, Turn, Filled
  <2>3. Waiting' = Waiting
    BY <2>1, <2>2, LineRests
  <2> QED BY <2>1, <2>2, <2>3 DEF Line!RingNext, Line!Release
<1>6. CASE Copied
  BY <1>1, <1>6 DEF Copied
<1>7. CASE Accept \/ ServeFails \/ TestStop \/ LeaveOperation
           \/ FilterApplied \/ Leave
  BY <1>1, <1>7 DEF Accept, ServeFails, TestStop, LeaveOperation,
                    FilterApplied, Leave
<1>8. ASSUME NEW known \in BOOLEAN, JsonSetup(known) \/ EnterOperation(known)
      PROVE  [Line!RingNext]_(Line!ringVars)
  BY <1>1, <1>8 DEF JsonSetup, EnterOperation
<1>9. CASE UNCHANGED vars
  BY <1>1, <1>9 DEF vars
<1> QED
  BY <1>2, <1>3, <1>4, <1>5, <1>6, <1>7, <1>8, <1>9 DEF Next

LEMMA LineInit == Init => Line!RingInit
<1> SUFFICES ASSUME Init
             PROVE  Line!RingInit
  OBVIOUS
<1>1. Listed
  BY QueueInit, QueueIsListed
<1>2. PICK t \in Buffers, n \in 0 .. Ring :
          t = Tip /\ Chained(t, n) /\ Waiting = Lined(t, n)
  BY <1>1 DEF Listed
<1>3. first = Null /\ hand = Null /\ Turn = 0
  BY DEF Init, Turn
<1>4. n = 0
  <2>1. CASE n > 0
    <3>1. n - 1 \in 0 .. Ring - 1 /\ first = Before(t, n - 1)
      BY <1>2, <2>1, RingOfTwo DEF Chained
    <3> QED BY <1>3, <3>1, BeforeIs
  <2> QED BY <2>1, RingOfTwo
<1>5. Waiting = <<>>
  BY <1>2, <1>4, LinedIs, EmptySeq
<1> QED BY <1>3, <1>5 DEF Line!RingInit

\* JsonQueue and JsonIndex implement a first-in first-out line, for any
\* ring of two buffers or more: the server gets each buffer in its turn,
\* each link adds exactly one buffer at the end, and the link of a buffer
\* that is linked already drops the whole line but that buffer.
THEOREM LineImplemented == Spec => ImplementsLine
<1>1. QueueInv => Listed
  BY QueueIsListed DEF QueueInv
<1>2. QueueInv /\ Listed /\ Listed' /\ [Next]_vars
      => [Line!RingNext]_(Line!ringVars)
  BY LineStep DEF QueueInv
<1> QED
  BY <1>1, <1>2, LineInit, QueueInvariance, PTL
  DEF Spec, ImplementsLine, Line!RingSpec
=============================================================================
