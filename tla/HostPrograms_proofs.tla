------------------------- MODULE HostPrograms_proofs ------------------------
(***************************************************************************)
(* Proofs about the programs around dpride: whom the JSON service feeds    *)
(* and what its clients show, when a broker can be reached and what it     *)
(* forgets, and what address the monitor page has.  They hold for any      *)
(* clients, devices, networks, routes and bounds.                          *)
(***************************************************************************)
EXTENDS JsonClients, LoggerAddress, Brokers,
        SequenceTheorems, FiniteSetTheorems, WellFoundedInduction, TLAPS

(***************************************************************************)
(* JsonClients: OnlyTheFirst.  Who is first in the backlog while the       *)
(* service waits in accept is the one it will serve, and nobody is fed     *)
(* before that.                                                            *)
(***************************************************************************)
FirstServed ==
    /\ server \in {"none", "accept", "serve", "ended"}
    /\ backlog \in Seq(Clients)
    /\ first \in Clients \cup {Nobody}
    /\ server = "none" => backlog = <<>> /\ first = Nobody
    /\ server \in {"none", "accept"} => fed = {}
    /\ server = "accept" =>
           IF backlog = <<>> THEN first = Nobody ELSE first = Head(backlog)
    /\ server = "serve" => peer = first /\ first # Nobody
    /\ fed \subseteq {first}

\* A connection that is completed does not change who is served.
LEMMA ConnectedKeeps ==
    ASSUME FirstServed, NEW c \in Clients, Connected(c), Listening,
           UNCHANGED <<server, peer, fed>>
    PROVE  FirstServed'
<1> USE DEF FirstServed
<1>1. backlog' = Append(backlog, c) /\ backlog' \in Seq(Clients) /\ backlog' # <<>>
  BY AppendProperties DEF Connected
<1>2. first' = IF first = Nobody THEN c ELSE first
  BY DEF Connected
<1>3. c # Nobody
  BY ClientsAssumption
<1>4. CASE server = "accept" /\ backlog = <<>>
  <2>1. Head(backlog') = c
    BY <1>1, <1>4
  <2> QED BY <1>1, <1>2, <1>3, <1>4, <2>1
<1>5. CASE server = "accept" /\ backlog # <<>>
  <2>1. Head(backlog') = Head(backlog) /\ Head(backlog) \in Clients
    BY <1>1, <1>5
  <2>2. first = Head(backlog) /\ first # Nobody
    BY <1>5, <2>1, ClientsAssumption
  <2> QED BY <1>1, <1>2, <1>5, <2>1, <2>2
<1>6. CASE server = "serve"
  BY <1>1, <1>2, <1>6
<1> QED BY <1>4, <1>5, <1>6 DEF Listening

LEMMA FirstServedKept == FirstServed /\ [JsonNext]_jsonVars => FirstServed'
<1> SUFFICES ASSUME FirstServed, [JsonNext]_jsonVars
             PROVE  FirstServed'
  OBVIOUS
<1> USE DEF FirstServed, serviceVars, histories
<1>1. CASE StartService
  BY <1>1 DEF StartService
<1>2. CASE Accept
  <2>1. backlog # <<>> /\ Head(backlog) \in Clients /\ Tail(backlog) \in Seq(Clients)
    BY <1>2, HeadTailProperties DEF Accept
  <2>2. first = Head(backlog) /\ first # Nobody
    BY <1>2, <2>1, ClientsAssumption DEF Accept
  <2> QED BY <1>2, <2>1, <2>2 DEF Accept
<1>3. CASE JsonStop
  BY <1>3 DEF JsonStop
<1>4. CASE EndServer
  <2>1. <<>> \in Seq(Clients)
    OBVIOUS
  <2> QED BY <1>4, <2>1 DEF EndServer
<1>5. CASE Restart
  <2>1. <<>> \in Seq(Clients)
    OBVIOUS
  <2> QED BY <1>5, <2>1 DEF Restart
<1>6. CASE PortFree
  BY <1>6 DEF PortFree
<1>7. ASSUME NEW sound \in BOOLEAN, Send(sound)
      PROVE  FirstServed'
  <2>1. server = "serve" /\ fed' \subseteq fed \cup {peer}
    BY <1>7 DEF Send
  <2> QED BY <1>7, <2>1 DEF Send
<1>8. CASE MakeConnection
  <2>1. CASE Listening
    <3>1. Relay \in Clients
      BY DEF Clients
    <3> QED BY <1>8, <2>1, <3>1, ConnectedKeeps DEF MakeConnection
  <2>2. CASE ~Listening
    BY <1>8, <2>2 DEF MakeConnection
  <2> QED BY <2>1, <2>2
<1>9. CASE UpdateGraph \/ LoadPage
  BY <1>9 DEF UpdateGraph, LoadPage
<1>10. ASSUME NEW k, RelayData(k)
       PROVE  FirstServed'
  BY <1>10 DEF RelayData
<1>11. ASSUME NEW c \in Clients, CloseEvent(c)
       PROVE  FirstServed'
  BY <1>11 DEF CloseEvent
<1>12. ASSUME NEW c \in Readers, StartReader(c)
       PROVE  FirstServed'
  <2>1. CASE Listening
    <3>1. c \in Clients
      BY DEF Clients
    <3> QED BY <1>12, <2>1, <3>1, ConnectedKeeps DEF StartReader
  <2>2. CASE ~Listening
    BY <1>12, <2>2 DEF StartReader
  <2> QED BY <2>1, <2>2
<1>13. ASSUME NEW c \in Readers, Quit(c)
       PROVE  FirstServed'
  BY <1>13 DEF Quit
<1>14. ASSUME NEW c \in Printers, NEW k, PrintData(c, k)
       PROVE  FirstServed'
  BY <1>14 DEF PrintData
<1>15. ASSUME NEW c \in Parsers, NEW k, ParseData(c, k)
       PROVE  FirstServed'
  BY <1>15 DEF ParseData
<1>16. CASE UNCHANGED jsonVars
  BY <1>16 DEF jsonVars
<1> QED
  BY <1>1, <1>2, <1>3, <1>4, <1>5, <1>6, <1>7, <1>8, <1>9, <1>10, <1>11,
     <1>12, <1>13, <1>14, <1>15, <1>16
  DEF JsonNext

\* Between two starts of dpride telegrams go to nobody but the client that
\* connected first, whoever else is connected.
THEOREM OnlyTheFirstIsFed == JsonSpec => []OnlyTheFirst
<1>1. JsonInit => FirstServed
  <2> SUFFICES ASSUME JsonInit
               PROVE  FirstServed
    OBVIOUS
  <2>1. server = "none" /\ backlog = <<>> /\ first = Nobody /\ fed = {}
    BY DEF JsonInit
  <2>2. <<>> \in Seq(Clients)
    OBVIOUS
  <2> QED BY <2>1, <2>2 DEF FirstServed
<1>2. FirstServed => OnlyTheFirst
  BY DEF FirstServed, OnlyTheFirst
<1> QED
  BY <1>1, <1>2, FirstServedKept, PTL DEF JsonSpec

(***************************************************************************)
(* JsonClients: ShownOnce.  A byte of the service's stream has a place     *)
(* that does not change on its way; what is on the wire to a client is a   *)
(* run of places, and of one the service still sends to, it reaches to the *)
(* end of the stream.  A parser is always between two telegrams, or        *)
(* between the text and the '\0' of the last it has printed, and so at     *)
(* most one telegram fits the chunk it parses; the page is never behind    *)
(* the telegram it shows.                                                  *)
(***************************************************************************)
Types ==
    /\ ClientsTypeOK
    /\ Len(sent) <= MaxTelegrams /\ values <= Len(sent)
    /\ received => (values \in DOMAIN sent /\ sent[values])
    /\ \A c \in Clients : since[c] <= Len(sent)

\* The connections: who waits in the backlog is open or has left, waits
\* once and is not the peer, and who is ended by the other side is neither.
InLine(c) == \E i \in DOMAIN backlog : backlog[i] = c

Lines ==
    /\ \A i, j \in DOMAIN backlog : (backlog[i] = backlog[j]) => (i = j)
    /\ ~InLine(peer)
    /\ \A c \in Clients : c = peer \/ InLine(c) => state[c] # "off"
    /\ state[Relay] = "waiting" => ~InLine(Relay) /\ peer # Relay
    /\ \A c \in fin : state[c] = "open" /\ c # peer /\ ~InLine(c)

\* The place of a piece in the stream of all telegrams.
Place(p) == 3 * p.telegram -
    (IF p.part = "head" THEN 2 ELSE IF p.part = "rest" THEN 1 ELSE 0)

Served(c) == c = peer /\ PeerOpen
Flowing(c) == Served(c) \/ wire[c] # <<>>

\* b pieces of the stream are before what is on the wire to c.
Run(c, b) ==
    /\ b \in Nat
    /\ \A i \in DOMAIN wire[c] : Place(wire[c][i]) = b + i
    /\ b + Len(wire[c]) <= 3 * Len(sent)
    /\ Served(c) => b + Len(wire[c]) = 3 * Len(sent)

\* What c has made of the stream so far.
Read(c, b) ==
    /\ c \in Parsers =>
           LET m == since[c] + Len(shown[c]) IN b = 3 * m \/ b + 1 = 3 * m
    /\ c = Relay => 3 * values <= b + 1

Dry(c) ==
    /\ state[c] # "open" \/ InLine(c) => wire[c] = <<>>
    /\ c \in Parsers /\ (state[c] = "off" \/ InLine(c)) => shown[c] = <<>>

Stream(c) == Dry(c) /\ \E b \in Nat : Run(c, b) /\ (Flowing(c) => Read(c, b))

Streams == \A c \in Clients : Stream(c)

Graph ==
    /\ \A c \in Parsers : \A k \in DOMAIN shown[c] : shown[c][k] = since[c] + k
    /\ \A i, j \in DOMAIN points : (i < j) => (points[i] < points[j])
    /\ \A i \in DOMAIN points : sent[points[i]] /\ points[i] <= values
    /\ received => (\A i \in DOMAIN points : points[i] < values)

LEMMA Suffix ==
    ASSUME NEW S, NEW w \in Seq(S), NEW k \in 1 .. Len(w)
    PROVE  /\ SubSeq(w, k + 1, Len(w)) \in Seq(S)
           /\ Len(SubSeq(w, k + 1, Len(w))) = Len(w) - k
           /\ \A i \in 1 .. Len(w) - k : SubSeq(w, k + 1, Len(w))[i] = w[k + i]
<1>1. Len(w) \in Nat /\ k \in Nat /\ k + 1 \in Int /\ Len(w) \in Int
  BY LenProperties
<1>2. \A i \in k + 1 .. Len(w) : w[i] \in S
  BY <1>1, ElementOfSeq
<1>3. /\ SubSeq(w, k + 1, Len(w)) \in Seq(S)
      /\ Len(SubSeq(w, k + 1, Len(w))) =
             IF k + 1 <= Len(w) THEN Len(w) - (k + 1) + 1 ELSE 0
      /\ \A i \in 1 .. Len(w) - (k + 1) + 1 :
             SubSeq(w, k + 1, Len(w))[i] = w[(k + 1) + i - 1]
  BY <1>1, <1>2, SubSeqProperties
<1>4. Len(w) - (k + 1) + 1 = Len(w) - k /\ (~(k + 1 <= Len(w)) => Len(w) - k = 0)
  BY <1>1
<1>5. \A i \in 1 .. Len(w) - k : (k + 1) + i - 1 = k + i
  BY <1>1
<1> QED BY <1>3, <1>4, <1>5

LEMMA Prefix ==
    ASSUME NEW S, NEW w \in Seq(S), NEW k \in 1 .. Len(w)
    PROVE  ToSet(SubSeq(w, 1, k)) = {w[i] : i \in 1 .. k}
<1> DEFINE s == SubSeq(w, 1, k)
<1>1. Len(w) \in Nat /\ k \in Nat /\ k \in Int /\ 1 \in Int
  BY LenProperties
<1>2. \A i \in 1 .. k : w[i] \in S
  BY <1>1, ElementOfSeq
<1>3. s \in Seq(S) /\ Len(s) = (IF 1 <= k THEN k - 1 + 1 ELSE 0)
      /\ \A i \in 1 .. k - 1 + 1 : s[i] = w[1 + i - 1]
  BY <1>1, <1>2, SubSeqProperties
<1>4. Len(s) = k /\ \A i \in 1 .. k : s[i] = w[i]
  <2>1. k - 1 + 1 = k /\ 1 <= k /\ \A i \in 1 .. k : 1 + i - 1 = i
    BY <1>1
  <2> QED BY <1>3, <2>1
<1>5. DOMAIN s = 1 .. k
  BY <1>3, <1>4, LenProperties
<1> HIDE DEF s
<1> QED BY <1>4, <1>5 DEF ToSet, s

\* A chunk that is the text of one telegram begins with its head or with
\* the '\0' before it, and ends with its rest or its own '\0'.
LEMMA OneFits ==
    ASSUME NEW w \in Seq(Piece), NEW b \in Nat, NEW n \in Nat,
           \A i \in DOMAIN w : Place(w[i]) = b + i,
           NEW k \in 1 .. Len(w), IsTelegram(Text(SubSeq(w, 1, k)), n)
    PROVE  /\ b + 4 = 3 * n \/ b + 3 = 3 * n
           /\ b + k + 1 = 3 * n \/ b + k = 3 * n
<1> DEFINE chunk == {w[i] : i \in 1 .. k}
<1>1. Len(w) \in Nat /\ k \in Nat /\ k <= Len(w) /\ DOMAIN w = 1 .. Len(w)
  BY LenProperties
<1>2. {p \in chunk : p.part # "nul"} =
          {[telegram |-> n, part |-> "head"], [telegram |-> n, part |-> "rest"]}
  BY Prefix DEF IsTelegram, Text
<1>3. ASSUME NEW i \in 1 .. k
      PROVE  /\ w[i].telegram \in Nat /\ w[i].part \in {"head", "rest", "nul"}
             /\ Place(w[i]) = b + i
             /\ w[i].part # "nul" => w[i].telegram = n
  <2>1. w[i] \in Piece /\ i \in DOMAIN w /\ w[i] \in chunk
    BY <1>1, ElementOfSeq
  <2>2. w[i].telegram \in 1 .. MaxTelegrams /\ w[i].part \in {"head", "rest", "nul"}
    BY <2>1 DEF Piece
  <2>3. CASE w[i].part # "nul"
    <3>1. w[i] \in {[telegram |-> n, part |-> "head"], [telegram |-> n, part |-> "rest"]}
      BY <2>1, <2>3, <1>2
    <3>2. w[i].telegram = n
      BY <3>1
    <3> QED BY <2>1, <2>2, <3>2, ClientsAssumption
  <2> QED BY <2>1, <2>2, <2>3, ClientsAssumption
<1>4. PICK h \in 1 .. k : w[h] = [telegram |-> n, part |-> "head"]
  BY <1>2
<1>5. PICK r \in 1 .. k : w[r] = [telegram |-> n, part |-> "rest"]
  BY <1>2
<1>6. b + h = 3 * n - 2 /\ b + r = 3 * n - 1 /\ h \in Nat /\ r \in Nat
  <2>1. Place(w[h]) = 3 * n - 2 /\ Place(w[r]) = 3 * n - 1
    BY <1>4, <1>5 DEF Place
  <2> QED BY <2>1, <1>3, <1>1
<1>7. ASSUME NEW i \in 1 .. k
      PROVE  b + i \in {3 * n - 2, 3 * n - 1} \/ b + i = 3 * w[i].telegram
  <2>1. Place(w[i]) = b + i /\ w[i].telegram \in Nat
    BY <1>3
  <2>2. CASE w[i].part = "nul"
    BY <2>1, <2>2 DEF Place
  <2>3. CASE w[i].part = "head"
    <3>1. w[i].telegram = n
      BY <2>3, <1>3
    <3> QED BY <2>1, <2>3, <3>1 DEF Place
  <2>4. CASE w[i].part = "rest"
    <3>1. w[i].telegram = n
      BY <2>4, <1>3
    <3> QED BY <2>1, <2>4, <3>1 DEF Place
  <2> QED BY <1>3, <2>2, <2>3, <2>4
<1>8. h <= 2
  <2> SUFFICES ASSUME h > 2 PROVE FALSE
    BY <1>1
  <2>1. h - 2 \in 1 .. k
    BY <1>1
  <2>2. PICK t \in Nat : t = w[h - 2].telegram
    BY <2>1, <1>3
  <2>3. b + (h - 2) \in {3 * n - 2, 3 * n - 1} \/ b + (h - 2) = 3 * t
    BY <2>1, <2>2, <1>7
  <2>4. b + (h - 2) = 3 * n - 4
    BY <1>6
  <2>5. 3 * n - 4 # 3 * t /\ 3 * n - 4 \notin {3 * n - 2, 3 * n - 1}
    OBVIOUS
  <2> QED BY <2>3, <2>4, <2>5
<1>9. k <= r + 1
  <2> SUFFICES ASSUME k > r + 1 PROVE FALSE
    BY <1>1
  <2>1. r + 2 \in 1 .. k
    BY <1>1
  <2>2. PICK t \in Nat : t = w[r + 2].telegram
    BY <2>1, <1>3
  <2>3. b + (r + 2) \in {3 * n - 2, 3 * n - 1} \/ b + (r + 2) = 3 * t
    BY <2>1, <2>2, <1>7
  <2>4. b + (r + 2) = 3 * n + 1
    BY <1>6
  <2>5. 3 * n + 1 # 3 * t /\ 3 * n + 1 \notin {3 * n - 2, 3 * n - 1}
    OBVIOUS
  <2> QED BY <2>3, <2>4, <2>5
<1> QED BY <1>1, <1>6, <1>8, <1>9

LEMMA ParsedOne ==
    ASSUME NEW text, Parses(text)
    PROVE  Parsed(text) \in DOMAIN sent /\ IsTelegram(text, Parsed(text))
BY DEF Parses, Parsed

LEMMA TypesKept == Types /\ [JsonNext]_jsonVars => Types'
<1> SUFFICES ASSUME Types, [JsonNext]_jsonVars
             PROVE  Types'
  OBVIOUS
<1> USE DEF serviceVars, streamVars, clientVars, pageVars, histories
<1>0. /\ MaxTelegrams \in Nat /\ MaxRestarts \in Nat
      /\ Len(sent) \in Nat /\ DOMAIN sent = 1 .. Len(sent)
      /\ \A S : <<>> \in Seq(S)
      /\ Relay \in Clients /\ Readers \subseteq Clients
      /\ Printers \subseteq Clients /\ Parsers \subseteq Clients
  BY LenProperties, EmptySeq, ClientsAssumption DEF Types, ClientsTypeOK, Clients, Readers
<1>1. CASE StartService
  BY <1>1 DEF StartService, Types, ClientsTypeOK
<1>16. CASE JsonStop
  BY <1>16 DEF JsonStop, Types, ClientsTypeOK
<1>17. CASE PortFree
  BY <1>17 DEF PortFree, Types, ClientsTypeOK
<1>18. CASE UNCHANGED jsonVars
  BY <1>18 DEF jsonVars, Types, ClientsTypeOK
<1>2. CASE Accept
  <2>1. Head(backlog) \in Clients /\ Tail(backlog) \in Seq(Clients)
    BY <1>2, HeadTailProperties DEF Accept, Types, ClientsTypeOK
  <2>2. since' \in [Clients -> 0 .. MaxTelegrams] /\ \A c \in Clients : since'[c] <= Len(sent)
    BY <1>2, <2>1, <1>0 DEF Accept, Types, ClientsTypeOK
  <2> QED BY <1>2, <2>1, <2>2 DEF Accept, Types, ClientsTypeOK
<1>3. CASE EndServer
  BY <1>3, <1>0 DEF EndServer, ToSet, Types, ClientsTypeOK
<1>4. CASE Restart
  <2>1. restarts' \in 0 .. MaxRestarts
    BY <1>4, <1>0 DEF Restart, Types, ClientsTypeOK
  <2>2. fin' \subseteq Clients
    BY <1>4 DEF Restart, ToSet, Types, ClientsTypeOK
  <2>3. lingering' \in BOOLEAN
    BY <1>4 DEF Restart, PeerOpen, Types, ClientsTypeOK
  <2> QED BY <1>4, <2>1, <2>2, <2>3, <1>0 DEF Restart, Types, ClientsTypeOK
<1>5. ASSUME NEW sound \in BOOLEAN, Send(sound)
      PROVE  Types'
  <2> DEFINE Of(part) == [telegram |-> Len(sent) + 1, part |-> part]
  <2> DEFINE three == <<Of("head"), Of("rest"), Of("nul")>>
  <2>1. /\ sent' \in Seq(BOOLEAN) /\ Len(sent') = Len(sent) + 1
        /\ Len(sent') <= MaxTelegrams
        /\ \A i \in 1 .. Len(sent) : sent'[i] = sent[i]
    BY <1>5, <1>0, AppendProperties DEF Send, Types, ClientsTypeOK
  <2>2. three \in Seq(Piece)
    BY <1>5, <1>0 DEF Send, Piece
  <2>3. wire' \in [Clients -> Seq(Piece)]
    <3>1. CASE PeerOpen
      <4>1. peer \in Clients /\ wire[peer] \in Seq(Piece)
        BY <3>1 DEF PeerOpen, Types, ClientsTypeOK
      <4>2. wire[peer] \o three \in Seq(Piece)
        BY <4>1, <2>2, ConcatProperties
      <4>3. wire' = [wire EXCEPT ![peer] = wire[peer] \o three]
        BY <1>5, <3>1 DEF Send
      <4> HIDE DEF three
      <4> QED BY <4>1, <4>2, <4>3 DEF Types, ClientsTypeOK
    <3> QED BY <1>5, <3>1 DEF Send, Types, ClientsTypeOK
  <2>4. fed' \subseteq Clients
    BY <1>5 DEF Send, PeerOpen, Types, ClientsTypeOK
  <2>5. values <= Len(sent') /\ (received => (values \in DOMAIN sent' /\ sent'[values]))
        /\ \A c \in Clients : since[c] <= Len(sent')
    <3>1. DOMAIN sent' = 1 .. Len(sent')
      BY <2>1, LenProperties
    <3> QED BY <2>1, <3>1, <1>0 DEF Types, ClientsTypeOK
  <2> QED BY <1>5, <2>1, <2>3, <2>4, <2>5 DEF Send, Types, ClientsTypeOK
<1>6. CASE MakeConnection
  <2>1. CASE Listening
    <3>0. backlog' = Append(backlog, Relay) /\ Relay \in Clients
          /\ first' = IF first = Nobody THEN Relay ELSE first
      BY <1>6, <2>1, <1>0 DEF MakeConnection, Connected
    <3>1. backlog' \in Seq(Clients) /\ first' \in Clients \cup {Nobody}
      BY <3>0, AppendProperties DEF Types, ClientsTypeOK
    <3> QED BY <1>6, <2>1, <3>1, <1>0 DEF MakeConnection, Types, ClientsTypeOK
  <2>2. CASE ~Listening
    BY <1>6, <2>2, <1>0 DEF MakeConnection, NextTry, Types, ClientsTypeOK
  <2> QED BY <2>1, <2>2
<1>7. CASE UpdateGraph
  <2>1. values \in 1 .. MaxTelegrams
    BY <1>7, <1>0 DEF UpdateGraph, Types, ClientsTypeOK
  <2>2. points' \in Seq(1 .. MaxTelegrams)
    BY <1>7, <2>1, AppendProperties DEF UpdateGraph, Types, ClientsTypeOK
  <2> QED BY <1>7, <2>2 DEF UpdateGraph, Types, ClientsTypeOK
<1>8. CASE LoadPage
  <2>1. values' = 0 /\ received' = FALSE /\ points' = <<>>
        /\ UNCHANGED <<serviceVars, streamVars, clientVars, histories>>
    BY <1>8 DEF LoadPage
  <2>2. values' <= Len(sent') /\ values' \in 0 .. MaxTelegrams
    BY <2>1, <1>0
  <2> QED BY <2>1, <2>2, <1>0 DEF Types, ClientsTypeOK
<1>9. ASSUME NEW c \in Clients, NEW k \in 1 .. Len(wire[c]), Arrives(c, k)
      PROVE  wire' \in [Clients -> Seq(Piece)]
  <2>1. wire[c] \in Seq(Piece)
    BY DEF Types, ClientsTypeOK
  <2>2. SubSeq(wire[c], k + 1, Len(wire[c])) \in Seq(Piece)
    BY <2>1, Suffix
  <2> QED BY <1>9, <2>2 DEF Arrives, Types, ClientsTypeOK
<1>10. ASSUME NEW k, RelayData(k)
       PROVE  Types'
  <2> DEFINE text == Text(SubSeq(wire[Relay], 1, k))
  <2>1. wire' \in [Clients -> Seq(Piece)]
    BY <1>10, <1>9, <1>0 DEF RelayData
  <2>2. CASE Parses(text)
    <3>1. Parsed(text) \in DOMAIN sent /\ sent[Parsed(text)]
      BY <2>2, ParsedOne DEF IsTelegram
    <3>2. values' = Parsed(text) /\ received' = TRUE
      BY <1>10, <2>2 DEF RelayData
    <3> HIDE DEF text
    <3>3. values' \in DOMAIN sent /\ sent[values'] /\ values' \in 0 .. MaxTelegrams
          /\ values' <= Len(sent)
      BY <3>1, <3>2, <1>0 DEF Types
    <3> QED BY <1>10, <2>1, <3>2, <3>3 DEF RelayData, Types, ClientsTypeOK
  <2>3. CASE ~Parses(text)
    BY <1>10, <2>1, <2>3 DEF RelayData, Types, ClientsTypeOK
  <2> QED BY <2>2, <2>3
<1>11. ASSUME NEW c \in Clients, CloseEvent(c)
       PROVE  Types'
  BY <1>11 DEF CloseEvent, NextTry, Types, ClientsTypeOK
<1>12. ASSUME NEW c \in Readers, StartReader(c)
       PROVE  Types'
  <2>1. CASE Listening
    <3>0. backlog' = Append(backlog, c) /\ c \in Clients
          /\ first' = IF first = Nobody THEN c ELSE first
      BY <1>12, <2>1, <1>0 DEF StartReader, Connected
    <3>1. backlog' \in Seq(Clients) /\ first' \in Clients \cup {Nobody}
      BY <3>0, AppendProperties DEF Types, ClientsTypeOK
    <3> QED BY <1>12, <2>1, <3>1, <1>0 DEF StartReader, Types, ClientsTypeOK
  <2>2. CASE ~Listening
    BY <1>12, <2>2, <1>0 DEF StartReader, Types, ClientsTypeOK
  <2> QED BY <2>1, <2>2
<1>13. ASSUME NEW c \in Readers, Quit(c)
       PROVE  Types'
  BY <1>13, <1>0 DEF Quit, Types, ClientsTypeOK
<1>14. ASSUME NEW c \in Printers, NEW k, PrintData(c, k)
       PROVE  Types'
  <2>1. wire' \in [Clients -> Seq(Piece)]
    BY <1>14, <1>9, <1>0 DEF PrintData
  <2> QED BY <1>14, <2>1 DEF PrintData, Types, ClientsTypeOK
<1>15. ASSUME NEW c \in Parsers, NEW k, ParseData(c, k)
       PROVE  Types'
  <2> DEFINE text == Text(SubSeq(wire[c], 1, k))
  <2>1. c \in Clients /\ k \in 1 .. Len(wire[c])
    BY <1>15, <1>0 DEF ParseData
  <2>2. CASE Parses(text)
    <3>1. Parsed(text) \in 1 .. MaxTelegrams
      BY <2>2, ParsedOne, <1>0 DEF Types
    <3>2. shown' = [shown EXCEPT ![c] = Append(shown[c], Parsed(text))] /\ Arrives(c, k)
      BY <1>15, <2>2 DEF ParseData
    <3> HIDE DEF text
    <3>3. Append(shown[c], Parsed(text)) \in Seq(1 .. MaxTelegrams)
      BY <3>1, AppendProperties DEF Types, ClientsTypeOK
    <3>4. shown' \in [Parsers -> Seq(1 .. MaxTelegrams)]
      BY <3>2, <3>3 DEF Types, ClientsTypeOK
    <3>5. wire' \in [Clients -> Seq(Piece)]
      BY <2>1, <3>2, <1>9
    <3>6. UNCHANGED <<state, fin>>
      BY <1>15, <2>2 DEF ParseData, text
    <3> QED BY <1>15, <3>4, <3>5, <3>6 DEF ParseData, Types, ClientsTypeOK
  <2>3. CASE ~Parses(text)
    <3>1. /\ state' = [state EXCEPT ![c] = "ended"]
          /\ wire' = [wire EXCEPT ![c] = <<>>]
          /\ fin' = fin \ {c} /\ shown' = shown
      BY <1>15, <2>3 DEF ParseData
    <3> QED BY <1>15, <3>1, <1>0 DEF ParseData, Types, ClientsTypeOK
  <2> QED BY <2>2, <2>3
<1> QED
  BY <1>1, <1>2, <1>3, <1>4, <1>5, <1>6, <1>7, <1>8, <1>10, <1>11,
     <1>12, <1>13, <1>14, <1>15, <1>16, <1>17, <1>18
  DEF JsonNext

\* Nobody waits twice.
Once == \A i, j \in DOMAIN backlog : (backlog[i] = backlog[j]) => (i = j)

LEMMA JoinsLine ==
    ASSUME backlog \in Seq(Clients), Once, NEW c \in Clients, ~InLine(c),
           backlog' = Append(backlog, c)
    PROVE  Once' /\ \A d : InLine(d)' <=> (InLine(d) \/ d = c)
<1>1. /\ Len(backlog) \in Nat /\ DOMAIN backlog = 1 .. Len(backlog)
      /\ backlog' \in Seq(Clients) /\ Len(backlog') = Len(backlog) + 1
      /\ \A i \in 1 .. Len(backlog) : backlog'[i] = backlog[i]
      /\ backlog'[Len(backlog) + 1] = c
  BY AppendProperties, LenProperties
<1>2. DOMAIN backlog' = 1 .. Len(backlog) + 1
  BY <1>1, LenProperties
<1>3. \A d : InLine(d)' <=> (InLine(d) \/ d = c)
  <2> TAKE d
  <2>1. InLine(d)' => InLine(d) \/ d = c
    BY <1>1, <1>2 DEF InLine
  <2>2. InLine(d) => InLine(d)'
    BY <1>1, <1>2 DEF InLine
  <2>3. d = c => InLine(d)'
    BY <1>1, <1>2 DEF InLine
  <2> QED BY <2>1, <2>2, <2>3
<1>4. Once'
  <2> SUFFICES ASSUME NEW i \in DOMAIN backlog', NEW j \in DOMAIN backlog',
                      backlog'[i] = backlog'[j]
               PROVE  i = j
    BY DEF Once
  <2>1. \A n \in 1 .. Len(backlog) : backlog[n] # c
    BY <1>1 DEF InLine
  <2>2. CASE i = Len(backlog) + 1 \/ j = Len(backlog) + 1
    BY <1>1, <1>2, <2>1, <2>2
  <2>3. CASE i # Len(backlog) + 1 /\ j # Len(backlog) + 1
    <3>1. i \in DOMAIN backlog /\ j \in DOMAIN backlog
      BY <1>1, <1>2, <2>3
    <3> QED BY <1>1, <3>1 DEF Once
  <2> QED BY <2>2, <2>3
<1> QED BY <1>3, <1>4

LEMMA LeavesLine ==
    ASSUME backlog \in Seq(Clients), Once, backlog # <<>>,
           backlog' = Tail(backlog)
    PROVE  /\ Once' /\ InLine(Head(backlog))
           /\ \A d : InLine(d)' <=> (InLine(d) /\ d # Head(backlog))
<1>1. /\ Len(backlog) \in Nat /\ Len(backlog) >= 1
      /\ DOMAIN backlog = 1 .. Len(backlog) /\ Head(backlog) = backlog[1]
      /\ backlog' \in Seq(Clients) /\ Len(backlog') = Len(backlog) - 1
      /\ \A i \in 1 .. Len(backlog) - 1 : backlog'[i] = backlog[i + 1]
  BY HeadTailProperties, LenProperties, EmptySeq
<1>2. DOMAIN backlog' = 1 .. Len(backlog) - 1
  BY <1>1, LenProperties
<1>3. InLine(Head(backlog))
  <2>1. 1 \in DOMAIN backlog
    BY <1>1
  <2> QED BY <1>1, <2>1 DEF InLine
<1>4. \A d : InLine(d)' <=> (InLine(d) /\ d # Head(backlog))
  <2> TAKE d
  <2>1. ASSUME InLine(d)'
        PROVE  InLine(d) /\ d # Head(backlog)
    <3>1. PICK i \in 1 .. Len(backlog) - 1 : backlog'[i] = d
      BY <1>2, <2>1 DEF InLine
    <3>2. backlog[i + 1] = d /\ i + 1 \in DOMAIN backlog /\ 1 \in DOMAIN backlog /\ i + 1 # 1
      BY <1>1, <3>1
    <3> QED BY <1>1, <3>2 DEF InLine, Once
  <2>2. ASSUME InLine(d), d # Head(backlog)
        PROVE  InLine(d)'
    <3>1. PICK i \in 1 .. Len(backlog) : backlog[i] = d
      BY <1>1, <2>2 DEF InLine
    <3>2. i # 1
      BY <1>1, <2>2, <3>1
    <3>3. i - 1 \in 1 .. Len(backlog) - 1 /\ (i - 1) + 1 = i
      BY <1>1, <3>1, <3>2
    <3>4. backlog'[i - 1] = d
      BY <1>1, <3>1, <3>3
    <3> QED BY <1>2, <3>3, <3>4 DEF InLine
  <2> QED BY <2>1, <2>2
<1>5. Once'
  <2> SUFFICES ASSUME NEW i \in DOMAIN backlog', NEW j \in DOMAIN backlog',
                      backlog'[i] = backlog'[j]
               PROVE  i = j
    BY DEF Once
  <2>1. backlog[i + 1] = backlog[j + 1] /\ i + 1 \in DOMAIN backlog /\ j + 1 \in DOMAIN backlog
    BY <1>1, <1>2
  <2>2. i + 1 = j + 1
    BY <2>1 DEF Once
  <2> QED BY <1>1, <1>2, <2>2
<1> QED BY <1>3, <1>4, <1>5

LEMMA NoLine == ASSUME backlog' = <<>> PROVE Once' /\ \A d : ~InLine(d)'
BY DEF Once, InLine

LEMMA SameLine ==
    ASSUME backlog' = backlog
    PROVE  (Once => Once') /\ \A d : InLine(d)' <=> InLine(d)
BY DEF Once, InLine

LEMMA InToSet == ASSUME NEW c PROVE c \in ToSet(backlog) <=> InLine(c)
BY DEF ToSet, InLine

LEMMA LinesKept == Types /\ Lines /\ Streams /\ [JsonNext]_jsonVars => Lines'
<1> SUFFICES ASSUME Types, Lines, Streams, [JsonNext]_jsonVars
             PROVE  Lines'
  OBVIOUS
<1> USE DEF serviceVars, streamVars, clientVars, pageVars, histories
<1>0. /\ backlog \in Seq(Clients) /\ peer \in Clients \cup {Nobody}
      /\ state \in [Clients -> {"off", "open", "waiting", "ended"}]
      /\ fin \subseteq Clients /\ Nobody \notin Clients
      /\ Relay \in Clients /\ Readers \subseteq Clients /\ Relay \notin Readers
      /\ Printers \subseteq Readers /\ Parsers \subseteq Readers
  BY ClientsAssumption DEF Types, ClientsTypeOK, Clients, Readers
<1>a. /\ Once /\ ~InLine(peer)
      /\ \A c \in Clients : c = peer \/ InLine(c) => state[c] # "off"
      /\ state[Relay] = "waiting" => ~InLine(Relay) /\ peer # Relay
      /\ \A c \in fin : state[c] = "open" /\ c # peer /\ ~InLine(c)
  BY DEF Lines, Once
<1>c. ASSUME UNCHANGED <<backlog, peer>>
      PROVE  Once' /\ ~InLine(peer)' /\ \A d : InLine(d)' <=> InLine(d)
  <2>1. Once' /\ \A d : InLine(d)' <=> InLine(d)
    BY <1>c, <1>a, SameLine
  <2>2. ~InLine(peer)'
    BY <1>c, <1>a DEF InLine
  <2> QED BY <2>1, <2>2
<1>d. ASSUME UNCHANGED <<backlog, peer, fin, state>>
      PROVE  Lines'
  BY <1>a, <1>c, <1>d DEF Lines, Once
<1>1. CASE StartService
  BY <1>1, <1>d DEF StartService, Lines, Once
<1>2. CASE Accept
  <2>1. /\ Once' /\ InLine(Head(backlog)) /\ peer' = Head(backlog)
        /\ \A d : InLine(d)' <=> (InLine(d) /\ d # Head(backlog))
    BY <1>2, <1>0, <1>a, LeavesLine DEF Accept
  <2>2. Head(backlog) \in Clients /\ UNCHANGED <<fin, state>>
    BY <1>2, <1>0, HeadTailProperties DEF Accept
  <2>3. ~InLine(peer)'
    <3>1. \A d : d = peer' => ~InLine(d)'
      BY <2>1
    <3>2. \A d : (d = peer' /\ ~InLine(d)') => ~InLine(peer)'
      BY DEF InLine
    <3> QED BY <3>1, <3>2
  <2>4. \A c \in fin' : state'[c] = "open" /\ c # peer' /\ ~InLine(c)'
    BY <2>1, <2>2, <1>a
  <2>5. state'[Relay] = "waiting" => ~InLine(Relay)' /\ peer' # Relay
    BY <2>1, <2>2, <1>a
  <2> QED BY <2>1, <2>2, <2>3, <2>4, <2>5, <1>a DEF Lines, Once
<1>3. CASE JsonStop
  BY <1>3, <1>d DEF JsonStop, Lines, Once
<1>4. CASE EndServer
  <2>1. backlog' = <<>> /\ UNCHANGED <<peer, state>>
        /\ fin' = fin \cup {c \in ToSet(backlog) : state[c] = "open"}
    BY <1>4 DEF EndServer
  <2>2. Once' /\ \A d : ~InLine(d)'
    BY <2>1, NoLine
  <2>3. ~InLine(peer)'
    BY <2>1 DEF InLine
  <2>4. \A c \in fin' : state[c] = "open" /\ c # peer
    BY <2>1, <1>a, InToSet
  <2> QED BY <2>1, <2>2, <2>3, <2>4, <1>a DEF Lines, Once
<1>5. CASE Restart
  <2>1. backlog' = <<>> /\ peer' = Nobody /\ state' = state
        /\ fin' = fin \cup {c \in ToSet(backlog) \cup ({peer} \ {Nobody}) : state[c] = "open"}
    BY <1>5 DEF Restart
  <2>2. Once' /\ \A d : ~InLine(d)'
    BY <2>1, NoLine
  <2>3. ~InLine(peer)'
    BY <2>1 DEF InLine
  <2>4. \A c \in fin' : state[c] = "open" /\ c # Nobody
    <3>1. fin' \subseteq Clients
      BY <2>1, <1>0 DEF ToSet
    <3> QED BY <2>1, <3>1, <1>0, <1>a
  <2> QED BY <2>1, <2>2, <2>3, <2>4, <1>a, <1>0 DEF Lines, Once
<1>6. CASE PortFree
  BY <1>6, <1>d DEF PortFree, Lines, Once
<1>7. ASSUME NEW sound \in BOOLEAN, Send(sound)
      PROVE  Lines'
  BY <1>7, <1>d DEF Send
<1>8. ASSUME NEW c \in Clients, c # peer, ~InLine(c), c \notin fin,
             Connected(c), state' = [state EXCEPT ![c] = "open"],
             UNCHANGED <<peer, fin>>
      PROVE  Lines'
  <2>1. Once' /\ \A d : InLine(d)' <=> (InLine(d) \/ d = c)
    <3>1. backlog' = Append(backlog, c)
      BY <1>8 DEF Connected
    <3> QED BY <1>8, <3>1, <1>0, <1>a, JoinsLine
  <2>2. ~InLine(peer)'
    <3>1. \A d : d = peer' => ~InLine(d)'
      BY <2>1, <1>8, <1>a
    <3>2. \A d : (d = peer' /\ ~InLine(d)') => ~InLine(peer)'
      BY DEF InLine
    <3> QED BY <3>1, <3>2
  <2>3. state'[c] = "open" /\ \A d \in Clients : d # c => state'[d] = state[d]
    BY <1>8, <1>0
  <2>4. \A d \in Clients : d = peer' \/ InLine(d)' => state'[d] # "off"
    BY <2>1, <2>3, <1>8, <1>a
  <2>5. state'[Relay] = "waiting" => ~InLine(Relay)' /\ peer' # Relay
    BY <2>1, <2>3, <1>8, <1>a, <1>0
  <2>6. \A d \in fin' : state'[d] = "open" /\ d # peer' /\ ~InLine(d)'
    BY <2>1, <2>3, <1>8, <1>a, <1>0
  <2>7. \A i, j \in DOMAIN backlog' : (backlog'[i] = backlog'[j]) => (i = j)
    BY <2>1 DEF Once
  <2> QED BY <2>2, <2>4, <2>5, <2>6, <2>7 DEF Lines
<1>9. ASSUME NEW c \in Clients, c = peer \/ InLine(c) => state[c] # "off",
             NEW to \in {"waiting", "ended"}, state' = [state EXCEPT ![c] = to],
             to = "waiting" => c = Relay /\ ~InLine(Relay) /\ peer # Relay,
             fin' = fin \ {c}, UNCHANGED <<backlog, peer>>
      PROVE  Lines'
  <2>1. Once' /\ ~InLine(peer)' /\ \A d : InLine(d)' <=> InLine(d)
    BY <1>9, <1>c
  <2>2. state'[c] = to /\ \A d \in Clients : d # c => state'[d] = state[d]
    BY <1>9, <1>0
  <2>3. \A d \in Clients : d = peer' \/ InLine(d)' => state'[d] # "off"
    BY <2>1, <2>2, <1>9, <1>a
  <2>4. state'[Relay] = "waiting" => ~InLine(Relay)' /\ peer' # Relay
    BY <2>1, <2>2, <1>9, <1>a, <1>0
  <2>5. \A d \in fin' : state'[d] = "open" /\ d # peer' /\ ~InLine(d)'
    BY <2>1, <2>2, <1>9, <1>a, <1>0
  <2>6. \A i, j \in DOMAIN backlog' : (backlog'[i] = backlog'[j]) => (i = j)
    BY <2>1 DEF Once
  <2> QED BY <2>1, <2>3, <2>4, <2>5, <2>6 DEF Lines
<1>10. CASE MakeConnection
  <2>1. state[Relay] = "waiting" /\ UNCHANGED <<peer, fin>> /\ Relay \notin fin
    BY <1>10, <1>a DEF MakeConnection
  <2>2. CASE Listening
    <3>1. Connected(Relay) /\ state' = [state EXCEPT ![Relay] = "open"]
      BY <1>10, <2>2 DEF MakeConnection
    <3> QED BY <2>1, <3>1, <1>0, <1>a, <1>8 DEF Lines, Once
  <2>3. CASE ~Listening
    <3>1. state' = [state EXCEPT ![Relay] = "waiting"] /\ backlog' = backlog
      BY <1>10, <2>3 DEF MakeConnection, NextTry
    <3>2. fin' = fin \ {Relay}
      BY <2>1
    <3> QED BY <2>1, <3>1, <3>2, <1>0, <1>a, <1>9 DEF Lines, Once
  <2> QED BY <2>2, <2>3
<1>11. CASE UpdateGraph \/ LoadPage
  BY <1>11, <1>d DEF UpdateGraph, LoadPage, Lines, Once
<1>12. ASSUME NEW k, RelayData(k)
       PROVE  Lines'
  BY <1>12, <1>d DEF RelayData
<1>13. ASSUME NEW c \in Clients, CloseEvent(c)
       PROVE  Lines'
  <2>1. c \in fin /\ fin' = fin \ {c} /\ UNCHANGED <<backlog, peer>>
    BY <1>13 DEF CloseEvent
  <2>2. CASE c = Relay
    <3>1. state' = [state EXCEPT ![c] = "waiting"]
      BY <1>13, <2>2 DEF CloseEvent, NextTry
    <3> QED BY <2>1, <2>2, <3>1, <1>0, <1>a, <1>9
  <2>3. CASE c # Relay
    <3>1. state' = [state EXCEPT ![c] = "ended"]
      BY <1>13, <2>3 DEF CloseEvent
    <3> QED BY <2>1, <3>1, <1>0, <1>a, <1>9
  <2> QED BY <2>2, <2>3
<1>14. ASSUME NEW c \in Readers, StartReader(c)
       PROVE  Lines'
  <2>1. /\ c \in Clients /\ state[c] = "off" /\ UNCHANGED <<peer, fin>>
        /\ c \notin fin /\ c # peer /\ ~InLine(c)
    BY <1>14, <1>0, <1>a DEF StartReader
  <2>2. CASE Listening
    <3>1. Connected(c) /\ state' = [state EXCEPT ![c] = "open"]
      BY <1>14, <2>2 DEF StartReader
    <3> QED BY <2>1, <3>1, <1>8
  <2>3. CASE ~Listening
    <3>1. state' = [state EXCEPT ![c] = "ended"] /\ backlog' = backlog
      BY <1>14, <2>3 DEF StartReader
    <3>2. fin' = fin \ {c}
      BY <2>1
    <3> QED BY <2>1, <3>1, <3>2, <1>9
  <2> QED BY <2>2, <2>3
<1>15. ASSUME NEW c \in Readers, Quit(c)
       PROVE  Lines'
  <2>1. /\ c \in Clients /\ state[c] = "open" /\ state' = [state EXCEPT ![c] = "ended"]
        /\ fin' = fin \ {c} /\ UNCHANGED <<backlog, peer>>
    BY <1>15, <1>0 DEF Quit
  <2> QED BY <2>1, <1>9
<1>16. ASSUME NEW c \in Printers, NEW k, PrintData(c, k)
       PROVE  Lines'
  BY <1>16, <1>d DEF PrintData
<1>17. ASSUME NEW c \in Parsers, NEW k, ParseData(c, k)
       PROVE  Lines'
  <2>0. c \in Clients /\ state[c] # "off"
    <3>1. c \in Clients /\ Dry(c) /\ k \in 1 .. Len(wire[c])
      BY <1>17, <1>0 DEF Streams, Stream, ParseData
    <3>2. wire[c] # <<>>
      BY <3>1, EmptySeq
    <3> QED BY <3>1, <3>2 DEF Dry
  <2>1. CASE Parses(Text(SubSeq(wire[c], 1, k)))
    BY <1>17, <2>1, <1>d DEF ParseData
  <2>2. CASE ~Parses(Text(SubSeq(wire[c], 1, k)))
    <3>1. /\ c \in Clients /\ state' = [state EXCEPT ![c] = "ended"]
          /\ fin' = fin \ {c} /\ UNCHANGED <<backlog, peer>>
      BY <1>17, <2>2, <1>0 DEF ParseData
    <3> QED BY <2>0, <3>1, <1>9
  <2> QED BY <2>1, <2>2
<1>18. CASE UNCHANGED jsonVars
  BY <1>18, <1>d DEF jsonVars, Lines, Once
<1> QED
  BY <1>1, <1>2, <1>3, <1>4, <1>5, <1>6, <1>7, <1>10, <1>11, <1>12, <1>13,
     <1>14, <1>15, <1>16, <1>17, <1>18
  DEF JsonNext

LEMMA WhoIsServed ==
    ASSUME Types, Lines, NEW c \in Clients
    PROVE  Served(c) <=> c = peer /\ state[c] = "open"
BY ClientsAssumption DEF Types, ClientsTypeOK, Lines, Served, PeerOpen

\* Nothing happens to c's stream, or c is served no longer.
LEMMA Standing ==
    ASSUME NEW c \in Clients, Types, Lines, Types', Lines', Stream(c),
           wire'[c] = wire[c], sent' = sent, since'[c] = since[c],
           c \in Parsers => shown'[c] = shown[c],
           c = Relay => values' <= values,
           c = peer' => c = peer,
           state'[c] = "open" /\ c = peer' => state[c] = "open",
           state'[c] # "open" \/ InLine(c)' => wire[c] = <<>>,
           c \in Parsers /\ (state'[c] = "off" \/ InLine(c)') => shown[c] = <<>>
    PROVE  Stream(c)'
<1>1. Served(c)' => Served(c)
  <2>1. Served(c)' <=> c = peer' /\ state'[c] = "open"
    BY ClientsAssumption DEF Types, ClientsTypeOK, Lines, Served, PeerOpen
  <2> QED BY <2>1, WhoIsServed
<1>2. Dry(c)'
  BY DEF Dry
<1>3. PICK b \in Nat : Run(c, b) /\ (Flowing(c) => Read(c, b))
  BY DEF Stream
<1>4. Run(c, b)'
  BY <1>1, <1>3 DEF Run
<1>5. Flowing(c)' => Flowing(c)
  BY <1>1 DEF Flowing
<1>6. Read(c, b) => Read(c, b)'
  <2>1. PICK old \in Nat, new \in Nat : old = values /\ new = values'
    BY DEF Types, ClientsTypeOK
  <2>2. ASSUME c = Relay, 3 * values <= b + 1
        PROVE  3 * values' <= b + 1
    <3>1. new <= old
      BY <2>1, <2>2
    <3>2. 3 * old <= b + 1
      BY <2>1, <2>2
    <3>3. 3 * new <= b + 1
      BY <3>1, <3>2
    <3> QED BY <2>1, <3>3
  <2> QED BY <2>2 DEF Read
<1> QED BY <1>2, <1>3, <1>4, <1>5, <1>6 DEF Stream

\* c has left.
LEMMA Left ==
    ASSUME NEW c \in Clients, Types', Lines', Stream(c),
           wire'[c] = <<>>, state'[c] = "ended",
           c \in Parsers => shown'[c] = shown[c],
           c \in Parsers /\ InLine(c)' => InLine(c)
    PROVE  Stream(c)'
<1>1. ~Served(c)'
  BY DEF Served, PeerOpen
<1>2. Dry(c)'
  BY DEF Dry, Stream
<1>3. Len(sent') \in Nat /\ Len(wire'[c]) = 0 /\ DOMAIN wire'[c] = {}
  <2>1. sent' \in Seq(BOOLEAN)
    BY DEF Types, ClientsTypeOK
  <2> QED BY <2>1, LenProperties, EmptySeq
<1>4. Run(c, 0)' /\ ~Flowing(c)'
  BY <1>1, <1>3 DEF Run, Flowing
<1> QED BY <1>2, <1>4 DEF Stream

\* A chunk arrives.
LEMMA Cut ==
    ASSUME NEW c \in Clients, Types, NEW b \in Nat, Run(c, b),
           NEW k \in 1 .. Len(wire[c]), Arrives(c, k),
           UNCHANGED <<sent, peer, state, fin>>
    PROVE  b + k \in Nat /\ Run(c, b + k)'
<1>1. /\ wire[c] \in Seq(Piece) /\ Len(wire[c]) \in Nat /\ Len(sent) \in Nat
      /\ DOMAIN wire[c] = 1 .. Len(wire[c]) /\ k \in Nat
      /\ wire'[c] = SubSeq(wire[c], k + 1, Len(wire[c]))
  BY LenProperties DEF Types, ClientsTypeOK, Arrives
<1>2. /\ wire'[c] \in Seq(Piece) /\ Len(wire'[c]) = Len(wire[c]) - k
      /\ \A i \in 1 .. Len(wire[c]) - k : wire'[c][i] = wire[c][k + i]
  BY <1>1, Suffix
<1>3. DOMAIN wire'[c] = 1 .. Len(wire[c]) - k
  BY <1>2, LenProperties
<1>4. ASSUME NEW i \in 1 .. Len(wire[c]) - k
      PROVE  Place(wire'[c][i]) = (b + k) + i
  <2>1. k + i \in 1 .. Len(wire[c]) /\ wire'[c][i] = wire[c][k + i]
    <3>1. wire'[c][i] = wire[c][k + i]
      BY <1>2
    <3>2. k + i \in 1 .. Len(wire[c])
      BY <1>1
    <3> QED BY <3>1, <3>2
  <2>2. Place(wire[c][k + i]) = b + (k + i)
    BY <2>1, <1>1 DEF Run
  <2> QED BY <2>1, <2>2, <1>1
<1>5. Served(c)' => Served(c)
  BY DEF Served, PeerOpen
<1>6. (b + k) + Len(wire'[c]) = b + Len(wire[c])
  BY <1>1, <1>2
<1>7. b + k \in Nat
  BY <1>1
<1>8. b + Len(wire[c]) <= 3 * Len(sent) /\ (Served(c) => b + Len(wire[c]) = 3 * Len(sent))
  BY DEF Run
<1>9. (b + k) + Len(wire'[c]) <= 3 * Len(sent')
      /\ (Served(c)' => (b + k) + Len(wire'[c]) = 3 * Len(sent'))
  BY <1>5, <1>6, <1>8
<1> QED BY <1>3, <1>4, <1>7, <1>9 DEF Run

\* A client that data arrives at is open and not in the backlog.
LEMMA OpenWhenDataArrives ==
    ASSUME NEW c \in Clients, Stream(c), NEW k \in 1 .. Len(wire[c])
    PROVE  state[c] = "open" /\ ~InLine(c) /\ wire[c] # <<>> /\ Flowing(c)
<1>1. wire[c] # <<>>
  BY EmptySeq
<1> QED BY <1>1 DEF Stream, Dry, Flowing

LEMMA StreamAccepted ==
    ASSUME Types, Lines, Streams, Types', Lines', Accept, NEW c \in Clients
    PROVE  Stream(c)'
<1> USE DEF streamVars, clientVars, pageVars
<1>1. /\ InLine(Head(backlog)) /\ peer' = Head(backlog)
      /\ \A d : InLine(d)' <=> (InLine(d) /\ d # Head(backlog))
  BY LeavesLine DEF Accept, Types, ClientsTypeOK, Lines, Once
<1>2. /\ UNCHANGED <<sent, wire, fin, state, shown, values>>
      /\ since' = [since EXCEPT ![Head(backlog)] = Len(sent)]
  BY DEF Accept
<1>3. Stream(c)
  BY DEF Streams
<1>4. CASE c = Head(backlog)
  <2>1. /\ wire'[c] = <<>> /\ ~InLine(c)' /\ since'[c] = Len(sent)
        /\ c \in Parsers => shown'[c] = <<>>
    BY <1>1, <1>2, <1>3, <1>4 DEF Stream, Dry, Types, ClientsTypeOK
  <2>2. PICK n \in Nat : n = Len(sent)
    BY LenProperties DEF Types, ClientsTypeOK
  <2>3. 3 * n \in Nat /\ Len(wire'[c]) = 0 /\ DOMAIN wire'[c] = {} /\ Len(sent') = n
    BY <1>2, <2>1, <2>2, EmptySeq
  <2>4. Run(c, 3 * n)'
    BY <2>3 DEF Run
  <2>5. Read(c, 3 * n)'
    <3>1. 3 * values' <= 3 * n + 1
      BY <1>2, <2>2 DEF Types, ClientsTypeOK
    <3>2. c \in Parsers => since'[c] + Len(shown'[c]) = n
      BY <2>1, <2>2, EmptySeq
    <3> QED BY <3>1, <3>2 DEF Read
  <2>6. Dry(c)'
    <3>1. c \in Parsers => shown'[c] = <<>>
      BY <2>1
    <3> QED BY <2>1, <3>1 DEF Dry
  <2> QED BY <2>3, <2>4, <2>5, <2>6 DEF Stream
<1>5. CASE c # Head(backlog)
  <2>1. since'[c] = since[c] /\ c # peer' /\ (InLine(c)' <=> InLine(c))
    BY <1>1, <1>2, <1>5 DEF Types, ClientsTypeOK
  <2>2. /\ state'[c] # "open" \/ InLine(c)' => wire[c] = <<>>
        /\ c \in Parsers /\ (state'[c] = "off" \/ InLine(c)') => shown[c] = <<>>
    BY <1>2, <1>3, <2>1 DEF Stream, Dry
  <2>3. values' <= values
    BY <1>2 DEF Types, ClientsTypeOK
  <2> QED BY <1>2, <1>3, <2>1, <2>2, <2>3, Standing
<1> QED BY <1>4, <1>5

LEMMA StreamSent ==
    ASSUME Types, Lines, Streams, Types', Lines', NEW sound \in BOOLEAN,
           Send(sound), NEW c \in Clients
    PROVE  Stream(c)'
<1> USE DEF serviceVars, clientVars, pageVars
<1> DEFINE Of(part) == [telegram |-> Len(sent) + 1, part |-> part]
<1> DEFINE three == <<Of("head"), Of("rest"), Of("nul")>>
<1>1. /\ UNCHANGED <<backlog, peer, fin, state, shown, values, since>>
      /\ sent' = Append(sent, sound) /\ Len(sent) < MaxTelegrams
      /\ wire' = IF PeerOpen THEN [wire EXCEPT ![peer] = @ \o three] ELSE wire
  BY DEF Send
<1>2. Stream(c)
  BY DEF Streams
<1>3. PICK b \in Nat : Run(c, b) /\ (Flowing(c) => Read(c, b))
  BY <1>2 DEF Stream
<1>4. PICK n \in Nat : n = Len(sent)
  BY LenProperties DEF Types, ClientsTypeOK
<1>5. Len(sent') = n + 1
  BY <1>1, <1>4, AppendProperties DEF Types, ClientsTypeOK
<1>6. Served(c)' <=> Served(c)
  BY <1>1 DEF Served, PeerOpen
<1>7. InLine(c)' <=> InLine(c)
  BY <1>1, SameLine
<1>8. Read(c, b)' <=> Read(c, b)
  BY <1>1 DEF Read
<1>w. wire[c] \in Seq(Piece) /\ Len(wire[c]) \in Nat /\ DOMAIN wire[c] = 1 .. Len(wire[c])
  BY LenProperties DEF Types, ClientsTypeOK
<1>9. CASE Served(c)
  <2>1. c = peer /\ PeerOpen /\ wire'[c] = wire[c] \o three
    BY <1>1, <1>9 DEF Served, Types, ClientsTypeOK
  <2>2. PICK l \in Nat : l = Len(wire[c])
    BY <1>w
  <2>3. b + l = 3 * n
    BY <1>3, <1>4, <1>9, <2>2 DEF Run
  <2>4. three \in Seq(Piece) /\ Len(three) = 3
    <3>1. n + 1 \in 1 .. MaxTelegrams
      BY <1>1, <1>4, ClientsAssumption
    <3> QED BY <1>4, <3>1 DEF Piece
  <2>5. /\ wire'[c] \in Seq(Piece) /\ Len(wire'[c]) = l + 3
        /\ \A i \in 1 .. l + 3 : wire'[c][i] = IF i <= l THEN wire[c][i] ELSE three[i - l]
    <3> HIDE DEF three
    <3>1. /\ wire'[c] \in Seq(Piece) /\ Len(wire'[c]) = Len(wire[c]) + Len(three)
          /\ \A i \in 1 .. Len(wire[c]) + Len(three) :
                 wire'[c][i] = IF i <= Len(wire[c]) THEN wire[c][i] ELSE three[i - Len(wire[c])]
      <4> DEFINE was == wire[c]
      <4>1. was \in Seq(Piece) /\ wire'[c] = was \o three
        BY <1>w, <2>1
      <4>2. /\ was \o three \in Seq(Piece) /\ Len(was \o three) = Len(was) + Len(three)
            /\ \A i \in 1 .. Len(was) + Len(three) :
                   (was \o three)[i] = IF i <= Len(was) THEN was[i] ELSE three[i - Len(was)]
        <5> HIDE DEF was
        <5> QED BY <4>1, <2>4, ConcatProperties
      <4> QED BY <4>1, <4>2
    <3> QED BY <3>1, <2>2, <2>4
  <2>6. DOMAIN wire'[c] = 1 .. l + 3
    BY <2>5, LenProperties
  <2>7. Place(three[1]) = 3 * n + 1 /\ Place(three[2]) = 3 * n + 2 /\ Place(three[3]) = 3 * n + 3
    <3>1. three[1].telegram = n + 1 /\ three[2].telegram = n + 1 /\ three[3].telegram = n + 1
          /\ three[1].part = "head" /\ three[2].part = "rest" /\ three[3].part = "nul"
      BY <1>4
    <3> HIDE DEF three
    <3> QED BY <3>1 DEF Place
  <2> HIDE DEF three
  <2>8. ASSUME NEW i \in 1 .. l + 3
        PROVE  Place(wire'[c][i]) = b + i
    <3>1. CASE i <= l
      <4>1. wire'[c][i] = wire[c][i] /\ i \in DOMAIN wire[c]
        BY <1>w, <2>2, <2>5, <3>1
      <4> QED BY <1>3, <4>1 DEF Run
    <3>2. CASE ~(i <= l)
      <4>1. i - l \in {1, 2, 3} /\ wire'[c][i] = three[i - l]
        BY <2>5, <3>2
      <4>2. Place(three[i - l]) = 3 * n + (i - l)
        BY <2>7, <4>1
      <4> QED BY <4>1, <4>2, <2>3
    <3> QED BY <3>1, <3>2
  <2>9. b + Len(wire'[c]) = 3 * Len(sent')
    BY <1>5, <2>3, <2>5
  <2>10. b + Len(wire'[c]) <= 3 * Len(sent')
    BY <1>5, <2>3, <2>5
  <2>11. Run(c, b)'
    BY <2>6, <2>8, <2>9, <2>10 DEF Run
  <2>12. Read(c, b)'
    BY <1>3, <1>8, <1>9 DEF Flowing
  <2>13. Dry(c)'
    <3>1. state[c] = "open" /\ ~InLine(c)
      BY <1>9, <2>1 DEF PeerOpen, Lines
    <3> QED BY <1>1, <1>7, <3>1 DEF Dry
  <2> QED BY <2>11, <2>12, <2>13 DEF Stream
<1>10. CASE ~Served(c)
  <2>1. wire'[c] = wire[c]
    BY <1>1, <1>10 DEF Served, Types, ClientsTypeOK
  <2>2. b + Len(wire[c]) <= 3 * n
    BY <1>3, <1>4 DEF Run
  <2>3. b + Len(wire'[c]) <= 3 * Len(sent')
    BY <1>5, <1>w, <2>1, <2>2
  <2>4. Run(c, b)'
    BY <1>3, <1>6, <1>10, <2>1, <2>3 DEF Run
  <2>5. Dry(c)'
    BY <1>1, <1>2, <1>7, <2>1 DEF Stream, Dry
  <2>6. Flowing(c)' => Read(c, b)'
    BY <1>3, <1>6, <1>8, <2>1 DEF Flowing
  <2> QED BY <2>4, <2>5, <2>6 DEF Stream
<1> QED BY <1>9, <1>10

LEMMA StreamsKept ==
    Types /\ Lines /\ Streams /\ Types' /\ Lines' /\ [JsonNext]_jsonVars => Streams'
<1> SUFFICES ASSUME Types, Lines, Streams, Types', Lines', [JsonNext]_jsonVars,
                    NEW c \in Clients
             PROVE  Stream(c)'
  BY DEF Streams
<1> USE DEF serviceVars, streamVars, clientVars, pageVars, histories
<1>0. /\ backlog \in Seq(Clients) /\ peer \in Clients \cup {Nobody}
      /\ state \in [Clients -> {"off", "open", "waiting", "ended"}]
      /\ wire \in [Clients -> Seq(Piece)]
      /\ shown \in [Parsers -> Seq(1 .. MaxTelegrams)]
      /\ fin \subseteq Clients /\ Nobody \notin Clients
      /\ Relay \in Clients /\ Readers \subseteq Clients /\ Relay \notin Readers
      /\ Printers \subseteq Readers /\ Parsers \subseteq Readers
      /\ Printers \cap Parsers = {}
  BY ClientsAssumption DEF Types, ClientsTypeOK, Clients, Readers
<1>v. values <= values
  BY DEF Types, ClientsTypeOK
<1>a. /\ Stream(c)
      /\ state[c] # "open" \/ InLine(c) => wire[c] = <<>>
      /\ c \in Parsers /\ (state[c] = "off" \/ InLine(c)) => shown[c] = <<>>
  BY DEF Streams, Stream, Dry
\* c's stream stands still.
<1>b. ASSUME UNCHANGED <<sent, state, since, shown, peer>>, wire'[c] = wire[c],
             c = Relay => values' <= values, InLine(c)' => InLine(c)
      PROVE  Stream(c)'
  <2>1. /\ state'[c] # "open" \/ InLine(c)' => wire[c] = <<>>
        /\ c \in Parsers /\ (state'[c] = "off" \/ InLine(c)') => shown[c] = <<>>
    BY <1>a, <1>b
  <2> QED BY <1>a, <1>b, <2>1, Standing
<1>c. ASSUME UNCHANGED backlog
      PROVE  InLine(c)' => InLine(c)
  BY <1>c, SameLine
<1>1. CASE StartService
  BY <1>1, <1>0, <1>v, <1>b, <1>c DEF StartService
<1>2. CASE Accept
  BY <1>2, StreamAccepted
<1>3. CASE JsonStop
  BY <1>3, <1>0, <1>v, <1>b, <1>c DEF JsonStop
<1>4. CASE EndServer
  <2>1. ~InLine(c)'
    BY <1>4, NoLine DEF EndServer
  <2> QED BY <1>4, <2>1, <1>0, <1>v, <1>b DEF EndServer
<1>5. CASE Restart
  <2>1. ~InLine(c)'
    BY <1>5, NoLine DEF Restart
  <2>2. c # peer' /\ UNCHANGED <<sent, state, since, shown, wire, values>>
    BY <1>5, <1>0 DEF Restart
  <2>3. /\ state'[c] # "open" \/ InLine(c)' => wire[c] = <<>>
        /\ c \in Parsers /\ (state'[c] = "off" \/ InLine(c)') => shown[c] = <<>>
    BY <1>a, <2>1, <2>2
  <2> QED BY <1>a, <1>0, <1>v, <2>2, <2>3, Standing
<1>6. CASE PortFree
  BY <1>6, <1>0, <1>v, <1>b, <1>c DEF PortFree
<1>7. ASSUME NEW sound \in BOOLEAN, Send(sound)
      PROVE  Stream(c)'
  BY <1>7, StreamSent
\* Another client connects or leaves, or c does with nothing on the wire.
<1>8. ASSUME NEW d \in Clients, d # peer, wire[d] = <<>>,
             NEW to \in {"open", "waiting", "ended"}, state' = [state EXCEPT ![d] = to],
             InLine(c)' => InLine(c) \/ c = d,
             d \in Parsers /\ InLine(d)' => shown[d] = <<>>,
             UNCHANGED <<sent, wire, since, shown, peer, values>>
      PROVE  Stream(c)'
  <2>1. CASE c = d
    <3>1. c # peer' /\ state'[c] # "off" /\ wire[c] = <<>>
      BY <1>8, <2>1, <1>0
    <3>2. c \in Parsers /\ (state'[c] = "off" \/ InLine(c)') => shown[c] = <<>>
      BY <3>1, <1>8, <2>1
    <3> QED BY <1>a, <1>0, <1>v, <1>8, <3>1, <3>2, Standing
  <2>2. CASE c # d
    <3>1. state'[c] = state[c]
      BY <1>8, <2>2, <1>0
    <3>2. /\ state'[c] # "open" \/ InLine(c)' => wire[c] = <<>>
          /\ c \in Parsers /\ (state'[c] = "off" \/ InLine(c)') => shown[c] = <<>>
      BY <1>a, <1>8, <2>2, <3>1
    <3> QED BY <1>a, <1>0, <1>v, <1>8, <3>1, <3>2, Standing
  <2> QED BY <2>1, <2>2
<1>9. ASSUME NEW d \in Clients, ~InLine(d), Connected(d)
      PROVE  InLine(c)' => InLine(c) \/ c = d
  <2>1. backlog' = Append(backlog, d)
    BY <1>9 DEF Connected
  <2> QED BY <1>9, <2>1, <1>0, JoinsLine DEF Lines, Once
<1>10. CASE MakeConnection
  <2>1. /\ wire[Relay] = <<>> /\ Relay # peer /\ ~InLine(Relay)
        /\ UNCHANGED <<sent, wire, since, shown, peer, values>>
    BY <1>10, <1>0 DEF MakeConnection, Lines, Streams, Stream, Dry
  <2>2. \E to \in {"open", "waiting", "ended"} : state' = [state EXCEPT ![Relay] = to]
    BY <1>10 DEF MakeConnection, NextTry
  <2>3. InLine(c)' => InLine(c) \/ c = Relay
    BY <1>10, <2>1, <1>0, <1>9, <1>c DEF MakeConnection
  <2>4. Relay \notin Parsers
    BY <1>0
  <2> QED BY <2>1, <2>2, <2>3, <2>4, <1>0, <1>8
<1>11. CASE UpdateGraph
  BY <1>11, <1>0, <1>v, <1>b, <1>c DEF UpdateGraph
<1>12. CASE LoadPage
  <2>1. values' <= values
    BY <1>12 DEF LoadPage, Types, ClientsTypeOK
  <2> QED BY <1>12, <2>1, <1>b, <1>c DEF LoadPage
<1>13. ASSUME NEW k, RelayData(k)
       PROVE  Stream(c)'
  <2>1. /\ k \in 1 .. Len(wire[Relay]) /\ Arrives(Relay, k)
        /\ UNCHANGED <<sent, state, since, shown, peer, fin, backlog>>
    BY <1>13 DEF RelayData
  <2>2. CASE c = Relay
    <3>1. PICK b \in Nat : Run(c, b) /\ (Flowing(c) => Read(c, b))
      BY <1>a DEF Stream
    <3>2. state[c] = "open" /\ ~InLine(c) /\ Flowing(c)
      BY <1>a, <2>1, <2>2, OpenWhenDataArrives
    <3>3. b + k \in Nat /\ Run(c, b + k)'
      BY <2>1, <2>2, <3>1, Cut
    <3>4. k \in Nat /\ 3 * values <= b + 1 /\ c \notin Parsers
      <4>1. Len(wire[Relay]) \in Nat
        BY <1>0, LenProperties
      <4> QED BY <2>1, <2>2, <3>1, <3>2, <1>0, <4>1 DEF Read
    <3>5. 3 * values' <= (b + k) + 1
      <4> DEFINE text == Text(SubSeq(wire[Relay], 1, k))
      <4>1. CASE Parses(text)
        <5>1. PICK n \in Nat : n = Parsed(text)
          <6>1. DOMAIN sent = 1 .. Len(sent)
            BY LenProperties DEF Types, ClientsTypeOK
          <6> QED BY <4>1, <6>1, ParsedOne
        <5>2. IsTelegram(text, n) /\ values' = n
          <6>1. values' = Parsed(text)
            BY <1>13, <4>1 DEF RelayData
          <6>2. IsTelegram(text, Parsed(text))
            BY <4>1, ParsedOne
          <6> QED BY <5>1, <6>1, <6>2
        <5>3. wire[Relay] \in Seq(Piece) /\ \A i \in DOMAIN wire[Relay] : Place(wire[Relay][i]) = b + i
          BY <3>1, <2>2, <1>0 DEF Run
        <5>4. b + k + 1 = 3 * n \/ b + k = 3 * n
          BY <5>2, <5>3, <2>1, OneFits
        <5> QED BY <5>2, <5>4, <3>4
      <4>2. CASE ~Parses(text)
        <5>1. values' = values
          BY <1>13, <4>2 DEF RelayData
        <5>2. PICK v \in Nat : v = values
          BY DEF Types, ClientsTypeOK
        <5>3. 3 * v <= b + 1
          BY <5>2, <3>4
        <5>4. 3 * v <= (b + k) + 1
          BY <5>3, <3>4
        <5> QED BY <5>1, <5>2, <5>4
      <4> QED BY <4>1, <4>2
    <3>6. Read(c, b + k)'
      BY <3>4, <3>5 DEF Read
    <3>7. Dry(c)'
      BY <3>2, <3>4, <2>1, <1>c DEF Dry
    <3> QED BY <3>3, <3>6, <3>7 DEF Stream
  <2>3. CASE c # Relay
    <3>1. wire'[c] = wire[c]
      BY <2>1, <2>3, <1>0 DEF Arrives
    <3> QED BY <2>1, <2>3, <3>1, <1>b, <1>c
  <2> QED BY <2>2, <2>3
<1>14. ASSUME NEW d \in Clients, CloseEvent(d)
       PROVE  Stream(c)'
  <2>1. /\ wire[d] = <<>> /\ d # peer /\ ~InLine(d)
        /\ UNCHANGED <<sent, wire, since, shown, peer, values, backlog>>
    BY <1>14 DEF CloseEvent, Lines
  <2>2. \E to \in {"open", "waiting", "ended"} : state' = [state EXCEPT ![d] = to]
    BY <1>14 DEF CloseEvent, NextTry
  <2>3. InLine(c)' => InLine(c) \/ c = d
    BY <2>1, <1>c
  <2>4. ~InLine(d)'
    BY <2>1, SameLine
  <2> QED BY <2>1, <2>2, <2>3, <2>4, <1>8
<1>15. ASSUME NEW d \in Readers, StartReader(d)
       PROVE  Stream(c)'
  <2>1. /\ d \in Clients /\ state[d] = "off" /\ d # peer /\ ~InLine(d)
        /\ UNCHANGED <<sent, wire, since, shown, peer, values>>
    BY <1>15, <1>0 DEF StartReader, Lines
  <2>2. wire[d] = <<>> /\ (d \in Parsers => shown[d] = <<>>)
    BY <2>1 DEF Streams, Stream, Dry
  <2>3. \E to \in {"open", "waiting", "ended"} : state' = [state EXCEPT ![d] = to]
    BY <1>15 DEF StartReader
  <2>4. InLine(c)' => InLine(c) \/ c = d
    BY <1>15, <2>1, <1>9, <1>c DEF StartReader
  <2> QED BY <2>1, <2>2, <2>3, <2>4, <1>8
<1>16. ASSUME NEW d \in Clients, state' = [state EXCEPT ![d] = "ended"],
              wire' = [wire EXCEPT ![d] = <<>>],
              UNCHANGED <<sent, since, shown, peer, values, backlog>>
       PROVE  Stream(c)'
  <2>1. CASE c = d
    <3>1. wire'[c] = <<>> /\ state'[c] = "ended"
      BY <1>16, <2>1, <1>0
    <3> QED BY <1>a, <1>16, <1>c, <3>1, Left
  <2>2. CASE c # d
    <3>1. wire'[c] = wire[c] /\ state'[c] = state[c]
      BY <1>16, <2>2, <1>0
    <3>2. /\ state'[c] # "open" \/ InLine(c)' => wire[c] = <<>>
          /\ c \in Parsers /\ (state'[c] = "off" \/ InLine(c)') => shown[c] = <<>>
      BY <1>a, <1>16, <1>c, <3>1
    <3> QED BY <1>a, <1>0, <1>v, <1>16, <3>1, <3>2, Standing
  <2> QED BY <2>1, <2>2
<1>17. ASSUME NEW d \in Readers, Quit(d)
       PROVE  Stream(c)'
  <2>1. d \in Clients
    BY <1>0
  <2> QED BY <1>17, <2>1, <1>16 DEF Quit
<1>18. ASSUME NEW d \in Printers, NEW k, PrintData(d, k)
       PROVE  Stream(c)'
  <2>1. /\ d \in Clients /\ d # Relay /\ d \notin Parsers
        /\ k \in 1 .. Len(wire[d]) /\ Arrives(d, k)
        /\ UNCHANGED <<sent, state, since, shown, peer, fin, backlog, values>>
    BY <1>18, <1>0 DEF PrintData
  <2>2. CASE c = d
    <3>1. PICK b \in Nat : Run(c, b)
      BY <1>a DEF Stream
    <3>2. state[c] = "open" /\ ~InLine(c)
      BY <1>a, <2>1, <2>2, OpenWhenDataArrives
    <3>3. b + k \in Nat /\ Run(c, b + k)'
      BY <2>1, <2>2, <3>1, Cut
    <3>4. Read(c, b + k)'
      BY <2>1, <2>2 DEF Read
    <3>5. Dry(c)'
      BY <3>2, <2>1, <2>2, <1>c DEF Dry
    <3> QED BY <3>3, <3>4, <3>5 DEF Stream
  <2>3. CASE c # d
    <3>1. wire'[c] = wire[c]
      BY <2>1, <2>3, <1>0 DEF Arrives
    <3> QED BY <2>1, <3>1, <1>0, <1>v, <1>b, <1>c
  <2> QED BY <2>2, <2>3
<1>19. ASSUME NEW d \in Parsers, NEW k, ParseData(d, k)
       PROVE  Stream(c)'
  <2> DEFINE text == Text(SubSeq(wire[d], 1, k))
  <2>1. /\ d \in Clients /\ d # Relay /\ k \in 1 .. Len(wire[d])
        /\ UNCHANGED <<sent, since, peer, backlog, values>>
    BY <1>19, <1>0 DEF ParseData
  <2>2. CASE ~Parses(text)
    BY <1>19, <2>1, <2>2, <1>16 DEF ParseData
  <2>3. CASE Parses(text)
    <3>1. Arrives(d, k) /\ UNCHANGED <<state, fin>>
          /\ shown' = [shown EXCEPT ![d] = Append(shown[d], Parsed(text))]
      BY <1>19, <2>3 DEF ParseData
    <3>2. CASE c # d
      <4>1. wire'[c] = wire[c] /\ (c \in Parsers => shown'[c] = shown[c])
        BY <3>1, <3>2, <1>0 DEF Arrives
      <4>2. /\ state'[c] # "open" \/ InLine(c)' => wire[c] = <<>>
            /\ c \in Parsers /\ (state'[c] = "off" \/ InLine(c)') => shown[c] = <<>>
        BY <1>a, <3>1, <2>1, <1>c
      <4> QED BY <1>a, <1>0, <1>v, <2>1, <3>1, <4>1, <4>2, Standing
    <3>3. CASE c = d
      <4>1. PICK b \in Nat : Run(c, b) /\ (Flowing(c) => Read(c, b))
        BY <1>a DEF Stream
      <4>2. state[c] = "open" /\ ~InLine(c) /\ Flowing(c)
        BY <1>a, <2>1, <3>3, OpenWhenDataArrives
      <4>3. b + k \in Nat /\ Run(c, b + k)'
        BY <2>1, <3>1, <3>3, <4>1, Cut
      <4>4. PICK n \in Nat : n = Parsed(text)
        <5>1. DOMAIN sent = 1 .. Len(sent)
          BY LenProperties DEF Types, ClientsTypeOK
        <5> QED BY <2>3, <5>1, ParsedOne
      <4>5. IsTelegram(text, n)
        BY <2>3, <4>4, ParsedOne
      <4>6. wire[c] \in Seq(Piece) /\ \A i \in DOMAIN wire[c] : Place(wire[c][i]) = b + i
        BY <4>1, <1>0 DEF Run
      <4>7. (b + 4 = 3 * n \/ b + 3 = 3 * n) /\ (b + k + 1 = 3 * n \/ b + k = 3 * n)
        BY <4>5, <4>6, <2>1, <3>3, OneFits
      <4>8. PICK m \in Nat : m = since[c] + Len(shown[c])
        BY <3>3, LenProperties DEF Types, ClientsTypeOK
      <4>9. b = 3 * m \/ b + 1 = 3 * m
        BY <4>1, <4>2, <4>8, <3>3 DEF Read
      <4>10. n = m + 1
        BY <4>7, <4>9
      <4>11. since'[c] + Len(shown'[c]) = m + 1
        <5>1. n \in 1 .. MaxTelegrams /\ shown[c] \in Seq(1 .. MaxTelegrams)
          <6>1. DOMAIN sent = 1 .. Len(sent) /\ Len(sent) \in Nat /\ MaxTelegrams \in Nat
                /\ Len(sent) <= MaxTelegrams
            BY LenProperties, ClientsAssumption DEF Types, ClientsTypeOK
          <6>2. n \in 1 .. Len(sent)
            BY <2>3, <4>4, <6>1, ParsedOne
          <6> QED BY <6>1, <6>2, <1>0, <3>3
        <5>2. shown'[c] = Append(shown[c], n)
          BY <3>1, <3>3, <4>4, <1>0
        <5>3. Len(shown'[c]) = Len(shown[c]) + 1 /\ Len(shown[c]) \in Nat
          BY <5>1, <5>2, AppendProperties, LenProperties
        <5>4. since'[c] = since[c] /\ since[c] \in Nat
          BY <2>1 DEF Types, ClientsTypeOK
        <5> QED BY <5>3, <5>4, <4>8
      <4>12. Read(c, b + k)'
        <5>1. b + k = 3 * (m + 1) \/ (b + k) + 1 = 3 * (m + 1)
          <6>1. k \in Nat
            BY <2>1, <1>0, LenProperties
          <6> QED BY <6>1, <4>7, <4>10
        <5>2. c # Relay
          BY <2>1, <3>3
        <5> QED BY <4>11, <5>1, <5>2 DEF Read
      <4>13. Dry(c)'
        BY <4>2, <3>1, <2>1, <1>c DEF Dry
      <4> QED BY <4>3, <4>12, <4>13 DEF Stream
    <3> QED BY <3>2, <3>3
  <2> QED BY <2>2, <2>3
<1>20. CASE UNCHANGED jsonVars
  BY <1>20, <1>0, <1>v, <1>b, <1>c DEF jsonVars
<1> QED
  BY <1>1, <1>2, <1>3, <1>4, <1>5, <1>6, <1>7, <1>10, <1>11, <1>12, <1>13,
     <1>14, <1>15, <1>17, <1>18, <1>19, <1>20
  DEF JsonNext

LEMMA GraphKept ==
    Types /\ Lines /\ Streams /\ Graph /\ Types' /\ [JsonNext]_jsonVars => Graph'
<1> SUFFICES ASSUME Types, Lines, Streams, Graph, Types', [JsonNext]_jsonVars
             PROVE  Graph'
  OBVIOUS
<1> USE DEF serviceVars, streamVars, clientVars, pageVars, histories
<1>0. /\ sent \in Seq(BOOLEAN) /\ Len(sent) \in Nat /\ DOMAIN sent = 1 .. Len(sent)
      /\ values \in Nat /\ since \in [Clients -> 0 .. MaxTelegrams]
      /\ points \in Seq(1 .. MaxTelegrams)
      /\ Len(points) \in Nat /\ DOMAIN points = 1 .. Len(points)
      /\ \A i \in DOMAIN points : points[i] \in Nat
      /\ shown \in [Parsers -> Seq(1 .. MaxTelegrams)]
      /\ Relay \in Clients /\ Parsers \subseteq Clients
  <2>1. /\ sent \in Seq(BOOLEAN) /\ points \in Seq(1 .. MaxTelegrams)
        /\ since \in [Clients -> 0 .. MaxTelegrams]
        /\ shown \in [Parsers -> Seq(1 .. MaxTelegrams)]
        /\ Relay \in Clients /\ Parsers \subseteq Clients
    BY DEF Types, ClientsTypeOK, Clients, Readers
  <2>2. values \in Nat
    BY DEF Types, ClientsTypeOK
  <2>3. /\ Len(sent) \in Nat /\ DOMAIN sent = 1 .. Len(sent)
        /\ Len(points) \in Nat /\ DOMAIN points = 1 .. Len(points)
    BY <2>1, LenProperties
  <2>4. \A i \in DOMAIN points : points[i] \in 1 .. MaxTelegrams
    BY <2>1, <2>3, ElementOfSeq
  <2> QED BY <2>1, <2>2, <2>3, <2>4
<1>a. ASSUME UNCHANGED <<sent, since, shown, values, received, points>>
      PROVE  Graph'
  BY <1>a DEF Graph
<1>1. CASE \/ StartService \/ JsonStop \/ EndServer \/ Restart \/ PortFree
           \/ MakeConnection \/ UNCHANGED jsonVars
  <2>1. UNCHANGED <<sent, since, shown, values, received, points>>
    BY <1>1 DEF StartService, JsonStop, EndServer, Restart, PortFree, MakeConnection, jsonVars
  <2> QED BY <2>1, <1>a
<1>2. CASE Accept
  <2>1. Head(backlog) \in Clients /\ InLine(Head(backlog))
    <3>1. InLine(Head(backlog))
      BY <1>2, LeavesLine DEF Accept, Types, ClientsTypeOK, Lines, Once
    <3> QED BY <1>2, <3>1, HeadTailProperties DEF Accept, Types, ClientsTypeOK
  <2>2. Head(backlog) \in Parsers => shown[Head(backlog)] = <<>>
    BY <2>1 DEF Streams, Stream, Dry
  <2>3. /\ UNCHANGED <<sent, shown, values, received, points>>
        /\ \A c \in Clients : c # Head(backlog) => since'[c] = since[c]
    BY <1>2, <1>0 DEF Accept
  <2>4. ASSUME NEW c \in Parsers, NEW k \in DOMAIN shown'[c]
        PROVE  shown'[c][k] = since'[c] + k
    <3>1. c # Head(backlog)
      BY <2>2, <2>3, <2>4, EmptySeq
    <3> QED BY <1>0, <2>3, <2>4, <3>1 DEF Graph
  <2> QED BY <2>3, <2>4 DEF Graph
<1>3. ASSUME NEW sound \in BOOLEAN, Send(sound)
      PROVE  Graph'
  <2>1. /\ UNCHANGED <<since, shown, values, received, points>>
        /\ sent' = Append(sent, sound)
    BY <1>3 DEF Send
  <2>2. ASSUME NEW i \in DOMAIN points
        PROVE  sent'[points[i]] = sent[points[i]]
    <3>1. points[i] \in 1 .. Len(sent)
      <4>1. points[i] \in 1 .. MaxTelegrams /\ points[i] <= values /\ values <= Len(sent)
        BY <1>0, ElementOfSeq DEF Graph, Types
      <4> QED BY <4>1, <1>0, ClientsAssumption
    <3> QED BY <1>0, <2>1, <3>1, AppendProperties
  <2> QED BY <2>1, <2>2 DEF Graph
<1>4. CASE UpdateGraph
  <2>1. /\ UNCHANGED <<sent, since, shown, values>> /\ received /\ ~received'
        /\ points' = Append(points, values)
    BY <1>4 DEF UpdateGraph
  <2>2. /\ points' \in Seq(1 .. MaxTelegrams) /\ Len(points') = Len(points) + 1
        /\ \A i \in 1 .. Len(points) : points'[i] = points[i]
        /\ points'[Len(points) + 1] = values
    <3>1. values \in 1 .. MaxTelegrams
      <4>1. values \in 1 .. Len(sent) /\ Len(sent) <= MaxTelegrams
        BY <2>1, <1>0 DEF Types
      <4> QED BY <4>1, <1>0, ClientsAssumption
    <3> QED BY <1>0, <2>1, <3>1, AppendProperties
  <2>3. DOMAIN points' = 1 .. Len(points) + 1
    BY <2>2, LenProperties
  <2>4. \A i \in DOMAIN points : points[i] < values
    BY <2>1 DEF Graph
  <2>5. ASSUME NEW i \in DOMAIN points', NEW j \in DOMAIN points', i < j
        PROVE  points'[i] < points'[j]
    <3>1. i \in 1 .. Len(points) /\ points'[i] = points[i]
      BY <2>2, <2>3, <2>5, <1>0
    <3>2. CASE j = Len(points) + 1
      BY <2>2, <2>4, <3>1, <3>2, <1>0
    <3>3. CASE j # Len(points) + 1
      <4>1. j \in 1 .. Len(points) /\ points'[j] = points[j]
        BY <2>2, <2>3, <3>3, <1>0
      <4> QED BY <2>5, <3>1, <4>1, <1>0 DEF Graph
    <3> QED BY <3>2, <3>3
  <2>6. ASSUME NEW i \in DOMAIN points'
        PROVE  sent'[points'[i]] /\ points'[i] <= values'
    <3>1. CASE i = Len(points) + 1
      <4>1. points'[i] = values /\ sent[values]
        BY <2>1, <2>2, <3>1 DEF Types
      <4> QED BY <2>1, <4>1, <1>0
    <3>2. CASE i # Len(points) + 1
      <4>1. i \in DOMAIN points /\ points'[i] = points[i]
        BY <2>2, <2>3, <3>2, <1>0
      <4> QED BY <2>1, <4>1 DEF Graph
    <3> QED BY <3>1, <3>2
  <2>7. \A c \in Parsers : \A k \in DOMAIN shown'[c] : shown'[c][k] = since'[c] + k
    BY <2>1 DEF Graph
  <2> QED BY <2>1, <2>5, <2>6, <2>7 DEF Graph
<1>5. CASE LoadPage
  <2>1. UNCHANGED <<sent, since, shown>> /\ points' = <<>> /\ ~received'
    BY <1>5 DEF LoadPage
  <2>2. DOMAIN points' = {}
    BY <2>1
  <2> QED BY <2>1, <2>2 DEF Graph
<1>6. ASSUME NEW k, RelayData(k)
      PROVE  Graph'
  <2> DEFINE text == Text(SubSeq(wire[Relay], 1, k))
  <2>1. /\ k \in 1 .. Len(wire[Relay])
        /\ UNCHANGED <<sent, since, shown, points>>
    BY <1>6 DEF RelayData
  <2>2. CASE ~Parses(text)
    <3>1. UNCHANGED <<values, received>>
      BY <1>6, <2>2 DEF RelayData
    <3> QED BY <2>1, <3>1, <1>a
  <2>3. CASE Parses(text)
    <3>1. PICK n \in Nat : n = Parsed(text)
      BY <1>0, <2>3, ParsedOne
    <3>2. IsTelegram(text, n) /\ values' = n
      BY <1>6, <2>3, <3>1, ParsedOne DEF RelayData
    <3>3. Stream(Relay)
      BY <1>0 DEF Streams
    <3>4. PICK b \in Nat : Run(Relay, b) /\ Read(Relay, b)
      BY <3>3, <1>0, <2>1, OpenWhenDataArrives DEF Stream
    <3>5. 3 * values <= b + 1
      BY <3>4 DEF Read
    <3>6. b + 4 = 3 * n \/ b + 3 = 3 * n
      <4>1. wire[Relay] \in Seq(Piece) /\ \A i \in DOMAIN wire[Relay] : Place(wire[Relay][i]) = b + i
        BY <3>4, <1>0 DEF Run, Types, ClientsTypeOK
      <4> QED BY <4>1, <2>1, <3>2, OneFits
    <3>7. values < n
      BY <1>0, <3>5, <3>6
    <3>8. ASSUME NEW i \in DOMAIN points
          PROVE  sent[points[i]] /\ points[i] < n
      BY <1>0, <3>7 DEF Graph
    <3>9. \A i \in DOMAIN points : points[i] <= n
      BY <1>0, <3>8
    <3> QED BY <2>1, <3>2, <3>8, <3>9 DEF Graph
  <2> QED BY <2>2, <2>3
<1>7. ASSUME NEW c \in Clients, CloseEvent(c)
      PROVE  Graph'
  BY <1>7, <1>a DEF CloseEvent
<1>8. ASSUME NEW c \in Readers, StartReader(c) \/ Quit(c)
      PROVE  Graph'
  BY <1>8, <1>a DEF StartReader, Quit
<1>9. ASSUME NEW c \in Printers, NEW k, PrintData(c, k)
      PROVE  Graph'
  BY <1>9, <1>a DEF PrintData
<1>10. ASSUME NEW d \in Parsers, NEW k, ParseData(d, k)
       PROVE  Graph'
  <2> DEFINE text == Text(SubSeq(wire[d], 1, k))
  <2>1. /\ d \in Clients /\ k \in 1 .. Len(wire[d])
        /\ UNCHANGED <<sent, since, values, received, points>>
    BY <1>10, <1>0 DEF ParseData
  <2>2. CASE ~Parses(text)
    <3>1. shown' = shown
      BY <1>10, <2>2 DEF ParseData
    <3> QED BY <2>1, <3>1, <1>a
  <2>3. CASE Parses(text)
    <3>1. PICK n \in Nat : n = Parsed(text)
      BY <1>0, <2>3, ParsedOne
    <3>2. IsTelegram(text, n) /\ shown' = [shown EXCEPT ![d] = Append(shown[d], n)]
      BY <1>10, <2>3, <3>1, ParsedOne DEF ParseData
    <3>3. Stream(d)
      BY <2>1 DEF Streams
    <3>4. PICK b \in Nat : Run(d, b) /\ Read(d, b)
      BY <3>3, <2>1, OpenWhenDataArrives DEF Stream
    <3>5. PICK l \in Nat, s \in Nat : l = Len(shown[d]) /\ s = since[d]
      BY LenProperties DEF Types, ClientsTypeOK, Clients, Readers
    <3>6. b = 3 * (s + l) \/ b + 1 = 3 * (s + l)
      BY <3>4, <3>5 DEF Read
    <3>7. b + 4 = 3 * n \/ b + 3 = 3 * n
      <4>1. wire[d] \in Seq(Piece) /\ \A i \in DOMAIN wire[d] : Place(wire[d][i]) = b + i
        BY <3>4, <2>1 DEF Run, Types, ClientsTypeOK
      <4> QED BY <4>1, <2>1, <3>2, OneFits
    <3>8. n = s + (l + 1)
      BY <3>6, <3>7
    <3>9. n \in 1 .. MaxTelegrams
      <4>1. n \in 1 .. Len(sent) /\ Len(sent) <= MaxTelegrams
        BY <1>0, <2>3, <3>1, ParsedOne DEF Types
      <4> QED BY <4>1, <1>0, ClientsAssumption
    <3>10. /\ Len(shown'[d]) = l + 1 /\ shown'[d] \in Seq(1 .. MaxTelegrams)
           /\ \A i \in 1 .. l : shown'[d][i] = shown[d][i]
           /\ shown'[d][l + 1] = n
      <4>1. shown'[d] = Append(shown[d], n) /\ shown[d] \in Seq(1 .. MaxTelegrams)
        BY <1>0, <3>2
      <4> QED BY <4>1, <3>5, <3>9, AppendProperties
    <3>11. DOMAIN shown'[d] = 1 .. l + 1 /\ DOMAIN shown[d] = 1 .. l
      BY <3>5, <3>10, <1>0, LenProperties
    <3>12. ASSUME NEW c \in Parsers, NEW i \in DOMAIN shown'[c]
           PROVE  shown'[c][i] = since'[c] + i
      <4>1. CASE c # d
        BY <1>0, <2>1, <3>2, <3>12, <4>1 DEF Graph
      <4>2. CASE c = d
        <5>1. CASE i = l + 1
          BY <5>1, <4>2, <2>1, <3>5, <3>8, <3>10
        <5>2. CASE i # l + 1
          <6>1. i \in 1 .. l
            BY <3>11, <3>12, <4>2, <5>2
          <6> QED BY <6>1, <4>2, <2>1, <3>10, <3>11 DEF Graph
        <5> QED BY <5>1, <5>2
      <4> QED BY <4>1, <4>2
    <3> QED BY <2>1, <3>12 DEF Graph
  <2> QED BY <2>2, <2>3
<1> QED
  BY <1>1, <1>2, <1>3, <1>4, <1>5, <1>6, <1>7, <1>8, <1>9, <1>10
  DEF JsonNext

LEMMA StreamsInit == JsonInit => Types /\ Lines /\ Streams /\ Graph
<1> SUFFICES ASSUME JsonInit
             PROVE  Types /\ Lines /\ Streams /\ Graph
  OBVIOUS
<1>0. /\ MaxTelegrams \in Nat /\ MaxRestarts \in Nat /\ Nobody \notin Clients
      /\ Relay \in Clients /\ Relay \notin Readers /\ Parsers \subseteq Readers
      /\ \A S : <<>> \in Seq(S)
      /\ Len(<<>>) = 0 /\ DOMAIN <<>> = {}
  BY EmptySeq, ClientsAssumption DEF Clients, Readers
<1>1. Types
  <2>1. 0 \in 0 .. MaxTelegrams /\ 0 \in 0 .. MaxRestarts /\ 0 <= Len(sent) /\ Len(sent) <= MaxTelegrams
    BY <1>0 DEF JsonInit
  <2>2. \A c \in Clients : since[c] = 0
    BY DEF JsonInit
  <2>3. ClientsTypeOK
    BY <1>0, <2>1 DEF JsonInit, ClientsTypeOK
  <2> QED BY <2>1, <2>2, <2>3 DEF JsonInit, Types
<1>2. Lines
  BY <1>0 DEF JsonInit, Lines, InLine
<1>3. ASSUME NEW c \in Clients
      PROVE  Stream(c)
  <2>1. wire[c] = <<>> /\ sent = <<>> /\ peer = Nobody /\ (c \in Parsers => shown[c] = <<>>)
    BY <1>3 DEF JsonInit
  <2>2. Run(c, 0) /\ ~Flowing(c)
    BY <1>0, <2>1 DEF Run, Flowing, Served, PeerOpen
  <2>3. Dry(c)
    BY <2>1 DEF Dry
  <2> QED BY <2>2, <2>3 DEF Stream
<1>4. Graph
  BY <1>0 DEF JsonInit, Graph
<1> QED BY <1>1, <1>2, <1>3, <1>4 DEF Streams

\* Whatever the cuts of the stream and over any restarts of dpride, the
\* parsers print the telegrams since they were accepted without a gap, and
\* the page's graph shows whole telegrams, each once and in order, for any
\* readers and numbers of telegrams and restarts.
THEOREM EachIsShownOnce == JsonSpec => []ShownOnce
<1> DEFINE Inv == Types /\ Lines /\ Streams /\ Graph
<1>1. JsonInit => Inv
  BY StreamsInit
<1>2. Inv /\ [JsonNext]_jsonVars => Inv'
  BY TypesKept, LinesKept, StreamsKept, GraphKept
<1>3. Inv => ShownOnce
  BY DEF Types, Graph, ShownOnce
<1> HIDE DEF Inv
<1> QED
  BY <1>1, <1>2, <1>3, PTL DEF JsonSpec

(***************************************************************************)
(* Brokers: Reachable.  From its first line on, the broker has a pid file  *)
(* or has been told to stop; once it loops, only a broker that has not     *)
(* been stopped need have one.                                             *)
(***************************************************************************)
Named ==
    /\ pc # "off" /\ (pc \in Looping => running) => pidFile \/ early
    /\ pidFile \in BOOLEAN /\ early \in BOOLEAN

LEMMA NamedKept == Named /\ [BrokersNext]_brokersVars => Named'
<1> SUFFICES ASSUME Named, [BrokersNext]_brokersVars
             PROVE  Named'
  OBVIOUS
<1> USE DEF Named, Looping, brokerVars, StepTo
<1>1. CASE Register \/ CloseBridge \/ Reboot \/ \E d \in Devices : OpenBridge(d)
  BY <1>1 DEF Register, CloseBridge, Reboot, OpenBridge
<1>2. CASE NotifyBrokers
  <2>1. pc' = "off" \/ pc' = pc
    BY <1>2 DEF NotifyBrokers
  <2> QED BY <1>2, <2>1 DEF NotifyBrokers
<1>3. CASE WritePidFile
  BY <1>3 DEF WritePidFile
<1>4. CASE WriteBrokerFile \/ CatchStop \/ CatchEvents \/ EoReflesh \/ InitPatrol
  BY <1>4 DEF WriteBrokerFile, CatchStop, CatchEvents, EoReflesh, InitPatrol
<1>5. CASE SetRunning
  BY <1>5 DEF SetRunning
<1>6. CASE BrokerLoop
  <2>1. pc \in Looping \/ pc' = pc
    BY <1>6 DEF BrokerLoop, SkipDevice, ReadDevice, ClearNote, WakeUp, ExamineEvent
  <2>2. running' = running /\ pidFile' = pidFile /\ early' = early
    BY <1>6 DEF BrokerLoop, SkipDevice, ReadDevice, ClearNote, WakeUp, ExamineEvent
  <2>3. pc' # "off" => pc' \in Looping \/ pc' = pc
    BY <1>6 DEF BrokerLoop, SkipDevice, ReadDevice, ClearNote, WakeUp, ExamineEvent, Onward
  <2> QED BY <2>1, <2>2, <2>3
<1>7. CASE StopHandler
  BY <1>7 DEF StopHandler
<1>8. CASE Terminated
  BY <1>8 DEF Terminated
<1>9. CASE UNCHANGED brokersVars
  BY <1>9 DEF brokersVars
<1> QED
  BY <1>1, <1>2, <1>3, <1>4, <1>5, <1>6, <1>7, <1>8, <1>9 DEF BrokersNext

\* A broker that runs and was not told to stop too early has its pid file,
\* wherever signals and orders to stop fall between the steps of main.
THEOREM BrokerReachable == BrokersSpec => []Reachable
<1>1. BrokersInit => Named
  BY DEF BrokersInit, Named
<1>2. Named => Reachable
  BY DEF Named, Reachable, Looping
<1> QED
  BY <1>1, <1>2, NamedKept, PTL DEF BrokersSpec

(***************************************************************************)
(* Brokers: NothingForgotten.  Of each device's newest value, until it is  *)
(* printed or counted lost, there is a trace: dpride is at work for it, or *)
(* its signal is pending, or noted; and a broker that has no handler yet   *)
(* has no traces.                                                          *)
(***************************************************************************)
Traced(d) ==
    \/ printed[d] = file[d] \/ file[d] = Empty \/ d \in lost
    \/ d \in pending \/ flag[d] \/ (job # "idle" /\ target = d)

Traces ==
    /\ BrokersTypeOK
    /\ \A d \in Devices : Traced(d)
    /\ job = "write" => file[target] = Empty
    /\ pc \notin Handling => pending = {} /\ \A d \in Devices : ~flag[d]

LEMMA BrokersBounds ==
    /\ NodeCount \in Nat \ {0} /\ MaxValues \in Nat /\ MaxStarts \in Nat
    /\ MaxReboots \in Nat /\ Empty = MaxValues + 1 /\ Garbage = MaxValues + 2
    /\ \A n : n \in Devices <=> n \in Nat /\ 1 <= n /\ n <= NodeCount
BY BrokersAssumption DEF Empty, Garbage, Devices

\* dpride's steps.
LEMMA DprideTraces ==
    ASSUME Traces,
           \/ Register \/ CloseBridge \/ NotifyBrokers \/ Reboot
           \/ \E d \in Devices : OpenBridge(d)
    PROVE  Traces'
<1> USE BrokersBounds DEF Traces, BrokersTypeOK
<1>1. CASE Register
  BY <1>1 DEF Register, brokerVars, Traced
<1>2. ASSUME NEW d \in Devices, OpenBridge(d) PROVE Traces'
  <2>1. /\ job = "idle" /\ job' = "write" /\ target' = d
        /\ file' = [file EXCEPT ![d] = Empty]
        /\ count < MaxValues /\ count' = count + 1
        /\ UNCHANGED <<nodes, enlisted, reboots, listed, pidFile, pc, running,
                       nodeCount, flag, pending, cursor, printed, starts,
                       lost, early>>
    BY <1>2 DEF OpenBridge, brokerVars
  <2>2. BrokersTypeOK'
    BY <2>1
  <2>3. ASSUME NEW e \in Devices PROVE Traced(e)'
    BY <2>1 DEF Traced
  <2>4. file'[target'] = Empty
    BY <2>1
  <2> QED BY <2>1, <2>2, <2>3, <2>4
<1>3. CASE CloseBridge
  <2>1. /\ job = "write" /\ job' = "notify" /\ target' = target
        /\ file' = [file EXCEPT ![target] = count]
        /\ UNCHANGED <<nodes, enlisted, count, reboots, listed, pidFile, pc,
                       running, nodeCount, flag, pending, cursor, printed,
                       starts, lost, early>>
    BY <1>3 DEF CloseBridge, brokerVars
  <2>2. BrokersTypeOK'
    BY <2>1
  <2>3. ASSUME NEW e \in Devices PROVE Traced(e)'
    BY <2>1 DEF Traced
  <2> QED BY <2>1, <2>2, <2>3
<1>4. CASE NotifyBrokers
  <2>1. /\ job = "notify" /\ job' = "idle" /\ target \in Devices
        /\ \/ pending' = pending \cup {target} /\ lost' = lost /\ pc' = pc
              /\ pc \in Handling
           \/ pending' = pending /\ lost' = lost \cup {target}
              /\ (pc' = pc \/ (pc' = "off" /\ pc \notin Handling))
        /\ UNCHANGED <<nodes, enlisted, file, count, target, reboots, listed,
                       pidFile, running, nodeCount, flag, cursor, printed,
                       starts, early>>
    BY <1>4 DEF NotifyBrokers, Handling
  <2>2. BrokersTypeOK'
    BY <2>1
  <2>3. ASSUME NEW e \in Devices PROVE Traced(e)'
    BY <2>1 DEF Traced
  <2>4. pc' \notin Handling => pending' = {} /\ \A d \in Devices : ~flag'[d]
    BY <2>1
  <2> QED BY <2>1, <2>2, <2>3, <2>4
<1>5. CASE Reboot
  <2>1. /\ job' = "idle" /\ reboots < MaxReboots /\ reboots' = reboots + 1
        /\ enlisted' = listed
        /\ lost' = IF job = "notify" THEN lost \cup {target} ELSE lost
        /\ UNCHANGED <<nodes, file, count, target, listed, pidFile, pc,
                       running, nodeCount, flag, pending, cursor, printed,
                       starts, early>>
    BY <1>5 DEF Reboot, brokerVars
  <2>2. BrokersTypeOK'
    BY <2>1
  <2>3. ASSUME NEW e \in Devices PROVE Traced(e)'
    BY <2>1 DEF Traced
  <2> QED BY <2>1, <2>2, <2>3
<1> QED BY <1>1, <1>2, <1>3, <1>4, <1>5

\* The broker's start, and its end by a signal.
LEMMA StartTraces ==
    ASSUME Traces,
           \/ WritePidFile \/ WriteBrokerFile \/ CatchStop \/ CatchEvents
           \/ EoReflesh \/ InitPatrol \/ SetRunning \/ StopHandler
           \/ Terminated
    PROVE  Traces'
<1> USE BrokersBounds DEF Traces, BrokersTypeOK
<1>1. CASE WritePidFile
  <2>1. /\ pc = "off" /\ pc' = "named" /\ starts < MaxStarts
        /\ starts' = starts + 1 /\ pidFile' = TRUE /\ running' = FALSE
        /\ nodeCount' = 0 /\ cursor' = 1 /\ pending' = {} /\ early' = FALSE
        /\ flag' = [d \in Devices |-> FALSE]
        /\ UNCHANGED <<nodes, enlisted, file, count, job, target, reboots,
                       listed, printed, lost>>
    BY <1>1 DEF WritePidFile, dprideVars
  <2>2. pending = {} /\ \A d \in Devices : ~flag[d]
    BY <2>1 DEF Handling
  <2>3. BrokersTypeOK'
    <3>1. 1 \in Devices /\ flag' \in [Devices -> BOOLEAN] /\ pending' \subseteq Devices
      BY <2>1
    <3>2. starts' \in 0 .. MaxStarts
      BY <2>1
    <3> QED BY <2>1, <3>1, <3>2
  <2>4. ASSUME NEW e \in Devices PROVE Traced(e)'
    BY <2>1, <2>2 DEF Traced
  <2> QED BY <2>1, <2>3, <2>4
<1>2. CASE WriteBrokerFile \/ CatchStop \/ CatchEvents \/ EoReflesh
           \/ SetRunning \/ StopHandler \/ Terminated
  <2>1. /\ UNCHANGED <<nodes, enlisted, file, count, job, target, reboots,
                       flag, pending, cursor, printed, starts, lost>>
        /\ pc' \in Handling \cup {"off", "named", "listed", "stoppable"}
        /\ pc \in Handling => pc' \in Handling
        /\ listed' \in BOOLEAN /\ pidFile' \in BOOLEAN /\ running' \in BOOLEAN
        /\ early' \in BOOLEAN
        /\ nodeCount' \in Devices \cup {0}
    BY <1>2 DEF WriteBrokerFile, CatchStop, CatchEvents, EoReflesh, SetRunning,
                StopHandler, Terminated, StepTo, dprideVars, Handling
  <2>2. BrokersTypeOK'
    BY <2>1
  <2>3. ASSUME NEW e \in Devices PROVE Traced(e)'
    BY <2>1 DEF Traced
  <2> QED BY <2>1, <2>2, <2>3
<1>3. CASE InitPatrol
  <2>1. /\ pc = "loaded" /\ pc' = "cleared" /\ running' = running
        /\ flag' = [d \in Devices |-> flag[d] /\ d > nodeCount]
        /\ lost' = lost \cup {d \in 1 .. nodeCount : flag[d]}
        /\ UNCHANGED <<nodes, enlisted, file, count, job, target, reboots,
                       listed, pidFile, nodeCount, pending, cursor, printed,
                       starts, early>>
    BY <1>3 DEF InitPatrol, StepTo, dprideVars
  <2>2. nodeCount \in Nat /\ nodeCount <= NodeCount
    OBVIOUS
  <2>3. \A d \in 1 .. nodeCount : d \in Devices
    BY <2>2
  <2>4. BrokersTypeOK'
    <3>1. lost' \subseteq Devices
      BY <2>1, <2>3
    <3>2. flag' \in [Devices -> BOOLEAN]
      BY <2>1
    <3> QED BY <2>1, <3>1, <3>2 DEF Handling
  <2>5. ASSUME NEW e \in Devices PROVE Traced(e)'
    <3>1. flag[e] => flag'[e] \/ e \in lost'
      BY <2>1, <2>2
    <3> QED BY <2>1, <3>1 DEF Traced
  <2> QED BY <2>1, <2>4, <2>5 DEF Handling
<1> QED BY <1>1, <1>2, <1>3

\* The broker's loop, and its handler.
LEMMA LoopTraces ==
    ASSUME Traces, BrokerLoop
    PROVE  Traces'
<1> USE BrokersBounds DEF Traces, BrokersTypeOK
<1>1. ASSUME Onward
      PROVE  cursor' \in Devices /\ pc' \in {"patrol", "sleep"}
  <2>1. nodeCount \in Nat /\ nodeCount <= NodeCount /\ cursor \in Nat
    OBVIOUS
  <2> QED BY <1>1, <2>1 DEF Onward
<1>2. CASE SkipDevice
  <2>1. /\ pc = "patrol" /\ Onward
        /\ UNCHANGED <<nodes, enlisted, file, count, job, target, reboots,
                       listed, pidFile, running, nodeCount, flag, pending,
                       printed, starts, lost, early>>
    BY <1>2 DEF SkipDevice, dprideVars
  <2>2. BrokersTypeOK'
    BY <1>1, <2>1 DEF Handling
  <2>3. ASSUME NEW e \in Devices PROVE Traced(e)'
    BY <2>1 DEF Traced
  <2> QED BY <1>1, <2>1, <2>2, <2>3 DEF Handling
<1>3. CASE ReadDevice
  <2>1. /\ pc = "patrol" /\ flag[cursor] /\ pc' = "clear"
        /\ printed' = [printed EXCEPT ![cursor] =
               IF file[cursor] = Empty THEN Garbage ELSE file[cursor]]
        /\ lost' = IF file[cursor] = Empty THEN lost ELSE lost \ {cursor}
        /\ UNCHANGED <<nodes, enlisted, file, count, job, target, reboots,
                       listed, pidFile, running, nodeCount, flag, pending,
                       cursor, starts, early>>
    BY <1>3 DEF ReadDevice, dprideVars
  <2>2. BrokersTypeOK'
    <3>1. printed' \in [Devices -> 0 .. Garbage]
      BY <2>1
    <3>2. lost' \subseteq Devices
      BY <2>1
    <3> QED BY <2>1, <3>1, <3>2 DEF Handling
  <2>3. ASSUME NEW e \in Devices PROVE Traced(e)'
    <3>1. CASE e = cursor
      BY <2>1, <3>1 DEF Traced
    <3>2. CASE e # cursor
      BY <2>1, <3>2 DEF Traced
    <3> QED BY <3>1, <3>2
  <2> QED BY <2>1, <2>2, <2>3 DEF Handling
<1>4. CASE ClearNote
  <2>1. /\ pc = "clear" /\ Onward
        /\ flag' = [flag EXCEPT ![cursor] = FALSE]
        /\ lost' = IF Overlooked(cursor) THEN lost \cup {cursor} ELSE lost
        /\ UNCHANGED <<nodes, enlisted, file, count, job, target, reboots,
                       listed, pidFile, running, nodeCount, pending, printed,
                       starts, early>>
    BY <1>4 DEF ClearNote, dprideVars
  <2>2. BrokersTypeOK'
    BY <1>1, <2>1 DEF Handling
  <2>3. ASSUME NEW e \in Devices PROVE Traced(e)'
    <3>1. CASE e = cursor
      BY <2>1, <3>1 DEF Traced, Overlooked
    <3>2. CASE e # cursor
      BY <2>1, <3>2 DEF Traced
    <3> QED BY <3>1, <3>2
  <2> QED BY <1>1, <2>1, <2>2, <2>3 DEF Handling
<1>5. CASE WakeUp
  <2>1. /\ pc = "sleep"
        /\ \/ pc' = "patrol" /\ UNCHANGED <<lost, flag, pending>>
           \/ /\ pc' = "off" /\ pending' = {}
              /\ lost' = lost \cup pending \cup {d \in Devices : flag[d]}
              /\ flag' = [d \in Devices |-> FALSE]
        /\ UNCHANGED <<nodes, enlisted, file, count, job, target, reboots,
                       listed, pidFile, running, nodeCount, cursor, printed,
                       starts, early>>
    BY <1>5 DEF WakeUp, dprideVars
  <2>2. BrokersTypeOK'
    BY <2>1 DEF Handling
  <2>3. ASSUME NEW e \in Devices PROVE Traced(e)'
    BY <2>1 DEF Traced
  <2> QED BY <2>1, <2>2, <2>3 DEF Handling
<1>6. ASSUME NEW d \in Devices, ExamineEvent(d) PROVE Traces'
  <2>1. /\ pc \in Handling /\ d \in pending /\ pending' = pending \ {d}
        /\ flag' = [flag EXCEPT ![d] = TRUE]
        /\ UNCHANGED <<nodes, enlisted, file, count, job, target, reboots,
                       listed, pidFile, pc, running, nodeCount, cursor,
                       printed, starts, lost, early>>
    BY <1>6 DEF ExamineEvent, dprideVars
  <2>2. BrokersTypeOK'
    BY <2>1
  <2>3. ASSUME NEW e \in Devices PROVE Traced(e)'
    BY <2>1 DEF Traced
  <2> QED BY <2>1, <2>2, <2>3
<1> QED BY <1>2, <1>3, <1>4, <1>5, <1>6 DEF BrokerLoop

LEMMA TracesKept == Traces /\ [BrokersNext]_brokersVars => Traces'
<1> SUFFICES ASSUME Traces, [BrokersNext]_brokersVars PROVE Traces'
  OBVIOUS
<1>1. CASE UNCHANGED brokersVars
  BY <1>1 DEF brokersVars, dprideVars, brokerVars, Traces, Traced, BrokersTypeOK
<1> QED BY <1>1, DprideTraces, StartTraces, LoopTraces DEF BrokersNext

\* When all is quiet a broker has printed the newest value of each device it
\* knows, unless one of the device's signals was lost, or its file is empty:
\* however starts, stops, signals, restarts of dpride and values fall between
\* the steps of its main.
THEOREM BrokerForgetsNothing == BrokersSpec => []NothingForgotten
<1>1. BrokersInit => Traces
  <2> SUFFICES ASSUME BrokersInit PROVE Traces
    OBVIOUS
  <2>1. BrokersTypeOK
    <3>1. 1 \in Devices /\ 0 \in 0 .. Empty /\ 0 \in 0 .. Garbage
      BY BrokersBounds
    <3>2. 0 \in 0 .. MaxValues /\ 0 \in 0 .. MaxStarts /\ 0 \in 0 .. MaxReboots
      BY BrokersBounds
    <3>3. /\ file \in [Devices -> 0 .. Empty] /\ printed \in [Devices -> 0 .. Garbage]
          /\ flag \in [Devices -> BOOLEAN]
      BY <3>1 DEF BrokersInit
    <3>4. listed \in BOOLEAN /\ enlisted \in BOOLEAN /\ pidFile \in BOOLEAN
          /\ running \in BOOLEAN /\ early \in BOOLEAN
      BY DEF BrokersInit
    <3>5. pending = {} /\ lost = {} /\ pc = "off" /\ job = "idle"
      BY DEF BrokersInit
    <3>6. nodes \in Devices /\ target \in Devices /\ cursor \in Devices
          /\ nodeCount \in Devices \cup {0} /\ count \in 0 .. MaxValues
          /\ starts \in 0 .. MaxStarts /\ reboots \in 0 .. MaxReboots
      BY <3>1, <3>2 DEF BrokersInit
    <3> QED BY <3>3, <3>4, <3>5, <3>6 DEF BrokersTypeOK
  <2>2. ASSUME NEW d \in Devices PROVE printed[d] = file[d] /\ ~flag[d]
    BY DEF BrokersInit
  <2>3. job = "idle" /\ pending = {}
    BY DEF BrokersInit
  <2> QED BY <2>1, <2>2, <2>3 DEF Traces, Traced
<1>2. Traces => NothingForgotten
  <2> SUFFICES ASSUME Traces, Quiet, NEW d \in 1 .. nodeCount
               PROVE  printed[d] = file[d] \/ file[d] = Empty \/ d \in lost
    BY DEF Traces, NothingForgotten
  <2>1. d \in Devices
    BY BrokersBounds DEF Traces, BrokersTypeOK
  <2> QED BY <2>1 DEF Traces, Traced, Quiet
<1> QED BY <1>1, <1>2, TracesKept, PTL DEF BrokersSpec

(***************************************************************************)
(* LoggerAddress: WorksUnlessKept.  An address that is kept was found for  *)
(* the host of origin, in the routes of that time.                         *)
(***************************************************************************)
\* A set of numbers has a least one: the smallest of its parts up to a number
\* of the set, which are ordered by inclusion.
LEMMA LeastNumber ==
    ASSUME NEW S \in SUBSET Nat, S # {}
    PROVE  \E n \in S : \A m \in S : n <= m
<1> DEFINE upTo(n) == {k \in S : k <= n}
<1> DEFINE parts == {upTo(n) : n \in S}
<1>0. \A k \in S : k \in Nat
  OBVIOUS
<1>1. ASSUME NEW n \in S
      PROVE  IsFiniteSet(upTo(n)) /\ n \in upTo(n)
  <2>1. n \in Nat /\ n <= n
    BY <1>0
  <2>2. IsFiniteSet(0 .. n)
    BY <2>1, FS_Interval
  <2>3. \A k \in S : k <= n => k \in 0 .. n
    BY <1>0, <2>1
  <2>4. \A k \in upTo(n) : k \in S /\ k <= n
    OBVIOUS
  <2>5. upTo(n) \subseteq 0 .. n
    BY <2>3, <2>4
  <2> QED BY <2>1, <2>2, <2>5, FS_Subset
<1>2. parts \subseteq FiniteSubsetsOf(Nat) /\ parts # {}
  BY <1>1 DEF FiniteSubsetsOf
<1> DEFINE R == StrictSubsetOrdering(Nat)
<1>3. \E part \in parts : \A other \in parts : ~(<<other, part>> \in R)
  <2>1. IsWellFoundedOn(R, FiniteSubsetsOf(Nat))
    BY FS_StrictSubsetOrderingWellFounded
  <2> HIDE DEF R, parts
  <2> QED BY <1>2, <2>1, WFMin
<1>4. PICK n \in S : \A other \in parts : ~(<<other, upTo(n)>> \in R)
  BY <1>3
<1>5. ASSUME NEW m \in S, m < n
      PROVE  FALSE
  <2>1. n \in Nat /\ m \in Nat /\ ~(n <= m)
    BY <1>0, <1>5
  <2>2. \A k \in upTo(m) : k \in S /\ k \in Nat /\ k <= m
    BY <1>0
  <2>3. \A k \in upTo(m) : k <= n
    BY <1>5, <2>1, <2>2
  <2>4. upTo(m) \subseteq upTo(n) /\ n \notin upTo(m)
    BY <2>1, <2>2, <2>3
  <2>5. upTo(m) # upTo(n) /\ upTo(n) \subseteq Nat
    BY <1>0, <1>1, <2>4
  <2>6. <<upTo(m), upTo(n)>> \in R
    BY <2>4, <2>5 DEF StrictSubsetOrdering
  <2> QED BY <1>4, <2>6
<1> QED BY <1>0, <1>5

\* Lookup gives the address of a route that matches, or Unset if none does.
LEMMA LookupMatches ==
    ASSUME NEW host \in Hosts, routes \in Seq(Line)
    PROVE  /\ Lookup(host) = Unset => \A i \in DOMAIN routes : ~Matches(routes[i], host)
           /\ Lookup(host) # Unset =>
                \E i \in DOMAIN routes :
                    Matches(routes[i], host) /\ routes[i].src = Lookup(host)
           /\ Lookup(host) \in Addrs \cup {Unset}
<1> DEFINE found == {i \in DOMAIN routes : Matches(routes[i], host)}
<1> DEFINE least == CHOOSE i \in found : \A j \in found : i <= j
<1>1. CASE found = {}
  BY <1>1 DEF Lookup
<1>2. CASE found # {}
  <2>1. found \subseteq Nat
    OBVIOUS
  <2>2. least \in found
    BY <1>2, <2>1, LeastNumber
  <2>3. Lookup(host) = routes[least].src
    BY <1>2 DEF Lookup
  <2>4. least \in DOMAIN routes /\ Matches(routes[least], host)
    BY <2>2
  <2>5. routes[least] \in Line
    BY <2>4
  <2>6. routes[least].src # Unset /\ routes[least].kind = "network"
    BY <2>4 DEF Matches
  <2>7. routes[least].src \in Addrs
    BY <2>5, <2>6 DEF Line
  <2> QED BY <2>3, <2>4, <2>6, <2>7
<1> QED BY <1>1, <1>2

KeptFrom ==
    /\ WorksUnlessKept
    /\ origin.at <= changes
    /\ \A h \in Hosts : replies[h].at \in 0 .. changes \cup {MaxChanges + 1}
    /\ myAddr # Unset /\ origin.at = changes =>
         \E i \in DOMAIN routes :
             Matches(routes[i], origin.host) /\ routes[i].src = myAddr

LEMMA KeptFromKept == KeptFrom /\ [PageServerNext]_pageServerVars => KeptFrom'
<1> SUFFICES ASSUME KeptFrom, [PageServerNext]_pageServerVars
             PROVE  KeptFrom'
  OBVIOUS
<1>0. PageServerTypeOK /\ routes \in Seq(Line) /\ changes \in Nat /\ MaxChanges \in Nat
  BY AddressAssumption DEF KeptFrom, WorksUnlessKept, PageServerTypeOK
<1>1. ASSUME NEW h \in Hosts, GetPage(h)
      PROVE  KeptFrom'
  <2> DEFINE addr == IF myAddr # Unset THEN myAddr ELSE Lookup(h)
  <2>1. /\ myAddr' = addr
        /\ replies' = [replies EXCEPT ![h] = [addr |-> addr, at |-> changes]]
        /\ origin' = IF myAddr # Unset THEN origin ELSE [host |-> h, at |-> changes]
        /\ routes' = routes /\ changes' = changes
    BY <1>1 DEF GetPage
  <2>2. addr \in Addrs \cup {Unset}
    BY <1>0, LookupMatches DEF PageServerTypeOK
  <2> HIDE DEF addr
  <2>3. PageServerTypeOK'
    <3>1. [addr |-> addr, at |-> changes] \in [addr : Addrs \cup {Unset}, at : 0 .. MaxChanges + 1]
      BY <1>0, <2>2 DEF PageServerTypeOK
    <3>2. replies' \in [Hosts -> [addr : Addrs \cup {Unset}, at : 0 .. MaxChanges + 1]]
      BY <1>0, <2>1, <3>1 DEF PageServerTypeOK
    <3>3. origin' \in [host : Hosts, at : 0 .. MaxChanges]
      BY <1>0, <2>1 DEF PageServerTypeOK
    <3> QED BY <1>0, <2>1, <2>2, <3>2, <3>3 DEF PageServerTypeOK
  <2>4. (myAddr # Unset /\ origin.at = changes =>
          \E i \in DOMAIN routes :
             Matches(routes[i], origin.host) /\ routes[i].src = myAddr)'
    <3>1. CASE myAddr # Unset
      BY <2>1, <3>1 DEF KeptFrom, addr, Matches
    <3>2. CASE myAddr = Unset
      <4>1. myAddr' = Lookup(h) /\ origin'.host = h
        BY <2>1, <3>2 DEF addr
      <4> QED BY <1>0, <2>1, <4>1, LookupMatches DEF Matches
    <3> QED BY <3>1, <3>2
  <2>5. ASSUME NEW g \in Hosts, replies'[g].at = changes'
        PROVE  \/ Works(g)'
               \/ replies'[g].addr = Unset
                  /\ \A i \in DOMAIN routes' : ~Matches(routes'[i], g)
               \/ replies'[g].addr # Unset
                  /\ (origin'.host # g \/ origin'.at # changes')
    <3>1. CASE g # h
      <4>1. replies'[g] = replies[g] /\ replies[g].at = changes
        BY <1>0, <2>1, <2>5, <3>1 DEF PageServerTypeOK
      <4>2. \/ Works(g)
            \/ replies[g].addr = Unset
               /\ \A i \in DOMAIN routes : ~Matches(routes[i], g)
            \/ replies[g].addr # Unset
               /\ (origin.host # g \/ origin.at # changes)
        BY <4>1 DEF KeptFrom, WorksUnlessKept
      <4>3. Works(g)' <=> Works(g)
        BY <2>1, <4>1 DEF Works, Matches
      <4>4. origin' = origin \/ origin'.host = h
        BY <2>1
      <4> QED BY <2>1, <3>1, <4>1, <4>2, <4>3, <4>4 DEF Matches
    <3>2. CASE g = h
      <4>1. replies'[h].addr = addr /\ myAddr' = addr
        BY <1>0, <2>1 DEF PageServerTypeOK
      <4>2. CASE addr = Unset
        <5>1. Lookup(h) = Unset
          BY <4>2 DEF addr
        <5> QED BY <1>0, <2>1, <3>2, <4>1, <4>2, <5>1, LookupMatches DEF Matches
      <4>3. CASE addr # Unset
        <5>1. CASE origin'.host = h /\ origin'.at = changes'
          <6>1. PICK i \in DOMAIN routes' : Matches(routes'[i], h) /\ routes'[i].src = addr
            BY <2>4, <4>1, <4>3, <5>1 DEF Matches
          <6> QED BY <3>2, <4>1, <6>1 DEF Works, Matches
        <5> QED BY <3>2, <4>1, <4>3, <5>1
      <4> QED BY <4>2, <4>3
    <3> QED BY <3>1, <3>2
  <2>6. (/\ origin.at <= changes
         /\ \A g \in Hosts : replies[g].at \in 0 .. changes \cup {MaxChanges + 1})'
    BY <1>0, <2>1 DEF KeptFrom, PageServerTypeOK
  <2> QED BY <2>3, <2>4, <2>5, <2>6 DEF KeptFrom, WorksUnlessKept, Matches
<1>2. ASSUME NEW t \in Tables, ChangeRoutes(t)
      PROVE  KeptFrom'
  <2>1. /\ changes < MaxChanges /\ changes' = changes + 1 /\ routes' = t
        /\ myAddr' = myAddr /\ replies' = replies /\ origin' = origin
    BY <1>2 DEF ChangeRoutes
  <2>2. PageServerTypeOK'
    BY <1>0, <2>1 DEF PageServerTypeOK
  <2>3. origin'.at # changes' /\ origin'.at <= changes'
    <3>1. origin.at \in 0 .. MaxChanges /\ origin.at <= changes
      BY <1>0 DEF PageServerTypeOK, KeptFrom
    <3> QED BY <1>0, <2>1, <3>1
  <2>4. \A h \in Hosts : /\ replies'[h].at # changes'
                        /\ replies'[h].at \in 0 .. changes' \cup {MaxChanges + 1}
    BY <1>0, <2>1 DEF KeptFrom
  <2> QED BY <2>2, <2>3, <2>4 DEF KeptFrom, WorksUnlessKept
<1>3. CASE UNCHANGED pageServerVars
  BY <1>3 DEF pageServerVars, KeptFrom, WorksUnlessKept, PageServerTypeOK, Works, Matches
<1> QED
  BY <1>1, <1>2, <1>3 DEF PageServerNext

\* Any page that is sent works at that moment, unless its address was found
\* for another host or before the routes changed.
THEOREM PagesWork == PageServerSpec => []WorksUnlessKept
<1>1. PageServerInit => KeptFrom
  BY AddressAssumption DEF PageServerInit, KeptFrom, WorksUnlessKept, PageServerTypeOK, NoReply
<1>2. KeptFrom => WorksUnlessKept
  BY DEF KeptFrom
<1> QED
  BY <1>1, <1>2, KeptFromKept, PTL DEF PageServerSpec
=============================================================================
