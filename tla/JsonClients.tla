---------------------------- MODULE JsonClients -----------------------------
(***************************************************************************)
(* The JavaScript clients of the JSON service: epoclient, which relays     *)
(* what it receives to a browser page, and the readers of jsclient, which  *)
(* print it (app.js) or parse it first (app2.js, app3.js).                 *)
(*                                                                         *)
(* The service takes one client for the life of dpride, and its listening  *)
(* socket stays open: the system completes the connections of the others,  *)
(* which nobody will ever serve.  What it sends is a stream of bytes, and  *)
(* a client's data event holds any number of them.                         *)
(*                                                                         *)
(* How the service makes and orders telegrams is JsonService's matter; of  *)
(* it remain here accept, send, the end of the thread and of the program.  *)
(***************************************************************************)
EXTENDS Naturals, Sequences, SequencesExt

CONSTANTS
    Relay,           \* epoclient
    Printers,        \* readers that print what they receive (app.js)
    Parsers,         \* readers that parse it first (app2.js, app3.js)
    Nobody,          \* no client
    MaxTelegrams,    \* bound: telegrams sent
    MaxRestarts      \* bound: restarts of dpride

Readers == Printers \cup Parsers
Clients == Readers \cup {Relay}

ASSUME ClientsAssumption ==
    /\ Nobody \notin Clients /\ Relay \notin Readers
    /\ Printers \cap Parsers = {}
    /\ MaxTelegrams \in Nat /\ MaxRestarts \in Nat

\* A telegram's text in three pieces, between any of which the stream may
\* be cut: the head, the rest and the '\0' JsonRelease appends.
Piece == [telegram : 1 .. MaxTelegrams, part : {"head", "rest", "nul"}]

VARIABLES
    server,     \* JsonServer: "none", "accept", "serve" or "ended"
    stop,       \* Json.Stop
    backlog,    \* clients whose connection is complete but not accepted
    peer,       \* the client sock2 leads to, or Nobody
    lingering,  \* the port is in TIME_WAIT: bind fails
    restarts,   \* restarts of dpride
    sent,       \* telegrams sent: is the text sound JSON?
    wire,       \* pieces on their way to each client
    fin,        \* clients whose connection the other side has ended
    state,      \* clients: "off", "open", "waiting" (timer set) or "ended"
    retrying,   \* epoclient's flag
    shown,      \* telegrams each parser has printed
    values,     \* the page: the telegram its values come from, or 0
    received,   \* the page: tphuDataReceived and accDataReceived
    points,     \* the page's graph: the telegrams its points show
    first,      \* history: the first to connect since dpride listens
    fed,        \* history: clients that telegrams were sent to since then
    since       \* history: telegrams sent before each client was accepted

serviceVars == <<server, stop, backlog, peer, lingering, restarts>>
streamVars == <<sent, wire, fin>>
clientVars == <<state, retrying, shown>>
pageVars == <<values, received, points>>
histories == <<first, fed, since>>
jsonVars == <<serviceVars, streamVars, clientVars, pageVars, histories>>

Listening == server \in {"accept", "serve"}
PeerOpen == peer # Nobody /\ state[peer] = "open" /\ peer \notin fin

(***************************************************************************)
(* The service.                                                            *)
(***************************************************************************)
\* JsonStart, and the thread up to listen.  There is no SO_REUSEADDR.
StartService ==
    /\ server = "none"
    /\ server' = IF lingering THEN "ended" ELSE "accept"
    /\ UNCHANGED <<stop, backlog, peer, lingering, restarts, streamVars,
                   clientVars, pageVars, histories>>

\* Mutation of Accept: the server goes back to accept.
MutAcceptAgain ==
    /\ Listening /\ backlog # <<>>
    /\ server' = "serve"
    /\ peer' = Head(backlog)
    /\ backlog' = Tail(backlog)
    /\ since' = [since EXCEPT ![Head(backlog)] = Len(sent)]
    /\ UNCHANGED <<stop, lingering, restarts, streamVars, clientVars,
                   pageVars, first, fed>>

\* A connection is accepted even if its client has left meanwhile.
Accept ==
    /\ server = "accept" /\ backlog # <<>>
    /\ server' = "serve"
    /\ peer' = Head(backlog)
    /\ backlog' = Tail(backlog)
    /\ since' = [since EXCEPT ![Head(backlog)] = Len(sent)]
    /\ UNCHANGED <<stop, lingering, restarts, streamVars, clientVars,
                   pageVars, first, fed>>

\* send.  Without functions the text is not sound JSON: JsonAddInfo closes
\* a list that JsonAddFunc has not opened.
Send(sound) ==
    LET Of(part) == [telegram |-> Len(sent) + 1, part |-> part] IN
    /\ server = "serve" /\ Len(sent) < MaxTelegrams
    /\ sent' = Append(sent, sound)
    /\ IF PeerOpen
       THEN /\ wire' = [wire EXCEPT ![peer] =
                            @ \o <<Of("head"), Of("rest"), Of("nul")>>]
            /\ fed' = fed \cup {peer}
       ELSE UNCHANGED <<wire, fed>>
    /\ UNCHANGED <<serviceVars, fin, clientVars, pageVars, first, since>>

\* JsonStop, on a change of mode.
JsonStop ==
    /\ Listening /\ ~stop
    /\ stop' = TRUE
    /\ UNCHANGED <<server, backlog, peer, lingering, restarts, streamVars,
                   clientVars, pageVars, histories>>

\* JsonServer ends and closes the listening socket, not sock2: the system
\* resets the connections in the backlog, the peer stays connected.
EndServer ==
    /\ server = "serve" /\ stop
    /\ server' = "ended"
    /\ backlog' = <<>>
    /\ fin' = fin \cup {c \in ToSet(backlog) : state[c] = "open"}
    /\ UNCHANGED <<stop, peer, lingering, restarts, sent, wire, clientVars,
                   pageVars, histories>>

\* dpride ends, and main is run again.  Of a connection it closes before
\* the peer does, the system keeps the port for a while.
Restart ==
    /\ restarts < MaxRestarts
    /\ restarts' = restarts + 1
    /\ server' = "none" /\ stop' = FALSE
    /\ backlog' = <<>> /\ peer' = Nobody
    /\ lingering' = (lingering \/ PeerOpen)
    /\ fin' = fin \cup {c \in ToSet(backlog) \cup ({peer} \ {Nobody}) :
                            state[c] = "open"}
    /\ first' = Nobody /\ fed' = {}
    /\ UNCHANGED <<sent, wire, clientVars, pageVars, since>>

\* TIME_WAIT is over.
PortFree ==
    /\ lingering
    /\ lingering' = FALSE
    /\ UNCHANGED <<server, stop, backlog, peer, restarts, streamVars,
                   clientVars, pageVars, histories>>

(***************************************************************************)
(* The clients.                                                            *)
(***************************************************************************)
\* A connection is completed by the system, or refused.
Connected(c) ==
    /\ backlog' = Append(backlog, c)
    /\ first' = IF first = Nobody THEN c ELSE first

\* A reader is started once.  No reader has a handler of error events: one
\* whose connection is refused ends.
StartReader(c) ==
    /\ state[c] = "off"
    /\ IF Listening
       THEN state' = [state EXCEPT ![c] = "open"] /\ Connected(c)
       ELSE state' = [state EXCEPT ![c] = "ended"] /\ UNCHANGED <<backlog, first>>
    /\ UNCHANGED <<server, stop, peer, lingering, restarts, streamVars,
                   retrying, shown, pageVars, fed, since>>

\* Mutation of NextTry: the timer is set on the first close only.
MutNextTry(again) == IF again THEN "idle" ELSE "waiting"

\* closeEventHandler: setTimeout whether or not retrying is set already.
NextTry(again) == "waiting"

\* makeConnection, called by main and by the timer.  If refused, an error
\* event is printed and a close event follows.
MakeConnection ==
    /\ state[Relay] = "waiting"
    /\ IF Listening
       THEN /\ state' = [state EXCEPT ![Relay] = "open"]
            /\ retrying' = FALSE
            /\ Connected(Relay)
       ELSE /\ state' = [state EXCEPT ![Relay] = NextTry(retrying)]
            /\ retrying' = TRUE
            /\ UNCHANGED <<backlog, first>>
    /\ UNCHANGED <<server, stop, peer, lingering, restarts, streamVars, shown,
                   pageVars, fed, since>>

\* The close event, after the data.  A reader has nothing left to do then
\* and ends.
CloseEvent(c) ==
    /\ c \in fin /\ wire[c] = <<>>
    /\ fin' = fin \ {c}
    /\ IF c = Relay
       THEN /\ state' = [state EXCEPT ![c] = NextTry(retrying)]
            /\ retrying' = TRUE
       ELSE state' = [state EXCEPT ![c] = "ended"] /\ UNCHANGED retrying
    /\ UNCHANGED <<serviceVars, sent, wire, shown, pageVars, histories>>

\* Somebody stops a reader.
Quit(c) ==
    /\ state[c] = "open"
    /\ state' = [state EXCEPT ![c] = "ended"]
    /\ wire' = [wire EXCEPT ![c] = <<>>]
    /\ fin' = fin \ {c}
    /\ UNCHANGED <<serviceVars, sent, retrying, shown, pageVars, histories>>

\* What the handlers of data events make of a chunk: control characters,
\* and with them every '\0', are removed.  The other pieces are given as a
\* set: a stream has each once, and in the order they were sent.
Text(chunk) == {p \in ToSet(chunk) : p.part # "nul"}

\* JSON.parse accepts the whole text of one sound telegram, nothing else.
IsTelegram(text, n) ==
    /\ sent[n]
    /\ text = {[telegram |-> n, part |-> "head"],
               [telegram |-> n, part |-> "rest"]}
Parses(text) == \E n \in DOMAIN sent : IsTelegram(text, n)
Parsed(text) == CHOOSE n \in DOMAIN sent : IsTelegram(text, n)

\* The chunk a data event has.
Arrives(c, k) == wire' = [wire EXCEPT ![c] = SubSeq(@, k + 1, Len(@))]

\* app.js: the chunk is printed as it is.
PrintData(c, k) ==
    /\ k \in 1 .. Len(wire[c])
    /\ Arrives(c, k)
    /\ UNCHANGED <<serviceVars, sent, fin, clientVars, pageVars, histories>>

\* Mutation of ParseData: a chunk that is not JSON is skipped.
MutParseSkips(c, k) ==
    LET text == Text(SubSeq(wire[c], 1, k)) IN
    /\ k \in 1 .. Len(wire[c])
    /\ Arrives(c, k)
    /\ shown' = IF Parses(text)
                THEN [shown EXCEPT ![c] = Append(@, Parsed(text))]
                ELSE shown
    /\ UNCHANGED <<serviceVars, sent, fin, state, retrying, pageVars,
                   histories>>

\* app2.js, app3.js: JSON.parse throws, and nobody catches it.
ParseData(c, k) ==
    LET text == Text(SubSeq(wire[c], 1, k)) IN
    /\ k \in 1 .. Len(wire[c])
    /\ IF Parses(text)
       THEN /\ shown' = [shown EXCEPT ![c] = Append(@, Parsed(text))]
            /\ Arrives(c, k)
            /\ UNCHANGED <<state, fin>>
       ELSE /\ state' = [state EXCEPT ![c] = "ended"]
            /\ wire' = [wire EXCEPT ![c] = <<>>]
            /\ fin' = fin \ {c}
            /\ UNCHANGED shown
    /\ UNCHANGED <<serviceVars, sent, retrying, pageVars, histories>>

\* dataEventHandler emits the text to the page, whose handler parses it:
\* if that throws, the page goes on with what it had.
RelayData(k) ==
    LET text == Text(SubSeq(wire[Relay], 1, k)) IN
    /\ k \in 1 .. Len(wire[Relay])
    /\ Arrives(Relay, k)
    /\ IF Parses(text)
       THEN values' = Parsed(text) /\ received' = TRUE
       ELSE UNCHANGED <<values, received>>
    /\ UNCHANGED <<serviceVars, sent, fin, clientVars, points, histories>>

(***************************************************************************)
(* The page.  Every telegram is taken to have a value for each of the      *)
(* graph's keys; one that has not leaves the value of the one before.      *)
(***************************************************************************)
\* The timer of a graph, once a second.
UpdateGraph ==
    /\ received
    /\ points' = Append(points, values)
    /\ received' = FALSE
    /\ UNCHANGED <<serviceVars, streamVars, clientVars, values, histories>>

\* The page is loaded, or loaded again.
LoadPage ==
    /\ values' = 0 /\ received' = FALSE /\ points' = <<>>
    /\ UNCHANGED <<serviceVars, streamVars, clientVars, histories>>

JsonInit ==
    /\ server = "none" /\ stop = FALSE /\ backlog = <<>> /\ peer = Nobody
    /\ lingering = FALSE /\ restarts = 0
    /\ sent = <<>> /\ wire = [c \in Clients |-> <<>>] /\ fin = {}
    /\ state = [c \in Clients |-> IF c = Relay THEN "waiting" ELSE "off"]
    /\ retrying = FALSE /\ shown = [c \in Parsers |-> <<>>]
    /\ values = 0 /\ received = FALSE /\ points = <<>>
    /\ first = Nobody /\ fed = {} /\ since = [c \in Clients |-> 0]

JsonNext ==
    \/ StartService \/ Accept \/ JsonStop \/ EndServer \/ Restart \/ PortFree
    \/ \E sound \in BOOLEAN : Send(sound)
    \/ MakeConnection \/ UpdateGraph \/ LoadPage
    \/ \E k \in 1 .. 3 * MaxTelegrams : RelayData(k)
    \/ \E c \in Clients : CloseEvent(c)
    \/ \E c \in Readers : StartReader(c) \/ Quit(c)
    \/ \E c \in Printers, k \in 1 .. 3 * MaxTelegrams : PrintData(c, k)
    \/ \E c \in Parsers, k \in 1 .. 3 * MaxTelegrams : ParseData(c, k)

\* The event loop of epoclient runs its handlers and timers, and the server
\* thread accepts; dpride and the readers owe nothing else.
JsonFairness ==
    /\ WF_jsonVars(MakeConnection) /\ WF_jsonVars(Accept)
    /\ WF_jsonVars(CloseEvent(Relay))
    /\ WF_jsonVars(\E k \in 1 .. 3 * MaxTelegrams : RelayData(k))

JsonSpec == JsonInit /\ [][JsonNext]_jsonVars /\ JsonFairness

(***************************************************************************)
(* Properties.                                                             *)
(***************************************************************************)
ClientsTypeOK ==
    /\ server \in {"none", "accept", "serve", "ended"} /\ stop \in BOOLEAN
    /\ backlog \in Seq(Clients) /\ peer \in Clients \cup {Nobody}
    /\ lingering \in BOOLEAN /\ restarts \in 0 .. MaxRestarts
    /\ sent \in Seq(BOOLEAN) /\ wire \in [Clients -> Seq(Piece)]
    /\ fin \subseteq Clients
    /\ state \in [Clients -> {"off", "open", "waiting", "ended"}]
    /\ retrying \in BOOLEAN /\ shown \in [Parsers -> Seq(1 .. MaxTelegrams)]
    /\ values \in 0 .. MaxTelegrams /\ received \in BOOLEAN
    /\ points \in Seq(1 .. MaxTelegrams)
    /\ first \in Clients \cup {Nobody} /\ fed \subseteq Clients
    /\ since \in [Clients -> 0 .. MaxTelegrams]

\* Until dpride is restarted, telegrams go to nobody but the client that
\* connected first: JsonServer accepts once.  If that was a reader that has
\* left, even before it was accepted, epoclient is connected, sees no error
\* and gets nothing.
OnlyTheFirst == fed \subseteq {first}

\* Whatever the cuts of the stream and over any restarts of dpride: app2.js
\* and app3.js print the telegrams sent since they were accepted without a
\* gap, for they end at the first chunk that is not exactly one sound
\* telegram (two telegrams in one chunk, a telegram in two, or one without
\* functions); the page's graph, which goes on after such chunks, has gaps,
\* but shows only whole telegrams, each once and in the order sent.  Every
\* variable keeps its type.
ShownOnce ==
    /\ ClientsTypeOK
    /\ \A c \in Parsers : \A k \in DOMAIN shown[c] : shown[c][k] = since[c] + k
    /\ \A i, j \in DOMAIN points : i < j => points[i] < points[j]
    /\ \A i \in DOMAIN points : sent[points[i]]

\* epoclient never gives up: if the service listens for good, epoclient has
\* a connection to it in the end, and the service has a client.
Resumes == <>[]Listening => <>[](state[Relay] = "open" /\ server = "serve")
=============================================================================
