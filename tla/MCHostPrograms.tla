--------------------------- MODULE MCHostPrograms ---------------------------
(***************************************************************************)
(* The programs around dpride for TLC: the JSON clients, the page server   *)
(* of the monitor and the broker.  They share nothing, so each is explored *)
(* with the others at rest: focus says which.                              *)
(*                                                                         *)
(* HostA and hostB are in one network, hostC in another; routes begin      *)
(* with the default route, the home network may be given a new address,    *)
(* and the other one may come first.                                       *)
(***************************************************************************)
EXTENDS JsonClients, LoggerAddress, Brokers

CONSTANTS hostA, hostB, hostC, x, y, z

VARIABLE focus

DefaultRoute == [kind |-> "default"]
Attached(net, src) == [kind |-> "network", net |-> net, src |-> src]

HostMembers == [n \in Nets |-> IF n = "home" THEN {hostA, hostB} ELSE {hostC}]
HostTables ==
    { <<DefaultRoute>>,
      <<DefaultRoute, Attached("home", x)>>,
      <<DefaultRoute, Attached("other", Unset), Attached("home", y)>>,
      <<DefaultRoute, Attached("other", z), Attached("home", x)>> }

allVars == <<focus, jsonVars, pageServerVars, brokersVars>>

Init ==
    /\ focus \in {"json", "page", "broker"}
    /\ JsonInit /\ PageServerInit /\ BrokersInit
    /\ focus # "page" => routes = <<DefaultRoute>> /\ origin.host = hostA
    /\ focus # "broker" => ~listed

JsonStep == focus = "json" /\ JsonNext /\ UNCHANGED <<pageServerVars, brokersVars>>
PageStep == focus = "page" /\ PageServerNext /\ UNCHANGED <<jsonVars, brokersVars>>
BrokerStep == focus = "broker" /\ BrokersNext /\ UNCHANGED <<jsonVars, pageServerVars>>

Next == (JsonStep \/ PageStep \/ BrokerStep) /\ UNCHANGED focus

Spec ==
    /\ Init /\ [][Next]_allVars
    /\ WF_jsonVars(focus = "json" /\ MakeConnection)
    /\ WF_jsonVars(focus = "json" /\ Accept)
    /\ WF_jsonVars(focus = "json" /\ CloseEvent(Relay))
    /\ WF_jsonVars(focus = "json" /\ \E k \in 1 .. 3 * MaxTelegrams : RelayData(k))
    /\ WF_brokersVars(focus = "broker" /\ BrokerLoop)
=============================================================================
