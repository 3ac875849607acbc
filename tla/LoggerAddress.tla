--------------------------- MODULE LoggerAddress ----------------------------
(***************************************************************************)
(* The address the monitor page of wsclient connects to: utils.getMyAddr   *)
(* looks among the host's routes for a network the request came from and   *)
(* keeps the address it has found for good; logger.js puts it into the     *)
(* page as ws://<address>:8088/echo.  Meanwhile routes come and go, and    *)
(* requests come from other networks.                                      *)
(*                                                                         *)
(* Requests over IPv4 only: of an address ::ffff:a.b.c.d the code takes    *)
(* the last part, and what ip.cidr makes of others is not modelled.        *)
(***************************************************************************)
EXTENDS Naturals, Sequences

CONSTANTS
    Nets,          \* networks
    Hosts,         \* where requests come from
    Members,       \* the hosts in each network: networks may overlap
    Addrs,         \* addresses the gateway's host may have
    Unset,         \* JavaScript's undefined
    Tables,        \* what "ip route" may print
    MaxChanges     \* bound: changes of the routes

\* A line of "ip route": the default route, or a network, perhaps with the
\* host's own address in it as the ninth word.
Line ==
    [kind : {"default"}]
    \cup [kind : {"network"}, net : Nets, src : Addrs \cup {Unset}]

ASSUME AddressAssumption ==
    /\ Members \in [Nets -> SUBSET Hosts]
    /\ Unset \notin Addrs
    /\ Tables \subseteq Seq(Line) /\ Tables # {}
    /\ MaxChanges \in Nat

VARIABLES
    routes,     \* the routes now
    changes,    \* changes of them so far
    myAddr,     \* utils.js: the address found, or Unset
    replies,    \* each host's last page: the address in it, and changes then
    origin      \* history: who made the code look, and changes then

pageServerVars == <<routes, changes, myAddr, replies, origin>>

\* A line of a network the host is in that gives an address.
Matches(line, host) ==
    line.kind = "network" /\ line.src # Unset /\ host \in Members[line.net]

\* Mutation of Lookup: the first line with an address, whoever asks.
MutAnyNetwork(host) ==
    LET found == {i \in DOMAIN routes :
                      routes[i].kind = "network" /\ routes[i].src # Unset} IN
    IF found = {} THEN Unset
    ELSE routes[CHOOSE i \in found : \A j \in found : i <= j].src

\* The loop over the lines breaks at the first that matches.
Lookup(host) ==
    LET found == {i \in DOMAIN routes : Matches(routes[i], host)} IN
    IF found = {} THEN Unset
    ELSE routes[CHOOSE i \in found : \A j \in found : i <= j].src

\* logger.get and logger.post.
GetPage(host) ==
    LET addr == IF myAddr # Unset THEN myAddr ELSE Lookup(host) IN
    /\ myAddr' = addr
    /\ replies' = [replies EXCEPT ![host] = [addr |-> addr, at |-> changes]]
    /\ origin' = IF myAddr # Unset THEN origin
                 ELSE [host |-> host, at |-> changes]
    /\ UNCHANGED <<routes, changes>>

\* External: DHCP, a cable, the administrator.
ChangeRoutes(table) ==
    /\ changes < MaxChanges
    /\ changes' = changes + 1
    /\ routes' = table
    /\ UNCHANGED <<myAddr, replies, origin>>

NoReply == [addr |-> Unset, at |-> MaxChanges + 1]

PageServerInit ==
    /\ routes \in Tables /\ changes = 0 /\ myAddr = Unset
    /\ replies = [h \in Hosts |-> NoReply]
    /\ origin \in [host : Hosts, at : {0}]

PageServerNext ==
    \/ \E h \in Hosts : GetPage(h)
    \/ \E t \in Tables : ChangeRoutes(t)

PageServerSpec == PageServerInit /\ [][PageServerNext]_pageServerVars

(***************************************************************************)
(* Properties.                                                             *)
(***************************************************************************)
PageServerTypeOK ==
    /\ routes \in Tables /\ changes \in 0 .. MaxChanges
    /\ myAddr \in Addrs \cup {Unset}
    /\ replies \in [Hosts -> [addr : Addrs \cup {Unset}, at : 0 .. MaxChanges + 1]]
    /\ origin \in [host : Hosts, at : 0 .. MaxChanges]

\* The page works for the host that gets it: the gateway's host has the
\* address, in a network of the host's.
Works(host) ==
    \E i \in DOMAIN routes :
        Matches(routes[i], host) /\ routes[i].src = replies[host].addr

\* A page that has just been sent works, unless the address was found for
\* another host, or before the routes were changed; and it has no address
\* only if no network of the host's is attached.  Once an address is found
\* every page has it, whoever asks and whatever has become of the routes.
WorksUnlessKept ==
    /\ PageServerTypeOK
    /\ \A h \in Hosts :
        replies[h].at = changes =>
            \/ Works(h)
            \/ replies[h].addr = Unset
               /\ \A i \in DOMAIN routes : ~Matches(routes[i], h)
            \/ replies[h].addr # Unset
               /\ (origin.host # h \/ origin.at # changes)
=============================================================================
