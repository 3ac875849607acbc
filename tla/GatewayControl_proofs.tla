----------------------- MODULE GatewayControl_proofs ------------------------
(***************************************************************************)
(* Proofs about GatewayControl, for any devices, commands of the host,     *)
(* modes of the transceiver and number of faults.                          *)
(*                                                                         *)
(* The invariants are proved in layers, each from those before:            *)
(*   Basic    types without bounds, and which command follows which;       *)
(*   Ages     how old the commands and answers under way are;              *)
(*   Chain    no answer is older than the one taken before it;             *)
(*   Known    what the start loop may conclude from an answer;             *)
(*   Rows     the control file's lines against node table and teach-in;    *)
(*   Bounds   how long tables and counters get;                            *)
(*   Agrees   the gateway as it will be when the line is empty.            *)
(***************************************************************************)
EXTENDS GatewayControl, SequenceTheorems, FiniteSetTheorems, TLAPS

(***************************************************************************)
(* Types, and the order of main's steps.                                   *)
(***************************************************************************)
Ops == Commands \cup Local
Sent == {c \in [op : Commands, id : Ids \cup {NoId}, mode : Transceiver,
                age : Nat] : c.op = "ADD" => c.id \in Ids}
Answered == [status : Statuses, real : BOOLEAN, age : Nat]
Gateways == [erp2 : BOOLEAN, mode : Transceiver, filter : SUBSET Ids,
             enabled : BOOLEAN]

Types ==
    /\ phase \in {"start", "run", "exited"}
    /\ todo \in Seq(Ops)
    /\ index \in Nat \ {0}
    /\ waiting \in BOOLEAN /\ erp1gw \in BOOLEAN
    /\ overlap \in BOOLEAN /\ raced \in BOOLEAN
    /\ failures \in Nat
    /\ modeSet \in Transceiver /\ mode \in Modes
    /\ count \in Nat /\ csv \in Nat
    /\ file \in Seq(Ids) /\ nodes \in Seq(Ids)
    /\ job \in {Idle} \cup [id : Ids, csv : Nat,
                            at : {"mode", "append", "read", "end", "count"}]
    /\ line \in Seq(Sent) /\ answers \in Seq(Answered)
    /\ gateway \in Gateways
    /\ faults \in [slow : Nat, lost : Nat, silent : Nat, made : Nat]
    /\ lag \in Nat

\* What may follow what in todo, ...
Follows ==
    {<<"WR_MODE", "Monitor">>, <<"Monitor", "DEL_ALL">>,
     <<"WR_MODE", "Register">>, <<"Register", "DISABLE">>,
     <<"WR_MODE", "TRUNCATE">>, <<"TRUNCATE", "COUNT_0">>,
     <<"COUNT_0", "DEL_ALL">>, <<"DEL_ALL", "CLEAR_TABLE">>,
     <<"CLEAR_TABLE", "COUNT_0">>, <<"COUNT_0", "Register">>,
     <<"WR_MODE", "Operation">>, <<"Operation", "READ">>, <<"READ", "MARK">>,
     <<"MARK", "COUNT">>, <<"COUNT", "APPLY">>,
     <<"VERSION", "DEL_ALL">>, <<"DEL_ALL", "ADD">>, <<"ADD", "ENABLE">>,
     <<"DEL_ALL", "DISABLE">>}

\* ... and what todo may end with.
Ends == {"DISABLE", "APPLY", "ENABLE", "WR_MODE", "VERSION", "RESET",
         "START_MODE"}

Ordered(s) ==
    /\ \A i \in 1 .. Len(s) - 1 : <<s[i], s[i + 1]>> \in Follows
    /\ s # <<>> => s[Len(s)] \in Ends

\* The node table is cleared once, after file and filter; only a plan that
\* begins with the filter fills it, and does not switch it off again.  No
\* plan that has the file read clears the table.
Has(s, e) == \E i \in 1 .. Len(s) : s[i] = e
Cleared(s) ==
    /\ \A i, j \in 1 .. Len(s) :
          s[i] = "CLEAR_TABLE" /\ i < j =>
              s[j] \notin {"CLEAR_TABLE", "TRUNCATE", "DEL_ALL"}
    /\ \A i, j \in 1 .. Len(s) :
          s[i] = "ADD" /\ j < i => s[j] \in {"VERSION", "DEL_ALL"}
    /\ \A i, j \in 1 .. Len(s) : s[i] = "VERSION" => s[j] # "DISABLE"
    /\ \A i, j \in 1 .. Len(s) : s[i] = "MARK" => s[j] # "CLEAR_TABLE"

Plan ==
    /\ Ordered(todo)
    /\ phase = "start" => /\ todo \in {<<"RESET">>, <<"START_MODE">>}
                          /\ failures <= StartRetries
    /\ phase = "run" /\ todo # <<>> => Head(todo) \notin {"RESET", "START_MODE"}
    /\ waiting => todo # <<>> /\ Head(todo) \in Commands

Basic == Types /\ Plan

\* The tail of a plan is one, and what comes next is what may follow.
LEMMA TailOrdered ==
    ASSUME NEW s \in Seq(Ops), s # <<>>, Ordered(s)
    PROVE  /\ Tail(s) \in Seq(Ops) /\ Ordered(Tail(s))
           /\ Head(s) \in Ops /\ Head(s) = s[1]
           /\ Tail(s) # <<>> => <<Head(s), Head(Tail(s))>> \in Follows
           /\ Tail(s) = <<>> => Head(s) \in Ends
<1>1. /\ Tail(s) \in Seq(Ops) /\ Len(Tail(s)) = Len(s) - 1
      /\ \A i \in 1 .. Len(Tail(s)) : Tail(s)[i] = s[i + 1]
      /\ Len(s) \in Nat \ {0} /\ Head(s) = s[1] /\ Head(s) \in Ops
  BY HeadTailProperties, EmptySeq
<1>2. Tail(s) # <<>> => Len(Tail(s)) > 0 /\ Head(Tail(s)) = Tail(s)[1]
  BY <1>1
<1>3. Tail(s) = <<>> => Len(s) = 1
  <2>1. Len(<<>>) = 0
    OBVIOUS
  <2> QED BY <1>1, <2>1
<1>4. \A i \in 1 .. Len(Tail(s)) - 1 : <<Tail(s)[i], Tail(s)[i + 1]>> \in Follows
  <2> SUFFICES ASSUME NEW i \in 1 .. Len(Tail(s)) - 1
               PROVE  <<Tail(s)[i], Tail(s)[i + 1]>> \in Follows
    OBVIOUS
  <2>1. Tail(s)[i] = s[i + 1] /\ Tail(s)[i + 1] = s[i + 1 + 1]
    BY <1>1
  <2>2. i + 1 \in 1 .. Len(s) - 1
    BY <1>1
  <2> QED BY <2>1, <2>2 DEF Ordered
<1>5. Tail(s) # <<>> => Tail(s)[Len(Tail(s))] \in Ends
  BY <1>1, <1>2 DEF Ordered
<1>6. Tail(s) # <<>> => <<s[1], s[2]>> \in Follows
  BY <1>1, <1>2 DEF Ordered
<1> QED BY <1>1, <1>2, <1>3, <1>4, <1>5, <1>6 DEF Ordered

\* The plans main takes up.
LEMMA FilterOrdered ==
    /\ EoApplyFilter \in Seq(Ops) /\ Ordered(EoApplyFilter)
    /\ EoApplyFilter # <<>> /\ Head(EoApplyFilter) = "DEL_ALL"
    /\ Len(EoApplyFilter) = 3 /\ EoApplyFilter[2] = "ADD"
    /\ ~Has(EoApplyFilter, "CLEAR_TABLE") /\ Cleared(EoApplyFilter)
BY DEF EoApplyFilter, Ordered, Follows, Ends, Ops, Commands, Local, Has, Cleared

\* A concatenation of plans, item by item.
LEMMA Concat ==
    ASSUME NEW s \in Seq(Ops), NEW t \in Seq(Ops)
    PROVE  /\ s \o t \in Seq(Ops) /\ Len(s \o t) = Len(s) + Len(t)
           /\ \A i \in 1 .. Len(s) : (s \o t)[i] = s[i]
           /\ \A i \in 1 .. Len(t) : (s \o t)[Len(s) + i] = t[i]
           /\ Len(s) \in Nat /\ Len(t) \in Nat
           /\ s = <<>> => s \o t = t
           /\ t = <<>> => s \o t = s
<1>1. /\ s \o t \in Seq(Ops) /\ Len(s \o t) = Len(s) + Len(t)
      /\ \A i \in 1 .. Len(s) + Len(t) : (s \o t)[i] =
               IF i <= Len(s) THEN s[i] ELSE t[i - Len(s)]
  BY ConcatProperties
<1>2. Len(s) \in Nat /\ Len(t) \in Nat
  BY LenProperties
<1>3. \A i \in 1 .. Len(t) : /\ Len(s) + i \in 1 .. Len(s) + Len(t)
                             /\ ~(Len(s) + i <= Len(s))
                             /\ Len(s) + i - Len(s) = i
  BY <1>2
<1>4. \A i \in 1 .. Len(s) : i \in 1 .. Len(s) + Len(t) /\ i <= Len(s)
  BY <1>2
<1> QED BY <1>1, <1>2, <1>3, <1>4, ConcatEmptySeq

LEMMA StartPlans ==
    ASSUME NEW v \in {<<>>, <<"VERSION">>},
           NEW f \in {<<>>, EoApplyFilter}
    PROVE  /\ v \o f \in Seq(Ops) /\ Ordered(v \o f)
           /\ v \o f # <<>> => Head(v \o f) \in {"VERSION", "DEL_ALL"}
           /\ ~Has(v \o f, "CLEAR_TABLE") /\ Cleared(v \o f)
           /\ f = <<>> => v \o f = v
           /\ f # <<>> =>
                 \/ v \o f = EoApplyFilter
                 \/ /\ Len(v \o f) = 4 /\ Head(v \o f) = "VERSION"
                    /\ (v \o f)[2] = "DEL_ALL"
<1>1. v \in Seq(Ops) /\ f \in Seq(Ops)
  <2>1. <<>> \in Seq(Ops) /\ <<"VERSION">> \in Seq(Ops)
    BY DEF Ops, Commands
  <2> QED BY <2>1, FilterOrdered
<1>2. CASE v = <<>>
  <2>1. v \o f = f
    BY <1>1, <1>2, Concat
  <2>2. /\ Ordered(<<>>) /\ <<>> \in Seq(Ops) /\ ~Has(<<>>, "CLEAR_TABLE")
        /\ Cleared(<<>>)
    BY DEF Ordered, Has, Cleared
  <2> QED BY <1>2, <2>1, <2>2, FilterOrdered
<1>3. CASE v = <<"VERSION">> /\ f = <<>>
  <2>1. v \o f = v
    BY <1>1, <1>3, Concat
  <2>2. /\ Ordered(<<"VERSION">>) /\ ~Has(<<"VERSION">>, "CLEAR_TABLE")
        /\ Cleared(<<"VERSION">>)
    BY DEF Ordered, Ends, Has, Cleared
  <2> QED BY <1>1, <1>3, <2>1, <2>2
<1>4. CASE v = <<"VERSION">> /\ f = EoApplyFilter
  <2> DEFINE s == v \o f
  <2>1. Len(v) = 1 /\ v[1] = "VERSION"
    BY <1>4
  <2>2. Len(f) = 3 /\ f[1] = "DEL_ALL" /\ f[2] = "ADD" /\ f[3] = "ENABLE"
    BY <1>4 DEF EoApplyFilter
  <2>3. /\ s \in Seq(Ops) /\ Len(s) = Len(v) + Len(f)
        /\ \A i \in 1 .. Len(v) : s[i] = v[i]
        /\ \A i \in 1 .. Len(f) : s[Len(v) + i] = f[i]
    BY <1>1, Concat
  <2>4. s[1] = "VERSION" /\ s[2] = "DEL_ALL" /\ s[3] = "ADD" /\ s[4] = "ENABLE"
    <3> HIDE DEF s
    <3> QED BY <2>1, <2>2, <2>3
  <2> HIDE DEF s
  <2>5. Ordered(s) /\ s # <<>> /\ Head(s) = "VERSION" /\ Len(s) = 4
    BY <2>1, <2>2, <2>3, <2>4 DEF Ordered, Follows, Ends
  <2>6. ~Has(s, "CLEAR_TABLE") /\ Cleared(s)
    BY <2>4, <2>5 DEF Has, Cleared
  <2> QED BY <1>4, <2>3, <2>4, <2>5, <2>6, FilterOrdered DEF s
<1> QED BY <1>2, <1>3, <1>4

LEMMA ScriptOrdered ==
    ASSUME NEW c \in DOMAIN Script
    PROVE  /\ Script[c] \in Seq(Ops) /\ Ordered(Script[c])
           /\ Script[c] # <<>> /\ Head(Script[c]) \in {"WR_MODE", "TRUNCATE"}
           /\ Cleared(Script[c])
           /\ Has(Script[c], "CLEAR_TABLE") => Has(Script[c], "TRUNCATE")
           /\ c = "Clear" => /\ Len(Script[c]) = 8
                             /\ Script[c][2] = "TRUNCATE"
                             /\ Head(Script[c]) = "WR_MODE"
<1>1. DOMAIN Script = {"Monitor", "Register", "Clear", "Operation", "Unknown",
                       "FilterClear"}
  BY DEF Script
<1>2. CASE c = "Monitor"
  <2>1. Script[c] = <<"WR_MODE", "Monitor", "DEL_ALL", "DISABLE">>
    BY <1>2 DEF Script
  <2>2. Cleared(Script[c]) /\ ~Has(Script[c], "CLEAR_TABLE")
    BY <2>1 DEF Cleared, Has
  <2> QED BY <1>2, <2>1, <2>2 DEF Ordered, Follows, Ends, Ops, Commands, Local, Modes
<1>3. CASE c = "Register"
  <2>1. Script[c] = <<"WR_MODE", "Register", "DISABLE">>
    BY <1>3 DEF Script
  <2>2. Cleared(Script[c]) /\ ~Has(Script[c], "CLEAR_TABLE")
    BY <2>1 DEF Cleared, Has
  <2> QED BY <1>3, <2>1, <2>2 DEF Ordered, Follows, Ends, Ops, Commands, Local, Modes
<1>4. CASE c = "Clear"
  <2> DEFINE t == <<"DEL_ALL", "CLEAR_TABLE", "COUNT_0", "Register", "DISABLE">>
             s == (<<"WR_MODE">> \o EoClearControl) \o t
  <2>1. Script[c] = s
    BY <1>4 DEF Script
  <2>2. /\ <<"WR_MODE">> \in Seq(Ops) /\ EoClearControl \in Seq(Ops)
        /\ t \in Seq(Ops) /\ Len(t) = 5
        /\ Len(<<"WR_MODE">>) = 1 /\ Len(EoClearControl) = 2
        /\ EoClearControl[1] = "TRUNCATE" /\ EoClearControl[2] = "COUNT_0"
    BY DEF Ops, Commands, Local, Modes, EoClearControl
  <2> DEFINE u == <<"WR_MODE">> \o EoClearControl
  <2>3. u \in Seq(Ops) /\ Len(u) = 3 /\ u[1] = "WR_MODE" /\ u[2] = "TRUNCATE"
        /\ u[3] = "COUNT_0"
    <3> DEFINE w == <<"WR_MODE">>
    <3>1. w \in Seq(Ops) /\ Len(w) = 1 /\ w[1] = "WR_MODE" /\ u = w \o EoClearControl
      BY <2>2
    <3> HIDE DEF u, w
    <3>2. /\ u \in Seq(Ops) /\ Len(u) = Len(w) + Len(EoClearControl)
          /\ \A i \in 1 .. Len(w) : u[i] = w[i]
          /\ \A i \in 1 .. Len(EoClearControl) : u[Len(w) + i] = EoClearControl[i]
      BY <2>2, <3>1, Concat
    <3> QED BY <2>2, <3>1, <3>2
  <2> HIDE DEF u
  <2>4. /\ s \in Seq(Ops) /\ Len(s) = Len(u) + Len(t)
        /\ \A i \in 1 .. Len(u) : s[i] = u[i]
        /\ \A i \in 1 .. Len(t) : s[Len(u) + i] = t[i]
    <3>1. s = u \o t
      BY DEF u
    <3> HIDE DEF s, t
    <3> QED BY <2>2, <2>3, <3>1, Concat
  <2>5. /\ t[1] = "DEL_ALL" /\ t[2] = "CLEAR_TABLE" /\ t[3] = "COUNT_0"
        /\ t[4] = "Register" /\ t[5] = "DISABLE"
    OBVIOUS
  <2> HIDE DEF s, t
  <2>6. /\ s[1] = "WR_MODE" /\ s[2] = "TRUNCATE" /\ s[3] = "COUNT_0"
        /\ s[4] = "DEL_ALL" /\ s[5] = "CLEAR_TABLE" /\ s[6] = "COUNT_0"
        /\ s[7] = "Register" /\ s[8] = "DISABLE"
    BY <2>2, <2>3, <2>4, <2>5
  <2>7. Len(s) = 8
    BY <2>2, <2>3, <2>4
  <2>8. s \in Seq(Ops)
    BY <2>4
  <2>9. \A i \in 1 .. Len(s) - 1 : <<s[i], s[i + 1]>> \in Follows
    <3> SUFFICES ASSUME NEW i \in 1 .. 7 PROVE <<s[i], s[i + 1]>> \in Follows
      BY <2>7
    <3>1. i \in {1, 2, 3, 4, 5, 6, 7}
      OBVIOUS
    <3> QED BY <2>6, <3>1 DEF Follows
  <2>10. Ordered(s) /\ s # <<>> /\ Head(s) = s[1]
    BY <2>6, <2>7, <2>8, <2>9 DEF Ordered, Ends
  <2>11. \A i \in 1 .. 8 : i \in {1, 2, 3, 4, 5, 6, 7, 8}
    OBVIOUS
  <2>12. \A i \in 1 .. 8 : s[i] = "CLEAR_TABLE" => i = 5
    BY <2>6, <2>11
  <2>13. /\ \A j \in 1 .. 8 : 5 < j =>
                  s[j] \notin {"CLEAR_TABLE", "TRUNCATE", "DEL_ALL"}
         /\ \A j \in 1 .. 8 : s[j] \notin {"ADD", "VERSION", "MARK"}
    BY <2>6, <2>11
  <2>14. Cleared(s)
    BY <2>7, <2>12, <2>13 DEF Cleared
  <2>15. Has(s, "TRUNCATE")
    BY <2>6, <2>7 DEF Has
  <2> QED BY <2>1, <2>6, <2>7, <2>8, <2>10, <2>14, <2>15
<1>5. CASE c = "Operation"
  <2>1. Script[c] =
            <<"WR_MODE", "Operation", "READ", "MARK", "COUNT", "APPLY">>
    BY <1>5 DEF Script
  <2>2. Cleared(Script[c]) /\ ~Has(Script[c], "CLEAR_TABLE")
    BY <2>1 DEF Cleared, Has
  <2> QED BY <1>5, <2>1, <2>2 DEF Ordered, Follows, Ends, Ops, Commands, Local, Modes
<1>6. CASE c = "Unknown"
  <2>1. Script[c] = <<"WR_MODE">>
    BY <1>6 DEF Script
  <2>2. Cleared(Script[c]) /\ ~Has(Script[c], "CLEAR_TABLE")
    BY <2>1 DEF Cleared, Has
  <2> QED BY <1>6, <2>1, <2>2 DEF Ordered, Follows, Ends, Ops, Commands, Local, Modes
<1>7. CASE c = "FilterClear"
  <2> DEFINE t == <<"DEL_ALL", "DISABLE">>
             s == EoClearControl \o t
  <2>1. Script[c] = s
    BY <1>7 DEF Script
  <2>2. /\ EoClearControl \in Seq(Ops) /\ t \in Seq(Ops) /\ Len(t) = 2
        /\ Len(EoClearControl) = 2
        /\ EoClearControl[1] = "TRUNCATE" /\ EoClearControl[2] = "COUNT_0"
        /\ t[1] = "DEL_ALL" /\ t[2] = "DISABLE"
    BY DEF Ops, Commands, Local, Modes, EoClearControl
  <2> HIDE DEF t
  <2>3. /\ s \in Seq(Ops) /\ Len(s) = Len(EoClearControl) + Len(t)
        /\ \A i \in 1 .. Len(EoClearControl) : s[i] = EoClearControl[i]
        /\ \A i \in 1 .. Len(t) : s[Len(EoClearControl) + i] = t[i]
    BY <2>2, Concat
  <2> HIDE DEF s
  <2>4. s[1] = "TRUNCATE" /\ s[2] = "COUNT_0" /\ s[3] = "DEL_ALL" /\ s[4] = "DISABLE"
    BY <2>2, <2>3
  <2>5. Len(s) = 4 /\ \A i \in 1 .. 4 : i \in {1, 2, 3, 4}
    BY <2>2, <2>3
  <2>6. Cleared(s) /\ ~Has(s, "CLEAR_TABLE")
    BY <2>4, <2>5 DEF Cleared, Has
  <2> QED BY <1>7, <2>1, <2>2, <2>3, <2>4, <2>6 DEF Ordered, Follows, Ends
<1> QED BY <1>1, <1>2, <1>3, <1>4, <1>5, <1>6, <1>7

(***************************************************************************)
(* The four ways main may go on when a command has got its status.         *)
(***************************************************************************)
AgainReset(status) ==
    /\ phase = "start" /\ status \notin {"OK", "NOT_SUPPORTED"}
    /\ todo' = <<"RESET">>
    /\ failures' = failures + 1
    /\ phase' = IF failures' > StartRetries THEN "exited" ELSE "start"
    /\ erp1gw' = erp1gw

NowMode(status) ==
    /\ phase = "start" /\ status = "OK" /\ Head(todo) = "RESET"
    /\ todo' = <<"START_MODE">>
    /\ UNCHANGED <<phase, failures, erp1gw>>

LeaveStart(status) ==
    /\ phase = "start" /\ phase' = "run"
    /\ \/ status = "NOT_SUPPORTED" /\ erp1gw' = TRUE
       \/ status = "OK" /\ Head(todo) = "START_MODE" /\ erp1gw' = erp1gw
    /\ \E v \in {<<>>, <<"VERSION">>}, f \in {<<>>, EoApplyFilter} :
           /\ todo' = v \o f
           /\ f = IF mode = "Operation" /\ count > 0 THEN EoApplyFilter ELSE <<>>
    /\ failures' = failures

GoOn ==
    /\ phase = "run"
    /\ todo' = IF Head(todo) = "ADD" THEN todo ELSE Tail(todo)
    /\ UNCHANGED <<phase, failures, erp1gw>>

LEMMA RespondWays ==
    ASSUME Basic, waiting, phase # "exited", NEW status, Respond(status)
    PROVE  /\ waiting' = FALSE
           /\ index' = IF Head(todo) = "ADD" THEN index + 1 ELSE 1
           /\ UNCHANGED <<modeSet, csv, tableVars, job, line, gateway, raceVars>>
           /\ AgainReset(status) \/ NowMode(status) \/ LeaveStart(status) \/ GoOn
<1>1. phase = "start" \/ phase = "run"
  BY DEF Basic, Types
<1>2. phase = "start" => /\ todo \in {<<"RESET">>, <<"START_MODE">>}
                         /\ Head(todo) \in {"RESET", "START_MODE"}
  BY DEF Basic, Plan
<1>3. phase = "run" => Head(todo) \notin {"RESET", "START_MODE"}
  BY DEF Basic, Plan
<1>4. ASSUME StartDone
      PROVE  /\ phase' = "run" /\ failures' = failures
             /\ \E v \in {<<>>, <<"VERSION">>}, f \in {<<>>, EoApplyFilter} :
                   /\ todo' = v \o f
                   /\ f = IF mode = "Operation" /\ count > 0
                          THEN EoApplyFilter ELSE <<>>
  BY <1>4 DEF StartDone
<1>5. CASE phase = "start" /\ status # "OK"
  <2>1. StartFailed(status)
    BY <1>5 DEF Respond
  <2>2. CASE status = "NOT_SUPPORTED"
    <3>1. StartDone /\ erp1gw' = TRUE
      BY <2>1, <2>2 DEF StartFailed
    <3>2. LeaveStart(status)
      BY <1>4, <1>5, <2>2, <3>1 DEF LeaveStart
    <3> QED BY <3>2 DEF Respond
  <2>3. CASE status # "NOT_SUPPORTED"
    BY <1>5, <2>1, <2>3 DEF StartFailed, AgainReset, Respond
  <2> QED BY <2>2, <2>3
<1>6. CASE phase = "start" /\ status = "OK" /\ Head(todo) = "RESET"
  BY <1>6 DEF Respond, NowMode
<1>7. CASE phase = "start" /\ status = "OK" /\ Head(todo) = "START_MODE"
  <2>1. StartDone /\ erp1gw' = erp1gw
    BY <1>7 DEF Respond
  <2>2. LeaveStart(status)
    BY <1>4, <1>7, <2>1 DEF LeaveStart
  <2> QED BY <2>2 DEF Respond
<1>8. CASE phase = "run"
  BY <1>3, <1>8 DEF Respond, GoOn
<1> QED BY <1>1, <1>2, <1>5, <1>6, <1>7, <1>8

\* A response leaves main with a plan.
LEMMA RespondKeeps ==
    ASSUME Basic, waiting, phase # "exited", NEW status, Respond(status),
           answers' \in Seq(Answered), lag' \in Nat,
           faults' \in [slow : Nat, lost : Nat, silent : Nat, made : Nat]
    PROVE  Basic'
<1>1. /\ waiting' = FALSE
      /\ index' = IF Head(todo) = "ADD" THEN index + 1 ELSE 1
      /\ UNCHANGED <<modeSet, csv, mode, count, file, nodes, job, line, gateway,
                     overlap, raced>>
      /\ AgainReset(status) \/ NowMode(status) \/ LeaveStart(status) \/ GoOn
  BY RespondWays DEF tableVars, raceVars
<1>2. /\ todo \in Seq(Ops) /\ todo # <<>> /\ Ordered(todo)
      /\ index' \in Nat \ {0}
  BY <1>1 DEF Basic, Types, Plan
<1>3. ASSUME phase' \in {"start", "run", "exited"}, todo' \in Seq(Ops),
             erp1gw' \in BOOLEAN, failures' \in Nat
      PROVE  Types'
  <2>1. /\ waiting' \in BOOLEAN /\ index' \in Nat \ {0}
        /\ answers' \in Seq(Answered) /\ lag' \in Nat
        /\ faults' \in [slow : Nat, lost : Nat, silent : Nat, made : Nat]
    BY <1>1, <1>2
  <2>2. /\ modeSet' \in Transceiver /\ mode' \in Modes /\ count' \in Nat
        /\ csv' \in Nat /\ file' \in Seq(Ids) /\ nodes' \in Seq(Ids)
        /\ job' \in {Idle} \cup [id : Ids, csv : Nat,
                                 at : {"mode", "append", "read", "end", "count"}]
        /\ line' \in Seq(Sent) /\ gateway' \in Gateways
        /\ overlap' \in BOOLEAN /\ raced' \in BOOLEAN
    BY <1>1 DEF Basic, Types
  <2> QED BY <1>3, <2>1, <2>2 DEF Types
<1>4. /\ failures \in Nat /\ erp1gw \in BOOLEAN
      /\ phase \in {"start", "run", "exited"}
  BY DEF Basic, Types
<1>5. CASE AgainReset(status)
  <2>1. todo' = <<"RESET">> /\ Ordered(<<"RESET">>) /\ <<"RESET">> \in Seq(Ops)
    BY <1>5 DEF AgainReset, Ordered, Ends, Ops, Commands
  <2>2. /\ phase' \in {"start", "exited"} /\ failures' = failures + 1
        /\ erp1gw' = erp1gw
        /\ phase' = "start" => failures' <= StartRetries
    BY <1>4, <1>5, GatewayAssumption DEF AgainReset
  <2>3. Plan'
    BY <1>1, <2>1, <2>2 DEF Plan, Ordered
  <2> QED BY <1>3, <1>4, <2>1, <2>2, <2>3 DEF Basic
<1>6. CASE NowMode(status)
  <2>1. /\ todo' = <<"START_MODE">> /\ Ordered(<<"START_MODE">>)
        /\ <<"START_MODE">> \in Seq(Ops)
    BY <1>6 DEF NowMode, Ordered, Ends, Ops, Commands
  <2>2. phase' = "start" /\ phase = "start" /\ UNCHANGED <<failures, erp1gw>>
    BY <1>6 DEF NowMode
  <2>3. Plan'
    BY <1>1, <2>1, <2>2 DEF Basic, Plan, Ordered
  <2> QED BY <1>3, <1>4, <2>1, <2>2, <2>3 DEF Basic
<1>7. CASE LeaveStart(status)
  <2>1. /\ todo' \in Seq(Ops) /\ Ordered(todo')
        /\ todo' # <<>> => Head(todo') \in {"VERSION", "DEL_ALL"}
    BY <1>7, StartPlans DEF LeaveStart
  <2>2. phase' = "run" /\ failures' = failures /\ erp1gw' \in BOOLEAN
    BY <1>4, <1>7 DEF LeaveStart
  <2>3. Plan'
    BY <1>1, <2>1, <2>2 DEF Plan, Ordered
  <2> QED BY <1>3, <1>4, <2>1, <2>2, <2>3 DEF Basic
<1>8. CASE GoOn
  <2>1. phase' = "run" /\ phase = "run" /\ UNCHANGED <<failures, erp1gw>>
    BY <1>8 DEF GoOn
  <2>2. CASE Head(todo) = "ADD"
    <3>1. todo' = todo
      BY <1>8, <2>2 DEF GoOn
    <3>2. Plan'
      BY <1>1, <2>1, <3>1 DEF Basic, Plan, Ordered
    <3> QED BY <1>2, <1>3, <1>4, <2>1, <3>1, <3>2 DEF Basic
  <2>3. CASE Head(todo) # "ADD"
    <3>1. todo' = Tail(todo)
      BY <1>8, <2>3 DEF GoOn
    <3>2. /\ todo' \in Seq(Ops) /\ Ordered(todo')
          /\ todo' # <<>> => <<Head(todo), Head(todo')>> \in Follows
      BY <1>2, <3>1, TailOrdered
    <3>3. todo' # <<>> => Head(todo') \notin {"RESET", "START_MODE"}
      BY <3>2 DEF Follows
    <3>4. Plan'
      BY <1>1, <2>1, <3>2, <3>3 DEF Plan, Ordered
    <3> QED BY <1>3, <1>4, <2>1, <3>2, <3>4 DEF Basic
  <2> QED BY <2>2, <2>3
<1> QED BY <1>1, <1>5, <1>6, <1>7, <1>8

(***************************************************************************)
(* The queues.                                                             *)
(***************************************************************************)
\* A queue all of whose entries have become older.
LEMMA OlderLine ==
    ASSUME NEW s \in Seq(Sent)
    PROVE  /\ Older(s) \in Seq(Sent) /\ Len(Older(s)) = Len(s)
           /\ \A i \in 1 .. Len(s) :
                 /\ Older(s)[i].age = s[i].age + 1 /\ Older(s)[i].op = s[i].op
                 /\ Older(s)[i].id = s[i].id /\ Older(s)[i].mode = s[i].mode
<1>1. Len(s) \in Nat /\ DOMAIN s = 1 .. Len(s) /\ \A i \in 1 .. Len(s) : s[i] \in Sent
  BY LenProperties, ElementOfSeq
<1>2. ASSUME NEW i \in 1 .. Len(s)
      PROVE  [s[i] EXCEPT !.age = @ + 1] = [op |-> s[i].op, id |-> s[i].id, mode |-> s[i].mode, age |-> s[i].age + 1]
  BY <1>1 DEF Sent
<1>3. ASSUME NEW i \in 1 .. Len(s)
      PROVE  [s[i] EXCEPT !.age = @ + 1] \in Sent
  <2>1. /\ s[i].op \in Commands /\ s[i].id \in Ids \cup {NoId}
        /\ s[i].mode \in Transceiver /\ s[i].age + 1 \in Nat
        /\ s[i].op = "ADD" => s[i].id \in Ids
    BY <1>1 DEF Sent
  <2> QED BY <1>2, <2>1 DEF Sent
<1>4. Older(s) = [i \in 1 .. Len(s) |-> [s[i] EXCEPT !.age = @ + 1]]
  BY <1>1 DEF Older
<1>5. Older(s) \in [1 .. Len(s) -> Sent]
  BY <1>3, <1>4
<1>6. Older(s) \in Seq(Sent) /\ Len(Older(s)) = Len(s)
  BY <1>1, <1>5
<1>7. ASSUME NEW i \in 1 .. Len(s)
      PROVE  /\ Older(s)[i].age = s[i].age + 1 /\ Older(s)[i].op = s[i].op
             /\ Older(s)[i].id = s[i].id /\ Older(s)[i].mode = s[i].mode
  <2>1. Older(s)[i] = [s[i] EXCEPT !.age = @ + 1]
    BY <1>4
  <2> QED BY <1>2, <2>1
<1> QED BY <1>6, <1>7

LEMMA OlderAnswers ==
    ASSUME NEW s \in Seq(Answered)
    PROVE  /\ Older(s) \in Seq(Answered) /\ Len(Older(s)) = Len(s)
           /\ \A i \in 1 .. Len(s) :
                 /\ Older(s)[i].age = s[i].age + 1 /\ Older(s)[i].real = s[i].real
                 /\ Older(s)[i].status = s[i].status
<1>1. Len(s) \in Nat /\ DOMAIN s = 1 .. Len(s) /\ \A i \in 1 .. Len(s) : s[i] \in Answered
  BY LenProperties, ElementOfSeq
<1>2. ASSUME NEW i \in 1 .. Len(s)
      PROVE  [s[i] EXCEPT !.age = @ + 1] = [status |-> s[i].status, real |-> s[i].real, age |-> s[i].age + 1]
  BY <1>1 DEF Answered
<1>3. \A i \in 1 .. Len(s) : [s[i] EXCEPT !.age = @ + 1] \in Answered
  BY <1>1, <1>2 DEF Answered
<1>4. Older(s) = [i \in 1 .. Len(s) |-> [s[i] EXCEPT !.age = @ + 1]]
  BY <1>1 DEF Older
<1>5. Older(s) \in [1 .. Len(s) -> Answered]
  BY <1>3, <1>4
<1>6. Older(s) \in Seq(Answered) /\ Len(Older(s)) = Len(s)
  BY <1>1, <1>5
<1>7. ASSUME NEW i \in 1 .. Len(s)
      PROVE  /\ Older(s)[i].age = s[i].age + 1 /\ Older(s)[i].real = s[i].real
             /\ Older(s)[i].status = s[i].status
  <2>1. Older(s)[i] = [s[i] EXCEPT !.age = @ + 1]
    BY <1>4
  <2> QED BY <1>2, <2>1
<1> QED BY <1>6, <1>7

\* A queue without its first entry, and with one more.
LEMMA Shorter ==
    ASSUME NEW S, NEW s \in Seq(S), s # <<>>
    PROVE  /\ Head(s) \in S /\ Head(s) = s[1] /\ Len(s) \in Nat \ {0}
           /\ Tail(s) \in Seq(S) /\ Len(Tail(s)) = Len(s) - 1
           /\ \A i \in 1 .. Len(s) - 1 : Tail(s)[i] = s[i + 1]
           /\ DOMAIN s = 1 .. Len(s) /\ DOMAIN Tail(s) = 1 .. Len(s) - 1
  BY HeadTailProperties, EmptySeq, LenProperties

LEMMA Longer ==
    ASSUME NEW S, NEW s \in Seq(S), NEW e \in S
    PROVE  /\ Append(s, e) \in Seq(S) /\ Len(Append(s, e)) = Len(s) + 1
           /\ \A i \in 1 .. Len(s) : Append(s, e)[i] = s[i]
           /\ Append(s, e)[Len(s) + 1] = e
           /\ Len(s) \in Nat /\ DOMAIN s = 1 .. Len(s)
           /\ DOMAIN Append(s, e) = 1 .. Len(s) + 1
  BY AppendProperties, LenProperties

\* A gateway stays one whatever it is told, and is never another.
LEMMA ObeyKeeps ==
    ASSUME NEW g \in Gateways, NEW c \in Sent
    PROVE  Obey(g, c) \in Gateways /\ Obey(g, c).erp2 = g.erp2
<1>1. g = [erp2 |-> g.erp2, mode |-> g.mode, filter |-> g.filter, enabled |-> g.enabled]
  BY DEF Gateways
<1>2. /\ g.erp2 \in BOOLEAN /\ g.mode \in Transceiver /\ g.filter \subseteq Ids
      /\ g.enabled \in BOOLEAN /\ c.mode \in Transceiver /\ c.op \in Commands
  BY DEF Gateways, Sent
<1>3. CASE c.op = "RESET"
  <2>1. Obey(g, c) = [erp2 |-> g.erp2, mode |-> "ERP1", filter |-> {}, enabled |-> FALSE]
    BY <1>1, <1>3 DEF Obey
  <2> QED BY <1>2, <2>1 DEF Gateways, Transceiver
<1>4. CASE c.op \in {"WR_MODE", "START_MODE"} /\ g.erp2
  <2>1. Obey(g, c) = [erp2 |-> g.erp2, mode |-> c.mode, filter |-> g.filter, enabled |-> g.enabled]
    BY <1>1, <1>4 DEF Obey
  <2> QED BY <1>2, <2>1 DEF Gateways
<1>5. CASE c.op \in {"WR_MODE", "START_MODE"} /\ ~g.erp2
  BY <1>5 DEF Obey
<1>6. CASE c.op = "DEL_ALL"
  <2>1. Obey(g, c) = [erp2 |-> g.erp2, mode |-> g.mode, filter |-> {}, enabled |-> g.enabled]
    BY <1>1, <1>6 DEF Obey
  <2> QED BY <1>2, <2>1 DEF Gateways
<1>7. CASE c.op = "ADD"
  <2>1. Obey(g, c) = [erp2 |-> g.erp2, mode |-> g.mode, filter |-> g.filter \cup {c.id}, enabled |-> g.enabled]
    BY <1>1, <1>7 DEF Obey
  <2> QED BY <1>2, <1>7, <2>1 DEF Gateways, Sent
<1>8. CASE c.op = "ENABLE"
  <2>1. Obey(g, c) = [erp2 |-> g.erp2, mode |-> g.mode, filter |-> g.filter, enabled |-> TRUE]
    BY <1>1, <1>8 DEF Obey
  <2> QED BY <1>2, <2>1 DEF Gateways
<1>9. CASE c.op = "DISABLE"
  <2>1. Obey(g, c) = [erp2 |-> g.erp2, mode |-> g.mode, filter |-> g.filter, enabled |-> FALSE]
    BY <1>1, <1>9 DEF Obey
  <2> QED BY <1>2, <2>1 DEF Gateways
<1>10. CASE c.op = "VERSION"
  BY <1>10 DEF Obey
<1> QED BY <1>2, <1>3, <1>4, <1>5, <1>6, <1>7, <1>8, <1>9, <1>10 DEF Commands

(***************************************************************************)
(* Types and order, step by step.                                          *)
(***************************************************************************)
LEMMA BeginBasic ==
    ASSUME Basic, NEW c \in HostCommands, Begin(c)
    PROVE  Basic'
<1>1. /\ phase = "run" /\ phase' = "run" /\ waiting' = waiting
      /\ todo = <<>> /\ todo' = Script[c] /\ overlap' \in BOOLEAN
      /\ UNCHANGED <<index, failures, csv, erp1gw, lag, mode, count, file, nodes,
                     job, line, answers, gateway, faults, raced>>
  BY DEF Begin, MainIdle, tableVars, gateVars
<1>2. /\ todo' \in Seq(Ops) /\ Ordered(todo')
      /\ todo' # <<>> /\ Head(todo') \in {"WR_MODE", "TRUNCATE"}
  BY <1>1, ScriptOrdered, HostAssumption
<1>3. modeSet' \in Transceiver
  <2>1. ModeOf["Register"] \in Transceiver
        /\ (c \in {"Monitor", "Operation"} => ModeOf[c] \in Transceiver)
    BY GatewayAssumption DEF Modes
  <2> QED BY <2>1 DEF Begin, Basic, Types
<1>4. Types'
  BY <1>1, <1>2, <1>3 DEF Basic, Types
<1>5. Plan'
  BY <1>1, <1>2 DEF Basic, Plan, Ordered
<1> QED BY <1>4, <1>5 DEF Basic

\* The command sent.
New == [op |-> Head(todo), mode |-> modeSet, age |-> 0,
        id |-> IF Head(todo) = "ADD" THEN nodes[index] ELSE NoId]

LEMMA NewIsSent ==
    ASSUME Basic, SendCommand
    PROVE  New \in Sent
<1>1. Head(todo) \in Commands /\ modeSet \in Transceiver /\ nodes \in Seq(Ids)
      /\ index \in Nat \ {0}
  BY DEF SendCommand, Basic, Types
<1>2. Head(todo) = "ADD" => nodes[index] \in Ids
  <2>1. Head(todo) = "ADD" => index \in 1 .. Len(nodes)
    BY <1>1, LenProperties DEF SendCommand
  <2> QED BY <1>1, <2>1, ElementOfSeq
<1> QED BY <1>1, <1>2 DEF New, Sent

LEMMA SendBasic ==
    ASSUME Basic, SendCommand
    PROVE  Basic'
<1>1. /\ UNCHANGED <<phase, todo, index, failures, modeSet, csv, erp1gw, lag, mode,
                     count, file, nodes, job, gateway, faults, overlap, raced>>
      /\ waiting' = TRUE /\ line' = Append(Older(line), New)
      /\ answers' = Older(answers)
      /\ todo # <<>> /\ Head(todo) \in Commands
  BY DEF SendCommand, tableVars, raceVars, New
<1>2. line' \in Seq(Sent) /\ answers' \in Seq(Answered)
  <2>1. line \in Seq(Sent) /\ answers \in Seq(Answered)
    BY DEF Basic, Types
  <2>2. Older(line) \in Seq(Sent) /\ Older(answers) \in Seq(Answered)
    BY <2>1, OlderLine, OlderAnswers
  <2> QED BY <1>1, <2>2, NewIsSent, Longer
<1>3. Types'
  BY <1>1, <1>2 DEF Basic, Types
<1>4. Plan'
  BY <1>1 DEF Basic, Plan, Ordered
<1> QED BY <1>3, <1>4 DEF Basic

\* The types of an answer.
LEMMA AnswerKeeps ==
    ASSUME Types, NEW status \in Statuses, NEW real \in BOOLEAN, NEW age \in Nat,
           Answer(status, real, age)
    PROVE  answers' \in Seq(Answered)
<1>1. [status |-> status, real |-> real, age |-> age] \in Answered
  BY DEF Answered
<1> QED BY <1>1, Longer DEF Answer, Types

\* The line, its faults and the gateway leave main and ActionThread alone.
LEMMA LineBasic ==
    ASSUME Basic, Execute \/ Fault
    PROVE  Basic'
<1>1. UNCHANGED <<phase, todo, index, waiting, failures, modeSet, csv, erp1gw, lag,
                  mode, count, file, nodes, job, overlap, raced>>
  BY DEF Execute, Fault, mainVars, tableVars, raceVars
<1>2. /\ line \in Seq(Sent) /\ answers \in Seq(Answered) /\ gateway \in Gateways
      /\ faults \in [slow : Nat, lost : Nat, silent : Nat, made : Nat]
  BY DEF Basic, Types
<1>3. line # <<>> => Head(line) \in Sent /\ Tail(line) \in Seq(Sent)
  BY <1>2, Shorter
<1>4. line # <<>> => Obey(gateway, Head(line)) \in Gateways
  BY <1>2, <1>3, ObeyKeeps
<1>5. line # <<>> => Head(line).age \in Nat
  BY <1>3 DEF Sent
<1>6. StatusOf(Head(line)) \in Statuses
  BY DEF StatusOf, Statuses
<1>7. ASSUME line' \in Seq(Sent), answers' \in Seq(Answered), gateway' \in Gateways,
             faults' \in [slow : Nat, lost : Nat, silent : Nat, made : Nat]
      PROVE  Basic'
  BY <1>1, <1>7 DEF Basic, Types, Plan, Ordered
<1>8. CASE Execute
  <2>1. line' \in Seq(Sent) /\ gateway' \in Gateways /\ faults' = faults
    BY <1>3, <1>4, <1>8 DEF Execute
  <2>2. answers' \in Seq(Answered)
    BY <1>5, <1>6, <1>8, AnswerKeeps DEF Execute, Basic
  <2> QED BY <1>2, <1>7, <2>1, <2>2
<1>9. CASE Lose \/ LoseAnswer
  <2>1. line' \in Seq(Sent) /\ gateway' \in Gateways /\ answers' = answers
    BY <1>2, <1>3, <1>4, <1>9 DEF Lose, LoseAnswer
  <2>2. faults' \in [slow : Nat, lost : Nat, silent : Nat, made : Nat]
    <3>1. \/ faults' = [faults EXCEPT !.lost = @ + 1]
          \/ faults' = [faults EXCEPT !.silent = @ + 1]
      BY <1>9 DEF Lose, LoseAnswer
    <3> QED BY <1>2, <3>1
  <2> QED BY <1>2, <1>7, <2>1, <2>2
<1>10. CASE Refuse
  <2>1. line' \in Seq(Sent) /\ gateway' = gateway
    BY <1>3, <1>10 DEF Refuse
  <2>3. faults' \in [slow : Nat, lost : Nat, silent : Nat, made : Nat]
    <3>1. faults' = [faults EXCEPT !.lost = @ + 1]
      BY <1>10 DEF Refuse
    <3> QED BY <1>2, <3>1
  <2>2. answers' \in Seq(Answered)
    BY <1>5, <1>10, AnswerKeeps DEF Refuse, Statuses, Basic
  <2> QED BY <1>2, <1>7, <2>1, <2>2, <2>3
<1>11. CASE MakeUp
  <2>1. line' = line /\ gateway' = gateway
        /\ faults' \in [slow : Nat, lost : Nat, silent : Nat, made : Nat]
    BY <1>2, <1>11 DEF MakeUp
  <2>2. answers' \in Seq(Answered)
    BY <1>11, AnswerKeeps DEF MakeUp, Basic
  <2> QED BY <1>2, <1>7, <2>1, <2>2
<1> QED BY <1>8, <1>9, <1>10, <1>11 DEF Fault

LEMMA ResponseBasic ==
    ASSUME Basic, GetResponse \/ Timeout
    PROVE  Basic'
<1>1. /\ answers \in Seq(Answered) /\ lag \in Nat
      /\ faults \in [slow : Nat, lost : Nat, silent : Nat, made : Nat]
  BY DEF Basic, Types
<1>2. CASE GetResponse
  <2>1. /\ waiting /\ phase # "exited" /\ Respond(Head(answers).status)
        /\ answers # <<>> /\ answers' = Tail(answers) /\ faults' = faults
        /\ lag' = IF Head(answers).real THEN Head(answers).age ELSE lag
    BY <1>2 DEF GetResponse
  <2>2. Head(answers) \in Answered /\ Tail(answers) \in Seq(Answered)
    BY <1>1, <2>1, Shorter
  <2>3. lag' \in Nat
    BY <1>1, <2>1, <2>2 DEF Answered
  <2> QED BY <1>1, <2>1, <2>2, <2>3, RespondKeeps
<1>3. CASE Timeout
  <2>1. /\ waiting /\ phase # "exited" /\ Respond("TIMEOUT")
        /\ answers' = answers /\ lag' = lag
        /\ faults' \in [slow : Nat, lost : Nat, silent : Nat, made : Nat]
    BY <1>1, <1>3 DEF Timeout
  <2> QED BY <1>1, <2>1, RespondKeeps
<1> QED BY <1>2, <1>3

\* A step of main that goes on in todo.
LEMMA TailPlan ==
    ASSUME Basic, phase = "run", todo # <<>>, todo' = Tail(todo),
           UNCHANGED <<phase, waiting, failures>>, ~waiting
    PROVE  Plan' /\ todo' \in Seq(Ops)
<1>1. todo \in Seq(Ops) /\ Ordered(todo)
  BY DEF Basic, Types, Plan
<1>2. /\ todo' \in Seq(Ops) /\ Ordered(todo')
      /\ todo' # <<>> => <<Head(todo), Head(todo')>> \in Follows
  BY <1>1, TailOrdered
<1>3. todo' # <<>> => Head(todo') \notin {"RESET", "START_MODE"}
  BY <1>2 DEF Follows
<1> QED BY <1>2, <1>3 DEF Plan, Ordered

\* A table that is written over with the lines of the file.
LEMMA FilledTable ==
    ASSUME NEW s \in Seq(Ids), NEW t \in Seq(Ids)
    PROVE  /\ Filled(s, t) \in Seq(Ids) /\ Len(t) <= Len(Filled(s, t))
           /\ Len(Filled(s, t)) \in {Len(s), Len(t)}
           /\ \A i \in 1 .. Len(t) : Filled(s, t)[i] = t[i]
           /\ Len(s) \in Nat /\ Len(t) \in Nat
<1> DEFINE u == SubSeq(s, Len(t) + 1, Len(s))
<1>1. Len(s) \in Nat /\ Len(t) \in Nat
  BY LenProperties
<1>2. \A i \in Len(t) + 1 .. Len(s) : s[i] \in Ids
  BY <1>1, ElementOfSeq
<1>3. /\ u \in Seq(Ids)
      /\ Len(u) = IF Len(t) + 1 <= Len(s) THEN Len(s) - (Len(t) + 1) + 1 ELSE 0
  BY <1>1, <1>2, SubSeqProperties
<1> HIDE DEF u
<1>4. /\ t \o u \in Seq(Ids) /\ Len(t \o u) = Len(t) + Len(u)
      /\ \A i \in 1 .. Len(t) : (t \o u)[i] = t[i]
  <2>1. /\ t \o u \in Seq(Ids) /\ Len(t \o u) = Len(t) + Len(u)
        /\ \A i \in 1 .. Len(t) + Len(u) : (t \o u)[i] =
                 IF i <= Len(t) THEN t[i] ELSE u[i - Len(t)]
    BY <1>3, ConcatProperties
  <2>2. \A i \in 1 .. Len(t) : i \in 1 .. Len(t) + Len(u) /\ i <= Len(t)
    BY <1>1, <1>3
  <2> QED BY <2>1, <2>2
<1>5. Len(t) <= Len(t \o u) /\ Len(t \o u) \in {Len(s), Len(t)}
  BY <1>1, <1>3, <1>4
<1> QED BY <1>1, <1>4, <1>5 DEF Filled, u

\* A table that gets its end mark.
LEMMA MarkedTable ==
    ASSUME NEW s \in Seq(Ids), NEW n \in Nat
    PROVE  /\ MarkedAt(s, n) \in Seq(Ids)
           /\ Len(s) \in Nat /\ Len(MarkedAt(s, n)) \in Nat
           /\ Len(MarkedAt(s, n)) = IF Len(s) > n THEN n ELSE Len(s)
           /\ \A i \in 1 .. Len(MarkedAt(s, n)) : MarkedAt(s, n)[i] = s[i]
           /\ Len(s) = n => MarkedAt(s, n) = s
<1>1. Len(s) \in Nat
  BY LenProperties
<1>2. CASE Len(s) > n
  <2>1. MarkedAt(s, n) = SubSeq(s, 1, n)
    BY <1>2 DEF MarkedAt
  <2>2. /\ SubSeq(s, 1, n) \in Seq(Ids) /\ Len(SubSeq(s, 1, n)) = n
        /\ \A i \in 1 .. n : SubSeq(s, 1, n)[i] = s[i]
    <3>1. \A i \in 1 .. n : s[i] \in Ids
      BY <1>1, <1>2, ElementOfSeq
    <3> QED BY <1>1, <1>2, <3>1, SubSeqProperties
  <2> QED BY <1>1, <1>2, <2>1, <2>2
<1>3. CASE ~(Len(s) > n)
  BY <1>1, <1>3 DEF MarkedAt
<1> QED BY <1>2, <1>3

\* Nothing local is done while an answer is waited for.
LEMMA LocalNotSent == Local \cap Commands = {}
BY DEF Local, Commands, Modes

LEMMA LocalBasic ==
    ASSUME Basic, LocalStep
    PROVE  Basic'
<1>1. /\ phase = "run" /\ todo # <<>> /\ Head(todo) \in Local /\ ~waiting
      /\ UNCHANGED <<phase, index, waiting, failures, modeSet, erp1gw, lag, job,
                     line, answers, gateway, faults, overlap>>
  BY LocalNotSent DEF LocalStep, gateVars, Basic, Plan
<1>2. /\ mode \in Modes /\ count \in Nat /\ file \in Seq(Ids) /\ nodes \in Seq(Ids)
      /\ csv \in Nat /\ raced \in BOOLEAN /\ todo \in Seq(Ops) /\ Ordered(todo)
  BY DEF Basic, Types, Plan
<1>3. mode' \in Modes /\ count' \in Nat /\ file' \in Seq(Ids) /\ nodes' \in Seq(Ids)
      /\ raced' \in BOOLEAN /\ csv' \in Nat
  <2>1. <<>> \in Seq(Ids) /\ Len(file) \in Nat /\ 0 \in Nat
    BY <1>2, LenProperties
  <2>2. mode' \in Modes
    BY <1>2 DEF LocalStep
  <2>3. count' \in Nat
    BY <1>2, <2>1 DEF LocalStep
  <2>4. file' \in Seq(Ids)
    BY <1>2, <2>1 DEF LocalStep
  <2>5. nodes' \in Seq(Ids)
    <3>1. Filled(nodes, file) \in Seq(Ids) /\ MarkedAt(nodes, csv) \in Seq(Ids)
      BY <1>2, FilledTable, MarkedTable
    <3> QED BY <1>2, <2>1, <3>1 DEF LocalStep
  <2>6. raced' \in BOOLEAN
    BY <1>2 DEF LocalStep, CutsOff
  <2>7. csv' \in Nat
    BY <1>2, <2>1 DEF LocalStep
  <2> QED BY <2>2, <2>3, <2>4, <2>5, <2>6, <2>7
<1>4. CASE Head(todo) = "APPLY" /\ count > 0
  <2>1. Tail(todo) = <<>>
    <3>1. Tail(todo) # <<>> => <<"APPLY", Head(Tail(todo))>> \in Follows
      BY <1>1, <1>2, <1>4, TailOrdered
    <3> QED BY <3>1 DEF Follows
  <2>2. todo' = EoApplyFilter
    <3>1. todo' = EoApplyFilter \o Tail(todo)
      BY <1>4 DEF LocalStep
    <3>2. EoApplyFilter \in Seq(Ops) /\ <<>> \in Seq(Ops)
      BY FilterOrdered
    <3> QED BY <2>1, <3>1, <3>2, Concat
  <2>3. Plan'
    BY <1>1, <2>2, FilterOrdered DEF Plan, Ordered
  <2>4. todo' \in Seq(Ops)
    BY <2>2, FilterOrdered
  <2> QED BY <1>1, <1>3, <2>3, <2>4 DEF Basic, Types
<1>5. CASE ~(Head(todo) = "APPLY" /\ count > 0)
  <2>1. todo' = Tail(todo)
    BY <1>5 DEF LocalStep
  <2>2. Plan' /\ todo' \in Seq(Ops)
    BY <1>1, <2>1, TailPlan
  <2> QED BY <1>1, <1>3, <2>2 DEF Basic, Types
<1> QED BY <1>4, <1>5

LEMMA FilterEndBasic ==
    ASSUME Basic, FilterEnd
    PROVE  Basic'
<1>1. /\ phase = "run" /\ ~waiting /\ todo # <<>> /\ todo' = Tail(todo)
      /\ UNCHANGED <<phase, index, waiting, failures, modeSet, csv, erp1gw, lag,
                     mode, count, file, nodes, job, line, answers, gateway, faults,
                     overlap, raced>>
  BY DEF FilterEnd, tableVars, gateVars, raceVars
<1>2. Plan' /\ todo' \in Seq(Ops)
  BY <1>1, TailPlan
<1> QED BY <1>1, <1>2 DEF Basic, Types

LEMMA ActionBasic ==
    ASSUME Basic, ActionThread
    PROVE  Basic'
<1>1. UNCHANGED <<phase, todo, index, waiting, failures, modeSet, csv, erp1gw, lag,
                  line, answers, gateway, faults, mode>>
  BY DEF ActionThread, ActionFrame, Look, CheckMode, EoSetEep, ReadCsv,
         EndMark, EoReadControl, mainVars, gateVars, tableVars
<1>2. /\ count \in Nat /\ file \in Seq(Ids) /\ nodes \in Seq(Ids)
      /\ overlap \in BOOLEAN /\ raced \in BOOLEAN
      /\ job \in {Idle} \cup [id : Ids, csv : Nat,
                              at : {"mode", "append", "read", "end", "count"}]
  BY DEF Basic, Types
<1>3. ASSUME count' \in Nat, file' \in Seq(Ids), nodes' \in Seq(Ids),
             overlap' \in BOOLEAN, raced' \in BOOLEAN,
             job' \in {Idle} \cup [id : Ids, csv : Nat,
                                   at : {"mode", "append", "read", "end", "count"}]
      PROVE  Basic'
  BY <1>1, <1>3 DEF Basic, Types, Plan, Ordered
<1>4. job.at # "idle" => job \in [id : Ids, csv : Nat,
                                  at : {"mode", "append", "read", "end", "count"}]
  BY <1>2 DEF Idle
<1>5. ASSUME NEW d \in Ids, Look(d) PROVE Basic'
  BY <1>2, <1>3, <1>5 DEF Look, tableVars, raceVars
<1>6. CASE CheckMode
  <2>1. job' \in {Idle} \cup [id : Ids, csv : Nat,
                              at : {"mode", "append", "read", "end", "count"}]
    BY <1>4, <1>6 DEF CheckMode
  <2>2. overlap' \in BOOLEAN /\ raced' \in BOOLEAN
    BY <1>2, <1>6 DEF CheckMode
  <2> QED BY <1>2, <1>3, <1>6, <2>1, <2>2 DEF CheckMode, tableVars
<1>7. CASE EoSetEep
  <2>1. file' \in Seq(Ids)
    BY <1>2, <1>4, <1>7, Longer DEF EoSetEep
  <2>2. job' \in [id : Ids, csv : Nat, at : {"mode", "append", "read", "end", "count"}]
    BY <1>4, <1>7 DEF EoSetEep
  <2> QED BY <1>2, <1>3, <1>7, <2>1, <2>2 DEF EoSetEep, raceVars
<1>8. CASE ReadCsv
  <2>1. Len(file) \in Nat
    BY <1>2, LenProperties
  <2>2. job' \in [id : Ids, csv : Nat, at : {"mode", "append", "read", "end", "count"}]
    BY <1>4, <1>8, <2>1 DEF ReadCsv
  <2>3. nodes' \in Seq(Ids)
    BY <1>2, <1>8, FilledTable DEF ReadCsv
  <2> QED BY <1>2, <1>3, <1>8, <2>2, <2>3 DEF ReadCsv, raceVars
<1>10. CASE EndMark
  <2>1. job \in [id : Ids, csv : Nat,
                 at : {"mode", "append", "read", "end", "count"}]
    BY <1>4, <1>10 DEF EndMark
  <2>2. job' \in [id : Ids, csv : Nat,
                  at : {"mode", "append", "read", "end", "count"}]
    BY <1>10, <2>1 DEF EndMark
  <2>3. nodes' \in Seq(Ids)
    BY <1>2, <1>10, <2>1, MarkedTable DEF EndMark
  <2> QED BY <1>2, <1>3, <1>10, <2>2, <2>3 DEF EndMark, raceVars
<1>9. CASE EoReadControl
  BY <1>2, <1>3, <1>4, <1>9 DEF EoReadControl, raceVars
<1> QED BY <1>5, <1>6, <1>7, <1>8, <1>9, <1>10 DEF ActionThread

LEMMA InitBasic == Init => Basic
<1> SUFFICES ASSUME Init PROVE Basic
  OBVIOUS
<1>1. todo = <<"RESET">> /\ Ordered(todo) /\ todo \in Seq(Ops)
  BY DEF Init, Ordered, Ends, Ops, Commands
<1>2. file \in Seq(Ids)
  <2>1. PICK n \in 0 .. Cardinality(Ids) : file \in [1 .. n -> Ids]
    BY DEF Init, NoRepeat
  <2>2. n \in Nat
    BY FS_CardinalityType, GatewayAssumption
  <2> QED BY <2>1, <2>2
<1>3. modeSet \in Transceiver /\ mode \in Modes
  BY GatewayAssumption DEF Init
<1>4. line = <<>> /\ answers = <<>> /\ <<>> \in Seq(Sent) /\ <<>> \in Seq(Answered)
  BY DEF Init
<1>5. gateway \in Gateways
  BY DEF Init, Gateways, Transceiver
<1>6. Types
  <2>1. /\ phase = "start" /\ index = 1 /\ waiting = FALSE /\ failures = 0
        /\ erp1gw = FALSE /\ nodes = file /\ job = Idle /\ lag = 0
        /\ csv = 0
        /\ overlap = FALSE /\ raced = FALSE
    BY DEF Init
  <2>2. count \in Nat
    BY <1>2, LenProperties DEF Init
  <2>3. faults \in [slow : Nat, lost : Nat, silent : Nat, made : Nat]
    BY DEF Init
  <2>4. job \in {Idle} \cup [id : Ids, csv : Nat,
                              at : {"mode", "append", "read", "end", "count"}]
    BY <2>1
  <2>5. nodes \in Seq(Ids) /\ line \in Seq(Sent) /\ answers \in Seq(Answered)
    BY <1>2, <1>4, <2>1
  <2>6. /\ index \in Nat \ {0} /\ failures \in Nat /\ lag \in Nat
        /\ csv \in Nat /\ phase \in {"start", "run", "exited"}
    BY <2>1
  <2>7. /\ waiting \in BOOLEAN /\ erp1gw \in BOOLEAN /\ overlap \in BOOLEAN
        /\ raced \in BOOLEAN
    BY <2>1
  <2> QED
    BY <1>1, <1>2, <1>3, <1>5, <2>2, <2>3, <2>4, <2>5, <2>6, <2>7 DEF Types
<1>7. Plan
  BY <1>1, GatewayAssumption DEF Init, Plan
<1> QED BY <1>6, <1>7 DEF Basic

LEMMA StepBasic == Basic /\ [Next]_vars => Basic'
<1> SUFFICES ASSUME Basic, [Next]_vars PROVE Basic'
  OBVIOUS
<1>1. CASE UNCHANGED vars
  BY <1>1 DEF vars, mainVars, tableVars, gateVars, raceVars, Basic, Types, Plan,
              Ordered
<1> QED
  BY <1>1, BeginBasic, SendBasic, LineBasic, ResponseBasic, LocalBasic,
     FilterEndBasic, ActionBasic
  DEF Next, Main

(***************************************************************************)
(* What the steps do to line and answers, entry by entry.                  *)
(***************************************************************************)
LEMMA QueueLengths ==
    ASSUME Basic
    PROVE  /\ Len(line) \in Nat /\ DOMAIN line = 1 .. Len(line)
           /\ Len(answers) \in Nat /\ DOMAIN answers = 1 .. Len(answers)
           /\ line = <<>> <=> Len(line) = 0
           /\ answers = <<>> <=> Len(answers) = 0
           /\ \A j \in 1 .. Len(line) : line[j] \in Sent /\ line[j].age \in Nat
           /\ \A i \in 1 .. Len(answers) :
                 answers[i] \in Answered /\ answers[i].age \in Nat
<1>1. line \in Seq(Sent) /\ answers \in Seq(Answered)
  BY DEF Basic, Types
<1>2. /\ \A j \in 1 .. Len(line) : line[j] \in Sent
      /\ \A i \in 1 .. Len(answers) : answers[i] \in Answered
  BY <1>1, ElementOfSeq
<1>3. /\ Len(line) \in Nat /\ DOMAIN line = 1 .. Len(line)
      /\ Len(answers) \in Nat /\ DOMAIN answers = 1 .. Len(answers)
  BY <1>1, LenProperties
<1>4. line = <<>> <=> Len(line) = 0
  BY <1>1, EmptySeq
<1>5. answers = <<>> <=> Len(answers) = 0
  BY <1>1, EmptySeq
<1> QED BY <1>2, <1>3, <1>4, <1>5 DEF Sent, Answered

LEMMA SendQueues ==
    ASSUME Basic, SendCommand
    PROVE  /\ Len(line') = Len(line) + 1 /\ Len(answers') = Len(answers)
           /\ \A j \in 1 .. Len(line) :
                 /\ line'[j].age = line[j].age + 1 /\ line'[j].op = line[j].op
                 /\ line'[j].id = line[j].id /\ line'[j].mode = line[j].mode
           /\ line'[Len(line) + 1] = New /\ New \in Sent
           /\ \A i \in 1 .. Len(answers) :
                 /\ answers'[i].age = answers[i].age + 1
                 /\ answers'[i].real = answers[i].real
                 /\ answers'[i].status = answers[i].status
           /\ ~waiting /\ waiting' /\ todo # <<>> /\ Head(todo) \in Commands
           /\ UNCHANGED <<phase, todo, index, failures, modeSet, erp1gw, lag,
                          mode, count, file, nodes, job, gateway, faults,
                          overlap, raced>>
<1>1. /\ line' = Append(Older(line), New) /\ answers' = Older(answers)
      /\ line \in Seq(Sent) /\ answers \in Seq(Answered)
  BY DEF SendCommand, New, Basic, Types
<1>2. New \in Sent
  BY NewIsSent
<1>3. /\ Older(line) \in Seq(Sent) /\ Len(Older(line)) = Len(line)
      /\ \A j \in 1 .. Len(line) :
            /\ Older(line)[j].age = line[j].age + 1
            /\ Older(line)[j].op = line[j].op
            /\ Older(line)[j].id = line[j].id /\ Older(line)[j].mode = line[j].mode
  BY <1>1, OlderLine
<1>4. /\ Len(line') = Len(Older(line)) + 1
      /\ \A j \in 1 .. Len(Older(line)) : line'[j] = Older(line)[j]
      /\ line'[Len(Older(line)) + 1] = New
  BY <1>1, <1>2, <1>3, Longer
<1>5. /\ Len(answers') = Len(answers)
      /\ \A i \in 1 .. Len(answers) :
            /\ answers'[i].age = answers[i].age + 1
            /\ answers'[i].real = answers[i].real
            /\ answers'[i].status = answers[i].status
  BY <1>1, OlderAnswers
<1> QED BY <1>2, <1>3, <1>4, <1>5 DEF SendCommand, tableVars, raceVars

LEMMA TakenFromLine ==
    ASSUME Basic, line # <<>>, line' = Tail(line)
    PROVE  /\ Len(line) \in Nat \ {0} /\ Len(line') = Len(line) - 1
           /\ \A j \in 1 .. Len(line) - 1 : line'[j] = line[j + 1]
           /\ Head(line) = line[1] /\ Head(line) \in Sent
           /\ Head(line).age \in Nat
<1>1. line \in Seq(Sent)
  BY DEF Basic, Types
<1> QED BY <1>1, Shorter DEF Sent

LEMMA AnswerQueued ==
    ASSUME Basic, NEW status \in Statuses, NEW real \in BOOLEAN, NEW age \in Nat,
           Answer(status, real, age)
    PROVE  /\ Len(answers') = Len(answers) + 1 /\ Len(answers) \in Nat
           /\ \A i \in 1 .. Len(answers) : answers'[i] = answers[i]
           /\ answers'[Len(answers) + 1].status = status
           /\ answers'[Len(answers) + 1].real = real
           /\ answers'[Len(answers) + 1].age = age
<1> DEFINE e == [status |-> status, real |-> real, age |-> age]
<1>1. e \in Answered /\ e.status = status /\ e.real = real /\ e.age = age
  BY DEF Answered
<1>2. answers' = Append(answers, e) /\ answers \in Seq(Answered)
  BY DEF Answer, Basic, Types
<1> HIDE DEF e
<1> QED BY <1>1, <1>2, Longer

\* The head of the line is answered.
LEMMA AnsweredHead ==
    ASSUME Basic, NEW status \in Statuses, line # <<>>, line' = Tail(line),
           Answer(status, TRUE, Head(line).age)
    PROVE  /\ Len(line) \in Nat \ {0} /\ Len(line') = Len(line) - 1
           /\ \A j \in 1 .. Len(line) - 1 : line'[j] = line[j + 1]
           /\ Len(answers') = Len(answers) + 1 /\ Len(answers) \in Nat
           /\ \A i \in 1 .. Len(answers) : answers'[i] = answers[i]
           /\ answers'[Len(answers) + 1].status = status
           /\ answers'[Len(answers) + 1].real
           /\ answers'[Len(answers) + 1].age = line[1].age
<1>1. /\ Len(line) \in Nat \ {0} /\ Len(line') = Len(line) - 1
      /\ \A j \in 1 .. Len(line) - 1 : line'[j] = line[j + 1]
      /\ Head(line) = line[1] /\ Head(line).age \in Nat
  BY TakenFromLine
<1>2. /\ Len(answers') = Len(answers) + 1 /\ Len(answers) \in Nat
      /\ \A i \in 1 .. Len(answers) : answers'[i] = answers[i]
      /\ answers'[Len(answers) + 1].status = status
      /\ answers'[Len(answers) + 1].real = TRUE
      /\ answers'[Len(answers) + 1].age = Head(line).age
  BY <1>1, AnswerQueued
<1> QED BY <1>1, <1>2

LEMMA ResponseTaken ==
    ASSUME Basic, GetResponse
    PROVE  /\ Len(answers) \in Nat \ {0} /\ Len(answers') = Len(answers) - 1
           /\ \A i \in 1 .. Len(answers) - 1 : answers'[i] = answers[i + 1]
           /\ lag' = IF answers[1].real THEN answers[1].age ELSE lag
           /\ waiting /\ waiting' = FALSE
           /\ UNCHANGED <<line, faults, gateway>>
           /\ Respond(answers[1].status) /\ phase # "exited"
           /\ answers[1] \in Answered
<1>1. /\ answers \in Seq(Answered) /\ answers # <<>> /\ answers' = Tail(answers)
      /\ waiting /\ phase # "exited" /\ Respond(Head(answers).status)
      /\ faults' = faults
      /\ lag' = IF Head(answers).real THEN Head(answers).age ELSE lag
  BY DEF GetResponse, Basic, Types
<1>2. waiting' = FALSE /\ UNCHANGED <<line, gateway>>
  BY <1>1, RespondWays
<1>3. /\ Head(answers) \in Answered /\ Head(answers) = answers[1]
      /\ Len(answers) \in Nat \ {0} /\ Len(answers') = Len(answers) - 1
      /\ \A i \in 1 .. Len(answers) - 1 : answers'[i] = answers[i + 1]
  BY <1>1, Shorter
<1> QED BY <1>1, <1>2, <1>3

LEMMA TimeoutQueues ==
    ASSUME Basic, Timeout
    PROVE  /\ answers = <<>> /\ waiting /\ waiting' = FALSE /\ Len(answers) = 0
           /\ UNCHANGED <<line, answers, gateway, lag>>
           /\ Respond("TIMEOUT") /\ phase # "exited"
           /\ IF line = <<>> THEN faults' = faults
              ELSE /\ faults'.slow = faults.slow + 1 /\ faults'.made = faults.made
                   /\ faults'.lost = faults.lost /\ faults'.silent = faults.silent
<1>1. /\ answers = <<>> /\ waiting /\ phase # "exited" /\ Respond("TIMEOUT")
      /\ UNCHANGED <<answers, lag>>
      /\ faults \in [slow : Nat, lost : Nat, silent : Nat, made : Nat]
  BY DEF Timeout, Basic, Types
<1>2. waiting' = FALSE /\ UNCHANGED <<line, gateway>>
  BY <1>1, RespondWays
<1>3. IF line = <<>> THEN faults' = faults
      ELSE /\ faults'.slow = faults.slow + 1 /\ faults'.made = faults.made
           /\ faults'.lost = faults.lost /\ faults'.silent = faults.silent
  BY <1>1 DEF Timeout
<1> QED BY <1>1, <1>2, <1>3, QueueLengths

\* What a fault adds to the counts.
LEMMA FaultCounts ==
    ASSUME Basic, Lose \/ Refuse \/ LoseAnswer \/ MakeUp
    PROVE  /\ Lose \/ Refuse => faults'.lost = faults.lost + 1 /\ faults'.silent = faults.silent
                 /\ faults'.made = faults.made
           /\ LoseAnswer => faults'.silent = faults.silent + 1 /\ faults'.lost = faults.lost
                 /\ faults'.made = faults.made
           /\ MakeUp => faults'.made = faults.made + 1 /\ faults'.lost = faults.lost
                 /\ faults'.silent = faults.silent
           /\ faults'.slow = faults.slow
<1>1. faults \in [slow : Nat, lost : Nat, silent : Nat, made : Nat]
  BY DEF Basic, Types
<1>2. Lose \/ Refuse => faults' = [faults EXCEPT !.lost = @ + 1]
  BY DEF Lose, Refuse
<1>3. LoseAnswer => faults' = [faults EXCEPT !.silent = @ + 1]
  BY DEF LoseAnswer
<1>4. MakeUp => faults' = [faults EXCEPT !.made = @ + 1]
  BY DEF MakeUp
<1> QED BY <1>1, <1>2, <1>3, <1>4

LEMMA FaultTypes ==
    ASSUME Basic
    PROVE  /\ faults.slow \in Nat /\ faults.lost \in Nat /\ faults.silent \in Nat
           /\ faults.made \in Nat
BY DEF Basic, Types

(***************************************************************************)
(* Ages: an entry of the line has seen the commands after it; answers are  *)
(* the younger the further back they are, and none is older than the       *)
(* commands main was answered too late, or by an answer made up, and the   *)
(* one it waits for.                                                       *)
(***************************************************************************)
W == IF waiting THEN 1 ELSE 0
Slack == faults.slow + faults.made + W

Ages ==
    /\ \A j \in 1 .. Len(line) : line[j].age = Len(line) - j
    /\ Len(answers) + Len(line) <= Slack
    /\ \A i \in 1 .. Len(answers) : answers[i].age + i <= Slack
    /\ AnswerLag

\* Steps that leave the queues alone.
QueuesStand == UNCHANGED <<waiting, line, answers, faults, lag>>

LEMMA StandingQueues ==
    ASSUME \/ \E c \in HostCommands : Begin(c)
           \/ FilterEnd \/ LocalStep \/ ActionThread \/ UNCHANGED vars
    PROVE  QueuesStand
<1>1. ASSUME NEW c \in HostCommands, Begin(c) PROVE QueuesStand
  BY <1>1 DEF Begin, gateVars, QueuesStand
<1>2. ASSUME FilterEnd PROVE QueuesStand
  BY <1>2 DEF FilterEnd, gateVars, QueuesStand
<1>3. ASSUME LocalStep PROVE QueuesStand
  BY <1>3 DEF LocalStep, gateVars, QueuesStand
<1>4. ASSUME ActionThread PROVE QueuesStand
  BY <1>4 DEF ActionThread, Look, CheckMode, EoSetEep, ReadCsv, EndMark, EoReadControl,
              ActionFrame, mainVars, gateVars, QueuesStand
<1>5. ASSUME UNCHANGED vars PROVE QueuesStand
  BY <1>5 DEF vars, mainVars, gateVars, QueuesStand
<1> QED BY <1>1, <1>2, <1>3, <1>4, <1>5

LEMMA InitAges == Init => Ages
<1> SUFFICES ASSUME Init PROVE Ages
  OBVIOUS
<1>1. Basic /\ line = <<>> /\ answers = <<>> /\ lag = 0
  BY InitBasic DEF Init
<1>2. Len(line) = 0 /\ Len(answers) = 0
  BY <1>1, QueueLengths
<1>3. faults.slow = 0 /\ faults.made = 0 /\ W = 0
  BY DEF Init, W
<1> QED BY <1>1, <1>2, <1>3 DEF Ages, Slack, AnswerLag

LEMMA SendAges ==
    ASSUME Basic, Ages, SendCommand
    PROVE  Ages'
<1>1. /\ Len(line') = Len(line) + 1 /\ Len(answers') = Len(answers)
      /\ \A j \in 1 .. Len(line) : line'[j].age = line[j].age + 1
      /\ line'[Len(line) + 1].age = 0
      /\ \A i \in 1 .. Len(answers) : answers'[i].age = answers[i].age + 1
      /\ UNCHANGED <<faults, lag>> /\ ~waiting /\ waiting'
  BY SendQueues DEF New
<1>2. /\ Len(line) \in Nat /\ Len(answers) \in Nat
      /\ \A i \in 1 .. Len(answers) : answers[i].age \in Nat
      /\ faults.slow \in Nat /\ faults.made \in Nat
  BY QueueLengths, FaultTypes
<1>3. Slack' = Slack + 1
  BY <1>1, <1>2 DEF Slack, W
<1>4. Slack \in Nat
  BY <1>2 DEF Slack, W
<1>5. ASSUME NEW j \in 1 .. Len(line')
      PROVE  line'[j].age = Len(line') - j
  <2>1. PICK n \in Nat : n = Len(line)
    BY <1>2
  <2>2. CASE j \in 1 .. n
    <3>1. line'[j].age = line[j].age + 1 /\ line[j].age = n - j
      BY <1>1, <2>1, <2>2 DEF Ages
    <3> QED BY <1>1, <2>1, <2>2, <3>1
  <2>3. CASE j = n + 1
    BY <1>1, <2>1, <2>3
  <2> QED BY <1>1, <2>1, <2>2, <2>3
<1>6. ASSUME NEW i \in 1 .. Len(answers')
      PROVE  answers'[i].age + i <= Slack'
  <2>1. i \in 1 .. Len(answers) /\ i \in Nat
    BY <1>1, <1>2
  <2>2. answers'[i].age = answers[i].age + 1 /\ answers[i].age \in Nat
    BY <1>1, <1>2, <2>1
  <2>3. answers[i].age + i <= Slack
    BY <2>1 DEF Ages
  <2> QED BY <1>3, <1>4, <2>1, <2>2, <2>3
<1>7. Len(answers') + Len(line') <= Slack'
  BY <1>1, <1>2, <1>3, <1>4 DEF Ages
<1>8. AnswerLag'
  BY <1>1 DEF AnswerLag, Ages
<1> QED BY <1>5, <1>6, <1>7, <1>8 DEF Ages

\* The head of the line is answered, or lost.
LEMMA LineAges ==
    ASSUME Basic, Ages, Execute \/ Fault
    PROVE  Ages'
<1>1. waiting' = waiting /\ lag' = lag
  BY DEF Execute, Fault, mainVars
<1>2. /\ Len(line) \in Nat /\ Len(answers) \in Nat
      /\ \A i \in 1 .. Len(answers) : answers[i].age \in Nat
      /\ faults.slow \in Nat /\ faults.made \in Nat /\ lag \in Nat
  BY QueueLengths, FaultTypes DEF Basic, Types
<1>3. Slack \in Nat
  BY <1>2 DEF Slack, W
<1>4. ASSUME line # <<>>, line' = Tail(line), faults'.slow = faults.slow,
             faults'.made = faults.made,
             \/ answers' = answers
             \/ \E s \in Statuses : Answer(s, TRUE, Head(line).age)
      PROVE  Ages'
  <2>1. Slack' = Slack /\ AnswerLag'
    BY <1>1, <1>4 DEF Slack, W, Ages, AnswerLag
  <2>2. /\ Len(line) \in Nat \ {0} /\ Len(line') = Len(line) - 1
        /\ \A j \in 1 .. Len(line) - 1 : line'[j] = line[j + 1]
    BY <1>4, TakenFromLine
  <2>3. \A j \in 1 .. Len(line') : line'[j].age = Len(line') - j
    <3> SUFFICES ASSUME NEW j \in 1 .. Len(line) - 1
                 PROVE  line'[j].age = Len(line') - j
      BY <2>2
    <3>1. j + 1 \in 1 .. Len(line) /\ line'[j] = line[j + 1]
      BY <2>2
    <3>2. line[j + 1].age = Len(line) - (j + 1)
      BY <3>1 DEF Ages
    <3> QED BY <2>2, <3>1, <3>2
  <2>4. CASE answers' = answers
    <3>1. Len(answers') + Len(line') <= Slack'
      BY <1>2, <1>3, <2>1, <2>2, <2>4 DEF Ages
    <3> QED BY <2>1, <2>3, <2>4, <3>1 DEF Ages
  <2>5. CASE \E s \in Statuses : Answer(s, TRUE, Head(line).age)
    <3>1. PICK s \in Statuses : Answer(s, TRUE, Head(line).age)
      BY <2>5
    <3>2. /\ Len(answers') = Len(answers) + 1
          /\ \A i \in 1 .. Len(answers) : answers'[i] = answers[i]
          /\ answers'[Len(answers) + 1].age = line[1].age
      BY <1>4, <3>1, AnsweredHead
    <3>3. line[1].age = Len(line) - 1
      BY <2>2 DEF Ages
    <3>4. Len(answers) + Len(line) <= Slack
      BY DEF Ages
    <3>5. Len(answers') + Len(line') <= Slack'
      BY <1>2, <1>3, <2>1, <2>2, <3>2, <3>4
    <3>6. \A i \in 1 .. Len(answers') : answers'[i].age + i <= Slack'
      <4> SUFFICES ASSUME NEW i \in 1 .. Len(answers) + 1
                   PROVE  answers'[i].age + i <= Slack'
        BY <3>2
      <4>1. CASE i \in 1 .. Len(answers)
        BY <2>1, <3>2, <4>1 DEF Ages
      <4>2. CASE i = Len(answers) + 1
        BY <1>2, <1>3, <2>1, <2>2, <3>2, <3>3, <3>4, <4>2
      <4> QED BY <1>2, <4>1, <4>2
    <3> QED BY <2>1, <2>3, <3>5, <3>6 DEF Ages
  <2> QED BY <1>4, <2>4, <2>5
<1>5. CASE Execute
  <2>1. StatusOf(Head(line)) \in Statuses
    BY DEF StatusOf, Statuses
  <2> QED BY <1>4, <1>5, <2>1 DEF Execute
<1>6. CASE Lose \/ LoseAnswer
  BY <1>4, <1>6, FaultCounts DEF Lose, LoseAnswer
<1>7. CASE Refuse
  <2>1. "ERROR" \in Statuses
    BY DEF Statuses
  <2> QED BY <1>4, <1>7, <2>1, FaultCounts DEF Refuse
<1>8. CASE MakeUp
  <2>1. PICK s \in Statuses : Answer(s, FALSE, 0)
    BY <1>8 DEF MakeUp
  <2>2. /\ Len(answers') = Len(answers) + 1
        /\ \A i \in 1 .. Len(answers) : answers'[i] = answers[i]
        /\ answers'[Len(answers) + 1].age = 0
    BY <2>1, AnswerQueued
  <2>3. /\ line' = line /\ faults'.slow = faults.slow
        /\ faults'.made = faults.made + 1
    BY <1>8, FaultCounts DEF MakeUp
  <2>4. Slack' = Slack + 1
    BY <1>1, <1>2, <2>3 DEF Slack, W
  <2>5. Len(answers) + Len(line) <= Slack
    BY DEF Ages
  <2>6. Len(answers') + Len(line') <= Slack'
    BY <1>2, <1>3, <2>2, <2>3, <2>4, <2>5
  <2>7. ASSUME NEW i \in 1 .. Len(answers')
        PROVE  answers'[i].age + i <= Slack'
    <3>1. CASE i \in 1 .. Len(answers)
      <4>1. answers'[i] = answers[i] /\ answers[i].age + i <= Slack
        BY <2>2, <3>1 DEF Ages
      <4>2. answers[i].age \in Nat
        BY <3>1, QueueLengths
      <4> QED BY <1>2, <1>3, <2>4, <4>1, <4>2
    <3>2. CASE i = Len(answers) + 1
      <4>1. answers'[i].age = 0 /\ Len(answers) \in Nat /\ Len(line) \in Nat
        BY <2>2, <3>2, QueueLengths
      <4> QED BY <1>2, <1>3, <2>4, <2>5, <3>2, <4>1
    <3>3. Len(answers) \in Nat
      BY QueueLengths
    <3> QED BY <2>2, <3>1, <3>2, <3>3
  <2>8. AnswerLag'
    BY <1>1, <1>2, <2>3 DEF AnswerLag, Ages
  <2> QED BY <2>3, <2>6, <2>7, <2>8 DEF Ages
<1> QED BY <1>5, <1>6, <1>7, <1>8 DEF Fault

\* Main takes an answer, or gives up.
LEMMA ResponseAges ==
    ASSUME Basic, Ages, GetResponse \/ Timeout
    PROVE  Ages'
<1>1. /\ Len(line) \in Nat /\ Len(answers) \in Nat
      /\ \A i \in 1 .. Len(answers) : answers[i].age \in Nat
      /\ faults.slow \in Nat /\ faults.made \in Nat /\ lag \in Nat
  BY QueueLengths, FaultTypes DEF Basic, Types
<1>2. Slack \in Nat
  BY <1>1 DEF Slack, W
<1>3. CASE GetResponse
  <2>1. /\ Len(answers) \in Nat \ {0} /\ Len(answers') = Len(answers) - 1
        /\ \A i \in 1 .. Len(answers) - 1 : answers'[i] = answers[i + 1]
        /\ lag' = IF answers[1].real THEN answers[1].age ELSE lag
        /\ waiting /\ waiting' = FALSE
        /\ UNCHANGED <<line, faults>>
    BY <1>3, ResponseTaken
  <2>2. Slack' = Slack - 1 /\ Slack = faults.slow + faults.made + 1
    BY <1>1, <2>1 DEF Slack, W
  <2>3. answers[1].age + 1 <= Slack
    BY <2>1 DEF Ages
  <2>4. AnswerLag'
    <3>1. answers[1].age \in Nat
      BY <1>1, <2>1
    <3>2. answers[1].age <= faults.slow + faults.made
      BY <1>1, <2>2, <2>3, <3>1
    <3>3. lag <= faults.slow + faults.made
      BY DEF Ages, AnswerLag
    <3> QED BY <2>1, <3>2, <3>3 DEF AnswerLag
  <2>5. \A i \in 1 .. Len(answers') : answers'[i].age + i <= Slack'
    <3> SUFFICES ASSUME NEW i \in 1 .. Len(answers) - 1
                 PROVE  answers'[i].age + i <= Slack'
      BY <2>1
    <3>1. i + 1 \in 1 .. Len(answers) /\ answers'[i] = answers[i + 1]
      BY <2>1
    <3>2. answers[i + 1].age + (i + 1) <= Slack
      BY <3>1 DEF Ages
    <3> QED BY <1>1, <1>2, <2>2, <3>1, <3>2
  <2>6. Len(answers') + Len(line') <= Slack'
    BY <1>1, <1>2, <2>1, <2>2 DEF Ages
  <2> QED BY <2>1, <2>4, <2>5, <2>6 DEF Ages
<1>4. CASE Timeout
  <2>1. /\ answers = <<>> /\ waiting /\ waiting' = FALSE /\ Len(answers) = 0
        /\ UNCHANGED <<line, answers, lag>>
        /\ IF line = <<>> THEN faults' = faults
           ELSE faults'.slow = faults.slow + 1 /\ faults'.made = faults.made
    BY <1>4, TimeoutQueues
  <2>2. AnswerLag'
    BY <1>1, <2>1 DEF AnswerLag, Ages
  <2>3. CASE line = <<>>
    <3>1. Len(line) = 0 /\ Slack' = faults.slow + faults.made
      BY <1>1, <2>1, <2>3, QueueLengths DEF Slack, W
    <3> QED BY <1>1, <2>1, <2>2, <3>1 DEF Ages
  <2>4. CASE line # <<>>
    <3>1. Slack' = Slack
      BY <1>1, <2>1, <2>4 DEF Slack, W
    <3> QED BY <2>1, <2>2, <3>1 DEF Ages
  <2> QED BY <2>3, <2>4
<1> QED BY <1>3, <1>4

LEMMA StepAges == Basic /\ Ages /\ [Next]_vars => Ages'
<1> SUFFICES ASSUME Basic, Ages, [Next]_vars PROVE Ages'
  OBVIOUS
<1>1. ASSUME QueuesStand PROVE Ages'
  BY <1>1 DEF QueuesStand, Ages, Slack, W, AnswerLag
<1>2. CASE \/ \E c \in HostCommands : Begin(c)
           \/ FilterEnd \/ LocalStep \/ ActionThread \/ UNCHANGED vars
  BY <1>1, <1>2, StandingQueues
<1> QED
  BY <1>2, SendAges, LineAges, ResponseAges DEF Next, Main

(***************************************************************************)
(* Chain: as long as nothing is lost, the answers the gateway gave are     *)
(* those to successive commands, up to the last one sent; the command      *)
(* answered next is the one after that answered last.                      *)
(***************************************************************************)
\* No answer strictly between the i-th and the k-th is the gateway's.
NoneBetween(i, k) ==
    \A j \in 1 .. Len(answers) : i < j /\ j < k => ~answers[j].real

Linked ==
    /\ \A i \in 1 .. Len(answers) :
          answers[i].real /\ NoneBetween(i, Len(answers) + 1) =>
              answers[i].age = Len(line)
    /\ \A i, k \in 1 .. Len(answers) :
          i < k /\ answers[i].real /\ answers[k].real /\ NoneBetween(i, k) =>
              answers[i].age = answers[k].age + 1
    /\ \A i \in 1 .. Len(answers) :
          answers[i].real /\ NoneBetween(0, i) => answers[i].age + 1 >= lag + W
    /\ NoneBetween(0, Len(answers) + 1) => Len(line) >= lag + W

Chain == faults.lost = 0 /\ faults.silent = 0 => Linked

LEMMA InitChain == Init => Chain
<1> SUFFICES ASSUME Init PROVE Linked
  BY DEF Chain
<1>1. Basic /\ line = <<>> /\ answers = <<>> /\ lag = 0
  BY InitBasic DEF Init
<1>2. Len(line) = 0 /\ Len(answers) = 0 /\ W = 0
  BY <1>1, QueueLengths DEF Init, W
<1> QED BY <1>1, <1>2 DEF Linked

LEMMA SendChain ==
    ASSUME Basic, Chain, SendCommand
    PROVE  Chain'
<1> SUFFICES ASSUME faults'.lost = 0, faults'.silent = 0 PROVE Linked'
  BY DEF Chain
<1>1. /\ Len(line') = Len(line) + 1 /\ Len(answers') = Len(answers)
      /\ \A i \in 1 .. Len(answers) : /\ answers'[i].age = answers[i].age + 1
                                      /\ answers'[i].real = answers[i].real
      /\ UNCHANGED <<faults, lag>> /\ ~waiting /\ waiting'
  BY SendQueues
<1>2. /\ Len(line) \in Nat /\ Len(answers) \in Nat
      /\ \A i \in 1 .. Len(answers) : answers[i].age \in Nat
      /\ lag \in Nat
  BY QueueLengths DEF Basic, Types
<1>3. Linked
  BY <1>1 DEF Chain
<1>4. W = 0 /\ W' = 1
  BY <1>1 DEF W
<1>5. \A i, k : NoneBetween(i, k)' => NoneBetween(i, k)
  BY <1>1 DEF NoneBetween
<1>6. \A i \in 1 .. Len(answers') :
          answers'[i].real /\ NoneBetween(i, Len(answers) + 1)' =>
              answers'[i].age = Len(line')
  BY <1>1, <1>2, <1>3, <1>5 DEF Linked
<1>7. ASSUME NEW i \in 1 .. Len(answers'), NEW k \in 1 .. Len(answers'),
             i < k, answers'[i].real, answers'[k].real, NoneBetween(i, k)'
      PROVE  answers'[i].age = answers'[k].age + 1
  <2>1. i \in 1 .. Len(answers) /\ k \in 1 .. Len(answers)
    BY <1>1
  <2>2. answers[i].real /\ answers[k].real /\ NoneBetween(i, k)
    BY <1>1, <1>5, <1>7, <2>1
  <2>3. answers[i].age = answers[k].age + 1
    BY <1>3, <1>7, <2>1, <2>2 DEF Linked
  <2> QED BY <1>1, <2>1, <2>3
<1>8. \A i \in 1 .. Len(answers') :
          answers'[i].real /\ NoneBetween(0, i)' =>
              answers'[i].age + 1 >= lag' + W'
  BY <1>1, <1>2, <1>3, <1>4, <1>5 DEF Linked
<1>9. NoneBetween(0, Len(answers) + 1)' => Len(line') >= lag' + W'
  BY <1>1, <1>2, <1>3, <1>4, <1>5 DEF Linked
<1> QED BY <1>1, <1>6, <1>7, <1>8, <1>9 DEF Linked

LEMMA ExecuteChain ==
    ASSUME Basic, Ages, Chain, Execute
    PROVE  Chain'
<1> SUFFICES ASSUME faults'.lost = 0, faults'.silent = 0 PROVE Linked'
  BY DEF Chain
<1>1. faults' = faults /\ waiting' = waiting /\ lag' = lag
  BY DEF Execute, mainVars
<1>2. Linked /\ W' = W /\ W \in Nat
  BY <1>1 DEF Chain, W
<1>0. PICK n \in Nat : n = Len(answers)
  BY QueueLengths
<1>3. /\ Len(line) \in Nat \ {0} /\ Len(line') = Len(line) - 1
      /\ Len(answers') = n + 1 /\ n \in Nat
      /\ \A i \in 1 .. n : answers'[i] = answers[i]
      /\ answers'[n + 1].real
      /\ answers'[n + 1].age = line[1].age
  <2>1. StatusOf(Head(line)) \in Statuses
    BY DEF StatusOf, Statuses
  <2> QED BY <1>0, <2>1, AnsweredHead DEF Execute
<1>4. answers'[n + 1].age = Len(line) - 1
  BY <1>3 DEF Ages
<1>5. (\A i \in 1 .. n : answers[i].age \in Nat) /\ lag \in Nat
  BY <1>0, QueueLengths DEF Basic, Types
<1>6. ASSUME NEW i \in 0 .. n, NEW k \in 0 .. n + 1, NoneBetween(i, k)'
      PROVE  NoneBetween(i, k)
  BY <1>0, <1>3, <1>6 DEF NoneBetween
<1>7. ASSUME NEW i \in 0 .. n PROVE ~NoneBetween(i, n + 2)'
  BY <1>0, <1>3 DEF NoneBetween
<1>8. \A i \in 1 .. n + 1 :
          answers'[i].real /\ NoneBetween(i, n + 2)' =>
              answers'[i].age = Len(line')
  <2> SUFFICES ASSUME NEW i \in 1 .. n + 1, NoneBetween(i, n + 2)'
               PROVE  answers'[i].age = Len(line')
    OBVIOUS
  <2>1. i = n + 1
    BY <1>3, <1>7
  <2> QED BY <1>3, <1>4, <2>1
<1>9. \A i, k \in 1 .. n + 1 :
          i < k /\ answers'[i].real /\ answers'[k].real /\ NoneBetween(i, k)' =>
              answers'[i].age = answers'[k].age + 1
  <2> SUFFICES ASSUME NEW i \in 1 .. n + 1, NEW k \in 1 .. n + 1, i < k,
                      answers'[i].real, answers'[k].real, NoneBetween(i, k)'
               PROVE  answers'[i].age = answers'[k].age + 1
    OBVIOUS
  <2>1. i \in 1 .. n /\ answers'[i] = answers[i] /\ NoneBetween(i, k)
    BY <1>3, <1>6
  <2>2. CASE k = n + 1
    <3>1. answers[i].age = Len(line)
      BY <1>0, <1>2, <2>1, <2>2 DEF Linked
    <3> QED BY <1>3, <1>4, <2>1, <2>2, <3>1
  <2>3. CASE k \in 1 .. n
    BY <1>0, <1>2, <1>3, <2>1, <2>3 DEF Linked
  <2> QED BY <1>3, <2>2, <2>3
<1>10. \A i \in 1 .. n + 1 :
          answers'[i].real /\ NoneBetween(0, i)' =>
              answers'[i].age + 1 >= lag' + W'
  <2> SUFFICES ASSUME NEW i \in 1 .. n + 1, answers'[i].real, NoneBetween(0, i)'
               PROVE  answers'[i].age + 1 >= lag' + W'
    OBVIOUS
  <2>1. NoneBetween(0, i)
    BY <1>3, <1>6
  <2>2. CASE i = n + 1
    <3>1. Len(line) >= lag + W
      BY <1>0, <1>2, <2>1, <2>2 DEF Linked
    <3> QED BY <1>1, <1>2, <1>3, <1>4, <1>5, <2>2, <3>1
  <2>3. CASE i \in 1 .. n
    BY <1>0, <1>1, <1>2, <1>3, <2>1, <2>3 DEF Linked
  <2> QED BY <1>3, <2>2, <2>3
<1>11. ~NoneBetween(0, n + 2)'
  BY <1>3, <1>7
<1>12. Len(answers') + 1 = n + 2
  BY <1>3
<1> QED BY <1>0, <1>3, <1>8, <1>9, <1>10, <1>11, <1>12 DEF Linked

LEMMA MakeUpChain ==
    ASSUME Basic, Chain, MakeUp, UNCHANGED <<waiting, lag>>
    PROVE  Chain'
<1>1. /\ line' = line /\ faults'.lost = faults.lost
      /\ faults'.silent = faults.silent
  BY FaultCounts DEF MakeUp
<1> SUFFICES ASSUME faults'.lost = 0, faults'.silent = 0 PROVE Linked'
  BY DEF Chain
<1>0. PICK n \in Nat : n = Len(answers)
  BY QueueLengths
<1>2. Linked /\ W' = W
  BY <1>1 DEF Chain, W
<1>3. /\ Len(answers') = n + 1 /\ n \in Nat
      /\ \A i \in 1 .. n : answers'[i] = answers[i]
      /\ ~answers'[n + 1].real
  <2>1. PICK s \in Statuses : Answer(s, FALSE, 0)
    BY DEF MakeUp
  <2> QED BY <1>0, <2>1, AnswerQueued
<1>4. ASSUME NEW i, NEW k, NoneBetween(i, k)'
      PROVE  NoneBetween(i, k)
  BY <1>0, <1>3, <1>4 DEF NoneBetween
<1>5. ASSUME NEW i \in 0 .. n, NoneBetween(i, n + 2)'
      PROVE  NoneBetween(i, n + 1)
  BY <1>0, <1>3, <1>5 DEF NoneBetween
<1>6. \A i \in 1 .. n + 1 : answers'[i].real => i \in 1 .. n /\ answers'[i] = answers[i]
  BY <1>3
<1>7. \A i \in 1 .. n + 1 :
          answers'[i].real /\ NoneBetween(i, n + 2)' =>
              answers'[i].age = Len(line')
  BY <1>0, <1>1, <1>2, <1>3, <1>5, <1>6 DEF Linked
<1>8. \A i, k \in 1 .. n + 1 :
          i < k /\ answers'[i].real /\ answers'[k].real /\ NoneBetween(i, k)' =>
              answers'[i].age = answers'[k].age + 1
  BY <1>0, <1>2, <1>4, <1>6 DEF Linked
<1>9. \A i \in 1 .. n + 1 :
          answers'[i].real /\ NoneBetween(0, i)' =>
              answers'[i].age + 1 >= lag' + W'
  BY <1>0, <1>2, <1>4, <1>6 DEF Linked
<1>10. NoneBetween(0, n + 2)' => Len(line') >= lag' + W'
  BY <1>0, <1>1, <1>2, <1>3, <1>5 DEF Linked
<1>11. Len(answers') + 1 = n + 2
  BY <1>3
<1> QED BY <1>3, <1>7, <1>8, <1>9, <1>10, <1>11 DEF Linked

LEMMA ResponseChain ==
    ASSUME Basic, Chain, GetResponse
    PROVE  Chain'
<1>0. PICK n \in Nat : n = Len(answers)
  BY QueueLengths
<1>1. /\ n \in Nat \ {0} /\ Len(answers') = n - 1
      /\ \A i \in 1 .. n - 1 : answers'[i] = answers[i + 1]
      /\ lag' = IF answers[1].real THEN answers[1].age ELSE lag
      /\ waiting /\ waiting' = FALSE
      /\ UNCHANGED <<line, faults>>
  BY <1>0, ResponseTaken
<1> SUFFICES ASSUME faults'.lost = 0, faults'.silent = 0 PROVE Linked'
  BY DEF Chain
<1>2. Linked /\ W = 1 /\ W' = 0
  BY <1>1 DEF Chain, W
<1>3. /\ \A i \in 1 .. n : answers[i].age \in Nat
      /\ Len(line) \in Nat /\ lag \in Nat
  BY <1>0, QueueLengths DEF Basic, Types
<1>4. ASSUME NEW i \in 0 .. n, NEW k \in 0 .. n, NoneBetween(i, k)'
      PROVE  NoneBetween(i + 1, k + 1)
  <2> SUFFICES ASSUME NEW j \in 1 .. n, i + 1 < j, j < k + 1
               PROVE  ~answers[j].real
    BY <1>0 DEF NoneBetween
  <2>1. j - 1 \in 1 .. n - 1 /\ i < j - 1 /\ j - 1 < k /\ (j - 1) + 1 = j
    BY <1>1
  <2>2. ~answers'[j - 1].real
    BY <1>0, <1>1, <1>4, <2>1 DEF NoneBetween
  <2> QED BY <1>1, <2>1, <2>2
<1>5. ASSUME NEW k \in 0 .. n, NoneBetween(0, k)', ~answers[1].real
      PROVE  NoneBetween(0, k + 1)
  <2>1. NoneBetween(1, k + 1)
    <3>1. 0 \in 0 .. n /\ 0 + 1 = 1
      BY <1>1
    <3> QED BY <1>4, <1>5, <3>1
  <2> QED BY <1>0, <1>1, <1>5, <2>1 DEF NoneBetween
<1>6. \A i \in 1 .. n - 1 : i + 1 \in 1 .. n /\ answers'[i] = answers[i + 1]
  BY <1>1
<1>7. \A i \in 1 .. n - 1 :
          answers'[i].real /\ NoneBetween(i, n)' => answers'[i].age = Len(line')
  <2> SUFFICES ASSUME NEW i \in 1 .. n - 1, answers'[i].real, NoneBetween(i, n)'
               PROVE  answers'[i].age = Len(line')
    OBVIOUS
  <2>1. NoneBetween(i + 1, n + 1)
    BY <1>1, <1>4
  <2> QED BY <1>0, <1>1, <1>2, <1>6, <2>1 DEF Linked
<1>8. \A i, k \in 1 .. n - 1 :
          i < k /\ answers'[i].real /\ answers'[k].real /\ NoneBetween(i, k)' =>
              answers'[i].age = answers'[k].age + 1
  <2> SUFFICES ASSUME NEW i \in 1 .. n - 1, NEW k \in 1 .. n - 1, i < k,
                      answers'[i].real, answers'[k].real, NoneBetween(i, k)'
               PROVE  answers'[i].age = answers'[k].age + 1
    OBVIOUS
  <2>1. NoneBetween(i + 1, k + 1) /\ i + 1 < k + 1
    BY <1>1, <1>4
  <2> QED BY <1>0, <1>2, <1>6, <2>1 DEF Linked
<1>9. \A i \in 1 .. n - 1 :
          answers'[i].real /\ NoneBetween(0, i)' =>
              answers'[i].age + 1 >= lag' + W'
  <2> SUFFICES ASSUME NEW i \in 1 .. n - 1, answers'[i].real, NoneBetween(0, i)'
               PROVE  answers'[i].age + 1 >= lag'
    BY <1>1, <1>2, <1>3, <1>6
  <2>1. CASE answers[1].real
    <3>1. NoneBetween(1, i + 1)
      <4>1. 0 \in 0 .. n /\ i \in 0 .. n /\ 0 + 1 = 1
        BY <1>1
      <4> QED BY <1>4, <4>1
    <3>2. 1 \in 1 .. n /\ 1 < i + 1 /\ i + 1 \in 1 .. n
      BY <1>1
    <3>3. answers[1].age = answers[i + 1].age + 1
      BY <1>0, <1>2, <1>6, <2>1, <3>1, <3>2 DEF Linked
    <3> QED BY <1>1, <1>3, <1>6, <2>1, <3>2, <3>3
  <2>2. CASE ~answers[1].real
    <3>1. NoneBetween(0, i + 1)
      BY <1>1, <1>5, <2>2
    <3>2. answers[i + 1].age + 1 >= lag + 1
      BY <1>0, <1>2, <1>6, <3>1 DEF Linked
    <3> QED BY <1>1, <1>3, <1>6, <2>2, <3>2
  <2> QED BY <2>1, <2>2
<1>10. NoneBetween(0, n)' => Len(line') >= lag' + W'
  <2> SUFFICES ASSUME NoneBetween(0, n)' PROVE Len(line) >= lag'
    <3>1. lag' \in Nat
      BY <1>1, <1>3
    <3> QED BY <1>1, <1>2, <1>3, <3>1
  <2>1. CASE answers[1].real
    <3>1. NoneBetween(1, n + 1)
      <4>1. 0 \in 0 .. n /\ n \in 0 .. n /\ 0 + 1 = 1
        BY <1>1
      <4> QED BY <1>4, <4>1
    <3>2. answers[1].age = Len(line)
      BY <1>0, <1>1, <1>2, <2>1, <3>1 DEF Linked
    <3> QED BY <1>1, <1>3, <2>1, <3>2
  <2>2. CASE ~answers[1].real
    <3>1. NoneBetween(0, n + 1)
      BY <1>1, <1>5, <2>2
    <3>2. Len(line) >= lag + 1
      BY <1>0, <1>2, <3>1 DEF Linked
    <3> QED BY <1>1, <1>3, <2>2, <3>2
  <2> QED BY <2>1, <2>2
<1>11. Len(answers') + 1 = n
  BY <1>1
<1> QED BY <1>1, <1>7, <1>8, <1>9, <1>10, <1>11 DEF Linked

LEMMA StepChain == Basic /\ Ages /\ Chain /\ [Next]_vars => Chain'
<1> SUFFICES ASSUME Basic, Ages, Chain, [Next]_vars PROVE Chain'
  OBVIOUS
<1>1. CASE \/ \E c \in HostCommands : Begin(c)
           \/ FilterEnd \/ LocalStep \/ ActionThread \/ UNCHANGED vars
  BY <1>1, StandingQueues DEF QueuesStand, Chain, Linked, NoneBetween, W
<1>2. CASE Timeout
  <2>1. /\ Len(answers) = 0 /\ waiting /\ waiting' = FALSE
        /\ UNCHANGED <<line, answers, lag>>
        /\ faults'.lost = faults.lost /\ faults'.silent = faults.silent
    BY <1>2, TimeoutQueues
  <2>2. W = 1 /\ W' = 0 /\ Len(line) \in Nat /\ lag \in Nat
    BY <2>1, QueueLengths DEF W, Basic, Types
  <2> QED BY <2>1, <2>2 DEF Chain, Linked, NoneBetween
<1>3. CASE Fault
  <2>1. waiting' = waiting /\ lag' = lag
    BY <1>3 DEF Fault, mainVars
  <2>2. CASE Lose \/ Refuse \/ LoseAnswer
    BY <2>2, FaultCounts, FaultTypes DEF Chain
  <2>3. CASE MakeUp
    BY <2>1, <2>3, MakeUpChain
  <2> QED BY <1>3, <2>2, <2>3 DEF Fault
<1> QED
  BY <1>1, <1>2, <1>3, SendChain, ExecuteChain, ResponseChain DEF Next, Main

\* The command main takes an answer for is later than before, or no earlier.
LEMMA NoEarlier ==
    ASSUME Basic, Chain, [Next]_vars, lag' < lag
    PROVE  faults.lost + faults.silent > 0
<1>1. CASE GetResponse
  <2>1. /\ Len(answers) \in Nat \ {0} /\ waiting
        /\ lag' = IF answers[1].real THEN answers[1].age ELSE lag
    BY <1>1, ResponseTaken
  <2>2. /\ \A i \in 1 .. Len(answers) : answers[i].age \in Nat
        /\ lag \in Nat /\ faults.lost \in Nat /\ faults.silent \in Nat
    BY QueueLengths, FaultTypes DEF Basic, Types
  <2>3. NoneBetween(0, 1)
    BY <2>1 DEF NoneBetween
  <2>4. answers[1].real
    BY <2>1, <2>2
  <2>5. ASSUME Linked PROVE answers[1].age + 1 >= lag + 1
    BY <2>1, <2>3, <2>4, <2>5 DEF Linked, W
  <2>6. ~Linked
    BY <2>1, <2>2, <2>4, <2>5
  <2> QED BY <2>2, <2>6 DEF Chain
<1>2. CASE ~GetResponse
  <2>1. lag \in Nat
    BY DEF Basic, Types
  <2>2. CASE \/ \E c \in HostCommands : Begin(c)
             \/ FilterEnd \/ LocalStep \/ ActionThread \/ UNCHANGED vars
    BY <2>1, <2>2, StandingQueues DEF QueuesStand
  <2>3. CASE SendCommand \/ Timeout \/ Execute \/ Fault
    <3>1. lag' = lag
      BY <2>3 DEF SendCommand, Timeout, Execute, Fault, mainVars
    <3> QED BY <2>1, <3>1
  <2> QED BY <1>2, <2>2, <2>3 DEF Next, Main
<1> QED BY <1>1, <1>2

(***************************************************************************)
(* Known: only a gateway without ERP2 says NOT_SUPPORTED; and when nothing *)
(* is late or made up, all that is under way in the start loop is the      *)
(* command main waits for, and such a gateway never says OK to a mode.     *)
(***************************************************************************)
InStep ==
    /\ phase = "run" => erp1gw
    /\ phase = "start" =>
          /\ \A j \in 1 .. Len(line) : line[j].op = Head(todo)
          /\ Head(todo) = "START_MODE" =>
                \A i \in 1 .. Len(answers) : answers[i].status # "OK"

Known ==
    /\ \A i \in 1 .. Len(answers) :
          answers[i].real /\ answers[i].status = "NOT_SUPPORTED" =>
              ~gateway.erp2
    /\ faults.made = 0 =>
          /\ \A i \in 1 .. Len(answers) : answers[i].real
          /\ erp1gw => ~gateway.erp2
          /\ faults.slow = 0 /\ ~gateway.erp2 => InStep

LEMMA InitKnown == Init => Known
<1> SUFFICES ASSUME Init PROVE Known
  OBVIOUS
<1>1. Basic /\ line = <<>> /\ answers = <<>>
  BY InitBasic DEF Init
<1>2. Len(line) = 0 /\ Len(answers) = 0
  BY <1>1, QueueLengths
<1>3. erp1gw = FALSE /\ phase = "start"
  BY DEF Init
<1> QED BY <1>2, <1>3 DEF Known, InStep

\* Nothing of what the start loop goes by changes.
LEMMA StandingKnown ==
    ASSUME Basic, Known,
           \/ \E c \in HostCommands : Begin(c)
           \/ FilterEnd \/ LocalStep \/ ActionThread \/ UNCHANGED vars
    PROVE  Known'
<1>1. UNCHANGED <<line, answers, faults>>
  BY StandingQueues DEF QueuesStand
<1>2. /\ UNCHANGED <<gateway, erp1gw, phase>>
      /\ phase = "start" => todo' = todo
  <2>1. ASSUME NEW c \in HostCommands, Begin(c)
        PROVE  UNCHANGED <<gateway, erp1gw, phase>> /\ phase = "run"
    BY <2>1 DEF Begin, MainIdle, gateVars
  <2>2. ASSUME FilterEnd
        PROVE  UNCHANGED <<gateway, erp1gw, phase>> /\ phase = "run"
    BY <2>2 DEF FilterEnd, gateVars
  <2>3. ASSUME LocalStep
        PROVE  UNCHANGED <<gateway, erp1gw, phase>> /\ phase = "run"
    BY <2>3 DEF LocalStep, gateVars
  <2>4. ASSUME ActionThread
        PROVE  UNCHANGED <<gateway, erp1gw, phase, todo>>
    BY <2>4 DEF ActionThread, Look, CheckMode, EoSetEep, ReadCsv, EndMark, EoReadControl,
                ActionFrame, mainVars, gateVars
  <2>5. ASSUME UNCHANGED vars
        PROVE  UNCHANGED <<gateway, erp1gw, phase, todo>>
    BY <2>5 DEF vars, mainVars, gateVars
  <2> QED BY <2>1, <2>2, <2>3, <2>4, <2>5
<1> QED BY <1>1, <1>2 DEF Known, InStep

LEMMA SendKnown ==
    ASSUME Basic, Ages, Known, SendCommand
    PROVE  Known'
<1>1. /\ Len(line') = Len(line) + 1 /\ Len(answers') = Len(answers)
      /\ line'[Len(line) + 1] = New
      /\ \A i \in 1 .. Len(answers) : /\ answers'[i].real = answers[i].real
                                      /\ answers'[i].status = answers[i].status
      /\ UNCHANGED <<phase, todo, erp1gw, gateway, faults>> /\ ~waiting
  BY SendQueues
<1>2. /\ Len(line) \in Nat /\ Len(answers) \in Nat
  BY QueueLengths
<1>3. faults.slow = 0 /\ faults.made = 0 => Len(line) = 0 /\ Len(answers) = 0
  BY <1>1, <1>2 DEF Ages, Slack, W
<1>4. faults.slow = 0 /\ faults.made = 0 => Len(line') = 1 /\ line'[1].op = Head(todo)
  BY <1>1, <1>3 DEF New
<1>5. faults'.made = 0 /\ faults'.slow = 0 /\ ~gateway'.erp2 => InStep'
  <2> SUFFICES ASSUME faults.made = 0, faults.slow = 0, ~gateway.erp2
               PROVE  InStep'
    BY <1>1
  <2>1. Len(answers') = 0 /\ \A j \in 1 .. Len(line') : line'[j].op = Head(todo')
    BY <1>1, <1>3, <1>4
  <2>2. phase' = "run" => erp1gw'
    BY <1>1 DEF Known, InStep
  <2> QED BY <2>1, <2>2 DEF InStep
<1> QED BY <1>1, <1>5 DEF Known

\* The line goes on: an answer, if there is one more, is the gateway's to
\* the head of the line, or it is counted.
LEMMA LineKnown ==
    ASSUME Basic, Known, Execute \/ Fault
    PROVE  Known'
<1>1. UNCHANGED <<phase, todo, erp1gw>>
  BY DEF Execute, Fault, mainVars
<1>2. /\ faults.slow \in Nat /\ faults.made \in Nat /\ Len(answers) \in Nat
      /\ Len(line) \in Nat /\ gateway \in Gateways
  BY FaultTypes, QueueLengths DEF Basic, Types
<1>3. ASSUME line # <<>>, line' = Tail(line), faults'.slow = faults.slow,
             faults'.made = faults.made, gateway'.erp2 = gateway.erp2,
             \/ answers' = answers
             \/ \E s \in Statuses :
                   /\ Answer(s, TRUE, Head(line).age)
                   /\ s = "NOT_SUPPORTED" => ~gateway.erp2
                   /\ Head(line).op = "START_MODE" /\ ~gateway.erp2 => s # "OK"
      PROVE  Known'
  <2>1. /\ Len(line) \in Nat \ {0} /\ Len(line') = Len(line) - 1
        /\ \A j \in 1 .. Len(line) - 1 : line'[j] = line[j + 1]
        /\ Head(line) = line[1]
    BY <1>3, TakenFromLine
  <2>2. ASSUME NEW o, \A j \in 1 .. Len(line) : line[j].op = o
        PROVE  \A j \in 1 .. Len(line') : line'[j].op = o
    <3> SUFFICES ASSUME NEW j \in 1 .. Len(line) - 1 PROVE line'[j].op = o
      BY <2>1
    <3>1. j + 1 \in 1 .. Len(line) /\ line'[j] = line[j + 1]
      BY <2>1
    <3> QED BY <2>2, <3>1
  <2>3. CASE answers' = answers
    BY <1>1, <1>3, <2>2, <2>3 DEF Known, InStep
  <2>4. CASE \E s \in Statuses :
                /\ Answer(s, TRUE, Head(line).age)
                /\ s = "NOT_SUPPORTED" => ~gateway.erp2
                /\ Head(line).op = "START_MODE" /\ ~gateway.erp2 => s # "OK"
    <3>1. PICK s \in Statuses :
                /\ Answer(s, TRUE, Head(line).age)
                /\ s = "NOT_SUPPORTED" => ~gateway.erp2
                /\ Head(line).op = "START_MODE" /\ ~gateway.erp2 => s # "OK"
      BY <2>4
    <3>2. /\ Len(answers') = Len(answers) + 1
          /\ \A i \in 1 .. Len(answers) : answers'[i] = answers[i]
          /\ answers'[Len(answers) + 1].status = s
          /\ answers'[Len(answers) + 1].real
      BY <1>3, <3>1, AnsweredHead
    <3>3. \A i \in 1 .. Len(answers') :
             i \in 1 .. Len(answers) \/ i = Len(answers) + 1
      BY <1>2, <3>2
    <3>4. \A i \in 1 .. Len(answers') :
              answers'[i].real /\ answers'[i].status = "NOT_SUPPORTED" =>
                  ~gateway'.erp2
      BY <1>3, <3>1, <3>2, <3>3 DEF Known
    <3>5. faults.made = 0 => \A i \in 1 .. Len(answers') : answers'[i].real
      BY <3>2, <3>3 DEF Known
    <3>6. faults.made = 0 /\ faults.slow = 0 /\ ~gateway.erp2 => InStep'
      <4> SUFFICES ASSUME faults.made = 0, faults.slow = 0, ~gateway.erp2
                   PROVE  InStep'
        OBVIOUS
      <4>1. InStep
        BY DEF Known
      <4>2. phase = "start" => \A j \in 1 .. Len(line') : line'[j].op = Head(todo)
        BY <2>2, <4>1 DEF InStep
      <4>3. phase = "start" /\ Head(todo) = "START_MODE" => s # "OK"
        BY <2>1, <3>1, <4>1 DEF InStep
      <4>4. phase = "start" /\ Head(todo) = "START_MODE" =>
                \A i \in 1 .. Len(answers') : answers'[i].status # "OK"
        BY <3>2, <3>3, <4>1, <4>3 DEF InStep
      <4> QED BY <1>1, <4>1, <4>2, <4>4 DEF InStep
    <3>7. faults.made = 0 /\ erp1gw => ~gateway.erp2
      BY DEF Known
    <3> QED BY <1>1, <1>3, <3>4, <3>5, <3>6, <3>7 DEF Known
  <2> QED BY <1>3, <2>3, <2>4
<1>4. line # <<>> => Obey(gateway, Head(line)).erp2 = gateway.erp2
  BY <1>2, TakenFromLine, ObeyKeeps, Shorter DEF Basic, Types
<1>5. CASE Execute
  <2>1. /\ StatusOf(Head(line)) \in Statuses
        /\ StatusOf(Head(line)) = "NOT_SUPPORTED" => ~gateway.erp2
        /\ Head(line).op = "START_MODE" /\ ~gateway.erp2 =>
               StatusOf(Head(line)) # "OK"
    BY DEF StatusOf, Statuses
  <2> HIDE DEF StatusOf
  <2>2. /\ line # <<>> /\ line' = Tail(line) /\ faults' = faults
        /\ gateway' = Obey(gateway, Head(line))
        /\ Answer(StatusOf(Head(line)), TRUE, Head(line).age)
    BY <1>5 DEF Execute
  <2> QED BY <1>3, <1>4, <2>1, <2>2
<1>6. CASE Lose \/ LoseAnswer
  BY <1>3, <1>4, <1>6, FaultCounts DEF Lose, LoseAnswer
<1>7. CASE Refuse
  <2>1. "ERROR" \in Statuses
    BY DEF Statuses
  <2> QED BY <1>3, <1>7, <2>1, FaultCounts DEF Refuse
<1>8. CASE MakeUp
  <2>1. PICK s \in Statuses : Answer(s, FALSE, 0)
    BY <1>8 DEF MakeUp
  <2>2. /\ Len(answers') = Len(answers) + 1
        /\ \A i \in 1 .. Len(answers) : answers'[i] = answers[i]
        /\ ~answers'[Len(answers) + 1].real
    BY <2>1, AnswerQueued
  <2>3. gateway' = gateway /\ faults'.made = faults.made + 1
    BY <1>8, FaultCounts DEF MakeUp
  <2>4. faults'.made # 0
    BY <1>2, <2>3
  <2>5. \A i \in 1 .. Len(answers') :
           i \in 1 .. Len(answers) \/ i = Len(answers) + 1
    BY <1>2, <2>2
  <2> QED BY <2>2, <2>3, <2>4, <2>5 DEF Known
<1> QED BY <1>5, <1>6, <1>7, <1>8 DEF Fault

LEMMA ResponseKnown ==
    ASSUME Basic, Ages, Ages', Known, GetResponse \/ Timeout
    PROVE  Known'
<1>1. /\ faults.slow \in Nat /\ faults.made \in Nat /\ Len(answers) \in Nat
      /\ Len(line) \in Nat
  BY FaultTypes, QueueLengths
<1>2. /\ waiting' = FALSE /\ gateway' = gateway
      /\ faults'.made = faults.made /\ faults'.slow >= faults.slow
      /\ \A i \in 1 .. Len(answers') :
            \E k \in 1 .. Len(answers) : answers'[i] = answers[k]
      /\ Len(line') \in Nat /\ Len(answers') \in Nat
      /\ faults'.slow \in Nat
  <2>1. CASE GetResponse
    <3>1. /\ Len(answers) \in Nat \ {0} /\ Len(answers') = Len(answers) - 1
          /\ \A i \in 1 .. Len(answers) - 1 : answers'[i] = answers[i + 1]
          /\ waiting' = FALSE
          /\ UNCHANGED <<line, faults, gateway>>
      BY <2>1, ResponseTaken
    <3>2. \A i \in 1 .. Len(answers) - 1 : i + 1 \in 1 .. Len(answers)
      BY <3>1
    <3>3. \A i \in 1 .. Len(answers') :
            \E k \in 1 .. Len(answers) : answers'[i] = answers[k]
      BY <3>1, <3>2
    <3>4. Len(answers') \in Nat
      BY <3>1
    <3> QED BY <1>1, <3>1, <3>3, <3>4
  <2>2. CASE Timeout
    BY <1>1, <2>2, TimeoutQueues
  <2> QED BY <2>1, <2>2
<1>3. faults'.slow = 0 /\ faults.made = 0 => Len(line') = 0 /\ Len(answers') = 0
  BY <1>1, <1>2 DEF Ages, Slack, W
<1>4. \/ \E i \in 1 .. Len(answers) :
             Respond(answers[i].status) /\ answers[i] \in Answered
      \/ Respond("TIMEOUT")
  <2>1. GetResponse => 1 \in 1 .. Len(answers)
    BY ResponseTaken
  <2> QED BY <2>1, ResponseTaken, TimeoutQueues
<1>5. PICK st : /\ Respond(st)
                /\ \/ \E i \in 1 .. Len(answers) : st = answers[i].status
                   \/ st = "TIMEOUT"
  BY <1>4
<1>6. AgainReset(st) \/ NowMode(st) \/ LeaveStart(st) \/ GoOn
  <2>1. waiting /\ phase # "exited"
    BY DEF GetResponse, Timeout
  <2> QED BY <1>5, <2>1, RespondWays
<1>7. faults.made = 0 /\ st = "NOT_SUPPORTED" => ~gateway.erp2
  BY <1>5 DEF Known
<1>8. faults.made = 0 /\ faults.slow = 0 /\ ~gateway.erp2 /\ phase = "start"
         /\ Head(todo) = "START_MODE" => st # "OK"
  BY <1>5 DEF Known, InStep
<1>9. faults'.made = 0 => (erp1gw' => ~gateway'.erp2)
  <2>1. erp1gw' = erp1gw \/ st = "NOT_SUPPORTED"
    BY <1>6 DEF AgainReset, NowMode, LeaveStart, GoOn
  <2> QED BY <1>2, <1>7, <2>1 DEF Known
<1>10. faults'.made = 0 /\ faults'.slow = 0 /\ ~gateway'.erp2 => InStep'
  <2> SUFFICES ASSUME faults'.made = 0, faults'.slow = 0, ~gateway'.erp2
               PROVE  InStep'
    OBVIOUS
  <2>1. faults.made = 0 /\ faults.slow = 0 /\ ~gateway.erp2 /\ InStep
    BY <1>1, <1>2 DEF Known
  <2>2. Len(line') = 0 /\ Len(answers') = 0
    BY <1>2, <1>3
  <2>3. phase' = "run" => erp1gw'
    <3>1. CASE AgainReset(st)
      BY <3>1 DEF AgainReset
    <3>2. CASE NowMode(st)
      BY <3>2 DEF NowMode
    <3>3. CASE LeaveStart(st)
      BY <1>8, <2>1, <3>3 DEF LeaveStart
    <3>4. CASE GoOn
      BY <2>1, <3>4 DEF GoOn, InStep
    <3> QED BY <1>6, <3>1, <3>2, <3>3, <3>4
  <2> QED BY <2>2, <2>3 DEF InStep
<1>11. /\ \A i \in 1 .. Len(answers') :
             answers'[i].real /\ answers'[i].status = "NOT_SUPPORTED" =>
                 ~gateway'.erp2
       /\ faults'.made = 0 => \A i \in 1 .. Len(answers') : answers'[i].real
  BY <1>2 DEF Known
<1> QED BY <1>9, <1>10, <1>11 DEF Known

LEMMA StepKnown == Basic /\ Ages /\ Known /\ [Next]_vars => Known'
<1> SUFFICES ASSUME Basic, Ages, Known, [Next]_vars PROVE Known'
  OBVIOUS
<1>1. Ages'
  BY StepAges
<1> QED
  BY <1>1, StandingKnown, SendKnown, LineKnown, ResponseKnown DEF Next, Main

\* What the start loop found out of the gateway is true.
LEMMA KnownIsTrue == Known => StartKnows
BY DEF Known, InStep, StartKnows

(***************************************************************************)
(* How todo changes.                                                       *)
(***************************************************************************)
LEMMA TodoChanges ==
    ASSUME Basic, [Next]_vars
    PROVE  \/ todo' = todo
           \/ /\ todo # <<>> /\ todo' = Tail(todo)
              /\ LocalStep \/ Head(todo) \in Commands
           \/ /\ ~Has(todo', "CLEAR_TABLE") /\ Cleared(todo')
              /\ todo' # <<>> => Head(todo') # "MARK"
           \/ todo = <<>> /\ \E c \in HostCommands : todo' = Script[c]
<1>1. CASE SendCommand \/ ActionThread \/ Execute \/ Fault \/ UNCHANGED vars
  BY <1>1 DEF SendCommand, ActionThread, Look, CheckMode, EoSetEep, ReadCsv,
              EndMark, EoReadControl, ActionFrame, Execute, Fault, vars, mainVars
<1>2. ASSUME NEW c \in HostCommands, Begin(c)
      PROVE  todo = <<>> /\ todo' = Script[c]
  BY <1>2 DEF Begin, MainIdle
<1>3. CASE GetResponse \/ Timeout
  <2>1. PICK st : Respond(st)
    BY <1>3 DEF GetResponse, Timeout
  <2>2. waiting /\ phase # "exited"
    BY <1>3 DEF GetResponse, Timeout
  <2>3. AgainReset(st) \/ NowMode(st) \/ LeaveStart(st) \/ GoOn
    BY <2>1, <2>2, RespondWays
  <2>4. todo # <<>> /\ Head(todo) \in Commands
    BY <2>2 DEF Basic, Plan
  <2>5. CASE AgainReset(st)
    <3>1. todo' = <<"RESET">>
      BY <2>5 DEF AgainReset
    <3> QED BY <3>1 DEF Has, Cleared
  <2>6. CASE NowMode(st)
    <3>1. todo' = <<"START_MODE">>
      BY <2>6 DEF NowMode
    <3> QED BY <3>1 DEF Has, Cleared
  <2>7. CASE LeaveStart(st)
    BY <2>7, StartPlans DEF LeaveStart
  <2>8. CASE GoOn
    BY <2>4, <2>8 DEF GoOn
  <2> QED BY <2>3, <2>5, <2>6, <2>7, <2>8
<1>4. CASE FilterEnd
  BY <1>4 DEF FilterEnd, Commands
<1>5. CASE LocalStep
  <2>1. CASE Head(todo) = "APPLY" /\ count > 0
    <3>1. todo' = EoApplyFilter \o Tail(todo) /\ todo # <<>>
      BY <1>5, <2>1 DEF LocalStep
    <3>2. Tail(todo) = <<>>
      <4>1. Tail(todo) # <<>> => <<"APPLY", Head(Tail(todo))>> \in Follows
        BY <2>1, <3>1, TailOrdered DEF Basic, Types, Plan
      <4> QED BY <4>1 DEF Follows
    <3>3. EoApplyFilter \in Seq(Ops) /\ <<>> \in Seq(Ops)
      BY FilterOrdered
    <3>4. todo' = EoApplyFilter
      BY <3>1, <3>2, <3>3, Concat
    <3> QED BY <3>4, FilterOrdered
  <2>2. CASE ~(Head(todo) = "APPLY" /\ count > 0)
    BY <1>5, <2>2 DEF LocalStep
  <2> QED BY <2>1, <2>2
<1> QED BY <1>1, <1>2, <1>3, <1>4, <1>5 DEF Next, Main

\* The tail of a plan clears the tables no more often.
LEMMA TailCleared ==
    ASSUME NEW s \in Seq(Ops), s # <<>>, Cleared(s)
    PROVE  /\ Cleared(Tail(s))
           /\ \A e : Has(Tail(s), e) => Has(s, e)
           /\ \A e : Has(s, e) => Head(s) = e \/ Has(Tail(s), e)
           /\ Head(s) = "CLEAR_TABLE" => ~Has(Tail(s), "CLEAR_TABLE")
<1>1. /\ Len(s) \in Nat \ {0} /\ Len(Tail(s)) = Len(s) - 1 /\ Head(s) = s[1]
      /\ \A i \in 1 .. Len(s) - 1 : Tail(s)[i] = s[i + 1]
  BY Shorter
<1>2. \A i \in 1 .. Len(s) - 1 : i + 1 \in 1 .. Len(s)
  BY <1>1
<1>3. \A i \in 2 .. Len(s) : i - 1 \in 1 .. Len(s) - 1 /\ Tail(s)[i - 1] = s[i]
  BY <1>1
<1>4. Cleared(Tail(s))
  <2>1. ASSUME NEW i \in 1 .. Len(s) - 1, NEW j \in 1 .. Len(s) - 1,
               Tail(s)[i] = "CLEAR_TABLE", i < j
        PROVE  Tail(s)[j] \notin {"CLEAR_TABLE", "TRUNCATE", "DEL_ALL"}
    <3>1. i + 1 < j + 1 /\ s[i + 1] = "CLEAR_TABLE"
      BY <1>1, <2>1
    <3> QED BY <1>1, <1>2, <3>1 DEF Cleared
  <2>2. ASSUME NEW i \in 1 .. Len(s) - 1, NEW j \in 1 .. Len(s) - 1,
               Tail(s)[i] = "ADD", j < i
        PROVE  Tail(s)[j] \in {"VERSION", "DEL_ALL"}
    <3>1. j + 1 < i + 1 /\ s[i + 1] = "ADD"
      BY <1>1, <2>2
    <3> QED BY <1>1, <1>2, <3>1 DEF Cleared
  <2>3. ASSUME NEW i \in 1 .. Len(s) - 1, NEW j \in 1 .. Len(s) - 1,
               Tail(s)[i] = "VERSION"
        PROVE  Tail(s)[j] # "DISABLE"
    BY <1>1, <1>2, <2>3 DEF Cleared
  <2>4. ASSUME NEW i \in 1 .. Len(s) - 1, NEW j \in 1 .. Len(s) - 1,
               Tail(s)[i] = "MARK"
        PROVE  Tail(s)[j] # "CLEAR_TABLE"
    BY <1>1, <1>2, <2>4 DEF Cleared
  <2> QED BY <1>1, <2>1, <2>2, <2>3, <2>4 DEF Cleared
<1>5. \A e : Has(Tail(s), e) => Has(s, e)
  BY <1>1, <1>2 DEF Has
<1>6. \A e : Has(s, e) => Head(s) = e \/ Has(Tail(s), e)
  <2> SUFFICES ASSUME NEW e, NEW i \in 1 .. Len(s), s[i] = e, Head(s) # e
               PROVE  Has(Tail(s), e)
    BY DEF Has
  <2>1. i \in 2 .. Len(s)
    BY <1>1
  <2> QED BY <1>1, <1>3, <2>1 DEF Has
<1>7. Head(s) = "CLEAR_TABLE" => ~Has(Tail(s), "CLEAR_TABLE")
  <2> SUFFICES ASSUME s[1] = "CLEAR_TABLE", NEW i \in 1 .. Len(s) - 1,
                      Tail(s)[i] = "CLEAR_TABLE"
               PROVE  FALSE
    BY <1>1 DEF Has
  <2>1. 1 < i + 1 /\ s[i + 1] = "CLEAR_TABLE" /\ i + 1 \in 1 .. Len(s)
        /\ 1 \in 1 .. Len(s)
    BY <1>1
  <2> QED BY <2>1 DEF Cleared
<1> QED BY <1>4, <1>5, <1>6, <1>7

\* The file has been emptied, the node table not yet.
Window == Has(todo, "CLEAR_TABLE") /\ ~Has(todo, "TRUNCATE")

LEMMA WindowOpens ==
    ASSUME Basic, Cleared(todo), [Next]_vars
    PROVE  /\ Cleared(todo)'
           /\ Window' => \/ Window
                         \/ LocalStep /\ Head(todo) = "TRUNCATE"
           /\ LocalStep /\ Head(todo) = "CLEAR_TABLE" => ~Window'
<1>1. todo \in Seq(Ops)
  BY DEF Basic, Types
<1>2. CASE todo' = todo
  <2>1. ~LocalStep \/ Head(todo) # "CLEAR_TABLE"
    <3> SUFFICES ASSUME LocalStep, Head(todo) = "CLEAR_TABLE" PROVE FALSE
      OBVIOUS
    <3>1. todo' = Tail(todo) /\ todo # <<>>
      BY DEF LocalStep
    <3>2. Len(todo) \in Nat \ {0} /\ Len(Tail(todo)) = Len(todo) - 1
      BY <1>1, <3>1, Shorter
    <3> QED BY <1>2, <3>1, <3>2
  <2> QED BY <1>2, <2>1 DEF Window, Cleared, Has
<1>3. CASE todo # <<>> /\ todo' = Tail(todo) /\ (LocalStep \/ Head(todo) \in Commands)
  <2>1. /\ Cleared(todo')
        /\ \A e : Has(todo', e) => Has(todo, e)
        /\ \A e : Has(todo, e) => Head(todo) = e \/ Has(todo', e)
        /\ Head(todo) = "CLEAR_TABLE" => ~Has(todo', "CLEAR_TABLE")
    BY <1>1, <1>3, TailCleared
  <2>2. Head(todo) = "TRUNCATE" => LocalStep
    BY <1>3 DEF Commands
  <2>3. Cleared(todo)' <=> Cleared(todo')
    BY DEF Cleared
  <2>4. Window' <=> Has(todo', "CLEAR_TABLE") /\ ~Has(todo', "TRUNCATE")
    BY DEF Window, Has
  <2> QED BY <2>1, <2>2, <2>3, <2>4 DEF Window
<1>4. CASE ~Has(todo', "CLEAR_TABLE") /\ Cleared(todo')
  BY <1>4 DEF Has, Cleared, Window
<1>5. CASE todo = <<>> /\ \E c \in HostCommands : todo' = Script[c]
  <2>1. PICK c \in HostCommands : todo' = Script[c]
    BY <1>5
  <2>2. /\ Cleared(todo')
        /\ Has(todo', "CLEAR_TABLE") => Has(todo', "TRUNCATE")
    BY <2>1, ScriptOrdered, HostAssumption
  <2>3. ~LocalStep
    BY <1>5 DEF LocalStep
  <2> QED BY <2>2, <2>3 DEF Window, Has, Cleared
<1> QED BY <1>2, <1>3, <1>4, <1>5, TodoChanges

(***************************************************************************)
(* The teach-in's steps, by what they do to job and tables.                *)
(***************************************************************************)
Looked(d) ==
    /\ job.at = "idle" /\ job'.at = "mode" /\ job'.id = d /\ ~Has(nodes, d)
    /\ UNCHANGED <<count, file, nodes, overlap, raced>>
Joined ==
    /\ job.at = "mode" /\ mode = "Register"
    /\ job'.at = "append" /\ job'.id = job.id
    /\ overlap' = (overlap \/ ~MainIdle)
    /\ raced' = (raced \/ Has(todo, "CLEAR_TABLE"))
    /\ UNCHANGED <<count, file, nodes>>
Left ==
    /\ job.at = "mode" /\ job'.at = "idle"
    /\ UNCHANGED <<count, file, nodes, overlap, raced>>
Appended ==
    /\ job.at = "append" /\ job'.at = "read" /\ job'.id = job.id
    /\ job.id \in Ids /\ file' \in {file, Append(file, job.id)}
    /\ UNCHANGED <<count, nodes, overlap, raced>>
Reread ==
    /\ job.at = "read" /\ job'.at = "end" /\ job'.csv = Len(file)
    /\ job'.id = job.id /\ nodes' = Filled(nodes, file)
    /\ UNCHANGED <<count, file, overlap, raced>>
Ended ==
    /\ job.at = "end" /\ job'.at = "count" /\ job'.csv = job.csv
    /\ job'.id = job.id /\ nodes' = MarkedAt(nodes, job.csv)
    /\ UNCHANGED <<count, file, overlap, raced>>
Counted ==
    /\ job.at = "count" /\ job'.at = "idle" /\ count' = job.csv
    /\ UNCHANGED <<file, nodes, overlap, raced>>

LEMMA TeachInWays ==
    ASSUME Basic, ActionThread
    PROVE  /\ \/ \E d \in Ids : Looked(d)
              \/ Joined \/ Left \/ Appended \/ Reread \/ Ended \/ Counted
           /\ phase # "exited"
           /\ UNCHANGED <<phase, todo, index, waiting, failures, modeSet, csv,
                          erp1gw, lag, mode, line, answers, gateway, faults>>
<1>1. /\ UNCHANGED <<phase, todo, index, waiting, failures, modeSet, csv, erp1gw,
                     lag, line, answers, gateway, faults, mode>>
      /\ phase # "exited"
  BY DEF ActionThread, ActionFrame, Look, CheckMode, EoSetEep, ReadCsv,
         EndMark, EoReadControl, mainVars, gateVars, tableVars
<1>2. /\ job \in {Idle} \cup [id : Ids, csv : Nat,
                              at : {"mode", "append", "read", "end", "count"}]
      /\ DOMAIN nodes = 1 .. Len(nodes) /\ DOMAIN todo = 1 .. Len(todo)
  BY LenProperties DEF Basic, Types
<1>3. job.at # "idle" => job \in [id : Ids, csv : Nat,
                                  at : {"mode", "append", "read", "end", "count"}]
  BY <1>2 DEF Idle
<1>4. Idle.at = "idle"
  BY DEF Idle
<1>5. ASSUME NEW d \in Ids, Look(d) PROVE Looked(d)
  BY <1>2, <1>4, <1>5 DEF Look, Looked, tableVars, raceVars, Has
<1>6. ASSUME CheckMode PROVE Joined \/ Left
  <2>1. CASE mode = "Register"
    <3>1. job' = [job EXCEPT !.at = "append"]
      BY <1>6, <2>1 DEF CheckMode
    <3>2. job'.at = "append" /\ job'.id = job.id
      BY <1>3, <1>6, <3>1 DEF CheckMode
    <3>3. overlap' = (overlap \/ ~MainIdle)
          /\ raced' = (raced \/ Has(todo, "CLEAR_TABLE"))
      BY <1>2, <1>6, <2>1 DEF CheckMode, Pending, Has
    <3>4. job.at = "mode" /\ UNCHANGED <<count, file, nodes>>
      BY <1>6 DEF CheckMode, tableVars
    <3> QED BY <2>1, <3>2, <3>3, <3>4 DEF Joined
  <2>2. CASE mode # "Register"
    <3>1. job.at = "mode" /\ UNCHANGED <<count, file, nodes, overlap, raced>>
      BY <1>6, <2>2 DEF CheckMode, tableVars
    <3>2. job' = Idle
      BY <1>6, <2>2 DEF CheckMode
    <3> QED BY <1>4, <3>1, <3>2 DEF Left
  <2> QED BY <2>1, <2>2
<1>7. ASSUME EoSetEep PROVE Appended
  <2>1. job'.at = "read" /\ job'.id = job.id /\ job.id \in Ids
    BY <1>3, <1>7 DEF EoSetEep
  <2>2. UNCHANGED <<count, nodes, overlap, raced>>
    BY <1>7 DEF EoSetEep, raceVars
  <2>3. job.at = "append" /\ file' \in {file, Append(file, job.id)}
    BY <1>7 DEF EoSetEep
  <2> QED BY <2>1, <2>2, <2>3 DEF Appended
<1>8. ASSUME ReadCsv PROVE Reread
  <2>1. job'.at = "end" /\ job'.csv = Len(file) /\ job'.id = job.id
    BY <1>3, <1>8 DEF ReadCsv
  <2>2. UNCHANGED <<count, file, overlap, raced>>
    BY <1>8 DEF ReadCsv, raceVars
  <2>3. job.at = "read" /\ nodes' = Filled(nodes, file)
    BY <1>8 DEF ReadCsv
  <2> QED BY <2>1, <2>2, <2>3 DEF Reread
<1>10. ASSUME EndMark PROVE Ended
  <2>1. job'.at = "count" /\ job'.csv = job.csv /\ job'.id = job.id
    BY <1>3, <1>10 DEF EndMark
  <2>2. UNCHANGED <<count, file, overlap, raced>>
    BY <1>10 DEF EndMark, raceVars
  <2>3. job.at = "end" /\ nodes' = MarkedAt(nodes, job.csv)
    BY <1>10 DEF EndMark
  <2> QED BY <2>1, <2>2, <2>3 DEF Ended
<1>9. ASSUME EoReadControl PROVE Counted
  <2>1. UNCHANGED <<file, nodes, overlap, raced>>
    BY <1>9 DEF EoReadControl, raceVars
  <2>2. job.at = "count" /\ count' = job.csv /\ job' = Idle
    BY <1>9 DEF EoReadControl
  <2> QED BY <1>4, <2>1, <2>2 DEF Counted
<1> QED BY <1>1, <1>5, <1>6, <1>7, <1>8, <1>9, <1>10 DEF ActionThread

(***************************************************************************)
(* Rows: a device the control file has is in the node table, unless its    *)
(* teach-in is about to read the file again; then no teach-in adds a line  *)
(* twice.  When CLEAR_TABLE empties the node table the file must be empty  *)
(* too, and what main has read must be all of the file when it writes its  *)
(* end mark; a teach-in that overlaps makes a line double, but no more:    *)
(* a device with two lines is in the table.                                *)
(***************************************************************************)
Once(s) == \A i, j \in 1 .. Len(s) : s[i] = s[j] => i = j
Twice(s) == \A i, j, k \in 1 .. Len(s) :
                s[i] = s[j] /\ s[j] = s[k] => i = j \/ j = k \/ i = k

\* Found in the table, and before the end mark a teach-in is about to write.
InTable(d) == \E i \in 1 .. Len(nodes) :
                  nodes[i] = d /\ (job.at = "end" => i <= job.csv)
Reads == job.at \in {"append", "read"}
Kept == Reads \/ \A i \in 1 .. Len(file) : InTable(file[i])
Seen == Reads \/ \A i, j \in 1 .. Len(file) :
                     file[i] = file[j] /\ i # j => InTable(file[i])
Apart == job.at \in {"mode", "append"} => ~Has(file, job.id)
Single == job.at \in {"mode", "append"} =>
              \A i, j \in 1 .. Len(file) :
                  file[i] = job.id /\ file[j] = job.id => i = j
Reach == job.at = "end" => Len(file) <= job.csv
Clean == Once(file) /\ Kept /\ Apart
Lines == Twice(file) /\ Seen /\ Single /\ Reach

\* Main has read lines, and not ended the table behind them.
Marking == todo # <<>> /\ Head(todo) = "MARK"
Marked ==
    /\ Kept
    /\ csv <= Len(file) /\ csv <= Len(nodes)
    /\ \A i \in 1 .. csv : nodes[i] = file[i]
    /\ job.at \in {"mode", "append"} =>
           \A i \in 1 .. Len(file) : file[i] = job.id => i <= csv
    /\ \A i, j \in 1 .. Len(file) : file[i] = file[j] /\ i < j => i <= csv

Rows ==
    /\ Cleared(todo)
    /\ Lines
    /\ Window => Clean
    /\ ~raced => /\ Clean
                 /\ Window => file = <<>> /\ job.at \in {"idle", "mode"}
    /\ Marking => Marked

\* A line more.
LEMMA OneMore ==
    ASSUME NEW s \in Seq(Ids), NEW d \in Ids
    PROVE  /\ Once(s) /\ ~Has(s, d) => Once(Append(s, d))
           /\ /\ Twice(s)
              /\ \A i, j \in 1 .. Len(s) : s[i] = d /\ s[j] = d => i = j
              => Twice(Append(s, d))
<1> DEFINE t == Append(s, d)
           n == Len(s)
<1>1. /\ n \in Nat /\ Len(t) = n + 1 /\ t[n + 1] = d
      /\ \A i \in 1 .. n : t[i] = s[i]
  BY Longer
<1>2. \A i \in 1 .. n + 1 : i \in 1 .. n \/ i = n + 1
  BY <1>1
<1>3. (\A i \in 1 .. n : i \in 1 .. n + 1) /\ n + 1 \in 1 .. n + 1
  BY <1>1
<1> HIDE DEF t
<1>4. Once(s) /\ ~Has(s, d) => Once(t)
  BY <1>1, <1>2, <1>3 DEF Has, Once
<1>5. ASSUME Twice(s), \A i, j \in 1 .. n : s[i] = d /\ s[j] = d => i = j
      PROVE  Twice(t)
  <2> SUFFICES ASSUME NEW i \in 1 .. n + 1, NEW j \in 1 .. n + 1,
                      NEW k \in 1 .. n + 1, t[i] = t[j], t[j] = t[k]
               PROVE  i = j \/ j = k \/ i = k
    BY <1>1 DEF Twice
  <2>1. CASE i \in 1 .. n /\ j \in 1 .. n /\ k \in 1 .. n
    BY <1>1, <1>5, <2>1 DEF Twice
  <2>2. CASE ~(i \in 1 .. n /\ j \in 1 .. n /\ k \in 1 .. n)
    BY <1>1, <1>2, <1>5, <2>2
  <2> QED BY <2>1, <2>2
<1> QED BY <1>4, <1>5 DEF t

\* No line, no double one.
LEMMA NoLines ==
    ASSUME NEW s, s = <<>>
    PROVE  Once(s) /\ Twice(s) /\ Len(s) = 0 /\ \A d : ~Has(s, d)
BY DEF Once, Twice, Has

LEMMA OnceIsTwice == \A s : Once(s) => Twice(s)
BY DEF Once, Twice

LEMMA JobTypes ==
    ASSUME Basic
    PROVE  job.at # "idle" => job.id \in Ids /\ job.csv \in Nat
<1>1. job.at # "idle" => job # Idle
  BY DEF Idle
<1> QED BY <1>1 DEF Basic, Types

LEMMA InitRows == Init => Rows
<1> SUFFICES ASSUME Init PROVE Rows
  OBVIOUS
<1>1. Once(file)
  <2>1. file \in Seq(Ids)
    BY InitBasic DEF Basic, Types
  <2>2. DOMAIN file = 1 .. Len(file)
    BY <2>1, LenProperties
  <2> QED BY <2>2 DEF Init, NoRepeat, Once
<1>2. job.at = "idle" /\ nodes = file /\ todo = <<"RESET">>
  BY DEF Init, Idle
<1>3. Clean
  BY <1>1, <1>2 DEF Clean, Kept, InTable, Apart
<1>4. Lines
  BY <1>1, <1>2, OnceIsTwice DEF Lines, Seen, Once, Single, Reach
<1>5. ~Has(todo, "CLEAR_TABLE") /\ Cleared(todo) /\ ~Marking
  BY <1>2 DEF Has, Cleared, Marking
<1> QED BY <1>1, <1>3, <1>4, <1>5 DEF Rows, Window

(***************************************************************************)
(* The teach-in's steps keep the lines in order, one by one.               *)
(***************************************************************************)
LEMMA LookedLines ==
    ASSUME Basic, NEW d \in Ids, Looked(d), csv' = csv
    PROVE  /\ Clean => Clean'
           /\ Lines => Lines'
           /\ Marked => Marked'
<1>1. /\ file' = file /\ nodes' = nodes /\ job.at = "idle"
      /\ job'.at = "mode" /\ job'.id = d /\ ~Has(nodes, d)
  BY DEF Looked
<1>2. ~InTable(d)
  BY <1>1 DEF InTable, Has
<1>3. \A e : InTable(e)' <=> InTable(e)
  BY <1>1 DEF InTable
<1>4. (Kept' <=> Kept) /\ (Seen' <=> Seen) /\ Reach'
  BY <1>1, <1>3 DEF Kept, Seen, Reads, Reach
<1>5. Kept => \A i \in 1 .. Len(file) : file[i] # d
  BY <1>1, <1>2 DEF Kept, Reads
<1>6. Kept => Apart'
  BY <1>1, <1>5 DEF Apart, Has
<1>7. Seen => Single'
  BY <1>1, <1>2 DEF Seen, Reads, Single
<1>8. (Once(file)' <=> Once(file)) /\ (Twice(file)' <=> Twice(file))
  BY <1>1 DEF Once, Twice
<1>9. Marked => Marked'
  BY <1>1, <1>4, <1>5 DEF Marked
<1> QED BY <1>4, <1>6, <1>7, <1>8, <1>9 DEF Clean, Lines

LEMMA DecidedLines ==
    ASSUME Basic, Joined \/ Left, csv' = csv
    PROVE  /\ Clean => Clean'
           /\ Lines => Lines'
           /\ Marked => Marked'
<1>1. /\ file' = file /\ nodes' = nodes /\ job.at = "mode"
      /\ \/ job'.at = "append" /\ job'.id = job.id
         \/ job'.at = "idle"
  BY DEF Joined, Left
<1>2. \A e : InTable(e)' <=> InTable(e)
  BY <1>1 DEF InTable
<1>3. (Kept => Kept') /\ (Seen => Seen') /\ Reach'
  BY <1>1, <1>2 DEF Kept, Seen, Reads, Reach
<1>4. (Apart => Apart') /\ (Single => Single')
  BY <1>1 DEF Apart, Single, Has
<1>5. (Once(file)' <=> Once(file)) /\ (Twice(file)' <=> Twice(file))
  BY <1>1 DEF Once, Twice
<1>6. Marked => Marked'
  BY <1>1, <1>3 DEF Marked
<1> QED BY <1>3, <1>4, <1>5, <1>6 DEF Clean, Lines

LEMMA AppendedLines ==
    ASSUME Basic, Appended, csv' = csv
    PROVE  /\ Clean => Clean'
           /\ Lines => Lines'
           /\ Marked => Marked'
<1>1. /\ job.at = "append" /\ job'.at = "read" /\ job'.id = job.id
      /\ job.id \in Ids /\ nodes' = nodes
      /\ file' = file \/ file' = Append(file, job.id)
  BY DEF Appended
<1>2. file \in Seq(Ids) /\ Len(file) \in Nat /\ csv \in Nat
  BY LenProperties DEF Basic, Types
<1>3. Kept' /\ Seen' /\ Apart' /\ Single' /\ Reach'
  BY <1>1 DEF Kept, Seen, Reads, Apart, Single, Reach
<1>4. CASE file' = file
  BY <1>1, <1>3, <1>4 DEF Clean, Lines, Marked, Once, Twice
<1>5. CASE file' = Append(file, job.id)
  <2>1. Clean => Once(file')
    BY <1>1, <1>2, <1>5, OneMore DEF Clean, Apart
  <2>2. Lines => Twice(file')
    BY <1>1, <1>2, <1>5, OneMore DEF Lines, Single
  <2>3. (Once(file)' <=> Once(file')) /\ (Twice(file)' <=> Twice(file'))
    BY DEF Once, Twice
  <2>4. /\ Len(file') = Len(file) + 1 /\ file'[Len(file) + 1] = job.id
        /\ \A i \in 1 .. Len(file) : file'[i] = file[i]
    BY <1>1, <1>2, <1>5, Longer
  <2>5. Marked => Marked'
    <3> SUFFICES ASSUME Marked PROVE Marked'
      OBVIOUS
    <3>1. /\ csv <= Len(file) /\ csv <= Len(nodes)
          /\ \A i \in 1 .. csv : nodes[i] = file[i]
          /\ \A i \in 1 .. Len(file) : file[i] = job.id => i <= csv
          /\ \A i, j \in 1 .. Len(file) : file[i] = file[j] /\ i < j => i <= csv
      BY <1>1 DEF Marked
    <3>2. csv' <= Len(file') /\ csv' <= Len(nodes')
      BY <1>1, <1>2, <2>4, <3>1
    <3>3. \A i \in 1 .. csv' : nodes'[i] = file'[i]
      <4>1. \A i \in 1 .. csv : i \in 1 .. Len(file)
        BY <1>2, <3>1
      <4> QED BY <1>1, <2>4, <3>1, <4>1
    <3>4. \A i, j \in 1 .. Len(file') :
             file'[i] = file'[j] /\ i < j => i <= csv'
      <4> SUFFICES ASSUME NEW i \in 1 .. Len(file) + 1,
                          NEW j \in 1 .. Len(file) + 1,
                          file'[i] = file'[j], i < j
                   PROVE  i <= csv
        BY <2>4
      <4>1. i \in 1 .. Len(file) /\ (j \in 1 .. Len(file) \/ j = Len(file) + 1)
        BY <1>2
      <4>2. file'[i] = file[i]
        BY <2>4, <4>1
      <4>3. CASE j \in 1 .. Len(file)
        BY <2>4, <3>1, <4>1, <4>2, <4>3
      <4>4. CASE j = Len(file) + 1
        BY <2>4, <3>1, <4>1, <4>2, <4>4
      <4> QED BY <4>1, <4>3, <4>4
    <3> QED BY <1>1, <1>3, <3>2, <3>3, <3>4 DEF Marked
  <2> QED BY <1>3, <2>1, <2>2, <2>3, <2>5 DEF Clean, Lines
<1> QED BY <1>1, <1>4, <1>5

LEMMA RereadLines ==
    ASSUME Basic, Reread, csv' = csv
    PROVE  /\ Clean => Clean'
           /\ Lines => Lines'
           /\ Marked => Marked'
<1>1. /\ job'.at = "end" /\ job'.csv = Len(file)
      /\ file' = file /\ nodes' = Filled(nodes, file)
  BY DEF Reread
<1>2. /\ file \in Seq(Ids) /\ nodes \in Seq(Ids) /\ csv \in Nat
      /\ Len(file) \in Nat
  BY LenProperties DEF Basic, Types
<1>3. /\ Len(file) <= Len(nodes') /\ Len(nodes') \in Nat
      /\ \A i \in 1 .. Len(file) : nodes'[i] = file[i]
  <2>1. nodes' \in Seq(Ids) /\ Len(file) <= Len(nodes')
        /\ \A i \in 1 .. Len(file) : nodes'[i] = file[i]
    BY <1>1, <1>2, FilledTable
  <2> QED BY <2>1, LenProperties
<1>4. \A i \in 1 .. Len(file) : i \in 1 .. Len(nodes') /\ i <= Len(file)
  BY <1>2, <1>3
<1>5. \A i \in 1 .. Len(file') : InTable(file[i])'
  BY <1>1, <1>3, <1>4 DEF InTable
<1>6. Kept' /\ Seen' /\ Reach'
  BY <1>1, <1>2, <1>5 DEF Kept, Seen, Reach
<1>7. Apart' /\ Single'
  BY <1>1 DEF Apart, Single
<1>8. (Once(file)' <=> Once(file)) /\ (Twice(file)' <=> Twice(file))
  BY <1>1 DEF Once, Twice
<1>9. Marked => Marked'
  <2> SUFFICES ASSUME Marked PROVE Marked'
    OBVIOUS
  <2>1. csv <= Len(file)
    BY DEF Marked
  <2>2. csv <= Len(nodes') /\ \A i \in 1 .. csv : i \in 1 .. Len(file)
    BY <1>2, <1>3, <2>1
  <2>3. \A i \in 1 .. csv : nodes'[i] = file[i]
    BY <1>3, <2>2
  <2>4. \A i, j \in 1 .. Len(file) : file[i] = file[j] /\ i < j => i <= csv
    BY DEF Marked
  <2> QED BY <1>1, <1>6, <2>1, <2>2, <2>3, <2>4 DEF Marked
<1> QED BY <1>6, <1>7, <1>8, <1>9 DEF Clean, Lines

LEMMA EndedLines ==
    ASSUME Basic, Ended, csv' = csv
    PROVE  /\ Clean => Clean'
           /\ Lines => Lines'
           /\ Lines /\ Marked => Marked'
<1>1. /\ job.at = "end" /\ job'.at = "count"
      /\ file' = file /\ nodes' = MarkedAt(nodes, job.csv)
  BY DEF Ended
<1>2. /\ file \in Seq(Ids) /\ nodes \in Seq(Ids) /\ csv \in Nat
      /\ Len(file) \in Nat /\ Len(nodes) \in Nat /\ job.csv \in Nat
  BY <1>1, LenProperties, JobTypes DEF Basic, Types
<1>3. /\ Len(nodes') = IF Len(nodes) > job.csv THEN job.csv ELSE Len(nodes)
      /\ \A i \in 1 .. Len(nodes') : nodes'[i] = nodes[i]
  BY <1>1, <1>2, MarkedTable
<1>4. \A i \in 1 .. Len(nodes) : i <= job.csv => i \in 1 .. Len(nodes')
  BY <1>2, <1>3
<1>5. \A e : InTable(e) => InTable(e)'
  BY <1>1, <1>3, <1>4 DEF InTable
<1>6. (Kept => Kept') /\ (Seen => Seen')
  BY <1>1, <1>5 DEF Kept, Seen, Reads
<1>7. Apart' /\ Single' /\ Reach'
  BY <1>1 DEF Apart, Single, Reach
<1>8. (Once(file)' <=> Once(file)) /\ (Twice(file)' <=> Twice(file))
  BY <1>1 DEF Once, Twice
<1>9. Lines /\ Marked => Marked'
  <2> SUFFICES ASSUME Lines, Marked PROVE Marked'
    OBVIOUS
  <2>1. /\ csv <= Len(file) /\ csv <= Len(nodes) /\ Len(file) <= job.csv
        /\ \A i \in 1 .. csv : nodes[i] = file[i]
    BY <1>1 DEF Lines, Reach, Marked
  <2>2. csv <= Len(nodes') /\ \A i \in 1 .. csv : i \in 1 .. Len(nodes')
    BY <1>2, <1>3, <2>1
  <2>3. \A i \in 1 .. csv : nodes'[i] = file[i]
    BY <1>3, <2>1, <2>2
  <2>4. \A i, j \in 1 .. Len(file) : file[i] = file[j] /\ i < j => i <= csv
    BY DEF Marked
  <2> QED BY <1>1, <1>6, <2>1, <2>2, <2>3, <2>4 DEF Marked
<1> QED BY <1>6, <1>7, <1>8, <1>9 DEF Clean, Lines

LEMMA CountedLines ==
    ASSUME Basic, Counted, csv' = csv
    PROVE  /\ Clean => Clean'
           /\ Lines => Lines'
           /\ Marked => Marked'
<1>1. /\ file' = file /\ nodes' = nodes /\ job.at = "count"
      /\ job'.at = "idle"
  BY DEF Counted
<1>2. \A e : InTable(e)' <=> InTable(e)
  BY <1>1 DEF InTable
<1>3. (Kept => Kept') /\ (Seen => Seen') /\ Reach'
  BY <1>1, <1>2 DEF Kept, Seen, Reads, Reach
<1>4. Apart' /\ Single'
  BY <1>1 DEF Apart, Single
<1>5. (Once(file)' <=> Once(file)) /\ (Twice(file)' <=> Twice(file))
  BY <1>1 DEF Once, Twice
<1>6. Marked => Marked'
  BY <1>1, <1>3 DEF Marked
<1> QED BY <1>3, <1>4, <1>5, <1>6 DEF Clean, Lines

LEMMA TeachInRows ==
    ASSUME Basic, Rows, ActionThread
    PROVE  Rows'
<1>1. todo' = todo /\ csv' = csv
  BY TeachInWays
<1>2. /\ Clean => Clean'
      /\ Lines => Lines'
      /\ Lines /\ Marked => Marked'
  BY <1>1, LookedLines, DecidedLines, AppendedLines, RereadLines, EndedLines,
     CountedLines, TeachInWays
<1>3. Cleared(todo)' /\ (Window' <=> Window) /\ (Marking' <=> Marking)
  BY <1>1 DEF Rows, Window, Has, Cleared, Marking
<1>4. ~raced' => /\ ~raced
                 /\ Window /\ job.at \in {"idle", "mode"} =>
                        job'.at \in {"idle", "mode"} /\ file' = file
  <2>1. ASSUME NEW d \in Ids, Looked(d)
        PROVE  raced' = raced /\ job'.at = "mode" /\ file' = file
    BY <2>1 DEF Looked
  <2>2. CASE Joined
    BY <2>2 DEF Joined, Window
  <2>3. CASE Left
    BY <2>3 DEF Left
  <2>4. CASE Appended \/ Reread \/ Ended \/ Counted
    BY <2>4 DEF Appended, Reread, Ended, Counted
  <2> QED BY <2>1, <2>2, <2>3, <2>4, TeachInWays
<1>5. ~raced' => /\ Clean'
                 /\ Window' => file' = <<>> /\ job'.at \in {"idle", "mode"}
  BY <1>2, <1>3, <1>4 DEF Rows
<1> QED BY <1>2, <1>3, <1>5 DEF Rows

\* Main comes to its end mark only from the lines it has read.
LEMMA MarkingOpens ==
    ASSUME Basic, [Next]_vars, Marking'
    PROVE  \/ Marking /\ todo' = todo
           \/ LocalStep /\ Head(todo) = "READ"
<1>1. todo \in Seq(Ops) /\ Ordered(todo)
  BY DEF Basic, Types, Plan
<1>2. todo' # <<>> /\ Head(todo') = "MARK"
  BY DEF Marking
<1>3. CASE todo' = todo
  BY <1>2, <1>3 DEF Marking
<1>4. CASE todo # <<>> /\ todo' = Tail(todo) /\ (LocalStep \/ Head(todo) \in Commands)
  <2>1. <<Head(todo), "MARK">> \in Follows
    BY <1>1, <1>2, <1>4, TailOrdered
  <2>2. Head(todo) = "READ"
    BY <2>1 DEF Follows
  <2> QED BY <1>4, <2>2 DEF Commands
<1>5. todo = <<>> /\ (\E c \in HostCommands : todo' = Script[c]) => FALSE
  BY <1>2, ScriptOrdered, HostAssumption
<1> QED BY <1>2, <1>3, <1>4, <1>5, TodoChanges

\* The steps of main, and of the line, that leave tables and job alone.
LEMMA StandingRows ==
    ASSUME Basic, Rows, [Next]_vars, UNCHANGED <<file, nodes, job, csv, raced>>,
           LocalStep => Head(todo) \notin {"TRUNCATE", "READ"}
    PROVE  Rows'
<1>1. Cleared(todo)' /\ (Window' => Window) /\ (Marking' => Marking)
  BY WindowOpens, MarkingOpens DEF Rows
<1>2. \A e : InTable(e)' <=> InTable(e)
  BY DEF InTable
<1>3. /\ Kept' <=> Kept
      /\ Seen' <=> Seen
  BY <1>2 DEF Kept, Seen, Reads
<1>4. /\ Clean' <=> Clean
      /\ Lines' <=> Lines
      /\ Marked' <=> Marked
  BY <1>3 DEF Clean, Lines, Marked, Apart, Once, Twice, Single, Reach, Has
<1> QED BY <1>1, <1>4 DEF Rows

LEMMA TruncateRows ==
    ASSUME Basic, Rows, LocalStep, [Next]_vars, Head(todo) = "TRUNCATE"
    PROVE  Rows'
<1>1. Cleared(todo)' /\ ~Marking'
  BY WindowOpens, MarkingOpens DEF Rows, Marking
<1>2. /\ file' = <<>> /\ job' = job
      /\ raced' = (job # Idle /\ (raced \/ Pending("CLEAR_TABLE")))
  BY DEF LocalStep
<1>3. Once(file') /\ Twice(file') /\ Len(file') = 0 /\ \A d : ~Has(file', d)
  BY <1>2, NoLines
<1>4. (Once(file)' <=> Once(file')) /\ (Twice(file)' <=> Twice(file'))
  BY DEF Once, Twice
<1>5. Kept' /\ Seen' /\ Single'
  BY <1>3 DEF Kept, Seen, Single
<1>6. Apart'
  BY <1>3 DEF Apart, Has
<1>7. Reach'
  <2>1. job.at = "end" => job.csv \in Nat
    BY JobTypes
  <2> QED BY <1>2, <1>3, <2>1 DEF Reach
<1>8. ~raced' /\ Window' => job'.at \in {"idle", "mode"}
  <2>1. todo' = Tail(todo) /\ todo # <<>> /\ todo \in Seq(Ops)
    BY DEF LocalStep, Basic, Types
  <2>2. Window' => Has(todo, "CLEAR_TABLE")
    <3>1. Has(todo', "CLEAR_TABLE") => Has(todo, "CLEAR_TABLE")
      BY <2>1, TailCleared DEF Rows
    <3> QED BY <3>1 DEF Window, Has
  <2>3. Window' => Pending("CLEAR_TABLE")
    <3>1. DOMAIN todo = 1 .. Len(todo)
      BY <2>1, LenProperties
    <3> QED BY <2>2, <3>1 DEF Pending, Has
  <2>4. job = Idle => job.at = "idle"
    BY DEF Idle
  <2> QED BY <1>2, <2>3, <2>4
<1> QED BY <1>1, <1>2, <1>3, <1>4, <1>5, <1>6, <1>7, <1>8 DEF Rows, Clean, Lines

LEMMA ClearTableRows ==
    ASSUME Basic, Rows, LocalStep, [Next]_vars, Head(todo) = "CLEAR_TABLE"
    PROVE  Rows'
<1>1. Cleared(todo)' /\ ~Window' /\ ~Marking'
  BY WindowOpens, MarkingOpens DEF Rows, Marking
<1>2. file' = file /\ job' = job /\ raced' = raced
  BY DEF LocalStep
<1>3. Window
  <2>1. todo \in Seq(Ops) /\ todo # <<>>
    BY DEF LocalStep, Basic, Types
  <2>2. Len(todo) \in Nat \ {0} /\ todo[1] = "CLEAR_TABLE"
    BY <2>1, Shorter
  <2>3. Has(todo, "CLEAR_TABLE")
    BY <2>2 DEF Has
  <2>4. \A i \in 1 .. Len(todo) : todo[i] # "TRUNCATE"
    <3> SUFFICES ASSUME NEW i \in 1 .. Len(todo), todo[i] = "TRUNCATE"
                 PROVE  FALSE
      OBVIOUS
    <3>1. i = 1 \/ 1 < i
      BY <2>2
    <3> QED BY <2>2, <3>1 DEF Rows, Cleared
  <2> QED BY <2>3, <2>4 DEF Window, Has
<1>4. Once(file) /\ Apart
  BY <1>3 DEF Rows, Clean
<1>5. (Once(file)' <=> Once(file)) /\ (Twice(file)' <=> Twice(file))
  BY <1>2 DEF Once, Twice
<1>6. Seen' /\ Single' /\ Reach'
  BY <1>2, <1>4 DEF Seen, Once, Single, Reach, Rows, Lines
<1>7. Apart'
  BY <1>2, <1>4 DEF Apart, Has
<1>8. ~raced' => Kept'
  <2> SUFFICES ASSUME ~raced PROVE Kept'
    BY <1>2
  <2>1. file' = <<>>
    BY <1>2, <1>3 DEF Rows
  <2>2. Len(file') = 0
    BY <2>1, NoLines
  <2> QED BY <2>2 DEF Kept
<1>9. Twice(file)
  BY DEF Rows, Lines
<1> QED BY <1>1, <1>4, <1>5, <1>6, <1>7, <1>8, <1>9 DEF Rows, Clean, Lines

LEMMA ReadRows ==
    ASSUME Basic, Rows, LocalStep, [Next]_vars, Head(todo) = "READ"
    PROVE  Rows'
<1>1. Cleared(todo)' /\ (Window' => Window)
  BY WindowOpens DEF Rows
<1>2. /\ file' = file /\ job' = job /\ raced' = raced /\ csv' = Len(file)
      /\ nodes' = Filled(nodes, file)
  BY DEF LocalStep
<1>3. /\ file \in Seq(Ids) /\ nodes \in Seq(Ids) /\ Len(file) \in Nat
  BY LenProperties DEF Basic, Types
<1>4. /\ Len(file) <= Len(nodes') /\ Len(nodes') \in Nat
      /\ \A i \in 1 .. Len(file) : nodes'[i] = file[i]
  <2>1. nodes' \in Seq(Ids) /\ Len(file) <= Len(nodes')
        /\ \A i \in 1 .. Len(file) : nodes'[i] = file[i]
    BY <1>2, <1>3, FilledTable
  <2> QED BY <2>1, LenProperties
<1>5. \A i \in 1 .. Len(file) :
         i \in 1 .. Len(nodes') /\ (job.at = "end" => i <= job.csv)
  <2>1. job.at = "end" => Len(file) <= job.csv /\ job.csv \in Nat
    BY JobTypes DEF Rows, Lines, Reach
  <2> QED BY <1>3, <1>4, <2>1
<1>6. \A i \in 1 .. Len(file') : InTable(file[i])'
  BY <1>2, <1>4, <1>5 DEF InTable
<1>7. Kept' /\ Seen'
  BY <1>2, <1>6 DEF Kept, Seen
<1>8. (Once(file)' <=> Once(file)) /\ (Twice(file)' <=> Twice(file))
  BY <1>2 DEF Once, Twice
<1>9. (Apart' <=> Apart) /\ (Single' <=> Single) /\ (Reach' <=> Reach)
  BY <1>2 DEF Apart, Single, Reach, Has
<1>10. Marked'
  <2>1. csv' <= Len(file') /\ csv' <= Len(nodes')
    BY <1>2, <1>3, <1>4
  <2>2. \A i \in 1 .. csv' : nodes'[i] = file'[i]
    BY <1>2, <1>4
  <2>3. \A i \in 1 .. Len(file') : i <= csv'
    BY <1>2, <1>3
  <2> QED BY <1>7, <2>1, <2>2, <2>3 DEF Marked
<1> QED BY <1>1, <1>2, <1>7, <1>8, <1>9, <1>10 DEF Rows, Clean, Lines

LEMMA MarkRows ==
    ASSUME Basic, Rows, LocalStep, [Next]_vars, Head(todo) = "MARK"
    PROVE  Rows'
<1>1. Cleared(todo)' /\ ~Marking' /\ ~Window'
  <2>1. todo \in Seq(Ops) /\ todo # <<>>
    BY DEF LocalStep, Basic, Types
  <2>2. Len(todo) \in Nat \ {0} /\ todo[1] = "MARK"
    BY <2>1, Shorter
  <2>3. ~Has(todo, "CLEAR_TABLE")
    BY <2>2 DEF Rows, Cleared, Has
  <2>4. todo' = Tail(todo)
    BY DEF LocalStep
  <2>5. Len(todo') # Len(todo)
    BY <2>1, <2>4, Shorter
  <2>6. ~Marking'
    BY <2>5, MarkingOpens
  <2> QED BY <2>3, <2>6, WindowOpens DEF Rows, Window
<1>2. /\ file' = file /\ job' = job /\ nodes' = MarkedAt(nodes, csv)
      /\ csv' = csv /\ raced' = (raced \/ CutsOff)
  BY DEF LocalStep
<1>3. /\ file \in Seq(Ids) /\ nodes \in Seq(Ids) /\ csv \in Nat
      /\ Len(file) \in Nat /\ Len(nodes) \in Nat
  BY LenProperties DEF Basic, Types
<1>4. Marked /\ Lines
  BY DEF LocalStep, Rows, Marking
<1>5. /\ csv <= Len(file) /\ csv <= Len(nodes)
      /\ \A i \in 1 .. csv : nodes[i] = file[i]
      /\ \A i, j \in 1 .. Len(file) : file[i] = file[j] /\ i < j => i <= csv
  BY <1>4 DEF Marked
<1>6. Len(nodes') = csv /\ \A i \in 1 .. csv : nodes'[i] = file[i]
  <2>1. /\ Len(nodes') = IF Len(nodes) > csv THEN csv ELSE Len(nodes)
        /\ \A i \in 1 .. Len(nodes') : nodes'[i] = nodes[i]
    BY <1>2, <1>3, MarkedTable
  <2>2. Len(nodes') = csv
    BY <1>3, <1>5, <2>1
  <2> QED BY <1>5, <2>1, <2>2
<1>7. job.at = "end" => Len(file) <= job.csv /\ job.csv \in Nat
  BY <1>4, JobTypes DEF Lines, Reach
<1>8. \A i \in 1 .. Len(file) : i <= csv => InTable(file[i])'
  <2> SUFFICES ASSUME NEW i \in 1 .. Len(file), i <= csv
               PROVE  InTable(file[i])'
    OBVIOUS
  <2>1. i \in 1 .. csv /\ (job.at = "end" => i <= job.csv)
    BY <1>3, <1>7
  <2> QED BY <1>2, <1>6, <2>1 DEF InTable
<1>9. Seen'
  <2> SUFFICES ASSUME NEW i \in 1 .. Len(file), NEW j \in 1 .. Len(file),
                      file[i] = file[j], i # j
               PROVE  InTable(file[i])'
    BY <1>2 DEF Seen
  <2>1. i < j \/ j < i
    OBVIOUS
  <2>2. i <= csv \/ j <= csv
    BY <1>5, <2>1
  <2>3. InTable(file[i])' \/ InTable(file[j])'
    BY <1>8, <2>2
  <2> QED BY <1>2, <2>3 DEF InTable
<1>10. ~raced' => Kept'
  <2> SUFFICES ASSUME ~CutsOff, ~Reads PROVE Kept'
    BY <1>2 DEF Kept, Reads
  <2>1. ~(csv < Len(file))
    BY DEF CutsOff, Reads
  <2>2. \A i \in 1 .. Len(file) : i <= csv
    BY <1>3, <2>1
  <2> QED BY <1>2, <1>8, <2>2 DEF Kept
<1>11. /\ Apart' <=> Apart
       /\ Single' <=> Single
       /\ Reach' <=> Reach
       /\ Once(file)' <=> Once(file)
       /\ Twice(file)' <=> Twice(file)
  BY <1>2 DEF Apart, Single, Reach, Once, Twice, Has
<1>12. ~raced' => Clean
  BY <1>2 DEF Rows
<1> QED BY <1>1, <1>4, <1>9, <1>10, <1>11, <1>12 DEF Rows, Clean, Lines

LEMMA LocalRows ==
    ASSUME Basic, Rows, LocalStep, [Next]_vars
    PROVE  Rows'
<1>1. CASE Head(todo) \notin {"TRUNCATE", "CLEAR_TABLE", "READ", "MARK"}
  <2>1. UNCHANGED <<file, nodes, job, csv, raced>>
    BY <1>1 DEF LocalStep
  <2> QED BY <1>1, <2>1, StandingRows
<1> QED BY <1>1, TruncateRows, ClearTableRows, ReadRows, MarkRows

LEMMA StepRows == Basic /\ Rows /\ [Next]_vars => Rows'
<1> SUFFICES ASSUME Basic, Rows, [Next]_vars PROVE Rows'
  OBVIOUS
<1>1. CASE ActionThread
  BY <1>1, TeachInRows
<1>2. CASE LocalStep
  BY <1>2, LocalRows
<1>3. CASE ~ActionThread /\ ~LocalStep
  <2>1. UNCHANGED <<file, nodes, job, csv, raced>>
    <3>1. ASSUME NEW c \in HostCommands, Begin(c)
          PROVE  UNCHANGED <<file, nodes, job, csv, raced>>
      BY <3>1 DEF Begin, tableVars
    <3>2. CASE GetResponse \/ Timeout
      <4>1. PICK st : Respond(st)
        BY <3>2 DEF GetResponse, Timeout
      <4> QED BY <4>1 DEF Respond, tableVars, raceVars
    <3>3. CASE SendCommand \/ FilterEnd \/ Execute \/ Fault \/ UNCHANGED vars
      BY <3>3 DEF SendCommand, FilterEnd, Execute, Fault, vars, mainVars, tableVars, raceVars
    <3> QED BY <1>3, <3>1, <3>2, <3>3 DEF Next, Main
  <2> QED BY <1>3, <2>1, StandingRows
<1> QED BY <1>1, <1>2, <1>3

(***************************************************************************)
(* Bounds: a table has at most two lines for every device.                 *)
(***************************************************************************)
Full == 2 * Cardinality(Ids)

Bounds ==
    /\ failures <= StartRetries + 1
    /\ index <= Full + 1
    /\ waiting /\ Head(todo) = "ADD" => index <= Full
    /\ Len(nodes) <= Full /\ count <= Full /\ csv <= Full /\ job.csv <= Full
    /\ faults.slow + faults.lost + faults.silent + faults.made <= MaxFaults

LEMMA FullIsNat == Full \in Nat /\ Cardinality(Ids) \in Nat
BY FS_CardinalityType, GatewayAssumption DEF Full

\* Lines no three of which are of one device are few.
LEMMA FewLines ==
    ASSUME NEW s \in Seq(Ids), Twice(s)
    PROVE  Len(s) <= Full
<1> DEFINE n == Len(s)
           S == {i \in 1 .. n : \A j \in 1 .. n : j < i => s[j] # s[i]}
           T == (1 .. n) \ S
<1>1. n \in Nat /\ \A i \in 1 .. n : s[i] \in Ids
  BY LenProperties, ElementOfSeq
<1>2. IsFiniteSet(Ids) /\ Cardinality(Ids) \in Nat
  BY FS_CardinalityType, GatewayAssumption
<1>3. IsFiniteSet(1 .. n) /\ Cardinality(1 .. n) = n
  <2>1. 1 \in Int /\ n \in Int
    BY <1>1
  <2>2. /\ IsFiniteSet(1 .. n)
        /\ Cardinality(1 .. n) = IF 1 > n THEN 0 ELSE n - 1 + 1
    BY <2>1, FS_Interval
  <2> QED BY <1>1, <2>2
<1>4. \A i, j \in S : i # j => s[i] # s[j]
  <2> SUFFICES ASSUME NEW i \in S, NEW j \in S, i # j PROVE s[i] # s[j]
    OBVIOUS
  <2>1. i \in 1 .. n /\ j \in 1 .. n /\ (i < j \/ j < i)
    BY <1>1
  <2> QED BY <2>1
<1>5. \A i, j \in T : i # j => s[i] # s[j]
  <2> SUFFICES ASSUME NEW i \in T, NEW j \in T, i # j, s[i] = s[j]
               PROVE  FALSE
    OBVIOUS
  <2>1. PICK k \in 1 .. n : k < i /\ s[k] = s[i]
    OBVIOUS
  <2>2. PICK m \in 1 .. n : m < j /\ s[m] = s[j]
    OBVIOUS
  <2>3. i \in 1 .. n /\ j \in 1 .. n /\ (i < j \/ j < i)
    BY <1>1
  <2>4. k # i /\ m # j /\ (i < j => k # j) /\ (j < i => m # i)
    BY <1>1, <2>1, <2>2, <2>3
  <2> QED BY <2>1, <2>2, <2>3, <2>4 DEF Twice
<1>6. S \subseteq 1 .. n /\ T \subseteq 1 .. n /\ S \cup T = 1 .. n
      /\ S \cap T = {}
  OBVIOUS
<1> HIDE DEF S, T
<1>7. /\ IsFiniteSet(S) /\ Cardinality(S) \in Nat
      /\ IsFiniteSet(T) /\ Cardinality(T) \in Nat
  BY <1>3, <1>6, FS_Subset, FS_CardinalityType
<1>8. Cardinality(S) + Cardinality(T) = n
  <2>1. Cardinality(S \cup T) =
            Cardinality(S) + Cardinality(T) - Cardinality(S \cap T)
    BY <1>7, FS_Union
  <2>2. Cardinality(S \cap T) = 0
    BY <1>6, FS_EmptySet
  <2>3. Cardinality(S \cup T) = n
    BY <1>3, <1>6
  <2> QED BY <1>7, <2>1, <2>2, <2>3
<1>9. ASSUME NEW R, R \subseteq 1 .. n, IsFiniteSet(R),
             \A i, j \in R : i # j => s[i] # s[j]
      PROVE  Cardinality(R) <= Cardinality(Ids)
  <2> DEFINE f == [i \in R |-> s[i]]
  <2>1. f \in [R -> Ids] /\ \A x, y \in R : x # y => f[x] # f[y]
    BY <1>1, <1>9
  <2>2. Cardinality(R) \in Nat
    BY <1>9, FS_CardinalityType
  <2> HIDE DEF f
  <2>3. ~(Cardinality(Ids) < Cardinality(R))
    BY <1>2, <1>9, <2>1, FS_PigeonHole
  <2> QED BY <1>2, <2>2, <2>3
<1>10. Cardinality(S) <= Cardinality(Ids) /\ Cardinality(T) <= Cardinality(Ids)
  BY <1>4, <1>5, <1>6, <1>7, <1>9
<1> QED BY <1>1, <1>2, <1>7, <1>8, <1>10 DEF Full

LEMMA FileSize ==
    ASSUME Basic, Rows
    PROVE  Len(file) <= Full /\ Len(file) \in Nat
<1>1. file \in Seq(Ids)
  BY DEF Basic, Types
<1>2. Twice(file)
  BY DEF Rows, Lines
<1> QED BY <1>1, <1>2, FewLines, LenProperties

LEMMA InitBounds == Init => Bounds
<1> SUFFICES ASSUME Init PROVE Bounds
  OBVIOUS
<1>1. Len(file) <= Full /\ Len(file) \in Nat
  BY InitBasic, InitRows, FileSize
<1>2. /\ failures = 0 /\ index = 1 /\ waiting = FALSE /\ nodes = file
      /\ count = Len(file) /\ csv = 0 /\ job = Idle
  BY DEF Init
<1>3. job.csv = 0
  BY <1>2 DEF Idle
<1>4. /\ faults.slow = 0 /\ faults.lost = 0 /\ faults.silent = 0
      /\ faults.made = 0 /\ MaxFaults \in Nat /\ StartRetries \in Nat
  BY GatewayAssumption DEF Init
<1> QED BY <1>1, <1>2, <1>3, <1>4, FullIsNat DEF Bounds

\* What the line does wrong is bounded, ...
LEMMA FewFaults ==
    ASSUME Basic, Bounds, [Next]_vars
    PROVE  faults'.slow + faults'.lost + faults'.silent + faults'.made
               <= MaxFaults
<1> DEFINE Sum(f) == f.slow + f.lost + f.silent + f.made
<1>1. /\ faults.slow \in Nat /\ faults.lost \in Nat /\ faults.silent \in Nat
      /\ faults.made \in Nat /\ MaxFaults \in Nat
  BY FaultTypes, GatewayAssumption
<1>2. Sum(faults) <= MaxFaults
  BY DEF Bounds
<1>3. CASE faults' = faults
  BY <1>2, <1>3
<1>4. CASE Timeout
  <2>1. CASE line = <<>>
    BY <1>2, <1>4, <2>1, TimeoutQueues
  <2>2. CASE line # <<>>
    <3>1. Sum(faults) < MaxFaults
      BY <1>4, <2>2 DEF Timeout, FaultsLeft
    <3>2. /\ faults'.slow = faults.slow + 1 /\ faults'.made = faults.made
          /\ faults'.lost = faults.lost /\ faults'.silent = faults.silent
      BY <1>4, <2>2, TimeoutQueues
    <3> QED BY <1>1, <3>1, <3>2
  <2> QED BY <2>1, <2>2
<1>5. CASE Fault
  <2>1. /\ Sum(faults) < MaxFaults
        /\ Lose \/ Refuse \/ LoseAnswer \/ MakeUp
    BY <1>5 DEF Fault, FaultsLeft
  <2> QED BY <1>1, <2>1, FaultCounts
<1>6. CASE ~Timeout /\ ~Fault
  <2>1. GetResponse => faults' = faults
    BY DEF GetResponse
  <2>2. SendCommand \/ Execute => faults' = faults
    BY DEF SendCommand, Execute
  <2>3. CASE \/ \E c \in HostCommands : Begin(c)
             \/ FilterEnd \/ LocalStep \/ ActionThread \/ UNCHANGED vars
    BY <1>3, <2>3, StandingQueues DEF QueuesStand
  <2> QED BY <1>3, <1>6, <2>1, <2>2, <2>3 DEF Next, Main
<1> QED BY <1>4, <1>5, <1>6

\* ... and what main and ActionThread count is, too.
LEMMA FewRetries ==
    ASSUME Basic, Bounds, [Next]_vars
    PROVE  /\ failures' <= StartRetries + 1
           /\ index' <= Full + 1
           /\ waiting' /\ Head(todo') = "ADD" => index' <= Full
<1>1. /\ failures \in Nat /\ index \in Nat \ {0} /\ StartRetries \in Nat
      /\ Full \in Nat /\ index <= Full + 1 /\ failures <= StartRetries + 1
  BY FullIsNat, GatewayAssumption DEF Basic, Types, Bounds
<1>2. CASE SendCommand
  <2>1. index' = index /\ failures' = failures /\ todo' = todo
    BY <1>2 DEF SendCommand
  <2>2. Head(todo) = "ADD" => index <= Len(nodes)
    BY <1>2 DEF SendCommand
  <2>3. Len(nodes) \in Nat /\ Len(nodes) <= Full
    BY LenProperties DEF Bounds, Basic, Types
  <2> QED BY <1>1, <2>1, <2>2, <2>3
<1>3. CASE GetResponse \/ Timeout
  <2>1. PICK st : Respond(st)
    BY <1>3 DEF GetResponse, Timeout
  <2>2. waiting /\ phase # "exited"
    BY <1>3 DEF GetResponse, Timeout
  <2>3. /\ waiting' = FALSE
        /\ index' = IF Head(todo) = "ADD" THEN index + 1 ELSE 1
        /\ AgainReset(st) \/ NowMode(st) \/ LeaveStart(st) \/ GoOn
    BY <2>1, <2>2, RespondWays
  <2>4. index' <= Full + 1
    BY <1>1, <2>2, <2>3 DEF Bounds
  <2>5. failures' = failures \/ (phase = "start" /\ failures' = failures + 1)
    <3>1. AgainReset(st) => phase = "start" /\ failures' = failures + 1
      BY DEF AgainReset
    <3>2. NowMode(st) \/ GoOn => failures' = failures
      BY DEF NowMode, GoOn
    <3>3. LeaveStart(st) => failures' = failures
      BY DEF LeaveStart
    <3>4. AgainReset(st) \/ NowMode(st) \/ LeaveStart(st) \/ GoOn
      BY <2>3
    <3> QED BY <3>1, <3>2, <3>3, <3>4
  <2>6. phase = "start" => failures <= StartRetries
    BY DEF Basic, Plan
  <2> QED BY <1>1, <2>3, <2>4, <2>5, <2>6
<1>4. ASSUME UNCHANGED <<index, failures>>, ~waiting'
      PROVE  /\ failures' <= StartRetries + 1
             /\ index' <= Full + 1
             /\ waiting' /\ Head(todo') = "ADD" => index' <= Full
  BY <1>1, <1>4
<1>5. ASSUME NEW c \in HostCommands, Begin(c)
      PROVE  UNCHANGED <<index, failures>> /\ ~waiting'
  BY <1>5 DEF Begin, MainIdle, Basic, Plan
<1>6. CASE FilterEnd
  BY <1>4, <1>6 DEF FilterEnd
<1>7. CASE LocalStep
  <2>1. ~waiting
    BY <1>7, LocalNotSent DEF LocalStep, Basic, Plan
  <2> QED BY <1>4, <1>7, <2>1 DEF LocalStep
<1>8. CASE ActionThread \/ Execute \/ Fault \/ UNCHANGED vars
  <2>1. UNCHANGED <<index, failures, waiting, todo>>
    BY <1>8, TeachInWays DEF Execute, Fault, vars, mainVars
  <2> QED BY <1>1, <2>1 DEF Bounds
<1> QED
  BY <1>2, <1>3, <1>4, <1>5, <1>6, <1>7, <1>8 DEF Next, Main

LEMMA ShortTables ==
    ASSUME Basic, Rows, Bounds, [Next]_vars
    PROVE  /\ Len(nodes') <= Full /\ count' <= Full
           /\ csv' <= Full /\ job'.csv <= Full
<1>1. /\ Len(file) <= Full /\ Full \in Nat /\ Len(<<>>) <= Full
      /\ Len(nodes) <= Full /\ count <= Full /\ csv <= Full
      /\ job.csv <= Full /\ 0 <= Full
  BY FileSize, FullIsNat DEF Bounds
<1>5. /\ nodes \in Seq(Ids) /\ file \in Seq(Ids) /\ csv \in Nat
      /\ Len(nodes) \in Nat /\ Len(file) \in Nat
  BY LenProperties DEF Basic, Types
<1>6. Len(Filled(nodes, file)) <= Full
  BY <1>1, <1>5, FilledTable
<1>7. \A k \in Nat : Len(MarkedAt(nodes, k)) <= Full
  BY <1>1, <1>5, MarkedTable
<1>2. CASE LocalStep
  <2>1. job' = job
    BY <1>2 DEF LocalStep
  <2>2. nodes' \in {<<>>, Filled(nodes, file), MarkedAt(nodes, csv), nodes}
    BY <1>2 DEF LocalStep
  <2>3. count' \in {0, csv, count} /\ csv' \in {Len(file), csv}
    BY <1>2 DEF LocalStep
  <2> QED BY <1>1, <1>5, <1>6, <1>7, <2>1, <2>2, <2>3
<1>3. CASE ActionThread
  <2>1. /\ csv' = csv /\ count' \in {count, job.csv}
        /\ \/ nodes' \in {nodes, Filled(nodes, file)}
           \/ job.at = "end" /\ nodes' = MarkedAt(nodes, job.csv)
    BY <1>3, TeachInWays
    DEF Looked, Joined, Left, Appended, Reread, Ended, Counted
  <2>3. Len(nodes') <= Full
    BY <1>1, <1>6, <1>7, <2>1, JobTypes
  <2>2. job'.csv \in {0, job.csv, Len(file)}
    <3>1. job.at # "idle" => job \in [id : Ids, csv : Nat,
                                      at : {"mode", "append", "read", "end", "count"}]
      BY DEF Basic, Types, Idle
    <3>2. Idle.csv = 0
      BY DEF Idle
    <3>3. ASSUME NEW d \in Ids, Look(d) PROVE job'.csv = 0
      BY <3>3 DEF Look
    <3>4. ASSUME CheckMode PROVE job'.csv \in {0, job.csv}
      BY <3>1, <3>2, <3>4 DEF CheckMode
    <3>5. ASSUME EoSetEep PROVE job'.csv = job.csv
      BY <3>1, <3>5 DEF EoSetEep
    <3>6. ASSUME ReadCsv PROVE job'.csv = Len(file)
      BY <3>1, <3>6 DEF ReadCsv
    <3>8. ASSUME EndMark PROVE job'.csv = job.csv
      BY <3>1, <3>8 DEF EndMark
    <3>7. ASSUME EoReadControl PROVE job'.csv = 0
      BY <3>2, <3>7 DEF EoReadControl
    <3> QED BY <1>3, <3>3, <3>4, <3>5, <3>6, <3>7, <3>8 DEF ActionThread
  <2> QED BY <1>1, <2>1, <2>2, <2>3
<1>4. CASE ~LocalStep /\ ~ActionThread
  <2>1. UNCHANGED <<nodes, count, csv, job>>
    <3>1. ASSUME NEW c \in HostCommands, Begin(c)
          PROVE  UNCHANGED <<nodes, count, csv, job>>
      BY <3>1 DEF Begin, tableVars
    <3>2. CASE GetResponse \/ Timeout
      <4>1. PICK st : Respond(st)
        BY <3>2 DEF GetResponse, Timeout
      <4> QED BY <4>1 DEF Respond, tableVars
    <3>3. CASE SendCommand \/ FilterEnd \/ Execute \/ Fault \/ UNCHANGED vars
      BY <3>3 DEF SendCommand, FilterEnd, Execute, Fault, vars, mainVars, tableVars
    <3> QED BY <1>4, <3>1, <3>2, <3>3 DEF Next, Main
  <2> QED BY <1>1, <2>1
<1> QED BY <1>2, <1>3, <1>4

LEMMA StepBounds == Basic /\ Rows /\ Bounds /\ [Next]_vars => Bounds'
<1> SUFFICES ASSUME Basic, Rows, Bounds, [Next]_vars PROVE Bounds'
  OBVIOUS
<1>1. Full' = Full
  BY DEF Full
<1> QED BY <1>1, FewFaults, FewRetries, ShortTables DEF Bounds

\* Every variable keeps its type and its bounds.
LEMMA TypesAreRight == Basic /\ Rows /\ Bounds => TypeOK
<1> SUFFICES ASSUME Basic, Rows, Bounds PROVE TypeOK
  OBVIOUS
<1>1. /\ phase \in {"start", "run", "exited"} /\ todo \in Seq(Commands \cup Local)
      /\ index \in Nat \ {0} /\ failures \in Nat /\ lag \in Nat
      /\ modeSet \in Transceiver /\ mode \in Modes /\ count \in Nat /\ csv \in Nat
      /\ file \in Seq(Ids) /\ nodes \in Seq(Ids)
      /\ gateway \in Gateways
      /\ faults \in [slow : Nat, lost : Nat, silent : Nat, made : Nat]
      /\ job \in {Idle} \cup [id : Ids, csv : Nat,
                              at : {"mode", "append", "read", "end", "count"}]
  BY DEF Basic, Types, Ops
<1>2. {waiting, erp1gw, overlap, raced} \subseteq BOOLEAN
  BY DEF Basic, Types
<1>3. /\ Len(file) \in Nat /\ Len(nodes) \in Nat /\ Full \in Nat
      /\ Sizes = 0 .. Full /\ 2 * Cardinality(Ids) + 1 = Full + 1
      /\ StartRetries \in Nat /\ MaxFaults \in Nat
  BY <1>1, LenProperties, FullIsNat, GatewayAssumption DEF Sizes, Full
<1>4. /\ Len(file) \in Sizes /\ Len(nodes) \in Sizes /\ {count, csv} \subseteq Sizes
      /\ index \in 1 .. 2 * Cardinality(Ids) + 1
      /\ failures \in 0 .. StartRetries + 1
  BY <1>1, <1>3, FileSize DEF Bounds
<1>5. job \in {Idle} \cup [id : Ids, csv : Sizes,
                           at : {"mode", "append", "read", "end", "count"}]
  <2>1. CASE job = Idle
    BY <2>1
  <2>2. CASE job \in [id : Ids, csv : Nat, at : {"mode", "append", "read", "end", "count"}]
    <3>1. job.csv \in Sizes
      BY <1>3, <2>2 DEF Bounds
    <3> QED BY <2>2, <3>1
  <2> QED BY <1>1, <2>1, <2>2
<1>6. faults \in [slow : 0 .. MaxFaults, lost : 0 .. MaxFaults,
                  silent : 0 .. MaxFaults, made : 0 .. MaxFaults]
  <2>1. faults.slow + faults.lost + faults.silent + faults.made <= MaxFaults
    BY DEF Bounds
  <2>2. /\ faults.slow \in 0 .. MaxFaults /\ faults.lost \in 0 .. MaxFaults
        /\ faults.silent \in 0 .. MaxFaults /\ faults.made \in 0 .. MaxFaults
    <3>1. /\ faults.slow \in Nat /\ faults.lost \in Nat
          /\ faults.silent \in Nat /\ faults.made \in Nat
      BY FaultTypes
    <3>2. \A a, b, c, d \in Nat :
             a + b + c + d <= MaxFaults =>
                 /\ a \in 0 .. MaxFaults /\ b \in 0 .. MaxFaults
                 /\ c \in 0 .. MaxFaults /\ d \in 0 .. MaxFaults
      BY GatewayAssumption
    <3> QED BY <2>1, <3>1, <3>2
  <2> QED BY <1>1, <2>2
<1>7. /\ line \in Seq([op : Commands, id : Ids \cup {NoId},
                       mode : Transceiver, age : Nat])
      /\ answers \in Seq([status : Statuses, real : BOOLEAN, age : Nat])
  <2>1. Sent \subseteq [op : Commands, id : Ids \cup {NoId},
                       mode : Transceiver, age : Nat]
    BY DEF Sent
  <2>2. line \in Seq(Sent) /\ answers \in Seq(Answered)
    BY DEF Basic, Types
  <2> QED BY <2>1, <2>2, SeqMonotonic DEF Answered
<1> QED BY <1>1, <1>2, <1>4, <1>5, <1>6, <1>7 DEF TypeOK, Gateways

(***************************************************************************)
(* The gateway to be: what the gateway is when it has carried out all that *)
(* is on the line.  A witness of every step of the way is kept, so that    *)
(* nothing has to be said about the line by recursion.                     *)
(***************************************************************************)
Path(s) ==
    /\ s \in [0 .. Len(line) -> Gateways]
    /\ s[0] = gateway
    /\ \A k \in 1 .. Len(line) : s[k] = Obey(s[k - 1], line[k])
    /\ \A k \in 0 .. Len(line) : s[k].erp2 = gateway.erp2

ToBe(g) == \E s \in [0 .. Len(line) -> Gateways] : Path(s) /\ g = s[Len(line)]

\* What a command does, field by field.
LEMMA ObeyFields ==
    ASSUME NEW g \in Gateways, NEW c \in Sent
    PROVE  /\ Obey(g, c) \in Gateways /\ Obey(g, c).erp2 = g.erp2
           /\ Obey(g, c).mode =
                 IF c.op = "RESET" THEN "ERP1"
                 ELSE IF c.op \in {"WR_MODE", "START_MODE"} /\ g.erp2
                      THEN c.mode ELSE g.mode
           /\ Obey(g, c).filter =
                 IF c.op \in {"RESET", "DEL_ALL"} THEN {}
                 ELSE IF c.op = "ADD" THEN g.filter \cup {c.id} ELSE g.filter
           /\ Obey(g, c).enabled =
                 IF c.op \in {"RESET", "DISABLE"} THEN FALSE
                 ELSE IF c.op = "ENABLE" THEN TRUE ELSE g.enabled
<1>1. g = [erp2 |-> g.erp2, mode |-> g.mode, filter |-> g.filter, enabled |-> g.enabled]
  BY DEF Gateways
<1>2. Obey(g, c) \in Gateways /\ Obey(g, c).erp2 = g.erp2
  BY ObeyKeeps
<1>3. CASE c.op = "RESET"
  <2>1. Obey(g, c) = [erp2 |-> g.erp2, mode |-> "ERP1", filter |-> {}, enabled |-> FALSE]
    BY <1>1, <1>3 DEF Obey
  <2> QED BY <1>2, <1>3, <2>1
<1>4. CASE c.op \in {"WR_MODE", "START_MODE"} /\ g.erp2
  <2>1. Obey(g, c) = [erp2 |-> g.erp2, mode |-> c.mode, filter |-> g.filter, enabled |-> g.enabled]
    BY <1>1, <1>4 DEF Obey
  <2>2. /\ Obey(g, c).mode = c.mode /\ Obey(g, c).filter = g.filter
        /\ Obey(g, c).enabled = g.enabled
    BY <2>1
  <2>3. c.op = "WR_MODE" \/ c.op = "START_MODE"
    BY <1>4
  <2> QED BY <1>2, <1>4, <2>2, <2>3
<1>5. CASE c.op \in {"WR_MODE", "START_MODE"} /\ ~g.erp2
  <2>1. Obey(g, c) = g
    BY <1>5 DEF Obey
  <2> QED BY <1>2, <1>5, <2>1
<1>6. CASE c.op = "DEL_ALL"
  <2>1. Obey(g, c) = [erp2 |-> g.erp2, mode |-> g.mode, filter |-> {}, enabled |-> g.enabled]
    BY <1>1, <1>6 DEF Obey
  <2> QED BY <1>2, <1>6, <2>1
<1>7. CASE c.op = "ADD"
  <2>1. Obey(g, c) = [erp2 |-> g.erp2, mode |-> g.mode, filter |-> g.filter \cup {c.id}, enabled |-> g.enabled]
    BY <1>1, <1>7 DEF Obey
  <2> QED BY <1>2, <1>7, <2>1
<1>8. CASE c.op = "ENABLE"
  <2>1. Obey(g, c) = [erp2 |-> g.erp2, mode |-> g.mode, filter |-> g.filter, enabled |-> TRUE]
    BY <1>1, <1>8 DEF Obey
  <2> QED BY <1>2, <1>8, <2>1
<1>9. CASE c.op = "DISABLE"
  <2>1. Obey(g, c) = [erp2 |-> g.erp2, mode |-> g.mode, filter |-> g.filter, enabled |-> FALSE]
    BY <1>1, <1>9 DEF Obey
  <2> QED BY <1>2, <1>9, <2>1
<1>10. CASE c.op = "VERSION"
  <2>1. Obey(g, c) = g
    BY <1>10 DEF Obey
  <2> QED BY <1>2, <1>10, <2>1
<1>11. c.op \in Commands
  BY DEF Sent
<1> QED
  BY <1>3, <1>4, <1>5, <1>6, <1>7, <1>8, <1>9, <1>10, <1>11 DEF Commands

LEMMA ToBeOnce ==
    ASSUME Basic, line = <<>>, NEW g
    PROVE  /\ ToBe(g) => g = gateway
           /\ ToBe(gateway)
<1>1. Len(line) = 0 /\ gateway \in Gateways
  BY QueueLengths DEF Basic, Types
<1>2. ToBe(g) => g = gateway
  BY <1>1 DEF ToBe, Path
<1>3. ToBe(gateway)
  <2> DEFINE s == [k \in 0 .. 0 |-> gateway]
  <2>1. s \in [0 .. Len(line) -> Gateways] /\ s[0] = gateway
    BY <1>1
  <2>2. \A k \in 1 .. Len(line) : FALSE
    BY <1>1
  <2>3. \A k \in 0 .. Len(line) : s[k].erp2 = gateway.erp2
    BY <1>1
  <2> HIDE DEF s
  <2>4. Path(s)
    BY <2>1, <2>2, <2>3 DEF Path
  <2> QED BY <1>1, <2>1, <2>4 DEF ToBe
<1> QED BY <1>2, <1>3

LEMMA ToBeIsOne ==
    ASSUME Basic, NEW g, ToBe(g)
    PROVE  g \in Gateways /\ g.erp2 = gateway.erp2
<1>1. PICK s \in [0 .. Len(line) -> Gateways] : Path(s) /\ g = s[Len(line)]
  BY DEF ToBe
<1>2. Len(line) \in 0 .. Len(line)
  BY QueueLengths
<1> QED BY <1>1, <1>2 DEF Path

LEMMA ToBeStands ==
    ASSUME UNCHANGED <<line, gateway>>, NEW g, ToBe(g)
    PROVE  ToBe(g)'
BY DEF ToBe, Path

\* A command sent is one more to carry out, ...
LEMMA ToBeSent ==
    ASSUME Basic, SendCommand, NEW g, ToBe(g), NEW h, h = Obey(g, New)
    PROVE  ToBe(h)'
<1>1. PICK n \in Nat : n = Len(line)
  BY QueueLengths
<1>2. /\ Len(line') = n + 1 /\ gateway' = gateway
      /\ \A j \in 1 .. n :
            /\ line'[j].op = line[j].op /\ line'[j].id = line[j].id
            /\ line'[j].mode = line[j].mode
      /\ line'[n + 1] = New /\ New \in Sent
  BY <1>1, SendQueues
<1>3. PICK s \in [0 .. n -> Gateways] : Path(s) /\ g = s[n]
  BY <1>1 DEF ToBe
<1>4. /\ s[0] = gateway
      /\ \A k \in 1 .. n : s[k] = Obey(s[k - 1], line[k])
      /\ \A k \in 0 .. n : s[k].erp2 = gateway.erp2 /\ s[k] \in Gateways
  BY <1>1, <1>3 DEF Path
<1>5. g \in Gateways /\ g.erp2 = gateway.erp2
  BY <1>1, <1>3, <1>4
<1>6. h \in Gateways /\ h.erp2 = gateway.erp2
  BY <1>2, <1>5, ObeyFields
<1>7. PICK t : t = [k \in 0 .. n + 1 |-> IF k = n + 1 THEN h ELSE s[k]]
  OBVIOUS
<1>8. /\ t \in [0 .. n + 1 -> Gateways] /\ t[0] = gateway /\ t[n + 1] = h
      /\ \A k \in 0 .. n : t[k] = s[k]
      /\ \A k \in 0 .. n + 1 : t[k].erp2 = gateway.erp2
  BY <1>1, <1>4, <1>6, <1>7
<1>9. \A k \in 1 .. n + 1 : t[k] = Obey(t[k - 1], line'[k])
  <2> SUFFICES ASSUME NEW k \in 1 .. n + 1
               PROVE  t[k] = Obey(t[k - 1], line'[k])
    OBVIOUS
  <2>1. CASE k = n + 1
    <3>1. t[k - 1] = g /\ line'[k] = New
      BY <1>2, <1>3, <1>8, <2>1
    <3> QED BY <1>8, <2>1, <3>1
  <2>2. CASE k \in 1 .. n
    <3>1. t[k] = s[k] /\ t[k - 1] = s[k - 1] /\ s[k] = Obey(s[k - 1], line[k])
      BY <1>4, <1>8, <2>2
    <3>2. Obey(s[k - 1], line'[k]) = Obey(s[k - 1], line[k])
      BY <1>2, <2>2 DEF Obey
    <3> QED BY <3>1, <3>2
  <2> QED BY <1>1, <2>1, <2>2
<1>10. Len(line)' = n + 1
  BY <1>2
<1>11. Path(t)'
  BY <1>2, <1>8, <1>9, <1>10 DEF Path
<1> QED BY <1>8, <1>10, <1>11 DEF ToBe

\* ... one carried out is the first step of the way.
LEMMA ToBeCarried ==
    ASSUME Basic, line # <<>>, line' = Tail(line),
           gateway' = Obey(gateway, Head(line)), NEW g, ToBe(g)
    PROVE  ToBe(g)'
<1>1. PICK n \in Nat : n = Len(line)
  BY QueueLengths
<1>2. /\ n # 0 /\ Len(line') = n - 1
      /\ \A j \in 1 .. n - 1 : line'[j] = line[j + 1]
      /\ Head(line) = line[1]
  BY <1>1, TakenFromLine
<1>3. PICK s \in [0 .. n -> Gateways] : Path(s) /\ g = s[n]
  BY <1>1 DEF ToBe
<1>4. /\ s[0] = gateway
      /\ \A k \in 1 .. n : s[k] = Obey(s[k - 1], line[k])
      /\ \A k \in 0 .. n : s[k].erp2 = gateway.erp2 /\ s[k] \in Gateways
  BY <1>1, <1>3 DEF Path
<1>5. gateway' = s[1]
  <2>1. 1 \in 1 .. n /\ 1 - 1 = 0
    BY <1>1, <1>2
  <2>2. s[1] = Obey(s[1 - 1], line[1])
    BY <1>4, <2>1
  <2> QED BY <1>2, <1>4, <2>1, <2>2
<1>6. PICK t : t = [k \in 0 .. n - 1 |-> s[k + 1]]
  OBVIOUS
<1>7. \A k \in 0 .. n - 1 : k + 1 \in 0 .. n /\ t[k] = s[k + 1]
  BY <1>1, <1>6
<1>8. /\ t \in [0 .. n - 1 -> Gateways] /\ t[0] = s[1] /\ t[n - 1] = g
      /\ \A k \in 0 .. n - 1 : t[k].erp2 = s[1].erp2
  <2>1. t \in [0 .. n - 1 -> Gateways]
    BY <1>4, <1>6, <1>7
  <2>2. 0 \in 0 .. n - 1 /\ 0 + 1 = 1 /\ n - 1 \in 0 .. n - 1 /\ n - 1 + 1 = n
        /\ 1 \in 0 .. n
    BY <1>1, <1>2
  <2>3. t[0] = s[1] /\ t[n - 1] = g
    BY <1>3, <1>7, <2>2
  <2>4. \A k \in 0 .. n - 1 : t[k].erp2 = s[1].erp2
    BY <1>4, <1>7, <2>2
  <2> QED BY <2>1, <2>3, <2>4
<1>9. \A k \in 1 .. n - 1 : t[k] = Obey(t[k - 1], line'[k])
  <2> SUFFICES ASSUME NEW k \in 1 .. n - 1
               PROVE  t[k] = Obey(t[k - 1], line'[k])
    OBVIOUS
  <2>1. /\ k \in 0 .. n - 1 /\ k - 1 \in 0 .. n - 1 /\ k + 1 \in 1 .. n
        /\ (k - 1) + 1 = k /\ (k + 1) - 1 = k
    BY <1>1
  <2>2. t[k] = s[k + 1] /\ t[k - 1] = s[k] /\ line'[k] = line[k + 1]
    BY <1>2, <1>7, <2>1
  <2>3. s[k + 1] = Obey(s[(k + 1) - 1], line[k + 1])
    BY <1>4, <2>1
  <2> QED BY <2>1, <2>2, <2>3
<1>10. Len(line)' = n - 1
  BY <1>2
<1>11. Path(t)'
  BY <1>5, <1>8, <1>9, <1>10 DEF Path
<1> QED BY <1>8, <1>10, <1>11 DEF ToBe

(***************************************************************************)
(* Agrees: what the gateway to be has in common with dpride's mode and     *)
(* tables, at each of main's steps, unless something is lost or a teach-in *)
(* overlaps.                                                               *)
(***************************************************************************)
Elems(s) == {s[i] : i \in 1 .. Len(s)}
Upto(s, n) == {s[i] : i \in {j \in 1 .. Len(s) : j <= n}}

At(x) == todo # <<>> /\ Head(todo) = x
AtBefore(x, y) == At(x) /\ Len(todo) > 1 /\ todo[2] = y
AtLast(x) == At(x) /\ Len(todo) = 1

\* Nothing of the filter is under way.
Still ==
    \/ todo = <<>>
    \/ AtLast("WR_MODE") \/ AtBefore("WR_MODE", "Operation")
    \/ AtLast("VERSION")
Rest(g) ==
    /\ g.enabled <=> mode = "Operation" /\ count > 0
    /\ g.enabled => g.filter = Elems(file)
    /\ mode = "Operation" => count = Len(file)

\* The filter is to be off, or on.
Off == mode = "Operation" => count = 0 /\ file = <<>>
On == mode = "Operation" /\ nodes = file /\ count = Len(file) /\ count > 0

Entering(g) ==
    /\ At("Operation") => (g.enabled => file # <<>>)
    /\ At("READ") => mode = "Operation" /\ (g.enabled => file # <<>>)
    /\ At("MARK") => /\ mode = "Operation" /\ csv = Len(file)
                     /\ g.enabled => file # <<>>
    /\ At("COUNT") => /\ mode = "Operation" /\ nodes = file
                      /\ csv = Len(file)
                      /\ g.enabled => file # <<>>
    /\ At("APPLY") => /\ mode = "Operation" /\ nodes = file
                      /\ count = Len(file)
                      /\ g.enabled => file # <<>>
Filling(g) ==
    /\ AtBefore("VERSION", "DEL_ALL") => On
    /\ AtBefore("DEL_ALL", "ADD") => On /\ (waiting => g.filter = {})
    /\ At("ADD") => /\ On
                    /\ g.filter = Upto(nodes, IF waiting THEN index
                                              ELSE index - 1)
    /\ At("ENABLE") => /\ On /\ g.filter = Elems(file)
                       /\ waiting => g.enabled
Opening(g) ==
    /\ AtBefore("COUNT_0", "DEL_ALL") => file = <<>>
    /\ AtBefore("DEL_ALL", "DISABLE") => Off
    /\ At("DISABLE") => Off /\ (waiting => ~g.enabled)

Will(g) ==
    phase = "run" /\ ~overlap =>
        /\ Still => Rest(g)
        /\ Entering(g) /\ Filling(g) /\ Opening(g)

\* In the start loop: a gateway reset lets through everything, and in
\* Operation mode no teach-in touches the tables.
Fresh(g) ==
    phase = "start" =>
        /\ waiting \/ At("START_MODE") => ~g.enabled
        /\ mode = "Operation" => /\ nodes = file /\ count = Len(file)
                                 /\ job.at \in {"idle", "mode"}

\* The transceiver's mode is the one main wrote last.
Tuned(g) ==
    g.erp2 /\ faults.made = 0 =>
        /\ phase = "run" /\ ~(At("WR_MODE") /\ ~waiting) => g.mode = modeSet
        /\ phase = "start" /\ At("START_MODE") /\ waiting => g.mode = modeSet

\* A teach-in that nothing overlapped changes the tables in Register mode.
Quiet ==
    ~overlap /\ job.at \in {"append", "read", "end", "count"} =>
        MainIdle /\ mode = "Register"

Agreeing(g) == Will(g) /\ Fresh(g) /\ Tuned(g)
Agrees ==
    /\ Quiet
    /\ faults.lost = 0 => \E g \in Gateways : ToBe(g) /\ Agreeing(g)

\* What main was at before it comes to a step of its plan.
LEMMA Before ==
    ASSUME Basic, Cleared(todo), todo # <<>>, todo' = Tail(todo)
    PROVE  /\ Still' => todo' = <<>>
           /\ todo' = <<>> =>
                 \/ AtLast("WR_MODE") \/ AtLast("VERSION")
                 \/ At("DISABLE") \/ At("ENABLE") \/ At("APPLY")
                 \/ At("RESET") \/ At("START_MODE")
           /\ ~At("WR_MODE")' /\ ~At("START_MODE")'
           /\ At("Operation")' => AtBefore("WR_MODE", "Operation")
           /\ At("READ")' => At("Operation")
           /\ At("MARK")' => At("READ")
           /\ At("COUNT")' => At("MARK")
           /\ At("APPLY")' => At("COUNT")
           /\ ~AtBefore("VERSION", "DEL_ALL")'
           /\ AtBefore("DEL_ALL", "ADD")' => AtBefore("VERSION", "DEL_ALL")
           /\ At("ADD")' => AtBefore("DEL_ALL", "ADD")
           /\ At("ENABLE")' => At("ADD")
           /\ AtBefore("COUNT_0", "DEL_ALL")' => At("TRUNCATE")
           /\ AtBefore("DEL_ALL", "DISABLE")' =>
                 At("Monitor") \/ AtBefore("COUNT_0", "DEL_ALL")
           /\ At("DISABLE")' =>
                 AtBefore("DEL_ALL", "DISABLE") \/ At("Register")
<1>1. /\ Len(todo) \in Nat \ {0} /\ Len(todo') = Len(todo) - 1
      /\ Head(todo) = todo[1]
      /\ \A i \in 1 .. Len(todo) - 1 : todo'[i] = todo[i + 1]
      /\ todo' \in Seq(Ops)
  BY Shorter DEF Basic, Types
<1>2. (todo' = <<>> <=> Len(todo) = 1) /\ (todo' # <<>> => Head(todo') = todo'[1])
  <2>1. todo' = <<>> <=> Len(todo') = 0
    BY <1>1, EmptySeq
  <2>2. todo' # <<>> => Head(todo') = todo'[1]
    BY <1>1, HeadTailProperties
  <2> QED BY <1>1, <2>1, <2>2
<1>3. \A x : At(x)' <=> Len(todo) > 1 /\ todo[2] = x
  <2>1. Len(todo) > 1 => todo'[1] = todo[2]
    BY <1>1
  <2> QED BY <1>1, <1>2, <2>1 DEF At
<1>4. \A x, y : AtBefore(x, y)' <=> Len(todo) > 2 /\ todo[2] = x /\ todo[3] = y
  <2>1. Len(todo) > 2 => todo'[2] = todo[3]
    BY <1>1
  <2> QED BY <1>1, <1>3, <2>1 DEF AtBefore
<1>5. \A x : At(x) <=> todo[1] = x
  BY <1>1 DEF At
<1>6. /\ Len(todo) > 1 => <<todo[1], todo[2]>> \in Follows
      /\ Len(todo) > 2 => <<todo[2], todo[3]>> \in Follows
      /\ todo[Len(todo)] \in Ends
  <2>1. Ordered(todo)
    BY DEF Basic, Plan
  <2>2. Len(todo) > 1 => 1 \in 1 .. Len(todo) - 1
    BY <1>1
  <2>3. Len(todo) > 2 => 2 \in 1 .. Len(todo) - 1
    BY <1>1
  <2> QED BY <2>1, <2>2, <2>3 DEF Ordered
<1>7. /\ Len(todo) > 2 /\ todo[3] = "ADD" => todo[1] \in {"VERSION", "DEL_ALL"}
      /\ Len(todo) > 2 /\ todo[3] = "DISABLE" => todo[1] # "VERSION"
      /\ Len(todo) > 2 /\ todo[3] = "DEL_ALL" => todo[1] # "CLEAR_TABLE"
  <2>1. Len(todo) > 2 => 1 \in 1 .. Len(todo) /\ 3 \in 1 .. Len(todo)
    BY <1>1
  <2> QED BY <2>1 DEF Cleared
<1>8. ~At("WR_MODE")' /\ ~At("START_MODE")' /\ ~At("VERSION")'
  BY <1>3, <1>6 DEF Follows
<1>9. /\ Still' => todo' = <<>>
      /\ ~AtBefore("VERSION", "DEL_ALL")'
  BY <1>8 DEF Still, AtBefore, AtLast
<1>10. todo' = <<>> =>
          \/ AtLast("WR_MODE") \/ AtLast("VERSION")
          \/ At("DISABLE") \/ At("ENABLE") \/ At("APPLY")
          \/ At("RESET") \/ At("START_MODE")
  BY <1>2, <1>5, <1>6 DEF AtLast, Ends
<1>11. /\ At("Operation")' => AtBefore("WR_MODE", "Operation")
       /\ At("READ")' => At("Operation")
       /\ At("MARK")' => At("READ")
       /\ At("COUNT")' => At("MARK")
       /\ At("APPLY")' => At("COUNT")
       /\ At("ADD")' => AtBefore("DEL_ALL", "ADD")
       /\ At("ENABLE")' => At("ADD")
  BY <1>3, <1>5, <1>6 DEF AtBefore, Follows
<1>12. At("DISABLE")' => AtBefore("DEL_ALL", "DISABLE") \/ At("Register")
  BY <1>3, <1>5, <1>6 DEF AtBefore, Follows
<1>13. AtBefore("DEL_ALL", "ADD")' => AtBefore("VERSION", "DEL_ALL")
  BY <1>1, <1>4, <1>5, <1>6, <1>7 DEF AtBefore, Follows
<1>14. AtBefore("COUNT_0", "DEL_ALL")' => At("TRUNCATE")
  BY <1>1, <1>4, <1>5, <1>6, <1>7 DEF Follows
<1>15. AtBefore("DEL_ALL", "DISABLE")' =>
           At("Monitor") \/ AtBefore("COUNT_0", "DEL_ALL")
  <2> SUFFICES ASSUME Len(todo) > 2, todo[2] = "DEL_ALL", todo[3] = "DISABLE"
               PROVE  At("Monitor") \/ AtBefore("COUNT_0", "DEL_ALL")
    BY <1>4
  <2>1. <<todo[1], "DEL_ALL">> \in Follows /\ Len(todo) > 1
    BY <1>1, <1>6
  <2>2. todo[1] \in {"Monitor", "COUNT_0", "VERSION"}
    BY <2>1 DEF Follows
  <2>3. todo[1] # "VERSION"
    BY <1>7
  <2> QED BY <1>5, <2>1, <2>2, <2>3 DEF AtBefore
<1> QED
  BY <1>8, <1>9, <1>10, <1>11, <1>12, <1>13, <1>14, <1>15

LEMMA TableTypes ==
    ASSUME Basic
    PROVE  /\ count \in Nat /\ Len(file) \in Nat /\ Len(nodes) \in Nat
           /\ file = <<>> <=> Len(file) = 0
           /\ index \in Nat \ {0}
           /\ phase \in {"start", "run", "exited"}
<1>1. file \in Seq(Ids) /\ nodes \in Seq(Ids)
  BY DEF Basic, Types
<1> QED BY <1>1, LenProperties, EmptySeq DEF Basic, Types

LEMMA InitAgrees == Init => Agrees
<1> SUFFICES ASSUME Init PROVE Agrees
  OBVIOUS
<1>1. Basic /\ line = <<>> /\ job.at = "idle" /\ phase = "start"
      /\ todo = <<"RESET">> /\ waiting = FALSE /\ nodes = file /\ count = Len(file)
  BY InitBasic DEF Init, Idle
<1>2. gateway \in Gateways /\ ToBe(gateway)
  BY <1>1, ToBeOnce DEF Basic, Types
<1>3. ~At("START_MODE")
  BY <1>1 DEF At
<1>4. Agreeing(gateway)
  BY <1>1, <1>3 DEF Agreeing, Will, Fresh, Tuned
<1> QED BY <1>1, <1>2, <1>4 DEF Agrees, Quiet

\* Main begins a command of the host.
LEMMA BeginAgrees ==
    ASSUME Basic, NEW c \in HostCommands, Begin(c), NEW g \in Gateways,
           Agreeing(g)
    PROVE  Agreeing(g)'
<1>1. /\ phase = "run" /\ todo = <<>> /\ todo' = Script[c] /\ ~waiting
      /\ UNCHANGED <<phase, index, waiting, mode, count, file, nodes, job, faults>>
      /\ c \in DOMAIN Script
      /\ overlap' = (job # Idle \/ (c \in {"Operation", "Unknown"} /\ overlap))
  BY HostAssumption DEF Begin, MainIdle, tableVars, gateVars, Basic, Plan
<1>2. /\ todo' # <<>> /\ Head(todo') \in {"WR_MODE", "TRUNCATE"}
      /\ Head(todo') = "TRUNCATE" => modeSet' = modeSet
      /\ Still' => c \in {"Operation", "Unknown"}
  <2>1. todo' # <<>> /\ Head(todo') \in {"WR_MODE", "TRUNCATE"}
    BY <1>1, ScriptOrdered
  <2>2. c \in {"Monitor", "Register", "Clear", "Operation", "Unknown", "FilterClear"}
    BY <1>1 DEF Script
  <2>3. CASE c = "Monitor"
    <3>1. todo' = <<"WR_MODE", "Monitor", "DEL_ALL", "DISABLE">>
      BY <1>1, <2>3 DEF Script
    <3> QED BY <2>1, <3>1 DEF Still, AtBefore, AtLast, At
  <2>4. CASE c = "Register"
    <3>1. todo' = <<"WR_MODE", "Register", "DISABLE">>
      BY <1>1, <2>4 DEF Script
    <3> QED BY <2>1, <3>1 DEF Still, AtBefore, AtLast, At
  <2>5. CASE c = "Clear"
    <3>5. Len(todo') = 8 /\ todo'[2] = "TRUNCATE"
      BY <1>1, <2>5, ScriptOrdered
    <3>6. ~AtBefore("WR_MODE", "Operation")' /\ ~AtLast("WR_MODE")'
          /\ ~AtLast("VERSION")'
      BY <3>5 DEF AtBefore, AtLast
    <3>7. Head(todo') = "WR_MODE"
      BY <1>1, <2>5, ScriptOrdered
    <3> QED BY <2>1, <3>6, <3>7 DEF Still
  <2>6. CASE c = "Operation" \/ c = "Unknown"
    <3>1. Head(todo') = "WR_MODE"
      BY <1>1, <2>6 DEF Script
    <3> QED BY <2>1, <2>6, <3>1
  <2>7. CASE c = "FilterClear"
    <3>1. modeSet' = modeSet
      BY <2>7 DEF Begin
    <3>2. Head(todo') = "TRUNCATE"
      <4>1. todo' = EoClearControl \o <<"DEL_ALL", "DISABLE">>
        BY <1>1, <2>7 DEF Script
      <4> QED BY <4>1 DEF EoClearControl
    <3> QED BY <2>1, <3>1, <3>2 DEF Still, AtBefore, AtLast, At
  <2> QED BY <2>2, <2>3, <2>4, <2>5, <2>6, <2>7
<1>3. /\ ~At("Operation")' /\ ~At("READ")' /\ ~At("MARK")' /\ ~At("COUNT")'
      /\ ~At("APPLY")' /\ ~At("ADD")'
      /\ ~At("ENABLE")' /\ ~At("DISABLE")' /\ ~At("VERSION")' /\ ~At("DEL_ALL")'
      /\ ~At("COUNT_0")' /\ ~At("START_MODE")'
  BY <1>2 DEF At
<1>4. Entering(g)' /\ Filling(g)' /\ Opening(g)'
  BY <1>3 DEF Entering, Filling, Opening, AtBefore
<1>5. ~overlap' /\ Still' => Rest(g)'
  <2> SUFFICES ASSUME ~overlap', Still' PROVE Rest(g)'
    OBVIOUS
  <2>1. ~overlap
    BY <1>1, <1>2
  <2>2. Rest(g)
    BY <1>1, <2>1 DEF Agreeing, Will, Still
  <2> QED BY <1>1, <2>2 DEF Rest, Elems
<1>6. Will(g)'
  BY <1>4, <1>5 DEF Will
<1>7. Fresh(g)'
  BY <1>1 DEF Fresh
<1>8. Tuned(g)'
  <2>1. At("WR_MODE")' \/ modeSet' = modeSet
    BY <1>2 DEF At
  <2>2. ~At("WR_MODE")
    BY <1>1 DEF At
  <2> QED BY <1>1, <2>1, <2>2 DEF Agreeing, Tuned
<1> QED BY <1>6, <1>7, <1>8 DEF Agreeing

\* Main sends a command: the gateway to be is the one that has obeyed it.
LEMMA SendAgrees ==
    ASSUME Basic, SendCommand, NEW g \in Gateways, Agreeing(g),
           NEW h, h = Obey(g, New)
    PROVE  Agreeing(h)'
<1>1. /\ ~waiting /\ waiting' /\ todo # <<>> /\ Head(todo) \in Commands
      /\ UNCHANGED <<phase, todo, index, modeSet, csv, mode, count, file, nodes,
                     job, faults, overlap>>
      /\ New \in Sent /\ New.op = Head(todo) /\ New.mode = modeSet
  BY SendQueues DEF New, SendCommand
<1>2. /\ h \in Gateways /\ h.erp2 = g.erp2
      /\ h.mode = IF Head(todo) = "RESET" THEN "ERP1"
                  ELSE IF Head(todo) \in {"WR_MODE", "START_MODE"} /\ g.erp2
                       THEN modeSet ELSE g.mode
      /\ h.filter = IF Head(todo) \in {"RESET", "DEL_ALL"} THEN {}
                    ELSE IF Head(todo) = "ADD" THEN g.filter \cup {New.id}
                    ELSE g.filter
      /\ h.enabled = IF Head(todo) \in {"RESET", "DISABLE"} THEN FALSE
                     ELSE IF Head(todo) = "ENABLE" THEN TRUE ELSE g.enabled
  <2>1. New \in Sent /\ New.op = Head(todo) /\ New.mode = modeSet
    BY <1>1
  <2>2. h \in Gateways /\ h.erp2 = g.erp2
    BY <2>1, ObeyFields
  <2>3. h.mode = IF New.op = "RESET" THEN "ERP1"
                 ELSE IF New.op \in {"WR_MODE", "START_MODE"} /\ g.erp2
                      THEN New.mode ELSE g.mode
    BY <2>1, ObeyFields
  <2>4. h.filter = IF New.op \in {"RESET", "DEL_ALL"} THEN {}
                   ELSE IF New.op = "ADD" THEN g.filter \cup {New.id}
                   ELSE g.filter
    BY <2>1, ObeyFields
  <2>5. h.enabled = IF New.op \in {"RESET", "DISABLE"} THEN FALSE
                    ELSE IF New.op = "ENABLE" THEN TRUE ELSE g.enabled
    BY <2>1, ObeyFields
  <2> QED BY <2>1, <2>2, <2>3, <2>4, <2>5
<1>3. /\ \A x : At(x)' <=> At(x)
      /\ \A x, y : AtBefore(x, y)' <=> AtBefore(x, y)
      /\ \A x : At(x) <=> Head(todo) = x
      /\ (Still' <=> Still) /\ (On' <=> On) /\ (Off' <=> Off)
      /\ todo # <<>>
  BY <1>1 DEF At, AtBefore, AtLast, Still, On, Off
<1>4. phase = "run" => Head(todo) \notin {"RESET", "START_MODE"}
  BY <1>1 DEF Basic, Plan
<1>5. phase = "start" => Head(todo) \in {"RESET", "START_MODE"}
  BY DEF Basic, Plan
<1>6. ASSUME Still, phase = "run", Rest(g) PROVE Rest(h)'
  <2>1. At("WR_MODE") \/ At("VERSION")
    BY <1>3, <1>6 DEF Still, AtBefore, AtLast
  <2>2. h.filter = g.filter /\ h.enabled = g.enabled
    <3>1. Head(todo) = "WR_MODE" \/ Head(todo) = "VERSION"
      BY <1>3, <2>1
    <3>2. /\ Head(todo) \notin {"RESET", "DEL_ALL", "DISABLE"}
          /\ Head(todo) # "ADD" /\ Head(todo) # "ENABLE"
      BY <3>1
    <3> QED BY <1>2, <3>2
  <2> QED BY <1>1, <1>6, <2>2 DEF Rest, Elems
<1>7. Entering(h)'
  <2>1. /\ ~At("Operation") /\ ~At("READ") /\ ~At("MARK") /\ ~At("COUNT")
        /\ ~At("APPLY")
    BY <1>1, <1>3, LocalNotSent DEF Local, Modes
  <2> QED BY <1>3, <2>1 DEF Entering
<1>8. ASSUME Filling(g) PROVE Filling(h)'
  <2>1. AtBefore("VERSION", "DEL_ALL")' => On'
    BY <1>3, <1>8 DEF Filling
  <2>2. AtBefore("DEL_ALL", "ADD")' => On' /\ h.filter = {}
    <3>1. AtBefore("DEL_ALL", "ADD") => Head(todo) = "DEL_ALL"
      BY <1>3 DEF AtBefore
    <3> QED BY <1>2, <1>3, <1>8, <3>1 DEF Filling
  <2>3. ASSUME At("ADD") PROVE On' /\ h.filter = Upto(nodes, index)
    <3>1. On /\ g.filter = Upto(nodes, index - 1)
      BY <1>1, <1>8, <2>3 DEF Filling
    <3>2. Head(todo) = "ADD" /\ index \in 1 .. Len(nodes)
      <4>1. Head(todo) = "ADD"
        BY <1>3, <2>3
      <4> QED BY <4>1, TableTypes DEF SendCommand
    <3>3. h.filter = g.filter \cup {nodes[index]}
      <4>1. New.id = nodes[index]
        BY <3>2 DEF New
      <4> QED BY <1>2, <3>2, <4>1
    <3>4. Upto(nodes, index) = Upto(nodes, index - 1) \cup {nodes[index]}
      <4>1. {j \in 1 .. Len(nodes) : j <= index} =
               {j \in 1 .. Len(nodes) : j <= index - 1} \cup {index}
        BY <3>2, TableTypes
      <4> QED BY <4>1 DEF Upto
    <3> QED BY <1>3, <3>1, <3>3, <3>4
  <2>4. At("ENABLE")' => On' /\ h.filter = Elems(file) /\ h.enabled
    <3>1. At("ENABLE") => Head(todo) = "ENABLE"
      BY <1>3
    <3> QED BY <1>2, <1>3, <1>8, <3>1 DEF Filling
  <2> QED BY <1>1, <1>3, <2>1, <2>2, <2>3, <2>4 DEF Filling, Elems, Upto
<1>9. ASSUME Opening(g) PROVE Opening(h)'
  <2>1. At("DISABLE") => ~h.enabled
    BY <1>2, <1>3
  <2> QED BY <1>1, <1>3, <1>9, <2>1 DEF Opening
<1>10. Will(h)'
  BY <1>1, <1>3, <1>6, <1>7, <1>8, <1>9 DEF Agreeing, Will
<1>11. Fresh(h)'
  <2>1. phase = "start" => ~h.enabled
    <3>1. phase = "start" /\ Head(todo) = "START_MODE" => ~g.enabled
      BY <1>3 DEF Agreeing, Fresh
    <3> QED BY <1>2, <1>5, <3>1
  <2> QED BY <1>1, <2>1 DEF Agreeing, Fresh
<1>12. Tuned(h)'
  <2> SUFFICES ASSUME g.erp2, faults.made = 0
               PROVE  /\ phase = "run" => h.mode = modeSet
                      /\ phase = "start" /\ At("START_MODE") => h.mode = modeSet
    BY <1>1, <1>2, <1>3 DEF Tuned
  <2>1. CASE Head(todo) \in {"WR_MODE", "START_MODE"}
    <3>1. h.mode = modeSet
      BY <1>2, <2>1
    <3> QED BY <3>1
  <2>2. CASE Head(todo) \notin {"WR_MODE", "START_MODE"}
    <3>1. phase = "run" => g.mode = modeSet
      BY <1>3, <2>2 DEF Agreeing, Tuned
    <3> QED BY <1>2, <1>3, <1>4, <2>2, <3>1
  <2> QED BY <2>1, <2>2
<1> QED BY <1>10, <1>11, <1>12 DEF Agreeing

\* Main goes on in its plan after an answer, or at the end of the filter.
LEMMA GoOnAgrees ==
    ASSUME Basic, Rows, NEW g \in Gateways, Agreeing(g), phase = "run",
           todo # <<>>, todo' = Tail(todo), waiting' = FALSE,
           UNCHANGED <<phase, modeSet, csv, mode, count, file, nodes, job, overlap>>,
           faults'.made = faults.made,
           \/ waiting /\ Head(todo) \in Commands \ {"ADD"} /\ index' = 1
           \/ /\ ~waiting /\ Head(todo) = "ADD" /\ index' = index
              /\ index > count \/ index > Len(nodes)
    PROVE  Agreeing(g)'
<1>1. /\ Still' => todo' = <<>>
      /\ todo' = <<>> =>
            \/ AtLast("WR_MODE") \/ AtLast("VERSION")
            \/ At("DISABLE") \/ At("ENABLE") \/ At("APPLY")
            \/ At("RESET") \/ At("START_MODE")
      /\ ~At("WR_MODE")' /\ ~At("START_MODE")'
      /\ At("Operation")' => AtBefore("WR_MODE", "Operation")
      /\ At("READ")' => At("Operation")
      /\ At("MARK")' => At("READ")
      /\ At("COUNT")' => At("MARK")
      /\ At("APPLY")' => At("COUNT")
      /\ ~AtBefore("VERSION", "DEL_ALL")'
      /\ AtBefore("DEL_ALL", "ADD")' => AtBefore("VERSION", "DEL_ALL")
      /\ At("ADD")' => AtBefore("DEL_ALL", "ADD")
      /\ At("ENABLE")' => At("ADD")
      /\ AtBefore("COUNT_0", "DEL_ALL")' => At("TRUNCATE")
      /\ AtBefore("DEL_ALL", "DISABLE")' =>
            At("Monitor") \/ AtBefore("COUNT_0", "DEL_ALL")
      /\ At("DISABLE")' => AtBefore("DEL_ALL", "DISABLE") \/ At("Register")
  BY Before DEF Rows
<1>2. /\ ~At("Operation") /\ ~At("READ") /\ ~At("MARK") /\ ~At("COUNT")
      /\ ~At("APPLY") /\ ~At("TRUNCATE")
      /\ ~At("Monitor") /\ ~At("Register") /\ ~At("COUNT_0")
      /\ ~At("RESET") /\ ~At("START_MODE")
  <2>1. Head(todo) \in Commands \ {"RESET", "START_MODE"}
    BY DEF Commands, Basic, Plan
  <2> QED BY <2>1 DEF At, Commands
<1>3. (On' <=> On) /\ (Off' <=> Off) /\ (Rest(g)' <=> Rest(g))
  BY DEF On, Off, Rest, Elems
<1>4. /\ count \in Nat /\ Len(file) \in Nat /\ Len(nodes) \in Nat
      /\ file = <<>> <=> Len(file) = 0
      /\ index \in Nat \ {0}
  BY TableTypes
<1>5. ASSUME ~overlap, Still'
      PROVE  Rest(g)
  <2>0. Will(g) /\ Still => Rest(g)
    BY <1>5 DEF Agreeing, Will
  <2>1. AtLast("WR_MODE") \/ AtLast("VERSION") \/ At("DISABLE") \/ At("ENABLE")
    BY <1>1, <1>2, <1>5
  <2>2. CASE AtLast("WR_MODE") \/ AtLast("VERSION")
    BY <2>0, <2>2 DEF Agreeing, Still
  <2>3. CASE At("DISABLE")
    <3>1. Off /\ ~g.enabled
      BY <1>5, <2>3 DEF Agreeing, Will, Opening, At
    <3> QED BY <1>4, <3>1 DEF Off, Rest
  <2>4. CASE At("ENABLE")
    <3>1. On /\ g.filter = Elems(file) /\ g.enabled
      BY <1>5, <2>4 DEF Agreeing, Will, Filling, At
    <3> QED BY <3>1 DEF On, Rest
  <2> QED BY <2>1, <2>2, <2>3, <2>4
<1>6. ASSUME ~overlap PROVE Entering(g)'
  <2>1. At("Operation")' => (g.enabled => file # <<>>)
    <3> SUFFICES ASSUME At("Operation")', g.enabled PROVE file # <<>>
      OBVIOUS
    <3>1. Rest(g)
      BY <1>1, <1>6 DEF Agreeing, Will, Still
    <3> QED BY <1>4, <3>1 DEF Rest
  <2> QED BY <1>1, <1>2, <2>1 DEF Entering
<1>7. ASSUME ~overlap PROVE Filling(g)'
  <2>0. Filling(g)
    BY <1>7 DEF Agreeing, Will
  <2>1. AtBefore("DEL_ALL", "ADD")' => On
    BY <1>1, <2>0 DEF Filling
  <2>2. ASSUME At("ADD")' PROVE On /\ g.filter = Upto(nodes, 1 - 1) /\ index' = 1
    <3>1. AtBefore("DEL_ALL", "ADD") /\ Head(todo) = "DEL_ALL"
      BY <1>1, <2>2 DEF AtBefore, At
    <3>2. On /\ g.filter = {} /\ index' = 1
      BY <2>0, <3>1 DEF Filling
    <3>3. Upto(nodes, 1 - 1) = {}
      BY DEF Upto
    <3> QED BY <3>2, <3>3
  <2>3. ASSUME At("ENABLE")' PROVE On /\ g.filter = Elems(file)
    <3>1. At("ADD") /\ Head(todo) = "ADD" /\ ~waiting
      BY <1>1, <2>3 DEF At
    <3>2. On /\ g.filter = Upto(nodes, index - 1)
      BY <2>0, <3>1 DEF Filling
    <3>3. index > Len(nodes)
      BY <3>1, <3>2 DEF On
    <3>4. {j \in 1 .. Len(nodes) : j <= index - 1} = 1 .. Len(nodes)
      BY <1>4, <3>3
    <3>5. Upto(nodes, index - 1) = Elems(nodes)
      BY <3>4 DEF Upto, Elems
    <3> QED BY <3>2, <3>5 DEF On
  <2> QED BY <1>1, <1>3, <2>1, <2>2, <2>3 DEF Filling, Upto, Elems
<1>8. ASSUME ~overlap PROVE Opening(g)'
  <2>1. Opening(g)
    BY <1>8 DEF Agreeing, Will
  <2> QED BY <1>1, <1>2, <1>3, <2>1 DEF Opening, AtBefore
<1>9. Will(g)'
  BY <1>3, <1>5, <1>6, <1>7, <1>8 DEF Will
<1>10. Fresh(g)'
  BY DEF Fresh
<1>11. Tuned(g)'
  <2>1. ~(At("WR_MODE") /\ ~waiting)
    BY DEF At
  <2> QED BY <2>1 DEF Agreeing, Tuned
<1> QED BY <1>9, <1>10, <1>11 DEF Agreeing

\* What main makes of an answer, or of none.
LEMMA ResponseStatus ==
    ASSUME Basic, Known, GetResponse \/ Timeout
    PROVE  /\ \E st : /\ Respond(st)
                      /\ faults.made = 0 /\ st = "NOT_SUPPORTED" =>
                             ~gateway.erp2
           /\ waiting /\ phase # "exited" /\ UNCHANGED <<line, gateway>>
           /\ faults'.made = faults.made /\ faults'.lost = faults.lost
<1>1. CASE GetResponse
  <2>1. /\ Len(answers) \in Nat \ {0} /\ waiting /\ phase # "exited"
        /\ UNCHANGED <<line, faults, gateway>> /\ Respond(answers[1].status)
    BY <1>1, ResponseTaken
  <2>2. 1 \in 1 .. Len(answers)
    BY <2>1
  <2>3. faults.made = 0 /\ answers[1].status = "NOT_SUPPORTED" => ~gateway.erp2
    BY <2>2 DEF Known
  <2> QED BY <2>1, <2>3
<1>2. CASE Timeout
  BY <1>2, TimeoutQueues
<1> QED BY <1>1, <1>2

LEMMA ResponseAgrees ==
    ASSUME Basic, Rows, Known, GetResponse \/ Timeout, NEW g \in Gateways,
           g.erp2 = gateway.erp2, Agreeing(g)
    PROVE  Agreeing(g)'
<1>1. PICK st : /\ Respond(st)
                /\ faults.made = 0 /\ st = "NOT_SUPPORTED" => ~gateway.erp2
  BY ResponseStatus
<1>2. /\ waiting /\ phase # "exited" /\ faults'.made = faults.made
  BY ResponseStatus
<1>3. /\ waiting' = FALSE
      /\ index' = IF Head(todo) = "ADD" THEN index + 1 ELSE 1
      /\ UNCHANGED <<modeSet, csv, mode, count, file, nodes, job, overlap>>
      /\ AgainReset(st) \/ NowMode(st) \/ LeaveStart(st) \/ GoOn
  BY <1>1, <1>2, RespondWays DEF tableVars, raceVars
<1>4. todo # <<>> /\ Head(todo) \in Commands
  BY <1>2 DEF Basic, Plan
<1>5. CASE AgainReset(st)
  <2>1. todo' = <<"RESET">> /\ phase = "start" /\ phase' \in {"start", "exited"}
    BY <1>5 DEF AgainReset
  <2>2. ~At("START_MODE")'
    BY <2>1 DEF At
  <2> QED BY <1>3, <2>1, <2>2 DEF Agreeing, Will, Fresh, Tuned
<1>6. CASE NowMode(st)
  <2>1. phase = "start" /\ phase' = "start"
    BY <1>6 DEF NowMode
  <2> QED BY <1>2, <1>3, <2>1 DEF Agreeing, Will, Fresh, Tuned
<1>7. CASE LeaveStart(st)
  <2>1. /\ phase = "start" /\ phase' = "run"
        /\ st = "NOT_SUPPORTED" \/ (st = "OK" /\ Head(todo) = "START_MODE")
    BY <1>7 DEF LeaveStart
  <2>2. PICK v \in {<<>>, <<"VERSION">>}, f \in {<<>>, EoApplyFilter} :
           /\ todo' = v \o f
           /\ f = IF mode = "Operation" /\ count > 0 THEN EoApplyFilter ELSE <<>>
    BY <1>7 DEF LeaveStart
  <2>3. /\ ~g.enabled
        /\ mode = "Operation" => nodes = file /\ count = Len(file)
    BY <1>2, <2>1 DEF Agreeing, Fresh
  <2>4. /\ todo' # <<>> => Head(todo') \in {"VERSION", "DEL_ALL"}
        /\ f = <<>> => todo' = v
        /\ f # <<>> =>
              \/ todo' = EoApplyFilter
              \/ /\ Len(todo') = 4 /\ Head(todo') = "VERSION"
                 /\ todo'[2] = "DEL_ALL"
    BY <2>2, StartPlans
  <2>5. /\ ~At("Operation")' /\ ~At("READ")' /\ ~At("MARK")' /\ ~At("COUNT")'
        /\ ~At("APPLY")' /\ ~At("ADD")'
        /\ ~At("ENABLE")' /\ ~At("COUNT_0")' /\ ~At("DISABLE")'
        /\ ~At("WR_MODE")' /\ ~At("START_MODE")'
    BY <2>4 DEF At
  <2>6. ASSUME Still' PROVE Rest(g)'
    <3>1. f = <<>>
      <4> SUFFICES ASSUME f # <<>> PROVE FALSE
        OBVIOUS
      <4>1. CASE todo' = EoApplyFilter
        <5>1. todo' # <<>> /\ Head(todo') = "DEL_ALL"
          BY <4>1, FilterOrdered
        <5> QED BY <2>6, <5>1 DEF Still, AtLast, AtBefore, At
      <4>2. CASE Len(todo') = 4 /\ Head(todo') = "VERSION"
        <5>1. todo' # <<>>
          BY <2>2, <4>2
        <5> QED BY <2>6, <4>2, <5>1 DEF Still, AtLast, AtBefore, At
      <4> QED BY <2>4, <4>1, <4>2
    <3>2. ~(mode = "Operation" /\ count > 0)
      BY <2>2, <3>1, FilterOrdered
    <3> QED BY <1>3, <2>3, <3>2 DEF Rest
  <2>7. Filling(g)'
    <3>1. AtBefore("VERSION", "DEL_ALL")' \/ AtBefore("DEL_ALL", "ADD")' => f # <<>>
      <4> SUFFICES ASSUME f = <<>> PROVE ~AtBefore("VERSION", "DEL_ALL")'
                                         /\ ~AtBefore("DEL_ALL", "ADD")'
        OBVIOUS
      <4>1. todo' = <<>> \/ todo' = <<"VERSION">>
        BY <2>2, <2>4
      <4> QED BY <4>1 DEF AtBefore, At
    <3>2. f # <<>> => On
      BY <2>2, <2>3 DEF On
    <3>3. On' <=> On
      BY <1>3 DEF On
    <3> QED BY <1>3, <2>5, <3>1, <3>2, <3>3 DEF Filling
  <2>8. Opening(g)'
    <3>1. ~AtBefore("DEL_ALL", "DISABLE")'
      <4> SUFFICES ASSUME AtBefore("DEL_ALL", "DISABLE")' PROVE FALSE
        OBVIOUS
      <4>1. todo' # <<>> /\ Head(todo') = "DEL_ALL" /\ todo'[2] = "DISABLE"
        BY DEF AtBefore, At
      <4>2. todo' = EoApplyFilter
        <5>1. v = <<>> \/ Head(v) = "VERSION"
          OBVIOUS
        <5> QED BY <2>4, <4>1, <5>1
      <4> QED BY <4>1, <4>2, FilterOrdered
    <3> QED BY <2>5, <3>1 DEF Opening, AtBefore
  <2>9. Will(g)'
    BY <2>5, <2>6, <2>7, <2>8 DEF Will, Entering
  <2>10. Tuned(g)'
    <3>1. g.erp2 /\ faults.made = 0 => g.mode = modeSet
      BY <1>1, <1>2, <1>4, <2>1 DEF Agreeing, Tuned, At
    <3> QED BY <1>2, <1>3, <2>1, <3>1 DEF Tuned
  <2> QED BY <2>1, <2>9, <2>10 DEF Agreeing, Fresh
<1>8. CASE GoOn
  <2>1. phase = "run" /\ phase' = phase
    BY <1>8 DEF GoOn
  <2>2. CASE Head(todo) = "ADD"
    <3>1. todo' = todo /\ index' = index + 1 /\ waiting' = FALSE
      BY <1>3, <1>8, <2>2 DEF GoOn
    <3>2. /\ \A x : (At(x)' <=> At(x)) /\ (At(x) => x = "ADD")
          /\ At("ADD") /\ ~Still'
      BY <1>4, <2>2, <3>1 DEF At, Still, AtLast, AtBefore
    <3>3. ~overlap => Filling(g)'
      <4> SUFFICES ASSUME ~overlap PROVE Filling(g)'
        OBVIOUS
      <4>1. On /\ g.filter = Upto(nodes, index)
        BY <1>2, <2>1, <3>2 DEF Agreeing, Will, Filling
      <4>2. On' /\ index' - 1 = index
        BY <1>3, <3>1, <4>1, TableTypes DEF On
      <4> QED BY <1>3, <3>1, <3>2, <4>1, <4>2 DEF Filling, AtBefore, Upto
    <3>4. Entering(g)' /\ Opening(g)'
      BY <3>2 DEF Entering, Opening, AtBefore
    <3>5. Will(g)'
      BY <1>3, <3>2, <3>3, <3>4 DEF Will
    <3>6. Tuned(g)'
      BY <1>2, <1>3, <2>1, <3>2 DEF Agreeing, Tuned
    <3> QED BY <2>1, <3>5, <3>6 DEF Agreeing, Fresh
  <2>3. CASE Head(todo) # "ADD"
    <3>1. todo' = Tail(todo) /\ index' = 1
      BY <1>3, <1>8, <2>3 DEF GoOn
    <3> QED BY <1>2, <1>3, <1>4, <2>1, <2>3, <3>1, GoOnAgrees
  <2> QED BY <2>2, <2>3
<1> QED BY <1>3, <1>5, <1>6, <1>7, <1>8

\* When nothing was added meanwhile, the end mark leaves just the file.
LEMMA ReadWhole ==
    ASSUME Basic, Marked, csv = Len(file)
    PROVE  MarkedAt(nodes, csv) = file
<1>1. /\ file \in Seq(Ids) /\ nodes \in Seq(Ids) /\ csv \in Nat
      /\ Len(nodes) \in Nat
  BY LenProperties DEF Basic, Types
<1>2. csv <= Len(nodes) /\ \A i \in 1 .. csv : nodes[i] = file[i]
  BY DEF Marked
<1>3. /\ MarkedAt(nodes, csv) \in Seq(Ids)
      /\ Len(MarkedAt(nodes, csv)) = Len(file)
      /\ \A i \in 1 .. Len(file) : MarkedAt(nodes, csv)[i] = nodes[i]
  <2>1. /\ MarkedAt(nodes, csv) \in Seq(Ids)
        /\ Len(MarkedAt(nodes, csv)) =
               IF Len(nodes) > csv THEN csv ELSE Len(nodes)
        /\ \A i \in 1 .. Len(MarkedAt(nodes, csv)) :
               MarkedAt(nodes, csv)[i] = nodes[i]
    BY <1>1, MarkedTable
  <2>2. Len(MarkedAt(nodes, csv)) = Len(file)
    BY <1>1, <1>2, <2>1
  <2> QED BY <2>1, <2>2
<1>4. \A i \in 1 .. Len(file) : MarkedAt(nodes, csv)[i] = file[i]
  BY <1>2, <1>3
<1> QED BY <1>1, <1>3, <1>4, SeqEqual

\* The steps of main's own change the tables it has written the filter from,
\* and its mode, before the commands that go by them.
LEMMA LocalAgrees ==
    ASSUME Basic, Rows, LocalStep, NEW g \in Gateways, Agreeing(g)
    PROVE  Agreeing(g)'
<1>1. /\ phase = "run" /\ todo # <<>> /\ Head(todo) \in Local /\ ~waiting
      /\ UNCHANGED <<phase, index, waiting, modeSet, job, faults, overlap>>
      /\ Head(todo) \notin Commands
  BY LocalNotSent DEF LocalStep, gateVars, Basic, Plan
<1>2. /\ mode' = IF Head(todo) \in Modes THEN Head(todo) ELSE mode
      /\ file' = IF Head(todo) = "TRUNCATE" THEN <<>> ELSE file
      /\ Head(todo) = "READ" => csv' = Len(file)
      /\ Head(todo) # "READ" => csv' = csv
      /\ Head(todo) = "MARK" => nodes' = MarkedAt(nodes, csv)
      /\ Head(todo) \notin {"READ", "MARK", "CLEAR_TABLE"} => nodes' = nodes
      /\ Head(todo) = "COUNT_0" => count' = 0
      /\ Head(todo) = "COUNT" => count' = csv
      /\ Head(todo) \notin {"COUNT", "COUNT_0"} => count' = count
      /\ todo' = IF Head(todo) = "APPLY" /\ count > 0
                 THEN EoApplyFilter \o Tail(todo) ELSE Tail(todo)
  BY DEF LocalStep
<1>3. /\ count \in Nat /\ Len(file) \in Nat
      /\ file = <<>> <=> Len(file) = 0
  BY TableTypes
<1>4. /\ \A x : At(x) <=> Head(todo) = x
      /\ \A x \in Commands : ~At(x)
      /\ \A x \in Commands : \A y : ~AtBefore(x, y)
      /\ ~At("WR_MODE") /\ ~At("VERSION") /\ ~At("DISABLE") /\ ~At("ENABLE")
      /\ ~At("RESET") /\ ~At("START_MODE") /\ ~At("DEL_ALL") /\ ~At("ADD")
  <2>1. \A x : At(x) <=> Head(todo) = x
    BY <1>1 DEF At
  <2>2. /\ "WR_MODE" \in Commands /\ "VERSION" \in Commands
        /\ "DISABLE" \in Commands /\ "ENABLE" \in Commands
        /\ "RESET" \in Commands /\ "START_MODE" \in Commands
        /\ "DEL_ALL" \in Commands /\ "ADD" \in Commands
    BY DEF Commands
  <2>3. \A x \in Commands : ~At(x)
    BY <1>1, <2>1
  <2> QED BY <2>1, <2>2, <2>3 DEF AtBefore
<1>5. Fresh(g)'
  BY <1>1 DEF Fresh
<1>6. Tuned(g)'
  BY <1>1, <1>4 DEF Agreeing, Tuned
<1>7. CASE Head(todo) = "APPLY" /\ count > 0
  <2>1. todo' = EoApplyFilter
    <3>1. Tail(todo) # <<>> => <<"APPLY", Head(Tail(todo))>> \in Follows
      BY <1>1, <1>7, TailOrdered DEF Basic, Types, Plan
    <3>2. Tail(todo) = <<>>
      BY <3>1 DEF Follows
    <3>3. EoApplyFilter \in Seq(Ops) /\ <<>> \in Seq(Ops)
      BY FilterOrdered
    <3> QED BY <1>2, <1>7, <3>2, <3>3, Concat
  <2>2. todo' # <<>> /\ Head(todo') = "DEL_ALL" /\ todo'[2] = "ADD"
    BY <2>1, FilterOrdered
  <2>3. ~overlap => mode = "Operation" /\ nodes = file /\ count = Len(file)
    BY <1>1, <1>4, <1>7 DEF Agreeing, Will, Entering
  <2>4. UNCHANGED <<mode, file, nodes, count>>
    BY <1>2, <1>7 DEF Modes
  <2>5. ~overlap => On'
    BY <1>7, <2>3, <2>4 DEF On
  <2>6. ~Still' /\ Entering(g)' /\ Opening(g)'
    BY <2>2 DEF Still, AtLast, Entering, Opening, AtBefore, At
  <2>7. ~overlap => Filling(g)'
    BY <1>1, <2>2, <2>5 DEF Filling, AtBefore, At
  <2>8. Will(g)'
    BY <1>1, <2>6, <2>7 DEF Will
  <2> QED BY <1>5, <1>6, <2>8 DEF Agreeing
<1>8. CASE ~(Head(todo) = "APPLY" /\ count > 0)
  <2>1. todo' = Tail(todo)
    BY <1>2, <1>8
  <2>2. /\ Still' => todo' = <<>>
        /\ todo' = <<>> =>
              \/ AtLast("WR_MODE") \/ AtLast("VERSION")
              \/ At("DISABLE") \/ At("ENABLE") \/ At("APPLY")
              \/ At("RESET") \/ At("START_MODE")
        /\ At("Operation")' => AtBefore("WR_MODE", "Operation")
        /\ At("READ")' => At("Operation")
        /\ At("MARK")' => At("READ")
        /\ At("COUNT")' => At("MARK")
        /\ At("APPLY")' => At("COUNT")
        /\ ~AtBefore("VERSION", "DEL_ALL")'
        /\ AtBefore("DEL_ALL", "ADD")' => AtBefore("VERSION", "DEL_ALL")
        /\ At("ADD")' => AtBefore("DEL_ALL", "ADD")
        /\ At("ENABLE")' => At("ADD")
        /\ AtBefore("COUNT_0", "DEL_ALL")' => At("TRUNCATE")
        /\ AtBefore("DEL_ALL", "DISABLE")' =>
              At("Monitor") \/ AtBefore("COUNT_0", "DEL_ALL")
        /\ At("DISABLE")' => AtBefore("DEL_ALL", "DISABLE") \/ At("Register")
    BY <1>1, <2>1, Before DEF Rows
  <2>3. ASSUME ~overlap PROVE Entering(g)'
    <3>1. Entering(g)
      BY <1>1, <2>3 DEF Agreeing, Will
    <3>2. ~At("Operation")'
      BY <1>4, <2>2 DEF AtBefore
    <3>3. ASSUME At("READ")'
          PROVE  mode' = "Operation" /\ (g.enabled => file' # <<>>)
      <4>1. Head(todo) = "Operation" /\ (g.enabled => file # <<>>)
        BY <1>4, <2>2, <3>1, <3>3 DEF Entering
      <4> QED BY <1>2, <4>1 DEF Modes
    <3>4. ASSUME At("MARK")'
          PROVE  /\ mode' = "Operation" /\ csv' = Len(file')
                 /\ g.enabled => file' # <<>>
      <4>1. /\ Head(todo) = "READ" /\ mode = "Operation"
            /\ g.enabled => file # <<>>
        BY <1>4, <2>2, <3>1, <3>4 DEF Entering
      <4>2. mode' = mode /\ file' = file /\ csv' = Len(file)
        BY <1>2, <4>1 DEF Modes
      <4> QED BY <4>1, <4>2
    <3>5. ASSUME At("COUNT")'
          PROVE  /\ mode' = "Operation" /\ nodes' = file'
                 /\ csv' = Len(file') /\ (g.enabled => file' # <<>>)
      <4>1. /\ Head(todo) = "MARK" /\ mode = "Operation" /\ csv = Len(file)
            /\ g.enabled => file # <<>>
        BY <1>4, <2>2, <3>1, <3>5 DEF Entering
      <4>2. mode' = mode /\ file' = file /\ csv' = csv
            /\ nodes' = MarkedAt(nodes, csv)
        BY <1>2, <4>1 DEF Modes
      <4>3. MarkedAt(nodes, csv) = file
        BY <1>1, <4>1, ReadWhole DEF Rows, Marking
      <4> QED BY <4>1, <4>2, <4>3
    <3>6. ASSUME At("APPLY")'
          PROVE  /\ mode' = "Operation" /\ nodes' = file'
                 /\ count' = Len(file') /\ (g.enabled => file' # <<>>)
      <4>1. /\ Head(todo) = "COUNT" /\ mode = "Operation" /\ nodes = file
            /\ csv = Len(file) /\ (g.enabled => file # <<>>)
        BY <1>4, <2>2, <3>1, <3>6 DEF Entering
      <4>2. UNCHANGED <<mode, file, nodes>> /\ count' = csv
        BY <1>2, <4>1 DEF Modes
      <4> QED BY <4>1, <4>2
    <3> QED BY <3>2, <3>3, <3>4, <3>5, <3>6 DEF Entering
  <2>4. Filling(g)'
    BY <1>4, <2>2 DEF Filling, AtBefore
  <2>5. ASSUME ~overlap PROVE Opening(g)'
    <3>1. Opening(g)
      BY <1>1, <2>5 DEF Agreeing, Will
    <3>2. AtBefore("COUNT_0", "DEL_ALL")' => file' = <<>>
      BY <1>2, <1>4, <2>2
    <3>3. ASSUME AtBefore("DEL_ALL", "DISABLE")' PROVE Off'
      <4>1. CASE At("Monitor")
        BY <1>2, <1>4, <4>1 DEF Modes, Off
      <4>2. CASE AtBefore("COUNT_0", "DEL_ALL")
        <5>1. Head(todo) = "COUNT_0" /\ file = <<>>
          BY <1>4, <3>1, <4>2 DEF AtBefore, Opening
        <5> QED BY <1>2, <5>1 DEF Off
      <4> QED BY <2>2, <3>3, <4>1, <4>2
    <3>4. ASSUME At("DISABLE")' PROVE Off'
      <4>1. Head(todo) = "Register"
        BY <1>4, <2>2, <3>4 DEF AtBefore
      <4> QED BY <1>2, <4>1 DEF Modes, Off
    <3> QED BY <1>1, <3>2, <3>3, <3>4 DEF Opening
  <2>6. ASSUME ~overlap, Still' PROVE Rest(g)'
    <3>1. Head(todo) = "APPLY"
      BY <1>4, <2>2, <2>6 DEF AtLast
    <3>2. /\ mode = "Operation" /\ count = Len(file)
          /\ g.enabled => file # <<>>
      BY <1>1, <1>4, <2>6, <3>1 DEF Agreeing, Will, Entering
    <3>3. UNCHANGED <<mode, file, count>>
      BY <1>2, <3>1 DEF Modes
    <3>4. ~(count > 0)
      BY <1>8, <3>1
    <3>5. count = 0 /\ ~g.enabled
      BY <1>3, <3>2, <3>4
    <3> QED BY <3>2, <3>3, <3>4, <3>5 DEF Rest
  <2>7. Will(g)'
    BY <1>1, <2>3, <2>4, <2>5, <2>6 DEF Will
  <2> QED BY <1>5, <1>6, <2>7 DEF Agreeing
<1> QED BY <1>7, <1>8

\* A teach-in that nothing overlaps registers its device in main's idle time.
LEMMA TeachInQuiet ==
    ASSUME Basic, Quiet, ActionThread
    PROVE  Quiet'
<1>1. /\ \/ \E d \in Ids : Looked(d)
         \/ Joined \/ Left \/ Appended \/ Reread \/ Ended \/ Counted
      /\ UNCHANGED <<phase, todo, mode>>
  BY TeachInWays
<1>2. overlap => overlap'
  BY <1>1 DEF Looked, Joined, Left, Appended, Reread, Ended, Counted
<1>3. MainIdle' <=> MainIdle
  BY <1>1 DEF MainIdle
<1> SUFFICES ASSUME ~overlap', job'.at \in {"append", "read", "end", "count"}
             PROVE  MainIdle /\ mode = "Register"
  BY <1>1, <1>3 DEF Quiet
<1>4. CASE Joined
  <2>1. overlap' = (overlap \/ ~MainIdle) /\ mode = "Register"
    BY <1>4 DEF Joined
  <2> QED BY <2>1
<1>5. CASE Appended \/ Reread \/ Ended \/ Counted
  <2>1. job.at \in {"append", "read", "end", "count"}
    BY <1>5 DEF Appended, Reread, Ended, Counted
  <2> QED BY <1>2, <2>1 DEF Quiet
<1>6. CASE Left \/ \E d \in Ids : Looked(d)
  BY <1>6 DEF Left, Looked
<1> QED BY <1>1, <1>4, <1>5, <1>6

\* A teach-in changes the tables in Register mode, where no filter is on, or
\* it overlaps.
LEMMA TeachInAgrees ==
    ASSUME Basic, Quiet, ActionThread, NEW g \in Gateways, Agreeing(g)
    PROVE  Agreeing(g)'
<1>1. /\ \/ \E d \in Ids : Looked(d)
         \/ Joined \/ Left \/ Appended \/ Reread \/ Ended \/ Counted
      /\ UNCHANGED <<phase, todo, index, waiting, modeSet, csv, mode, faults>>
  BY TeachInWays
<1>2. overlap => overlap'
  BY <1>1 DEF Looked, Joined, Left, Appended, Reread, Ended, Counted
<1>8. \/ UNCHANGED <<count, file, nodes>>
      \/ job.at \in {"append", "read", "end", "count"}
  BY <1>1 DEF Looked, Joined, Left, Appended, Reread, Ended, Counted
<1>3. ~overlap' => ~overlap
  BY <1>2
<1>4. /\ \A x : At(x)' <=> At(x)
      /\ \A x, y : AtBefore(x, y)' <=> AtBefore(x, y)
      /\ Still' <=> Still
  BY <1>1 DEF At, AtBefore, AtLast, Still
<1>5. Will(g)'
  <2> SUFFICES ASSUME phase = "run", ~overlap'
               PROVE  /\ Still' => Rest(g)'
                      /\ Entering(g)' /\ Filling(g)' /\ Opening(g)'
    BY <1>1 DEF Will
  <2>1. /\ Still => Rest(g)
        /\ Entering(g) /\ Filling(g) /\ Opening(g)
    BY <1>3 DEF Agreeing, Will
  <2>2. CASE UNCHANGED <<count, file, nodes>>
    <3>1. /\ Rest(g)' <=> Rest(g)
          /\ Off' <=> Off
          /\ On' <=> On
      BY <1>1, <2>2 DEF Rest, Off, On, Elems
    <3>2. Entering(g)'
      BY <1>1, <1>4, <2>1, <2>2 DEF Entering
    <3>3. Filling(g)'
      BY <1>1, <1>4, <2>1, <2>2, <3>1 DEF Filling, Elems, Upto
    <3>4. Opening(g)'
      BY <1>1, <1>4, <2>1, <2>2, <3>1 DEF Opening
    <3> QED BY <1>4, <2>1, <3>1, <3>2, <3>3, <3>4
  <2>3. CASE job.at \in {"append", "read", "end", "count"}
    <3>1. todo = <<>> /\ mode = "Register"
      BY <1>3, <2>3 DEF Quiet, MainIdle
    <3>2. \A x : ~At(x)'
      BY <1>1, <3>1 DEF At
    <3>3. Entering(g)' /\ Filling(g)' /\ Opening(g)'
      BY <3>2 DEF Entering, Filling, Opening, AtBefore
    <3>4. ~g.enabled
      BY <2>1, <3>1 DEF Still, Rest
    <3>5. Rest(g)'
      BY <1>1, <3>1, <3>4 DEF Rest
    <3> QED BY <3>3, <3>5
  <2> QED BY <1>8, <2>2, <2>3
<1>6. Fresh(g)'
  <2> SUFFICES ASSUME phase = "start"
               PROVE  /\ waiting \/ At("START_MODE") => ~g.enabled
                      /\ mode = "Operation" =>
                            /\ nodes' = file' /\ count' = Len(file')
                            /\ job'.at \in {"idle", "mode"}
    BY <1>1, <1>4 DEF Fresh
  <2>1. /\ waiting \/ At("START_MODE") => ~g.enabled
        /\ mode = "Operation" => /\ nodes = file /\ count = Len(file)
                                 /\ job.at \in {"idle", "mode"}
    BY DEF Agreeing, Fresh
  <2>2. ASSUME mode = "Operation"
        PROVE  UNCHANGED <<count, file, nodes>> /\ job'.at \in {"idle", "mode"}
    <3>1. Left \/ \E d \in Ids : Looked(d)
      BY <1>1, <2>1, <2>2 DEF Joined, Appended, Reread, Ended, Counted
    <3> QED BY <3>1 DEF Left, Looked
  <2> QED BY <2>1, <2>2
<1>7. Tuned(g)'
  BY <1>1, <1>4 DEF Agreeing, Tuned
<1> QED BY <1>5, <1>6, <1>7 DEF Agreeing

\* The line leaves all else alone.
LEMMA StandingAgrees ==
    ASSUME UNCHANGED <<phase, todo, index, waiting, modeSet, csv, mode, count,
                       file, nodes, job, overlap>>,
           faults'.made # 0 \/ faults'.made = faults.made,
           NEW g, Agreeing(g)
    PROVE  Agreeing(g)'
<1>1. /\ \A x : At(x)' <=> At(x)
      /\ \A x, y : AtBefore(x, y)' <=> AtBefore(x, y)
      /\ Still' <=> Still
      /\ Rest(g)' <=> Rest(g)
      /\ Off' <=> Off
      /\ On' <=> On
  BY DEF At, AtBefore, AtLast, Still, Rest, Off, On, Elems
<1>2. (Entering(g)' <=> Entering(g)) /\ (Opening(g)' <=> Opening(g))
  BY <1>1 DEF Entering, Opening
<1>3. Filling(g)' <=> Filling(g)
  BY <1>1 DEF Filling, Elems, Upto
<1>4. Will(g)'
  BY <1>1, <1>2, <1>3 DEF Agreeing, Will
<1>5. Fresh(g)'
  BY <1>1 DEF Agreeing, Fresh
<1>6. Tuned(g)'
  BY <1>1 DEF Agreeing, Tuned
<1> QED BY <1>4, <1>5, <1>6 DEF Agreeing

\* Only a teach-in, or a command's beginning, changes what Quiet speaks of.
LEMMA StepQuiet ==
    ASSUME Basic, Quiet, [Next]_vars, ~ActionThread
    PROVE  Quiet'
<1>1. ASSUME NEW c \in HostCommands, Begin(c) PROVE Quiet'
  <2>1. job' = job /\ (~overlap' => job = Idle)
    BY <1>1 DEF Begin
  <2> QED BY <2>1 DEF Quiet, Idle
<1>2. CASE Execute \/ Fault \/ UNCHANGED vars
  BY <1>2 DEF Execute, Fault, vars, mainVars, tableVars, raceVars, Quiet, MainIdle
<1>3. CASE Main
  <2>1. ~MainIdle /\ job' = job /\ overlap' = overlap
    <3>1. CASE SendCommand \/ FilterEnd \/ LocalStep
      BY <3>1 DEF SendCommand, FilterEnd, LocalStep, MainIdle, raceVars
    <3>2. CASE GetResponse \/ Timeout
      <4>1. waiting /\ todo # <<>>
        BY <3>2 DEF GetResponse, Timeout, Basic, Plan
      <4> QED BY <3>2, <4>1 DEF GetResponse, Timeout, Respond, raceVars, MainIdle
    <3> QED BY <1>3, <3>1, <3>2 DEF Main
  <2> QED BY <2>1 DEF Quiet
<1> QED BY <1>1, <1>2, <1>3 DEF Next

LEMMA StepAgrees == Basic /\ Rows /\ Known /\ Agrees /\ [Next]_vars => Agrees'
<1> SUFFICES ASSUME Basic, Rows, Known, Agrees, [Next]_vars PROVE Agrees'
  OBVIOUS
<1>1. Quiet'
  <2>1. CASE ActionThread
    BY <2>1, TeachInQuiet DEF Agrees
  <2>2. CASE ~ActionThread
    BY <2>2, StepQuiet DEF Agrees
  <2> QED BY <2>1, <2>2
<1> SUFFICES ASSUME faults'.lost = 0
             PROVE  \E g \in Gateways : ToBe(g)' /\ Agreeing(g)'
  BY <1>1 DEF Agrees
<1>2. ASSUME faults.lost = 0
      PROVE  \E g \in Gateways : /\ ToBe(g) /\ Agreeing(g)
                                 /\ g.erp2 = gateway.erp2
  BY <1>2, ToBeIsOne DEF Agrees
<1>3. ASSUME UNCHANGED <<line, gateway, faults>>,
             \A g \in Gateways : Agreeing(g) /\ g.erp2 = gateway.erp2 =>
                                     Agreeing(g)'
      PROVE  \E g \in Gateways : ToBe(g)' /\ Agreeing(g)'
  BY <1>2, <1>3, ToBeStands
<1>4. ASSUME NEW c \in HostCommands, Begin(c)
      PROVE  \E g \in Gateways : ToBe(g)' /\ Agreeing(g)'
  BY <1>3, <1>4, BeginAgrees DEF Begin, gateVars
<1>5. CASE SendCommand
  <2>1. UNCHANGED faults
    BY <1>5 DEF SendCommand
  <2>2. PICK g \in Gateways : ToBe(g) /\ Agreeing(g)
    BY <1>2, <2>1
  <2>3. PICK h : h = Obey(g, New)
    OBVIOUS
  <2>4. h \in Gateways
    BY <2>2, <2>3, ObeyKeeps, NewIsSent, <1>5
  <2> QED BY <1>5, <2>2, <2>3, <2>4, ToBeSent, SendAgrees
<1>6. CASE GetResponse \/ Timeout
  <2>1. UNCHANGED <<line, gateway>> /\ faults'.lost = faults.lost
    BY <1>6, ResponseStatus
  <2>2. PICK g \in Gateways : ToBe(g) /\ Agreeing(g) /\ g.erp2 = gateway.erp2
    BY <1>2, <2>1
  <2> QED BY <1>6, <2>1, <2>2, ToBeStands, ResponseAgrees
<1>7. CASE FilterEnd
  <2>1. /\ phase = "run" /\ todo # <<>> /\ todo' = Tail(todo) /\ ~waiting
        /\ Head(todo) = "ADD"
        /\ index > count \/ index > Len(nodes)
        /\ UNCHANGED <<phase, modeSet, csv, mode, count, file, nodes, job,
                       overlap, index, waiting, line, gateway, faults>>
    BY <1>7 DEF FilterEnd, tableVars, gateVars, raceVars
  <2>2. waiting' = FALSE
    BY <2>1 DEF Basic, Types
  <2>3. \A g \in Gateways : Agreeing(g) => Agreeing(g)'
    BY <2>1, <2>2, GoOnAgrees
  <2> QED BY <1>3, <2>1, <2>3
<1>8. CASE LocalStep
  BY <1>3, <1>8, LocalAgrees DEF LocalStep, gateVars
<1>9. CASE ActionThread
  <2>1. UNCHANGED <<line, gateway, faults>>
    BY <1>9, TeachInWays
  <2> QED BY <1>3, <1>9, <2>1, TeachInAgrees DEF Agrees
<1>10. ASSUME UNCHANGED <<phase, todo, index, waiting, modeSet, csv, mode,
                          count, file, nodes, job, overlap>>,
              faults'.made # 0 \/ faults'.made = faults.made,
              faults.lost = 0,
              \A g \in Gateways : ToBe(g) => ToBe(g)'
       PROVE  \E g \in Gateways : ToBe(g)' /\ Agreeing(g)'
  BY <1>2, <1>10, StandingAgrees
<1>11. CASE Execute
  <2>1. /\ UNCHANGED <<phase, todo, index, waiting, modeSet, csv, mode,
                       count, file, nodes, job, overlap, faults>>
        /\ line # <<>> /\ line' = Tail(line)
        /\ gateway' = Obey(gateway, Head(line))
    BY <1>11 DEF Execute, mainVars, tableVars, raceVars
  <2>2. \A g \in Gateways : ToBe(g) => ToBe(g)'
    BY <2>1, ToBeCarried
  <2> QED BY <1>10, <2>1, <2>2
<1>12. CASE Fault
  <2>1. UNCHANGED <<phase, todo, index, waiting, modeSet, csv, mode,
                    count, file, nodes, job, overlap>>
    BY <1>12 DEF Fault, mainVars, tableVars, raceVars
  <2>2. Lose \/ Refuse \/ LoseAnswer \/ MakeUp
    BY <1>12 DEF Fault
  <2>3. CASE Lose \/ Refuse
    <3>1. faults'.lost = faults.lost + 1 /\ faults.lost \in Nat
      BY <2>3, FaultCounts, FaultTypes
    <3> QED BY <3>1
  <2>4. CASE LoseAnswer
    <3>1. /\ line # <<>> /\ line' = Tail(line)
          /\ gateway' = Obey(gateway, Head(line))
      BY <2>4 DEF LoseAnswer
    <3>2. \A g \in Gateways : ToBe(g) => ToBe(g)'
      BY <3>1, ToBeCarried
    <3>3. faults'.made = faults.made /\ faults'.lost = faults.lost
      BY <2>4, FaultCounts
    <3> QED BY <1>10, <2>1, <3>2, <3>3
  <2>5. CASE MakeUp
    <3>1. \A g \in Gateways : ToBe(g) => ToBe(g)'
      BY <2>5, ToBeStands DEF MakeUp
    <3>2. faults'.made # 0 /\ faults'.lost = faults.lost
      <4>1. faults'.made = faults.made + 1 /\ faults.made \in Nat
        BY <2>5, FaultCounts, FaultTypes
      <4> QED BY <2>5, <4>1, FaultCounts
    <3> QED BY <1>10, <2>1, <3>1, <3>2
  <2> QED BY <2>2, <2>3, <2>4, <2>5
<1>13. CASE UNCHANGED vars
  <2>1. /\ UNCHANGED <<phase, todo, index, waiting, modeSet, csv, mode,
                       count, file, nodes, job, overlap>>
        /\ UNCHANGED <<line, gateway, faults>>
    BY <1>13 DEF vars, mainVars, tableVars, gateVars, raceVars
  <2>2. \A g \in Gateways : ToBe(g) => ToBe(g)'
    BY <2>1, ToBeStands
  <2> QED BY <1>10, <2>1, <2>2
<1> QED
  BY <1>4, <1>5, <1>6, <1>7, <1>8, <1>9, <1>11, <1>12, <1>13 DEF Next, Main

\* At rest the gateway to be is the gateway.
LEMMA AgreesAtRest ==
    ASSUME Basic, Agrees, Settled, faults.lost = 0, ~overlap
    PROVE  /\ gateway.enabled <=> (mode = "Operation" /\ count > 0)
           /\ gateway.enabled =>
                  gateway.filter = {file[i] : i \in DOMAIN file}
           /\ gateway.erp2 /\ faults.made = 0 => gateway.mode = modeSet
<1>1. phase = "run" /\ todo = <<>> /\ line = <<>>
  BY DEF Settled, MainIdle
<1>2. Agreeing(gateway)
  BY <1>1, ToBeOnce DEF Agrees
<1>3. Rest(gateway)
  BY <1>1, <1>2 DEF Agreeing, Will, Still
<1>4. DOMAIN file = 1 .. Len(file)
  BY LenProperties DEF Basic, Types
<1>5. gateway.erp2 /\ faults.made = 0 => gateway.mode = modeSet
  BY <1>1, <1>2 DEF Agreeing, Tuned, At
<1> QED BY <1>3, <1>4, <1>5 DEF Rest, Elems

(***************************************************************************)
(* The theorems.                                                           *)
(***************************************************************************)
IInv == Basic /\ Ages /\ Chain /\ Known /\ Rows /\ Bounds /\ Agrees

\* The inductive invariant of dpride's commands to the gateway: it holds at
\* the start, and every step of main, ActionThread, the line and the gateway
\* keeps it.
THEOREM Invariance == Spec => []IInv
<1>1. Init => IInv
  BY InitBasic, InitAges, InitChain, InitKnown, InitRows, InitBounds, InitAgrees
  DEF IInv
<1>2. IInv /\ [Next]_vars => IInv'
  BY StepBasic, StepAges, StepChain, StepKnown, StepRows, StepBounds, StepAgrees
  DEF IInv
<1> QED BY <1>1, <1>2, PTL DEF Spec

\* GetResponse is behind by at most one command for every answer that came
\* too late and every one made up.
THEOREM LagBounded == Spec => []AnswerLag
<1>1. IInv => AnswerLag
  BY DEF IInv, Ages
<1> QED BY <1>1, Invariance, PTL

\* Once GetResponse is behind it stays so, until the line loses a command or
\* an answer: no step of dpride's own, resetting the gateway among them,
\* brings commands and answers together again.
THEOREM SlipIsForGood == Spec => SlipLasts
<1>1. IInv /\ [Next]_vars => [lag' < lag => faults.lost + faults.silent > 0]_vars
  BY NoEarlier DEF IInv
<1> QED BY <1>1, Invariance, PTL DEF Spec, SlipLasts

\* A device has one line in the control file, as long as no teach-in
\* overlapped the clearing of file and node table, or came between the last
\* line main read and its end mark.
THEOREM OneLine == Spec => []LinesOnce
<1>1. IInv => LinesOnce
  <2> SUFFICES ASSUME IInv, ~raced, NEW i \in DOMAIN file, NEW j \in DOMAIN file,
                      file[i] = file[j]
               PROVE  i = j
    BY DEF LinesOnce
  <2>1. DOMAIN file = 1 .. Len(file)
    BY LenProperties DEF IInv, Basic, Types
  <2>2. Once(file)
    BY DEF IInv, Rows, Clean
  <2> QED BY <2>1, <2>2 DEF Once
<1> QED BY <1>1, Invariance, PTL

\* However main's commands, their answers and the teach-ins interleave, at
\* rest the gateway's filter, its switch and its transceiver mode are those
\* of dpride's mode and control file, unless a command was lost or a teach-in
\* overlapped one; the start loop knows the gateway for what it is, and every
\* variable keeps its type.
THEOREM FilterAgrees == Spec => []GatewayAgrees
<1>1. IInv => GatewayAgrees
  BY TypesAreRight, KnownIsTrue, AgreesAtRest DEF IInv, GatewayAgrees
<1> QED BY <1>1, Invariance, PTL
=============================================================================
