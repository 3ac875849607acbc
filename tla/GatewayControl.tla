--------------------------- MODULE GatewayControl ---------------------------
(***************************************************************************)
(* How dpride's main thread drives the EnOcean gateway over the serial     *)
(* line (dpride/dpride.c, dpride/esp3.c): the loop that resets it at the   *)
(* start, the commands that change dpride's mode, clear the control file   *)
(* or give the gateway its filter, and GetResponse, which waits 90 ms and  *)
(* takes the oldest answer there is.  Meanwhile ActionThread registers     *)
(* devices, and shares mode, node table and control file with no lock.     *)
(* The gateway and the line are external: they carry out commands in the   *)
(* order they were sent, may be slow, and may lose or refuse a few.        *)
(***************************************************************************)
EXTENDS Naturals, Sequences, FiniteSets

CONSTANTS
    Ids,          \* device addresses
    NoId,         \* the operand of a command without one
    ModeOf,       \* modeMonitor, modeRegister, modeOperation (option -X)
    HostCommands, \* bound: the commands the host gives
    StartRetries, \* failures of reset and mode main puts up with: 5
    MaxFaults     \* bound: commands lost or refused; answers lost, made up,
                  \* or later than their time-out

Modes == {"Monitor", "Register", "Operation"}
Transceiver == {"ERP1", "ERP2"}

ASSUME GatewayAssumption ==
    /\ IsFiniteSet(Ids)
    /\ NoId \notin Ids
    /\ ModeOf \in [Modes -> Transceiver]
    /\ {StartRetries, MaxFaults} \subseteq Nat

VARIABLES
    phase,    \* main is in its start loop, in its interface loop, or gone
    todo,     \* what main still has to do for the command it works on
    index,    \* i of EoApplyFilter
    waiting,  \* main is in GetResponse
    failures, \* rtn of the start loop
    modeSet,  \* the transceiver mode main writes
    csv,      \* lineCount of main's ReadCsv
    erp1gw,   \* EO_CONTROL.ERP1gw
    mode,     \* EO_CONTROL.Mode
    count,    \* EO_CONTROL.ControlCount
    file,     \* the ids of the control file
    nodes,    \* NodeTable up to its end mark
    job,      \* the teach-in ActionThread is at
    line,     \* commands on their way to the gateway
    answers,  \* ResponseQueue
    gateway,  \* external: what the gateway has been told
    faults,   \* history: what the line did wrong
    lag,      \* history: commands sent after the one last answered
    overlap,  \* history: a teach-in overlapped a command since the last one
              \* that switches the filter off
    raced     \* history: a teach-in overlapped the last Clear and Register, or
              \* main's end mark has cut off a device taught in meanwhile

mainVars ==
    <<phase, todo, index, waiting, failures, modeSet, csv, erp1gw, lag>>
tableVars == <<mode, count, file, nodes>>
gateVars == <<line, answers, gateway, faults>>
raceVars == <<overlap, raced>>
vars == <<mainVars, tableVars, job, gateVars, raceVars>>

\* The commands of esp3.c main uses, and what main does between them.
Commands == {"RESET", "START_MODE", "VERSION", "WR_MODE", "DEL_ALL", "ADD",
             "ENABLE", "DISABLE"}
Local == {"TRUNCATE", "COUNT_0", "CLEAR_TABLE", "READ", "MARK", "COUNT",
          "APPLY"} \cup Modes
Statuses == {"OK", "NOT_SUPPORTED", "ERROR"}
Sizes == 0 .. 2 * Cardinality(Ids)
Idle == [id |-> NoId, at |-> "idle", csv |-> 0]

TypeOK ==
    /\ phase \in {"start", "run", "exited"}
    /\ todo \in Seq(Commands \cup Local)
    /\ index \in 1 .. 2 * Cardinality(Ids) + 1
    /\ {waiting, erp1gw, overlap, raced} \subseteq BOOLEAN
    /\ failures \in 0 .. StartRetries + 1
    /\ modeSet \in Transceiver
    /\ mode \in Modes
    /\ {count, csv} \subseteq Sizes
    /\ file \in Seq(Ids) /\ Len(file) \in Sizes
    /\ nodes \in Seq(Ids) /\ Len(nodes) \in Sizes
    /\ job \in {Idle} \cup [id : Ids, csv : Sizes,
                            at : {"mode", "append", "read", "end", "count"}]
    /\ line \in Seq([op : Commands, id : Ids \cup {NoId},
                     mode : Transceiver, age : Nat])
    /\ answers \in Seq([status : Statuses, real : BOOLEAN, age : Nat])
    /\ gateway \in [erp2 : BOOLEAN, mode : Transceiver,
                    filter : SUBSET Ids, enabled : BOOLEAN]
    /\ faults \in [slow : 0 .. MaxFaults, lost : 0 .. MaxFaults,
                   silent : 0 .. MaxFaults, made : 0 .. MaxFaults]
    /\ lag \in Nat

(***************************************************************************)
(* What main does for a command.                                           *)
(***************************************************************************)
EoApplyFilter == <<"DEL_ALL", "ADD", "ENABLE">>
EoClearControl == <<"TRUNCATE", "COUNT_0">>

\* Mutation of Script: Register leaves the filter on.
MutFilterStays ==
    [Monitor   |-> <<"WR_MODE", "Monitor", "DEL_ALL", "DISABLE">>,
     Register  |-> <<"WR_MODE", "Register">>,
     Clear     |-> <<"WR_MODE">> \o EoClearControl
                   \o <<"DEL_ALL", "CLEAR_TABLE", "COUNT_0", "Register",
                        "DISABLE">>,
     Operation |-> <<"WR_MODE", "Operation", "READ", "MARK", "COUNT",
                     "APPLY">>,
     Unknown   |-> <<"WR_MODE">>,
     FilterClear |-> EoClearControl \o <<"DEL_ALL", "DISABLE">>]

\* The interface loop's commands.  A letter CHANGE_MODE does not know, like
\* a lower-case one, only writes the gateway's mode.
Script ==
    [Monitor   |-> <<"WR_MODE", "Monitor", "DEL_ALL", "DISABLE">>,
     Register  |-> <<"WR_MODE", "Register", "DISABLE">>,
     Clear     |-> <<"WR_MODE">> \o EoClearControl
                   \o <<"DEL_ALL", "CLEAR_TABLE", "COUNT_0", "Register",
                        "DISABLE">>,
     Operation |-> <<"WR_MODE", "Operation", "READ", "MARK", "COUNT",
                     "APPLY">>,
     Unknown   |-> <<"WR_MODE">>,
     FilterClear |-> EoClearControl \o <<"DEL_ALL", "DISABLE">>]

ASSUME HostAssumption == HostCommands \subseteq DOMAIN Script

MainIdle == phase = "run" /\ todo = <<>>
Pending(op) == \E i \in DOMAIN todo : todo[i] = op

\* Main gets command c.
Begin(c) ==
    /\ MainIdle
    /\ todo' = Script[c]
    /\ modeSet' = CASE c = "FilterClear" -> modeSet
                    [] c \in {"Monitor", "Operation"} -> ModeOf[c]
                    [] OTHER -> ModeOf["Register"]
    /\ overlap' = (job # Idle \/ (c \in {"Operation", "Unknown"} /\ overlap))
    /\ UNCHANGED <<phase, index, waiting, failures, csv, erp1gw, lag,
                   tableVars, job, gateVars, raced>>

(***************************************************************************)
(* A command's way to the gateway and back.                                *)
(***************************************************************************)
Older(s) == [i \in DOMAIN s |-> [s[i] EXCEPT !.age = @ + 1]]

\* CO_...: SendCommand, and GetResponse begins.  The filter's ids are read
\* from the node table one by one, as far as it and ControlCount go.
SendCommand ==
    /\ phase # "exited"
    /\ ~waiting
    /\ todo # <<>> /\ Head(todo) \in Commands
    /\ Head(todo) = "ADD" => index <= count /\ index <= Len(nodes)
    /\ line' = Append(Older(line),
           [op |-> Head(todo), mode |-> modeSet, age |-> 0,
            id |-> IF Head(todo) = "ADD" THEN nodes[index] ELSE NoId])
    /\ answers' = Older(answers)
    /\ waiting' = TRUE
    /\ UNCHANGED <<phase, todo, index, failures, modeSet, csv, erp1gw, lag,
                   tableVars, job, gateway, faults, raceVars>>

\* External: what gateway g is once it has carried out command c ...
Obey(g, c) ==
    CASE c.op = "RESET" ->
            [g EXCEPT !.mode = "ERP1", !.filter = {}, !.enabled = FALSE]
      [] c.op \in {"WR_MODE", "START_MODE"} /\ g.erp2 ->
            [g EXCEPT !.mode = c.mode]
      [] c.op = "DEL_ALL" -> [g EXCEPT !.filter = {}]
      [] c.op = "ADD" -> [g EXCEPT !.filter = @ \cup {c.id}]
      [] c.op = "ENABLE" -> [g EXCEPT !.enabled = TRUE]
      [] c.op = "DISABLE" -> [g EXCEPT !.enabled = FALSE]
      [] OTHER -> g

\* ... and answers it; a gateway without ERP2 knows no mode.
StatusOf(c) ==
    IF c.op \in {"WR_MODE", "START_MODE"} /\ ~gateway.erp2
    THEN "NOT_SUPPORTED" ELSE "OK"
Answer(status, real, age) ==
    answers' = Append(answers, [status |-> status, real |-> real, age |-> age])

Execute ==
    /\ phase # "exited"
    /\ line # <<>>
    /\ line' = Tail(line)
    /\ gateway' = Obey(gateway, Head(line))
    /\ Answer(StatusOf(Head(line)), TRUE, Head(line).age)
    /\ UNCHANGED <<faults, mainVars, tableVars, job, raceVars>>

\* External faults: a command is lost, refused, or its answer is lost; a
\* damaged packet is taken for an answer (ReadThread's stale packetType).
FaultsLeft ==
    faults.slow + faults.lost + faults.silent + faults.made < MaxFaults
Lose ==
    /\ line # <<>>
    /\ line' = Tail(line)
    /\ faults' = [faults EXCEPT !.lost = @ + 1]
    /\ UNCHANGED <<gateway, answers>>
Refuse ==
    /\ line # <<>>
    /\ line' = Tail(line)
    /\ Answer("ERROR", TRUE, Head(line).age)
    /\ faults' = [faults EXCEPT !.lost = @ + 1]
    /\ UNCHANGED gateway
LoseAnswer ==
    /\ line # <<>>
    /\ line' = Tail(line)
    /\ gateway' = Obey(gateway, Head(line))
    /\ faults' = [faults EXCEPT !.silent = @ + 1]
    /\ UNCHANGED answers
MakeUp ==
    /\ \E s \in Statuses : Answer(s, FALSE, 0)
    /\ faults' = [faults EXCEPT !.made = @ + 1]
    /\ UNCHANGED <<line, gateway>>
Fault ==
    /\ phase # "exited"
    /\ FaultsLeft
    /\ Lose \/ Refuse \/ LoseAnswer \/ MakeUp
    /\ UNCHANGED <<mainVars, tableVars, job, raceVars>>

(***************************************************************************)
(* What main makes of an answer.                                           *)
(***************************************************************************)
\* The start loop is left: with -v the version is read, and Operation mode
\* gets its filter.
StartDone ==
    /\ phase' = "run"
    /\ \E v \in {<<>>, <<"VERSION">>} :
           todo' = v \o IF mode = "Operation" /\ count > 0
                        THEN EoApplyFilter ELSE <<>>
    /\ UNCHANGED failures

\* RET_NOT_SUPPORTED marks an ERP1 gateway and ends the loop; anything else
\* but OK is a failure.
StartFailed(status) ==
    IF status = "NOT_SUPPORTED"
    THEN StartDone /\ erp1gw' = TRUE
    ELSE /\ failures' = failures + 1
         /\ phase' = IF failures' > StartRetries THEN "exited" ELSE phase
         /\ todo' = <<"RESET">>
         /\ UNCHANGED erp1gw

\* The command at the head of todo has got its status: only the start loop
\* looks at it.
Respond(status) ==
    /\ waiting' = FALSE
    /\ index' = IF Head(todo) = "ADD" THEN index + 1 ELSE 1
    /\ CASE phase = "start" /\ status # "OK" -> StartFailed(status)
         [] Head(todo) = "RESET" /\ status = "OK" ->
                /\ todo' = <<"START_MODE">>
                /\ UNCHANGED <<phase, failures, erp1gw>>
         [] Head(todo) = "START_MODE" /\ status = "OK" ->
                StartDone /\ UNCHANGED erp1gw
         [] OTHER ->
                /\ todo' = IF Head(todo) = "ADD" THEN todo ELSE Tail(todo)
                /\ UNCHANGED <<phase, failures, erp1gw>>
    /\ UNCHANGED <<modeSet, csv, tableVars, job, line, gateway, raceVars>>

\* Mutation of GetResponse: the answer stays in the queue.
MutPeek ==
    /\ waiting /\ phase # "exited"
    /\ answers # <<>>
    /\ Respond(Head(answers).status)
    /\ lag' = IF Head(answers).real THEN Head(answers).age ELSE lag
    /\ UNCHANGED <<answers, faults>>

\* Mutation of GetResponse: the newest answer is taken, older ones go.
MutFlush ==
    /\ waiting /\ phase # "exited"
    /\ answers # <<>>
    /\ LET a == answers[Len(answers)] IN
           Respond(a.status) /\ lag' = IF a.real THEN a.age ELSE lag
    /\ answers' = <<>>
    /\ UNCHANGED faults

\* GetResponse takes the oldest answer in ResponseQueue.
GetResponse ==
    /\ waiting /\ phase # "exited"
    /\ answers # <<>>
    /\ Respond(Head(answers).status)
    /\ answers' = Tail(answers)
    /\ lag' = IF Head(answers).real THEN Head(answers).age ELSE lag
    /\ UNCHANGED faults

\* Mutation of Timeout: GetResponse waits as long as nothing comes.
MutWaits == FALSE /\ UNCHANGED vars

\* GetResponse has waited 90 ms: nothing will come, or it comes too late.
Timeout ==
    /\ waiting /\ phase # "exited"
    /\ answers = <<>>
    /\ IF line = <<>> THEN UNCHANGED faults
       ELSE FaultsLeft /\ faults' = [faults EXCEPT !.slow = @ + 1]
    /\ Respond("TIMEOUT")
    /\ UNCHANGED <<answers, lag>>

(***************************************************************************)
(* What main does between its commands.                                    *)
(***************************************************************************)
\* The loop of EoApplyFilter ends.
FilterEnd ==
    /\ phase = "run" /\ ~waiting
    /\ todo # <<>> /\ Head(todo) = "ADD"
    /\ index > count \/ index > Len(nodes)
    /\ todo' = Tail(todo)
    /\ UNCHANGED <<phase, index, waiting, failures, modeSet, csv, erp1gw, lag,
                   tableVars, job, gateVars, raceVars>>

\* ReadCsv writes node table s over with the lines t of the file, up to its
\* end; only `nt->Id = 0` behind the last of them ends the table.  (The
\* entries are written one by one, over ones of the same devices or of
\* devices the file has not; what is behind an end mark is not kept.)
Filled(s, t) == t \o SubSeq(s, Len(t) + 1, Len(s))
MarkedAt(s, n) == IF Len(s) > n THEN SubSeq(s, 1, n) ELSE s

\* The mark cuts off a device whose line came after the last one main has
\* read, and whose teach-in has read the file before.
CutsOff == csv < Len(file) /\ job.at \notin {"append", "read"}

LocalStep ==
    /\ phase = "run"
    /\ todo # <<>> /\ Head(todo) \in Local
    /\ LET op == Head(todo) IN
       /\ todo' = IF op = "APPLY" /\ count > 0
                  THEN EoApplyFilter \o Tail(todo) ELSE Tail(todo)
       /\ mode' = IF op \in Modes THEN op ELSE mode
       /\ file' = IF op = "TRUNCATE" THEN <<>> ELSE file
       /\ csv' = IF op = "READ" THEN Len(file) ELSE csv
       /\ nodes' = CASE op = "CLEAR_TABLE" -> <<>>
                     [] op = "READ" -> Filled(nodes, file)
                     [] op = "MARK" -> MarkedAt(nodes, csv)
                     [] OTHER -> nodes
       /\ count' = CASE op = "COUNT_0" -> 0
                     [] op = "COUNT" -> csv
                     [] OTHER -> count
       /\ raced' = CASE op = "TRUNCATE" ->
                            job # Idle /\ (raced \/ Pending("CLEAR_TABLE"))
                     [] op = "MARK" -> raced \/ CutsOff
                     [] OTHER -> raced
    /\ UNCHANGED <<phase, index, waiting, failures, modeSet, erp1gw, lag, job,
                   gateVars, overlap>>

(***************************************************************************)
(* ActionThread: MainJob's teach-in of a device.                           *)
(***************************************************************************)
ActionFrame == UNCHANGED <<mainVars, gateVars>>

\* A teach-in telegram of a device NodeTable does not have, ...
Look(d) ==
    /\ phase # "exited" /\ job = Idle
    /\ \A i \in DOMAIN nodes : nodes[i] # d
    /\ job' = [id |-> d, at |-> "mode", csv |-> 0]
    /\ ActionFrame /\ UNCHANGED <<tableVars, raceVars>>

\* ... in Register mode: from here on nothing looks at the mode again.
CheckMode ==
    /\ phase # "exited" /\ job.at = "mode"
    /\ IF mode = "Register"
       THEN /\ job' = [job EXCEPT !.at = "append"]
            /\ overlap' = (overlap \/ ~MainIdle)
            /\ raced' = (raced \/ Pending("CLEAR_TABLE"))
       ELSE job' = Idle /\ UNCHANGED <<overlap, raced>>
    /\ ActionFrame /\ UNCHANGED tableVars

\* EoSetEep adds the device's line, unless its profile is not known.
EoSetEep ==
    /\ phase # "exited" /\ job.at = "append"
    /\ file' \in {file, Append(file, job.id)}
    /\ job' = [job EXCEPT !.at = "read"]
    /\ ActionFrame /\ UNCHANGED <<mode, count, nodes, raceVars>>

\* Mutation of ReadCsv: the node table is not filled again.
MutNotRead ==
    /\ phase # "exited" /\ job.at = "read"
    /\ job' = [job EXCEPT !.at = "end", !.csv = Len(file)]
    /\ ActionFrame /\ UNCHANGED <<tableVars, raceVars>>

\* EoReadControl: ReadCsv takes the lines, ...
ReadCsv ==
    /\ phase # "exited" /\ job.at = "read"
    /\ nodes' = Filled(nodes, file)
    /\ job' = [job EXCEPT !.at = "end", !.csv = Len(file)]
    /\ ActionFrame /\ UNCHANGED <<mode, count, file, raceVars>>

\* ... ends the table ...
EndMark ==
    /\ phase # "exited" /\ job.at = "end"
    /\ nodes' = MarkedAt(nodes, job.csv)
    /\ job' = [job EXCEPT !.at = "count"]
    /\ ActionFrame /\ UNCHANGED <<mode, count, file, raceVars>>

\* ... and returns the lines' number.
EoReadControl ==
    /\ phase # "exited" /\ job.at = "count"
    /\ count' = job.csv
    /\ job' = Idle
    /\ ActionFrame /\ UNCHANGED <<mode, file, nodes, raceVars>>

(***************************************************************************)
(* The system.                                                             *)
(***************************************************************************)
NoRepeat == {s \in UNION {[1 .. n -> Ids] : n \in 0 .. Cardinality(Ids)} :
                \A i, j \in DOMAIN s : s[i] = s[j] => i = j}

\* The control file has been read and the threads have started.  The
\* gateway is as the program's last run, or another one, has left it.
Init ==
    /\ phase = "start"
    /\ todo = <<"RESET">>
    /\ index = 1
    /\ waiting = FALSE
    /\ failures = 0
    /\ mode \in Modes
    /\ modeSet = ModeOf[mode]
    /\ csv = 0
    /\ erp1gw = FALSE
    /\ file \in NoRepeat
    /\ nodes = file
    /\ count = Len(file)
    /\ job = Idle
    /\ line = <<>>
    /\ answers = <<>>
    /\ gateway \in [erp2 : BOOLEAN, mode : {"ERP1"},
                    filter : {{}, Ids}, enabled : BOOLEAN]
    /\ faults = [slow |-> 0, lost |-> 0, silent |-> 0, made |-> 0]
    /\ lag = 0
    /\ overlap = FALSE /\ raced = FALSE

Main == SendCommand \/ GetResponse \/ Timeout \/ FilterEnd \/ LocalStep
ActionThread ==
    (\E d \in Ids : Look(d)) \/ CheckMode \/ EoSetEep \/ ReadCsv
    \/ EndMark \/ EoReadControl

Next ==
    \/ \E c \in HostCommands : Begin(c)
    \/ Main
    \/ ActionThread
    \/ Execute
    \/ Fault

Spec == Init /\ [][Next]_vars

\* Main runs whenever it can; the gateway does not stop for ever.  (It
\* would be enough that GetResponse times out: MaxFaults bounds that.)
FairSpec == Spec /\ WF_vars(Main) /\ WF_vars(Execute)

(***************************************************************************)
(* Properties.                                                             *)
(***************************************************************************)
\* An answer is taken for the command just sent, or for one as many
\* commands later as answers came too late or were made up before.
AnswerLag == lag <= faults.slow + faults.made

\* GetResponse empties nothing: once an answer has come too late, every
\* answer is taken for a later command than its own, for as long as dpride
\* runs; only another fault of the line helps.
SlipLasts == [][lag' < lag => faults.lost + faults.silent > 0]_vars

\* At rest: no command under way and no teach-in either.
Settled == MainIdle /\ line = <<>> /\ job = Idle

\* The start loop knows an ERP1 gateway for what it is, whatever is lost on
\* the line; a late answer may hide one, but a gateway with ERP2 is never
\* taken for one.
StartKnows ==
    phase = "run" /\ faults.made = 0 =>
        /\ erp1gw => ~gateway.erp2
        /\ faults.slow = 0 /\ ~gateway.erp2 => erp1gw

\* Whatever was commanded before, and however late the answers: in
\* Operation mode the gateway lets through exactly the devices of the
\* control file, in the other modes, or with an empty file, everything;
\* and its transceiver is in the mode last written.  That is, if
\* it carried out all commands, and no teach-in overlapped one since the
\* filter was last switched off; a made-up answer may keep the start loop
\* from writing the transceiver's mode.  What the start loop found out of
\* the gateway is true, and every variable keeps its type.
GatewayAgrees ==
    /\ TypeOK /\ StartKnows
    /\ Settled /\ faults.lost = 0 /\ ~overlap =>
        /\ gateway.enabled <=> (mode = "Operation" /\ count > 0)
        /\ gateway.enabled =>
               gateway.filter = {file[i] : i \in DOMAIN file}
        /\ gateway.erp2 /\ faults.made = 0 => gateway.mode = modeSet

\* Unless a teach-in overlaps the clearing of the tables, or adds its line
\* and reads the file between main's last line of the file and its end mark,
\* a device has one line in the control file: ActionThread's look at the
\* node table is as good as a look at the file.
LinesOnce ==
    ~raced => \A i, j \in DOMAIN file : file[i] = file[j] => i = j

\* Every command main has begun comes to its end, or main exits: lost
\* answers, and a table that grows while the filter is written, do not hold
\* it up.
MainReturns == phase = "start" \/ todo # <<>> ~> MainIdle \/ phase = "exited"
=============================================================================
