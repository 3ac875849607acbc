------------------------------ MODULE Brokers -------------------------------
(***************************************************************************)
(* How a broker learns of new values.  ActionThread writes a device's      *)
(* value to its bridge file and sends SIG_BROKERS with the device's index  *)
(* to the process named in the broker's pid file (dpride.c).  The broker   *)
(* (sample-broker.c) notes the index in its handler, and its main loop     *)
(* looks at the notes in turn, reads the bridge file and clears the note.  *)
(*                                                                         *)
(* Each device has one value, and the broker's list of them is a file read *)
(* once, at its start.                                                     *)
(***************************************************************************)
EXTENDS Naturals

CONSTANTS
    NodeCount,       \* devices there may be
    MaxValues,       \* bound: values received
    MaxStarts,       \* bound: starts of the broker
    MaxReboots       \* bound: restarts of dpride

ASSUME BrokersAssumption ==
    /\ NodeCount \in Nat \ {0} /\ MaxValues \in Nat
    /\ MaxStarts \in Nat /\ MaxReboots \in Nat

Devices == 1 .. NodeCount
Empty == MaxValues + 1       \* a bridge file that is open for writing
Garbage == MaxValues + 2     \* what the broker makes of an empty file

VARIABLES
    nodes,      \* devices in the control file
    listed,     \* brokers.txt names the broker
    enlisted,   \* dpride has read it there
    pidFile,    \* the broker's pid file exists
    file,       \* the bridge files: a value, 0 (none yet) or Empty
    count,      \* values received
    job,        \* ActionThread: "idle", "write" or "notify"
    target,     \* the device it is at work for
    pc,         \* the broker's step, "off" if it does not run
    running,    \* the broker's flag
    nodeCount,  \* the broker's count of devices
    flag,       \* PatrolTable: DataExists
    pending,    \* devices whose signals the handler has not seen
    cursor,     \* the device the loop is at
    printed,      \* what the brokers have printed last
    starts, reboots,   \* starts of the broker, restarts of dpride
    lost,       \* history: devices a value of which was not noted, or whose
                \* note was cleared unread
    early       \* history: told to stop before running was set

dprideVars == <<nodes, enlisted, file, count, job, target, reboots>>
brokerVars == <<pc, running, nodeCount, flag, pending, cursor, printed, starts>>
brokersVars == <<dprideVars, listed, pidFile, brokerVars, lost, early>>

Handling == {"catching", "loaded", "cleared", "patrol", "clear", "sleep"}
Looping == {"patrol", "clear", "sleep"}

(***************************************************************************)
(* dpride.                                                                 *)
(***************************************************************************)
\* A device is taught in.
Register ==
    /\ nodes < NodeCount
    /\ nodes' = nodes + 1
    /\ UNCHANGED <<enlisted, file, count, job, target, reboots, listed,
                   pidFile, brokerVars, lost, early>>

\* WriteBridge, in two steps: fopen empties the file, fclose fills it.
OpenBridge(d) ==
    /\ job = "idle" /\ d <= nodes /\ count < MaxValues
    /\ job' = "write" /\ target' = d
    /\ count' = count + 1
    /\ file' = [file EXCEPT ![d] = Empty]
    /\ UNCHANGED <<nodes, enlisted, reboots, listed, pidFile, brokerVars,
                   lost, early>>

CloseBridge ==
    /\ job = "write"
    /\ job' = "notify"
    /\ file' = [file EXCEPT ![target] = count]
    /\ UNCHANGED <<nodes, enlisted, count, target, reboots, listed, pidFile,
                   brokerVars, lost, early>>

\* NotifyBrokers: without an entry or a pid file nobody is told, nor if no
\* such process is left.  A process that has no handler yet is killed.
NotifyBrokers ==
    LET told == enlisted /\ pidFile /\ pc # "off"
        kills == told /\ pc \notin Handling
    IN
    /\ job = "notify"
    /\ job' = "idle"
    /\ pending' = IF told /\ ~kills THEN pending \cup {target} ELSE pending
    /\ lost' = IF told /\ ~kills THEN lost ELSE lost \cup {target}
    /\ pc' = IF kills THEN "off" ELSE pc
    /\ UNCHANGED <<nodes, enlisted, file, count, target, reboots, listed,
                   pidFile, running, nodeCount, flag, cursor, printed, starts,
                   early>>

\* dpride ends anywhere and is started again.  InitBrokers reads the list
\* of brokers, and it is the only time.
Reboot ==
    /\ reboots < MaxReboots
    /\ reboots' = reboots + 1
    /\ job' = "idle"
    /\ enlisted' = listed
    /\ lost' = IF job = "notify" THEN lost \cup {target} ELSE lost
    /\ UNCHANGED <<nodes, file, count, target, listed, pidFile, brokerVars,
                   early>>

(***************************************************************************)
(* The broker's start, in the order of main.                               *)
(***************************************************************************)
WritePidFile ==
    /\ pc = "off" /\ starts < MaxStarts
    /\ starts' = starts + 1
    /\ pc' = "named"
    /\ pidFile' = TRUE
    /\ running' = FALSE /\ nodeCount' = 0 /\ cursor' = 1
    /\ flag' = [d \in Devices |-> FALSE] /\ pending' = {}
    /\ early' = FALSE
    /\ UNCHANGED <<dprideVars, listed, printed, lost>>

WriteBrokerFile ==
    /\ pc = "named"
    /\ pc' = "listed"
    /\ listed' = TRUE
    /\ UNCHANGED <<dprideVars, pidFile, running, nodeCount, flag, pending,
                   cursor, printed, starts, lost, early>>

\* A step of main that changes pc and nothing else of the broker.
StepTo(from, to) ==
    /\ pc = from
    /\ pc' = to
    /\ UNCHANGED <<dprideVars, listed, pidFile, nodeCount, pending, cursor,
                   printed, starts, early>>

\* signal, twice; then EoSignalAction.
CatchStop == StepTo("listed", "stoppable") /\ UNCHANGED <<running, flag, lost>>
CatchEvents == StepTo("stoppable", "catching") /\ UNCHANGED <<running, flag, lost>>

EoReflesh ==
    /\ pc = "catching"
    /\ pc' = "loaded"
    /\ nodeCount' = nodes
    /\ UNCHANGED <<dprideVars, listed, pidFile, running, flag, pending,
                   cursor, printed, starts, lost, early>>

\* PatrolTable[i] = NoData for each device, whatever was noted there.
InitPatrol ==
    /\ StepTo("loaded", "cleared")
    /\ flag' = [d \in Devices |-> flag[d] /\ d > nodeCount]
    /\ lost' = lost \cup {d \in 1 .. nodeCount : flag[d]}
    /\ UNCHANGED running

SetRunning ==
    /\ StepTo("cleared", "patrol")
    /\ running' = TRUE
    /\ UNCHANGED <<flag, lost>>

(***************************************************************************)
(* The broker's loop.                                                      *)
(***************************************************************************)
\* The newest value of d is not the one printed, and its signal has been
\* handled, or has been lost with dpride's end.
Overlooked(d) ==
    printed[d] # file[d] /\ d \notin pending /\ ~(job # "idle" /\ target = d)

\* The next device, or the end of the round.
Onward ==
    /\ cursor' = IF cursor < nodeCount THEN cursor + 1 ELSE 1
    /\ pc' = IF cursor < nodeCount THEN "patrol" ELSE "sleep"

\* Mutation of SkipDevice: break, as for NoEntry, in place of continue.
MutSkipDevice ==
    /\ pc = "patrol" /\ nodeCount > 0 /\ ~flag[cursor]
    /\ cursor' = 1 /\ pc' = "sleep"
    /\ UNCHANGED <<dprideVars, listed, pidFile, running, nodeCount, flag,
                   pending, printed, starts, lost, early>>

\* NoData: continue.
SkipDevice ==
    /\ pc = "patrol" /\ ~flag[cursor]
    /\ Onward
    /\ UNCHANGED <<dprideVars, listed, pidFile, running, nodeCount, flag,
                   pending, printed, starts, lost, early>>

\* EoGetDataByIndex.  Of a file that is empty it returns what the buffer
\* happens to hold.
ReadDevice ==
    /\ pc = "patrol" /\ flag[cursor]
    /\ pc' = "clear"
    /\ printed' = [printed EXCEPT ![cursor] = IF file[cursor] = Empty THEN Garbage
                                          ELSE file[cursor]]
    /\ lost' = IF file[cursor] = Empty THEN lost ELSE lost \ {cursor}
    /\ UNCHANGED <<dprideVars, listed, pidFile, running, nodeCount, flag,
                   pending, cursor, starts, early>>

\* Mutation of ClearNote: every note is cleared.
MutClearNote ==
    /\ pc = "clear"
    /\ flag' = [d \in Devices |-> FALSE]
    /\ lost' = IF Overlooked(cursor) THEN lost \cup {cursor} ELSE lost
    /\ Onward
    /\ UNCHANGED <<dprideVars, listed, pidFile, running, nodeCount, pending,
                   printed, starts, early>>

\* PatrolTable[i] = NoData: the note of a value that came after the file was
\* read goes with it.
ClearNote ==
    /\ pc = "clear"
    /\ flag' = [flag EXCEPT ![cursor] = FALSE]
    /\ lost' = IF Overlooked(cursor) THEN lost \cup {cursor} ELSE lost
    /\ Onward
    /\ UNCHANGED <<dprideVars, listed, pidFile, running, nodeCount, pending,
                   printed, starts, early>>

\* sleep(1), and the test of running.
WakeUp ==
    /\ pc = "sleep"
    /\ IF running
       THEN pc' = "patrol" /\ UNCHANGED <<lost, flag, pending>>
       ELSE /\ pc' = "off"
            /\ lost' = lost \cup pending \cup {d \in Devices : flag[d]}
            /\ flag' = [d \in Devices |-> FALSE] /\ pending' = {}
    /\ UNCHANGED <<dprideVars, listed, pidFile, running, nodeCount, cursor,
                   printed, starts, early>>

(***************************************************************************)
(* Signals to the broker.                                                  *)
(***************************************************************************)
\* ExamineEvent, between any two steps of main.
ExamineEvent(d) ==
    /\ pc \in Handling /\ d \in pending
    /\ pending' = pending \ {d}
    /\ flag' = [flag EXCEPT ![d] = TRUE]
    /\ UNCHANGED <<dprideVars, listed, pidFile, pc, running, nodeCount, cursor,
                   printed, starts, lost, early>>

\* Mutation of StopHandler: the flag is left alone.
MutStopHandler ==
    /\ pc \in Handling \cup {"stoppable"}
    /\ pidFile' = FALSE
    /\ UNCHANGED <<dprideVars, listed, pc, running, nodeCount, flag, pending,
                   cursor, printed, starts, lost, early>>

\* stopHandler, for SIGINT and SIGTERM.  Before main sets running the order
\* to stop is forgotten, and the pid file is gone.
StopHandler ==
    /\ pc \in Handling \cup {"stoppable"}
    /\ pidFile' = FALSE
    /\ running' = FALSE
    /\ early' = (early \/ pc \notin Looping)
    /\ UNCHANGED <<dprideVars, listed, pc, nodeCount, flag, pending, cursor,
                   printed, starts, lost>>

\* The same signals before there is a handler: the pid file stays.
Terminated ==
    /\ pc \in {"named", "listed"}
    /\ pc' = "off"
    /\ UNCHANGED <<dprideVars, listed, pidFile, running, nodeCount, flag,
                   pending, cursor, printed, starts, lost, early>>

BrokersInit ==
    /\ nodes = 1 /\ listed \in BOOLEAN /\ enlisted = listed
    /\ pidFile = FALSE /\ file = [d \in Devices |-> 0]
    /\ count = 0 /\ job = "idle" /\ target = 1
    /\ pc = "off" /\ running = FALSE /\ nodeCount = 0
    /\ flag = [d \in Devices |-> FALSE] /\ pending = {} /\ cursor = 1
    /\ printed = [d \in Devices |-> 0] /\ starts = 0 /\ reboots = 0
    /\ lost = {} /\ early = FALSE

BrokerLoop ==
    \/ SkipDevice \/ ReadDevice \/ ClearNote \/ WakeUp
    \/ \E d \in Devices : ExamineEvent(d)

BrokersNext ==
    \/ Register \/ CloseBridge \/ NotifyBrokers \/ Reboot
    \/ \E d \in Devices : OpenBridge(d)
    \/ WritePidFile \/ WriteBrokerFile \/ CatchStop \/ CatchEvents
    \/ EoReflesh \/ InitPatrol \/ SetRunning
    \/ BrokerLoop \/ StopHandler \/ Terminated

\* The system runs the broker's loop; starting it is the user's affair, and
\* telegrams the radio's.
BrokersSpec == BrokersInit /\ [][BrokersNext]_brokersVars /\ WF_brokersVars(BrokerLoop)

(***************************************************************************)
(* Properties.                                                             *)
(***************************************************************************)
BrokersTypeOK ==
    /\ nodes \in Devices /\ listed \in BOOLEAN /\ enlisted \in BOOLEAN
    /\ pidFile \in BOOLEAN /\ file \in [Devices -> 0 .. Empty]
    /\ count \in 0 .. MaxValues /\ job \in {"idle", "write", "notify"}
    /\ target \in Devices /\ running \in BOOLEAN
    /\ pc \in Handling \cup {"off", "named", "listed", "stoppable"}
    /\ nodeCount \in Devices \cup {0} /\ flag \in [Devices -> BOOLEAN]
    /\ pending \subseteq Devices /\ cursor \in Devices
    /\ printed \in [Devices -> 0 .. Garbage]
    /\ starts \in 0 .. MaxStarts /\ reboots \in 0 .. MaxReboots
    /\ lost \subseteq Devices /\ early \in BOOLEAN

\* The broker has looked at every note, and no value is on its way.
Quiet ==
    pc = "sleep" /\ job = "idle" /\ pending = {} /\ \A d \in 1 .. nodeCount : ~flag[d]

\* When all is quiet the broker has printed the newest value of each device it
\* knows, except of those one of whose signals was lost: no broker was there
\* to be told, main initialised the table after the handler had noted it,
\* or the note was cleared after the file had been read; or dpride was cut
\* off between opening the file and telling.
NothingForgotten ==
    /\ BrokersTypeOK
    /\ Quiet => \A d \in 1 .. nodeCount :
                    printed[d] = file[d] \/ file[d] = Empty \/ d \in lost

\* A broker that is to go on running can be reached: its pid file exists,
\* unless it was told to stop before it set running.  Such a broker goes on
\* without one, and is told nothing any more.
Reachable == pc \in Looping /\ running => pidFile \/ early

\* What is noted for a device the broker knew at its start is read, whatever
\* happens meanwhile, unless the broker ends.
NoteIsRead ==
    \A d \in Devices :
        (pc \in Looping /\ d <= nodeCount /\ flag[d]) ~> (~flag[d] \/ pc = "off")
=============================================================================
