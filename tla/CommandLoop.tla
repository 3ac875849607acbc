----------------------------- MODULE CommandLoop ----------------------------
(***************************************************************************)
(* How dpride's main thread gets its external commands (dpride/dpride.c,   *)
(* dpride/control.c): a host writes a command into the command file and    *)
(* sends SIGUSR2; the main thread installs SignalCatch, sleeps until the   *)
(* signal, reads the file with ReadCmd, executes the command and installs  *)
(* the handler again.  SignalCatch sets SIGUSR2 to be ignored.  ReadCmd    *)
(* skips a command that equals the one before.  The host is not part of    *)
(* the repository: it may write in two steps and signal at any time.       *)
(***************************************************************************)
EXTENDS Naturals, Sequences

CONSTANTS
    Commands,     \* the commands: a number with its option
    NoCommand,    \* what ReadCmd remembers before the first command
    MaxWrites     \* bound: commands the host writes in a behaviour

ASSUME CommandAssumption ==
    /\ NoCommand \notin Commands
    /\ MaxWrites \in Nat

VARIABLES
    file,         \* the last complete command in the file, with its number
    torn,         \* the host has truncated the file and not written it yet
    disposition,  \* of SIGUSR2
    stage,           \* where the main thread is in its loop
    last,         \* ReadCmd's lastMode and lastBuffer
    executed,     \* history: numbers of the commands executed, in order
    caught,       \* history: number in the file at the last waking signal
    served,       \* history: number of the last command ReadCmd looked at
    misread       \* history: ReadCmd has met a file being written

loopVars == <<file, torn, disposition, stage, last, executed, caught, served,
          misread>>

LoopTypeOK ==
    /\ file \in [n : 0 .. MaxWrites, cmd : Commands \cup {NoCommand}]
    /\ torn \in BOOLEAN
    /\ disposition \in {"ignore", "catch"}
    /\ stage \in {"arm", "armed", "asleep", "awake", "busy"}
    /\ last \in Commands \cup {NoCommand}
    /\ executed \in Seq(1 .. MaxWrites)
    /\ caught \in 0 .. MaxWrites
    /\ served \in 0 .. MaxWrites
    /\ misread \in BOOLEAN

(***************************************************************************)
(* The host.                                                               *)
(***************************************************************************)
\* The host opens the file for writing, which empties it, ...
HostOpen ==
    /\ ~torn /\ file.n < MaxWrites
    /\ torn' = TRUE
    /\ UNCHANGED <<file, disposition, stage, last, executed, caught, served,
                   misread>>

\* ... writes the command and closes the file.
HostWrite(c) ==
    /\ torn
    /\ torn' = FALSE
    /\ file' = [n |-> file.n + 1, cmd |-> c]
    /\ UNCHANGED <<disposition, stage, last, executed, caught, served,
                   misread>>

\* The handler: from now on SIGUSR2 is ignored.
SignalCatch == disposition = "catch" /\ disposition' = "ignore"

\* Mutation of HostSignal: the sleep is taken up again.
MutSleepsOn ==
    /\ ~torn
    /\ SignalCatch
    /\ IF stage = "asleep" THEN caught' = file.n ELSE UNCHANGED caught
    /\ UNCHANGED <<stage, file, torn, last, executed, served, misread>>

\* The host sends SIGUSR2.  The handler runs at once; it ends a sleep that
\* has begun, and only such a sleep.
HostSignal ==
    /\ ~torn
    /\ SignalCatch
    /\ IF stage = "asleep"
       THEN stage' = "awake" /\ caught' = file.n
       ELSE UNCHANGED <<stage, caught>>
    /\ UNCHANGED <<file, torn, last, executed, served, misread>>

(***************************************************************************)
(* The main thread.                                                        *)
(***************************************************************************)
Arm ==
    /\ stage = "arm"
    /\ disposition' = "catch"
    /\ stage' = "armed"
    /\ UNCHANGED <<file, torn, last, executed, caught, served, misread>>

Sleep ==
    /\ stage = "armed"
    /\ stage' = "asleep"
    /\ UNCHANGED <<file, torn, disposition, last, executed, caught, served,
                   misread>>

\* Mutation of ReadCmd: lastMode and lastBuffer are not set.
MutNotRemembered ==
    IF torn \/ file.cmd = NoCommand
    THEN misread' = (misread \/ torn) /\ UNCHANGED <<last, executed, served>>
    ELSE /\ served' = file.n
         /\ executed' = IF file.cmd = last THEN executed
                        ELSE Append(executed, file.n)
         /\ UNCHANGED <<last, misread>>

\* ReadCmd: no command, the same command as before, or a new one.
ReadCmd ==
    IF torn \/ file.cmd = NoCommand
    THEN misread' = (misread \/ torn) /\ UNCHANGED <<last, executed, served>>
    ELSE /\ served' = file.n
         /\ last' = file.cmd
         /\ executed' = IF file.cmd = last THEN executed
                        ELSE Append(executed, file.n)
         /\ UNCHANGED misread

GetCommand ==
    /\ stage = "awake"
    /\ ReadCmd
    /\ stage' = "busy"
    /\ UNCHANGED <<file, torn, disposition, caught>>

\* The end of the command, or of CMD_NOOP, and the sleep(1) after it.
Finish ==
    /\ stage = "busy"
    /\ stage' = "arm"
    /\ UNCHANGED <<file, torn, disposition, last, executed, caught, served,
                   misread>>

LoopInit ==
    /\ file = [n |-> 0, cmd |-> NoCommand]
    /\ torn = FALSE
    /\ disposition = "ignore"
    /\ stage = "arm"
    /\ last = NoCommand
    /\ executed = <<>>
    /\ caught = 0
    /\ served = 0
    /\ misread = FALSE

Host == HostOpen \/ (\E c \in Commands : HostWrite(c)) \/ HostSignal
MainLoop == Arm \/ Sleep \/ GetCommand \/ Finish

LoopNext == Host \/ MainLoop

LoopSpec == LoopInit /\ [][LoopNext]_loopVars

\* The main thread runs whenever it can; the host owes nothing.
FairLoop == LoopSpec /\ WF_loopVars(MainLoop)

(***************************************************************************)
(* Properties.                                                             *)
(***************************************************************************)
\* Commands are executed in the order in which they were written and each
\* of them once, however often the host sends its signal.
ExecutedInOrder ==
    \A i, j \in DOMAIN executed : i < j => executed[i] < executed[j]

\* What ReadCmd remembers belongs to the newest command executed: this is
\* what keeps a second signal for the same command without effect.
NewestRemembered ==
    /\ file.n > 0 <=> file.cmd # NoCommand
    /\ \A i \in DOMAIN executed :
           /\ executed[i] <= file.n
           /\ executed[i] = file.n => last = file.cmd

\* The inductive invariant behind ExecutedInOrder; a write under way is
\* within the model's bound.
WritesBounded == torn => file.n < MaxWrites
LoopInv == LoopTypeOK /\ ExecutedInOrder /\ NewestRemembered /\ WritesBounded

Deaf == stage = "asleep" /\ disposition = "ignore"

\* A main thread that has gone to sleep with SIGUSR2 ignored stays so: no
\* signal reaches it any more.
DeafForGood == [][Deaf => Deaf']_loopVars

\* A signal that wakes the main thread gets the command in the file, or a
\* newer one, read: only a host just rewriting the file can prevent it.
CaughtIsServed ==
    \A n \in 1 .. MaxWrites : (caught >= n) ~> (served >= n \/ misread)

\* "wait signal forever" (dpride.c:2983): who sleeps, listens.  The signal
\* that arrives between SignalAction and sleep refutes it.
ListensWhileAsleep == ~Deaf
=============================================================================
