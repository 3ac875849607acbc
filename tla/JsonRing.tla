------------------------------ MODULE JsonRing ------------------------------
(***************************************************************************)
(* What the JSON service's queue is for whoever does not see its pointers: *)
(* a ring of buffers used in turn and a first-in first-out line of those   *)
(* that wait for the server.  JsonService implements it.  The line is      *)
(* lossy in one way: a buffer whose turn comes while it still waits is     *)
(* then alone in the line.                                                 *)
(***************************************************************************)
EXTENDS Naturals, Sequences

CONSTANTS
    Ring,     \* the number of buffers
    Nobody    \* the server has no buffer

VARIABLES
    waiting,  \* the buffers that wait, the oldest first
    turn,     \* the buffer to queue next
    taken     \* the buffer the server took, or Nobody

ringVars == <<waiting, turn, taken>>

Waits(b) == \E k \in DOMAIN waiting : waiting[k] = b

Put ==
    /\ turn' = (turn + 1) % Ring
    /\ waiting' = IF Waits(turn) THEN <<turn>> ELSE Append(waiting, turn)
    /\ UNCHANGED taken

Take ==
    /\ taken = Nobody /\ waiting # <<>>
    /\ taken' = Head(waiting)
    /\ waiting' = Tail(waiting)
    /\ UNCHANGED turn

Release ==
    /\ taken # Nobody
    /\ taken' = Nobody
    /\ UNCHANGED <<waiting, turn>>

RingInit == waiting = <<>> /\ turn = 0 /\ taken = Nobody
RingNext == Put \/ Take \/ Release
RingSpec == RingInit /\ [][RingNext]_ringVars
=============================================================================
