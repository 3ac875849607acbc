------------------------------ MODULE DataPath ------------------------------
(***************************************************************************)
(* What dpride promises about the order of radio telegrams: they reach     *)
(* MainJob in the order in which they were received, each of them at most  *)
(* once, whatever the buffers and threads in between do.                   *)
(***************************************************************************)
EXTENDS Naturals, Sequences

VARIABLES
    received,   \* telegrams received so far; they are numbered from 1
    handled     \* numbers of the telegrams handled, in order

Init == received = 0 /\ handled = <<>>

Receive == received' = received + 1 /\ UNCHANGED handled

\* The next telegram to handle is the oldest one not handled yet.
Handle ==
    /\ Len(handled) < received
    /\ handled' = Append(handled, Len(handled) + 1)
    /\ UNCHANGED received

Next == Receive \/ Handle

Spec == Init /\ [][Next]_<<received, handled>>
=============================================================================
