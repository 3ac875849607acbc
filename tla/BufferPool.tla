----------------------------- MODULE BufferPool -----------------------------
(***************************************************************************)
(* What the packet queues of dpride promise about their buffers: a buffer  *)
(* always has exactly one owner, it changes hands one buffer at a time and *)
(* only along the paths of Hand, and a thread holds at most one buffer in  *)
(* each of its roles.                                                      *)
(***************************************************************************)
CONSTANT Buffers    \* the packet buffers of the pool

VARIABLE owner      \* owner[b]: the queue or the thread that has buffer b

Holders == {"read", "action", "push", "command"}
Owners == {"free", "data", "response", "extra", "leaked"} \cup Holders

\* The paths a buffer can take, from one owner to the next.
Hand ==
    {<<"free", "read">>, <<"read", "data">>, <<"read", "response">>,
     <<"read", "extra">>, <<"data", "action">>, <<"extra", "action">>,
     <<"action", "free">>, <<"free", "push">>, <<"push", "data">>,
     <<"push", "leaked">>, <<"response", "command">>, <<"command", "free">>}

Init == owner = [b \in Buffers |-> "free"]

\* Buffer b goes from its owner to another one; a thread takes a buffer
\* only with empty hands.
Pass(b, to) ==
    /\ <<owner[b], to>> \in Hand
    /\ to \in Holders => \A c \in Buffers : owner[c] # to
    /\ owner' = [owner EXCEPT ![b] = to]

Next == \E b \in Buffers, to \in Owners : Pass(b, to)

Spec == Init /\ [][Next]_owner
=============================================================================
