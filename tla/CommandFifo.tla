---------------------------- MODULE CommandFifo -----------------------------
(***************************************************************************)
(* What SpscQueue promises its users: a queue of bounded length that hands *)
(* over what was pushed, each command once and in order.  CommandRing      *)
(* implements it.                                                          *)
(***************************************************************************)
EXTENDS Naturals, Sequences

CONSTANTS
    Commands,
    Capacity        \* what the queue holds at most

VARIABLES
    queue,          \* pushed and not handed over yet
    handed          \* the command handed over last

Init == queue = <<>> /\ handed \in Commands

Push(c) ==
    /\ Len(queue) < Capacity
    /\ queue' = Append(queue, c)
    /\ UNCHANGED handed

Pop ==
    /\ queue # <<>>
    /\ handed' = Head(queue)
    /\ queue' = Tail(queue)

Next == Pop \/ \E c \in Commands : Push(c)

Spec == Init /\ [][Next]_<<queue, handed>>
=============================================================================
