-------------------------------- MODULE Fifo --------------------------------
(***************************************************************************)
(* What a pipe promises: bytes come out in the order in which they went    *)
(* in, each of them once, and no more than Capacity of them wait.          *)
(***************************************************************************)
EXTENDS Naturals, Sequences

CONSTANTS Byte, Capacity

VARIABLE queue

Init == queue = <<>>

Put == /\ Len(queue) < Capacity
       /\ \E d \in Byte : queue' = Append(queue, d)

Get == /\ queue # <<>>
       /\ queue' = Tail(queue)

Next == Put \/ Get

Spec == Init /\ [][Next]_queue
=============================================================================
