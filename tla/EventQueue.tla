----------------------------- MODULE EventQueue ------------------------------
(***************************************************************************)
(* What the touchscreen device promises its readers: a queue of bounded    *)
(* size that hands out events one by one, in the order in which they were  *)
(* put in, and each of them once.                                          *)
(***************************************************************************)
EXTENDS Naturals, Sequences

CONSTANTS
    Capacity,   \* how many events may wait
    Events

VARIABLES
    queue,      \* the events that wait for a reader
    delivered   \* the events readers have received since the device was opened

vars == <<queue, delivered>>

Init == queue = <<>> /\ delivered = <<>>

Put == /\ Len(queue) < Capacity
       /\ \E e \in Events : queue' = Append(queue, e)
       /\ UNCHANGED delivered

Get == /\ queue # <<>>
       /\ delivered' = Append(delivered, Head(queue))
       /\ queue' = Tail(queue)

\* A reader whose buffer cannot be written to loses the event.
Lose == queue # <<>> /\ queue' = Tail(queue) /\ UNCHANGED delivered

\* Nobody has the device open any more; the next session begins.
Clear == queue' = <<>> /\ delivered' = <<>>

Next == Put \/ Get \/ Lose \/ Clear

Spec == Init /\ [][Next]_vars
=============================================================================
