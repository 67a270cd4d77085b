---------------------------- MODULE BoundedFifo ----------------------------
(***************************************************************************)
(* What lib/core/ring.h promises to the threads it connects: a queue of at *)
(* most Capacity items that hands the items over in the order in which     *)
(* they were put in, each exactly once.  An item leaves the queue and      *)
(* becomes the consumer's (variable taken) in one step.                    *)
(***************************************************************************)
EXTENDS Naturals, Sequences

CONSTANTS
    Items,      \* the values that travel through the queue
    Capacity,   \* the number of items the queue can hold
    NoItem      \* what the consumer holds before it took anything

VARIABLES
    queue,      \* the items put in and not yet taken, oldest first
    taken       \* the last item the consumer took

vars == <<queue, taken>>

Init == queue = << >> /\ taken = NoItem

Put(item) ==
    /\ Len(queue) < Capacity
    /\ queue' = Append(queue, item)
    /\ UNCHANGED taken

Take ==
    /\ Len(queue) > 0
    /\ taken' = Head(queue)
    /\ queue' = Tail(queue)

Next == (\E item \in Items : Put(item)) \/ Take

Spec == Init /\ [][Next]_vars

(***************************************************************************)
(* The consumer polls for ever, so a queue that is not empty is drained.   *)
(***************************************************************************)
FairSpec == Spec /\ WF_vars(Take)
=============================================================================
