----------------------------- MODULE BoundedFifo -----------------------------
(***************************************************************************)
(* What queue.h promises of a queue_t used for pushing and popping: a      *)
(* sequence of at most Capacity items, appended to at one end and consumed *)
(* from the other, one item at a time, nothing lost, repeated or invented. *)
(* The ring buffer of Queue.tla is shown to implement this module.         *)
(***************************************************************************)
EXTENDS Naturals, Sequences

CONSTANTS Item,     \* what may be pushed (void* in the code)
          Capacity  \* the capacity handed to queue_create

VARIABLES queue,    \* the items pushed and not yet popped, oldest first
          received  \* every item a pop has returned so far, in order

fifoVars == <<queue, received>>

Init == queue = <<>> /\ received = <<>>

Push(x) == /\ Len(queue) < Capacity
           /\ queue' = Append(queue, x)
           /\ UNCHANGED received

Pop == /\ queue # <<>>
       /\ queue' = Tail(queue)
       /\ received' = Append(received, Head(queue))

Next == Pop \/ \E x \in Item : Push(x)

Spec == Init /\ [][Next]_fifoVars
=============================================================================
