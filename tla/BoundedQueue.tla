----------------------------- MODULE BoundedQueue -----------------------------
(***************************************************************************)
(* What a reorder buffer promises: a first-in first-out queue that never   *)
(* holds more than Capacity elements.                                      *)
(***************************************************************************)
EXTENDS Naturals, Sequences

CONSTANTS Elements, Capacity

VARIABLE queue

Init == queue = <<>>

Enter ==
  /\ Len(queue) < Capacity
  /\ \E e \in Elements : queue' = Append(queue, e)

Leave ==
  /\ queue # <<>>
  /\ queue' = Tail(queue)

Next == Enter \/ Leave

Spec == Init /\ [][Next]_queue
===============================================================================
