----------------------------- MODULE MutationFifo -----------------------------
(***************************************************************************)
(* What the queue of mutations promises: it holds at most RingCap of them, *)
(* a new one goes behind all others, and they leave in the order in which  *)
(* they came.  MutationRing implements it.                                 *)
(***************************************************************************)
EXTENDS Naturals, Sequences

CONSTANT RingCap   (* mutation_cap                                         *)

VARIABLE queue     (* the mutations waiting to be applied, oldest first    *)

Init == queue = <<>>

Queue == /\ Len(queue) < RingCap
         /\ Len(queue') = Len(queue) + 1
         /\ \A i \in 1..Len(queue) : queue'[i] = queue[i]

Apply == /\ queue # <<>>
         /\ queue' = Tail(queue)

Next == Queue \/ Apply

Spec == Init /\ [][Next]_queue
=============================================================================
