----------------------------- MODULE MutationRing -----------------------------
(***************************************************************************)
(* The ring of queued mutations: mutations[], mutation_head, mutation_tail *)
(* and mutation_count of the engine, and its two operations.  Learning     *)
(* extends this module.  Slots are numbered from 0, as in the code.        *)
(***************************************************************************)
EXTENDS Integers, Sequences

CONSTANT RingCap   (* mutation_cap                                         *)

ASSUME RingAssumption == RingCap \in Nat \ {0}

VARIABLES
  slots,     (* mutations[]                                                *)
  head,      (* mutation_head                                              *)
  tail,      (* mutation_tail                                              *)
  count      (* mutation_count                                             *)

ringVars == <<slots, head, tail, count>>

(* The waiting mutations, oldest first.                                    *)
Pending == [i \in 1..count |-> slots[(head + i - 1) % RingCap]]

Fifo == INSTANCE MutationFifo WITH queue <- Pending

(* A slot that is not in use; its old contents are never read again, and   *)
(* the model forgets them.                                                 *)
Nothing == [type |-> "none"]

RingInit ==
  /\ slots = [i \in 0..(RingCap - 1) |-> Nothing]
  /\ head = 0
  /\ tail = 0
  /\ count = 0

(* The ring takes one mutation too many (mutant).                          *)
RingFullLate == count > RingCap

RingFull == count >= RingCap

(* nerva_mutation_queue_push, when the ring has room                       *)
RingPush(m) ==
  /\ slots' = [slots EXCEPT ![tail] = m]
  /\ tail' = (tail + 1) % RingCap
  /\ count' = count + 1
  /\ UNCHANGED head

(* nerva_apply_mutations takes the next mutation                           *)
RingTake ==
  /\ head' = (head + 1) % RingCap
  /\ count' = count - 1
  /\ slots' = [slots EXCEPT ![head] = Nothing]
  /\ UNCHANGED tail
=============================================================================
