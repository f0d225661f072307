------------------------------ MODULE EventQueue ------------------------------
(***************************************************************************)
(* The pending-event queue of the engine (src/src/nerva_event.c): a binary *)
(* heap on due_tick in an array, with merge, stale drop and eviction at    *)
(* the array's limit, driven as nerva_tick drives it.                      *)
(*                                                                         *)
(* heap_sift_up and heap_sift_down are loops; each turn of a loop is a     *)
(* step here, and no other action is enabled until the loops of an         *)
(* operation have ended (op = "none").  Indices start at 1, so the parent  *)
(* of i is i \div 2 where the C code has (i - 1) / 2 from 0.               *)
(*                                                                         *)
(* An event's id is no field of the code: it is a number no other pending  *)
(* event has, and tells equal events apart for the refinement.             *)
(***************************************************************************)
EXTENDS Events, Sequences

VARIABLES
  tick,    (* as in EventBag                                             *)
  phase,   (* as in EventBag                                             *)
  heap,    (* events[0 .. event_count - 1]                               *)
  op,      (* the sift loop that runs: "up", "down" or "none"            *)
  pos,     (* idx of that loop                                           *)
  fix      (* heap_fix_position's idx, to sift down from after "up"; 0   *)
           (* when heap_insert sifts up                                  *)

vars == <<tick, phase, heap, op, pos, fix>>

(* The abstract queue: what the array holds, in no order.                  *)
Pending == {heap[i] : i \in 1..Len(heap)}

Bag == INSTANCE EventBag WITH queue <- Pending
-----------------------------------------------------------------------------
Init == /\ tick = 0
        /\ phase = "between"
        /\ heap = <<>>
        /\ op = "none"
        /\ pos = 0
        /\ fix = 0

Indices == 1..Len(heap)

FreeId == CHOOSE id \in Ids : id \notin UsedIds(Pending)

Swap(h, i, j) == [h EXCEPT ![i] = h[j], ![j] = h[i]]

FixPosition(i) == op' = "up" /\ pos' = i /\ fix' = i

NoSift == UNCHANGED <<op, pos, fix>>

SiftUp ==
  /\ op = "up"
  /\ LET parent == pos \div 2 IN
       IF pos > 1 /\ heap[parent].due > heap[pos].due
       THEN /\ heap' = Swap(heap, parent, pos)
            /\ pos' = parent
            /\ UNCHANGED <<op, fix>>
       ELSE /\ op' = IF fix = 0 THEN "none" ELSE "down"
            /\ pos' = fix
            /\ fix' = 0
            /\ UNCHANGED heap
  /\ UNCHANGED <<tick, phase>>

(* Only the left child is looked at (mutant).                              *)
SmallestLeft(i) ==
  IF 2 * i <= Len(heap) /\ heap[2 * i].due < heap[i].due THEN 2 * i ELSE i

(* The child heap_sift_down swaps with, or i when neither is due earlier.  *)
Smallest(i) ==
  LET left == 2 * i
      right == 2 * i + 1
      s == IF left <= Len(heap) /\ heap[left].due < heap[i].due THEN left ELSE i
  IN  IF right <= Len(heap) /\ heap[right].due < heap[s].due THEN right ELSE s

SiftDown ==
  /\ op = "down"
  /\ IF Smallest(pos) = pos
     THEN op' = "none" /\ pos' = 0 /\ UNCHANGED <<heap, fix>>
     ELSE /\ heap' = Swap(heap, pos, Smallest(pos))
          /\ pos' = Smallest(pos)
          /\ UNCHANGED <<op, fix>>
  /\ UNCHANGED <<tick, phase>>
-----------------------------------------------------------------------------
(* The first event of the least signal, sign included (mutant).            *)
FirstLeast(w) == \A i \in Indices : /\ heap[w].sig <= heap[i].sig
                                    /\ i < w => heap[w].sig < heap[i].sig

(* nerva_event_overflow_admit: the first of the weakest events gives way   *)
(* to a strictly stronger one.                                             *)
FirstWeakest(w) ==
  /\ Weakest(Pending, heap[w])
  /\ \A i \in 1..(w - 1) : Strength(heap[i].sig) > Strength(heap[w].sig)

OverflowAdmit(key, due, sig) ==
  \E w \in Indices :
    /\ FirstWeakest(w)
    /\ IF Strength(sig) <= Strength(heap[w].sig)
       THEN UNCHANGED heap /\ NoSift
       ELSE /\ heap' = [heap EXCEPT ![w] =
                          [id |-> @.id, key |-> key, due |-> due, sig |-> sig]]
            /\ FixPosition(w)

(* heap_insert: append, then sift up from the end.                         *)
HeapInsert(key, due, sig) ==
  /\ heap' = Append(heap, [id |-> FreeId, key |-> key, due |-> due, sig |-> sig])
  /\ op' = "up"
  /\ pos' = Len(heap) + 1
  /\ fix' = 0

(* nerva_event_push                                                        *)
Push(key, due, sig) ==
  IF Stale(due, tick) THEN UNCHANGED heap /\ NoSift
  ELSE IF Len(heap) >= Cap THEN OverflowAdmit(key, due, sig)
  ELSE HeapInsert(key, due, sig)

(* nerva_find_merge_candidate: the first in the array's order.             *)
MergeCandidate(i, key, due) ==
  /\ Mergeable(heap[i], key, due)
  /\ \A j \in 1..(i - 1) : ~Mergeable(heap[j], key, due)

(* nerva_event_merge_or_push                                               *)
MergeOrPush(key, due, sig) ==
  \/ \E i \in Indices :
       /\ MergeCandidate(i, key, due)
       /\ heap' = [heap EXCEPT ![i] = Combine(@, due, sig)]
       /\ FixPosition(i)
  \/ /\ \A i \in Indices : ~Mergeable(heap[i], key, due)
     /\ Push(key, due, sig)

(* heap_remove_min: the last event takes the first place and sifts down.   *)
RemoveMin ==
  LET n == Len(heap) - 1 IN
  /\ heap' = [i \in 1..n |-> IF i = 1 THEN heap[n + 1] ELSE heap[i]]
  /\ IF n > 0 THEN op' = "down" /\ pos' = 1 /\ fix' = 0 ELSE NoSift
-----------------------------------------------------------------------------
Activate(key, sig) ==
  /\ op = "none"
  /\ phase = "between"
  /\ Push(key, tick, sig)
  /\ UNCHANGED <<tick, phase>>

Emit(key, delay, sig) ==
  /\ op = "none"
  /\ phase = "fire"
  /\ MergeOrPush(key, tick + delay, sig)
  /\ UNCHANGED <<tick, phase>>

BeginTick ==
  /\ op = "none"
  /\ phase = "between"
  /\ tick < MaxTick
  /\ phase' = "drain"
  /\ UNCHANGED <<tick, heap>> /\ NoSift

(* Ticks compared the wrong way round at the boundary (mutant).            *)
RootDueLate == heap # <<>> /\ heap[1].due < tick

(* nerva_event_pop looks at the root only.                                 *)
RootDue == heap # <<>> /\ heap[1].due <= tick

(* It takes the root when that is due, and goes on to the next event when  *)
(* the one it took is stale.                                               *)
Pop ==
  /\ op = "none"
  /\ phase \in {"drain", "fire"}
  /\ RootDue
  /\ RemoveMin
  /\ phase' = IF Stale(heap[1].due, tick) THEN phase ELSE "fire"
  /\ UNCHANGED tick

(* The drain loop of nerva_tick ends when nerva_event_pop returns false.   *)
EndTick ==
  /\ op = "none"
  /\ phase \in {"drain", "fire"}
  /\ ~RootDue
  /\ tick' = tick + 1
  /\ phase' = "between"
  /\ UNCHANGED heap /\ NoSift

Next == \/ \E key \in Activations \cup Keys, sig \in Signals : Activate(key, sig)
        \/ \E key \in Keys, delay \in Delays, sig \in Signals : Emit(key, delay, sig)
        \/ BeginTick
        \/ Pop
        \/ EndTick
        \/ SiftUp
        \/ SiftDown

Spec == Init /\ [][Next]_vars
-----------------------------------------------------------------------------
(* The shape of the state: ids are distinct, a sift loop stands inside the *)
(* array, and the array never outgrows event_cap.                          *)
TypeOK ==
  /\ tick \in 0..MaxTick
  /\ phase \in Phase
  /\ phase # "between" => tick < MaxTick
  /\ heap \in Seq(Event)
  /\ Len(heap) <= Cap
  /\ \A i, j \in Indices : heap[i].id = heap[j].id => i = j
  /\ op \in {"none", "up", "down"}
  /\ pos \in 0..Len(heap)
  /\ fix \in 0..Len(heap)
  /\ op = "none" <=> pos = 0
  /\ op # "up" => fix = 0

(* Where the array may be out of order while a loop runs: above the moving *)
(* event while it rises, below it while it sinks, and on both sides of an  *)
(* event heap_fix_position has just begun to move.                         *)
OutOfOrder(i) ==
  \/ op = "up" /\ i = pos
  \/ op = "up" /\ fix = pos /\ i \div 2 = pos
  \/ op = "down" /\ i \div 2 = pos

(* The array is a heap except at those places, and even there an event is  *)
(* never due before its grandparent's place, so that each loop ends with a *)
(* heap: inserting, removing, merging and evicting keep the order.         *)
HeapOrder ==
  \A i \in 2..Len(heap) :
    /\ OutOfOrder(i) \/ heap[i \div 2].due <= heap[i].due
    /\ op # "none" /\ pos > 1 /\ i \div 2 = pos => heap[pos \div 2].due <= heap[i].due

(* No pending event is overdue: nerva_tick hands out every event in the    *)
(* very tick it is due, though it only ever looks at the root, so that no  *)
(* event of the engine grows stale.                                        *)
NothingOverdue == \A i \in Indices : heap[i].due >= tick

(* The array, its loops and its tie-breaking implement the event bag: a    *)
(* step of the heap is a step of the bag or moves events within the array. *)
ImplementsBag == Bag!Spec
=============================================================================
