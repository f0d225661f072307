--------------------------- MODULE EventQueue_proofs ---------------------------
(***************************************************************************)
(* Proofs about EventQueue, for every capacity, set of edges, signals,     *)
(* delays, merge window and stale window: the array stays a heap outside   *)
(* its sift loops, no event is overdue, and the array implements the bag.  *)
(***************************************************************************)
EXTENDS EventQueue, FiniteSetTheorems, SequenceTheorems, WellFoundedInduction, TLAPS

(* A natural number that is not below another is at least as large.        *)
LEMMA NotBelow == \A x, y \in Nat : ~(y < x) => x <= y
  OBVIOUS

(* A nonempty set of natural numbers has a least element.                  *)
LEMMA LeastNat ==
  ASSUME NEW T, T \subseteq Nat, T # {}
  PROVE  \E x \in T : \A y \in T : x <= y
<1>1. \E x \in T : \A y \in T : ~(<<y, x>> \in OpToRel(<, Nat))
  BY NatLessThanWellFounded, WFMin, Zenon
<1>2. \A x \in T, y \in T : y < x => <<y, x>> \in OpToRel(<, Nat)
  BY Zenon DEF OpToRel
<1>3. \E x \in T : \A y \in T : ~(y < x)
  BY <1>1, <1>2, Zenon
<1> QED BY <1>3, NotBelow, Zenon

(* Saturation keeps a signal within the Q8.8 range.                        *)
LEMMA SatAddType ==
  ASSUME NEW a \in Q8_8, NEW b \in Q8_8
  PROVE  SatAdd(a, b) \in Q8_8
  BY SigAssumption DEF SatAdd, Q8_8

(* Merging into an event yields an event with the same id and key.         *)
LEMMA CombineType ==
  ASSUME NEW ev \in Event, NEW due \in Nat, NEW sig \in Q8_8
  PROVE  /\ Combine(ev, due, sig) \in Event
         /\ Combine(ev, due, sig).id = ev.id
         /\ Combine(ev, due, sig).due = IF due < ev.due THEN due ELSE ev.due
<1>1. SatAdd(ev.sig, sig) \in Q8_8
  BY SatAddType DEF Event
<1> QED BY <1>1 DEF Combine, Event

(* The interval 1..n has n elements.                                       *)
LEMMA IntervalSize ==
  ASSUME NEW n \in Nat
  PROVE  IsFiniteSet(1..n) /\ Cardinality(1..n) = n
<1>1. IsFiniteSet(1..n) /\ Cardinality(1..n) = IF 1 > n THEN 0 ELSE n - 1 + 1
  BY FS_Interval
<1> QED BY <1>1

(* The array as a function.                                                *)
LEMMA HeapElements ==
  ASSUME TypeOK
  PROVE  /\ Len(heap) \in Nat
         /\ heap \in [1..Len(heap) -> Event]
         /\ \A i \in 1..Len(heap) : heap[i] \in Event /\ heap[i].id \in Ids
<1>1. Len(heap) \in Nat /\ heap \in [1..Len(heap) -> Event]
  BY LenProperties DEF TypeOK
<1> QED BY <1>1 DEF Event

(* While the array has room, some id is unused.                            *)
LEMMA FreeIdExists ==
  ASSUME TypeOK, Len(heap) < Cap
  PROVE  FreeId \in Ids /\ FreeId \notin UsedIds(Pending)
<1> DEFINE f == [i \in 1..Len(heap) |-> heap[i].id]
<1>1. Len(heap) \in Nat /\ Cap \in Nat
  BY CapAssumption DEF TypeOK
<1>2. f \in Surjection(1..Len(heap), UsedIds(Pending))
  <2>1. \A t \in UsedIds(Pending) : \E i \in 1..Len(heap) : f[i] = t
    BY DEF UsedIds, Pending
  <2>2. \A i \in 1..Len(heap) : f[i] \in UsedIds(Pending)
    BY DEF UsedIds, Pending
  <2>3. f \in [1..Len(heap) -> UsedIds(Pending)]
    BY <2>2
  <2> HIDE DEF f
  <2> QED BY <2>1, <2>3 DEF Surjection
<1>3. /\ IsFiniteSet(1..Len(heap)) /\ Cardinality(1..Len(heap)) = Len(heap)
      /\ IsFiniteSet(Ids) /\ Cardinality(Ids) = Cap
  BY <1>1, IntervalSize DEF Ids
<1>4. /\ IsFiniteSet(UsedIds(Pending))
      /\ Cardinality(UsedIds(Pending)) <= Len(heap)
  <2> HIDE DEF f
  <2> QED BY <1>2, <1>3, FS_Surjection
<1>5. ~(Ids \subseteq UsedIds(Pending))
  <2>1. SUFFICES ASSUME Ids \subseteq UsedIds(Pending) PROVE FALSE
    OBVIOUS
  <2>2. Cardinality(Ids) <= Cardinality(UsedIds(Pending))
    BY <2>1, <1>4, FS_Subset
  <2>3. Cardinality(UsedIds(Pending)) \in Nat
    BY <1>4, FS_CardinalityType
  <2> QED BY <2>2, <2>3, <1>1, <1>3, <1>4
<1> QED BY <1>5 DEF FreeId

(* A full array uses every id.                                             *)
LEMMA FullUsesAllIds ==
  ASSUME TypeOK, Len(heap) >= Cap
  PROVE  UsedIds(Pending) = Ids
<1> DEFINE f == [i \in 1..Len(heap) |-> heap[i].id]
<1>1. Len(heap) = Cap /\ Cap \in Nat
  BY CapAssumption DEF TypeOK
<1>2. f \in Injection(1..Len(heap), Ids)
  <2>1. f \in [1..Len(heap) -> Ids]
    BY HeapElements
  <2>2. \A i, j \in 1..Len(heap) : f[i] = f[j] => i = j
    BY DEF TypeOK, Indices
  <2> HIDE DEF f
  <2> QED BY <2>1, <2>2 DEF Injection, IsInjective
<1>3. /\ IsFiniteSet(1..Len(heap)) /\ Cardinality(1..Len(heap)) = Cap
      /\ IsFiniteSet(Ids) /\ Cardinality(Ids) = Cap
  BY <1>1, IntervalSize DEF Ids
<1>4. f \in Surjection(1..Len(heap), Ids)
  <2> HIDE DEF f
  <2> QED BY <1>2, <1>3, FS_Injection
<1>5. UsedIds(Pending) = {f[i] : i \in 1..Len(heap)}
  BY DEF UsedIds, Pending
<1>6. {f[i] : i \in 1..Len(heap)} = Ids
  <2> HIDE DEF f
  <2> QED BY <1>4 DEF Surjection
<1> QED BY <1>5, <1>6

-----------------------------------------------------------------------------
(* Parents and children in an array that starts at 1.                      *)
LEMMA Halves ==
  ASSUME NEW i \in Nat
  PROVE  /\ i \div 2 \in Nat
         /\ i >= 2 => 1 <= i \div 2 /\ i \div 2 < i
         /\ \A k \in Nat : i \div 2 = k <=> i = 2 * k \/ i = 2 * k + 1
  OBVIOUS

(* What replacing one event does to the array.                             *)
LEMMA ReplaceOne ==
  ASSUME TypeOK, NEW i \in Indices, NEW ev \in Event, ev.id = heap[i].id,
         heap' = [heap EXCEPT ![i] = ev]
  PROVE  /\ heap' \in Seq(Event) /\ Len(heap') = Len(heap)
         /\ \A j \in Indices : heap'[j] = IF j = i THEN ev ELSE heap[j]
         /\ \A j, k \in Indices : heap'[j].id = heap'[k].id => j = k
<1>1. i \in 1..Len(heap) /\ heap \in Seq(Event)
  BY DEF Indices, TypeOK
<1>2. /\ heap' \in Seq(Event) /\ Len(heap') = Len(heap)
      /\ \A j \in 1..Len(heap) : heap'[j] = IF j = i THEN ev ELSE heap[j]
  BY <1>1, ExceptSeq
<1> QED BY <1>1, <1>2 DEF TypeOK, Indices

(* What a swap does to the array: the same events, two of them moved.      *)
LEMMA SwapTwo ==
  ASSUME TypeOK, NEW i \in Indices, NEW j \in Indices, i # j,
         heap' = Swap(heap, i, j)
  PROVE  /\ heap' \in Seq(Event) /\ Len(heap') = Len(heap)
         /\ heap'[i] = heap[j] /\ heap'[j] = heap[i]
         /\ \A k \in Indices : k # i /\ k # j => heap'[k] = heap[k]
         /\ \A k, l \in Indices : heap'[k].id = heap'[l].id => k = l
         /\ Pending' = Pending
<1>1. /\ i \in 1..Len(heap) /\ j \in 1..Len(heap) /\ heap \in Seq(Event)
      /\ heap[i] \in Event /\ heap[j] \in Event
  BY HeapElements DEF Indices, TypeOK
<1> DEFINE g == [heap EXCEPT ![i] = heap[j]]
<1>2. /\ g \in Seq(Event) /\ Len(g) = Len(heap)
      /\ \A k \in 1..Len(heap) : g[k] = IF k = i THEN heap[j] ELSE heap[k]
  BY <1>1, ExceptSeq
<1>3. heap' = [g EXCEPT ![j] = heap[i]]
  BY DEF Swap
<1> HIDE DEF g
<1>4. /\ heap' \in Seq(Event) /\ Len(heap') = Len(heap)
      /\ \A k \in 1..Len(heap) : heap'[k] = IF k = j THEN heap[i] ELSE g[k]
  BY <1>1, <1>2, <1>3, ExceptSeq
<1>5. /\ heap'[i] = heap[j] /\ heap'[j] = heap[i]
      /\ \A k \in 1..Len(heap) : k # i /\ k # j => heap'[k] = heap[k]
  BY <1>1, <1>2, <1>4
<1>6. \A k, l \in Indices : heap'[k].id = heap'[l].id => k = l
  BY <1>1, <1>5 DEF TypeOK, Indices
<1>7. Pending' = Pending
  BY <1>1, <1>4, <1>5 DEF Pending
<1> QED BY <1>4, <1>5, <1>6, <1>7 DEF Indices

(* What inserting an event does to the array.                              *)
LEMMA InsertOne ==
  ASSUME TypeOK, NEW ev \in Event, ev.id \notin UsedIds(Pending),
         heap' = Append(heap, ev)
  PROVE  /\ heap' \in Seq(Event) /\ Len(heap') = Len(heap) + 1
         /\ heap'[Len(heap) + 1] = ev
         /\ \A k \in Indices : heap'[k] = heap[k]
         /\ \A k, l \in 1..(Len(heap) + 1) : heap'[k].id = heap'[l].id => k = l
         /\ Pending' = Pending \cup {ev}
<1>1. heap \in Seq(Event) /\ Len(heap) \in Nat
  BY HeapElements DEF TypeOK
<1>2. /\ heap' \in Seq(Event) /\ Len(heap') = Len(heap) + 1
      /\ heap'[Len(heap) + 1] = ev
      /\ \A k \in 1..Len(heap) : heap'[k] = heap[k]
  BY <1>1, AppendProperties
<1>3. \A k \in 1..Len(heap) : heap[k].id # ev.id
  BY DEF UsedIds, Pending
<1>4. \A k, l \in 1..(Len(heap) + 1) : heap'[k].id = heap'[l].id => k = l
  BY <1>1, <1>2, <1>3 DEF TypeOK, Indices
<1>5. Pending' = Pending \cup {ev}
  BY <1>1, <1>2 DEF Pending
<1> QED BY <1>2, <1>4, <1>5 DEF Indices

(* What taking the root does to the array.                                 *)
LEMMA RemoveRoot ==
  ASSUME TypeOK, heap # <<>>, RemoveMin
  PROVE  /\ Len(heap) >= 1
         /\ heap' \in Seq(Event) /\ Len(heap') = Len(heap) - 1
         /\ \A k \in 1..(Len(heap) - 1) :
              heap'[k] = IF k = 1 THEN heap[Len(heap)] ELSE heap[k]
         /\ \A k, l \in 1..(Len(heap) - 1) : heap'[k].id = heap'[l].id => k = l
         /\ Pending' = Pending \ {heap[1]}
<1> DEFINE n == Len(heap) - 1
           e(i) == IF i = 1 THEN heap[n + 1] ELSE heap[i]
<1>1. heap \in Seq(Event) /\ Len(heap) \in Nat \ {0}
  BY HeapElements, EmptySeq DEF TypeOK
<1>2. n \in Nat /\ \A i \in 1..(n + 1) : heap[i] \in Event
  BY <1>1, HeapElements
<1>3. \A i \in 1..n : e(i) \in Event
  BY <1>2
<1>4. heap' = [i \in 1..n |-> e(i)]
  BY DEF RemoveMin
<1>5. heap' \in [1..n -> Event]
  BY <1>3, <1>4
<1>6. heap' \in Seq(Event) /\ Len(heap') = n
  BY <1>2, <1>5, SeqDef, LenProperties
<1>7. \A k \in 1..n : heap'[k] = IF k = 1 THEN heap[Len(heap)] ELSE heap[k]
  BY <1>1, <1>4
<1>8. \A k, l \in 1..n : heap'[k].id = heap'[l].id => k = l
  BY <1>1, <1>7 DEF TypeOK, Indices
<1>9. Pending' = Pending \ {heap[1]}
  <2>1. \A k \in 2..Len(heap) : heap[k] # heap[1]
    BY <1>1 DEF TypeOK, Indices
  <2>2. \A k \in 1..n : heap'[k] \in Pending \ {heap[1]}
    BY <1>1, <1>7, <2>1 DEF Pending
  <2>3. \A k \in 2..Len(heap) : \E l \in 1..n : heap'[l] = heap[k]
    BY <1>1, <1>7
  <2>4. Pending' = {heap'[l] : l \in 1..n}
    BY <1>6 DEF Pending
  <2> HIDE DEF n, e
  <2>5. Pending' \subseteq Pending \ {heap[1]}
    BY <2>2, <2>4
  <2>6. \A k \in 2..Len(heap) : heap[k] \in Pending'
    BY <2>3, <2>4
  <2>7. \A ev \in Pending \ {heap[1]} : \E k \in 2..Len(heap) : ev = heap[k]
    BY <1>1 DEF Pending
  <2> QED BY <2>5, <2>6, <2>7
<1> QED BY <1>1, <1>6, <1>7, <1>8, <1>9

-----------------------------------------------------------------------------
(* The part of the type invariant about the array and its loops.           *)
ArrayOK ==
  /\ heap \in Seq(Event)
  /\ Len(heap) <= Cap
  /\ \A i, j \in Indices : heap[i].id = heap[j].id => i = j
  /\ op \in {"none", "up", "down"}
  /\ pos \in 0..Len(heap)
  /\ fix \in 0..Len(heap)
  /\ op = "none" <=> pos = 0
  /\ op # "up" => fix = 0

(* The part of it about the clock.                                         *)
ClockOK ==
  /\ tick \in 0..MaxTick
  /\ phase \in Phase
  /\ phase # "between" => tick < MaxTick

(* The three ways in which an operation of the queue writes the array:     *)
(* an event takes another's place, or a new place, or the root leaves.     *)
Replaced(w, ev) ==
  /\ w \in Indices
  /\ ev \in Event /\ ev.id = heap[w].id
  /\ heap' = [heap EXCEPT ![w] = ev]
  /\ FixPosition(w)

Appended(ev) ==
  /\ Len(heap) < Cap
  /\ ev \in Event /\ ev.id \notin UsedIds(Pending)
  /\ heap' = Append(heap, ev)
  /\ op' = "up" /\ pos' = Len(heap) + 1 /\ fix' = 0

Kept == UNCHANGED heap /\ NoSift

LEMMA ReplacedType ==
  ASSUME TypeOK, NEW w, NEW ev, Replaced(w, ev)
  PROVE  ArrayOK'
<1>1. w \in Indices /\ w \in 1..Len(heap)
  BY DEF Replaced, Indices
<1>2. /\ heap' \in Seq(Event) /\ Len(heap') = Len(heap)
      /\ \A j, k \in Indices : heap'[j].id = heap'[k].id => j = k
  BY <1>1, ReplaceOne DEF Replaced
<1>3. Len(heap) \in Nat
  BY HeapElements
<1> QED BY <1>1, <1>2, <1>3 DEF ArrayOK, TypeOK, Indices, Replaced, FixPosition

LEMMA AppendedType ==
  ASSUME TypeOK, NEW ev, Appended(ev)
  PROVE  ArrayOK'
<1>1. /\ heap' \in Seq(Event) /\ Len(heap') = Len(heap) + 1
      /\ \A k, l \in 1..(Len(heap) + 1) : heap'[k].id = heap'[l].id => k = l
  BY InsertOne DEF Appended
<1>2. Len(heap) \in Nat /\ Len(heap) + 1 <= Cap
  BY HeapElements, CapAssumption DEF Appended
<1> QED BY <1>1, <1>2 DEF ArrayOK, Indices, Appended

LEMMA RemovedType ==
  ASSUME TypeOK, op = "none", heap # <<>>, RemoveMin
  PROVE  ArrayOK'
<1>1. /\ Len(heap) >= 1
      /\ heap' \in Seq(Event) /\ Len(heap') = Len(heap) - 1
      /\ \A k, l \in 1..(Len(heap) - 1) : heap'[k].id = heap'[l].id => k = l
  BY RemoveRoot
<1>2. Len(heap) \in Nat /\ Len(heap) <= Cap /\ Cap \in Nat
  BY HeapElements, CapAssumption DEF TypeOK
<1>3. CASE Len(heap) - 1 > 0
  BY <1>1, <1>2, <1>3 DEF ArrayOK, Indices, RemoveMin
<1>4. CASE ~(Len(heap) - 1 > 0)
  BY <1>1, <1>2, <1>4 DEF ArrayOK, Indices, RemoveMin, NoSift, TypeOK
<1> QED BY <1>3, <1>4

(* nerva_event_push writes the array in one of these ways, or not at all.  *)
LEMMA PushKinds ==
  ASSUME TypeOK, NEW key \in Keys \cup Activations, NEW due \in Nat,
         NEW sig \in Q8_8, Push(key, due, sig)
  PROVE  \/ Kept
         \/ \E w, ev : Replaced(w, ev) /\ ev.due = due
         \/ \E ev : Appended(ev) /\ ev.due = due
<1>1. CASE Stale(due, tick)
  BY <1>1 DEF Push, Kept
<1>2. CASE ~Stale(due, tick) /\ Len(heap) >= Cap
  <2>1. PICK w \in Indices :
          IF Strength(sig) <= Strength(heap[w].sig)
          THEN UNCHANGED heap /\ NoSift
          ELSE /\ heap' = [heap EXCEPT ![w] =
                             [id |-> @.id, key |-> key, due |-> due, sig |-> sig]]
               /\ FixPosition(w)
    BY <1>2 DEF Push, OverflowAdmit
  <2>2. CASE Strength(sig) <= Strength(heap[w].sig)
    BY <2>1, <2>2 DEF Kept
  <2>3. CASE ~(Strength(sig) <= Strength(heap[w].sig))
    <3> DEFINE ev == [id |-> heap[w].id, key |-> key, due |-> due, sig |-> sig]
    <3>1. ev \in Event /\ ev.id = heap[w].id /\ ev.due = due
      BY HeapElements DEF Event, Indices
    <3>2. Replaced(w, ev)
      BY <2>1, <2>3, <3>1 DEF Replaced
    <3> QED BY <3>1, <3>2
  <2> QED BY <2>2, <2>3
<1>3. CASE ~Stale(due, tick) /\ ~(Len(heap) >= Cap)
  <2> DEFINE ev == [id |-> FreeId, key |-> key, due |-> due, sig |-> sig]
  <2>1. Len(heap) < Cap /\ HeapInsert(key, due, sig)
    BY <1>3, HeapElements, CapAssumption DEF Push
  <2>2. ev \in Event /\ ev.id \notin UsedIds(Pending) /\ ev.due = due
    BY <2>1, FreeIdExists DEF Event
  <2>3. Appended(ev)
    BY <2>1, <2>2 DEF Appended, HeapInsert
  <2> QED BY <2>2, <2>3
<1> QED BY <1>1, <1>2, <1>3

(* So does nerva_event_merge_or_push.                                      *)
LEMMA MergeOrPushKinds ==
  ASSUME TypeOK, NEW key \in Keys, NEW due \in Nat, NEW sig \in Q8_8,
         MergeOrPush(key, due, sig)
  PROVE  \/ Kept
         \/ \E w, ev : Replaced(w, ev) /\ (ev.due = due \/ ev.due = heap[w].due)
         \/ \E ev : Appended(ev) /\ ev.due = due
<1>1. CASE Push(key, due, sig)
  BY <1>1, PushKinds
<1>2. ASSUME NEW i \in Indices, heap' = [heap EXCEPT ![i] = Combine(@, due, sig)],
             FixPosition(i)
      PROVE  \E w, ev : Replaced(w, ev) /\ (ev.due = due \/ ev.due = heap[w].due)
  <2> DEFINE ev == Combine(heap[i], due, sig)
  <2>1. heap[i] \in Event
    BY HeapElements DEF Indices
  <2>2. /\ ev \in Event /\ ev.id = heap[i].id
        /\ ev.due = IF due < heap[i].due THEN due ELSE heap[i].due
    BY <2>1, CombineType
  <2>3. Replaced(i, ev)
    BY <1>2, <2>2 DEF Replaced
  <2> QED BY <2>2, <2>3
<1> QED BY <1>1, <1>2 DEF MergeOrPush

-----------------------------------------------------------------------------
(* The child a sinking event changes places with: it exists, it is due     *)
(* earlier, and no other child is due before it.                           *)
LEMMA SmallestChild ==
  ASSUME TypeOK, NEW i \in Indices
  PROVE  /\ Smallest(i) \in Indices
         /\ Smallest(i) \in {i, 2 * i, 2 * i + 1}
         /\ heap[Smallest(i)].due <= heap[i].due
         /\ \A c \in Indices : c \div 2 = i => heap[Smallest(i)].due <= heap[c].due
         /\ Smallest(i) # i => heap[Smallest(i)].due < heap[i].due
<1>1. Len(heap) \in Nat /\ \A k \in Indices : heap[k].due \in Nat
  BY HeapElements DEF Indices, Event
<1>2. \A c \in Indices : c \div 2 = i => c = 2 * i \/ c = 2 * i + 1
  BY <1>1, Halves DEF Indices
<1>3. i \in Nat /\ i >= 1 /\ i <= Len(heap)
  BY <1>1 DEF Indices
<1>4. \A k \in Nat : k >= 1 /\ k <= Len(heap) => k \in Indices
  BY <1>1 DEF Indices
<1>5. \A k \in Indices : k \in Nat /\ k <= Len(heap)
  BY <1>1 DEF Indices
<1> QED
  <2> DEFINE s == IF 2 * i <= Len(heap) /\ heap[2 * i].due < heap[i].due
                  THEN 2 * i ELSE i
  <2>1. /\ s \in Indices /\ s \in {i, 2 * i}
        /\ heap[s].due <= heap[i].due
        /\ 2 * i \in Indices => heap[s].due <= heap[2 * i].due
        /\ s # i => heap[s].due < heap[i].due
    BY <1>1, <1>3, <1>4, <1>5
  <2>2. Smallest(i) = IF 2 * i + 1 <= Len(heap) /\ heap[2 * i + 1].due < heap[s].due
                      THEN 2 * i + 1 ELSE s
    BY DEF Smallest
  <2> HIDE DEF s
  <2>3. CASE 2 * i + 1 <= Len(heap) /\ heap[2 * i + 1].due < heap[s].due
    BY <1>1, <1>2, <1>3, <1>4, <1>5, <2>1, <2>2, <2>3
  <2>4. CASE ~(2 * i + 1 <= Len(heap) /\ heap[2 * i + 1].due < heap[s].due)
    BY <1>1, <1>2, <1>3, <1>4, <1>5, <2>1, <2>2, <2>4
  <2> QED BY <2>3, <2>4

(* A turn of heap_sift_up keeps the array's shape.                         *)
LEMMA SiftUpType ==
  ASSUME TypeOK, SiftUp
  PROVE  ArrayOK'
<1> DEFINE parent == pos \div 2
<1>1. /\ op = "up" /\ pos \in Indices /\ Len(heap) \in Nat /\ pos \in Nat
      /\ fix \in 0..Len(heap)
  BY HeapElements DEF TypeOK, SiftUp, Indices
<1>2. CASE pos > 1 /\ heap[parent].due > heap[pos].due
  <2>1. parent \in Indices /\ parent # pos /\ parent \in Nat /\ parent >= 1
    BY <1>1, <1>2, Halves DEF Indices
  <2>2. heap' = Swap(heap, parent, pos) /\ pos' = parent /\ UNCHANGED <<op, fix>>
    BY <1>2 DEF SiftUp
  <2>3. /\ heap' \in Seq(Event) /\ Len(heap') = Len(heap)
        /\ \A k, l \in Indices : heap'[k].id = heap'[l].id => k = l
    BY <1>1, <2>1, <2>2, SwapTwo
  <2> HIDE DEF parent
  <2> QED BY <1>1, <2>1, <2>2, <2>3 DEF ArrayOK, TypeOK, Indices
<1>3. CASE ~(pos > 1 /\ heap[parent].due > heap[pos].due)
  <2>1. /\ op' = IF fix = 0 THEN "none" ELSE "down"
        /\ pos' = fix /\ fix' = 0 /\ heap' = heap
    BY <1>3 DEF SiftUp
  <2> QED BY <1>1, <2>1 DEF ArrayOK, TypeOK, Indices
<1> QED BY <1>2, <1>3

(* A turn of heap_sift_down keeps the array's shape.                       *)
LEMMA SiftDownType ==
  ASSUME TypeOK, SiftDown
  PROVE  ArrayOK'
<1> DEFINE s == Smallest(pos)
<1>1. /\ op = "down" /\ pos \in Indices /\ Len(heap) \in Nat
      /\ s \in Indices /\ s \in Nat /\ s >= 1
  <2>1. op = "down" /\ pos \in Indices /\ Len(heap) \in Nat
    BY HeapElements DEF TypeOK, SiftDown, Indices
  <2>2. s \in Indices
    BY <2>1, SmallestChild
  <2> HIDE DEF s
  <2> QED BY <2>1, <2>2 DEF Indices
<1>2. CASE s = pos
  BY <1>1, <1>2 DEF ArrayOK, TypeOK, Indices, SiftDown
<1>3. CASE s # pos
  <2>1. heap' = Swap(heap, pos, s) /\ pos' = s /\ UNCHANGED <<op, fix>>
    BY <1>3 DEF SiftDown
  <2> HIDE DEF s
  <2>2. /\ heap' \in Seq(Event) /\ Len(heap') = Len(heap)
        /\ \A k, l \in Indices : heap'[k].id = heap'[l].id => k = l
    BY <1>1, <1>3, <2>1, SwapTwo
  <2> QED BY <1>1, <2>1, <2>2 DEF ArrayOK, TypeOK, Indices
<1> QED BY <1>2, <1>3

(* Every step keeps the type invariant.                                    *)
LEMMA TypeOKStep == TypeOK /\ [Next]_vars => TypeOK'
<1> SUFFICES ASSUME TypeOK, [Next]_vars PROVE ArrayOK' /\ ClockOK'
  BY DEF TypeOK, ArrayOK, ClockOK
<1>0. tick \in Nat /\ Len(heap) \in Nat /\ \A sig \in Signals : sig \in Q8_8
  BY HeapElements, SigAssumption, TimeAssumption DEF TypeOK, Q8_8
<1>a. ASSUME Kept PROVE ArrayOK'
  BY <1>a DEF Kept, NoSift, ArrayOK, TypeOK, Indices
<1>1. ASSUME NEW key \in Activations \cup Keys, NEW sig \in Signals, Activate(key, sig)
      PROVE  ArrayOK' /\ ClockOK'
  <2>1. Push(key, tick, sig)
    BY <1>1 DEF Activate
  <2>2. ArrayOK'
    BY <1>0, <1>a, <2>1, PushKinds, ReplacedType, AppendedType
  <2> QED BY <1>1, <2>2 DEF Activate, ClockOK, TypeOK
<1>2. ASSUME NEW key \in Keys, NEW delay \in Delays, NEW sig \in Signals,
             Emit(key, delay, sig)
      PROVE  ArrayOK' /\ ClockOK'
  <2>1. MergeOrPush(key, tick + delay, sig) /\ tick + delay \in Nat
    BY <1>0, <1>2, TimeAssumption DEF Emit
  <2>2. ArrayOK'
    BY <1>0, <1>a, <2>1, MergeOrPushKinds, ReplacedType, AppendedType
  <2> QED BY <1>2, <2>2 DEF Emit, ClockOK, TypeOK
<1>3. CASE BeginTick
  BY <1>3, <1>a DEF BeginTick, Kept, NoSift, ClockOK, TypeOK, Phase
<1>4. CASE Pop
  <2>1. ArrayOK'
    BY <1>4, RemovedType DEF Pop, RootDue
  <2> QED BY <1>4, <2>1 DEF Pop, ClockOK, TypeOK, Phase
<1>5. CASE EndTick
  BY <1>0, <1>5, <1>a, TimeAssumption DEF EndTick, Kept, NoSift, ClockOK, TypeOK, Phase
<1>6. CASE SiftUp
  BY <1>6, SiftUpType DEF SiftUp, ClockOK, TypeOK
<1>7. CASE SiftDown
  BY <1>7, SiftDownType DEF SiftDown, ClockOK, TypeOK
<1>8. CASE UNCHANGED vars
  BY <1>8, <1>a DEF vars, Kept, NoSift, ClockOK, TypeOK
<1> QED BY <1>1, <1>2, <1>3, <1>4, <1>5, <1>6, <1>7, <1>8 DEF Next

-----------------------------------------------------------------------------
(* The due tick at a place of the array.                                   *)
LEMMA DueNat ==
  ASSUME TypeOK
  PROVE  Len(heap) \in Nat /\ \A i \in Indices : i \in Nat /\ heap[i].due \in Nat
  BY HeapElements DEF Indices, Event

(* The parent of a place that is not the root.                             *)
LEMMA Parent ==
  ASSUME TypeOK, NEW i \in 2..Len(heap)
  PROVE  /\ i \in Indices /\ i > 1
         /\ i \div 2 \in Indices /\ i \div 2 < i
  BY DueNat, Halves DEF Indices

(* The order at rest.                                                      *)
LEMMA Ordered ==
  ASSUME TypeOK, HeapOrder, op = "none"
  PROVE  \A i \in 2..Len(heap) : heap[i \div 2].due <= heap[i].due
  BY DEF HeapOrder, OutOfOrder

LEMMA ReplacedOrder ==
  ASSUME TypeOK, HeapOrder, op = "none", NEW w, NEW ev, Replaced(w, ev)
  PROVE  HeapOrder'
<1>1. /\ w \in Indices /\ op' = "up" /\ pos' = w /\ fix' = w
      /\ Len(heap') = Len(heap)
      /\ \A j \in Indices : heap'[j] = IF j = w THEN ev ELSE heap[j]
  BY ReplaceOne DEF Replaced, FixPosition
<1>2. SUFFICES ASSUME NEW i \in 2..Len(heap)
      PROVE  /\ OutOfOrder(i)' \/ heap'[i \div 2].due <= heap'[i].due
             /\ w > 1 /\ i \div 2 = w => heap'[w \div 2].due <= heap'[i].due
  BY <1>1 DEF HeapOrder
<1>3. /\ i \in Indices /\ i \div 2 \in Indices /\ i \div 2 < i
      /\ i \in Nat /\ i \div 2 \in Nat
  BY Parent, DueNat
<1>4. heap[i \div 2].due <= heap[i].due
  BY Ordered
<1>5. OutOfOrder(i)' \/ heap'[i \div 2].due <= heap'[i].due
  BY <1>1, <1>3, <1>4 DEF OutOfOrder
<1>6. ASSUME w > 1, i \div 2 = w PROVE heap'[w \div 2].due <= heap'[i].due
  <2>1. w \in 2..Len(heap)
    BY <1>1, <1>6, DueNat DEF Indices
  <2>2. /\ w \div 2 \in Indices /\ w \div 2 < w /\ w \in Nat /\ w \div 2 \in Nat
        /\ heap[w \div 2].due <= heap[w].due
    BY <2>1, Parent, Ordered, DueNat
  <2>3. /\ heap[w \div 2].due \in Nat /\ heap[w].due \in Nat /\ heap[i].due \in Nat
        /\ heap[w \div 2].due <= heap[i].due
    BY <1>1, <1>3, <1>4, <1>6, <2>2, DueNat
  <2> QED BY <1>1, <1>3, <1>6, <2>2, <2>3
<1> QED BY <1>5, <1>6

LEMMA AppendedOrder ==
  ASSUME TypeOK, HeapOrder, op = "none", NEW ev, Appended(ev)
  PROVE  HeapOrder'
<1>1. /\ op' = "up" /\ pos' = Len(heap) + 1 /\ fix' = 0
      /\ Len(heap') = Len(heap) + 1
      /\ \A k \in Indices : heap'[k] = heap[k]
  BY InsertOne DEF Appended
<1>2. Len(heap) \in Nat
  BY DueNat
<1>3. SUFFICES ASSUME NEW i \in 2..(Len(heap) + 1)
      PROVE  /\ OutOfOrder(i)' \/ heap'[i \div 2].due <= heap'[i].due
             /\ i \div 2 # Len(heap) + 1
  BY <1>1 DEF HeapOrder
<1>4. i \in Nat /\ i \div 2 \in Nat /\ i \div 2 < i /\ i \div 2 # Len(heap) + 1
  BY <1>2, Halves
<1>5. CASE i = Len(heap) + 1
  BY <1>1, <1>4, <1>5 DEF OutOfOrder
<1>6. CASE i # Len(heap) + 1
  <2>1. i \in 2..Len(heap)
    BY <1>2, <1>6
  <2>2. /\ i \in Indices /\ i \div 2 \in Indices
        /\ heap[i \div 2].due <= heap[i].due
    BY <2>1, Parent, Ordered
  <2> QED BY <1>1, <1>4, <2>2
<1> QED BY <1>5, <1>6

LEMMA RemovedOrder ==
  ASSUME TypeOK, HeapOrder, op = "none", heap # <<>>, RemoveMin
  PROVE  HeapOrder'
<1>1. /\ Len(heap') = Len(heap) - 1
      /\ \A k \in 1..(Len(heap) - 1) :
           heap'[k] = IF k = 1 THEN heap[Len(heap)] ELSE heap[k]
      /\ Len(heap) \in Nat
  BY RemoveRoot, DueNat
<1>2. SUFFICES ASSUME NEW i \in 2..(Len(heap) - 1)
      PROVE  /\ OutOfOrder(i)' \/ heap'[i \div 2].due <= heap'[i].due
             /\ ~(pos' > 1)
  BY <1>1 DEF HeapOrder
<1>3. op' = "down" /\ pos' = 1
  BY <1>1 DEF RemoveMin
<1>4. i \in 2..Len(heap)
  BY <1>1
<1>5. /\ i \in Nat /\ i \div 2 \in Nat /\ i \div 2 >= 1 /\ i \div 2 < i
      /\ heap[i \div 2].due <= heap[i].due
  BY <1>4, Halves, Ordered
<1>6. OutOfOrder(i)' \/ heap'[i \div 2].due <= heap'[i].due
  BY <1>1, <1>3, <1>5 DEF OutOfOrder
<1> QED BY <1>3, <1>6

(* A turn of heap_sift_up: what rises is due before its parent, so it is   *)
(* due before its parent's other child, and the parent before its own.     *)
LEMMA SiftUpOrder ==
  ASSUME TypeOK, HeapOrder, SiftUp
  PROVE  HeapOrder'
<1> DEFINE p == pos \div 2
<1>1. /\ op = "up" /\ pos \in Indices /\ pos \in Nat /\ pos >= 1
      /\ Len(heap) \in Nat /\ \A i \in Indices : heap[i].due \in Nat
      /\ fix \in 0..Len(heap)
  BY DueNat DEF TypeOK, SiftUp, Indices
<1>2. CASE pos > 1 /\ heap[p].due > heap[pos].due
  <2>1. /\ p \in Indices /\ p # pos /\ p \in Nat /\ p >= 1 /\ p < pos
        /\ pos \in 2..Len(heap)
    BY <1>1, <1>2, Halves DEF Indices
  <2>2. heap' = Swap(heap, p, pos) /\ pos' = p /\ UNCHANGED <<op, fix>>
    BY <1>2 DEF SiftUp
  <2>3. /\ Len(heap') = Len(heap)
        /\ heap'[p] = heap[pos] /\ heap'[pos] = heap[p]
        /\ \A k \in Indices : k # p /\ k # pos => heap'[k] = heap[k]
    BY <1>1, <2>1, <2>2, SwapTwo
  <2>4. SUFFICES ASSUME NEW i \in 2..Len(heap)
        PROVE  /\ OutOfOrder(i)' \/ heap'[i \div 2].due <= heap'[i].due
               /\ p > 1 /\ i \div 2 = p => heap'[p \div 2].due <= heap'[i].due
    BY <2>2, <2>3 DEF HeapOrder
  <2>5. /\ i \in Indices /\ i \div 2 \in Indices /\ i \div 2 < i
        /\ i \in Nat /\ i \div 2 \in Nat
    BY Parent, DueNat
  <2>6. i # pos /\ i \div 2 # pos => heap[i \div 2].due <= heap[i].due
    BY <1>1 DEF HeapOrder, OutOfOrder
  <2>7. i \div 2 = pos => heap[p].due <= heap[i].due
    BY <1>1, <1>2 DEF HeapOrder
  <2>8. pos \div 2 = p /\ heap[p].due > heap[pos].due
    BY <1>2
  <2> HIDE DEF p
  <2>9. ASSUME i # p PROVE heap'[i \div 2].due <= heap'[i].due
    <3>1. CASE i = pos
      BY <1>1, <2>1, <2>3, <2>8, <3>1
    <3>2. CASE i # pos /\ i \div 2 = pos
      BY <1>1, <2>1, <2>3, <2>5, <2>7, <2>9, <3>2
    <3>3. CASE i # pos /\ i \div 2 = p
      <4>1. heap[p].due <= heap[i].due
        BY <2>1, <2>6, <3>3
      <4> QED BY <1>1, <2>1, <2>3, <2>5, <2>8, <2>9, <3>3, <4>1
    <3>4. CASE i # pos /\ i \div 2 # pos /\ i \div 2 # p
      BY <1>1, <2>3, <2>5, <2>6, <2>9, <3>4
    <3> QED BY <3>1, <3>2, <3>3, <3>4
  <2>10. ASSUME p > 1, i \div 2 = p PROVE heap'[p \div 2].due <= heap'[i].due
    <3>1. p \in 2..Len(heap)
      BY <1>1, <2>1, <2>10 DEF Indices
    <3>2. /\ p \div 2 \in Indices /\ p \div 2 < p /\ p \div 2 \in Nat
          /\ heap[p \div 2].due <= heap[p].due
      BY <1>1, <2>1, <3>1, Parent, DueNat DEF HeapOrder, OutOfOrder
    <3>3. heap'[p \div 2] = heap[p \div 2]
      BY <2>1, <2>3, <3>2
    <3>4. CASE i = pos
      BY <2>3, <3>2, <3>3, <3>4
    <3>5. CASE i # pos
      <4>1. heap[p].due <= heap[i].due /\ heap'[i] = heap[i]
        BY <2>1, <2>3, <2>5, <2>6, <2>10, <3>5
      <4> QED BY <1>1, <2>1, <2>5, <3>2, <3>3, <4>1
    <3> QED BY <3>4, <3>5
  <2>11. ASSUME i = p PROVE OutOfOrder(i)'
    BY <1>1, <2>2, <2>11 DEF OutOfOrder
  <2> QED BY <2>9, <2>10, <2>11
<1>3. CASE ~(pos > 1 /\ heap[p].due > heap[pos].due)
  <2>1. /\ op' = IF fix = 0 THEN "none" ELSE "down"
        /\ pos' = fix /\ fix' = 0 /\ heap' = heap
    BY <1>3 DEF SiftUp
  <2>2. ASSUME NEW i \in 2..Len(heap), ~(fix = pos /\ i \div 2 = pos)
        PROVE  heap[i \div 2].due <= heap[i].due
    <3>1. i \in Indices /\ i \in Nat
      BY DueNat, Parent
    <3>2. CASE i = pos
      <4>1. pos > 1 /\ p \in Indices
        BY <1>1, <3>2, Parent
      <4> HIDE DEF p
      <4>2. heap[p].due <= heap[pos].due
        BY <1>1, <1>3, <4>1
      <4> QED BY <3>2, <4>2 DEF p
    <3>3. CASE i # pos
      BY <1>1, <2>2, <3>3 DEF HeapOrder, OutOfOrder
    <3> QED BY <3>2, <3>3
  <2>3. SUFFICES ASSUME NEW i \in 2..Len(heap)
        PROVE  /\ OutOfOrder(i)' \/ heap[i \div 2].due <= heap[i].due
               /\ fix > 1 /\ i \div 2 = fix => heap[fix \div 2].due <= heap[i].due
    BY <2>1 DEF HeapOrder
  <2>4. OutOfOrder(i)' \/ heap[i \div 2].due <= heap[i].due
    <3>1. CASE fix = pos /\ i \div 2 = pos
      BY <1>1, <2>1, <3>1 DEF OutOfOrder
    <3> QED BY <2>2, <3>1
  <2>5. ASSUME fix > 1, i \div 2 = fix PROVE heap[fix \div 2].due <= heap[i].due
    <3>1. CASE fix = pos
      BY <1>1, <2>5, <3>1 DEF HeapOrder
    <3>2. CASE fix # pos
      <4>1. fix \in 2..Len(heap)
        BY <1>1, <2>5
      <4>2. heap[fix \div 2].due <= heap[fix].due /\ heap[fix].due <= heap[i].due
        BY <2>2, <2>5, <3>2, <4>1
      <4>3. fix \div 2 \in Indices /\ fix \in Indices /\ i \in Indices
        BY <4>1, Parent
      <4> QED BY <1>1, <4>2, <4>3
    <3> QED BY <3>1, <3>2
  <2> QED BY <2>4, <2>5
<1> QED BY <1>2, <1>3

(* A turn of heap_sift_down: the smallest child takes the place.           *)
LEMMA SiftDownOrder ==
  ASSUME TypeOK, HeapOrder, SiftDown
  PROVE  HeapOrder'
<1> DEFINE s == Smallest(pos)
<1>1. /\ op = "down" /\ pos \in Indices /\ pos \in Nat /\ pos >= 1
      /\ Len(heap) \in Nat /\ \A i \in Indices : i \in Nat /\ heap[i].due \in Nat
  BY DueNat DEF TypeOK, SiftDown, Indices
<1>2. /\ s \in Indices /\ s \in {pos, 2 * pos, 2 * pos + 1}
      /\ \A c \in Indices : c \div 2 = pos => heap[s].due <= heap[c].due
      /\ s # pos => heap[s].due < heap[pos].due
  BY <1>1, SmallestChild
<1>3. ASSUME NEW i \in 2..Len(heap), i \div 2 # pos
      PROVE  heap[i \div 2].due <= heap[i].due
  BY <1>1, <1>3 DEF HeapOrder, OutOfOrder
<1>4. CASE s = pos
  <2>1. op' = "none" /\ pos' = 0 /\ UNCHANGED <<heap, fix>>
    BY <1>4 DEF SiftDown
  <2>2. \A i \in 2..Len(heap) : heap[i \div 2].due <= heap[i].due
    <3> HIDE DEF s
    <3> QED BY <1>1, <1>2, <1>3, <1>4, Parent
  <2> QED BY <2>1, <2>2 DEF HeapOrder
<1>5. CASE s # pos
  <2>1. heap' = Swap(heap, pos, s) /\ pos' = s /\ UNCHANGED <<op, fix>>
    BY <1>5 DEF SiftDown
  <2> HIDE DEF s
  <2>2. /\ Len(heap') = Len(heap)
        /\ heap'[pos] = heap[s] /\ heap'[s] = heap[pos]
        /\ \A k \in Indices : k # pos /\ k # s => heap'[k] = heap[k]
    BY <1>1, <1>2, <1>5, <2>1, SwapTwo
  <2>3. s \div 2 = pos /\ s > pos /\ s > 1 /\ s \in 2..Len(heap) /\ s \in Nat
    BY <1>1, <1>2, <1>5, Halves DEF Indices
  <2>4. SUFFICES ASSUME NEW i \in 2..Len(heap)
        PROVE  /\ OutOfOrder(i)' \/ heap'[i \div 2].due <= heap'[i].due
               /\ i \div 2 = s => heap'[pos].due <= heap'[i].due
    BY <2>1, <2>2, <2>3 DEF HeapOrder
  <2>5. /\ i \in Indices /\ i \div 2 \in Indices /\ i \div 2 < i
        /\ i \in Nat /\ i \div 2 \in Nat
    BY Parent, DueNat
  <2>6. ASSUME i \div 2 # s PROVE heap'[i \div 2].due <= heap'[i].due
    <3>1. CASE i = s
      BY <1>1, <1>2, <1>5, <2>2, <2>3, <3>1
    <3>2. CASE i # s /\ i \div 2 = pos
      BY <1>2, <2>2, <2>5, <3>2
    <3>3. CASE i = pos
      <4>1. heap[pos \div 2].due <= heap[s].due
        BY <1>1, <2>3, <3>3 DEF HeapOrder
      <4> QED BY <2>2, <2>5, <2>6, <3>3, <4>1
    <3>4. CASE i # s /\ i # pos /\ i \div 2 # pos
      BY <1>3, <2>2, <2>5, <2>6, <3>4
    <3> QED BY <3>1, <3>2, <3>3, <3>4
  <2>7. ASSUME i \div 2 = s PROVE heap'[pos].due <= heap'[i].due
    <3>1. heap[s].due <= heap[i].due
      BY <1>3, <2>3, <2>7, <1>1
    <3>2. i # s /\ i # pos
      BY <2>3, <2>5, <2>7, <1>1
    <3> QED BY <2>2, <2>5, <3>1, <3>2
  <2>8. ASSUME i \div 2 = s PROVE OutOfOrder(i)'
    BY <1>1, <2>1, <2>8 DEF OutOfOrder
  <2> QED BY <2>6, <2>7, <2>8
<1> QED BY <1>4, <1>5

(* Every step keeps the order of the array.                                *)
LEMMA OrderStep == TypeOK /\ HeapOrder /\ [Next]_vars => HeapOrder'
<1> SUFFICES ASSUME TypeOK, HeapOrder, [Next]_vars PROVE HeapOrder'
  OBVIOUS
<1>0. tick \in Nat /\ \A sig \in Signals : sig \in Q8_8
  BY SigAssumption, TimeAssumption DEF TypeOK, Q8_8
<1>a. ASSUME Kept PROVE HeapOrder'
  BY <1>a DEF Kept, NoSift, HeapOrder, OutOfOrder
<1>1. ASSUME NEW key \in Activations \cup Keys, NEW sig \in Signals, Activate(key, sig)
      PROVE  HeapOrder'
  <2>1. op = "none" /\ Push(key, tick, sig)
    BY <1>1 DEF Activate
  <2> QED BY <1>0, <1>a, <2>1, PushKinds, ReplacedOrder, AppendedOrder
<1>2. ASSUME NEW key \in Keys, NEW delay \in Delays, NEW sig \in Signals,
             Emit(key, delay, sig)
      PROVE  HeapOrder'
  <2>1. op = "none" /\ MergeOrPush(key, tick + delay, sig) /\ tick + delay \in Nat
    BY <1>0, <1>2, TimeAssumption DEF Emit
  <2> QED BY <1>0, <1>a, <2>1, MergeOrPushKinds, ReplacedOrder, AppendedOrder
<1>3. CASE BeginTick
  BY <1>3, <1>a DEF BeginTick, Kept
<1>4. CASE Pop
  BY <1>4, RemovedOrder DEF Pop, RootDue
<1>5. CASE EndTick
  BY <1>5, <1>a DEF EndTick, Kept
<1>6. CASE SiftUp
  BY <1>6, SiftUpOrder
<1>7. CASE SiftDown
  BY <1>7, SiftDownOrder
<1>8. CASE UNCHANGED vars
  BY <1>8, <1>a DEF vars, Kept, NoSift
<1> QED BY <1>1, <1>2, <1>3, <1>4, <1>5, <1>6, <1>7, <1>8 DEF Next

-----------------------------------------------------------------------------
(* At rest no event is due before the root: otherwise, of the places whose *)
(* event is, the first would be due before its parent.                     *)
LEMMA RootEarliest ==
  ASSUME TypeOK, HeapOrder, op = "none", NEW i \in Indices
  PROVE  heap[1].due <= heap[i].due
<1> DEFINE T == {k \in Indices : heap[k].due < heap[1].due}
<1>1. Len(heap) \in Nat /\ 1 \in Indices /\ i \in Indices
  BY DueNat DEF Indices
<1>2. \A k \in Indices : k \in Nat /\ heap[k].due \in Nat
  BY DueNat
<1>3. T = {}
  <2>1. SUFFICES ASSUME T # {} PROVE FALSE
    OBVIOUS
  <2>2. T \subseteq Nat
    BY <1>2
  <2> HIDE DEF T
  <2>3. PICK k \in T : \A l \in T : k <= l
    BY <2>1, <2>2, LeastNat
  <2> USE DEF T
  <2>4. k \in 2..Len(heap)
    BY <1>1, <1>2, <2>3 DEF Indices
  <2>5. /\ k \div 2 \in Indices /\ k \div 2 < k
        /\ heap[k \div 2].due <= heap[k].due
    BY <2>4, Parent, Ordered
  <2>6. k \div 2 \in T
    BY <1>1, <1>2, <2>3, <2>5
  <2> QED BY <1>2, <2>3, <2>5, <2>6
<1> QED BY <1>1, <1>2, <1>3

(* Nothing is overdue: the same of the events, wherever they stand.        *)
LEMMA OverduePending == NothingOverdue <=> \A ev \in Pending : ev.due >= tick
  BY DEF NothingOverdue, Pending, Indices

LEMMA ReplacedPending ==
  ASSUME TypeOK, NEW w, NEW ev, Replaced(w, ev)
  PROVE  Pending' = (Pending \ {heap[w]}) \cup {ev}
<1>1. /\ w \in Indices /\ Len(heap') = Len(heap)
      /\ \A j \in Indices : heap'[j] = IF j = w THEN ev ELSE heap[j]
  BY ReplaceOne DEF Replaced
<1>2. \A j \in Indices : heap[j] = heap[w] => j = w
  BY <1>1 DEF TypeOK
<1>3. Pending' = {heap'[j] : j \in Indices}
  BY <1>1 DEF Pending, Indices
<1>4. Pending = {heap[j] : j \in Indices}
  BY DEF Pending, Indices
<1>5. Pending' \subseteq (Pending \ {heap[w]}) \cup {ev}
  BY <1>1, <1>2, <1>3, <1>4
<1>6. ev \in Pending'
  BY <1>1, <1>3
<1>7. Pending \ {heap[w]} \subseteq Pending'
  <2>1. \A j \in Indices : j # w => heap[j] \in Pending'
    BY <1>1, <1>3
  <2> QED BY <2>1, <1>4
<1> QED BY <1>5, <1>6, <1>7

(* The sift loops move events within the array.                            *)
LEMMA SiftUpPending ==
  ASSUME TypeOK, SiftUp
  PROVE  tick' = tick /\ phase' = phase /\ Pending' = Pending
<1>1. tick' = tick /\ phase' = phase
  BY DEF SiftUp
<1>2. CASE heap' = heap
  BY <1>1, <1>2 DEF Pending
<1>3. CASE heap' # heap
  <2>1. /\ pos > 1 /\ pos \in Indices /\ pos \in 2..Len(heap)
        /\ heap' = Swap(heap, pos \div 2, pos)
    BY <1>3, DueNat DEF SiftUp, TypeOK, Indices
  <2>2. pos \div 2 \in Indices /\ pos \div 2 # pos
    BY <2>1, Parent
  <2> QED BY <1>1, <2>1, <2>2, SwapTwo
<1> QED BY <1>2, <1>3

LEMMA SiftDownPending ==
  ASSUME TypeOK, SiftDown
  PROVE  tick' = tick /\ phase' = phase /\ Pending' = Pending
<1>1. tick' = tick /\ phase' = phase /\ pos \in Indices
  BY DueNat DEF SiftDown, TypeOK, Indices
<1>2. CASE heap' = heap
  BY <1>1, <1>2 DEF Pending
<1>3. CASE heap' # heap
  <2>1. heap' = Swap(heap, pos, Smallest(pos)) /\ Smallest(pos) # pos
    BY <1>3 DEF SiftDown
  <2>2. Smallest(pos) \in Indices
    BY <1>1, SmallestChild
  <2> QED BY <1>1, <2>1, <2>2, SwapTwo
<1> QED BY <1>2, <1>3

LEMMA OverdueStep ==
  TypeOK /\ HeapOrder /\ NothingOverdue /\ [Next]_vars => NothingOverdue'
<1> SUFFICES ASSUME TypeOK, HeapOrder, NothingOverdue, [Next]_vars
             PROVE  NothingOverdue'
  OBVIOUS
<1>0. /\ tick \in Nat /\ \A sig \in Signals : sig \in Q8_8
      /\ \A k \in Indices : heap[k].due \in Nat /\ heap[k].due >= tick
  BY DueNat, SigAssumption, TimeAssumption DEF TypeOK, Q8_8, NothingOverdue
<1>p. \A ev \in Pending : ev.due >= tick
  BY OverduePending
<1>a. ASSUME UNCHANGED <<heap, tick>> PROVE NothingOverdue'
  BY <1>a DEF NothingOverdue, Indices
<1>b. ASSUME NEW w, NEW ev, Replaced(w, ev), ev.due >= tick, tick' = tick
      PROVE  NothingOverdue'
  <2>1. \A e \in Pending' : e.due >= tick'
    BY <1>b, <1>p, ReplacedPending
  <2> QED BY <2>1 DEF NothingOverdue, Pending, Indices
<1>c. ASSUME NEW ev, Appended(ev), ev.due >= tick, tick' = tick
      PROVE  NothingOverdue'
  <2>1. Pending' = Pending \cup {ev}
    BY <1>c, InsertOne DEF Appended
  <2>2. \A e \in Pending' : e.due >= tick'
    BY <1>c, <1>p, <2>1
  <2> QED BY <2>2 DEF NothingOverdue, Pending, Indices
<1>1. ASSUME NEW key \in Activations \cup Keys, NEW sig \in Signals, Activate(key, sig)
      PROVE  NothingOverdue'
  <2>1. Push(key, tick, sig) /\ tick' = tick /\ tick >= tick
    BY <1>0, <1>1 DEF Activate
  <2> QED BY <1>0, <1>a, <1>b, <1>c, <2>1, PushKinds DEF Kept
<1>2. ASSUME NEW key \in Keys, NEW delay \in Delays, NEW sig \in Signals,
             Emit(key, delay, sig)
      PROVE  NothingOverdue'
  <2>1. /\ MergeOrPush(key, tick + delay, sig) /\ tick' = tick
        /\ tick + delay \in Nat /\ tick + delay >= tick
    BY <1>0, <1>2, TimeAssumption DEF Emit
  <2>2. CASE Kept
    BY <1>a, <2>1, <2>2 DEF Kept
  <2>3. ASSUME NEW w, NEW ev, Replaced(w, ev),
               ev.due = tick + delay \/ ev.due = heap[w].due
        PROVE  NothingOverdue'
    BY <1>0, <1>b, <2>1, <2>3 DEF Replaced
  <2>4. ASSUME NEW ev, Appended(ev), ev.due = tick + delay PROVE NothingOverdue'
    BY <1>c, <2>1, <2>4
  <2> QED BY <1>0, <2>1, <2>2, <2>3, <2>4, MergeOrPushKinds
<1>3. CASE BeginTick
  BY <1>3, <1>a DEF BeginTick
<1>4. CASE Pop
  <2>1. tick' = tick /\ Pending' = Pending \ {heap[1]}
    BY <1>4, RemoveRoot DEF Pop, RootDue
  <2>2. \A e \in Pending' : e.due >= tick'
    BY <1>p, <2>1
  <2> QED BY <2>2 DEF NothingOverdue, Pending, Indices
<1>5. CASE EndTick
  <2>1. op = "none" /\ ~RootDue /\ tick' = tick + 1 /\ heap' = heap
    BY <1>5 DEF EndTick
  <2>2. ASSUME NEW i \in Indices PROVE heap[i].due >= tick + 1
    <3>1. heap # <<>> /\ 1 \in Indices
      BY DueNat, EmptySeq DEF Indices
    <3>2. heap[1].due > tick
      BY <1>0, <2>1, <3>1 DEF RootDue
    <3>3. heap[1].due <= heap[i].due
      BY <2>1, RootEarliest
    <3> QED BY <1>0, <3>1, <3>2, <3>3
  <2> QED BY <2>1, <2>2 DEF NothingOverdue, Indices
<1>6. CASE SiftUp
  <2>1. tick' = tick /\ Pending' = Pending
    BY <1>6, SiftUpPending
  <2> QED BY <1>p, <2>1, OverduePending DEF NothingOverdue, Pending, Indices
<1>7. CASE SiftDown
  <2>1. tick' = tick /\ Pending' = Pending
    BY <1>7, SiftDownPending
  <2> QED BY <1>p, <2>1, OverduePending DEF NothingOverdue, Pending, Indices
<1>8. CASE UNCHANGED vars
  BY <1>8, <1>a DEF vars
<1> QED BY <1>1, <1>2, <1>3, <1>4, <1>5, <1>6, <1>7, <1>8 DEF Next

-----------------------------------------------------------------------------
(* The bag's data are the queue's.                                         *)
LEMMA BagData ==
  /\ Bag!Ids = Ids
  /\ \A q : Bag!UsedIds(q) = UsedIds(q)
  /\ \A s : Bag!Strength(s) = Strength(s)
  /\ \A q, w : Bag!Weakest(q, w) = Weakest(q, w)
  /\ \A q, first : Bag!Earliest(q, first) = Earliest(q, first)
  /\ \A due, now : Bag!Stale(due, now) = Stale(due, now)
  /\ \A ev, key, due : Bag!Mergeable(ev, key, due) = Mergeable(ev, key, due)
  /\ \A ev, due, sig : Bag!Combine(ev, due, sig) = Combine(ev, due, sig)
<1>1. \A a, b : Bag!SatAdd(a, b) = SatAdd(a, b)
  BY DEF SatAdd, Bag!SatAdd
<1>2. \A s : Bag!Strength(s) = Strength(s)
  BY DEF Strength, Bag!Strength
<1>3. \A q, w : Bag!Weakest(q, w) = Weakest(q, w)
  BY <1>2 DEF Weakest, Bag!Weakest
<1>4. \A ev, due, sig : Bag!Combine(ev, due, sig) = Combine(ev, due, sig)
  BY <1>1 DEF Combine, Bag!Combine
<1>5. \A ev, key, due : Bag!Mergeable(ev, key, due) = Mergeable(ev, key, due)
  BY DEF Mergeable, Bag!Mergeable
<1>6. /\ Bag!Ids = Ids
      /\ \A q : Bag!UsedIds(q) = UsedIds(q)
      /\ \A q, first : Bag!Earliest(q, first) = Earliest(q, first)
      /\ \A due, now : Bag!Stale(due, now) = Stale(due, now)
  BY DEF Ids, Bag!Ids, UsedIds, Bag!UsedIds, Earliest, Bag!Earliest, Stale, Bag!Stale
<1> QED BY <1>2, <1>3, <1>4, <1>5, <1>6

(* nerva_event_push does to the pending events what the bag's push may do. *)
LEMMA PushImplements ==
  ASSUME TypeOK, NEW key \in Keys \cup Activations, NEW due \in Nat,
         NEW sig \in Q8_8, Push(key, due, sig)
  PROVE  Bag!Push(key, due, sig)
<1>1. CASE Stale(due, tick)
  <2>1. Pending' = Pending
    BY <1>1 DEF Push, Pending
  <2> QED BY <1>1, <2>1, BagData DEF Bag!Push, Bag!Refuse
<1>2. CASE ~Stale(due, tick) /\ Len(heap) >= Cap
  <2>1. PICK w \in Indices :
          /\ FirstWeakest(w)
          /\ IF Strength(sig) <= Strength(heap[w].sig)
             THEN UNCHANGED heap /\ NoSift
             ELSE /\ heap' = [heap EXCEPT ![w] =
                                [id |-> @.id, key |-> key, due |-> due, sig |-> sig]]
                  /\ FixPosition(w)
    BY <1>2 DEF Push, OverflowAdmit
  <2>2. Weakest(Pending, heap[w]) /\ heap[w] \in Pending /\ UsedIds(Pending) = Ids
    BY <1>2, <2>1, FullUsesAllIds DEF FirstWeakest, Pending, Indices
  <2>3. CASE Strength(sig) <= Strength(heap[w].sig)
    <3>1. Pending' = Pending
      BY <2>1, <2>3 DEF Pending
    <3> QED BY <2>2, <2>3, <3>1, BagData DEF Bag!Push, Bag!Refuse
  <2>4. CASE ~(Strength(sig) <= Strength(heap[w].sig))
    <3> DEFINE ev == [id |-> heap[w].id, key |-> key, due |-> due, sig |-> sig]
    <3>1. ev \in Event /\ ev.id = heap[w].id /\ heap[w].sig \in Q8_8
      BY HeapElements DEF Event, Indices
    <3>2. Replaced(w, ev)
      BY <2>1, <2>4, <3>1 DEF Replaced
    <3>3. Pending' = (Pending \ {heap[w]}) \cup {ev}
      BY <3>2, ReplacedPending
    <3>4. Strength(sig) > Strength(heap[w].sig)
      BY <2>4, <3>1, SigAssumption DEF Strength, Q8_8
    <3> QED BY <1>2, <2>2, <3>3, <3>4, BagData DEF Bag!Push, Bag!Evict
  <2> QED BY <2>3, <2>4
<1>3. CASE ~Stale(due, tick) /\ ~(Len(heap) >= Cap)
  <2> DEFINE ev == [id |-> FreeId, key |-> key, due |-> due, sig |-> sig]
  <2>1. Len(heap) < Cap /\ heap' = Append(heap, ev)
    BY <1>3, HeapElements, CapAssumption DEF Push, HeapInsert
  <2>2. /\ FreeId \in Ids \ UsedIds(Pending)
        /\ ev \in Event /\ ev.id \notin UsedIds(Pending)
    BY <2>1, FreeIdExists DEF Event
  <2>3. Pending' = Pending \cup {ev}
    BY <2>1, <2>2, InsertOne
  <2> QED BY <1>3, <2>2, <2>3, BagData DEF Bag!Push, Bag!Insert
<1> QED BY <1>1, <1>2, <1>3

LEMMA MergeImplements ==
  ASSUME TypeOK, NEW key \in Keys, NEW due \in Nat, NEW sig \in Q8_8,
         MergeOrPush(key, due, sig)
  PROVE  \/ Bag!Merge(key, due, sig)
         \/ /\ \A ev \in Pending : ~Mergeable(ev, key, due)
            /\ Bag!Push(key, due, sig)
<1>1. ASSUME NEW i \in Indices, MergeCandidate(i, key, due), FixPosition(i),
             heap' = [heap EXCEPT ![i] = Combine(@, due, sig)]
      PROVE  Bag!Merge(key, due, sig)
  <2>1. heap[i] \in Event /\ heap[i] \in Pending
    BY HeapElements DEF Indices, Pending
  <2>2. Replaced(i, Combine(heap[i], due, sig))
    BY <1>1, <2>1, CombineType DEF Replaced
  <2>3. Pending' = (Pending \ {heap[i]}) \cup {Combine(heap[i], due, sig)}
    BY <2>2, ReplacedPending
  <2> QED BY <1>1, <2>1, <2>3, BagData DEF Bag!Merge, MergeCandidate
<1>2. ASSUME \A i \in Indices : ~Mergeable(heap[i], key, due), Push(key, due, sig)
      PROVE  /\ \A ev \in Pending : ~Mergeable(ev, key, due)
             /\ Bag!Push(key, due, sig)
  BY <1>2, PushImplements DEF Pending, Indices
<1> QED BY <1>1, <1>2 DEF MergeOrPush

(* A step of the array is a step of the bag, or leaves the bag alone.      *)
LEMMA BagStep ==
  TypeOK /\ HeapOrder /\ [Next]_vars => [Bag!Next]_(Bag!vars)
<1> SUFFICES ASSUME TypeOK, HeapOrder, [Next]_vars
             PROVE  Bag!Next \/ UNCHANGED Bag!vars
  OBVIOUS
<1>0. /\ tick \in Nat /\ \A sig \in Signals : sig \in Q8_8
      /\ \A k \in Indices : heap[k].due \in Nat
  BY DueNat, SigAssumption, TimeAssumption DEF TypeOK, Q8_8
<1>1. ASSUME NEW key \in Activations \cup Keys, NEW sig \in Signals, Activate(key, sig)
      PROVE  Bag!Next
  <2>1. /\ Push(key, tick, sig)
        /\ phase = "between" /\ UNCHANGED <<tick, phase>>
    BY <1>1 DEF Activate
  <2>2. Bag!Push(key, tick, sig)
    BY <1>0, <2>1, PushImplements
  <2> QED BY <2>1, <2>2 DEF Bag!Next, Bag!Activate
<1>2. ASSUME NEW key \in Keys, NEW delay \in Delays, NEW sig \in Signals,
             Emit(key, delay, sig)
      PROVE  Bag!Next
  <2>1. /\ MergeOrPush(key, tick + delay, sig) /\ tick + delay \in Nat
        /\ phase = "fire" /\ UNCHANGED <<tick, phase>>
    BY <1>0, <1>2, TimeAssumption DEF Emit
  <2>2. \/ Bag!Merge(key, tick + delay, sig)
        \/ /\ \A ev \in Pending : ~Mergeable(ev, key, tick + delay)
           /\ Bag!Push(key, tick + delay, sig)
    BY <1>0, <2>1, MergeImplements
  <2>3. Bag!Emit(key, delay, sig)
    BY <2>1, <2>2, BagData DEF Bag!Emit
  <2> QED BY <2>3 DEF Bag!Next
<1>3. CASE BeginTick
  BY <1>3 DEF BeginTick, Bag!Next, Bag!BeginTick, Pending
<1>4. CASE Pop
  <2>1. /\ op = "none" /\ phase \in {"drain", "fire"} /\ tick' = tick
        /\ heap # <<>> /\ heap[1].due <= tick /\ RemoveMin
        /\ phase' = IF Stale(heap[1].due, tick) THEN phase ELSE "fire"
    BY <1>4 DEF Pop, RootDue
  <2>2. Pending' = Pending \ {heap[1]} /\ 1 \in Indices
    BY <2>1, RemoveRoot, DueNat DEF Indices
  <2>3. heap[1] \in Pending /\ Earliest(Pending, heap[1])
    BY <2>1, <2>2, RootEarliest DEF Earliest, Pending, Indices
  <2>4. Bag!Deliver(heap[1])
    BY <2>1, <2>2, <2>3, BagData DEF Bag!Deliver
  <2> QED BY <2>3, <2>4 DEF Bag!Next
<1>5. CASE EndTick
  <2>1. /\ op = "none" /\ phase \in {"drain", "fire"} /\ ~RootDue
        /\ tick' = tick + 1 /\ phase' = "between" /\ heap' = heap
    BY <1>5 DEF EndTick
  <2>2. ASSUME NEW i \in Indices PROVE heap[i].due > tick
    <3>1. heap # <<>> /\ 1 \in Indices
      BY DueNat, EmptySeq DEF Indices
    <3>2. heap[1].due > tick
      BY <1>0, <2>1, <3>1 DEF RootDue
    <3>3. heap[1].due <= heap[i].due
      BY <2>1, RootEarliest
    <3> QED BY <1>0, <3>1, <3>2, <3>3
  <2>3. Pending' = Pending /\ \A ev \in Pending : ev.due > tick
    BY <2>1, <2>2 DEF Pending, Indices
  <2> QED BY <2>1, <2>3 DEF Bag!Next, Bag!EndTick
<1>6. CASE SiftUp
  BY <1>6, SiftUpPending DEF Bag!vars
<1>7. CASE SiftDown
  BY <1>7, SiftDownPending DEF Bag!vars
<1>8. CASE UNCHANGED vars
  BY <1>8 DEF vars, Bag!vars, Pending
<1> QED BY <1>1, <1>2, <1>3, <1>4, <1>5, <1>6, <1>7, <1>8 DEF Next

-----------------------------------------------------------------------------
(* The inductive invariant: type, order, and nothing overdue.              *)
QueueInv == TypeOK /\ HeapOrder /\ NothingOverdue

LEMMA InitQueue == Init => QueueInv /\ Bag!Init
<1> SUFFICES ASSUME Init PROVE QueueInv /\ Bag!Init
  OBVIOUS
<1>1. heap = <<>> /\ Len(heap) = 0 /\ heap \in Seq(Event)
  BY EmptySeq DEF Init
<1>2. 0 \in Nat /\ 0 <= Cap /\ 0 \in 0..MaxTick
  BY CapAssumption, TimeAssumption
<1>3. TypeOK
  BY <1>1, <1>2 DEF Init, TypeOK, Indices, Phase
<1>4. HeapOrder /\ NothingOverdue
  BY <1>1 DEF HeapOrder, NothingOverdue, Indices
<1>5. Pending = {}
  BY <1>1 DEF Pending
<1> QED BY <1>3, <1>4, <1>5 DEF Init, QueueInv, Bag!Init

LEMMA QueueInvariant == Spec => []QueueInv
<1>1. QueueInv /\ [Next]_vars => QueueInv'
  BY TypeOKStep, OrderStep, OverdueStep DEF QueueInv
<1> QED BY <1>1, InitQueue, PTL DEF Spec

(* The array never outgrows event_cap, the ids of its events are distinct, *)
(* signals stay within Q8.8 and a sift loop stands inside the array.       *)
THEOREM WellTyped == Spec => []TypeOK
<1>1. QueueInv => TypeOK
  BY DEF QueueInv
<1> QED BY <1>1, QueueInvariant, PTL

(* Inserting, removing, merging and evicting keep the array a heap, except *)
(* where a sift loop is at work.                                           *)
THEOREM HeapOrdered == Spec => []HeapOrder
<1>1. QueueInv => HeapOrder
  BY DEF QueueInv
<1> QED BY <1>1, QueueInvariant, PTL

(* nerva_tick never leaves a due event behind: no pending event is ever    *)
(* due before the current tick.                                            *)
THEOREM NeverOverdue == Spec => []NothingOverdue
<1>1. QueueInv => NothingOverdue
  BY DEF QueueInv
<1> QED BY <1>1, QueueInvariant, PTL

(* The array with its sift loops implements the bag of events.             *)
THEOREM QueueImplementsBag == Spec => ImplementsBag
<1>1. QueueInv /\ [Next]_vars => [Bag!Next]_(Bag!vars)
  BY BagStep DEF QueueInv
<1>2. Init => Bag!Init
  BY InitQueue
<1> QED BY <1>1, <1>2, QueueInvariant, PTL DEF Spec, ImplementsBag, Bag!Spec
=============================================================================
