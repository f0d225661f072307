---------------------------- MODULE Learning_proofs ----------------------------
(***************************************************************************)
(* Proofs about Learning and the ring of mutations it extends, for every   *)
(* set of nodes and edges, every capacity and every setting.               *)
(***************************************************************************)
EXTENDS Learning, FiniteSetTheorems, SequenceTheorems, TLAPS

(* The three counters of the ring agree.                                   *)
RingShape == tail = (head + count) % RingCap

(* What waits in the ring is a mutation, and of an edge that exists.       *)
Waiting ==
  \A i \in 1..count :
    /\ Pending[i] \in Mutation \ {Nothing}
    /\ Pending[i].type \in {"weight", "gate"} => Pending[i].edge \in EdgeIds

(* No batch runs, no change has been missed by the lists.                  *)
Clean == mode # "apply" => ~dirty

(* The lists that the batch still has to rebuild are the only wrong ones.  *)
Lists == valid /\ ~dirty =>
           \A n \in Nodes : out[n] = OutOf(n) /\ blockersIn[n] = BlockersOf(n)

(* A closing gate is queued in a pass of wrong feedback, behind the mark   *)
(* of the same turn, unless the ring had no room for the mark.             *)
GateTurn ==
  mode = "gate" =>
    /\ fb.age > 0 /\ fb.wrong
    /\ edges[traces[fb.age].edge].wrong + 1 >= Threshold
    /\ \/ count = RingCap
       \/ count > 0 /\ Pending[count] = WeightDelta(traces[fb.age].edge, TRUE)

(* Between two batches the gates that wait for an edge are all one step    *)
(* from the gate it has; within a batch they are all the same.             *)
GatesAgree ==
  /\ \A i \in 1..count :
       Pending[i].type = "gate" =>
         /\ Pending[i].gate <= edges[Pending[i].edge].gate
         /\ mode # "apply" => Pending[i].gate = ClosedGate(edges[Pending[i].edge].gate)
  /\ \A i, j \in 1..count :
       Pending[i].type = "gate" /\ Pending[j].type = "gate" /\ Pending[i].edge = Pending[j].edge
         => Pending[i].gate = Pending[j].gate

(* A gate that so many marks justify.                                      *)
Justified(gate, n) ==
  gate < GateOne => GateOne - gate <= GateStep * (n + 1 - Threshold)

(* The count of an edge is no more than the marks it got.                  *)
Marked == \A id \in EdgeIds : edges[id].wrong <= marks[id] \/ marks[id] = MarksMax

(* A gate that waits is justified once the mark in front of it is applied. *)
GatesWait ==
  \A i \in 1..count :
    Pending[i].type = "gate" =>
      /\ i = 1 => Justified(Pending[i].gate, marks[Pending[i].edge])
      /\ i > 1 => /\ Pending[i - 1] = WeightDelta(Pending[i].edge, TRUE)
                  /\ Justified(Pending[i].gate, Least(marks[Pending[i].edge] + 1, MarksMax))

(* The edges that got a delta in this pass.                                *)
Given == {fb.given[i] : i \in DOMAIN fb.given}

(* The array of seen edges is all that was given, or too small for it.     *)
SeenGiven == /\ fb.seen \subseteq Given
             /\ \/ fb.seen = Given /\ Len(fb.given) = Cardinality(fb.seen)
                \/ Cardinality(Given) > SeenCap
-----------------------------------------------------------------------------
(* The remainder of a slot number that is at most one round too large.     *)
LEMMA Wrap ==
  ASSUME NEW a \in 0..(2 * RingCap - 1)
  PROVE  a % RingCap = IF a < RingCap THEN a ELSE a - RingCap
  BY RingAssumption

(* Two ways to the slot behind the last mutation.                          *)
LEMMA WrapNext ==
  ASSUME NEW h \in 0..(RingCap - 1), NEW c \in 0..(RingCap - 1)
  PROVE  /\ (((h + c) % RingCap) + 1) % RingCap = (h + (c + 1)) % RingCap
         /\ (((h + 1) % RingCap) + c) % RingCap = (h + (c + 1)) % RingCap
<1>1. (h + c) % RingCap = IF h + c < RingCap THEN h + c ELSE h + c - RingCap
  BY RingAssumption
<1>2. (h + (c + 1)) % RingCap = IF h + (c + 1) < RingCap THEN h + (c + 1) ELSE h + (c + 1) - RingCap
  BY RingAssumption
<1>3. (h + 1) % RingCap = IF h + 1 < RingCap THEN h + 1 ELSE h + 1 - RingCap
  BY RingAssumption
<1>4. \A a \in 0..(RingCap - 1) :
        (a + 1) % RingCap = IF a + 1 < RingCap THEN a + 1 ELSE a + 1 - RingCap
  BY RingAssumption
<1>5. \A a \in 0..(RingCap - 1) :
        (a + c) % RingCap = IF a + c < RingCap THEN a + c ELSE a + c - RingCap
  BY RingAssumption
<1>6. (h + c) % RingCap \in 0..(RingCap - 1) /\ (h + 1) % RingCap \in 0..(RingCap - 1)
  BY <1>1, <1>3, RingAssumption
<1>7. (((h + c) % RingCap) + 1) % RingCap = (h + (c + 1)) % RingCap
  <2>1. PICK a \in 0..(RingCap - 1) : a = (h + c) % RingCap
    BY <1>6
  <2>2. (a + 1) % RingCap = (h + (c + 1)) % RingCap
    BY <1>1, <1>2, <1>4, <2>1, RingAssumption
  <2> QED BY <2>1, <2>2
<1> QED BY <1>2, <1>3, <1>5, <1>6, <1>7, RingAssumption

(* What a push adds, and that it moves nothing.                            *)
LEMMA PushEffect ==
  ASSUME TypeOK, RingShape, count < RingCap, NEW m, RingPush(m)
  PROVE  /\ count' = count + 1
         /\ RingShape'
         /\ \A i \in 1..count : Pending'[i] = Pending[i]
         /\ Pending'[count + 1] = m
<1> USE RingAssumption
<1>1. /\ head \in 0..(RingCap - 1) /\ count \in 0..(RingCap - 1)
      /\ count' = count + 1 /\ head' = head
      /\ tail' = (tail + 1) % RingCap /\ tail = (head + count) % RingCap
  BY DEF TypeOK, RingShape, RingPush
<1>9. slots' = [slots EXCEPT ![tail] = m] /\ DOMAIN slots = 0..(RingCap - 1)
  BY DEF TypeOK, RingPush
<1>2. tail = IF head + count < RingCap THEN head + count ELSE head + count - RingCap
  BY <1>1, Wrap
<1>3. RingShape'
  <2>1. tail' = (head + (count + 1)) % RingCap
    BY <1>1, WrapNext
  <2> QED BY <1>1, <2>1 DEF RingShape
<1>4. ASSUME NEW i \in 1..count
      PROVE  Pending'[i] = Pending[i]
  <2>1. (head + i - 1) % RingCap
          = IF head + i - 1 < RingCap THEN head + i - 1 ELSE head + i - 1 - RingCap
    BY <1>1, Wrap
  <2>2. (head + i - 1) % RingCap # tail
    BY <1>1, <1>2, <2>1
  <2>3. slots'[(head + i - 1) % RingCap] = slots[(head + i - 1) % RingCap]
    BY <1>1, <1>9, <2>1, <2>2
  <2>4. i \in 1..count'
    BY <1>1
  <2> QED BY <1>1, <2>3, <2>4 DEF Pending
<1>5. Pending'[count + 1] = m
  <2>1. head + (count + 1) - 1 = head + count /\ count + 1 \in 1..count'
    BY <1>1
  <2>2. tail \in DOMAIN slots
    BY <1>1, <1>9, <1>2
  <2>3. slots'[tail] = m
    BY <1>9, <2>2
  <2> QED BY <1>1, <2>1, <2>3 DEF Pending
<1> QED BY <1>1, <1>3, <1>4, <1>5

(* What a batch takes, and that the others move up.                        *)
LEMMA TakeEffect ==
  ASSUME TypeOK, RingShape, count > 0, RingTake
  PROVE  /\ count' = count - 1
         /\ RingShape'
         /\ Pending[1] = slots[head]
         /\ \A i \in 1..(count - 1) : Pending'[i] = Pending[i + 1]
<1> USE RingAssumption
<1>1. /\ head \in 0..(RingCap - 1) /\ count \in 1..RingCap
      /\ count' = count - 1 /\ tail' = tail /\ head' = (head + 1) % RingCap
      /\ tail = (head + count) % RingCap
  BY DEF TypeOK, RingShape, RingTake
<1>9. slots' = [slots EXCEPT ![head] = Nothing] /\ DOMAIN slots = 0..(RingCap - 1)
  BY DEF TypeOK, RingTake
<1>2. head' = IF head + 1 < RingCap THEN head + 1 ELSE 0
  BY <1>1, Wrap
<1>3. RingShape'
  <2>1. head + ((count - 1) + 1) = head + count /\ count - 1 \in 0..(RingCap - 1)
    BY <1>1
  <2>2. (((head + 1) % RingCap) + (count - 1)) % RingCap = (head + ((count - 1) + 1)) % RingCap
    BY <1>1, <2>1, WrapNext
  <2> QED BY <1>1, <2>1, <2>2 DEF RingShape
<1>4. Pending[1] = slots[head]
  <2>1. head + 1 - 1 = head /\ head % RingCap = head /\ 1 \in 1..count
    BY <1>1
  <2> QED BY <2>1 DEF Pending
<1>5. ASSUME NEW i \in 1..(count - 1)
      PROVE  Pending'[i] = Pending[i + 1]
  <2>1. (head' + i - 1) % RingCap
          = IF head' + i - 1 < RingCap THEN head' + i - 1 ELSE head' + i - 1 - RingCap
    BY <1>1, <1>2, Wrap
  <2>2. (head + (i + 1) - 1) % RingCap
          = IF head + i < RingCap THEN head + i ELSE head + i - RingCap
    <3>1. head + (i + 1) - 1 = head + i
      BY <1>1
    <3>2. (head + i) % RingCap = IF head + i < RingCap THEN head + i ELSE head + i - RingCap
      BY <1>1, Wrap
    <3> QED BY <3>1, <3>2
  <2>3. (head' + i - 1) % RingCap = (head + (i + 1) - 1) % RingCap
    BY <1>1, <1>2, <2>1, <2>2
  <2>4. (head + (i + 1) - 1) % RingCap # head
    BY <1>1, <2>2
  <2>5. slots'[(head' + i - 1) % RingCap] = slots[(head + (i + 1) - 1) % RingCap]
    BY <1>1, <1>9, <1>2, <2>1, <2>3, <2>4
  <2>6. i \in 1..count' /\ i + 1 \in 1..count
    BY <1>1
  <2> QED BY <2>5, <2>6 DEF Pending
<1> QED BY <1>1, <1>3, <1>4, <1>5

(* The mutations that are queued.                                          *)
LEMMA Queued ==
  ASSUME NEW id \in 1..EdgeCap, NEW wrong \in BOOLEAN, NEW key \in EdgeKeys,
         NEW type \in {"edge", "blocker"}, NEW gate \in 0..GateOne
  PROVE  /\ WeightDelta(id, wrong) \in Mutation \ {Nothing}
         /\ WeightDelta(id, wrong).type = "weight" /\ WeightDelta(id, wrong).edge = id
         /\ [type |-> "gate", edge |-> id, gate |-> gate] \in Mutation \ {Nothing}
         /\ [type |-> type, key |-> key] \in Mutation \ {Nothing}
<1>1. /\ WeightDelta(id, wrong) \in Mutation
      /\ WeightDelta(id, wrong).type = "weight" /\ WeightDelta(id, wrong).edge = id
  BY DEF WeightDelta, Mutation
<1>2. [type |-> "gate", edge |-> id, gate |-> gate] \in Mutation
  BY DEF Mutation
<1>3. [type |-> type, key |-> key] \in Mutation
  BY DEF Mutation
<1>4. Nothing.type = "none"
  BY DEF Nothing
<1> QED BY <1>1, <1>2, <1>3, <1>4

(* What each type of mutation holds.                                       *)
LEMMA MutationFields ==
  ASSUME NEW m \in Mutation \ {Nothing}
  PROVE  /\ m.type \in {"weight", "gate", "edge", "blocker"}
         /\ m.type = "weight" => m.edge \in 1..EdgeCap /\ m.delta \in Int /\ m.wrong \in BOOLEAN
         /\ m.type = "gate" => m.edge \in 1..EdgeCap /\ m.gate \in 0..GateOne
         /\ m.type \in {"edge", "blocker"} => m.key \in EdgeKeys
<1>1. Ltp \in Int /\ Ltd \in Int
  BY WeightAssumption
<1> QED BY <1>1 DEF Mutation

(* The gate that a closing gate is queued as.                              *)
LEMMA GateCloses ==
  ASSUME NEW gate \in 0..GateOne
  PROVE  /\ ClosedGate(gate) \in 0..GateOne
         /\ ClosedGate(gate) <= gate
  BY GateAssumption DEF ClosedGate

(* The next mutation of a batch.                                           *)
LEMMA HeadMutation ==
  ASSUME TypeOK, RingShape, Waiting, count > 0
  PROVE  /\ slots[head] \in Mutation \ {Nothing}
         /\ slots[head].type \in {"weight", "gate"} => slots[head].edge \in EdgeIds
         /\ slots[head] = Pending[1]
<1>1. head \in 0..(RingCap - 1) /\ count \in 1..RingCap
  BY DEF TypeOK
<1>2. head + 1 - 1 = head /\ head % RingCap = head /\ 1 \in 1..count
  BY <1>1, RingAssumption
<1>3. slots[head] = Pending[1]
  BY <1>2 DEF Pending
<1> QED BY <1>2, <1>3 DEF Waiting

(* The clamp keeps a weight within its bounds.                             *)
LEMMA ClampedWeight ==
  ASSUME NEW w \in Int
  PROVE  Clamped(w) \in WMin..WMax
  BY WeightAssumption DEF Clamped

(* The weight and the count of an edge are changed in place.               *)
LEMMA WeightChanged ==
  ASSUME NEW es \in Seq(Edge), NEW id \in 1..Len(es), NEW w \in WMin..WMax, NEW n \in 0..WrongMax
  PROVE  /\ [es EXCEPT ![id].weight = w, ![id].wrong = n] \in Seq(Edge)
         /\ Len([es EXCEPT ![id].weight = w, ![id].wrong = n]) = Len(es)
         /\ \A i \in 1..Len(es) :
              LET e == [es EXCEPT ![id].weight = w, ![id].wrong = n][i]
              IN  /\ e.key = es[i].key /\ e.blocker = es[i].blocker /\ e.gate = es[i].gate
                  /\ e.wrong = IF i = id THEN n ELSE es[i].wrong
<1>1. \A e \in Edge :
        /\ [[e EXCEPT !.weight = w] EXCEPT !.wrong = n] \in Edge
        /\ [[e EXCEPT !.weight = w] EXCEPT !.wrong = n].key = e.key
        /\ [[e EXCEPT !.weight = w] EXCEPT !.wrong = n].blocker = e.blocker
        /\ [[e EXCEPT !.weight = w] EXCEPT !.wrong = n].gate = e.gate
        /\ [[e EXCEPT !.weight = w] EXCEPT !.wrong = n].wrong = n
  BY DEF Edge
<1>2. es[id] \in Edge
  OBVIOUS
<1>3. PICK a \in Edge : a = [[es[id] EXCEPT !.weight = w] EXCEPT !.wrong = n]
  BY <1>1, <1>2
<1>4. /\ a.key = es[id].key /\ a.blocker = es[id].blocker /\ a.gate = es[id].gate
      /\ a.wrong = n
  BY <1>1, <1>2, <1>3
<1>5. [es EXCEPT ![id].weight = w, ![id].wrong = n] = [es EXCEPT ![id] = a]
  BY <1>3
<1>6. /\ [es EXCEPT ![id] = a] \in Seq(Edge) /\ Len([es EXCEPT ![id] = a]) = Len(es)
      /\ \A i \in 1..Len(es) : [es EXCEPT ![id] = a][i] = IF i = id THEN a ELSE es[i]
  BY <1>3
<1>7. /\ [es EXCEPT ![id].weight = w, ![id].wrong = n] \in Seq(Edge)
      /\ Len([es EXCEPT ![id].weight = w, ![id].wrong = n]) = Len(es)
  BY <1>5, <1>6, Zenon
<1>8. \A i \in 1..Len(es) :
        [es EXCEPT ![id].weight = w, ![id].wrong = n][i] = IF i = id THEN a ELSE es[i]
  BY <1>5, <1>6, Zenon
<1> QED BY <1>4, <1>7, <1>8

(* The gate of an edge is changed in place.                                *)
LEMMA GateChanged ==
  ASSUME NEW es \in Seq(Edge), NEW id \in 1..Len(es), NEW g \in 0..GateOne
  PROVE  /\ [es EXCEPT ![id].gate = g] \in Seq(Edge)
         /\ Len([es EXCEPT ![id].gate = g]) = Len(es)
         /\ \A i \in 1..Len(es) :
              LET e == [es EXCEPT ![id].gate = g][i]
              IN  /\ e.key = es[i].key /\ e.blocker = es[i].blocker /\ e.wrong = es[i].wrong
                  /\ e.gate = IF i = id THEN g ELSE es[i].gate
<1>1. \A e \in Edge :
        /\ [e EXCEPT !.gate = g] \in Edge
        /\ [e EXCEPT !.gate = g].key = e.key
        /\ [e EXCEPT !.gate = g].blocker = e.blocker
        /\ [e EXCEPT !.gate = g].wrong = e.wrong
        /\ [e EXCEPT !.gate = g].gate = g
  BY DEF Edge
<1>2. es[id] \in Edge
  OBVIOUS
<1>3. PICK a \in Edge : a = [es[id] EXCEPT !.gate = g]
  BY <1>1, <1>2
<1>4. /\ a.key = es[id].key /\ a.blocker = es[id].blocker /\ a.wrong = es[id].wrong
      /\ a.gate = g
  BY <1>1, <1>2, <1>3
<1>5. [es EXCEPT ![id].gate = g] = [es EXCEPT ![id] = a]
  BY <1>3
<1>6. /\ [es EXCEPT ![id] = a] \in Seq(Edge) /\ Len([es EXCEPT ![id] = a]) = Len(es)
      /\ \A i \in 1..Len(es) : [es EXCEPT ![id] = a][i] = IF i = id THEN a ELSE es[i]
  BY <1>3
<1>7. /\ [es EXCEPT ![id].gate = g] \in Seq(Edge)
      /\ Len([es EXCEPT ![id].gate = g]) = Len(es)
  BY <1>5, <1>6, Zenon
<1>8. \A i \in 1..Len(es) :
        [es EXCEPT ![id].gate = g][i] = IF i = id THEN a ELSE es[i]
  BY <1>5, <1>6, Zenon
<1> QED BY <1>4, <1>7, <1>8

(* An edge is made a blocker in place.                                     *)
LEMMA BlockerMade ==
  ASSUME NEW es \in Seq(Edge), NEW id \in 1..Len(es), NEW w \in WMin..WMax
  PROVE  /\ [es EXCEPT ![id].blocker = TRUE, ![id].weight = w] \in Seq(Edge)
         /\ Len([es EXCEPT ![id].blocker = TRUE, ![id].weight = w]) = Len(es)
         /\ \A i \in 1..Len(es) :
              LET e == [es EXCEPT ![id].blocker = TRUE, ![id].weight = w][i]
              IN  /\ e.key = es[i].key /\ e.gate = es[i].gate /\ e.wrong = es[i].wrong
<1>1. \A e \in Edge :
        /\ [[e EXCEPT !.blocker = TRUE] EXCEPT !.weight = w] \in Edge
        /\ [[e EXCEPT !.blocker = TRUE] EXCEPT !.weight = w].key = e.key
        /\ [[e EXCEPT !.blocker = TRUE] EXCEPT !.weight = w].gate = e.gate
        /\ [[e EXCEPT !.blocker = TRUE] EXCEPT !.weight = w].wrong = e.wrong
  BY DEF Edge
<1>2. es[id] \in Edge
  OBVIOUS
<1>3. PICK a \in Edge : a = [[es[id] EXCEPT !.blocker = TRUE] EXCEPT !.weight = w]
  BY <1>1, <1>2
<1>4. /\ a.key = es[id].key /\ a.gate = es[id].gate /\ a.wrong = es[id].wrong
  BY <1>1, <1>2, <1>3
<1>5. [es EXCEPT ![id].blocker = TRUE, ![id].weight = w] = [es EXCEPT ![id] = a]
  BY <1>3
<1>6. /\ [es EXCEPT ![id] = a] \in Seq(Edge) /\ Len([es EXCEPT ![id] = a]) = Len(es)
      /\ \A i \in 1..Len(es) : [es EXCEPT ![id] = a][i] = IF i = id THEN a ELSE es[i]
  BY <1>3
<1>7. /\ [es EXCEPT ![id].blocker = TRUE, ![id].weight = w] \in Seq(Edge)
      /\ Len([es EXCEPT ![id].blocker = TRUE, ![id].weight = w]) = Len(es)
  BY <1>5, <1>6, Zenon
<1>8. \A i \in 1..Len(es) :
        [es EXCEPT ![id].blocker = TRUE, ![id].weight = w][i] = IF i = id THEN a ELSE es[i]
  BY <1>5, <1>6, Zenon
<1> QED BY <1>4, <1>7, <1>8

(* A new edge comes behind the others; a blocker may also be made of one   *)
(* that exists.                                                            *)
LEMMA Created ==
  ASSUME edges \in Seq(Edge), NEW key \in EdgeKeys, NEW es, es \in {WithEdge(key), WithBlocker(key)}
  PROVE  /\ es \in Seq(Edge)
         /\ Len(es) \in {Len(edges), Len(edges) + 1}
         /\ \A i \in EdgeIds :
              /\ es[i].key = edges[i].key
              /\ es[i].gate = edges[i].gate
              /\ es[i].wrong = edges[i].wrong
         /\ Len(es) > Len(edges) => es[Len(es)].gate = GateOne /\ es[Len(es)].wrong = 0
<1> DEFINE new == NewEdge(key)
           with == WithEdge(key)
<1>1. new \in Edge /\ new.key = key /\ new.gate = GateOne /\ new.wrong = 0
  BY WeightAssumption, GateAssumption, SizeAssumption DEF NewEdge, Edge
<1>2. /\ with \in Seq(Edge)
      /\ Len(with) \in {Len(edges), Len(edges) + 1}
      /\ \A i \in EdgeIds : with[i] = edges[i]
      /\ Len(with) > Len(edges) => with[Len(with)] = new
      /\ Same(with, key) # {}
  <2>1. CASE Same(edges, key) = {}
    <3>1. with = Append(edges, new)
      BY <2>1 DEF WithEdge
    <3>2. /\ Append(edges, new) \in Seq(Edge)
          /\ Len(Append(edges, new)) = Len(edges) + 1
          /\ \A i \in 1..Len(edges) : Append(edges, new)[i] = edges[i]
          /\ Append(edges, new)[Len(edges) + 1] = new
      BY <1>1
    <3>3. Len(edges) + 1 \in Same(Append(edges, new), key)
      <4>1. Len(edges) \in Nat
        OBVIOUS
      <4> QED BY <1>1, <3>2, <4>1 DEF Same
    <3> HIDE DEF new, with
    <3> QED BY <3>1, <3>2, <3>3 DEF EdgeIds
  <2>2. CASE Same(edges, key) # {}
    BY <2>2 DEF WithEdge, EdgeIds
  <2> QED BY <2>1, <2>2
<1>3. CASE es = WithEdge(key)
  BY <1>1, <1>2, <1>3
<1>4. CASE es = WithBlocker(key)
  <2> DEFINE id == CHOOSE i \in Same(with, key) : TRUE
  <2>1. id \in 1..Len(with)
    BY <1>2 DEF Same
  <2>2. es = [with EXCEPT ![id].blocker = TRUE, ![id].weight = W0]
    BY <1>4 DEF WithBlocker
  <2>3. W0 \in WMin..WMax /\ 0 \in 0..WrongMax /\ 0 \in 0..GateOne
    BY WeightAssumption, SizeAssumption, GateAssumption
  <2>4. /\ es \in Seq(Edge) /\ Len(es) = Len(with)
        /\ \A i \in 1..Len(with) : /\ es[i].key = with[i].key /\ es[i].gate = with[i].gate
                                   /\ es[i].wrong = with[i].wrong
    <3> HIDE DEF with, id
    <3>1. with \in Seq(Edge) /\ W0 \in WMin..WMax
      BY <1>2, <2>3
    <3> DEFINE made == [with EXCEPT ![id].blocker = TRUE, ![id].weight = W0]
    <3>2. made \in Seq(Edge)
      BY <2>1, <3>1, BlockerMade
    <3>3. Len(made) = Len(with)
      BY <2>1, <3>1, BlockerMade
    <3>4. \A i \in 1..Len(with) : /\ made[i].key = with[i].key /\ made[i].gate = with[i].gate
                                   /\ made[i].wrong = with[i].wrong
      BY <2>1, <3>1, BlockerMade
    <3>5. es = made
      BY <2>2
    <3> HIDE DEF made
    <3> QED BY <3>2, <3>3, <3>4, <3>5
  <2>5. Len(edges) \in Nat
    OBVIOUS
  <2> HIDE DEF with, id, new
  <2> QED BY <1>1, <1>2, <2>4, <2>5 DEF EdgeIds
<1> QED BY <1>3, <1>4

(* The lists name edges that exist.                                        *)
LEMMA RebuiltLists ==
  ASSUME TypeOK, Rebuild
  PROVE  /\ out' \in [Nodes -> SUBSET (1..EdgeCap)]
         /\ blockersIn' \in [Nodes -> SUBSET (1..EdgeCap)]
         /\ valid' = TRUE
<1>1. EdgeIds \subseteq 1..EdgeCap
  BY SizeAssumption DEF EdgeIds, TypeOK
<1>2. \A n \in Nodes : OutOf(n) \subseteq 1..EdgeCap /\ BlockersOf(n) \subseteq 1..EdgeCap
  BY <1>1 DEF OutOf, BlockersOf
<1> QED BY <1>2 DEF Rebuild

(* A record pushes the oldest one out of a ring that is full.              *)
LEMMA Recorded ==
  ASSUME TypeOK, NEW id \in EdgeIds, NEW left \in 0..(Window + 2), Record(id, left)
  PROVE  /\ traces' \in Seq([edge : EdgeIds, left : 0..(Window + 2)])
         /\ Len(traces') <= TraceCap /\ Len(traces') >= Len(traces)
<1> DEFINE Rec == [edge : EdgeIds, left : 0..(Window + 2)]
           r == [edge |-> id, left |-> left]
           long == <<r>> \o traces
           n == Least(Len(traces) + 1, TraceCap)
<1>1. r \in Rec /\ traces \in Seq(Rec) /\ TraceCap \in Nat /\ Len(traces) <= TraceCap
  BY SizeAssumption DEF TypeOK
<1> HIDE DEF Rec, r
<1>2. long \in Seq(Rec) /\ Len(long) = Len(traces) + 1 /\ Len(traces) \in Nat
  BY <1>1
<1>3. n \in 0..Len(long) /\ n >= Len(traces) /\ n <= TraceCap
  BY <1>1, <1>2 DEF Least
<1>4. traces' = SubSeq(long, 1, n)
  BY DEF Record, r
<1> HIDE DEF long, n
<1>5. SubSeq(long, 1, n) \in Seq(Rec) /\ Len(SubSeq(long, 1, n)) = n
  BY <1>2, <1>3
<1> QED BY <1>3, <1>4, <1>5 DEF Rec

(* The bounds are numbers.                                                 *)
LEMMA Numbers ==
  /\ EdgeCap \in Nat /\ TraceCap \in Nat /\ ScanLimit \in Nat /\ SeenCap \in Nat
  /\ Window \in Nat /\ MaxQueued \in Nat /\ WrongMax \in Nat
  /\ GateOne \in Nat /\ GateStep \in Nat \ {0} /\ Threshold \in Nat \ {0}
  /\ GateOne \div GateStep \in Nat /\ MarksMax \in Nat
<1>1. GateOne \in Nat /\ GateStep \in Nat \ {0} /\ Threshold \in Nat \ {0}
  BY GateAssumption
<1>2. GateOne \div GateStep \in Nat
  BY <1>1
<1>3. MarksMax \in Nat
  BY <1>1, <1>2 DEF MarksMax
<1> QED BY <1>1, <1>2, <1>3, SizeAssumption

(* The turns of a batch, by the mutation taken: a weight is changed.       *)
LEMMA ApplyWeight ==
  ASSUME TypeOK, RingShape, Waiting, ApplyTurn, slots[head].type = "weight"
  PROVE  /\ edges' \in Seq(Edge) /\ Len(edges') = Len(edges)
         /\ marks' \in [1..EdgeCap -> 0..MarksMax]
         /\ UNCHANGED <<valid, dirty>>
         /\ slots[head].edge \in EdgeIds
         /\ \A i \in EdgeIds :
              /\ edges'[i].key = edges[i].key /\ edges'[i].blocker = edges[i].blocker
              /\ edges'[i].gate = edges[i].gate
              /\ edges'[i].wrong = IF i # slots[head].edge THEN edges[i].wrong
                                   ELSE IF slots[head].wrong
                                        THEN Least(edges[i].wrong + 1, WrongMax) ELSE 0
              /\ marks'[i] = IF slots[head].wrong /\ i = slots[head].edge
                             THEN Least(marks[i] + 1, MarksMax) ELSE marks[i]
<1> DEFINE m == slots[head]
           id == m.edge
           w == Clamped(edges[id].weight + m.delta)
           n == IF m.wrong THEN Least(edges[id].wrong + 1, WrongMax) ELSE 0
           k == Least(marks[id] + 1, MarksMax)
<1>1. ModifyWeight(m)
  BY DEF ApplyTurn
<1>2. /\ m \in Mutation \ {Nothing} /\ id \in EdgeIds /\ m.delta \in Int /\ m.wrong \in BOOLEAN
  BY HeadMutation, MutationFields DEF ApplyTurn
<1>3. /\ edges \in Seq(Edge) /\ Len(edges) <= EdgeCap /\ EdgeCap \in Nat /\ WrongMax \in Nat
      /\ marks \in [1..EdgeCap -> 0..MarksMax] /\ EdgeIds = 1..Len(edges)
      /\ EdgeIds \subseteq 1..EdgeCap /\ MarksMax \in Nat
  BY Numbers DEF TypeOK, EdgeIds
<1>4. edges[id] \in Edge /\ marks[id] \in 0..MarksMax
  BY <1>2, <1>3
<1>5. edges[id].weight \in Int /\ edges[id].wrong \in 0..WrongMax
  BY <1>4, WeightAssumption DEF Edge
<1>6. w \in WMin..WMax /\ n \in 0..WrongMax /\ k \in 0..MarksMax
  <2>1. edges[id].weight + m.delta \in Int
    BY <1>2, <1>5
  <2>2. w \in WMin..WMax
    BY <2>1, ClampedWeight
  <2>3. \A a, b \in Nat : \A c \in 0..b : Least(c + 1, b) \in 0..b
    BY DEF Least
  <2>4. n \in 0..WrongMax
    <3>1. Least(edges[id].wrong + 1, WrongMax) \in 0..WrongMax
      BY <1>3, <1>5, <2>3
    <3>2. 0 \in 0..WrongMax
      BY <1>3
    <3> QED BY <3>1, <3>2
  <2>5. k \in 0..MarksMax
    BY <1>3, <1>4, <2>3
  <2> QED BY <2>2, <2>4, <2>5
<1>7. edges' = [edges EXCEPT ![id].weight = w, ![id].wrong = n]
  BY <1>1, <1>2, <1>3 DEF ModifyWeight
<1>8. marks' = IF m.wrong THEN [marks EXCEPT ![id] = k] ELSE marks
  BY <1>1, <1>2, <1>3 DEF ModifyWeight
<1>9. UNCHANGED <<valid, dirty>>
  BY <1>1 DEF ModifyWeight
<1> HIDE DEF m, w, k
<1>10. \A i \in EdgeIds : marks'[i] = IF m.wrong /\ i = id THEN k ELSE marks[i]
  BY <1>2, <1>3, <1>8
<1>11. marks' \in [1..EdgeCap -> 0..MarksMax]
  BY <1>2, <1>3, <1>6, <1>8
<1>12. edges' \in Seq(Edge) /\ Len(edges') = Len(edges)
  <2> HIDE DEF n, id
  <2>1. [edges EXCEPT ![id].weight = w, ![id].wrong = n] \in Seq(Edge)
    BY <1>2, <1>3, <1>6, WeightChanged
  <2>2. Len([edges EXCEPT ![id].weight = w, ![id].wrong = n]) = Len(edges)
    BY <1>2, <1>3, <1>6, WeightChanged
  <2> QED BY <1>7, <2>1, <2>2
<1>13. \A i \in EdgeIds :
         /\ edges'[i].key = edges[i].key /\ edges'[i].blocker = edges[i].blocker
         /\ edges'[i].gate = edges[i].gate
         /\ edges'[i].wrong = IF i = id THEN n ELSE edges[i].wrong
  <2> HIDE DEF n, id
  <2> QED BY <1>2, <1>3, <1>6, <1>7, WeightChanged
<1> QED BY <1>2, <1>9, <1>10, <1>11, <1>12, <1>13 DEF k, m

(* A gate is closed.                                                       *)
LEMMA ApplyGate ==
  ASSUME TypeOK, RingShape, Waiting, ApplyTurn, slots[head].type = "gate"
  PROVE  /\ edges' \in Seq(Edge) /\ Len(edges') = Len(edges)
         /\ UNCHANGED <<valid, dirty, marks>>
         /\ slots[head].edge \in EdgeIds
         /\ \A i \in EdgeIds :
              /\ edges'[i].key = edges[i].key /\ edges'[i].blocker = edges[i].blocker
              /\ edges'[i].wrong = edges[i].wrong
              /\ edges'[i].gate = IF i = slots[head].edge THEN slots[head].gate ELSE edges[i].gate
<1> DEFINE m == slots[head]
           id == m.edge
<1>1. ModifyGate(m)
  BY DEF ApplyTurn
<1>2. m \in Mutation \ {Nothing} /\ id \in EdgeIds /\ m.gate \in 0..GateOne
  BY HeadMutation, MutationFields DEF ApplyTurn
<1>3. edges \in Seq(Edge) /\ EdgeIds = 1..Len(edges)
  BY DEF TypeOK, EdgeIds
<1>4. edges' = [edges EXCEPT ![id].gate = m.gate] /\ UNCHANGED <<valid, dirty, marks>>
  BY <1>1 DEF ModifyGate
<1> HIDE DEF m, id
<1>5. edges' \in Seq(Edge) /\ Len(edges') = Len(edges)
  BY <1>2, <1>3, <1>4, GateChanged
<1>6. \A i \in EdgeIds :
        /\ edges'[i].key = edges[i].key /\ edges'[i].blocker = edges[i].blocker
        /\ edges'[i].wrong = edges[i].wrong
        /\ edges'[i].gate = IF i = id THEN m.gate ELSE edges[i].gate
  BY <1>2, <1>3, <1>4, GateChanged
<1> QED BY <1>2, <1>4, <1>5, <1>6 DEF m, id

(* An edge is created, or not.                                             *)
LEMMA ApplyCreate ==
  ASSUME TypeOK, RingShape, Waiting, ApplyTurn, slots[head].type \in {"edge", "blocker"}
  PROVE  /\ edges' \in Seq(Edge) /\ Len(edges') \in {Len(edges), Len(edges) + 1}
         /\ Len(edges') <= EdgeCap
         /\ UNCHANGED marks
         /\ \A i \in EdgeIds : /\ edges'[i].key = edges[i].key
                               /\ edges'[i].gate = edges[i].gate
                               /\ edges'[i].wrong = edges[i].wrong
         /\ Len(edges') > Len(edges) =>
              edges'[Len(edges')].gate = GateOne /\ edges'[Len(edges')].wrong = 0
         /\ \/ UNCHANGED <<edges, valid, dirty>>
            \/ dirty' = TRUE /\ valid' \in BOOLEAN
<1> DEFINE m == slots[head]
<1>1. m \in Mutation \ {Nothing} /\ m.key \in EdgeKeys
  BY HeadMutation, MutationFields DEF ApplyTurn
<1>2. edges \in Seq(Edge) /\ Len(edges) <= EdgeCap /\ EdgeCap \in Nat /\ Len(edges) \in Nat
  BY SizeAssumption DEF TypeOK
<1>3. \/ Refused(m) /\ UNCHANGED <<edges, valid, dirty, marks>>
      \/ ~Refused(m) /\ Create(m)
  BY DEF ApplyTurn
<1>4. CASE Refused(m) /\ UNCHANGED <<edges, valid, dirty, marks>>
  BY <1>2, <1>4
<1>5. CASE ~Refused(m) /\ Create(m)
  <2>1. Len(edges) < EdgeCap
    BY <1>2, <1>5 DEF Refused, EdgeRefused
  <2>2. edges' \in {WithEdge(m.key), WithBlocker(m.key)}
    BY <1>5 DEF Create
  <2>3. /\ edges' \in Seq(Edge) /\ Len(edges') \in {Len(edges), Len(edges) + 1}
        /\ \A i \in EdgeIds : /\ edges'[i].key = edges[i].key
                              /\ edges'[i].gate = edges[i].gate
                              /\ edges'[i].wrong = edges[i].wrong
        /\ Len(edges') > Len(edges) =>
             edges'[Len(edges')].gate = GateOne /\ edges'[Len(edges')].wrong = 0
    BY <1>1, <1>2, <2>2, Created
  <2>4. dirty' = TRUE /\ valid' \in BOOLEAN /\ UNCHANGED marks
    BY <1>5 DEF Create, TypeOK
  <2>5. Len(edges') <= EdgeCap
    BY <1>2, <2>1, <2>3
  <2> QED BY <2>3, <2>4, <2>5
<1> QED BY <1>3, <1>4, <1>5

(* A ring that has no room keeps what waits and drops the new mutation.    *)
LEMMA PushCases ==
  ASSUME TypeOK, NEW m, Push(m)
  PROVE  /\ \/ count < RingCap /\ RingPush(m)
            \/ count = RingCap /\ UNCHANGED ringVars
         /\ asked' = asked + 1 /\ asked' \in 0..MaxQueued
<1>1. count \in 0..RingCap /\ asked \in 0..MaxQueued
  BY DEF TypeOK
<1>2. asked' = asked + 1 /\ asked' \in 0..MaxQueued
  BY <1>1, Numbers DEF Push
<1>3. \/ ~RingFull /\ RingPush(m)
      \/ RingFull /\ UNCHANGED ringVars
  BY DEF Push
<1> QED BY <1>1, <1>2, <1>3, RingAssumption DEF RingFull

(* Which mutations a step puts into the ring.                              *)
QueuedBy(m) ==
  \/ m.type \in {"edge", "blocker"}
  \/ m.type = "weight" /\ m.edge \in EdgeIds
  \/ /\ CloseGate
     /\ traces[fb.age].edge \in EdgeIds
     /\ m = GateClose(traces[fb.age].edge)

(* The trace that a feedback pass is at is of an edge.                     *)
LEMMA TraceEdge ==
  ASSUME TypeOK, fb.age > 0
  PROVE  /\ fb.age \in 1..Len(traces)
         /\ traces[fb.age].edge \in EdgeIds
         /\ fb.wrong \in BOOLEAN
<1>1. traces \in Seq([edge : EdgeIds, left : 0..(Window + 2)]) /\ fb.age \in 0..Len(traces)
      /\ fb.wrong \in BOOLEAN
  BY DEF TypeOK
<1>2. fb.age \in 1..Len(traces)
  BY <1>1
<1>3. traces[fb.age] \in [edge : EdgeIds, left : 0..(Window + 2)]
  <2> DEFINE Rec == [edge : EdgeIds, left : 0..(Window + 2)]
  <2>1. traces \in Seq(Rec)
    BY <1>1
  <2> HIDE DEF Rec
  <2>2. traces[fb.age] \in Rec
    BY <1>2, <2>1
  <2> QED BY <2>2 DEF Rec
<1> QED BY <1>1, <1>2, <1>3

(* The edges and their numbers are within their bounds.                    *)
LEMMA EdgeNumbers ==
  ASSUME TypeOK
  PROVE  /\ EdgeIds \subseteq 1..EdgeCap
         /\ \A i \in EdgeIds : /\ edges[i] \in Edge /\ edges[i].gate \in 0..GateOne
                               /\ edges[i].wrong \in 0..WrongMax
<1>1. edges \in Seq(Edge) /\ Len(edges) <= EdgeCap /\ EdgeIds = 1..Len(edges)
  BY DEF TypeOK, EdgeIds
<1>2. \A i \in EdgeIds : edges[i] \in Edge
  BY <1>1
<1> QED BY <1>1, <1>2, Numbers DEF Edge

(* What a step does to the ring.                                           *)
LEMMA RingStep ==
  ASSUME TypeOK, GateTurn, [Next]_vars
  PROVE  \/ UNCHANGED ringVars /\ ~ApplyTurn
         \/ ApplyTurn
         \/ /\ count < RingCap /\ mode # "apply" /\ mode' # "apply"
            /\ UNCHANGED <<edges, marks>>
            /\ \E m \in Mutation \ {Nothing} : RingPush(m) /\ QueuedBy(m)
<1> DEFINE Pushed == /\ count < RingCap /\ mode # "apply" /\ mode' # "apply"
                     /\ UNCHANGED <<edges, marks>>
                     /\ \E m \in Mutation \ {Nothing} : RingPush(m) /\ QueuedBy(m)
<1>1. ASSUME NEW key \in EdgeKeys, NEW type \in {"edge", "blocker"}, QueueEdge(key, type)
      PROVE  UNCHANGED ringVars \/ Pushed
  <2> DEFINE m == [type |-> type, key |-> key]
  <2>1. Push(m) /\ mode # "apply" /\ mode' # "apply" /\ UNCHANGED <<edges, marks>>
    BY <1>1 DEF QueueEdge, graphVars
  <2>2. m \in Mutation \ {Nothing} /\ m.type \in {"edge", "blocker"}
    BY DEF Mutation, Nothing
  <2> HIDE DEF m
  <2>3. QueuedBy(m)
    BY <2>2 DEF QueuedBy
  <2> QED BY <2>1, <2>2, <2>3, PushCases
<1>2. ASSUME NEW id \in EdgeIds, NEW wrong \in BOOLEAN,
             Push(WeightDelta(id, wrong)), mode # "apply", mode' # "apply",
             UNCHANGED <<edges, marks>>
      PROVE  UNCHANGED ringVars \/ Pushed
  <2> DEFINE m == WeightDelta(id, wrong)
  <2>1. m \in Mutation \ {Nothing} /\ m.type = "weight" /\ m.edge = id
    BY EdgeNumbers DEF WeightDelta, Mutation, Nothing
  <2>2. Push(m)
    BY <1>2
  <2> HIDE DEF m
  <2>3. QueuedBy(m)
    BY <2>1 DEF QueuedBy
  <2> QED BY <1>2, <2>1, <2>2, <2>3, PushCases
<1>3. CASE CloseGate
  <2> DEFINE id == traces[fb.age].edge
             m == GateClose(id)
  <2>1. id \in EdgeIds
    BY <1>3, TraceEdge DEF CloseGate, GateTurn
  <2>2. m \in Mutation \ {Nothing}
    <3>1. ClosedGate(edges[id].gate) \in 0..GateOne /\ id \in 1..EdgeCap
      BY <2>1, EdgeNumbers, GateCloses
    <3> QED BY <3>1 DEF GateClose, Mutation, Nothing
  <2>3. Push(m) /\ mode # "apply" /\ mode' # "apply" /\ UNCHANGED <<edges, marks>>
    BY <1>3 DEF CloseGate, graphVars
  <2>4. QueuedBy(m)
    BY <1>3, <2>1 DEF QueuedBy
  <2> HIDE DEF m, id
  <2> QED BY <2>2, <2>3, <2>4, PushCases
<1>4. CASE FeedbackTurn
  <2>1. CASE Credited(traces[fb.age])
    <3>1. traces[fb.age].edge \in EdgeIds /\ fb.wrong \in BOOLEAN
      BY <1>4, TraceEdge DEF FeedbackTurn
    <3>2. /\ Push(WeightDelta(traces[fb.age].edge, fb.wrong))
          /\ mode # "apply" /\ mode' # "apply" /\ UNCHANGED <<edges, marks>>
      BY <1>4, <2>1 DEF FeedbackTurn, graphVars
    <3> QED BY <1>2, <3>1, <3>2
  <2>2. CASE ~Credited(traces[fb.age])
    BY <1>4, <2>2 DEF FeedbackTurn
  <2> QED BY <2>1, <2>2
<1>5. ASSUME NEW id \in EdgeIds, NEW wrong \in BOOLEAN, Predict(id, wrong)
      PROVE  UNCHANGED ringVars \/ Pushed
  BY <1>2, <1>5 DEF Predict, graphVars
<1>6. CASE \/ \E key \in EdgeKeys : AddEdge(key)
           \/ NewQuery \/ BeginTick
           \/ \E id \in EdgeIds : Deliver(id) \/ Expect(id)
           \/ EndTick
           \/ \E wrong \in BOOLEAN : Feedback(wrong)
           \/ FeedbackEnds \/ ApplyMutations \/ ApplyEnds
           \/ UNCHANGED vars
  BY <1>6 DEF AddEdge, NewQuery, BeginTick, Deliver, Expect, EndTick, Feedback,
              FeedbackEnds, ApplyMutations, ApplyEnds, vars
<1>7. UNCHANGED ringVars \/ ApplyTurn \/ Pushed
  BY <1>1, <1>3, <1>4, <1>5, <1>6 DEF Next
<1> QED BY <1>7

(* The ring keeps its type.                                                *)
LEMMA RingTyped ==
  ASSUME TypeOK, RingShape, GateTurn, [Next]_vars
  PROVE  /\ slots' \in [0..(RingCap - 1) -> Mutation]
         /\ head' \in 0..(RingCap - 1) /\ tail' \in 0..(RingCap - 1)
         /\ count' \in 0..RingCap
<1>1. /\ slots \in [0..(RingCap - 1) -> Mutation]
      /\ head \in 0..(RingCap - 1) /\ tail \in 0..(RingCap - 1) /\ count \in 0..RingCap
  BY DEF TypeOK
<1>2. \A a \in Int : a % RingCap \in 0..(RingCap - 1)
  BY RingAssumption
<1>3. CASE UNCHANGED ringVars
  BY <1>1, <1>3 DEF ringVars
<1>4. CASE ApplyTurn
  <2>1. Nothing \in Mutation
    BY DEF Mutation
  <2>2. RingTake /\ count > 0
    BY <1>4 DEF ApplyTurn
  <2>3. slots' \in [0..(RingCap - 1) -> Mutation]
    BY <1>1, <2>1, <2>2 DEF RingTake
  <2>4. head' \in 0..(RingCap - 1)
    <3>1. head + 1 \in Int /\ head' = (head + 1) % RingCap
      BY <1>1, <2>2 DEF RingTake
    <3> QED BY <1>2, <3>1
  <2>5. tail' \in 0..(RingCap - 1) /\ count' \in 0..RingCap
    BY <1>1, <2>2, RingAssumption DEF RingTake
  <2> QED BY <2>3, <2>4, <2>5
<1>5. ASSUME count < RingCap, NEW m \in Mutation \ {Nothing}, RingPush(m)
      PROVE  /\ slots' \in [0..(RingCap - 1) -> Mutation]
             /\ head' \in 0..(RingCap - 1) /\ tail' \in 0..(RingCap - 1)
             /\ count' \in 0..RingCap
  <2>1. slots' \in [0..(RingCap - 1) -> Mutation]
    BY <1>1, <1>5 DEF RingPush
  <2>2. tail' \in 0..(RingCap - 1)
    <3>1. tail + 1 \in Int /\ tail' = (tail + 1) % RingCap
      BY <1>1, <1>5 DEF RingPush
    <3> QED BY <1>2, <3>1
  <2>3. head' \in 0..(RingCap - 1) /\ count' \in 0..RingCap
    BY <1>1, <1>5, RingAssumption DEF RingPush
  <2> QED BY <2>1, <2>2, <2>3
<1> QED BY <1>3, <1>4, <1>5, RingStep

(* What a step does to the edges and the marks on them.                    *)
LEMMA EdgesStep ==
  ASSUME TypeOK, RingShape, Waiting, [Next]_vars
  PROVE  /\ edges' \in Seq(Edge) /\ Len(edges') \in {Len(edges), Len(edges) + 1}
         /\ Len(edges') <= EdgeCap
         /\ marks' \in [1..EdgeCap -> 0..MarksMax]
         /\ \A i \in EdgeIds :
              /\ edges'[i].key = edges[i].key
              /\ \/ edges'[i].gate = edges[i].gate
                 \/ /\ ApplyTurn /\ slots[head].type = "gate" /\ slots[head].edge = i
                    /\ edges'[i].gate = slots[head].gate
              /\ \/ edges'[i].wrong = edges[i].wrong /\ marks'[i] = marks[i]
                 \/ /\ ApplyTurn /\ slots[head].type = "weight" /\ slots[head].edge = i
                    /\ IF slots[head].wrong
                       THEN /\ edges'[i].wrong = Least(edges[i].wrong + 1, WrongMax)
                            /\ marks'[i] = Least(marks[i] + 1, MarksMax)
                       ELSE edges'[i].wrong = 0 /\ marks'[i] = marks[i]
         /\ Len(edges') > Len(edges) =>
              /\ edges'[Len(edges')].gate = GateOne /\ edges'[Len(edges')].wrong = 0
              /\ UNCHANGED marks
<1>1. /\ edges \in Seq(Edge) /\ Len(edges) <= EdgeCap /\ Len(edges) \in Nat
      /\ marks \in [1..EdgeCap -> 0..MarksMax]
  BY DEF TypeOK
<1>2. CASE ApplyTurn
  <2>1. slots[head].type \in {"weight", "gate", "edge", "blocker"}
    BY <1>2, HeadMutation, MutationFields DEF ApplyTurn
  <2>2. CASE slots[head].type = "weight"
    BY <1>1, <1>2, <2>2, ApplyWeight
  <2>3. CASE slots[head].type = "gate"
    BY <1>1, <1>2, <2>3, ApplyGate
  <2>4. CASE slots[head].type \in {"edge", "blocker"}
    BY <1>1, <1>2, <2>4, ApplyCreate
  <2> QED BY <2>1, <2>2, <2>3, <2>4
<1>3. ASSUME NEW key \in EdgeKeys, AddEdge(key)
      PROVE  /\ edges' \in Seq(Edge) /\ Len(edges') \in {Len(edges), Len(edges) + 1}
             /\ Len(edges') <= EdgeCap
             /\ UNCHANGED marks
             /\ \A i \in EdgeIds : /\ edges'[i].key = edges[i].key
                                   /\ edges'[i].gate = edges[i].gate
                                   /\ edges'[i].wrong = edges[i].wrong
             /\ Len(edges') > Len(edges) =>
                  edges'[Len(edges')].gate = GateOne /\ edges'[Len(edges')].wrong = 0
  <2>1. UNCHANGED marks /\ edges' = IF Len(edges) >= EdgeCap THEN edges ELSE WithEdge(key)
    BY <1>3 DEF AddEdge
  <2>2. CASE Len(edges) >= EdgeCap
    BY <1>1, <2>1, <2>2
  <2>3. CASE Len(edges) < EdgeCap
    <3>1. edges' = WithEdge(key)
      BY <1>1, <2>1, <2>3, Numbers
    <3>2. /\ edges' \in Seq(Edge) /\ Len(edges') \in {Len(edges), Len(edges) + 1}
          /\ \A i \in EdgeIds : /\ edges'[i].key = edges[i].key
                                /\ edges'[i].gate = edges[i].gate
                                /\ edges'[i].wrong = edges[i].wrong
          /\ Len(edges') > Len(edges) =>
               edges'[Len(edges')].gate = GateOne /\ edges'[Len(edges')].wrong = 0
      BY <1>1, <3>1, Created
    <3>3. Len(edges') <= EdgeCap
      BY <1>1, <2>3, <3>2, Numbers
    <3> QED BY <2>1, <3>2, <3>3
  <2> QED BY <1>1, <2>2, <2>3, Numbers
<1>4. CASE UNCHANGED <<edges, marks>>
  BY <1>1, <1>4
<1>5. \/ ApplyTurn \/ UNCHANGED <<edges, marks>>
      \/ \E key \in EdgeKeys : AddEdge(key)
  BY DEF Next, QueueEdge, NewQuery, BeginTick, Deliver, Expect, Predict, EndTick, Feedback,
         FeedbackTurn, CloseGate, FeedbackEnds, ApplyMutations, ApplyEnds, vars, graphVars
<1> QED BY <1>1, <1>2, <1>3, <1>4, <1>5

(* No edge is removed.                                                     *)
LEMMA EdgesGrow ==
  ASSUME TypeOK, RingShape, Waiting, [Next]_vars
  PROVE  /\ EdgeIds' = 1..Len(edges') /\ EdgeIds = 1..Len(edges)
         /\ EdgeIds \subseteq EdgeIds' /\ EdgeIds' \subseteq 1..EdgeCap
         /\ \A i \in EdgeIds' \ EdgeIds : edges'[i].gate = GateOne /\ edges'[i].wrong = 0
<1>1. /\ Len(edges) \in Nat /\ Len(edges') \in {Len(edges), Len(edges) + 1}
      /\ Len(edges') <= EdgeCap
      /\ Len(edges') > Len(edges) =>
           edges'[Len(edges')].gate = GateOne /\ edges'[Len(edges')].wrong = 0
  BY EdgesStep DEF TypeOK
<1> QED BY <1>1, Numbers DEF EdgeIds

(* The nodes and the lists keep their types.                               *)
LEMMA ListsTyped ==
  ASSUME TypeOK, RingShape, Waiting, [Next]_vars
  PROVE  /\ nodes' \subseteq Nodes
         /\ valid' \in BOOLEAN /\ dirty' \in BOOLEAN
         /\ out' \in [Nodes -> SUBSET (1..EdgeCap)]
         /\ blockersIn' \in [Nodes -> SUBSET (1..EdgeCap)]
         /\ mode' \in {"idle", "tick", "apply", "feedback", "gate"}
<1> USE DEF TypeOK
<1>1. ASSUME Ensure
      PROVE  /\ valid' \in BOOLEAN
             /\ out' \in [Nodes -> SUBSET (1..EdgeCap)]
             /\ blockersIn' \in [Nodes -> SUBSET (1..EdgeCap)]
  BY <1>1, RebuiltLists DEF Ensure
<1>2. ASSUME NEW key \in EdgeKeys, AddEdge(key)
      PROVE  nodes' \subseteq Nodes /\ valid' \in BOOLEAN
             /\ UNCHANGED <<dirty, out, blockersIn, mode>>
  BY <1>2, KeyAssumption DEF AddEdge
<1>3. CASE ApplyTurn
  <2>1. UNCHANGED <<nodes, out, blockersIn, mode>>
    BY <1>3 DEF ApplyTurn
  <2>2. slots[head].type \in {"weight", "gate", "edge", "blocker"}
    BY <1>3, HeadMutation, MutationFields DEF ApplyTurn
  <2>3. valid' \in BOOLEAN /\ dirty' \in BOOLEAN
    <3>1. CASE slots[head].type = "weight"
      BY <1>3, <3>1, ApplyWeight
    <3>2. CASE slots[head].type = "gate"
      BY <1>3, <3>2, ApplyGate
    <3>3. CASE slots[head].type \in {"edge", "blocker"}
      BY <1>3, <3>3, ApplyCreate
    <3> QED BY <2>2, <3>1, <3>2, <3>3
  <2> QED BY <2>1, <2>3
<1>4. CASE NewQuery
  BY <1>1, <1>4 DEF NewQuery
<1>5. CASE BeginTick
  BY <1>1, <1>5 DEF BeginTick
<1>6. CASE ApplyEnds
  BY <1>6, RebuiltLists DEF ApplyEnds
<1>7. CASE FeedbackTurn
  BY <1>7 DEF FeedbackTurn, graphVars
<1>8. CASE \/ \E key \in EdgeKeys, type \in {"edge", "blocker"} : QueueEdge(key, type)
           \/ \E id \in EdgeIds : Deliver(id) \/ Expect(id)
           \/ \E id \in EdgeIds, wrong \in BOOLEAN : Predict(id, wrong)
           \/ EndTick
           \/ \E wrong \in BOOLEAN : Feedback(wrong)
           \/ CloseGate \/ FeedbackEnds \/ ApplyMutations
           \/ UNCHANGED vars
  BY <1>8 DEF QueueEdge, Deliver, Expect, Predict, EndTick, Feedback, CloseGate,
              FeedbackEnds, ApplyMutations, vars, graphVars
<1> QED BY <1>2, <1>3, <1>4, <1>5, <1>6, <1>7, <1>8 DEF Next

(* The trace ring keeps its type, and it never shrinks.                    *)
LEMMA TracesTyped ==
  ASSUME TypeOK, [Next]_vars
  PROVE  /\ traces' \in Seq([edge : EdgeIds, left : 0..(Window + 2)])
         /\ Len(traces') <= TraceCap /\ Len(traces') >= Len(traces)
<1> DEFINE Rec == [edge : EdgeIds, left : 0..(Window + 2)]
<1>1. traces \in Seq(Rec) /\ Len(traces) <= TraceCap
  BY DEF TypeOK
<1>2. ASSUME NEW id \in EdgeIds, Deliver(id) \/ Expect(id)
      PROVE  /\ traces' \in Seq(Rec)
             /\ Len(traces') <= TraceCap /\ Len(traces') >= Len(traces)
  <2>1. PICK left \in 0..(Window + 2) : Record(id, left)
    BY <1>2, Numbers DEF Deliver, Expect
  <2> QED BY <2>1, Recorded
<1>3. ASSUME NEW left \in [DOMAIN traces -> 0..(Window + 2)],
             traces' = [i \in DOMAIN traces |-> [traces[i] EXCEPT !.left = left[i]]]
      PROVE  /\ traces' \in Seq(Rec)
             /\ Len(traces') <= TraceCap /\ Len(traces') >= Len(traces)
  <2>1. \A r \in Rec : \A n \in 0..(Window + 2) : [r EXCEPT !.left = n] \in Rec
    OBVIOUS
  <2> HIDE DEF Rec
  <2>2. DOMAIN traces = 1..Len(traces) /\ Len(traces) \in Nat
        /\ \A i \in DOMAIN traces : traces[i] \in Rec
    BY <1>1
  <2>3. \A i \in DOMAIN traces : [traces[i] EXCEPT !.left = left[i]] \in Rec
    BY <1>3, <2>1, <2>2
  <2>4. traces' \in [1..Len(traces) -> Rec]
    BY <1>3, <2>2, <2>3
  <2>5. traces' \in Seq(Rec) /\ Len(traces') = Len(traces)
    BY <2>2, <2>4
  <2> QED BY <1>1, <2>2, <2>5
<1>4. CASE NewQuery
  <2> DEFINE left == [i \in DOMAIN traces |-> 0]
  <2>1. traces' = [i \in DOMAIN traces |-> [traces[i] EXCEPT !.left = left[i]]]
    BY <1>4 DEF NewQuery
  <2>2. left \in [DOMAIN traces -> 0..(Window + 2)]
    BY Numbers
  <2> HIDE DEF left
  <2> QED BY <1>3, <2>1, <2>2
<1>5. CASE EndTick
  <2> DEFINE left == [i \in DOMAIN traces |-> IF traces[i].left > 0 THEN traces[i].left - 1 ELSE 0]
  <2>1. traces' = [i \in DOMAIN traces |-> [traces[i] EXCEPT !.left = left[i]]]
    BY <1>5 DEF EndTick
  <2>2. \A i \in DOMAIN traces : traces[i].left \in 0..(Window + 2)
    <3>1. \A r \in Rec : r.left \in 0..(Window + 2)
      OBVIOUS
    <3> HIDE DEF Rec
    <3>2. \A i \in DOMAIN traces : traces[i] \in Rec
      BY <1>1
    <3> QED BY <3>1, <3>2
  <2>3. left \in [DOMAIN traces -> 0..(Window + 2)]
    <3>1. \A n \in 0..(Window + 2) : (IF n > 0 THEN n - 1 ELSE 0) \in 0..(Window + 2)
      BY Numbers
    <3> QED BY <2>2, <3>1
  <2> HIDE DEF left
  <2> QED BY <1>3, <2>1, <2>3
<1>6. CASE UNCHANGED traces
  BY <1>1, <1>6
<1>7. \/ UNCHANGED traces \/ NewQuery \/ EndTick
      \/ \E id \in EdgeIds : Deliver(id) \/ Expect(id)
  BY DEF Next, AddEdge, QueueEdge, BeginTick, Predict, Feedback, FeedbackTurn, CloseGate,
         FeedbackEnds, ApplyMutations, ApplyTurn, ApplyEnds, vars
<1> QED BY <1>2, <1>4, <1>5, <1>6, <1>7

(* What a step does to the feedback pass.                                  *)
LEMMA PassStep ==
  ASSUME TypeOK, GateTurn, [Next]_vars
  PROVE  \/ UNCHANGED fb
         \/ fb' = NoPass
         \/ \E wrong \in BOOLEAN, n \in 0..Len(traces) :
              mode = "idle" /\ fb' = [wrong |-> wrong, age |-> n, seen |-> {}, given |-> <<>>]
         \/ \E n \in 0..fb.age :
              /\ UNCHANGED traces
              /\ \/ fb' = [fb EXCEPT !.age = n]
                 \/ \E id \in EdgeIds :
                      /\ id \notin fb.seen
                      /\ fb' = [fb EXCEPT !.seen = IF Cardinality(fb.seen) < SeenCap
                                                   THEN fb.seen \cup {id} ELSE fb.seen,
                                          !.given = Append(fb.given, id), !.age = n]
<1>1. ASSUME NEW wrong \in BOOLEAN, Feedback(wrong)
      PROVE  \E n \in 0..Len(traces) :
               mode = "idle" /\ fb' = [wrong |-> wrong, age |-> n, seen |-> {}, given |-> <<>>]
  <2>1. Least(Len(traces), ScanLimit) \in 0..Len(traces)
    BY Numbers DEF Least, TypeOK
  <2> QED BY <1>1, <2>1 DEF Feedback, NoPass
<1>2. CASE CloseGate
  <2>1. fb.age - 1 \in 0..fb.age /\ fb' = [fb EXCEPT !.age = fb.age - 1] /\ UNCHANGED traces
    BY <1>2 DEF CloseGate, GateTurn, TypeOK
  <2> QED BY <2>1
<1>3. CASE FeedbackTurn
  <2> DEFINE id == traces[fb.age].edge
             seen == IF Cardinality(fb.seen) < SeenCap THEN fb.seen \cup {id} ELSE fb.seen
             given == Append(fb.given, id)
  <2>1. fb.age - 1 \in 0..fb.age /\ fb.age \in 0..fb.age /\ id \in EdgeIds /\ UNCHANGED traces
    BY <1>3, TraceEdge DEF FeedbackTurn, TypeOK
  <2>2. CASE Credited(traces[fb.age])
    <3>1. id \notin fb.seen
      BY <2>2 DEF Credited
    <3>2. CASE Closes(id)
      <4>1. fb' = [fb EXCEPT !.seen = seen, !.given = given]
        BY <1>3, <2>2, <3>2 DEF FeedbackTurn
      <4>2. fb' = [fb EXCEPT !.seen = seen, !.given = given, !.age = fb.age]
        BY <4>1 DEF TypeOK
      <4> QED BY <2>1, <3>1, <4>2
    <3>3. CASE ~Closes(id)
      <4>1. fb' = [fb EXCEPT !.seen = seen, !.given = given, !.age = fb.age - 1]
        BY <1>3, <2>2, <3>3 DEF FeedbackTurn
      <4> QED BY <2>1, <3>1, <4>1
    <3> QED BY <3>2, <3>3
  <2>3. CASE ~Credited(traces[fb.age])
    <3>1. fb' = [fb EXCEPT !.age = fb.age - 1]
      BY <1>3, <2>3 DEF FeedbackTurn
    <3> QED BY <2>1, <3>1
  <2> QED BY <2>2, <2>3
<1>4. CASE FeedbackEnds
  BY <1>4 DEF FeedbackEnds
<1>5. UNCHANGED fb \/ CloseGate \/ FeedbackTurn \/ FeedbackEnds
      \/ \E wrong \in BOOLEAN : Feedback(wrong)
  BY DEF Next, AddEdge, QueueEdge, NewQuery, BeginTick, Deliver, Expect, Predict, EndTick,
         ApplyMutations, ApplyTurn, ApplyEnds, vars
<1> QED BY <1>1, <1>2, <1>3, <1>4, <1>5

(* A feedback pass keeps its type.                                         *)
LEMMA PassTyped ==
  ASSUME TypeOK, RingShape, Waiting, GateTurn, [Next]_vars
  PROVE  fb' \in [wrong : BOOLEAN, age : 0..Len(traces'), seen : SUBSET EdgeIds',
                  given : Seq(EdgeIds')]
<1> DEFINE Pass(n, ids) == [wrong : BOOLEAN, age : 0..n, seen : SUBSET ids, given : Seq(ids)]
<1>1. fb \in Pass(Len(traces), EdgeIds)
  BY DEF TypeOK
<1>2. EdgeIds \subseteq EdgeIds'
  BY EdgesGrow
<1>3. Len(traces) \in Nat /\ Len(traces') \in Nat /\ Len(traces') >= Len(traces)
  BY TracesTyped DEF TypeOK
<1>4. ASSUME NEW p \in Pass(Len(traces), EdgeIds)
      PROVE  p \in Pass(Len(traces'), EdgeIds')
  <2>1. p.given \in Seq(EdgeIds')
    BY <1>2
  <2>2. p.seen \subseteq EdgeIds' /\ p.age \in 0..Len(traces') /\ p.wrong \in BOOLEAN
    BY <1>2, <1>3
  <2>3. p = [wrong |-> p.wrong, age |-> p.age, seen |-> p.seen, given |-> p.given]
    OBVIOUS
  <2>4. p.seen \in SUBSET EdgeIds'
    BY <2>2
  <2> HIDE DEF Pass
  <2>5. \A s \in SUBSET EdgeIds' : \A g \in Seq(EdgeIds') : \A a \in 0..Len(traces') : \A w \in BOOLEAN :
          [wrong |-> w, age |-> a, seen |-> s, given |-> g] \in Pass(Len(traces'), EdgeIds')
    BY DEF Pass
  <2> QED BY <2>1, <2>2, <2>3, <2>4, <2>5
<1>5. CASE UNCHANGED fb
  BY <1>1, <1>4, <1>5
<1>6. CASE fb' = NoPass
  <2>1. NoPass \in Pass(Len(traces), EdgeIds)
    BY <1>3 DEF NoPass
  <2> QED BY <1>4, <1>6, <2>1
<1>7. ASSUME NEW wrong \in BOOLEAN, NEW n \in 0..Len(traces),
             fb' = [wrong |-> wrong, age |-> n, seen |-> {}, given |-> <<>>]
      PROVE  fb' \in Pass(Len(traces'), EdgeIds')
  <2>1. fb' \in Pass(Len(traces), EdgeIds)
    BY <1>7
  <2> QED BY <1>4, <2>1
<1>8. ASSUME NEW n \in 0..fb.age,
             \/ fb' = [fb EXCEPT !.age = n]
             \/ \E id \in EdgeIds :
                  fb' = [fb EXCEPT !.seen = IF Cardinality(fb.seen) < SeenCap
                                            THEN fb.seen \cup {id} ELSE fb.seen,
                                   !.given = Append(fb.given, id), !.age = n]
      PROVE  fb' \in Pass(Len(traces'), EdgeIds')
  <2>1. n \in 0..Len(traces)
    BY <1>1, <1>3
  <2>2. CASE fb' = [fb EXCEPT !.age = n]
    <3>1. fb' \in Pass(Len(traces), EdgeIds)
      BY <1>1, <2>1, <2>2
    <3> QED BY <1>4, <3>1
  <2>3. ASSUME NEW id \in EdgeIds, NEW seen \in SUBSET EdgeIds, NEW given \in Seq(EdgeIds),
               fb' = [fb EXCEPT !.seen = seen, !.given = given, !.age = n]
        PROVE  fb' \in Pass(Len(traces'), EdgeIds')
    <3>1. fb' \in Pass(Len(traces), EdgeIds)
      BY <1>1, <2>1, <2>3
    <3> QED BY <1>4, <3>1
  <2>4. ASSUME NEW id \in EdgeIds
        PROVE  /\ (IF Cardinality(fb.seen) < SeenCap THEN fb.seen \cup {id} ELSE fb.seen)
                    \in SUBSET EdgeIds
               /\ Append(fb.given, id) \in Seq(EdgeIds)
    BY <1>1
  <2> QED BY <1>8, <2>2, <2>3, <2>4
<1> QED BY <1>5, <1>6, <1>7, <1>8, PassStep

(* The count of attempts stays within its bound.                           *)
LEMMA AskedTyped ==
  ASSUME TypeOK, [Next]_vars
  PROVE  asked' \in 0..MaxQueued
<1>1. ASSUME NEW m, Push(m)
      PROVE  asked' \in 0..MaxQueued
  BY <1>1, PushCases
<1>2. UNCHANGED asked \/ \E m : Push(m)
  BY DEF Next, AddEdge, QueueEdge, NewQuery, BeginTick, Deliver, Expect, Predict, EndTick,
         Feedback, FeedbackTurn, CloseGate, FeedbackEnds, ApplyMutations, ApplyTurn,
         ApplyEnds, vars
<1> QED BY <1>1, <1>2 DEF TypeOK

(* Every step keeps the types.                                             *)
LEMMA TypeStep ==
  ASSUME TypeOK, RingShape, Waiting, GateTurn, [Next]_vars
  PROVE  TypeOK'
<1>1. /\ edges' \in Seq(Edge) /\ Len(edges') <= EdgeCap
      /\ marks' \in [1..EdgeCap -> 0..MarksMax]
  BY EdgesStep
<1>2. traces' \in Seq([edge : EdgeIds', left : 0..(Window + 2)]) /\ Len(traces') <= TraceCap
  <2> DEFINE Rec(ids) == [edge : ids, left : 0..(Window + 2)]
  <2>1. traces' \in Seq(Rec(EdgeIds)) /\ Len(traces') <= TraceCap
    BY TracesTyped
  <2>2. Rec(EdgeIds) \subseteq Rec(EdgeIds')
    BY EdgesGrow
  <2> HIDE DEF Rec
  <2>3. traces' \in Seq(Rec(EdgeIds'))
    BY <2>1, <2>2
  <2> QED BY <2>1, <2>3 DEF Rec
<1> QED BY <1>1, <1>2, RingTyped, ListsTyped, PassTyped, AskedTyped DEF TypeOK

(* What a step does to the waiting mutations.                              *)
LEMMA PendingStep ==
  ASSUME TypeOK, RingShape, GateTurn, [Next]_vars
  PROVE  /\ RingShape'
         /\ \/ /\ ~ApplyTurn /\ count' = count
               /\ \A i \in 1..count : Pending'[i] = Pending[i]
            \/ /\ ApplyTurn /\ count > 0 /\ count' = count - 1
               /\ Pending[1] = slots[head]
               /\ \A i \in 1..(count - 1) : Pending'[i] = Pending[i + 1]
            \/ /\ count < RingCap /\ count' = count + 1
               /\ mode # "apply" /\ mode' # "apply" /\ UNCHANGED <<edges, marks>>
               /\ \A i \in 1..count : Pending'[i] = Pending[i]
               /\ Pending'[count + 1] \in Mutation \ {Nothing}
               /\ QueuedBy(Pending'[count + 1])
<1>1. CASE UNCHANGED ringVars /\ ~ApplyTurn
  BY <1>1 DEF ringVars, RingShape, Pending
<1>2. CASE ApplyTurn
  BY <1>2, TakeEffect DEF ApplyTurn
<1>3. CASE /\ count < RingCap /\ mode # "apply" /\ mode' # "apply"
           /\ UNCHANGED <<edges, marks>>
           /\ \E m \in Mutation \ {Nothing} : RingPush(m) /\ QueuedBy(m)
  <2>1. PICK m \in Mutation \ {Nothing} : RingPush(m) /\ QueuedBy(m)
    BY <1>3
  <2>2. /\ count' = count + 1 /\ RingShape'
        /\ \A i \in 1..count : Pending'[i] = Pending[i]
        /\ Pending'[count + 1] = m
    BY <1>3, <2>1, PushEffect
  <2> QED BY <1>3, <2>1, <2>2
<1> QED BY <1>1, <1>2, <1>3, RingStep

(* What waits after a step waited before it, or was queued by it.          *)
LEMMA WaitingStep ==
  ASSUME TypeOK, RingShape, GateTurn, Waiting, [Next]_vars
  PROVE  Waiting'
<1>1. count \in Nat /\ EdgeIds \subseteq EdgeIds'
  BY EdgesGrow DEF TypeOK
<1>2. SUFFICES ASSUME NEW i \in 1..count'
               PROVE  /\ Pending'[i] \in Mutation \ {Nothing}
                      /\ Pending'[i].type \in {"weight", "gate"} => Pending'[i].edge \in EdgeIds'
  BY DEF Waiting
<1>3. \A j \in 1..count : /\ Pending[j] \in Mutation \ {Nothing}
                          /\ Pending[j].type \in {"weight", "gate"} => Pending[j].edge \in EdgeIds'
  BY <1>1 DEF Waiting
<1>4. CASE count' = count /\ \A j \in 1..count : Pending'[j] = Pending[j]
  BY <1>2, <1>3, <1>4
<1>5. CASE count' = count - 1 /\ \A j \in 1..(count - 1) : Pending'[j] = Pending[j + 1]
  <2>1. i \in 1..(count - 1) /\ i + 1 \in 1..count
    BY <1>1, <1>2, <1>5
  <2> QED BY <1>3, <1>5, <2>1
<1>6. CASE /\ count' = count + 1
           /\ \A j \in 1..count : Pending'[j] = Pending[j]
           /\ Pending'[count + 1] \in Mutation \ {Nothing}
           /\ QueuedBy(Pending'[count + 1])
  <2>1. CASE i \in 1..count
    BY <1>3, <1>6, <2>1
  <2>2. CASE i = count + 1
    <3>1. Pending'[i].type \in {"weight", "gate"} => Pending'[i].edge \in EdgeIds
      BY <1>6, <2>2 DEF QueuedBy, GateClose
    <3> QED BY <1>1, <1>6, <2>2, <3>1
  <2> QED BY <1>1, <1>2, <1>6, <2>1, <2>2
<1> QED BY <1>4, <1>5, <1>6, PendingStep

(* A turn leads to a gate only as GateTurn says.                           *)
LEMMA GateTurnStep ==
  ASSUME TypeOK, RingShape, GateTurn, Waiting, [Next]_vars
  PROVE  GateTurn'
<1>1. CASE FeedbackTurn
  <2> DEFINE id == traces[fb.age].edge
             m == WeightDelta(id, fb.wrong)
             seen == IF Cardinality(fb.seen) < SeenCap THEN fb.seen \cup {id} ELSE fb.seen
             given == Append(fb.given, id)
  <2> SUFFICES ASSUME mode' = "gate"
               PROVE  GateTurn'
    BY DEF GateTurn
  <2>1. Credited(traces[fb.age]) /\ Closes(id)
    BY <1>1 DEF FeedbackTurn
  <2>2. /\ Push(m) /\ fb' = [fb EXCEPT !.seen = seen, !.given = given]
        /\ UNCHANGED <<edges, traces>>
    BY <1>1, <2>1 DEF FeedbackTurn, graphVars
  <2>3. fb'.age = fb.age /\ fb'.wrong = fb.wrong /\ fb.age > 0
    BY <1>1, <2>2 DEF FeedbackTurn, TypeOK
  <2>4. fb.wrong /\ fb.wrong \in BOOLEAN /\ edges[id].wrong + 1 >= Threshold
    BY <2>1, <2>3, TraceEdge DEF Closes
  <2>5. m = WeightDelta(id, TRUE)
    BY <2>4 DEF WeightDelta
  <2> HIDE DEF m, seen, given
  <2>6. count' = RingCap \/ (count' > 0 /\ Pending'[count'] = m)
    <3>1. CASE count < RingCap /\ RingPush(m)
      <4>1. count' = count + 1 /\ Pending'[count + 1] = m
        BY <3>1, PushEffect
      <4>2. count \in Nat
        BY DEF TypeOK
      <4> QED BY <4>1, <4>2
    <3>2. CASE count = RingCap /\ UNCHANGED ringVars
      <4>1. count' = RingCap
        BY <3>2 DEF ringVars
      <4> QED BY <4>1
    <3> QED BY <2>2, <3>1, <3>2, PushCases
  <2>7. traces'[fb'.age].edge = id /\ edges'[id].wrong = edges[id].wrong
    BY <2>2, <2>3
  <2>8. m = (WeightDelta(traces[fb.age].edge, TRUE))'
    BY <2>5, <2>7 DEF WeightDelta
  <2> QED BY <2>3, <2>4, <2>6, <2>7, <2>8 DEF GateTurn
<1>2. CASE UNCHANGED vars
  BY <1>2 DEF vars, ringVars, graphVars, GateTurn, Pending, WeightDelta
<1>3. CASE mode' # "gate"
  BY <1>3 DEF GateTurn
<1>4. FeedbackTurn \/ UNCHANGED vars \/ mode' # "gate"
  BY DEF Next, AddEdge, QueueEdge, NewQuery, BeginTick, Deliver, Expect, Predict, EndTick,
         Feedback, CloseGate, FeedbackEnds, ApplyMutations, ApplyTurn, ApplyEnds
<1> QED BY <1>1, <1>2, <1>3, <1>4

(* Only a batch leaves the lists behind the graph without forgetting them. *)
LEMMA CleanStep ==
  ASSUME TypeOK, Clean, [Next]_vars
  PROVE  Clean'
<1>1. CASE mode = "apply"
  <2>1. ApplyTurn \/ ApplyEnds \/ UNCHANGED vars
    BY <1>1 DEF Next, AddEdge, QueueEdge, NewQuery, BeginTick, Deliver, Expect, Predict,
                EndTick, Feedback, FeedbackTurn, CloseGate, FeedbackEnds, ApplyMutations
  <2> QED BY <1>1, <2>1 DEF ApplyTurn, ApplyEnds, vars, Clean
<1>2. CASE mode # "apply"
  <2>1. ~dirty
    BY <1>2 DEF Clean
  <2>2. UNCHANGED dirty
    BY <1>2 DEF Next, AddEdge, QueueEdge, NewQuery, BeginTick, Deliver, Expect, Predict,
                EndTick, Feedback, FeedbackTurn, CloseGate, FeedbackEnds, ApplyMutations,
                ApplyTurn, ApplyEnds, vars, graphVars
  <2> QED BY <2>1, <2>2 DEF Clean
<1> QED BY <1>1, <1>2

(* The lists of a graph whose edges keep their ends and their kind.        *)
LEMMA SameLists ==
  ASSUME Len(edges') = Len(edges),
         \A i \in EdgeIds : edges'[i].key = edges[i].key /\ edges'[i].blocker = edges[i].blocker
  PROVE  \A n \in Nodes : OutOf(n)' = OutOf(n) /\ BlockersOf(n)' = BlockersOf(n)
  BY DEF EdgeIds, OutOf, BlockersOf

(* The lists are right, or known to be out of date, after every step.      *)
LEMMA ListsStep ==
  ASSUME TypeOK, RingShape, Waiting, Lists, [Next]_vars
  PROVE  Lists'
<1> DEFINE Exact == \A n \in Nodes : out[n] = OutOf(n) /\ blockersIn[n] = BlockersOf(n)
<1>1. ASSUME Rebuild, UNCHANGED edges
      PROVE  Exact'
  <2>1. \A n \in Nodes : out'[n] = OutOf(n) /\ blockersIn'[n] = BlockersOf(n)
    BY <1>1 DEF Rebuild
  <2>2. \A n \in Nodes : OutOf(n)' = OutOf(n) /\ BlockersOf(n)' = BlockersOf(n)
    BY <1>1, SameLists
  <2> QED BY <2>1, <2>2
<1>2. ASSUME UNCHANGED <<edges, valid, dirty, out, blockersIn>>
      PROVE  Lists'
  <2>1. \A n \in Nodes : OutOf(n)' = OutOf(n) /\ BlockersOf(n)' = BlockersOf(n)
    BY <1>2, SameLists
  <2> QED BY <1>2, <2>1 DEF Lists
<1>3. ASSUME Ensure, UNCHANGED <<edges, dirty>>
      PROVE  Lists'
  <2>1. CASE Rebuild
    BY <1>1, <1>3, <2>1 DEF Lists
  <2>2. CASE UNCHANGED <<valid, out, blockersIn>>
    BY <1>2, <1>3, <2>2
  <2> QED BY <1>3, <2>1, <2>2 DEF Ensure
<1>4. ASSUME NEW key \in EdgeKeys, AddEdge(key)
      PROVE  Lists'
  <2>1. UNCHANGED <<dirty, out, blockersIn>>
        /\ valid' = (valid /\ nodes' = nodes /\ edges' = edges)
    BY <1>4 DEF AddEdge
  <2>2. CASE edges' = edges /\ valid' = valid
    BY <1>2, <2>1, <2>2
  <2>3. CASE valid' = FALSE
    BY <2>3 DEF Lists
  <2> QED BY <2>1, <2>2, <2>3 DEF TypeOK
<1>5. CASE ApplyTurn
  <2>1. UNCHANGED <<out, blockersIn>>
    BY <1>5 DEF ApplyTurn
  <2>2. slots[head].type \in {"weight", "gate", "edge", "blocker"}
    BY <1>5, HeadMutation, MutationFields DEF ApplyTurn
  <2>3. CASE slots[head].type \in {"weight", "gate"}
    <3>1. /\ Len(edges') = Len(edges) /\ UNCHANGED <<valid, dirty>>
          /\ \A i \in EdgeIds : edges'[i].key = edges[i].key /\ edges'[i].blocker = edges[i].blocker
      BY <1>5, <2>3, ApplyWeight, ApplyGate
    <3>2. \A n \in Nodes : OutOf(n)' = OutOf(n) /\ BlockersOf(n)' = BlockersOf(n)
      BY <3>1, SameLists
    <3> QED BY <2>1, <3>1, <3>2 DEF Lists
  <2>4. CASE slots[head].type \in {"edge", "blocker"}
    <3>1. UNCHANGED <<edges, valid, dirty>> \/ dirty' = TRUE
      BY <1>5, <2>4, ApplyCreate
    <3>2. CASE UNCHANGED <<edges, valid, dirty>>
      BY <1>2, <2>1, <3>2
    <3>3. CASE dirty' = TRUE
      BY <3>3 DEF Lists
    <3> QED BY <3>1, <3>2, <3>3
  <2> QED BY <2>2, <2>3, <2>4
<1>6. CASE ApplyEnds
  <2>1. CASE dirty
    <3>1. Rebuild /\ UNCHANGED edges
      BY <1>6, <2>1 DEF ApplyEnds
    <3> QED BY <1>1, <3>1 DEF Lists
  <2>2. CASE ~dirty
    <3>1. UNCHANGED <<edges, valid, dirty, out, blockersIn>>
      BY <1>6, <2>2 DEF ApplyEnds, TypeOK
    <3> QED BY <1>2, <3>1
  <2> QED BY <2>1, <2>2
<1>7. CASE NewQuery \/ BeginTick
  BY <1>3, <1>7 DEF NewQuery, BeginTick
<1>8. CASE UNCHANGED <<edges, valid, dirty, out, blockersIn>>
  BY <1>2, <1>8
<1>9. \/ \E key \in EdgeKeys : AddEdge(key)
      \/ ApplyTurn \/ ApplyEnds \/ NewQuery \/ BeginTick
      \/ UNCHANGED <<edges, valid, dirty, out, blockersIn>>
  BY DEF Next, QueueEdge, Deliver, Expect, Predict, EndTick, Feedback, FeedbackTurn,
         CloseGate, FeedbackEnds, ApplyMutations, vars, graphVars
<1> QED BY <1>4, <1>5, <1>6, <1>7, <1>8, <1>9

(* A batch ends when nothing waits any more.                               *)
LEMMA BatchEnds ==
  ASSUME TypeOK, [Next]_vars
  PROVE  /\ mode = "apply" /\ mode' # "apply" => count' = 0
         /\ ApplyTurn => mode = "apply" /\ mode' = "apply"
<1>1. ApplyTurn => mode = "apply" /\ mode' = "apply"
  BY DEF ApplyTurn
<1>2. ASSUME mode = "apply", mode' # "apply"
      PROVE  count' = 0
  <2>1. ApplyEnds
    BY <1>1, <1>2 DEF Next, AddEdge, QueueEdge, NewQuery, BeginTick, Deliver, Expect, Predict,
                EndTick, Feedback, FeedbackTurn, CloseGate, FeedbackEnds, ApplyMutations, vars
  <2> QED BY <2>1 DEF ApplyEnds, ringVars
<1> QED BY <1>1, <1>2

(* What waits for an edge is a gate within its bounds.                     *)
LEMMA WaitingGate ==
  ASSUME Waiting, NEW i \in 1..count, Pending[i].type = "gate"
  PROVE  Pending[i].edge \in EdgeIds /\ Pending[i].gate \in 0..GateOne
<1>1. Pending[i] \in Mutation \ {Nothing} /\ Pending[i].edge \in EdgeIds
  BY DEF Waiting
<1> QED BY <1>1, MutationFields

(* A gate that a batch sets is the one that was waiting first.             *)
LEMMA GateTaken ==
  ASSUME TypeOK, RingShape, Waiting, [Next]_vars, NEW id \in EdgeIds
  PROVE  \/ edges'[id].gate = edges[id].gate
         \/ /\ ApplyTurn /\ count > 0 /\ 1 \in 1..count
            /\ Pending[1].type = "gate" /\ Pending[1].edge = id
            /\ edges'[id].gate = Pending[1].gate
<1>1. CASE edges'[id].gate = edges[id].gate
  BY <1>1
<1>2. CASE /\ ApplyTurn /\ slots[head].type = "gate" /\ slots[head].edge = id
           /\ edges'[id].gate = slots[head].gate
  <2>1. count > 0 /\ 1 \in 1..count
    BY <1>2 DEF ApplyTurn, TypeOK
  <2> QED BY <1>2, <2>1, HeadMutation
<1> QED BY <1>1, <1>2, EdgesStep

(* The gates that wait for an edge keep agreeing.                           *)
LEMMA GatesAgreeStep ==
  ASSUME TypeOK, RingShape, Waiting, GateTurn, GatesAgree, [Next]_vars
  PROVE  GatesAgree'
<1> DEFINE IsGate(i) == Pending[i].type = "gate"
           EdgeGate(i) == edges[Pending[i].edge].gate
<1>1. count \in Nat /\ EdgeIds \subseteq EdgeIds'
  BY EdgesGrow DEF TypeOK
<1>2. \A i \in 1..count : IsGate(i) =>
        /\ Pending[i].edge \in EdgeIds
        /\ Pending[i].gate <= EdgeGate(i)
        /\ mode # "apply" => Pending[i].gate = ClosedGate(EdgeGate(i))
  BY WaitingGate DEF GatesAgree
<1>3. \A i, j \in 1..count :
        IsGate(i) /\ IsGate(j) /\ Pending[i].edge = Pending[j].edge => Pending[i].gate = Pending[j].gate
  BY DEF GatesAgree
<1>4. CASE /\ ~ApplyTurn /\ count' = count
           /\ \A i \in 1..count : Pending'[i] = Pending[i]
  <2>1. \A id \in EdgeIds : edges'[id].gate = edges[id].gate
    BY <1>4, GateTaken
  <2>2. \A i \in 1..count : mode' # "apply" => mode # "apply"
    BY <1>1, <1>4, BatchEnds
  <2>3. \A i \in 1..count' :
          Pending'[i].type = "gate" =>
            /\ Pending'[i].gate <= edges'[Pending'[i].edge].gate
            /\ mode' # "apply" => Pending'[i].gate = ClosedGate(edges'[Pending'[i].edge].gate)
    BY <1>2, <1>4, <2>1, <2>2
  <2>4. \A i, j \in 1..count' :
          Pending'[i].type = "gate" /\ Pending'[j].type = "gate" /\ Pending'[i].edge = Pending'[j].edge
            => Pending'[i].gate = Pending'[j].gate
    BY <1>3, <1>4
  <2> QED BY <2>3, <2>4 DEF GatesAgree, ClosedGate
<1>5. CASE /\ ApplyTurn /\ count > 0 /\ count' = count - 1
           /\ \A i \in 1..(count - 1) : Pending'[i] = Pending[i + 1]
  <2>1. \A i \in 1..count' : i + 1 \in 1..count /\ Pending'[i] = Pending[i + 1]
    BY <1>1, <1>5
  <2>2. mode' = "apply"
    BY <1>5, BatchEnds
  <2>3. ASSUME NEW i \in 1..count', Pending'[i].type = "gate"
        PROVE  Pending'[i].gate <= edges'[Pending'[i].edge].gate
    <3> DEFINE id == Pending[i + 1].edge
    <3>1. /\ id \in EdgeIds /\ Pending[i + 1].gate <= edges[id].gate
          /\ Pending[i + 1].gate \in 0..GateOne
      BY <1>2, <2>1, <2>3, WaitingGate
    <3>2. CASE edges'[id].gate = edges[id].gate
      BY <2>1, <3>1, <3>2
    <3>3. CASE /\ 1 \in 1..count /\ Pending[1].type = "gate" /\ Pending[1].edge = id
               /\ edges'[id].gate = Pending[1].gate
      <4>1. Pending[1].gate = Pending[i + 1].gate
        BY <1>3, <2>1, <2>3, <3>3
      <4> QED BY <2>1, <3>1, <3>3, <4>1
    <3> QED BY <3>1, <3>2, <3>3, GateTaken
  <2>4. \A i, j \in 1..count' :
          Pending'[i].type = "gate" /\ Pending'[j].type = "gate" /\ Pending'[i].edge = Pending'[j].edge
            => Pending'[i].gate = Pending'[j].gate
    BY <1>3, <2>1
  <2> QED BY <2>2, <2>3, <2>4 DEF GatesAgree
<1>6. CASE /\ count' = count + 1 /\ mode # "apply" /\ UNCHANGED edges
           /\ \A i \in 1..count : Pending'[i] = Pending[i]
           /\ QueuedBy(Pending'[count + 1])
  <2>1. ASSUME NEW i \in 1..count', Pending'[i].type = "gate"
        PROVE  /\ Pending'[i].edge \in EdgeIds
               /\ Pending'[i].gate = ClosedGate(edges[Pending'[i].edge].gate)
    <3>1. CASE i \in 1..count
      BY <1>2, <1>6, <2>1, <3>1
    <3>2. CASE i = count + 1
      BY <1>6, <2>1, <3>2 DEF QueuedBy, GateClose
    <3> QED BY <1>1, <1>6, <3>1, <3>2
  <2>2. \A id \in EdgeIds : ClosedGate(edges[id].gate) <= edges[id].gate
    BY EdgeNumbers, GateCloses
  <2>3. \A i \in 1..count' :
          Pending'[i].type = "gate" =>
            /\ Pending'[i].gate <= edges'[Pending'[i].edge].gate
            /\ mode' # "apply" => Pending'[i].gate = ClosedGate(edges'[Pending'[i].edge].gate)
    BY <1>6, <2>1, <2>2
  <2>4. \A i, j \in 1..count' :
          Pending'[i].type = "gate" /\ Pending'[j].type = "gate" /\ Pending'[i].edge = Pending'[j].edge
            => Pending'[i].gate = Pending'[j].gate
    BY <2>1
  <2> QED BY <2>3, <2>4 DEF GatesAgree, ClosedGate
<1> QED BY <1>4, <1>5, <1>6, PendingStep

(* More marks justify no less.                                             *)
LEMMA JustifiedMore ==
  ASSUME NEW gate \in 0..GateOne, NEW n \in Nat, NEW k \in Nat, n <= k, Justified(gate, n)
  PROVE  Justified(gate, k)
<1>1. GateStep \in Nat /\ Threshold \in Nat /\ GateOne \in Nat
  BY Numbers
<1>2. \A s \in Nat : \A a, b \in Int : a <= b => s * a <= s * b
  OBVIOUS
<1>3. n + 1 - Threshold \in Int /\ k + 1 - Threshold \in Int
      /\ n + 1 - Threshold <= k + 1 - Threshold
  BY <1>1
<1>4. GateStep * (n + 1 - Threshold) <= GateStep * (k + 1 - Threshold)
  BY <1>1, <1>2, <1>3
<1>5. \A s \in Nat : \A a \in Int : s * a \in Int
  OBVIOUS
<1>6. GateStep * (n + 1 - Threshold) \in Int /\ GateStep * (k + 1 - Threshold) \in Int
  BY <1>1, <1>3, <1>5
<1>7. PICK a \in Int, b \in Int : a = GateStep * (n + 1 - Threshold)
                                 /\ b = GateStep * (k + 1 - Threshold) /\ a <= b
  BY <1>4, <1>6, Zenon
<1>8. gate < GateOne => GateOne - gate <= a
  BY <1>7, Zenon DEF Justified
<1>9. gate < GateOne => GateOne - gate <= b
  BY <1>1, <1>7, <1>8
<1> QED BY <1>7, <1>9, Zenon DEF Justified

(* MarksMax marks justify any gate.                                        *)
LEMMA JustifiedAlways ==
  ASSUME NEW gate \in 0..GateOne
  PROVE  Justified(gate, MarksMax)
<1>1. GateStep \in Nat \ {0} /\ Threshold \in Nat /\ GateOne \in Nat /\ GateOne \div GateStep \in Nat
  BY Numbers
<1>2. MarksMax + 1 - Threshold = (GateOne \div GateStep) + 1
  BY <1>1 DEF MarksMax
<1>3. GateStep * ((GateOne \div GateStep) + 1) >= GateOne
  BY <1>1
<1> QED BY <1>1, <1>2, <1>3 DEF Justified

(* One more mark justifies one more step.                                  *)
LEMMA JustifiedStep ==
  ASSUME NEW gate \in 0..GateOne, NEW n \in Nat, n + 1 >= Threshold, Justified(gate, n)
  PROVE  Justified(ClosedGate(gate), n + 1)
<1>1. GateStep \in Nat /\ Threshold \in Nat /\ GateOne \in Nat
  BY Numbers
<1>2. PICK d \in Nat : d = n + 1 - Threshold
  BY <1>1
<1>3. GateStep * d \in Nat /\ GateStep * (d + 1) = GateStep * d + GateStep
  <2>1. \A a, b \in Nat : a * b \in Nat /\ a * (b + 1) = a * b + a
    OBVIOUS
  <2> QED BY <1>1, <2>1
<1>4. PICK k \in Nat : k = GateStep * d
  BY <1>3
<1>5. (n + 1) + 1 - Threshold = d + 1
  BY <1>1, <1>2
<1>6. gate < GateOne => GateOne - gate <= k
  BY <1>2, <1>4 DEF Justified
<1>7. GateOne - ClosedGate(gate) <= k + GateStep
  BY <1>1, <1>6 DEF ClosedGate
<1>8. GateStep * ((n + 1) + 1 - Threshold) = k + GateStep
  BY <1>3, <1>4, <1>5
<1> QED BY <1>7, <1>8 DEF Justified

(* The gate that a feedback pass asks for is justified by the mark that    *)
(* waits in front of it.                                                   *)
LEMMA JustifiedAsked ==
  ASSUME TypeOK, Marked, GateJustified, NEW id \in EdgeIds, edges[id].wrong + 1 >= Threshold
  PROVE  Justified(ClosedGate(edges[id].gate), Least(marks[id] + 1, MarksMax))
<1>1. /\ edges[id].gate \in 0..GateOne /\ edges[id].wrong \in 0..WrongMax
      /\ marks[id] \in 0..MarksMax /\ MarksMax \in Nat /\ Threshold \in Nat /\ WrongMax \in Nat
  BY EdgeNumbers, Numbers DEF TypeOK
<1>2. ClosedGate(edges[id].gate) \in 0..GateOne
  BY <1>1, GateCloses
<1>3. CASE marks[id] = MarksMax
  <2>1. Least(marks[id] + 1, MarksMax) = MarksMax
    BY <1>1, <1>3 DEF Least
  <2> QED BY <1>2, <2>1, JustifiedAlways
<1>4. CASE marks[id] # MarksMax
  <2>1. Least(marks[id] + 1, MarksMax) = marks[id] + 1
    BY <1>1, <1>4 DEF Least
  <2>2. edges[id].wrong <= marks[id]
    BY <1>4 DEF Marked
  <2>3. marks[id] + 1 >= Threshold /\ marks[id] \in Nat
    BY <1>1, <2>2
  <2>4. Justified(edges[id].gate, marks[id])
    BY DEF GateJustified, Justified
  <2> QED BY <1>1, <2>1, <2>3, <2>4, JustifiedStep
<1> QED BY <1>3, <1>4

(* The marks on an edge never become fewer.                                *)
LEMMA MarksGrow ==
  ASSUME TypeOK, RingShape, Waiting, [Next]_vars, NEW id \in EdgeIds
  PROVE  /\ marks[id] \in 0..MarksMax /\ marks'[id] \in 0..MarksMax /\ marks'[id] >= marks[id]
         /\ \/ marks'[id] = marks[id]
            \/ /\ ApplyTurn /\ slots[head].type = "weight"
               /\ marks'[id] = Least(marks[id] + 1, MarksMax)
<1>1. id \in 1..EdgeCap
  BY EdgeNumbers
<1>2. marks[id] \in 0..MarksMax /\ marks'[id] \in 0..MarksMax
  <2>1. marks \in [1..EdgeCap -> 0..MarksMax] /\ marks' \in [1..EdgeCap -> 0..MarksMax]
    BY EdgesStep DEF TypeOK
  <2> QED BY <1>1, <2>1
<1>3. \/ marks'[id] = marks[id]
      \/ /\ ApplyTurn /\ slots[head].type = "weight"
         /\ marks'[id] = Least(marks[id] + 1, MarksMax)
  BY EdgesStep
<1>4. \A a \in 0..MarksMax : Least(a + 1, MarksMax) >= a
  BY Numbers DEF Least
<1> QED BY <1>2, <1>3, <1>4, Numbers

(* The count of an edge stays below its marks.                             *)
LEMMA MarkedStep ==
  ASSUME TypeOK, RingShape, Waiting, Marked, [Next]_vars
  PROVE  Marked'
<1> SUFFICES ASSUME NEW id \in EdgeIds'
             PROVE  edges'[id].wrong <= marks'[id] \/ marks'[id] = MarksMax
  BY DEF Marked
<1>1. marks'[id] \in 0..MarksMax
  <2>1. id \in 1..EdgeCap /\ marks' \in [1..EdgeCap -> 0..MarksMax]
    BY EdgesGrow, EdgesStep
  <2> QED BY <2>1
<1>2. CASE id \in EdgeIds' \ EdgeIds
  BY <1>1, <1>2, EdgesGrow
<1>3. CASE id \in EdgeIds
  <2>1. edges[id].wrong \in 0..WrongMax /\ marks[id] \in 0..MarksMax
    BY <1>3, EdgeNumbers, MarksGrow
  <2>2. edges[id].wrong <= marks[id] \/ marks[id] = MarksMax
    BY <1>3 DEF Marked
  <2>3. \A w \in 0..WrongMax : \A k \in 0..MarksMax :
          w <= k \/ k = MarksMax =>
            \/ Least(w + 1, WrongMax) <= Least(k + 1, MarksMax)
            \/ Least(k + 1, MarksMax) = MarksMax
    BY Numbers DEF Least
  <2>4. \/ edges'[id].wrong = edges[id].wrong /\ marks'[id] = marks[id]
        \/ /\ edges'[id].wrong = Least(edges[id].wrong + 1, WrongMax)
           /\ marks'[id] = Least(marks[id] + 1, MarksMax)
        \/ edges'[id].wrong = 0
    BY <1>3, EdgesStep
  <2> QED BY <1>1, <2>1, <2>2, <2>3, <2>4
<1> QED BY <1>2, <1>3

(* A gate that waits stays justified by the mark in front of it.           *)
LEMMA GatesWaitStep ==
  ASSUME TypeOK, RingShape, Waiting, GateTurn, Marked, GatesWait, GateJustified, [Next]_vars
  PROVE  GatesWait'
<1> DEFINE Promised(m, k) == Justified(m.gate, Least(k + 1, MarksMax))
<1> SUFFICES ASSUME NEW i \in 1..count', Pending'[i].type = "gate"
             PROVE  /\ i = 1 => Justified(Pending'[i].gate, marks'[Pending'[i].edge])
                    /\ i > 1 => /\ Pending'[i - 1] = WeightDelta(Pending'[i].edge, TRUE)
                                /\ Promised(Pending'[i], marks'[Pending'[i].edge])
  BY DEF GatesWait, WeightDelta
<1>1. count \in Nat /\ count \in 0..RingCap
  BY DEF TypeOK
<1>2. ASSUME NEW j \in 1..count, Pending[j].type = "gate"
      PROVE  /\ Pending[j].edge \in EdgeIds /\ Pending[j].gate \in 0..GateOne
             /\ j = 1 => Justified(Pending[j].gate, marks[Pending[j].edge])
             /\ j > 1 => /\ Pending[j - 1] = WeightDelta(Pending[j].edge, TRUE)
                         /\ Promised(Pending[j], marks[Pending[j].edge])
  BY <1>2, WaitingGate DEF GatesWait
<1>3. ASSUME NEW id \in EdgeIds, NEW gate \in 0..GateOne
      PROVE  /\ Justified(gate, marks[id]) => Justified(gate, marks'[id])
             /\ Justified(gate, Least(marks[id] + 1, MarksMax))
                  => Justified(gate, Least(marks'[id] + 1, MarksMax))
  <2>1. marks[id] \in 0..MarksMax /\ marks'[id] \in 0..MarksMax /\ marks'[id] >= marks[id]
    BY MarksGrow
  <2>2. \A a, b \in 0..MarksMax :
          a <= b => /\ Least(a + 1, MarksMax) \in Nat /\ Least(b + 1, MarksMax) \in Nat
                    /\ Least(a + 1, MarksMax) <= Least(b + 1, MarksMax)
    BY Numbers DEF Least
  <2>3. marks[id] \in Nat /\ marks'[id] \in Nat /\ marks[id] <= marks'[id]
    BY <2>1
  <2>4. /\ Least(marks[id] + 1, MarksMax) \in Nat /\ Least(marks'[id] + 1, MarksMax) \in Nat
        /\ Least(marks[id] + 1, MarksMax) <= Least(marks'[id] + 1, MarksMax)
    BY <2>1, <2>2, <2>3
  <2> QED BY <2>3, <2>4, JustifiedMore
<1>4. CASE i \in 1..count /\ \A j \in 1..count : Pending'[j] = Pending[j]
  <2>1. Pending'[i] = Pending[i] /\ (i > 1 => Pending'[i - 1] = Pending[i - 1])
    BY <1>1, <1>4
  <2>2. Pending[i].type = "gate"
    BY <2>1
  <2> HIDE DEF Promised
  <2> QED BY <1>2, <1>3, <1>4, <2>1, <2>2 DEF Promised
<1>5. CASE /\ ApplyTurn /\ count > 0 /\ count' = count - 1
           /\ Pending[1] = slots[head]
           /\ \A j \in 1..(count - 1) : Pending'[j] = Pending[j + 1]
  <2> DEFINE id == Pending[i + 1].edge
             g == Pending[i + 1].gate
  <2>1. /\ i + 1 \in 1..count /\ Pending'[i] = Pending[i + 1]
        /\ i > 1 => Pending'[i - 1] = Pending[i]
    BY <1>1, <1>5
  <2>2. Pending[i + 1].type = "gate" /\ i + 1 > 1 /\ (i + 1) - 1 = i
    BY <2>1
  <2>3. /\ id \in EdgeIds /\ g \in 0..GateOne
        /\ Pending[i] = WeightDelta(id, TRUE)
        /\ Justified(g, Least(marks[id] + 1, MarksMax))
    BY <1>2, <2>1, <2>2
  <2>4. ASSUME i = 1
        PROVE  Justified(g, marks'[id])
    <3>1. slots[head] = WeightDelta(id, TRUE)
      BY <1>5, <2>3, <2>4
    <3>2. slots[head].type = "weight" /\ slots[head].edge = id /\ slots[head].wrong
      BY <3>1 DEF WeightDelta
    <3>3. marks'[id] = Least(marks[id] + 1, MarksMax)
      BY <1>5, <2>3, <3>2, ApplyWeight
    <3> QED BY <2>3, <3>3
  <2>5. Justified(g, Least(marks'[id] + 1, MarksMax))
    BY <1>3, <2>3
  <2> QED BY <2>1, <2>3, <2>4, <2>5
<1>6. CASE /\ count < RingCap /\ i = count + 1 /\ UNCHANGED <<edges, marks>>
           /\ \A j \in 1..count : Pending'[j] = Pending[j]
           /\ QueuedBy(Pending'[count + 1])
  <2> DEFINE id == traces[fb.age].edge
  <2>1. /\ CloseGate /\ id \in EdgeIds /\ Pending'[i] = GateClose(id)
    BY <1>6 DEF QueuedBy
  <2>2. /\ edges[id].wrong + 1 >= Threshold
        /\ count > 0 /\ Pending[count] = WeightDelta(id, TRUE)
    <3>1. mode = "gate" /\ count # RingCap
      BY <1>1, <1>6, <2>1, RingAssumption DEF CloseGate
    <3> QED BY <3>1 DEF GateTurn
  <2>3. Pending'[i].edge = id /\ Pending'[i].gate = ClosedGate(edges[id].gate)
    BY <2>1 DEF GateClose
  <2>4. Justified(ClosedGate(edges[id].gate), Least(marks[id] + 1, MarksMax))
    BY <2>1, <2>2, JustifiedAsked
  <2>5. i > 1 /\ Pending'[i - 1] = WeightDelta(id, TRUE)
    <3>1. i > 1 /\ i - 1 = count /\ count \in 1..count
      BY <1>1, <1>6, <2>2
    <3> QED BY <1>6, <2>2, <3>1
  <2>6. marks' = marks
    BY <1>6
  <2> HIDE DEF id
  <2> QED BY <2>3, <2>4, <2>5, <2>6
<1>7. \/ i \in 1..count /\ \A j \in 1..count : Pending'[j] = Pending[j]
      \/ /\ ApplyTurn /\ count > 0 /\ count' = count - 1
         /\ Pending[1] = slots[head]
         /\ \A j \in 1..(count - 1) : Pending'[j] = Pending[j + 1]
      \/ /\ count < RingCap /\ i = count + 1 /\ UNCHANGED <<edges, marks>>
         /\ \A j \in 1..count : Pending'[j] = Pending[j]
         /\ QueuedBy(Pending'[count + 1])
  BY <1>1, PendingStep
<1> QED BY <1>4, <1>5, <1>6, <1>7

(* A gate closes only as far as the marks justify.                         *)
LEMMA JustifiedGates ==
  ASSUME TypeOK, RingShape, Waiting, GatesWait, GateJustified, [Next]_vars
  PROVE  GateJustified'
<1> SUFFICES ASSUME NEW id \in EdgeIds'
             PROVE  Justified(edges'[id].gate, marks'[id])
  BY DEF GateJustified, Justified
<1>1. CASE id \in EdgeIds' \ EdgeIds
  BY <1>1, EdgesGrow, Numbers DEF Justified
<1>2. CASE id \in EdgeIds
  <2>1. marks[id] \in Nat /\ marks'[id] \in Nat /\ marks[id] <= marks'[id]
    BY <1>2, MarksGrow
  <2>2. \E gate \in 0..GateOne : edges'[id].gate = gate /\ Justified(gate, marks[id])
    <3>1. CASE edges'[id].gate = edges[id].gate
      BY <1>2, <3>1, EdgeNumbers DEF GateJustified, Justified
    <3>2. CASE /\ 1 \in 1..count /\ Pending[1].type = "gate" /\ Pending[1].edge = id
               /\ edges'[id].gate = Pending[1].gate
      BY <3>2, WaitingGate DEF GatesWait
    <3> QED BY <1>2, <3>1, <3>2, GateTaken
  <2> QED BY <2>1, <2>2, JustifiedMore
<1> QED BY <1>1, <1>2

(* What a list holds, and how many.                                        *)
LEMMA GivenSet ==
  ASSUME NEW S, IsFiniteSet(S), NEW s \in Seq(S), NEW id \in S
  PROVE  /\ IsFiniteSet({s[i] : i \in DOMAIN s})
         /\ {Append(s, id)[i] : i \in DOMAIN Append(s, id)} = {s[i] : i \in DOMAIN s} \cup {id}
<1>1. IsFiniteSet({s[i] : i \in DOMAIN s})
  <2>1. {s[i] : i \in DOMAIN s} \subseteq S
    OBVIOUS
  <2> QED BY <2>1, FS_Subset
<1>2. /\ Len(s) \in Nat /\ DOMAIN s = 1..Len(s)
      /\ DOMAIN Append(s, id) = 1..(Len(s) + 1)
      /\ \A i \in 1..Len(s) : Append(s, id)[i] = s[i]
      /\ Append(s, id)[Len(s) + 1] = id
  OBVIOUS
<1>3. {Append(s, id)[i] : i \in DOMAIN Append(s, id)} = {s[i] : i \in DOMAIN s} \cup {id}
  BY <1>2
<1> QED BY <1>1, <1>3

(* The array of seen edges never misses an edge that was given, as long as *)
(* it has room.                                                            *)
LEMMA SeenGivenStep ==
  ASSUME TypeOK, GateTurn, SeenGiven, [Next]_vars
  PROVE  SeenGiven'
<1>0. fb \in [wrong : BOOLEAN, age : 0..Len(traces), seen : SUBSET EdgeIds, given : Seq(EdgeIds)]
  BY DEF TypeOK
<1>1. ASSUME fb'.seen = {}, fb'.given = <<>>
      PROVE  SeenGiven'
  <2>1. Given' = {}
    BY <1>1 DEF Given
  <2>2. Cardinality({}) = 0 /\ Len(<<>>) = 0
    BY FS_EmptySet
  <2> QED BY <1>1, <2>1, <2>2 DEF SeenGiven
<1>2. ASSUME fb'.seen = fb.seen, fb'.given = fb.given
      PROVE  SeenGiven'
  <2>1. Given' = Given
    BY <1>2 DEF Given
  <2> QED BY <1>2, <2>1 DEF SeenGiven
<1>3. ASSUME NEW id \in EdgeIds, NEW n, id \notin fb.seen,
             fb' = [fb EXCEPT !.seen = IF Cardinality(fb.seen) < SeenCap
                                       THEN fb.seen \cup {id} ELSE fb.seen,
                              !.given = Append(fb.given, id), !.age = n]
      PROVE  SeenGiven'
  <2>1. /\ fb'.seen = IF Cardinality(fb.seen) < SeenCap THEN fb.seen \cup {id} ELSE fb.seen
        /\ fb'.given = Append(fb.given, id)
    BY <1>0, <1>3
  <2>2. fb.given \in Seq(EdgeIds)
    BY <1>0
  <2>3. IsFiniteSet(Given) /\ Given' = Given \cup {id}
    <3>1. /\ IsFiniteSet({fb.given[i] : i \in DOMAIN fb.given})
          /\ {Append(fb.given, id)[i] : i \in DOMAIN Append(fb.given, id)}
               = {fb.given[i] : i \in DOMAIN fb.given} \cup {id}
      <4>1. IsFiniteSet(EdgeIds)
        BY FS_Interval DEF EdgeIds, TypeOK
      <4>2. PICK s \in Seq(EdgeIds) : s = fb.given
        BY <2>2
      <4>3. IsFiniteSet({s[i] : i \in DOMAIN s})
        BY <1>3, <4>1, GivenSet
      <4>4. {Append(s, id)[i] : i \in DOMAIN Append(s, id)} = {s[i] : i \in DOMAIN s} \cup {id}
        BY <1>3, <4>1, GivenSet
      <4> QED BY <4>2, <4>3, <4>4, Zenon
    <3>2. Given' = {Append(fb.given, id)[i] : i \in DOMAIN Append(fb.given, id)}
      BY <2>1 DEF Given
    <3> QED BY <3>1, <3>2 DEF Given
  <2>4. Len(fb'.given) = Len(fb.given) + 1 /\ Len(fb.given) \in Nat
    BY <2>1, <2>2
  <2>5. /\ Cardinality(Given) \in Nat
        /\ Cardinality(Given') = IF id \in Given THEN Cardinality(Given) ELSE Cardinality(Given) + 1
    BY <2>3, FS_AddElement, FS_CardinalityType
  <2>6. SeenCap \in Nat
    BY Numbers
  <2>7. fb'.seen \subseteq Given'
    BY <2>1, <2>3 DEF SeenGiven
  <2>8. CASE Cardinality(Given) > SeenCap
    <3>1. Cardinality(Given') > SeenCap
      BY <2>5, <2>6, <2>8
    <3> QED BY <2>7, <3>1 DEF SeenGiven
  <2>9. CASE fb.seen = Given /\ Len(fb.given) = Cardinality(fb.seen)
    <3>1. Cardinality(Given') = Cardinality(Given) + 1
      BY <1>3, <2>5, <2>9
    <3>2. CASE Cardinality(fb.seen) < SeenCap
      <4>1. fb'.seen = Given'
        BY <2>1, <2>3, <2>9, <3>2
      <4>2. Len(fb'.given) = Cardinality(fb'.seen)
        BY <2>4, <2>5, <2>9, <3>1, <4>1
      <4> QED BY <2>7, <4>1, <4>2 DEF SeenGiven
    <3>3. CASE ~(Cardinality(fb.seen) < SeenCap)
      <4>1. Cardinality(Given') > SeenCap
        BY <2>5, <2>6, <2>9, <3>1, <3>3
      <4> QED BY <2>7, <4>1 DEF SeenGiven
    <3> QED BY <3>2, <3>3
  <2> QED BY <2>8, <2>9 DEF SeenGiven
<1>4. CASE UNCHANGED fb
  BY <1>2, <1>4
<1>5. CASE fb' = NoPass
  BY <1>1, <1>5 DEF NoPass
<1>6. CASE \E wrong \in BOOLEAN, n \in 0..Len(traces) :
             fb' = [wrong |-> wrong, age |-> n, seen |-> {}, given |-> <<>>]
  BY <1>1, <1>6
<1>7. CASE \E n \in 0..fb.age : fb' = [fb EXCEPT !.age = n]
  BY <1>0, <1>2, <1>7
<1> QED BY <1>3, <1>4, <1>5, <1>6, <1>7, PassStep

(* Every step of the ring is one of the queue that it implements.          *)
LEMMA FifoStep ==
  ASSUME TypeOK, RingShape, Waiting, GateTurn, [Next]_vars
  PROVE  [Fifo!Next]_Pending
<1>1. /\ Pending = [i \in 1..count |-> Pending[i]]
      /\ Pending' = [i \in 1..count' |-> Pending'[i]]
      /\ DOMAIN Pending = 1..count /\ DOMAIN Pending' = 1..count'
  BY DEF Pending
<1>2. count \in Nat
  BY DEF TypeOK
<1>3. CASE count' = count /\ \A i \in 1..count : Pending'[i] = Pending[i]
  <2>1. Pending' = Pending
    BY <1>1, <1>3
  <2> QED BY <2>1
<1>4. CASE /\ count > 0 /\ count' = count - 1
           /\ \A i \in 1..(count - 1) : Pending'[i] = Pending[i + 1]
  <2>1. Pending \in Seq(Mutation) /\ Len(Pending) = count
    <3>1. Pending \in [1..count -> Mutation]
      BY <1>1 DEF Waiting
    <3> QED BY <1>2, <3>1
  <2>2. Pending # <<>>
    BY <1>4, <2>1
  <2>3. /\ Tail(Pending) \in Seq(Mutation) /\ Len(Tail(Pending)) = count - 1
        /\ \A i \in 1..(count - 1) : Tail(Pending)[i] = Pending[i + 1]
    BY <2>1, <2>2
  <2>4. Pending' = Tail(Pending)
    <3>1. Tail(Pending) = [i \in 1..(count - 1) |-> Tail(Pending)[i]]
      <4>1. \A s \in Seq(Mutation) : s = [i \in 1..Len(s) |-> s[i]]
        OBVIOUS
      <4>2. PICK t \in Seq(Mutation) : t = Tail(Pending)
        BY <2>3
      <4>3. t = [i \in 1..Len(t) |-> t[i]]
        BY <4>1
      <4> QED BY <2>3, <4>2, <4>3
    <3> QED BY <1>1, <1>4, <2>3, <3>1
  <2> QED BY <2>2, <2>4 DEF Fifo!Next, Fifo!Apply
<1>5. CASE /\ count < RingCap /\ count' = count + 1
           /\ \A i \in 1..count : Pending'[i] = Pending[i]
  <2>1. Len(Pending) = count /\ Len(Pending') = count + 1
    BY <1>1, <1>2, <1>5
  <2> QED BY <1>5, <2>1 DEF Fifo!Next, Fifo!Queue
<1> QED BY <1>3, <1>4, <1>5, PendingStep

-----------------------------------------------------------------------------
(* The inductive invariant: the ring and what waits in it, the lists, the  *)
(* gates, and the feedback pass.                                           *)
LearningInv ==
  /\ TypeOK /\ RingShape /\ Waiting /\ GateTurn
  /\ Clean /\ Lists
  /\ GatesAgree /\ Marked /\ GatesWait /\ GateJustified
  /\ SeenGiven

(* It holds at the start.                                                  *)
LEMMA LearningInit == Init => LearningInv
<1> SUFFICES ASSUME Init
             PROVE  LearningInv
  OBVIOUS
<1>1. /\ slots = [i \in 0..(RingCap - 1) |-> Nothing] /\ head = 0 /\ tail = 0 /\ count = 0
      /\ nodes = {} /\ edges = <<>> /\ valid = FALSE /\ dirty = FALSE
      /\ out = [n \in Nodes |-> {}] /\ blockersIn = [n \in Nodes |-> {}]
      /\ traces = <<>> /\ mode = "idle" /\ asked = 0
      /\ marks = [id \in 1..EdgeCap |-> 0]
      /\ fb = [wrong |-> FALSE, age |-> 0, seen |-> {}, given |-> <<>>]
  BY DEF Init, RingInit, NoPass
<1>2. TypeOK
  <2>1. slots \in [0..(RingCap - 1) -> Mutation]
    BY <1>1 DEF Mutation
  <2>2. head \in 0..(RingCap - 1) /\ tail \in 0..(RingCap - 1) /\ count \in 0..RingCap
    BY <1>1, RingAssumption
  <2>3. edges \in Seq(Edge) /\ Len(edges) <= EdgeCap
    BY <1>1, Numbers
  <2>4. traces \in Seq([edge : EdgeIds, left : 0..(Window + 2)]) /\ Len(traces) <= TraceCap
    BY <1>1, Numbers
  <2>5. fb \in [wrong : BOOLEAN, age : 0..Len(traces), seen : SUBSET EdgeIds, given : Seq(EdgeIds)]
    BY <1>1
  <2>6. asked \in 0..MaxQueued /\ marks \in [1..EdgeCap -> 0..MarksMax]
    BY <1>1, Numbers
  <2> QED BY <1>1, <2>1, <2>2, <2>3, <2>4, <2>5, <2>6 DEF TypeOK
<1>3. RingShape
  BY <1>1, RingAssumption DEF RingShape
<1>4. Waiting /\ GatesAgree /\ GatesWait
  BY <1>1 DEF Waiting, GatesAgree, GatesWait
<1>5. GateTurn /\ Clean /\ Lists
  BY <1>1 DEF GateTurn, Clean, Lists
<1>6. EdgeIds = {}
  BY <1>1 DEF EdgeIds
<1>7. Marked /\ GateJustified
  BY <1>6 DEF Marked, GateJustified
<1>8. SeenGiven
  <2>1. Given = {}
    BY <1>1 DEF Given
  <2>2. Cardinality({}) = 0 /\ Len(<<>>) = 0
    BY FS_EmptySet
  <2> QED BY <1>1, <2>1, <2>2 DEF SeenGiven
<1> QED BY <1>2, <1>3, <1>4, <1>5, <1>7, <1>8 DEF LearningInv

(* And every step keeps it.                                                *)
LEMMA LearningNext == LearningInv /\ [Next]_vars => LearningInv'
<1> SUFFICES ASSUME LearningInv, [Next]_vars
             PROVE  LearningInv'
  OBVIOUS
<1> USE DEF LearningInv
<1>1. TypeOK' /\ RingShape' /\ Waiting' /\ GateTurn'
  BY TypeStep, PendingStep, WaitingStep, GateTurnStep
<1>2. Clean' /\ Lists'
  BY CleanStep, ListsStep
<1>3. GatesAgree' /\ Marked' /\ GatesWait' /\ GateJustified'
  BY GatesAgreeStep, MarkedStep, GatesWaitStep, JustifiedGates
<1> QED BY <1>1, <1>2, <1>3, SeenGivenStep

(* So it holds in every state.                                             *)
THEOREM LearningInvariant == Spec => []LearningInv
  BY LearningInit, LearningNext, PTL DEF Spec

(* Every variable keeps the type that the code gives it, whatever the      *)
(* script, the ticks, feedback and batches do.                             *)
THEOREM LearningTyped == Spec => []TypeOK
<1>1. LearningInv => TypeOK
  BY DEF LearningInv
<1> QED BY <1>1, LearningInvariant, PTL

(* Mutations are applied in the order in which they were queued, and none  *)
(* that was accepted is lost: the ring implements the queue.               *)
THEOREM RingIsFifo == Spec => ImplementsFifo
<1>1. Init => Fifo!Init
  <2> SUFFICES ASSUME Init
               PROVE  Pending = <<>>
    BY DEF Fifo!Init
  <2>1. count = 0
    BY DEF Init, RingInit
  <2> QED BY <2>1 DEF Pending
<1>2. LearningInv /\ [Next]_vars => [Fifo!Next]_Pending
  BY FifoStep DEF LearningInv
<1> QED BY <1>1, <1>2, LearningInvariant, PTL DEF Spec, ImplementsFifo, Fifo!Spec

(* A gate never opens again.                                               *)
THEOREM GatesNeverOpen == Spec => GatesOnlyClose
<1>1. LearningInv /\ [Next]_vars =>
        [\A id \in EdgeIds : edges'[id].gate <= edges[id].gate]_edges
  <2> SUFFICES ASSUME LearningInv, [Next]_vars, NEW id \in EdgeIds
               PROVE  edges'[id].gate <= edges[id].gate
    OBVIOUS
  <2> USE DEF LearningInv
  <2>1. edges[id].gate \in 0..GateOne
    BY EdgeNumbers
  <2>2. CASE edges'[id].gate = edges[id].gate
    BY <2>1, <2>2
  <2>3. CASE /\ 1 \in 1..count /\ Pending[1].type = "gate" /\ Pending[1].edge = id
             /\ edges'[id].gate = Pending[1].gate
    BY <2>3 DEF GatesAgree
  <2> QED BY <2>2, <2>3, GateTaken
<1> QED BY <1>1, LearningInvariant, PTL DEF Spec, GatesOnlyClose

(* No gate is closed further than the wrong marks on its edge justify.     *)
THEOREM NoGateUnjustified == Spec => []GateJustified
<1>1. LearningInv => GateJustified
  BY DEF LearningInv
<1> QED BY <1>1, LearningInvariant, PTL

(* A feedback pass gives an edge one delta, as long as the array of seen   *)
(* edges has room for all the edges of the pass.                           *)
THEOREM OneDeltaPerPass == Spec => []OncePerPass
<1>1. LearningInv => OncePerPass
  <2> SUFFICES ASSUME LearningInv, Cardinality(Given) <= SeenCap
               PROVE  Len(fb.given) = Cardinality(Given)
    BY DEF OncePerPass, Given
  <2>1. IsFiniteSet(Given)
    <3>1. fb.given \in Seq(EdgeIds)
      BY DEF TypeOK, LearningInv
    <3>2. Given \subseteq EdgeIds
      BY <3>1 DEF Given
    <3>3. IsFiniteSet(EdgeIds)
      BY FS_Interval DEF EdgeIds, TypeOK, LearningInv
    <3> QED BY <3>2, <3>3, FS_Subset
  <2>2. Cardinality(Given) \in Nat
    BY <2>1, FS_CardinalityType
  <2>3. ~(Cardinality(Given) > SeenCap)
    BY <2>2, Numbers
  <2> QED BY <2>3 DEF LearningInv, SeenGiven
<1> QED BY <1>1, LearningInvariant, PTL

(* Whenever the engine believes its adjacency lists, they are those of the *)
(* graph.                                                                  *)
THEOREM ListsAreExact == Spec => []AdjacencyExact
<1>1. LearningInv => AdjacencyExact
  BY DEF LearningInv, Clean, Lists, AdjacencyExact
<1> QED BY <1>1, LearningInvariant, PTL
=============================================================================
