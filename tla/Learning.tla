------------------------------- MODULE Learning -------------------------------
(***************************************************************************)
(* How the engine changes its graph: feedback, predictions, schemas and    *)
(* the script queue mutations of the edges, and nerva_apply_mutations      *)
(* applies them later, in a batch (src/src/nerva_learning.c,               *)
(* nerva_mutation.c, nerva_graph.c, and the trace they read).              *)
(*                                                                         *)
(* The feedback pass and the batch are loops; each turn is a step, and     *)
(* "mode" says which loop runs.  Edges are numbered from 1.  Weights and   *)
(* gates are small integers with the code's bounds and steps.              *)
(***************************************************************************)
EXTENDS MutationRing, FiniteSets

CONSTANTS
  Nodes,        (* the names the script uses                               *)
  EdgeKeys,     (* [source, target, relation] of the edges it may ask for  *)
  EdgeCap,      (* edge_cap                                                *)
  TraceCap, ScanLimit, SeenCap,  (* trace_cap, trace_decay_scan_limit and  *)
                (* the size of the feedback pass's array of seen edges     *)
  Window,       (* trace_window_ticks                                      *)
  Ltp, Ltd, W0, WMin, WMax,     (* ltp_delta, ltd_delta, default_weight    *)
                (* and the bounds on a weight                              *)
  GateOne, GateStep, Threshold, (* NERVA_UQ0_16_ONE, gate_close_step and   *)
                (* feedback_wrong_gate_threshold                           *)
  WrongMax,     (* UINT16_MAX, the bound on wrong_feedback_count           *)
  MaxQueued     (* bound of the model: attempts to queue a mutation        *)

ASSUME KeyAssumption == \A key \in EdgeKeys : {key.source, key.target} \subseteq Nodes
ASSUME SizeAssumption == {EdgeCap, TraceCap, ScanLimit, SeenCap, Window,
                          MaxQueued, WrongMax} \subseteq Nat
ASSUME WeightAssumption == /\ {Ltp, Ltd, W0, WMin, WMax} \subseteq Int
                           /\ WMin <= W0 /\ W0 <= WMax
ASSUME GateAssumption == /\ GateOne \in Nat /\ GateStep \in Nat \ {0}
                         /\ Threshold \in Nat \ {0}

VARIABLES
  nodes,      (* the nodes that exist                                      *)
  edges,      (* the edges, in the order of their ids                      *)
  valid,      (* adjacency_valid                                           *)
  out,        (* the out-lists as last rebuilt: node -> ids                *)
  blockersIn, (* the lists of incoming blockers as last rebuilt            *)
  traces,     (* the trace ring, newest first: an edge, and "left", the    *)
              (* ticks until the record is decayed; zero also once it      *)
              (* belongs to another query than active_query_tag            *)
  mode,       (* "idle", or the loop that runs: "tick", "apply",           *)
              (* "feedback", or "gate" within a turn of the feedback loop  *)
  dirty,      (* adjacency_dirty of the running batch                      *)
  fb,         (* the running feedback pass: wrong, age, seen, and given:   *)
              (* history of the edges it has given a delta, with repeats   *)
  asked,      (* how often a mutation was queued or dropped                *)
  marks       (* history: how many wrong or missed marks an edge got       *)

graphVars == <<nodes, edges, valid, out, blockersIn>>
vars == <<ringVars, graphVars, traces, mode, dirty, fb, asked, marks>>
-----------------------------------------------------------------------------
EdgeIds == 1..Len(edges)
NoPass == [wrong |-> FALSE, age |-> 0, seen |-> {}, given |-> <<>>]

(* More marks than these justify any gate.                                 *)
MarksMax == Threshold + (GateOne \div GateStep)

Least(a, b) == IF a < b THEN a ELSE b

Init == /\ RingInit
        /\ nodes = {} /\ edges = <<>>
        /\ valid = FALSE
        /\ out = [n \in Nodes |-> {}] /\ blockersIn = [n \in Nodes |-> {}]
        /\ traces = <<>>
        /\ mode = "idle" /\ dirty = FALSE
        /\ fb = NoPass
        /\ asked = 0
        /\ marks = [id \in 1..EdgeCap |-> 0]
-----------------------------------------------------------------------------
(* The graph.                                                              *)
Same(es, key) == {id \in 1..Len(es) : es[id].key = key}

NewEdge(key) ==
  [key |-> key, blocker |-> FALSE, weight |-> W0, gate |-> GateOne, wrong |-> 0]

(* nerva_graph_create_edge refuses every edge at the cap, an existing one  *)
(* too.                                                                    *)
EdgeRefused(key) ==
  {key.source, key.target} \subseteq nodes => Len(edges) >= EdgeCap

WithEdge(key) == IF Same(edges, key) = {} THEN Append(edges, NewEdge(key)) ELSE edges

(* nerva_graph_create_blocker_edge turns an edge that exists into a        *)
(* blocker.                                                                *)
WithBlocker(key) ==
  LET es == WithEdge(key)
      id == CHOOSE i \in Same(es, key) : TRUE
  IN  [es EXCEPT ![id].blocker = TRUE, ![id].weight = W0]

OutOf(n) == {id \in EdgeIds : edges[id].key.source = n}
BlockersOf(n) == {id \in EdgeIds : edges[id].blocker /\ edges[id].key.target = n}

(* nerva_graph_rebuild_adjacency                                           *)
Rebuild == /\ out' = [n \in Nodes |-> OutOf(n)]
           /\ blockersIn' = [n \in Nodes |-> BlockersOf(n)]
           /\ valid' = TRUE

(* nerva_parse_ensure_adjacency                                            *)
Ensure == IF ~valid /\ edges # <<>> THEN Rebuild ELSE UNCHANGED <<valid, out, blockersIn>>

(* The script's EDGE command: nodes that are new, then the edge.           *)
AddEdge(key) ==
  /\ mode = "idle"
  /\ nodes' = nodes \cup {key.source, key.target}
  /\ edges' = IF Len(edges) >= EdgeCap THEN edges ELSE WithEdge(key)
  /\ valid' = (valid /\ nodes' = nodes /\ edges' = edges)
  /\ UNCHANGED <<ringVars, out, blockersIn, traces, mode, dirty, fb, asked, marks>>
-----------------------------------------------------------------------------
(* Queueing.                                                               *)
(* The four reasons are two: "wrong" stands for a missed prediction too,   *)
(* and its opposite for "correct" and "confirmed".                         *)
WeightDelta(id, wrong) ==
  [type |-> "weight", edge |-> id, delta |-> IF wrong THEN Ltd ELSE Ltp, wrong |-> wrong]

(* The gate wraps around below zero (mutant).                              *)
ClosedGateWrapped(gate) == (gate - GateStep) % (GateOne + 1)

ClosedGate(gate) == IF gate > GateStep THEN gate - GateStep ELSE 0

GateClose(id) == [type |-> "gate", edge |-> id, gate |-> ClosedGate(edges[id].gate)]

(* nerva_mutation_queue_push: a full ring drops the new mutation.          *)
Push(m) ==
  /\ asked < MaxQueued
  /\ asked' = asked + 1
  /\ IF RingFull THEN UNCHANGED ringVars ELSE RingPush(m)

(* nerva_queue_create_edge, for schemas and co-firing nodes, and the       *)
(* script's BLOCK command; both need the nodes to exist.                   *)
QueueEdge(key, type) ==
  /\ mode = "idle"
  /\ {key.source, key.target} \subseteq nodes
  /\ type = "blocker" => key.relation = "blocks"
  /\ Push([type |-> type, key |-> key])
  /\ UNCHANGED <<graphVars, traces, mode, dirty, fb, marks>>

(* Activating a node gives the query a tag of its own, the tick and the    *)
(* node: no record made before bears it.                                   *)
NewQuery ==
  /\ mode = "idle"
  /\ Ensure
  /\ traces' = [i \in DOMAIN traces |-> [traces[i] EXCEPT !.left = 0]]
  /\ UNCHANGED <<ringVars, nodes, edges, mode, dirty, fb, asked, marks>>

BeginTick ==
  /\ mode = "idle"
  /\ Ensure
  /\ mode' = "tick"
  /\ UNCHANGED <<ringVars, nodes, edges, traces, dirty, fb, asked, marks>>

(* nerva_trace_record, over the oldest record when the ring is full.       *)
Record(id, left) ==
  traces' = SubSeq(<<[edge |-> id, left |-> left]>> \o traces,
                   1, Least(Len(traces) + 1, TraceCap))

(* An edge's event is delivered, or its delivery is expected; an expected  *)
(* one is on record, but feedback never counts it.                         *)
Deliver(id) ==
  /\ mode = "tick"
  /\ Record(id, Window + 2)
  /\ UNCHANGED <<ringVars, graphVars, mode, dirty, fb, asked, marks>>

Expect(id) ==
  /\ mode = "tick"
  /\ Record(id, 0)
  /\ UNCHANGED <<ringVars, graphVars, mode, dirty, fb, asked, marks>>

(* An expectation of the edge is confirmed or missed.                      *)
Predict(id, wrong) ==
  /\ mode = "tick"
  /\ Push(WeightDelta(id, wrong))
  /\ UNCHANGED <<graphVars, traces, mode, dirty, fb, marks>>

(* nerva_trace_decay, and nerva_consolidate_idle when the engine is idle.  *)
EndTick ==
  /\ mode = "tick"
  /\ traces' = [i \in DOMAIN traces |->
                  [traces[i] EXCEPT !.left = IF @ > 0 THEN @ - 1 ELSE 0]]
  /\ mode' \in {"idle", "apply"}
  /\ UNCHANGED <<ringVars, graphVars, dirty, fb, asked, marks>>
-----------------------------------------------------------------------------
(* Feedback: nerva_feedback_process, from the oldest trace to the newest.  *)
Feedback(wrong) ==
  /\ mode = "idle"
  /\ mode' = "feedback"
  /\ fb' = [NoPass EXCEPT !.wrong = wrong, !.age = Least(Len(traces), ScanLimit)]
  /\ UNCHANGED <<ringVars, graphVars, traces, dirty, asked, marks>>

(* Every trace is credited, also of an edge seen before (mutant).          *)
CreditedAgain(t) == t.left > 0

Credited(t) == t.left > 0 /\ t.edge \notin fb.seen

(* The count that decides is off by one (mutant).                          *)
ClosesEarly(id) == fb.wrong /\ edges[id].wrong + 2 >= Threshold

(* Whether this mark would reach the threshold, by the count as applied.   *)
Closes(id) == fb.wrong /\ edges[id].wrong + 1 >= Threshold

FeedbackTurn ==
  /\ mode = "feedback"
  /\ fb.age > 0
  /\ LET id == traces[fb.age].edge IN
     IF Credited(traces[fb.age])
     THEN /\ Push(WeightDelta(id, fb.wrong))
          /\ LET seen == IF Cardinality(fb.seen) < SeenCap THEN fb.seen \cup {id} ELSE fb.seen
                 given == Append(fb.given, id)
             IN  IF Closes(id)
                 THEN mode' = "gate" /\ fb' = [fb EXCEPT !.seen = seen, !.given = given]
                 ELSE /\ fb' = [fb EXCEPT !.seen = seen, !.given = given, !.age = @ - 1]
                      /\ UNCHANGED mode
     ELSE fb' = [fb EXCEPT !.age = @ - 1] /\ UNCHANGED <<ringVars, asked, mode>>
  /\ UNCHANGED <<graphVars, traces, dirty, marks>>

(* nerva_queue_gate_close, behind the weight delta of the same turn.       *)
CloseGate ==
  /\ mode = "gate"
  /\ Push(GateClose(traces[fb.age].edge))
  /\ mode' = "feedback"
  /\ fb' = [fb EXCEPT !.age = @ - 1]
  /\ UNCHANGED <<graphVars, traces, dirty, marks>>

FeedbackEnds ==
  /\ mode = "feedback"
  /\ fb.age = 0
  /\ mode' = "idle"
  /\ fb' = NoPass
  /\ UNCHANGED <<ringVars, graphVars, traces, dirty, asked, marks>>
-----------------------------------------------------------------------------
(* nerva_apply_mutations                                                   *)
ApplyMutations ==
  /\ mode = "idle"
  /\ mode' = "apply"
  /\ UNCHANGED <<ringVars, graphVars, traces, dirty, fb, asked, marks>>

(* A weight that may leave its bounds (mutant).                            *)
Unclamped(w) == w

Clamped(w) == IF w > WMax THEN WMax ELSE IF w < WMin THEN WMin ELSE w

ModifyWeight(m) ==
  /\ edges' = [edges EXCEPT ![m.edge].weight = Clamped(@ + m.delta),
                            ![m.edge].wrong = IF m.wrong THEN Least(@ + 1, WrongMax) ELSE 0]
  /\ marks' = IF m.wrong THEN [marks EXCEPT ![m.edge] = Least(@ + 1, MarksMax)] ELSE marks
  /\ UNCHANGED <<valid, dirty>>

ModifyGate(m) ==
  /\ edges' = [edges EXCEPT ![m.edge].gate = m.gate]
  /\ UNCHANGED <<valid, dirty, marks>>

(* The batch forgets that the lists are out of date (mutant).              *)
CreateCleanly(m) ==
  /\ edges' = IF m.type = "edge" THEN WithEdge(m.key) ELSE WithBlocker(m.key)
  /\ valid' = (valid /\ Len(edges') = Len(edges))
  /\ UNCHANGED <<dirty, marks>>

Create(m) ==
  /\ edges' = IF m.type = "edge" THEN WithEdge(m.key) ELSE WithBlocker(m.key)
  /\ valid' = (valid /\ Len(edges') = Len(edges))
  /\ dirty' = TRUE
  /\ UNCHANGED marks

Refused(m) == m.type \in {"edge", "blocker"} /\ EdgeRefused(m.key)

ApplyTurn ==
  /\ mode = "apply"
  /\ count > 0
  /\ LET m == slots[head] IN
       CASE m.type = "weight" -> ModifyWeight(m)
         [] m.type = "gate"   -> ModifyGate(m)
         [] OTHER -> IF Refused(m) THEN UNCHANGED <<edges, valid, dirty, marks>>
                                   ELSE Create(m)
  /\ RingTake
  /\ UNCHANGED <<nodes, out, blockersIn, traces, mode, fb, asked>>

ApplyEnds ==
  /\ mode = "apply"
  /\ count = 0
  /\ IF dirty THEN Rebuild ELSE UNCHANGED <<valid, out, blockersIn>>
  /\ dirty' = FALSE
  /\ mode' = "idle"
  /\ UNCHANGED <<ringVars, nodes, edges, traces, fb, asked, marks>>

Next ==
  \/ \E key \in EdgeKeys : AddEdge(key)
  \/ \E key \in EdgeKeys, type \in {"edge", "blocker"} : QueueEdge(key, type)
  \/ NewQuery
  \/ BeginTick
  \/ \E id \in EdgeIds : Deliver(id) \/ Expect(id)
  \/ \E id \in EdgeIds, wrong \in BOOLEAN : Predict(id, wrong)
  \/ EndTick
  \/ \E wrong \in BOOLEAN : Feedback(wrong)
  \/ FeedbackTurn \/ CloseGate \/ FeedbackEnds
  \/ ApplyMutations \/ ApplyTurn \/ ApplyEnds

Spec == Init /\ [][Next]_vars
-----------------------------------------------------------------------------
Mutation ==
  {Nothing}
    \cup [type : {"weight"}, edge : 1..EdgeCap, delta : {Ltp, Ltd},
          wrong : BOOLEAN]
    \cup [type : {"gate"}, edge : 1..EdgeCap, gate : 0..GateOne]
    \cup [type : {"edge", "blocker"}, key : EdgeKeys]

Edge == [key : EdgeKeys, blocker : BOOLEAN, weight : WMin..WMax,
         gate : 0..GateOne, wrong : 0..WrongMax]

TypeOK ==
  /\ slots \in [0..(RingCap - 1) -> Mutation]
  /\ head \in 0..(RingCap - 1) /\ tail \in 0..(RingCap - 1) /\ count \in 0..RingCap
  /\ nodes \subseteq Nodes
  /\ edges \in Seq(Edge) /\ Len(edges) <= EdgeCap
  /\ valid \in BOOLEAN /\ dirty \in BOOLEAN
  /\ out \in [Nodes -> SUBSET (1..EdgeCap)]
  /\ blockersIn \in [Nodes -> SUBSET (1..EdgeCap)]
  /\ traces \in Seq([edge : EdgeIds, left : 0..(Window + 2)]) /\ Len(traces) <= TraceCap
  /\ mode \in {"idle", "tick", "apply", "feedback", "gate"}
  /\ fb \in [wrong : BOOLEAN, age : 0..Len(traces), seen : SUBSET EdgeIds,
             given : Seq(EdgeIds)]
  /\ asked \in 0..MaxQueued
  /\ marks \in [1..EdgeCap -> 0..MarksMax]

(* The ring's array and its three counters are a first-in first-out queue  *)
(* of at most mutation_cap mutations, across every wrap-around: none is    *)
(* lost, repeated or overtaken once it has been accepted.                  *)
ImplementsFifo == Fifo!Spec

(* A gate never opens again, though a closing gate is queued as the value  *)
(* it will have, computed long before it is applied.                       *)
GatesOnlyClose ==
  [][\A id \in EdgeIds : edges'[id].gate <= edges[id].gate]_edges

(* A gate has closed by one step for each wrong or missed mark from the    *)
(* threshold on, at most: mutations reach an edge in the order that the    *)
(* feedback pass put them into the ring, whatever overflow drops.          *)
GateJustified ==
  \A id \in EdgeIds :
    edges[id].gate < GateOne =>
      GateOne - edges[id].gate <= GateStep * (marks[id] + 1 - Threshold)

(* A feedback pass gives each edge one delta, however many traces the edge *)
(* has left, as long as its array of seen edges has room for them all.     *)
OncePerPass ==
  LET edgesGiven == {fb.given[i] : i \in DOMAIN fb.given}
  IN  Cardinality(edgesGiven) <= SeenCap => Len(fb.given) = Cardinality(edgesGiven)

(* Whenever the engine believes its adjacency lists, they list every edge  *)
(* of a node and every blocker into it, those from a batch included.       *)
AdjacencyExact ==
  valid /\ mode # "apply" =>
    \A n \in Nodes : out[n] = OutOf(n) /\ blockersIn[n] = BlockersOf(n)
=============================================================================
