-------------------------------- MODULE Engine --------------------------------
(***************************************************************************)
(* The engine driven by a script: activations and queries, ticks in which  *)
(* nodes fire along edges, blockers that suppress what their target        *)
(* receives, expectations that take the place of sending in prediction     *)
(* mode, and the router's decision once a query has come to rest           *)
(* (src/src/nerva_engine.c, nerva_event.c, nerva_exception.c,              *)
(* nerva_prediction.c, nerva_routing.c).                                   *)
(*                                                                         *)
(* The pending events are those of EventBag.  A tick is a sequence of      *)
(* steps: one for each event delivered and each edge sent along, and one   *)
(* for all that happens after its loop.  The graph does not grow here,     *)
(* feedback is Learning's, and memory blocks are Memory's; but the weight  *)
(* deltas that expectations queue are applied by an idle engine.           *)
(***************************************************************************)
EXTENDS Integers, FiniteSets, FiniteSetsExt, Sequences

CONSTANTS
  Nodes,
  Graphs,       (* sets of edges a run may have: [id, source, target,      *)
                (* relation, blocker, ctrl, gate], ctrl = None if no node  *)
  None,         (* no node, no tag                                         *)
  Cap, ActiveCap, TraceCap, ScanLimit, ExpectCap,   (* sizes of arrays     *)
  SigMax, One, GateOne,     (* INT16_MAX, NERVA_Q8_8_ONE, UINT16_MAX       *)
  Leak, Refractory,         (* 2^leak_shift, refractory_ticks              *)
  Suppress,                 (* suppress_q0_16                              *)
  W0, WMin, WMax, Ltp, Ltd, (* weights and the deltas of expectations      *)
  MinStability, StabMax, PreCharge, Window,         (* of predictions      *)
  Stabilities,              (* how often edges were used before            *)
  Base, Fatigue, FatigueDecay,  (* fluid_threshold_base, fatigue_increment *)
                            (* and 2^fatigue_decay_shift                   *)
  Novelty, Contradiction, Unresolved, Confidence,   (* weights of          *)
                            (* difficulty                                  *)
  FluidMax, Compete, Inhibition,  (* of the fluid workspace                *)
  IdleTicks,                (* idle_consolidate_ticks                      *)
  Queries, TickCounts,      (* the arguments of QUERY and TICK             *)
  MaxTick, MaxCalls         (* bounds of the model                         *)

ASSUME EngineSizes ==
  /\ {Cap, ActiveCap, TraceCap, ScanLimit, ExpectCap, Leak, FatigueDecay,
      FluidMax, Refractory} \subseteq Nat \ {0}
  /\ {SigMax, MinStability, StabMax, Window, IdleTicks, MaxTick, MaxCalls}
        \cup TickCounts \subseteq Nat
  /\ Stabilities \subseteq 0..StabMax
ASSUME EngineGraphs ==
  /\ None \notin Nodes \cup (Nat \X Nodes)
  /\ \A g \in Graphs : \A e \in g :
       /\ e.id \in Nat /\ e.source \in Nodes /\ e.target \in Nodes
       /\ e.ctrl \in Nodes \cup {None} /\ e.blocker \in BOOLEAN /\ e.gate \in 0..GateOne
ASSUME EngineQueries == \A q \in Queries : q.source \in Nodes
(* The widths of the code's fixed-point numbers.                           *)
ASSUME EngineUnits ==
  /\ One = 256 /\ GateOne = 65535 /\ One <= SigMax
  /\ {Suppress, Inhibition} \subseteq Nat /\ Suppress <= GateOne /\ Inhibition <= GateOne
  /\ {PreCharge, Compete} \subseteq Int
(* Every suppression takes at least half of a charge.                      *)
ASSUME EngineSuppression == Suppress >= 32767
ASSUME EngineWeights ==
  /\ {WMin, W0, WMax, Ltp, Ltd} \subseteq Int
  /\ WMin <= W0 /\ W0 <= WMax /\ -SigMax <= WMin /\ WMax <= SigMax
(* One fluid query tires the router by no less than what does not decay.   *)
ASSUME EngineFatigue ==
  /\ {Base, Fatigue, Novelty, Contradiction, Unresolved, Confidence} \subseteq Nat
  /\ Fatigue >= FatigueDecay - 1 /\ Base + FatigueDecay - 1 <= SigMax

VARIABLES
  tick, phase, queue,   (* as in EventBag                                  *)
  graph, weight, stability,
  charge,     (* v of each node                                            *)
  lastFired,  (* last_fired_tick; -Refractory while activation_count = 0   *)
  active,     (* active_nodes                                              *)
  sending,    (* the edges along which the node that fired has yet to send *)
  predicting, (* prediction_mode                                           *)
  tag, start, (* active_query_tag, last_query_start_tick                   *)
  expected,   (* expectations; "fate" is "pending" while the flag is set,  *)
              (* and then how it was resolved                              *)
  traces,     (* the trace ring, newest first                              *)
  deltas,     (* the weight deltas that wait to be applied                 *)
  applying,   (* whether nerva_apply_mutations is running                  *)
  router,     (* the query and the threshold; its difficulty is recomputed *)
              (* whenever it is used                                       *)
  idle,       (* idle_ticks                                                *)
  left,       (* the ticks that the running TICK command has left          *)
  calls,      (* how many commands there have been                         *)
  opened,     (* history: how the last activation found the engine, and    *)
              (* whether nothing but its signals came since                *)
  muffled     (* history: the tags under which a signal was suppressed     *)
              (* since the router's query was opened                       *)

bagVars == <<tick, phase, queue>>
nodeVars == <<charge, lastFired, active>>
queryVars == <<predicting, tag, start>>
predictVars == <<expected, traces, deltas, applying>>
callVars == <<left, calls>>
history == <<opened, muffled>>
vars == <<bagVars, graph, weight, stability, nodeVars, sending, queryVars,
          predictVars, router, idle, callVars, history>>
-----------------------------------------------------------------------------
Bag == INSTANCE EventBag WITH
         Keys <- UNION Graphs, Activations <- [source : {None}, target : Nodes],
         Signals <- {One}, Delays <- {1}, StaleTicks <- 10, MergeWindow <- 0

(* Which free name a new event takes means nothing: it takes the first.    *)
FirstFree == \A ev \in queue' : \/ ev.id \in Bag!UsedIds(queue)
                                \/ 1..(ev.id - 1) \subseteq Bag!UsedIds(queue)

IsEdge(ev) == ev.key \in graph
OutOf(n) == {e \in graph : e.source = n}
BlockersOf(n) == {e \in graph : e.blocker /\ e.target = n}

NoRouter == [on |-> FALSE, decided |-> FALSE, fluid |-> FALSE, crystallized |-> FALSE,
             novelty |-> 0, contradiction |-> 0, unresolved |-> 0, confidence |-> 0,
             threshold |-> Base]

Init == /\ tick = 0 /\ phase = "between" /\ queue = {}
        /\ graph \in Graphs
        /\ weight = [e \in graph |-> W0]
        /\ \E s \in Stabilities : stability = [e \in graph |-> s]
        /\ charge = [n \in Nodes |-> 0]
        /\ lastFired = [n \in Nodes |-> -Refractory]
        /\ active = {} /\ sending = {}
        /\ predicting = FALSE /\ tag = None /\ start = 0
        /\ expected = <<>> /\ traces = <<>> /\ deltas = <<>> /\ applying = FALSE
        /\ router = NoRouter
        /\ idle = 0 /\ left = 0 /\ calls = 0
        /\ opened = [node |-> None, calm |-> FALSE] /\ muffled = {}
-----------------------------------------------------------------------------
(* Commands: between ticks, one after another.                             *)
Called == /\ phase = "between" /\ ~applying /\ left = 0 /\ calls < MaxCalls
          /\ calls' = calls + 1

(* No edge carries more than it takes to fire its target once.             *)
Modest(ws) == \A e \in graph : ws[e] <= One

(* nerva_activate_node has a tag of its own, also under an open query of   *)
(* the router: expectations are dropped, and neither the traces nor what   *)
(* is pending.                                                             *)
ActivateNode(n) ==
  /\ Bag!Activate([source |-> None, target |-> n], One) /\ FirstFree
  /\ tag' = <<tick, n>> /\ start' = tick
  /\ expected' = <<>>
  /\ opened' = [node |-> n, calm |-> /\ queue = {} /\ Modest(weight)
                                     /\ \A m \in Nodes : charge[m] < One]
  /\ UNCHANGED <<graph, weight, stability, nodeVars, sending, predicting, traces,
                 deltas, applying, idle, left>>

Activate(n) ==
  /\ Called
  /\ ActivateNode(n)
  /\ UNCHANGED <<router, muffled>>

(* nerva_graph_reachable: every set of nodes that holds the source and is  *)
(* closed under the relation's edges holds the target.                     *)
Reachable(s, t, rel) ==
  \A ns \in SUBSET Nodes :
    /\ s \in ns
    /\ \A e \in graph : e.relation = rel /\ e.source \in ns => e.target \in ns
    => t \in ns

(* nerva_routing_begin_query, and the activation of the QUERY command.     *)
Query(s, t, rel) ==
  /\ Called
  /\ LET known == Reachable(s, t, rel) IN
       router' = [NoRouter EXCEPT !.on = TRUE, !.threshold = router.threshold,
                                  !.novelty = IF known THEN 0 ELSE 1,
                                  !.unresolved = IF known THEN 0 ELSE 1,
                                  !.confidence = IF known THEN 2 * One ELSE 0]
  /\ ActivateNode(s)
  /\ muffled' = {}

(* nerva_inject_edge_event: an edge's event at once, not merged.           *)
Inject(e) ==
  /\ Called
  /\ Bag!Activate(e, One) /\ FirstFree
  /\ opened' = [opened EXCEPT !.calm = FALSE]
  /\ UNCHANGED <<graph, weight, stability, nodeVars, sending, queryVars, predictVars,
                 router, idle, left, muffled>>

SetPredictionMode ==
  /\ Called
  /\ predicting' = ~predicting
  /\ UNCHANGED <<bagVars, graph, weight, stability, nodeVars, sending, tag, start,
                 predictVars, router, idle, left, history>>

(* The TICK command: nerva_tick_n                                          *)
Ticks(n) ==
  /\ Called
  /\ tick + n <= MaxTick
  /\ left' = n
  /\ UNCHANGED <<bagVars, graph, weight, stability, nodeVars, sending, queryVars,
                 predictVars, router, idle, history>>
-----------------------------------------------------------------------------
(* Expectations.                                                           *)
(* nerva_prediction_mark_trace, whatever edge a record is of (mutant).     *)
MarkedNewest(ts, es, mark) ==
  [i \in DOMAIN ts |->
     IF /\ es # {} /\ ts[i].kind = "expected"
        /\ \A j \in 1..(i - 1) : ts[j].kind # "expected"
     THEN [ts[i] EXCEPT !.marks = @ \cup {mark}] ELSE ts[i]]

(* The newest record that the edge was expected in this query, if the scan *)
(* reaches it.                                                             *)
Announces(ts, i, e) == /\ ts[i].edge = e /\ ts[i].kind = "expected"
                       /\ tag # None => ts[i].tag = tag
                       /\ i <= ScanLimit

Marked(ts, es, mark) ==
  [i \in DOMAIN ts |->
     IF \E e \in es : Announces(ts, i, e) /\ \A j \in 1..(i - 1) : ~Announces(ts, j, e)
     THEN [ts[i] EXCEPT !.marks = @ \cup {mark}] ELSE ts[i]]

(* The indices of xs in a given set, in order, mapped to weight deltas.    *)
DeltasOf(is, d) ==
  [k \in 1..Cardinality(is) |->
     [edge |-> expected[CHOOSE i \in is : Cardinality({j \in is : j < i}) = k - 1].edge,
      by |-> d]]

(* nerva_prediction_on_actual, nerva_prediction_resolve_miss               *)
Settled(is, fate) ==
  [i \in DOMAIN expected |->
     IF i \in is THEN [expected[i] EXCEPT !.fate = fate] ELSE expected[i]]

Learnt(is, fate) == deltas \o DeltasOf(is, IF fate = "confirmed" THEN Ltp ELSE Ltd)

PendingOnes == {i \in DOMAIN expected : expected[i].fate = "pending"}

(* The window is far longer (mutant).                                      *)
ExpiredLate == {i \in PendingOnes : Window # 0 /\ tick - expected[i].tick > 4 * Window}

(* nerva_prediction_expire_stale; a window of no ticks never closes.       *)
Expired == {i \in PendingOnes : Window # 0 /\ tick - expected[i].tick > Window}

BeginTick ==
  /\ left > 0 /\ ~applying
  /\ Bag!BeginTick
  /\ active' = {}
  /\ expected' = Settled(Expired, "missed")
  /\ deltas' = Learnt(Expired, "missed")
  /\ traces' = Marked(traces, {expected[i].edge : i \in Expired}, "missed")
  /\ UNCHANGED <<graph, weight, stability, charge, lastFired, sending, queryVars,
                 applying, router, idle, callVars, history>>

(* nerva_trace_record, over the oldest record when the ring is full.       *)
Recorded(ts, r) == <<r>> \o SubSeq(ts, 1, Min({Len(ts), TraceCap - 1}))

Record(e, kind) == [edge |-> e, tag |-> tag, kind |-> kind, marks |-> {}]

(* nerva_prediction_find_pending: of this query, and else of any.          *)
FirstPending ==
  LET mine == {i \in PendingOnes : tag # None => expected[i].tag = tag}
  IN  IF mine # {} THEN {Min(mine)} ELSE IF PendingOnes # {} THEN {Min(PendingOnes)} ELSE {}

(* nerva_prediction_on_actual                                              *)
Verdict(e) == IF \A i \in FirstPending : expected[i].edge = e THEN "confirmed" ELSE "missed"
-----------------------------------------------------------------------------
(* Delivery.                                                               *)
Theta == One

(* The refractory period is a tick too short (mutant).                     *)
RefractoryShort(n) == tick - lastFired[n] < Refractory - 1

RefractoryActive(n) == tick - lastFired[n] < Refractory

MarkActive(ns, n) == IF Cardinality(ns) < ActiveCap THEN ns \cup {n} ELSE ns

(* A source that fires in the query's first tick does not count (mutant).  *)
SourceActiveLater(b) == lastFired[b.source] >= 0 /\ lastFired[b.source] > start

(* nerva_exception_blocker_source_active                                   *)
SourceActive(b) == lastFired[b.source] >= 0 /\ lastFired[b.source] >= start

(* nerva_exception_apply_suppression: what is left of the charge.          *)
Suppressed(v) == (v * (65535 - Suppress)) \div 65536

IsSuppressed(n, sig) == sig > 0 /\ \E b \in BlockersOf(n) : SourceActive(b)

(* nerva_prediction_select_edge: the last of the best.                     *)
Magnitude(v) == IF v < 0 THEN -v ELSE v
ScoreOf(e) == stability[e] + Magnitude(weight[e]) \div 16
Chosen(n) ==
  LET able == {e \in OutOf(n) : stability[e] >= MinStability}
      best == {e \in able : \A f \in able : ScoreOf(f) <= ScoreOf(e)}
  IN  {e \in best : \A f \in best : f.id <= e.id}

(* nerva_prediction_precharge: to just below firing, whatever it was.      *)
PreCharged(v) == Min({Bag!SatAdd(v, PreCharge), Theta - 1})

(* nerva_node_should_fire                                                  *)
Fires(n, v) == ~RefractoryActive(n) /\ v >= Theta

(* nerva_prediction_on_fire: a node that fires in prediction mode expects  *)
(* its best edge to be used, if there is room to remember it.              *)
Expecting(n, exps) == IF predicting /\ Len(exps) < ExpectCap THEN Chosen(n) ELSE {}

Expect(next, exps, recs, vs) ==
  IF next = {}
  THEN expected' = exps /\ traces' = recs /\ charge' = vs
  ELSE LET e == CHOOSE e \in next : TRUE IN
       /\ expected' = Append(exps, [edge |-> e, tick |-> tick, tag |-> tag,
                                    fate |-> "pending"])
       /\ traces' = Recorded(recs, Record(e, "expected"))
       /\ charge' = [vs EXCEPT ![e.target] = PreCharged(@)]

(* One turn of nerva_tick's loop, nerva_fire_node's loop of sends apart.   *)
Deliver(ev) ==
  LET n == ev.key.target
      sum == Bag!SatAdd(charge[n], ev.sig)
      suppressed == IsSuppressed(n, ev.sig)
      v == IF suppressed THEN Suppressed(sum) ELSE sum
      fires == Fires(n, v)
      verdict == Verdict(ev.key)
      resolved == IF IsEdge(ev) THEN FirstPending ELSE {}
      recs == IF IsEdge(ev)
              THEN Recorded(Marked(traces, {expected[i].edge : i \in resolved}, verdict),
                            Record(ev.key, IF suppressed THEN "suppressed" ELSE "used"))
              ELSE traces
      next == IF fires THEN Expecting(n, expected) ELSE {}
  IN  /\ sending = {}
      /\ Bag!Deliver(ev)
      /\ lastFired' = IF fires THEN [lastFired EXCEPT ![n] = tick] ELSE lastFired
      /\ sending' = IF fires /\ ~predicting THEN OutOf(n) ELSE {}
      /\ muffled' = IF IsEdge(ev) /\ suppressed THEN muffled \cup {tag} ELSE muffled
      /\ deltas' = Learnt(resolved, verdict)
      /\ Expect(next, Settled(resolved, verdict), recs,
                [charge EXCEPT ![n] = IF fires THEN 0 ELSE v])
      /\ LET ns == MarkActive(active, n)
         IN  active' = IF next = {} THEN ns
                       ELSE MarkActive(ns, (CHOOSE e \in next : TRUE).target)
      /\ UNCHANGED <<graph, weight, stability, queryVars, applying, router, idle, callVars,
                     opened>>

(* nerva_compute_edge_signal                                               *)
Scaled(e) == LET x == (One * weight[e]) \div 256 IN (x * e.gate + 32768) \div 65536

Conducted(e) ==
  IF e.ctrl = None \/ charge[e.ctrl] >= 256 THEN Scaled(e)
  ELSE IF charge[e.ctrl] <= 0 THEN 0
  ELSE LET x == Scaled(e) * charge[e.ctrl]
       IN  IF x < 0 THEN -((-x) \div 256) ELSE x \div 256

Signal(e) == IF e.blocker THEN -Magnitude(Conducted(e)) ELSE Conducted(e)

(* One turn of nerva_fire_node's loop; an edge with no signal is skipped.  *)
Send ==
  /\ sending # {}
  /\ LET e == CHOOSE e \in sending : \A f \in sending : e.id <= f.id IN
       /\ sending' = sending \ {e}
       /\ IF Signal(e) = 0 THEN UNCHANGED <<bagVars, stability>>
          ELSE /\ Bag!Emit(e, 1, Signal(e)) /\ FirstFree
               /\ stability' = [stability EXCEPT ![e] = Min({@ + 1, StabMax})]
  /\ UNCHANGED <<graph, weight, nodeVars, queryVars, predictVars, router, idle,
                 callVars, history>>
-----------------------------------------------------------------------------
(* The end of a tick.                                                      *)
(* nerva_apply_leak, from a resting charge of zero.                        *)
Leaked(v) == v - v \div Leak

(* The scan stops before the last record (mutant).                         *)
ContradictedShort ==
  \E i \in DOMAIN traces : /\ i <= ScanLimit /\ i < Len(traces)
                           /\ traces[i].kind = "suppressed" /\ traces[i].tag = tag

(* nerva_routing_query_has_exception                                       *)
Contradicted ==
  \E i \in DOMAIN traces : /\ i <= ScanLimit
                           /\ traces[i].kind = "suppressed" /\ traces[i].tag = tag

(* nerva_routing_refresh_query_signals                                     *)
Refreshed == IF Contradicted
             THEN [router EXCEPT !.contradiction = 1, !.unresolved = 1, !.confidence = One \div 4]
             ELSE router

(* nerva_routing_compute_difficulty                                        *)
Difficulty(r) == Bag!SatAdd(Novelty * r.novelty + Contradiction * r.contradiction
                              + Unresolved * r.unresolved,
                            -((Confidence * r.confidence) \div 256))

(* The threshold decays to its base, by what is left at least one (mutant).*)
DecayedFully(t) == IF t > Base THEN t - 1 - (t - Base) \div FatigueDecay ELSE t

(* The decay overshoots (mutant).                                          *)
DecayedPast(t) == t - 1 - (t - Base) \div FatigueDecay

(* nerva_routing_decay_threshold                                           *)
Decayed(t) == t - (t - Base) \div FatigueDecay

(* nerva_routing_admit_top_active, nerva_routing_apply_lateral_inhibition; *)
(* which of equally charged nodes comes first is left open, as the order   *)
(* of their events is.                                                     *)
Workspaces(vs) ==
  {ns \in SUBSET active :
     /\ Cardinality(ns) = Min({FluidMax, Cardinality(active)})
     /\ \A n \in ns, m \in active \ ns : vs[m] <= vs[n]}

Inhibited(vs, ns, winner) ==
  [n \in Nodes |->
     IF n \in ns \ {winner} /\ vs[n] >= Compete
     THEN (vs[n] * (65535 - Inhibition)) \div 65536 ELSE vs[n]]

(* nerva_routing_on_tick_end, once for a query, when nothing is pending.   *)
Deciding == router.on /\ ~router.decided /\ queue = {}

Decide(vs) ==
  LET r == [Refreshed EXCEPT !.threshold = Decayed(@), !.decided = TRUE]
  IN  IF Difficulty(r) > r.threshold
      THEN /\ router' = [r EXCEPT !.fluid = TRUE, !.threshold = Bag!SatAdd(@, Fatigue)]
           /\ \E ns \in Workspaces(vs) :
                IF ns = {} THEN charge' = vs
                ELSE \E w \in ns : /\ \A n \in ns : vs[n] <= vs[w]
                                   /\ charge' = Inhibited(vs, ns, w)
      ELSE /\ router' = [r EXCEPT !.crystallized = TRUE]
           /\ charge' = vs

Clamped(w) == IF w > WMax THEN WMax ELSE IF w < WMin THEN WMin ELSE w

(* nerva_memory_on_tick_end with no block: an engine that has been idle    *)
(* applies what waits.                                                     *)
Rest ==
  IF queue # {} \/ idle + 1 < IdleTicks
  THEN idle' = (IF queue # {} THEN 0 ELSE idle + 1) /\ UNCHANGED applying
  ELSE idle' = 0 /\ applying' = (deltas # <<>>)

EndTick ==
  /\ sending = {}
  /\ Bag!EndTick
  /\ LET vs == [n \in Nodes |-> IF n \in active THEN Leaked(charge[n]) ELSE charge[n]]
     IN  IF Deciding THEN Decide(vs) ELSE charge' = vs /\ UNCHANGED router
  /\ Rest
  /\ left' = left - 1
  /\ UNCHANGED <<graph, weight, stability, lastFired, active, sending, queryVars, expected,
                 traces, deltas, calls, history>>

(* One turn of nerva_apply_mutations, before the next tick or command.     *)
Apply ==
  /\ applying
  /\ weight' = [weight EXCEPT ![deltas[1].edge] = Clamped(@ + deltas[1].by)]
  /\ deltas' = Tail(deltas) /\ applying' = (Tail(deltas) # <<>>)
  /\ opened' = [opened EXCEPT !.calm = @ /\ Modest(weight')]
  /\ UNCHANGED <<bagVars, graph, stability, nodeVars, sending, queryVars, expected, traces,
                 router, idle, callVars, muffled>>

TickStep == \/ BeginTick
            \/ \E ev \in queue : Deliver(ev)
            \/ Send
            \/ EndTick
            \/ Apply

Next == \/ \E n \in Nodes : Activate(n)
        \/ \E q \in Queries : Query(q.source, q.target, q.relation)
        \/ \E e \in graph : Inject(e)
        \/ SetPredictionMode
        \/ \E n \in TickCounts : Ticks(n)
        \/ TickStep

Spec == Init /\ [][Next]_vars

(* A TICK command, once given, runs to its end; nobody has to give one.    *)
FairSpec == Spec /\ WF_vars(TickStep)
-----------------------------------------------------------------------------
TypeOK ==
  /\ tick \in 0..MaxTick /\ phase \in Bag!Phase
  /\ queue \subseteq [id : 1..Cap, key : graph \cup [source : {None}, target : Nodes],
                      due : tick..(tick + 1), sig : (-SigMax - 1)..SigMax]
  /\ graph \in Graphs
  /\ weight \in [graph -> WMin..WMax] /\ stability \in [graph -> 0..StabMax]
  /\ charge \in [Nodes -> (-SigMax - 1)..SigMax]
  /\ lastFired \in [Nodes -> Int] /\ \A n \in Nodes : lastFired[n] \in -Refractory..tick
  /\ active \subseteq Nodes /\ Cardinality(active) <= ActiveCap
  /\ sending \subseteq graph /\ predicting \in BOOLEAN
  /\ start \in 0..tick /\ tag \in {None} \cup ((0..tick) \X Nodes)
  /\ expected \in Seq([edge : graph, tick : 0..tick, tag : {tag},
                        fate : {"pending", "confirmed", "missed"}])
  /\ traces \in Seq([edge : graph, tag : {None} \cup ((0..tick) \X Nodes),
                      kind : {"used", "suppressed", "expected"},
                      marks : SUBSET {"confirmed", "missed"}])
  /\ Len(expected) <= ExpectCap /\ Len(traces) <= TraceCap
  /\ deltas \in Seq([edge : graph, by : {Ltp, Ltd}])
  /\ applying \in BOOLEAN /\ (applying => deltas # <<>>)
  /\ router \in [on : BOOLEAN, decided : BOOLEAN, fluid : BOOLEAN, crystallized : BOOLEAN,
                 novelty : {0, 1}, contradiction : {0, 1}, unresolved : {0, 1},
                 confidence : {0, One \div 4, 2 * One}, threshold : Base..SigMax]
  /\ idle \in 0..IdleTicks /\ left \in 0..MaxTick /\ calls \in 0..MaxCalls
  /\ opened \in [node : {None} \cup Nodes, calm : BOOLEAN]
  /\ muffled \subseteq {None} \cup ((0..tick) \X Nodes)

(* An exception holds against every path: when a query opens a calm engine *)
(* at the source of a blocker, with no edge that carries more than it      *)
(* takes to fire its target once, the blocked node does not fire in it,    *)
(* along however many paths and in whatever order their signals and the    *)
(* blocker's arrive (the penguin of nerva_bench.c), until a caller injects *)
(* an event of its own or learning lifts an edge above that.               *)
ExceptionHolds ==
  \A b \in graph :
    b.blocker /\ b.source # b.target /\ opened.node = b.source /\ opened.calm
      => lastFired[b.target] < start

(* The trace tells the fate of each expectation: its record is marked once *)
(* it is resolved, with how it was, and not before; as long as the query   *)
(* expects an edge only once and the record is still in reach.             *)
TraceTellsFate ==
  \A i \in DOMAIN expected, k \in DOMAIN traces :
    /\ \A j \in DOMAIN expected : expected[j].edge = expected[i].edge => j = i
    /\ k <= ScanLimit
    /\ traces[k].kind = "expected"
    /\ traces[k].edge = expected[i].edge /\ traces[k].tag = expected[i].tag
    => traces[k].marks = {expected[i].fate} \ {"pending"}

(* Once the router has been tired by a fluid query its threshold does not  *)
(* come back to its base: the decay shifts away differences that are less  *)
(* than a whole unit.                                                      *)
FatigueRemains ==
  router.threshold = Base \/ router.threshold >= Base + FatigueDecay - 1

(* While the trace has not overflowed, a query is decided as contradicted  *)
(* exactly if a signal was suppressed in it since the latest activation,   *)
(* however many ticks before.  That activation need not be the query's:    *)
(* what was suppressed before another one in between is forgotten, though  *)
(* its record is still there, and what an older query met never counts.    *)
SuppressionNoticed ==
  [][(~router.decided /\ router'.decided
        /\ Len(traces) < TraceCap /\ Len(traces) <= ScanLimit)
       => (router'.contradiction = 1 <=> tag \in muffled)]_vars

(* A cycle on which a firing can run around forever: its nodes are no      *)
(* longer refractory when it comes round again.                            *)
Lasting(es) ==
  \E n \in Refractory..Cardinality(Nodes) : \E f \in [0..(n - 1) -> Nodes] :
    /\ \A i, j \in 0..(n - 1) : f[i] = f[j] => i = j
    /\ \A i \in 0..(n - 1) :
         \E e \in es : /\ ~e.blocker
                       /\ e.source = f[i] /\ e.target = f[(i + 1) % n]

LastingGraphs == {es \in Graphs : Lasting(es)}

(* Without such a cycle the engine comes to rest, and a TICK command that  *)
(* gives each node a tick, and some more, decides the query.               *)
QueryDecided ==
  (router.on /\ ~router.decided /\ graph \notin LastingGraphs /\ left > Cardinality(Nodes) + 1)
    ~> router.decided

(* Where there is a window, a TICK command longer than it settles every    *)
(* expectation that is pending when it is given or comes up early enough.  *)
ExpectationsSettle ==
  \A i \in 1..ExpectCap :
    (Window # 0 /\ i \in PendingOnes /\ left > Window + 1) ~> (i \notin PendingOnes)
=============================================================================
