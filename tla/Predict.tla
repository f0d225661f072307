-------------------------------- MODULE Predict --------------------------------
(***************************************************************************)
(* Next-token prediction and teaching on the count graph (fluency_predict, *)
(* fluency_pcw_teach_pos and fluency_pcw_teach_pos_escalate of             *)
(* src/worlds/fluency/fluency.c) on top of the engine's tick               *)
(* (nerva_engine.c, nerva_event.c).                                        *)
(*                                                                         *)
(* A position of the text has one context node for each order 1..Order,    *)
(* the suffixes of what precedes it, as far as they were built; a token    *)
(* node integrates the weights of its edges from the contexts that fire.   *)
(* The pending events are those of EventBag, which EventQueue implements.  *)
(*                                                                         *)
(* The edges of this graph are as fluency_append_edge makes them: gate     *)
(* open, no control node, no flags.  An edge's signal then is its weight,  *)
(* no blocker suppresses anything, and with no expectation, no query to    *)
(* route and no mutation left waiting the tick's other parts do nothing.   *)
(* The optional organs (instances, gain, mood, hubs, CTW, KN, TSCAR) are   *)
(* off, and fast_lambda is 0, as fluency_init leaves them; what fast edges *)
(* add to the charges of tokens after the three ticks, once nerva.c and    *)
(* pretrain.c have raised fast_lambda, is left out.                        *)
(***************************************************************************)
EXTENDS Integers, FiniteSets, FiniteSetsExt, Sequences

CONSTANTS
  Order, Vocab,    (* orders of contexts, and tokens                       *)
  Cap, ActiveCap,  (* event_cap and active_cap                             *)
  SigMax, One,     (* INT16_MAX and NERVA_Q8_8_ONE                         *)
  Refractory,      (* refractory_ticks                                     *)
  Leak,            (* 2^leak_shift                                         *)
  W0, WMin, WMax,  (* the weight of a taught edge; the bounds on weights   *)
  Delta, DeltaCap, (* FLU_PCW_DELTA and FLU_PCW_ESC_DELTA_CAP              *)
  EscRounds,       (* FLU_PCW_ESC_MAX_ROUNDS                               *)
  MaxCand,         (* FLU_PCW_MAX_CAND                                     *)
  Weights,         (* weights the trained graph may have                   *)
  MaxCalls         (* bound of the model: calls                            *)

ASSUME GraphAssumption == {Order, Vocab, Cap, ActiveCap, Leak, MaxCand} \subseteq Nat \ {0}
ASSUME SignalAssumption ==
  /\ {SigMax, DeltaCap, MaxCalls} \subseteq Nat
  /\ One \in 1..SigMax /\ Delta \in 0..DeltaCap
  /\ WMin \in -SigMax..SigMax /\ WMax \in WMin..SigMax
  /\ {W0} \cup Weights \subseteq WMin..WMax

(* A prediction takes three ticks, and a node rests no longer than that    *)
(* (nerva_config_default: refractory_ticks = 3).                           *)
ASSUME RestAssumption == Refractory \in 0..3
ASSUME RoundsAssumption == EscRounds \in Nat \ {0}

VARIABLES
  tick, phase, queue,   (* as in EventBag                                  *)
  charge,     (* v of each node                                            *)
  lastFired,  (* last_fired_tick; -Refractory while activation_count = 0   *)
  active,     (* active_nodes                                              *)
  sending,    (* the edges along which the node that fired has yet to send *)
  weight,     (* the weight of each edge that exists                       *)
  run,        (* the running prediction: contexts to activate, ticks left  *)
  job,        (* what the prediction is for                                *)
  calls,      (* how many calls there have been                            *)
  before      (* history: the weights when the last call began to measure  *)

bagVars == <<tick, phase, queue>>
engineVars == <<bagVars, charge, lastFired, active, sending>>
vars == <<engineVars, weight, run, job, calls, before>>
-----------------------------------------------------------------------------
Contexts == 1..Order
Tokens == (Order + 1)..(Order + Vocab)
Nodes == Contexts \cup Tokens
Edges == [source : Contexts, target : Tokens]
External == 0   (* NERVA_INVALID_ID, the source of an activation           *)

Bag == INSTANCE EventBag WITH
         Keys <- Edges, Activations <- [source : {External}, target : Contexts],
         Signals <- {One}, Delays <- {1}, StaleTicks <- 10, MergeWindow <- 0,
         MaxTick <- 0

OutOf(c) == {e \in DOMAIN weight : e.source = c}
Built(w) == {e.source : e \in DOMAIN w}

NoRun == [todo |-> {}, ticks |-> 0]
NoEdge == [source |-> External, target |-> External]
NoProbe == [edge |-> NoEdge, by |-> 0]
NoBest == [edge |-> NoEdge, share |-> <<0, 1>>]
NoJob == [kind |-> "none", k |-> 0, gold |-> 0, delta |-> 0, round |-> 0,
          probes |-> <<>>, probed |-> NoProbe, save |-> 0,
          up |-> NoBest, down |-> NoBest]

Init == /\ tick = 0 /\ phase = "between" /\ queue = {}
        /\ charge = [n \in Nodes |-> 0]
        /\ lastFired = [n \in Nodes |-> -Refractory]
        /\ active = {} /\ sending = {}
        /\ \E es \in SUBSET Edges : weight \in [es -> Weights]
        /\ run = NoRun /\ job = NoJob
        /\ calls = 0
        /\ before = weight
-----------------------------------------------------------------------------
(* The engine's tick.                                                      *)
Theta(n) == IF n \in Contexts THEN One ELSE SigMax

(* nerva_node_refractory_active, off by one (mutant).                      *)
RefractoryLong(n) == tick - lastFired[n] <= Refractory

RefractoryActive(n) == tick - lastFired[n] < Refractory

MarkActive(n) == IF Cardinality(active) < ActiveCap THEN active \cup {n} ELSE active

BeginTick ==
  /\ run.ticks > 0 /\ run.todo = {}
  /\ Bag!BeginTick
  /\ active' = {}
  /\ UNCHANGED <<charge, lastFired, sending, weight, run, job, calls, before>>

(* One turn of nerva_tick's loop: the target takes the signal, and fires   *)
(* when that brings it to its threshold.                                   *)
Deliver(ev) ==
  LET n == ev.key.target
      v == Bag!SatAdd(charge[n], ev.sig)
      fires == ~RefractoryActive(n) /\ v >= Theta(n)
  IN  /\ sending = {}
      /\ Bag!Deliver(ev)
      /\ active' = MarkActive(n)
      /\ charge' = [charge EXCEPT ![n] = IF fires THEN 0 ELSE v]
      /\ lastFired' = IF fires THEN [lastFired EXCEPT ![n] = tick] ELSE lastFired
      /\ sending' = IF fires THEN OutOf(n) ELSE {}
      /\ UNCHANGED <<weight, run, job, calls, before>>

(* One turn of nerva_fire_node's loop, over the edges in a fixed order; an *)
(* edge with no signal sends nothing.                                      *)
Send ==
  /\ sending # {}
  /\ LET e == CHOOSE e \in sending : \A f \in sending : e.target <= f.target IN
       /\ IF weight[e] = 0 THEN UNCHANGED bagVars ELSE Bag!Emit(e, 1, weight[e])
       /\ sending' = sending \ {e}
  /\ UNCHANGED <<charge, lastFired, active, weight, run, job, calls, before>>

(* nerva_apply_leak, from a resting charge of zero.                        *)
Leaked(v) == v - v \div Leak

EndTick ==
  /\ sending = {}
  /\ Bag!EndTick
  /\ charge' = [n \in Nodes |-> IF n \in active THEN Leaked(charge[n]) ELSE charge[n]]
  /\ run' = [run EXCEPT !.ticks = @ - 1]
  /\ UNCHANGED <<lastFired, active, sending, weight, job, calls, before>>
-----------------------------------------------------------------------------
ResetCharges ==
  /\ charge' = [n \in Nodes |-> 0]
  /\ queue' = {}
  /\ active' = {}

(* fluency_predict: one activation for each order's context that was       *)
(* built, and three ticks when there was any.                              *)
StartPredict(k, w) ==
  /\ ResetCharges
  /\ LET todo == Built(w) \cap 1..k IN
       run' = [todo |-> todo, ticks |-> IF todo = {} THEN 0 ELSE 3]
  /\ UNCHANGED <<tick, phase, lastFired, sending>>

Activate ==
  /\ run.todo # {}
  /\ LET c == Min(run.todo) IN
       /\ Bag!Activate([source |-> External, target |-> c], One)
       /\ run' = [run EXCEPT !.todo = @ \ {c}]
  /\ UNCHANGED <<charge, lastFired, active, sending, weight, job, calls, before>>

(* The prediction has been made: the charges are read.                     *)
Returned == job.kind # "none" /\ run = NoRun /\ phase = "between"

Score(t) == IF charge[t] > 0 THEN charge[t] ELSE 0

(* The share of token t, with half a vote added for every token, as a      *)
(* fraction; and the order on fractions.                                   *)
Share(t) == <<2 * Score(t) + 1, 2 * SumFunction([u \in Tokens |-> Score(u)]) + Vocab>>
Better(p, q) == p[1] * q[2] > q[1] * p[2]

Argmax == CHOOSE t \in Tokens :
            \A u \in Tokens : /\ Score(t) >= Score(u)
                              /\ u < t => Score(t) > Score(u)
-----------------------------------------------------------------------------
(* Who asks: a plain prediction, and teaching a token after a context of k *)
(* tokens, in one fixed pass or escalating.                                *)
Forecast(k) ==
  /\ job.kind = "none" /\ calls < MaxCalls
  /\ calls' = calls + 1
  /\ job' = [NoJob EXCEPT !.kind = "plain", !.k = k]
  /\ StartPredict(k, weight)
  /\ UNCHANGED <<weight, before>>

Read == /\ Returned /\ job.kind = "plain"
        /\ job' = NoJob
        /\ UNCHANGED <<engineVars, weight, run, calls, before>>

(* fluency_get_ctx and fluency_pcw_ensure_edge                             *)
WithEdge(e) == [f \in DOMAIN weight \cup {e} |-> IF f \in DOMAIN weight THEN weight[f] ELSE W0]

GoldEdge(j) == [source |-> j.k, target |-> j.gold]

Teach(kind, k, gold) ==
  /\ job.kind = "none" /\ calls < MaxCalls
  /\ calls' = calls + 1
  /\ job' = [NoJob EXCEPT !.kind = kind, !.k = k, !.gold = gold, !.delta = Delta]
  /\ weight' = WithEdge(GoldEdge(job'))
  /\ before' = weight'
  /\ StartPredict(k, weight')

(* fluency_pcw_clamp_w bounds a probe; nerva_graph_modify_weight bounds    *)
(* what is applied.                                                        *)
ProbeClamp(w) == Bag!SatAdd(w, 0)

(* A weight without its lower bound (mutant).                              *)
ClampTop(w) == IF w > WMax THEN WMax ELSE w

Clamp(w) == IF w > WMax THEN WMax ELSE IF w < WMin THEN WMin ELSE w

(* nerva_work_apply_weight_delta                                           *)
Apply(w, e, d) == IF e = NoEdge THEN w ELSE [w EXCEPT ![e] = Clamp(@ + d)]

Finish(j, w) ==
  /\ weight' = w
  /\ job' = [NoJob EXCEPT !.k = j.k, !.gold = j.gold, !.round = j.round]
  /\ UNCHANGED <<engineVars, run>>

(* The delta never grows (mutant).                                         *)
GrownNot(d) == Min({d, DeltaCap})

Grown(d) == Min({2 * d, DeltaCap})

Commit(j, w) ==
  IF j.kind = "fixed"
  THEN Finish(j, Apply(Apply(w, j.up.edge, Delta \div 2), j.down.edge, -(Delta \div 2)))
  ELSE LET next == Apply(Apply(w, j.up.edge, j.delta), j.down.edge, -j.delta)
           again == [j EXCEPT !.probed = NoProbe, !.round = @ + 1,
                              !.delta = Grown(@)]
       IN  IF again.round = EscRounds THEN Finish(again, next)
           ELSE /\ weight' = next
                /\ job' = again
                /\ StartPredict(j.k, next)

(* The next probe changes one weight for one prediction; after the last    *)
(* one, what helped is applied.                                            *)
Proceed(j, w) ==
  IF j.probes = <<>> THEN Commit(j, w)
  ELSE LET p == Head(j.probes) IN
       /\ weight' = [w EXCEPT ![p.edge] = ProbeClamp(@ + p.by)]
       /\ job' = [j EXCEPT !.probes = Tail(@), !.probed = p, !.save = w[p.edge]]
       /\ StartPredict(j.k, w)

(* Gold's edge first, then the context's other edges, up to MaxCand.       *)
Candidates ==
  LET others == {e \in OutOf(job.k) : e.target # job.gold}
      nth(i) == CHOOSE e \in others :
                  Cardinality({f \in others : f.target < e.target}) = i - 2
  IN  [i \in 1..Min({Cardinality(others) + 1, MaxCand}) |->
         IF i = 1 THEN GoldEdge(job) ELSE nth(i)]

FixedProbes ==
  [i \in 1..(2 * Len(Candidates)) |->
     [edge |-> Candidates[(i + 1) \div 2], by |-> IF i % 2 = 1 THEN Delta ELSE -Delta]]

EscalatedProbes ==
  LET rival == [source |-> job.k, target |-> Argmax]
      gold == <<[edge |-> GoldEdge(job), by |-> job.delta]>>
  IN  IF rival \in DOMAIN weight THEN Append(gold, [edge |-> rival, by |-> -job.delta]) ELSE gold

(* The prediction that the probes are compared with.                       *)
Measured ==
  /\ Returned /\ job.kind \in {"fixed", "escalate"} /\ job.probed = NoProbe
  /\ LET none == [edge |-> NoEdge, share |-> Share(job.gold)]
         j == [job EXCEPT !.up = none, !.down = none]
     IN  IF job.kind = "fixed"
         THEN Proceed([j EXCEPT !.probes = FixedProbes], weight)
         ELSE IF Argmax = job.gold THEN Finish(job, weight)
         ELSE Proceed([j EXCEPT !.probes = EscalatedProbes], weight)
  /\ UNCHANGED <<calls, before>>

(* The last probe on its side, whether it helped or not (mutant).          *)
LastProbe(best) == [edge |-> job.probed.edge, share |-> Share(job.gold)]

(* What a probe found: the best on its side so far, or nothing.            *)
BetterThan(best) ==
  IF Better(Share(job.gold), best.share)
  THEN [edge |-> job.probed.edge, share |-> Share(job.gold)] ELSE best

Restored == [weight EXCEPT ![job.probed.edge] = job.save]

Probed ==
  /\ Returned /\ job.probed # NoProbe
  /\ Proceed(IF job.probed.by > 0 THEN [job EXCEPT !.up = BetterThan(@)]
                                  ELSE [job EXCEPT !.down = BetterThan(@)], Restored)
  /\ UNCHANGED <<calls, before>>

Next == \/ BeginTick \/ Activate \/ Send \/ EndTick
        \/ \E ev \in queue : Deliver(ev)
        \/ \E k \in 1..Order : Forecast(k)
        \/ \E kind \in {"fixed", "escalate"}, k \in 1..Order, gold \in Tokens : Teach(kind, k, gold)
        \/ Read \/ Measured \/ Probed

Spec == Init /\ [][Next]_vars
-----------------------------------------------------------------------------
TypeOK ==
  /\ tick \in Nat /\ phase \in Bag!Phase
  /\ queue \subseteq [id : 1..Cap, key : Edges \cup [source : {External}, target : Contexts],
                      due : tick..(tick + 1), sig : Bag!Q8_8]
  /\ charge \in [Nodes -> Bag!Q8_8]
  /\ \A n \in Nodes : lastFired[n] \in -Refractory..tick
  /\ active \subseteq Nodes /\ sending \subseteq DOMAIN weight
  /\ DOMAIN weight \subseteq Edges
  /\ \A e \in DOMAIN weight : weight[e] \in WMin..WMax \/ e = job.probed.edge
  /\ run.todo \subseteq Contexts /\ run.ticks \in 0..3
  /\ job.kind \in {"none", "plain", "fixed", "escalate"}
  /\ job.k \in 0..Order /\ job.gold \in {0} \cup Tokens
  /\ calls \in 0..MaxCalls

Votes(w, k, t) == {e \in DOMAIN w : e.source <= k /\ e.target = t /\ w[e] # 0}
Total(w, es) == SumFunction([e \in es |-> w[e]])

(* No sum of votes can saturate, whatever order they come in, and the      *)
(* queue and the array of active nodes hold what one prediction needs: the *)
(* activation of a context leaves the queue before its votes enter it, and *)
(* a context that was built has an edge, if perhaps one without a vote.    *)
Fits(w, k) ==
  /\ \A t \in Tokens :
       LET votes == Votes(w, k, t)
       IN  /\ Total(w, {e \in votes : w[e] > 0}) < SigMax
           /\ Total(w, {e \in votes : w[e] < 0}) > -SigMax
  /\ Cardinality({e \in DOMAIN w : e.source <= k}) <= Cap
  /\ Cardinality({t \in Tokens : Votes(w, k, t) # {}}) <= ActiveCap

(* The same for every graph within its bounds, and every probe of it, by   *)
(* which one weight may leave them.                                        *)
Roomy == /\ WMin <= 0 /\ 0 <= WMax
         /\ Order * WMax + DeltaCap < SigMax /\ Order * WMin - DeltaCap > -SigMax
         /\ Order * Vocab <= Cap /\ Vocab <= ActiveCap

(* A prediction reads the sum of the votes of all contexts that exist, and *)
(* nothing else: every context fires, however soon after the last          *)
(* prediction, every vote is delivered once, before the charges are read,  *)
(* and nothing is left over from the prediction before.                    *)
VotesSuperpose ==
  Returned /\ Fits(weight, job.k) =>
    \A t \in Tokens : charge[t] = Leaked(Total(weight, Votes(weight, job.k, t)))

(* Gold's share of the votes under weights w, as VotesSuperpose has it.    *)
ShareUnder(w) ==
  LET score == [t \in Tokens |-> Max({0, Leaked(Total(w, Votes(w, job.k, t)))})]
  IN  <<2 * score[job.gold] + 1, 2 * SumFunction(score) + Vocab>>

Taught == job.kind = "none" /\ job.gold # 0

(* Teaching never makes the taught token less likely: though each delta is *)
(* measured by itself and at another size or against other bounds than it  *)
(* is applied, and the probes go through the weights in place, what is     *)
(* applied together helps, or leaves the token's share as it was.          *)
TeachingHelps ==
  Roomy /\ Taught => ~Better(ShareUnder(before), ShareUnder(weight))

(* The delta doubled once for each round before the last reaches its cap,  *)
(* and the cap is a delta that takes any weight to the bound and outvotes  *)
(* all other contexts (48 * 2^23, 8192, 1024 - -1024 and 7 * 1024), and is *)
(* not lost to the leak.                                                   *)
Doubled[r \in Nat] == IF r = 0 THEN Delta ELSE 2 * Doubled[r - 1]
Thorough == /\ DeltaCap <= Doubled[EscRounds - 1] /\ WMax - WMin <= DeltaCap
            /\ Order * WMin + DeltaCap > 1 /\ DeltaCap > 1 /\ Leak > 1

(* Escalation gives up only at the bound on weights: when its last round   *)
(* has ended and the taught token had not become the most likely one, its  *)
(* edge cannot grow any more.                                              *)
EscalationExhausts ==
  Roomy /\ Thorough /\ Taught /\ job.round = EscRounds => weight[GoldEdge(job)] = WMax
-----------------------------------------------------------------------------
(* worlds/fluency/fluency.c:285: "Integrator: never spikes, so it          *)
(* accumulates weighted votes we can read."                                *)
IntegratorsNeverSpike == \A t \in Tokens : lastFired[t] = -Refractory
=============================================================================
