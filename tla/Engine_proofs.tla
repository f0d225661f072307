---------------------------- MODULE Engine_proofs ----------------------------
(***************************************************************************)
(* Proofs about the engine (Engine), for any graph, any sizes of its lists *)
(* and any figures of its arithmetic that the assumptions of Engine allow. *)
(*                                                                         *)
(* The inductive invariant EngineInv has four parts:                       *)
(*   - TypeInv: the types, with what keeps the times in order: a node has  *)
(*     not fired in a tick that has yet to begin, a signal is due in this  *)
(*     tick or the next;                                                   *)
(*   - MuffledInv: what was suppressed in the router's query is in the     *)
(*     ring of records, each under the tag of its time, unless the ring    *)
(*     has overflowed, and no other record bears the tag of now;           *)
(*   - FateInv: an edge that is expected once in a query has one record of *)
(*     it, which bears its fate, and every such record has an expectation; *)
(*   - CalmInv: in a query that opened a calm engine each signal is at     *)
(*     most one, none waits twice for the same edge, and until the node    *)
(*     that opened it fires nothing else is pending.                       *)
(* One lemma per part shows that a step keeps it (TypesStep, MuffledStep,  *)
(* FateStep, CalmStep); those named ...Change say who changes what.        *)
(***************************************************************************)
EXTENDS Engine, FiniteSetTheorems, SequenceTheorems, WellFoundedInduction, TLAPS

(* The ranges of charges and fractions, of tags, of keys and of records.   *)
Q8_8 == (-SigMax - 1)..SigMax
Q0_16 == {f \in Nat : f <= 65535}
Tags == {None} \cup ((0..tick) \X Nodes)
ActivationOf(n) == [source |-> None, target |-> n]
KeysNow == graph \cup [source : {None}, target : Nodes]
Expectation == [edge : graph, tick : 0..tick, tag : {tag},
                fate : {"pending", "confirmed", "missed"}]
TraceRecord == [edge : graph, tag : Tags, kind : {"used", "suppressed", "expected"},
                marks : SUBSET {"confirmed", "missed"}]

(* A command comes between ticks, and a tick is part of a TICK command.    *)
TimesInv ==
  /\ tick \in Nat /\ left \in Nat /\ tick + left <= MaxTick /\ phase \in Bag!Phase
  /\ idle \in 0..IdleTicks /\ calls \in 0..MaxCalls
  /\ applying \in BOOLEAN /\ (applying => phase = "between")
  /\ phase = "between" => sending = {}
  /\ phase # "between" => left > 0

(* What is pending is due in this tick or the next.                        *)
QueueInv == queue \subseteq [id : 1..Cap, key : KeysNow, due : tick..(tick + 1), sig : Q8_8]

EdgesInv ==
  /\ graph \in Graphs /\ sending \subseteq graph
  /\ weight \in [graph -> WMin..WMax] /\ stability \in [graph -> 0..StabMax]

NodesInv ==
  /\ charge \in [Nodes -> Q8_8]
  /\ lastFired \in [Nodes -> Int]
  /\ \A n \in Nodes : /\ lastFired[n] \in -Refractory..tick
                      /\ phase = "between" => lastFired[n] < tick

ActiveInv == active \subseteq Nodes /\ IsFiniteSet(active) /\ Cardinality(active) <= ActiveCap

QueryInv ==
  /\ predicting \in BOOLEAN /\ start \in 0..tick /\ tag \in Tags
  /\ opened \in [node : {None} \cup Nodes, calm : BOOLEAN] /\ muffled \subseteq Tags

ExpectInv ==
  /\ expected \in Seq(Expectation) /\ Len(expected) <= ExpectCap
  /\ traces \in Seq(TraceRecord) /\ Len(traces) <= TraceCap
  /\ deltas \in Seq([edge : graph, by : {Ltp, Ltd}])
  /\ applying => deltas # <<>>

Router == [on : BOOLEAN, decided : BOOLEAN, fluid : BOOLEAN, crystallized : BOOLEAN,
           novelty : {0, 1}, contradiction : {0, 1}, unresolved : {0, 1},
           confidence : {0, One \div 4, 2 * One}, threshold : Base..SigMax]
Unjudged == ~router.decided => router.contradiction = 0
RouterInv == router \in Router /\ FatigueRemains /\ Unjudged

(* A record of a suppression under the tag t.                              *)
Muted(t, ts) == \E i \in 1..Len(ts) : ts[i].kind = "suppressed" /\ ts[i].tag = t

(* What was suppressed in this query is in the ring, unless it has         *)
(* overflowed; what the ring holds under this tag was suppressed in it.    *)
MuffledInv ==
  /\ Len(traces) < TraceCap => \A t \in muffled : Muted(t, traces)
  /\ Muted(tag, traces) => tag \in muffled

(* A record that an edge was expected in the query t.                      *)
Told(t, r) == r.kind = "expected" /\ r.tag = t

(* No other expectation is of the same edge.                               *)
Alone(exps, i) == \A j \in 1..Len(exps) : exps[j].edge = exps[i].edge => j = i

(* Each record that an edge was expected in the query t has an expectation *)
(* of the edge, two records of an edge have two, and the record of an edge *)
(* that is expected once bears its fate.                                   *)
Listed(t, exps, ts) ==
  \A k \in 1..Len(ts) : Told(t, ts[k]) => \E i \in 1..Len(exps) : exps[i].edge = ts[k].edge
Apart(t, exps, ts) ==
  \A j, k \in 1..Len(ts) :
    j # k /\ ts[j].edge = ts[k].edge /\ Told(t, ts[j]) /\ Told(t, ts[k])
      => \E i, l \in 1..Len(exps) : /\ i # l /\ exps[i].edge = ts[k].edge
                                    /\ exps[l].edge = ts[k].edge
Fated(t, exps, ts) ==
  \A i \in 1..Len(exps), k \in 1..Len(ts) :
    Alone(exps, i) /\ k <= ScanLimit /\ Told(t, ts[k]) /\ ts[k].edge = exps[i].edge
      => ts[k].marks = {exps[i].fate} \ {"pending"}

(* Nothing is older than the first query; no query came before this tick.  *)
Untagged(t, ts) == t = None => \A k \in 1..Len(ts) : ts[k].tag = None
Past == \A k \in 1..Len(traces) : traces[k].tag # None => traces[k].tag[1] < tick

Fates(t, exps, ts) ==
  Untagged(t, ts) /\ Listed(t, exps, ts) /\ Apart(t, exps, ts) /\ Fated(t, exps, ts)
FateInv == (phase = "between" => Past) /\ Fates(tag, expected, traces)

(* What came of a query that found the engine calm.                        *)
SignalsInv ==
  /\ Modest(weight) /\ opened.node \in Nodes
  /\ \A ev \in queue : ev.key \in graph =>
       /\ ev.sig <= One /\ lastFired[ev.key.source] >= ev.due - 1
  /\ \A e \in sending :
       /\ lastFired[e.source] = tick
       /\ \A ev \in queue : ev.key = e => ev.due # tick + 1
  /\ \A ev \in queue : ev.key \notin graph => ev.key.target = opened.node

(* Either nothing but the activation has happened, or its node has fired.  *)
OpenedInv ==
  \/ lastFired[opened.node] >= start
  \/ sending = {} /\ \A ev \in queue : ev.key \notin graph

BlockedInv ==
  \A b \in graph : b.blocker /\ b.source # b.target /\ opened.node = b.source
                   => charge[b.target] < One /\ lastFired[b.target] < start

CalmInv == opened.calm => SignalsInv /\ OpenedInv /\ BlockedInv

TypeInv == /\ TimesInv /\ QueueInv /\ EdgesInv /\ NodesInv /\ ActiveInv /\ QueryInv
           /\ ExpectInv /\ RouterInv

EngineInv == TypeInv /\ MuffledInv /\ FateInv /\ CalmInv

(* The assumptions, one by one.                                            *)
LEMMA Sizes ==
  /\ Cap \in Nat \ {0} /\ ActiveCap \in Nat \ {0} /\ TraceCap \in Nat \ {0}
  /\ ScanLimit \in Nat \ {0} /\ ExpectCap \in Nat \ {0} /\ Leak \in Nat \ {0}
  /\ FatigueDecay \in Nat \ {0} /\ Refractory \in Nat \ {0}
  /\ SigMax \in Nat /\ StabMax \in Nat /\ Window \in Nat /\ IdleTicks \in Nat
  /\ MaxTick \in Nat /\ MaxCalls \in Nat /\ TickCounts \subseteq Nat
  BY EngineSizes, Zenon

(* The units: a whole is 256, and a suppression takes at least half.       *)
LEMMA Units ==
  /\ One = 256 /\ GateOne = 65535 /\ SigMax >= 256
  /\ Suppress \in Nat /\ Suppress >= 32767 /\ Suppress <= 65535
  /\ Inhibition \in Nat /\ Inhibition <= 65535 /\ PreCharge \in Int /\ Compete \in Int
<1>1. One = 256 /\ GateOne = 65535 /\ One <= SigMax
  BY EngineUnits, SMT
<1>2. Suppress \in Nat /\ Inhibition \in Nat /\ Suppress <= GateOne /\ Inhibition <= GateOne
  BY EngineUnits, SMT
<1>3. PreCharge \in Int /\ Compete \in Int
  BY EngineUnits, SMT
<1> QED BY <1>1, <1>2, <1>3, EngineSuppression, Sizes

(* The limits of the weights, and the fatigue of the router.               *)
LEMMA Weights ==
  /\ WMin \in Int /\ W0 \in Int /\ WMax \in Int /\ Ltp \in Int /\ Ltd \in Int
  /\ WMin <= W0 /\ W0 <= WMax /\ -SigMax <= WMin /\ WMax <= SigMax
  /\ Base \in Nat /\ Fatigue \in Nat
  /\ Fatigue >= FatigueDecay - 1 /\ Base + FatigueDecay - 1 <= SigMax
<1>1. {WMin, W0, WMax, Ltp, Ltd} \subseteq Int
  BY EngineWeights, Zenon
<1>2. {Base, Fatigue, Novelty, Contradiction, Unresolved, Confidence} \subseteq Nat
  BY EngineFatigue, Zenon
<1> QED BY <1>1, <1>2, EngineWeights, EngineFatigue, Zenon

(* A part of a, in units of 65536, which when it is rounded down or to the *)
(* nearest is between zero and a.                                          *)
Part(c, a) == /\ c \in Int
              /\ a >= 0 => c >= 0 /\ a * 65535 - c >= 0
              /\ a < 0 => c <= 0 /\ a * 65535 - c <= 0

(* What is left of a number multiplied with a fraction below one.          *)
LEMMA FractionQ16 ==
  ASSUME NEW a \in Int, NEW b \in Q0_16
  PROVE  Part(a * b, a)
<1>0. b \in Nat /\ b <= 65535
  BY DEF Q0_16
<1>1. a * b \in Int
  BY <1>0, SMT
<1>2. a >= 0 => a * b >= 0 /\ a * (65535 - b) >= 0
  BY <1>0, SMT
<1>3. a < 0 => a * b <= 0 /\ a * (65535 - b) <= 0
  BY <1>0, SMT
<1>4. a * (65535 - b) = a * 65535 - a * b
  BY <1>0, SMT
<1> QED BY <1>1, <1>2, <1>3, <1>4 DEF Part

(* Rounding keeps the order.                                               *)
LEMMA RoundQ16 ==
  ASSUME NEW a \in Int, NEW c, Part(c, a)
  PROVE  /\ c \div 65536 \in Int /\ (c + 32768) \div 65536 \in Int
         /\ a >= 0 => c \div 65536 \in 0..a /\ (c + 32768) \div 65536 \in 0..a
         /\ a < 0 => c \div 65536 \in a..0 /\ (c + 32768) \div 65536 \in a..0
  BY SMT DEF Part

(* The quotient by a positive number.                                      *)
LEMMA Quotient ==
  ASSUME NEW a \in Int, NEW m \in Nat \ {0}
  PROVE  /\ a \div m \in Int
         /\ a >= 0 => a \div m \in 0..a
         /\ a < 0 => a \div m \in a..(-1)
         /\ m * (a \div m) <= a /\ a < m * (a \div m) + m
<1>1. a \div m \in Int /\ m * (a \div m) <= a /\ a < m * (a \div m) + m
  BY SMT
<1>2. PICK q \in Int : q = a \div m
  BY <1>1
<1>3. m * q <= a /\ a < m * q + m
  BY <1>1, <1>2
<1>4. a >= 0 => q >= 0
  BY <1>3, SMT
<1>5. q >= 0 => m * q >= q
  BY SMT
<1>6. a < 0 => q <= -1
  BY <1>3, SMT
<1>7. a < 0 => q >= a
  <2>1. (a < 0 /\ q < a) => m * (a - q) >= a - q
    BY SMT
  <2>2. CASE a < 0 /\ q < a
    <3>1. m * (a - q - 1) >= 0
      BY <2>2, SMT
    <3>2. m * (a - q - 1) = m * a - m * q - m
      BY SMT
    <3>3. m * a <= a
      BY <2>2, SMT
    <3> QED BY <3>1, <3>2, <3>3, <1>3, SMT
  <2> QED BY <2>2, SMT
<1> QED BY <1>1, <1>2, <1>3, <1>4, <1>5, <1>6, <1>7, SMT

(* The smaller of two numbers.                                             *)
LEMMA MinOfTwo ==
  ASSUME NEW a \in Int, NEW b \in Int
  PROVE  Min({a, b}) \in {a, b} /\ Min({a, b}) <= a /\ Min({a, b}) <= b
<1>1. \E x \in {a, b} : \A y \in {a, b} : x <= y
  OBVIOUS
<1>2. Min({a, b}) = CHOOSE x \in {a, b} : \A y \in {a, b} : x <= y
  BY DEF Min
<1> QED BY <1>1, <1>2

(* Saturating addition stays within the range, and is addition there.      *)
LEMMA SatAddRange ==
  ASSUME NEW a \in Q8_8, NEW b \in Int
  PROVE  /\ Bag!SatAdd(a, b) \in Q8_8
         /\ b <= 0 => Bag!SatAdd(a, b) <= a
         /\ b >= 0 => Bag!SatAdd(a, b) >= a
         /\ Bag!SatAdd(a, b) <= a + b \/ Bag!SatAdd(a, b) = -SigMax - 1
         /\ Bag!SatAdd(a, b) >= a + b \/ Bag!SatAdd(a, b) = SigMax
  BY Sizes DEF Bag!SatAdd, Q8_8

(* Suppression leaves between nothing and all of a charge, and less than   *)
(* it takes to fire of a charge that could fire once.                      *)
LEMMA SuppressedRange ==
  ASSUME NEW v \in Q8_8
  PROVE  Suppressed(v) \in Q8_8 /\ (v < 2 * One => Suppressed(v) < One)
<1>0. PICK s \in Nat : s = 65535 - Suppress
  BY Units
<1>1. s <= 32768 /\ s <= 65535 /\ v \in Int /\ SigMax \in Nat /\ One = 256
  BY <1>0, Units, Sizes DEF Q8_8
<1>11. v \in Int /\ s \in Q0_16
  BY <1>1 DEF Q0_16
<1>2. Part(v * s, v)
  BY <1>11, FractionQ16, Zenon
<1>3. v \div 65536 \in Int /\ (v * s) \div 65536 \in Int
      /\ (v >= 0 => (v * s) \div 65536 \in 0..v) /\ (v < 0 => (v * s) \div 65536 \in v..0)
  BY <1>1, <1>2, RoundQ16
<1>4. Suppressed(v) = (v * s) \div 65536
  BY <1>0 DEF Suppressed
<1>5. v >= 0 => v * (32768 - s) >= 0
  BY <1>1, SMT
<1>6. v * (32768 - s) = v * 32768 - v * s
  BY <1>1, SMT
<1>7. v * s \in Int
  BY <1>1, SMT
<1>8. \A c \in Int : v >= 0 /\ v * 32768 - c >= 0 /\ v < 512 => c \div 65536 < 256
  BY <1>1, SMT
<1>9. v >= 0 /\ v < 512 => (v * s) \div 65536 < 256
  BY <1>5, <1>6, <1>7, <1>8
<1> QED BY <1>1, <1>3, <1>4, <1>9 DEF Q8_8

(* Inhibition and leak take from a charge, towards zero.                   *)
LEMMA InhibitionRange ==
  ASSUME NEW v \in Q8_8
  PROVE  LET w == (v * (65535 - Inhibition)) \div 65536
         IN  w \in Q8_8 /\ (v < One => w < One)
<1> DEFINE s == 65535 - Inhibition
<1>1. s \in Nat /\ s <= 65535 /\ v \in Int /\ SigMax \in Nat /\ One = 256
  BY Units, Sizes DEF Q8_8
<1> HIDE DEF s
<1>11. v \in Int /\ s \in Q0_16
  BY <1>1 DEF Q0_16
<1>2. Part(v * s, v)
  BY <1>11, FractionQ16, Zenon
<1>3. /\ (v * s) \div 65536 \in Int
      /\ (v >= 0 => (v * s) \div 65536 \in 0..v) /\ (v < 0 => (v * s) \div 65536 \in v..0)
  BY <1>1, <1>2, RoundQ16
<1>4. (v * s) \div 65536 \in Q8_8 /\ (v < One => (v * s) \div 65536 < One)
  BY <1>1, <1>3 DEF Q8_8
<1> QED BY <1>4 DEF s

(* The leak takes from a charge, towards zero.                             *)
LEMMA LeakRange ==
  ASSUME NEW v \in Q8_8
  PROVE  Leaked(v) \in Q8_8 /\ (v < One => Leaked(v) < One)
<1>1. v \in Int /\ SigMax \in Nat /\ One = 256 /\ Leak \in Nat \ {0}
  BY Units, Sizes DEF Q8_8
<1>2. /\ v \div Leak \in Int
      /\ v >= 0 => v \div Leak \in 0..v
      /\ v < 0 => v \div Leak \in v..(-1)
  BY <1>1, Quotient
<1> QED BY <1>1, <1>2 DEF Q8_8, Leaked

(* The decay of the threshold stops where FatigueRemains says.             *)
LEMMA DecayRange ==
  ASSUME NEW t \in Base..SigMax
  PROVE  /\ Decayed(t) \in Base..t
         /\ t = Base => Decayed(t) = Base
         /\ t >= Base + FatigueDecay - 1 => Decayed(t) >= Base + FatigueDecay - 1
<1> DEFINE x == t - Base
           q == x \div FatigueDecay
<1>1. x \in Nat /\ t \in Int /\ Base \in Nat /\ SigMax \in Nat /\ FatigueDecay \in Nat \ {0}
  BY Sizes, Weights
<1>2. Decayed(t) = t - q /\ x = t - Base
  BY DEF Decayed
<1> HIDE DEF x
<1>3. q \in 0..x /\ FatigueDecay * q <= x /\ x < FatigueDecay * q + FatigueDecay
  BY <1>1, Quotient
<1> HIDE DEF q
<1>4. q >= 1 => (FatigueDecay - 1) * q >= FatigueDecay - 1
  BY <1>1, <1>3, SMT
<1>5. (FatigueDecay - 1) * q = FatigueDecay * q - q
  BY <1>1, <1>3, SMT
<1>6. x >= FatigueDecay - 1 => x - q >= FatigueDecay - 1
  BY <1>1, <1>3, <1>4, <1>5
<1> QED BY <1>1, <1>2, <1>3, <1>6

(* A whole charge, by its number.                                          *)
LEMMA OneIs == One = 256 /\ SigMax >= 256
  BY Units

(* A gate is open at most fully.                                           *)
LEMMA GateIs == GateOne \in Nat /\ GateOne <= 65535
  BY Units

(* The gate of an edge is a fraction.                                      *)
LEMMA GateFraction ==
  ASSUME NEW g \in 0..GateOne
  PROVE  g \in Q0_16
<1>1. GateOne \in Nat /\ GateOne <= 65535
  BY GateIs
<1>2. g \in Nat /\ g <= GateOne
  BY <1>1
<1> QED BY <1>1, <1>2 DEF Q0_16

(* The weight and the gate of an edge make a signal no larger than the     *)
(* weight, and so does a control node that is not fully charged.           *)
LEMMA ScaledRange ==
  ASSUME NEW e, weight[e] \in Int, e.gate \in 0..GateOne
  PROVE  /\ Scaled(e) \in Int
         /\ weight[e] >= 0 => Scaled(e) \in 0..weight[e]
         /\ weight[e] < 0 => Scaled(e) \in weight[e]..0
<1>1. PICK w \in Int : w = weight[e]
  OBVIOUS
<1>2. PICK g \in Q0_16 : g = e.gate
  BY GateFraction
<1>3. Part(w * g, w)
  BY FractionQ16, Zenon
<1>4. /\ (w * g + 32768) \div 65536 \in Int
      /\ w >= 0 => (w * g + 32768) \div 65536 \in 0..w
      /\ w < 0 => (w * g + 32768) \div 65536 \in w..0
  BY <1>3, RoundQ16
<1>5. (One * w) \div 256 = w
  BY OneIs
<1>6. Scaled(e) = (w * g + 32768) \div 65536
  BY <1>1, <1>2, <1>5 DEF Scaled
<1> QED BY <1>1, <1>4, <1>6

(* Nor does a control node make the signal larger.                         *)
LEMMA ConductedRange ==
  ASSUME NEW e, weight[e] \in Int, e.gate \in 0..GateOne,
         e.ctrl = None \/ charge[e.ctrl] \in Int
  PROVE  /\ Conducted(e) \in Int
         /\ weight[e] >= 0 => Conducted(e) \in 0..weight[e]
         /\ weight[e] < 0 => Conducted(e) \in weight[e]..0
<1>1. CASE e.ctrl = None \/ charge[e.ctrl] >= 256
  BY <1>1, ScaledRange DEF Conducted
<1>2. CASE ~(e.ctrl = None \/ charge[e.ctrl] >= 256) /\ charge[e.ctrl] <= 0
  BY <1>2 DEF Conducted
<1>3. CASE ~(e.ctrl = None \/ charge[e.ctrl] >= 256) /\ ~(charge[e.ctrl] <= 0)
  <2>1. PICK c \in Nat : c = charge[e.ctrl] /\ c <= 255
    BY <1>3
  <2>2. PICK s \in Int : s = Scaled(e)
    BY ScaledRange
  <2>3. s * c \in Int
    BY SMT
  <2>4. s >= 0 => s * c >= 0 /\ s * (256 - c) >= 0
    BY <2>1, SMT
  <2>5. s < 0 => s * c <= 0 /\ s * (256 - c) <= 0
    BY <2>1, SMT
  <2>6. s * (256 - c) = s * 256 - s * c
    BY SMT
  <2>7. PICK x \in Int : x = s * c
    BY <2>3
  <2>8. /\ s >= 0 => x >= 0 /\ s * 256 - x >= 0
        /\ s < 0 => x <= 0 /\ s * 256 - x <= 0
    BY <2>4, <2>5, <2>6, <2>7
  <2>9. /\ s >= 0 => x \div 256 \in 0..s
        /\ s < 0 => -((-x) \div 256) \in s..0
    <3> HIDE <2>7
    <3> QED BY <2>8, SMT
  <2>10. Conducted(e) = IF x < 0 THEN -((-x) \div 256) ELSE x \div 256
    BY <1>3, <2>1, <2>2, <2>7 DEF Conducted
  <2>11. s < 0 /\ x >= 0 => x = 0
    BY <2>8
  <2>12. s >= 0 => ~(x < 0)
    BY <2>8
  <2>13. s < 0 => IF x < 0 THEN Conducted(e) \in s..0 ELSE Conducted(e) = 0
    BY <2>9, <2>10, <2>11
  <2>14. s >= 0 => Conducted(e) \in 0..s
    BY <2>9, <2>10, <2>12
  <2> QED BY <2>2, <2>13, <2>14, ScaledRange
<1> QED BY <1>1, <1>2, <1>3

(* A signal is a charge, of no more than one if the weight is.             *)
LEMMA SignalRange ==
  ASSUME NEW e, weight[e] \in WMin..WMax, e.gate \in 0..GateOne, e.blocker \in BOOLEAN,
         e.ctrl = None \/ charge[e.ctrl] \in Int
  PROVE  Signal(e) \in Q8_8 /\ (weight[e] <= One => Signal(e) <= One)
<1>1. weight[e] \in Int /\ weight[e] >= -SigMax /\ weight[e] <= SigMax
  BY Weights, Sizes
<1>2. /\ Conducted(e) \in Int
      /\ weight[e] >= 0 => Conducted(e) \in 0..weight[e]
      /\ weight[e] < 0 => Conducted(e) \in weight[e]..0
  BY <1>1, ConductedRange
<1>3. Magnitude(Conducted(e)) \in 0..SigMax
  BY <1>1, <1>2, Sizes DEF Magnitude
<1>4. Conducted(e) \in Q8_8 /\ (weight[e] <= One => Conducted(e) <= One)
  BY <1>1, <1>2, Sizes, OneIs DEF Q8_8
<1> QED BY <1>3, <1>4, Sizes, OneIs DEF Signal, Q8_8

(* Precharging stays below what it takes to fire.                          *)
LEMMA PreChargedRange ==
  ASSUME NEW v \in Q8_8
  PROVE  PreCharged(v) \in Q8_8 /\ PreCharged(v) < One
<1>1. Bag!SatAdd(v, PreCharge) \in Q8_8 /\ Theta = One
  BY Units, SatAddRange DEF Theta
<1>2. Bag!SatAdd(v, PreCharge) \in Int /\ Theta - 1 \in Int
  BY <1>1, Units, Sizes DEF Q8_8
<1>3. /\ PreCharged(v) \in {Bag!SatAdd(v, PreCharge), Theta - 1}
      /\ PreCharged(v) <= Theta - 1
  BY <1>2, MinOfTwo, Zenon DEF PreCharged
<1> QED BY <1>1, <1>2, <1>3, Units, Sizes DEF Q8_8

(* The steps of the engine.                                                *)
LEMMA Steps ==
  ASSUME [Next]_vars
  PROVE  \/ \E n \in Nodes : Activate(n)
         \/ \E q \in Queries : Query(q.source, q.target, q.relation)
         \/ \E e \in graph : Inject(e)
         \/ SetPredictionMode
         \/ \E n \in TickCounts : Ticks(n)
         \/ BeginTick
         \/ \E ev \in queue : Deliver(ev)
         \/ Send
         \/ EndTick
         \/ Apply
         \/ UNCHANGED vars
  BY Zenon DEF Next, TickStep

(* Commands come between ticks; a tick belongs to a TICK command.          *)
LEMMA TimesStep ==
  ASSUME TimesInv, [Next]_vars
  PROVE  TimesInv'
<1> USE Sizes DEF TimesInv, Bag!Phase
<1>1. ASSUME NEW n \in Nodes, Activate(n) \/ \E s, t, r : Query(s, t, r) /\ n = s
      PROVE  TimesInv'
  <2>1. Called /\ UNCHANGED <<tick, phase, sending, applying, idle, left>>
    BY <1>1 DEF Activate, Query, ActivateNode, Bag!Activate, nodeVars
  <2> QED BY <2>1 DEF Called
<1>2. ASSUME NEW q \in Queries, Query(q.source, q.target, q.relation)
      PROVE  TimesInv'
  <2>1. q.source \in Nodes
    BY EngineQueries
  <2> QED BY <1>1, <1>2, <2>1
<1>3. ASSUME NEW e \in graph, Inject(e)
      PROVE  TimesInv'
  BY <1>3 DEF Inject, Called, Bag!Activate, predictVars
<1>4. CASE SetPredictionMode
  BY <1>4 DEF SetPredictionMode, Called, bagVars, predictVars
<1>5. ASSUME NEW n \in TickCounts, Ticks(n)
      PROVE  TimesInv'
  BY <1>5 DEF Ticks, Called, bagVars, predictVars
<1>6. CASE BeginTick
  BY <1>6 DEF BeginTick, Bag!BeginTick, callVars
<1>7. ASSUME NEW ev \in queue, Deliver(ev)
      PROVE  TimesInv'
  <2>1. /\ Bag!Deliver(ev)
        /\ UNCHANGED <<applying, idle, left, calls>>
    BY <1>7 DEF Deliver, callVars
  <2>2. phase \in {"drain", "fire"} /\ phase' \in {phase, "fire"} /\ tick' = tick
    BY <2>1 DEF Bag!Deliver
  <2> QED BY <2>1, <2>2
<1>8. CASE Send
  <2>1. sending # {} /\ UNCHANGED <<tick, phase, applying, idle, left, calls>>
    BY <1>8 DEF Send, bagVars, Bag!Emit, predictVars, callVars
  <2> QED BY <2>1
<1>9. CASE EndTick
  <2>1. /\ phase \in {"drain", "fire"} /\ tick' = tick + 1 /\ phase' = "between"
        /\ sending = {} /\ left' = left - 1 /\ UNCHANGED <<sending, calls>> /\ Rest
    BY <1>9 DEF EndTick, Bag!EndTick
  <2>2. idle' \in 0..IdleTicks
    <3>1. CASE queue # {} \/ idle + 1 < IdleTicks
      BY <2>1, <3>1 DEF Rest
    <3>2. CASE ~(queue # {} \/ idle + 1 < IdleTicks)
      BY <2>1, <3>2 DEF Rest
    <3> QED BY <3>1, <3>2
  <2>3. applying' \in BOOLEAN
    BY <2>1, Zenon DEF Rest
  <2> QED BY <2>1, <2>2, <2>3
<1>10. CASE Apply
  BY <1>10 DEF Apply, bagVars, callVars
<1>11. CASE UNCHANGED vars
  BY <1>11 DEF vars, bagVars, callVars, predictVars
<1> QED BY <1>1, <1>2, <1>3, <1>4, <1>5, <1>6, <1>7, <1>8, <1>9, <1>10, <1>11, Steps

(* The events that a push or an emission may add.                          *)
New(key, due, sig) == [id : 1..Cap, key : {key}, due : {due}, sig : {sig}]
Merged(key, due, sig) ==
  {Bag!Combine(ev, due, sig) : ev \in {o \in queue : Bag!Mergeable(o, key, due)}}

(* A push adds at most the event that is pushed.                           *)
LEMMA PushEffect ==
  ASSUME QueueInv, NEW key, NEW due, NEW sig, Bag!Push(key, due, sig)
  PROVE  queue' \subseteq queue \cup New(key, due, sig)
<1>1. CASE Bag!Refuse(due, sig)
  BY <1>1 DEF Bag!Refuse
<1>2. CASE Bag!Insert(key, due, sig)
  <2>1. PICK id \in 1..Cap :
          queue' = queue \cup {[id |-> id, key |-> key, due |-> due, sig |-> sig]}
    BY <1>2, Zenon DEF Bag!Insert, Bag!Ids
  <2> QED BY <2>1 DEF New
<1>3. CASE Bag!Evict(key, due, sig)
  <2>1. PICK w \in queue :
          queue' = (queue \ {w}) \cup
                     {[id |-> w.id, key |-> key, due |-> due, sig |-> sig]}
    BY <1>3, Zenon DEF Bag!Evict
  <2>2. w.id \in 1..Cap
    BY DEF QueueInv
  <2> QED BY <2>1, <2>2 DEF New
<1> QED BY <1>1, <1>2, <1>3 DEF Bag!Push

(* An emission adds the event, or its signal to one that is pending.       *)
LEMMA EmitEffect ==
  ASSUME QueueInv, NEW key, NEW delay, NEW sig, Bag!Emit(key, delay, sig)
  PROVE  /\ queue' \subseteq queue \cup New(key, tick + delay, sig) \cup Merged(key, tick + delay, sig)
         /\ phase = "fire" /\ UNCHANGED <<tick, phase>>
<1>1. CASE Bag!Merge(key, tick + delay, sig)
  BY <1>1, Zenon DEF Bag!Merge, Merged, Bag!Emit
<1>2. CASE Bag!Push(key, tick + delay, sig)
  BY <1>2, PushEffect DEF Bag!Emit
<1> QED BY <1>1, <1>2 DEF Bag!Emit

(* A natural number that is not below another is at least as large.        *)
LEMMA NotBelow == \A x, y \in Nat : ~(y < x) => x <= y
  OBVIOUS

(* A nonempty set of natural numbers has a least element.                  *)
LEMMA LeastNat ==
  ASSUME NEW T, T \subseteq Nat, T # {}
  PROVE  \E x \in T : \A y \in T : x <= y
<1>1. \E x \in T : \A y \in T : ~(<<y, x>> \in OpToRel(<, Nat))
  BY NatLessThanWellFounded, WFMin, Zenon
<1>2. \A x \in T, y \in T : y < x => <<y, x>> \in OpToRel(<, Nat)
  BY Zenon DEF OpToRel
<1>3. \E x \in T : \A y \in T : ~(y < x)
  BY <1>1, <1>2, Zenon
<1> QED BY <1>3, NotBelow, Zenon

(* The edge that is sent along, and its signal.                            *)
LEMMA SendEffect ==
  ASSUME EdgesInv, Send
  PROVE  \E e \in sending :
           /\ sending' = sending \ {e}
           /\ \/ UNCHANGED <<bagVars, stability>>
              \/ /\ Bag!Emit(e, 1, Signal(e))
                 /\ stability' = [stability EXCEPT ![e] = Min({@ + 1, StabMax})]
           /\ UNCHANGED <<graph, weight, nodeVars, queryVars, predictVars, router, idle,
                          callVars, history>>
<1> DEFINE e == CHOOSE e \in sending : \A f \in sending : e.id <= f.id
<1>1. /\ sending # {} /\ sending' = sending \ {e}
      /\ IF Signal(e) = 0 THEN UNCHANGED <<bagVars, stability>>
         ELSE /\ Bag!Emit(e, 1, Signal(e)) /\ FirstFree
              /\ stability' = [stability EXCEPT ![e] = Min({@ + 1, StabMax})]
      /\ UNCHANGED <<graph, weight, nodeVars, queryVars, predictVars, router, idle,
                     callVars, history>>
  BY Zenon DEF Send
<1>2. \A f \in sending : f.id \in Nat
  BY EngineGraphs DEF EdgesInv
<1>3. \E i \in {f.id : f \in sending} : \A j \in {f.id : f \in sending} : i <= j
  <2>1. {f.id : f \in sending} \subseteq Nat /\ {f.id : f \in sending} # {}
    BY <1>1, <1>2, Zenon
  <2> QED BY <2>1, LeastNat, Zenon
<1>4. \E f \in sending : \A g \in sending : f.id <= g.id
  BY <1>3, Zenon
<1>5. e \in sending
  BY <1>4, Zenon
<1> HIDE DEF e
<1> QED BY <1>1, <1>5, Zenon

(* The graph does not grow.                                                *)
LEMMA SameGraph ==
  ASSUME [Next]_vars
  PROVE  graph' = graph
<1>1. ASSUME NEW n \in Nodes, Activate(n)
      PROVE  graph' = graph
  BY <1>1, Zenon DEF Activate, ActivateNode
<1>2. ASSUME NEW q \in Queries, Query(q.source, q.target, q.relation)
      PROVE  graph' = graph
  BY <1>2, Zenon DEF Query, ActivateNode
<1>3. ASSUME NEW e \in graph, Inject(e)
      PROVE  graph' = graph
  BY <1>3, Zenon DEF Inject
<1>4. CASE SetPredictionMode
  BY <1>4, Zenon DEF SetPredictionMode
<1>5. ASSUME NEW n \in TickCounts, Ticks(n)
      PROVE  graph' = graph
  BY <1>5, Zenon DEF Ticks
<1>6. CASE BeginTick
  BY <1>6, Zenon DEF BeginTick
<1>7. ASSUME NEW ev \in queue, Deliver(ev)
      PROVE  graph' = graph
  BY <1>7, Zenon DEF Deliver
<1>8. CASE Send
  BY <1>8, Zenon DEF Send
<1>9. CASE EndTick
  BY <1>9, Zenon DEF EndTick
<1>10. CASE Apply
  BY <1>10, Zenon DEF Apply
<1>11. CASE UNCHANGED vars
  BY <1>11, Zenon DEF vars
<1> QED BY <1>1, <1>2, <1>3, <1>4, <1>5, <1>6, <1>7, <1>8, <1>9, <1>10, <1>11, Steps, Zenon

(* An activation and an injected event are keys of events; no activation   *)
(* has the key of an edge.                                                 *)
LEMMA Keys ==
  ASSUME graph \in Graphs
  PROVE  /\ graph \subseteq KeysNow
         /\ \A n \in Nodes : ActivationOf(n) \in KeysNow /\ ActivationOf(n) \notin graph
         /\ \A n \in Nodes : ActivationOf(n).target = n
         /\ \A k \in KeysNow : k.target \in Nodes
         /\ \A k \in KeysNow \ graph : k = ActivationOf(k.target)
<1>1. \A e \in graph : e.source \in Nodes /\ e.target \in Nodes
  BY EngineGraphs
<1>2. None \notin Nodes
  BY EngineGraphs
<1>3. \A n \in Nodes : ActivationOf(n).source = None
  BY DEF ActivationOf
<1>4. \A n \in Nodes : ActivationOf(n) \notin graph
  BY <1>1, <1>2, <1>3
<1>5. \A k \in [source : {None}, target : Nodes] : k.target \in Nodes /\ k = ActivationOf(k.target)
  BY DEF ActivationOf
<1> QED BY <1>1, <1>4, <1>5 DEF KeysNow, ActivationOf

(* What may be pending after a step.                                       *)
LEMMA QueueChange ==
  ASSUME TimesInv, QueueInv, EdgesInv, NodesInv, [Next]_vars
  PROVE  \/ queue' \subseteq queue /\ tick' = tick
         \/ queue' = queue /\ EndTick
         \/ \E n \in Nodes : /\ Activate(n) \/ \E t, r : Query(n, t, r)
                             /\ queue' \subseteq queue \cup New(ActivationOf(n), tick, One)
                             /\ tick' = tick
         \/ \E e \in graph : Inject(e) /\ queue' \subseteq queue \cup New(e, tick, One)
                             /\ tick' = tick
         \/ \E e \in sending :
              /\ Send /\ sending' = sending \ {e} /\ tick' = tick
              /\ queue' \subseteq queue \cup New(e, tick + 1, Signal(e))
                                    \cup Merged(e, tick + 1, Signal(e))
<1> DEFINE Same == queue' \subseteq queue /\ tick' = tick
<1>1. ASSUME NEW n \in Nodes, Activate(n) \/ \E t, r : Query(n, t, r)
      PROVE  queue' \subseteq queue \cup New(ActivationOf(n), tick, One) /\ tick' = tick
  <2>1. Bag!Activate(ActivationOf(n), One)
    BY <1>1, Zenon DEF Activate, Query, ActivateNode, ActivationOf
  <2> QED BY <2>1, PushEffect, Zenon DEF Bag!Activate
<1>2. ASSUME NEW q \in Queries, Query(q.source, q.target, q.relation)
      PROVE  \E n \in Nodes : /\ \E t, r : Query(n, t, r)
                              /\ queue' \subseteq queue \cup New(ActivationOf(n), tick, One)
                              /\ tick' = tick
  BY <1>1, <1>2, EngineQueries, Zenon
<1>3. ASSUME NEW e \in graph, Inject(e)
      PROVE  queue' \subseteq queue \cup New(e, tick, One) /\ tick' = tick
  BY <1>3, PushEffect, Zenon DEF Inject, Bag!Activate
<1>4. CASE SetPredictionMode \/ Apply \/ UNCHANGED vars \/ \E n \in TickCounts : Ticks(n)
  <2>1. UNCHANGED bagVars
    BY <1>4, Zenon DEF SetPredictionMode, Apply, vars, Ticks
  <2> QED BY <2>1, Zenon DEF bagVars
<1>5. CASE BeginTick
  BY <1>5, Zenon DEF BeginTick, Bag!BeginTick
<1>6. ASSUME NEW ev \in queue, Deliver(ev)
      PROVE  Same
  <2>1. Bag!Deliver(ev)
    BY <1>6, Zenon DEF Deliver
  <2> QED BY <2>1, Zenon DEF Bag!Deliver
<1>7. CASE Send
  <2>1. PICK e \in sending :
           /\ sending' = sending \ {e}
           /\ UNCHANGED bagVars \/ Bag!Emit(e, 1, Signal(e))
    BY <1>7, SendEffect, Zenon
  <2>2. CASE UNCHANGED bagVars
    BY <2>2, Zenon DEF bagVars
  <2>3. CASE Bag!Emit(e, 1, Signal(e))
    <3>1. /\ queue' \subseteq queue \cup New(e, tick + 1, Signal(e))
                                 \cup Merged(e, tick + 1, Signal(e))
          /\ UNCHANGED <<tick, phase>>
      BY <2>3, EmitEffect, Zenon
    <3> QED BY <1>7, <2>1, <3>1, Zenon
  <2> QED BY <2>1, <2>2, <2>3, Zenon
<1>8. CASE EndTick
  BY <1>8, Zenon DEF EndTick, Bag!EndTick
<1> QED BY <1>1, <1>2, <1>3, <1>4, <1>5, <1>6, <1>7, <1>8, Steps, Zenon

EventsNow == [id : 1..Cap, key : KeysNow, due : tick..(tick + 1), sig : Q8_8]

(* An event that a step adds or merges has the types of an event.          *)
LEMMA MergedTyped ==
  ASSUME TimesInv, QueueInv, NEW key \in KeysNow, NEW due \in tick..(tick + 1), NEW sig \in Q8_8
  PROVE  New(key, due, sig) \subseteq EventsNow /\ Merged(key, due, sig) \subseteq EventsNow
<1>1. New(key, due, sig) \subseteq EventsNow
  BY DEF New, EventsNow
<1>2. ASSUME NEW ev \in queue
      PROVE  Bag!Combine(ev, due, sig) \in EventsNow
  <2>1. ev \in EventsNow
    BY DEF QueueInv, EventsNow
  <2>2. Bag!SatAdd(ev.sig, sig) \in Q8_8
    <3>1. ev.sig \in Q8_8 /\ sig \in Int
      BY <2>1, Sizes DEF EventsNow, Q8_8
    <3> QED BY <3>1, SatAddRange, Zenon
  <2>3. Bag!Combine(ev, due, sig) =
          [ev EXCEPT !.sig = Bag!SatAdd(ev.sig, sig),
                     !.due = IF due < ev.due THEN due ELSE ev.due]
    BY Zenon DEF Bag!Combine
  <2>4. (IF due < ev.due THEN due ELSE ev.due) \in tick..(tick + 1)
    BY <2>1 DEF EventsNow
  <2> QED BY <2>1, <2>2, <2>3, <2>4 DEF EventsNow
<1> QED BY <1>1, <1>2 DEF Merged

(* A step keeps what is pending well formed, and due in time.              *)
LEMMA QueueStep ==
  ASSUME TimesInv, QueueInv, EdgesInv, NodesInv, [Next]_vars
  PROVE  QueueInv'
<1>1. tick \in Nat /\ KeysNow' = KeysNow
  BY SameGraph DEF TimesInv, KeysNow
<1>2. tick' = tick => (QueueInv' <=> queue' \subseteq EventsNow)
  BY <1>1 DEF QueueInv, EventsNow
<1>3. queue \subseteq EventsNow
  BY DEF QueueInv, EventsNow
<1>4. CASE queue' \subseteq queue /\ tick' = tick
  BY <1>2, <1>3, <1>4
<1>5. CASE queue' = queue /\ EndTick
  <2>1. tick' = tick + 1 /\ \A ev \in queue : ev.due > tick
    BY <1>5 DEF EndTick, Bag!EndTick
  <2>2. ASSUME NEW ev \in queue
        PROVE  ev \in [id : 1..Cap, key : KeysNow, due : tick'..(tick' + 1), sig : Q8_8]
    <3>1. ev \in EventsNow /\ ev.due > tick
      BY <1>3, <2>1
    <3> QED BY <2>1, <3>1, <1>1 DEF EventsNow
  <2> QED BY <1>1, <1>5, <2>2 DEF QueueInv
<1>6. One \in Q8_8 /\ tick \in tick..(tick + 1) /\ tick + 1 \in tick..(tick + 1)
  BY <1>1, Units, Sizes DEF Q8_8
<1>7. ASSUME NEW n \in Nodes, queue' \subseteq queue \cup New(ActivationOf(n), tick, One),
             tick' = tick
      PROVE  QueueInv'
  <2>1. ActivationOf(n) \in KeysNow
    BY Keys DEF EdgesInv
  <2> QED BY <1>2, <1>3, <1>6, <1>7, <2>1, MergedTyped, Zenon
<1>8. ASSUME NEW e \in graph, queue' \subseteq queue \cup New(e, tick, One), tick' = tick
      PROVE  QueueInv'
  <2>1. e \in KeysNow
    BY Keys DEF EdgesInv
  <2> QED BY <1>2, <1>3, <1>6, <1>8, <2>1, MergedTyped, Zenon
<1>9. ASSUME NEW e \in sending, tick' = tick,
             queue' \subseteq queue \cup New(e, tick + 1, Signal(e))
                                    \cup Merged(e, tick + 1, Signal(e))
      PROVE  QueueInv'
  <2>1. e \in KeysNow /\ e \in graph
    BY Keys DEF EdgesInv
  <2>2. /\ weight[e] \in WMin..WMax /\ e.gate \in 0..GateOne /\ e.blocker \in BOOLEAN
        /\ e.ctrl = None \/ charge[e.ctrl] \in Q8_8
    BY <2>1, EngineGraphs DEF EdgesInv, NodesInv
  <2>3. e.ctrl = None \/ charge[e.ctrl] \in Int
    BY <2>2, Sizes DEF Q8_8
  <2>4. Signal(e) \in Q8_8
    BY <2>2, <2>3, SignalRange
  <2> QED BY <1>2, <1>3, <1>6, <1>9, <2>1, <2>4, MergedTyped, Zenon
<1> QED BY <1>4, <1>5, <1>7, <1>8, <1>9, QueueChange, Zenon

(* What a delivery computes.                                               *)
Target(ev) == ev.key.target
Sum(ev) == Bag!SatAdd(charge[Target(ev)], ev.sig)
ChargeOf(ev) == IF IsSuppressed(Target(ev), ev.sig) THEN Suppressed(Sum(ev)) ELSE Sum(ev)
FiresOn(ev) == Fires(Target(ev), ChargeOf(ev))
ResolvedBy(ev) == IF IsEdge(ev) THEN FirstPending ELSE {}
KindOf(ev) == IF IsSuppressed(Target(ev), ev.sig) THEN "suppressed" ELSE "used"
RecordsOf(ev) ==
  IF IsEdge(ev)
  THEN Recorded(Marked(traces, {expected[i].edge : i \in ResolvedBy(ev)}, Verdict(ev.key)),
                Record(ev.key, KindOf(ev)))
  ELSE traces
NextOf(ev) == IF FiresOn(ev) THEN Expecting(Target(ev), expected) ELSE {}
ChargesOf(ev) ==
  [charge EXCEPT ![Target(ev)] = IF FiresOn(ev) THEN 0 ELSE ChargeOf(ev)]

(* A delivery, by the definitions above.                                   *)
LEMMA DeliverEffect ==
  ASSUME NEW ev \in queue, Deliver(ev)
  PROVE  /\ sending = {} /\ Bag!Deliver(ev)
         /\ lastFired' = IF FiresOn(ev) THEN [lastFired EXCEPT ![Target(ev)] = tick] ELSE lastFired
         /\ sending' = IF FiresOn(ev) /\ ~predicting THEN OutOf(Target(ev)) ELSE {}
         /\ muffled' = IF IsEdge(ev) /\ IsSuppressed(Target(ev), ev.sig)
                       THEN muffled \cup {tag} ELSE muffled
         /\ deltas' = Learnt(ResolvedBy(ev), Verdict(ev.key))
         /\ Expect(NextOf(ev), Settled(ResolvedBy(ev), Verdict(ev.key)), RecordsOf(ev),
                   ChargesOf(ev))
         /\ LET ns == MarkActive(active, Target(ev))
            IN  active' = IF NextOf(ev) = {} THEN ns
                          ELSE MarkActive(ns, (CHOOSE e \in NextOf(ev) : TRUE).target)
         /\ UNCHANGED <<graph, weight, stability, queryVars, applying, router, idle, callVars,
                        opened>>
         /\ UNCHANGED tick
  BY Zenon DEF Deliver, Target, Sum, ChargeOf, FiresOn, ResolvedBy, KindOf, RecordsOf, NextOf, ChargesOf,
     Bag!Deliver

PrechargedAt(vs, e) == [vs EXCEPT ![e.target] = PreCharged(@)]

(* Expecting an edge: it is remembered, recorded and its target precharged. *)
LEMMA ExpectEffect ==
  ASSUME NEW next, NEW exps, NEW recs, NEW vs, Expect(next, exps, recs, vs)
  PROVE  \/ next = {} /\ expected' = exps /\ traces' = recs /\ charge' = vs
         \/ \E e \in next :
              /\ expected' = Append(exps, [edge |-> e, tick |-> tick, tag |-> tag,
                                           fate |-> "pending"])
              /\ traces' = Recorded(recs, Record(e, "expected"))
              /\ charge' = PrechargedAt(vs, e)
<1>1. CASE next = {}
  BY <1>1, Zenon DEF Expect
<1>2. CASE next # {}
  <2>1. (CHOOSE e \in next : TRUE) \in next
    BY <1>2, Zenon
  <2> QED BY <1>2, <2>1, Zenon DEF Expect, PrechargedAt
<1> QED BY <1>1, <1>2

(* The charge of the target of an event.                                   *)
LEMMA ChargeRange ==
  ASSUME QueueInv, EdgesInv, NodesInv, NEW ev \in queue
  PROVE  /\ Target(ev) \in Nodes /\ ev.sig \in Q8_8 /\ Sum(ev) \in Q8_8 /\ ChargeOf(ev) \in Q8_8
         /\ FiresOn(ev) \in BOOLEAN
         /\ ChargesOf(ev) \in [Nodes -> Q8_8]
<1>1. ev.key \in KeysNow /\ ev.sig \in Q8_8
  BY DEF QueueInv
<1>2. Target(ev) \in Nodes
  BY <1>1, Keys DEF Target, EdgesInv
<1>3. charge[Target(ev)] \in Q8_8 /\ ev.sig \in Int
  BY <1>1, <1>2, Sizes DEF NodesInv, Q8_8
<1>4. Sum(ev) \in Q8_8
  BY <1>3, SatAddRange, Zenon DEF Sum
<1>5. ChargeOf(ev) \in Q8_8
  BY <1>4, SuppressedRange, Zenon DEF ChargeOf
<1>6. 0 \in Q8_8
  BY Sizes DEF Q8_8
<1>7. ChargesOf(ev) \in [Nodes -> Q8_8]
  BY <1>2, <1>5, <1>6 DEF ChargesOf, NodesInv
<1>8. FiresOn(ev) \in BOOLEAN
  BY Zenon DEF FiresOn, Fires
<1> QED BY <1>1, <1>2, <1>4, <1>5, <1>7, <1>8

(* The edges a node may expect go out from it.                             *)
LEMMA NextRange ==
  ASSUME NEW ev \in queue
  PROVE  /\ NextOf(ev) \subseteq OutOf(Target(ev)) /\ NextOf(ev) \subseteq graph
         /\ NextOf(ev) # {} => Len(expected) < ExpectCap
         /\ OutOf(Target(ev)) \subseteq graph
  BY Zenon DEF NextOf, Expecting, Chosen, OutOf

(* Precharging keeps the charges in their range.                           *)
LEMMA ExpectedCharge ==
  ASSUME EdgesInv, NEW vs \in [Nodes -> Q8_8], NEW e \in graph
  PROVE  PrechargedAt(vs, e) \in [Nodes -> Q8_8]
<1>1. e.target \in Nodes
  BY EngineGraphs DEF EdgesInv
<1>2. PreCharged(vs[e.target]) \in Q8_8
  BY <1>1, PreChargedRange
<1> QED BY <1>1, <1>2 DEF PrechargedAt

(* The charges after the leak of a tick.                                   *)
LeakedCharges == [n \in Nodes |-> IF n \in active THEN Leaked(charge[n]) ELSE charge[n]]

(* The end of a tick takes from charges, and makes none that could fire.   *)
LEMMA EndCharge ==
  ASSUME NodesInv, EndTick
  PROVE  /\ charge' \in [Nodes -> Q8_8]
         /\ \A n \in Nodes : charge[n] < One => charge'[n] < One
<1>1. \A n \in Nodes : /\ charge[n] \in Q8_8 /\ Leaked(charge[n]) \in Q8_8
                       /\ charge[n] < One => Leaked(charge[n]) < One
  BY LeakRange DEF NodesInv
<1>2. /\ LeakedCharges \in [Nodes -> Q8_8]
      /\ \A n \in Nodes : charge[n] < One => LeakedCharges[n] < One
  BY <1>1, Zenon DEF LeakedCharges
<1>3. IF Deciding THEN Decide(LeakedCharges) ELSE charge' = LeakedCharges
  BY Zenon DEF EndTick, LeakedCharges
<1>4. ASSUME Decide(LeakedCharges)
      PROVE  \/ charge' = LeakedCharges
             \/ \E ns, w : charge' = Inhibited(LeakedCharges, ns, w)
  BY <1>4, Zenon DEF Decide
<1> HIDE DEF LeakedCharges
<1>5. ASSUME NEW ns, NEW w
      PROVE  /\ Inhibited(LeakedCharges, ns, w) \in [Nodes -> Q8_8]
             /\ \A n \in Nodes : LeakedCharges[n] < One => Inhibited(LeakedCharges, ns, w)[n] < One
  <2>1. \A n \in Nodes :
          /\ (LeakedCharges[n] * (65535 - Inhibition)) \div 65536 \in Q8_8
          /\ LeakedCharges[n] < One
               => (LeakedCharges[n] * (65535 - Inhibition)) \div 65536 < One
    BY <1>2, InhibitionRange
  <2> DEFINE Less(v) == (v * (65535 - Inhibition)) \div 65536
  <2>2. Inhibited(LeakedCharges, ns, w) =
          [n \in Nodes |-> IF n \in ns \ {w} /\ LeakedCharges[n] >= Compete
                           THEN Less(LeakedCharges[n]) ELSE LeakedCharges[n]]
    BY DEF Inhibited
  <2>3. \A n \in Nodes : /\ Less(LeakedCharges[n]) \in Q8_8
                         /\ LeakedCharges[n] < One => Less(LeakedCharges[n]) < One
    BY <2>1
  <2> HIDE DEF Less
  <2> QED BY <1>2, <2>2, <2>3
<1>6. CASE charge' = LeakedCharges
  BY <1>2, <1>6, Zenon
<1>7. CASE \E ns, w : charge' = Inhibited(LeakedCharges, ns, w)
  <2>1. PICK ns, w : charge' = Inhibited(LeakedCharges, ns, w)
    BY <1>7
  <2>2. /\ Inhibited(LeakedCharges, ns, w) \in [Nodes -> Q8_8]
        /\ \A n \in Nodes : LeakedCharges[n] < One => Inhibited(LeakedCharges, ns, w)[n] < One
    BY <1>5
  <2>3. charge' \in [Nodes -> Q8_8] /\ \A n \in Nodes : LeakedCharges[n] < One => charge'[n] < One
    BY <2>1, <2>2, Zenon
  <2> QED BY <1>2, <2>3, Zenon
<1> QED BY <1>3, <1>4, <1>6, <1>7, Zenon

(* Who changes the charges, and when nodes fired.                          *)
LEMMA NodeChange ==
  ASSUME [Next]_vars
  PROVE  \/ EndTick /\ UNCHANGED lastFired
         \/ \E ev \in queue : Deliver(ev)
         \/ /\ UNCHANGED <<charge, lastFired, tick>>
            /\ phase' = phase \/ phase' = "drain"
<1> DEFINE Same == UNCHANGED <<charge, lastFired, tick>> /\ (phase' = phase \/ phase' = "drain")
<1>1. ASSUME NEW n \in Nodes, Activate(n) \/ \E t, r : Query(n, t, r)
      PROVE  Same
  BY <1>1, Zenon DEF Activate, Query, ActivateNode, Bag!Activate, nodeVars
<1>2. ASSUME NEW q \in Queries, Query(q.source, q.target, q.relation)
      PROVE  Same
  BY <1>1, <1>2, EngineQueries, Zenon
<1>3. ASSUME NEW e \in graph, Inject(e)
      PROVE  Same
  BY <1>3, Zenon DEF Inject, Bag!Activate, nodeVars
<1>4. CASE SetPredictionMode \/ Apply \/ UNCHANGED vars \/ \E n \in TickCounts : Ticks(n)
  BY <1>4, Zenon DEF SetPredictionMode, Apply, vars, Ticks, bagVars, nodeVars
<1>5. CASE BeginTick
  BY <1>5, Zenon DEF BeginTick, Bag!BeginTick
<1>6. CASE Send
  BY <1>6, Zenon DEF Send, bagVars, Bag!Emit, nodeVars
<1>7. CASE EndTick
  BY <1>7, Zenon DEF EndTick
<1> QED BY <1>1, <1>2, <1>3, <1>4, <1>5, <1>6, <1>7, Steps, Zenon

(* A step keeps the charges, and when nodes fired, in their ranges.        *)
LEMMA NodesStep ==
  ASSUME TimesInv, QueueInv, EdgesInv, NodesInv, [Next]_vars
  PROVE  NodesInv'
<1>1. tick \in Nat /\ Refractory \in Nat
  BY Sizes DEF TimesInv
<1>11. \A n \in Nodes : lastFired[n] \in Int /\ -Refractory <= lastFired[n] /\ lastFired[n] <= tick
  <2>1. \A n \in Nodes : lastFired[n] \in -Refractory..tick
    BY Zenon DEF NodesInv
  <2> QED BY <1>1, <2>1
<1>2. CASE EndTick /\ UNCHANGED lastFired
  <2>1. charge' \in [Nodes -> Q8_8] /\ tick' = tick + 1
    BY <1>2, EndCharge DEF EndTick, Bag!EndTick
  <2>2. lastFired' = lastFired /\ lastFired' \in [Nodes -> Int]
    BY <1>2 DEF NodesInv
  <2>3. \A n \in Nodes : lastFired'[n] \in -Refractory..tick' /\ lastFired'[n] < tick'
    BY <1>1, <1>11, <2>1, <2>2
  <2> QED BY <2>1, <2>2, <2>3 DEF NodesInv
<1>3. ASSUME NEW ev \in queue, Deliver(ev)
      PROVE  NodesInv'
  <2>1. /\ tick' = tick /\ phase' # "between"
        /\ lastFired' = IF FiresOn(ev) THEN [lastFired EXCEPT ![Target(ev)] = tick] ELSE lastFired
        /\ Expect(NextOf(ev), Settled(ResolvedBy(ev), Verdict(ev.key)), RecordsOf(ev), ChargesOf(ev))
    BY <1>3, DeliverEffect DEF Bag!Deliver
  <2>2. Target(ev) \in Nodes /\ ChargesOf(ev) \in [Nodes -> Q8_8]
    BY ChargeRange
  <2>3. \A n \in Nodes : lastFired'[n] \in -Refractory..tick
    <3>1. tick \in -Refractory..tick
      BY <1>1
    <3>2. CASE FiresOn(ev)
      BY <1>1, <1>11, <2>1, <2>2, <3>1, <3>2 DEF NodesInv
    <3>3. CASE ~FiresOn(ev)
      BY <1>1, <1>11, <2>1, <3>3
    <3> QED BY <3>2, <3>3
  <2>4. lastFired' \in [Nodes -> Int]
    BY <1>1, <2>1, <2>2 DEF NodesInv
  <2>5. \/ charge' = ChargesOf(ev)
        \/ \E e \in NextOf(ev) : charge' = PrechargedAt(ChargesOf(ev), e)
    BY <2>1, ExpectEffect, Zenon
  <2>6. charge' \in [Nodes -> Q8_8]
    BY <2>2, <2>5, NextRange, ExpectedCharge, Zenon
  <2> QED BY <2>1, <2>3, <2>4, <2>6 DEF NodesInv
<1>4. CASE /\ UNCHANGED <<charge, lastFired, tick>>
           /\ phase' = phase \/ phase' = "drain"
  BY <1>4 DEF NodesInv
<1> QED BY <1>2, <1>3, <1>4, NodeChange

(* A weight stays within its limits.                                       *)
LEMMA ClampedRange ==
  ASSUME NEW w \in Int
  PROVE  Clamped(w) \in WMin..WMax
  BY Weights DEF Clamped

(* Only applying changes weights, only sending makes edges stable, and     *)
(* only a node that fires has edges to send along.                         *)
LEMMA EdgesChange ==
  ASSUME EdgesInv, [Next]_vars
  PROVE  \/ Apply /\ UNCHANGED <<stability, sending>>
         \/ \E e \in sending :
              /\ sending' = sending \ {e} /\ UNCHANGED weight
              /\ \/ UNCHANGED stability
                 \/ stability' = [stability EXCEPT ![e] = Min({@ + 1, StabMax})]
         \/ \E ev \in queue : Deliver(ev) /\ UNCHANGED <<weight, stability>>
         \/ UNCHANGED <<weight, stability, sending>>
<1>1. ASSUME NEW n \in Nodes, Activate(n) \/ \E t, r : Query(n, t, r)
      PROVE  UNCHANGED <<weight, stability, sending>>
  BY <1>1, Zenon DEF Activate, Query, ActivateNode
<1>2. ASSUME NEW q \in Queries, Query(q.source, q.target, q.relation)
      PROVE  UNCHANGED <<weight, stability, sending>>
  BY <1>1, <1>2, EngineQueries, Zenon
<1>3. ASSUME NEW e \in graph, Inject(e)
      PROVE  UNCHANGED <<weight, stability, sending>>
  BY <1>3, Zenon DEF Inject
<1>4. CASE SetPredictionMode \/ UNCHANGED vars \/ (\E n \in TickCounts : Ticks(n)) \/ BeginTick
           \/ EndTick
  BY <1>4, Zenon DEF SetPredictionMode, vars, Ticks, BeginTick, EndTick
<1>5. ASSUME NEW ev \in queue, Deliver(ev)
      PROVE  UNCHANGED <<weight, stability>>
  BY <1>5, Zenon DEF Deliver
<1>6. CASE Send
  <2>1. PICK e \in sending :
           /\ sending' = sending \ {e}
           /\ \/ UNCHANGED <<bagVars, stability>>
              \/ stability' = [stability EXCEPT ![e] = Min({@ + 1, StabMax})]
           /\ UNCHANGED weight
    BY <1>6, SendEffect, Zenon
  <2> QED BY <2>1, Zenon
<1>7. CASE Apply
  BY <1>7, Zenon DEF Apply
<1> QED BY <1>1, <1>2, <1>3, <1>4, <1>5, <1>6, <1>7, Steps, Zenon

(* A step keeps the weights and the counts of the edges in their limits.   *)
LEMMA EdgesStep ==
  ASSUME QueueInv, EdgesInv, NodesInv, ExpectInv, [Next]_vars
  PROVE  EdgesInv'
<1>1. graph' = graph /\ graph' \in Graphs
  BY SameGraph DEF EdgesInv
<1>2. CASE Apply /\ UNCHANGED <<stability, sending>>
  <2>1. /\ weight' = [weight EXCEPT ![deltas[1].edge] = Clamped(@ + deltas[1].by)]
        /\ applying
    BY <1>2 DEF Apply
  <2>2. deltas[1].by \in Int
    <3>1. deltas # <<>> /\ deltas \in Seq([edge : graph, by : {Ltp, Ltd}])
      BY <2>1 DEF ExpectInv
    <3>2. 1 \in 1..Len(deltas)
      BY <3>1, EmptySeq
    <3>3. deltas[1] \in [edge : graph, by : {Ltp, Ltd}]
      BY <3>1, <3>2, ElementOfSeq, Zenon
    <3> QED BY <3>3, Weights
  <2>3. \A e \in graph : weight[e] \in Int
    BY Weights DEF EdgesInv
  <2>4. \A e \in graph : Clamped(weight[e] + deltas[1].by) \in WMin..WMax
    BY <2>2, <2>3, ClampedRange
  <2>5. weight' \in [graph -> WMin..WMax]
    BY <2>1, <2>4 DEF EdgesInv
  <2> QED BY <1>1, <1>2, <2>5 DEF EdgesInv
<1>3. ASSUME NEW e \in sending, sending' = sending \ {e}, UNCHANGED weight,
             \/ UNCHANGED stability
             \/ stability' = [stability EXCEPT ![e] = Min({@ + 1, StabMax})]
      PROVE  EdgesInv'
  <2>1. stability[e] \in 0..StabMax /\ stability[e] + 1 \in Int /\ StabMax \in Int
    BY Sizes DEF EdgesInv
  <2>2. /\ Min({stability[e] + 1, StabMax}) \in {stability[e] + 1, StabMax}
        /\ Min({stability[e] + 1, StabMax}) <= StabMax
    BY <2>1, MinOfTwo, Zenon
  <2>3. Min({stability[e] + 1, StabMax}) \in 0..StabMax
    BY <2>1, <2>2, Sizes
  <2>4. stability' \in [graph -> 0..StabMax]
    BY <1>3, <2>3 DEF EdgesInv
  <2> QED BY <1>1, <1>3, <2>4 DEF EdgesInv
<1>4. ASSUME NEW ev \in queue, Deliver(ev), UNCHANGED <<weight, stability>>
      PROVE  EdgesInv'
  <2>1. sending' \subseteq graph
    BY <1>4, DeliverEffect, NextRange, Zenon
  <2> QED BY <1>1, <1>4, <2>1 DEF EdgesInv
<1>5. CASE UNCHANGED <<weight, stability, sending>>
  BY <1>1, <1>5 DEF EdgesInv
<1> QED BY <1>2, <1>3, <1>4, <1>5, EdgesChange, Zenon

(* The list of active nodes never grows beyond its capacity.               *)
LEMMA MarkedActive ==
  ASSUME NEW ns, NEW n \in Nodes,
         ns \subseteq Nodes, IsFiniteSet(ns), Cardinality(ns) <= ActiveCap
  PROVE  LET ms == MarkActive(ns, n)
         IN  ms \subseteq Nodes /\ IsFiniteSet(ms) /\ Cardinality(ms) <= ActiveCap
<1>1. CASE Cardinality(ns) < ActiveCap
  <2>1. IsFiniteSet(ns \cup {n}) /\ Cardinality(ns) \in Nat
        /\ Cardinality(ns \cup {n}) = IF n \in ns THEN Cardinality(ns) ELSE Cardinality(ns) + 1
    BY FS_AddElement, FS_CardinalityType
  <2> QED BY <1>1, <2>1, Sizes DEF MarkActive
<1>2. CASE ~(Cardinality(ns) < ActiveCap)
  BY <1>2 DEF MarkActive
<1> QED BY <1>1, <1>2

(* A step keeps the list of active nodes within its capacity.              *)
LEMMA ActiveStep ==
  ASSUME QueueInv, EdgesInv, NodesInv, ActiveInv, [Next]_vars
  PROVE  ActiveInv'
<1>1. CASE active' = {}
  <2>1. IsFiniteSet({}) /\ Cardinality({}) = 0
    BY FS_EmptySet
  <2> QED BY <1>1, <2>1, Sizes DEF ActiveInv
<1>2. CASE UNCHANGED active
  BY <1>2 DEF ActiveInv
<1>3. ASSUME NEW ev \in queue, Deliver(ev)
      PROVE  ActiveInv'
  <2> DEFINE ns == MarkActive(active, Target(ev))
  <2>1. \/ active' = ns
        \/ \E e \in NextOf(ev) : active' = MarkActive(ns, e.target)
    <3>1. active' = IF NextOf(ev) = {} THEN ns
                    ELSE MarkActive(ns, (CHOOSE e \in NextOf(ev) : TRUE).target)
      BY <1>3, DeliverEffect
    <3>2. NextOf(ev) # {} => (CHOOSE e \in NextOf(ev) : TRUE) \in NextOf(ev)
      BY Zenon
    <3> QED BY <3>1, <3>2, Zenon
  <2>2. Target(ev) \in Nodes
    BY ChargeRange
  <2>3. ns \subseteq Nodes /\ IsFiniteSet(ns) /\ Cardinality(ns) <= ActiveCap
    BY <2>2, MarkedActive DEF ActiveInv
  <2>4. \A e \in NextOf(ev) : e.target \in Nodes
    BY NextRange, EngineGraphs DEF EdgesInv
  <2> HIDE DEF ns
  <2>5. ASSUME NEW e \in NextOf(ev)
        PROVE  LET ms == MarkActive(ns, e.target)
               IN  ms \subseteq Nodes /\ IsFiniteSet(ms) /\ Cardinality(ms) <= ActiveCap
    BY <2>3, <2>4, MarkedActive
  <2> QED BY <2>1, <2>3, <2>5 DEF ActiveInv
<1>4. ASSUME NEW n \in Nodes, Activate(n) \/ \E t, r : Query(n, t, r)
      PROVE  UNCHANGED active
  BY <1>4, Zenon DEF Activate, Query, ActivateNode, nodeVars
<1>5. ASSUME NEW q \in Queries, Query(q.source, q.target, q.relation)
      PROVE  UNCHANGED active
  BY <1>4, <1>5, EngineQueries, Zenon
<1>6. CASE SetPredictionMode \/ UNCHANGED vars \/ \E n \in TickCounts : Ticks(n)
  BY <1>2, <1>6, Zenon DEF SetPredictionMode, vars, Ticks, nodeVars
<1>7. CASE BeginTick
  BY <1>1, <1>7, Zenon DEF BeginTick
<1>8. CASE EndTick
  BY <1>2, <1>8, Zenon DEF EndTick
<1>9. CASE Send \/ Apply \/ \E e \in graph : Inject(e)
  BY <1>2, <1>9, Zenon DEF Send, Apply, Inject, nodeVars
<1> QED BY <1>2, <1>3, <1>4, <1>5, <1>6, <1>7, <1>8, <1>9, Steps, Zenon

(* Who decides, and who tires the router.                                  *)
LEMMA RouterChange ==
  ASSUME [Next]_vars
  PROVE  \/ EndTick
         \/ \E n \in Nodes : \E t, r : Query(n, t, r)
         \/ UNCHANGED router
<1>1. ASSUME NEW q \in Queries, Query(q.source, q.target, q.relation)
      PROVE  \E n \in Nodes : \E t, r : Query(n, t, r)
  BY <1>1, EngineQueries, Zenon
<1>2. ASSUME NEW n \in Nodes, Activate(n)
      PROVE  UNCHANGED router
  BY <1>2, Zenon DEF Activate
<1>3. ASSUME NEW e \in graph, Inject(e)
      PROVE  UNCHANGED router
  BY <1>3, Zenon DEF Inject
<1>4. CASE SetPredictionMode \/ UNCHANGED vars \/ (\E n \in TickCounts : Ticks(n)) \/ BeginTick
  BY <1>4, Zenon DEF SetPredictionMode, vars, Ticks, BeginTick
<1>5. ASSUME NEW ev \in queue, Deliver(ev)
      PROVE  UNCHANGED router
  BY <1>5, Zenon DEF Deliver
<1>6. CASE Send \/ Apply
  BY <1>6, Zenon DEF Send, Apply
<1> QED BY <1>1, <1>2, <1>3, <1>4, <1>5, <1>6, Steps, Zenon

(* What the end of a tick decides.                                         *)
LEMMA EndRouter ==
  ASSUME EndTick
  PROVE  \/ UNCHANGED router
         \/ \E r : /\ r = [Refreshed EXCEPT !.threshold = Decayed(@), !.decided = TRUE]
                   /\ \/ router' = [r EXCEPT !.fluid = TRUE, !.threshold = Bag!SatAdd(@, Fatigue)]
                      \/ router' = [r EXCEPT !.crystallized = TRUE]
  BY Zenon DEF EndTick, Decide

(* A fluid query tires the router beyond what does not decay.              *)
LEMMA TiredRange ==
  ASSUME NEW t \in Base..SigMax
  PROVE  /\ Bag!SatAdd(t, Fatigue) \in Base..SigMax
         /\ Bag!SatAdd(t, Fatigue) >= Base + FatigueDecay - 1
<1>1. t \in Q8_8 /\ Fatigue \in Int /\ Fatigue >= 0 /\ t \in Int
  BY Weights, Sizes DEF Q8_8
<1>2. /\ Bag!SatAdd(t, Fatigue) \in Q8_8 /\ Bag!SatAdd(t, Fatigue) >= t
      /\ Bag!SatAdd(t, Fatigue) >= t + Fatigue \/ Bag!SatAdd(t, Fatigue) = SigMax
  BY <1>1, SatAddRange
<1> QED BY <1>1, <1>2, Weights, Sizes DEF Q8_8

(* A step keeps the router's figures, and its threshold where it may be.   *)
LEMMA RouterStep ==
  ASSUME RouterInv, [Next]_vars
  PROVE  RouterInv'
<1>1. CASE UNCHANGED router
  BY <1>1 DEF RouterInv, FatigueRemains, Unjudged
<1>2. ASSUME NEW n \in Nodes, NEW t, NEW r, Query(n, t, r)
      PROVE  RouterInv'
  <2>1. PICK x \in {0, 1}, c \in {0, One \div 4, 2 * One} :
          router' = [NoRouter EXCEPT !.on = TRUE, !.threshold = router.threshold,
                                     !.novelty = x, !.unresolved = x, !.confidence = c]
    <3>1. CASE Reachable(n, t, r)
      BY <1>2, <3>1, Zenon DEF Query
    <3>2. CASE ~Reachable(n, t, r)
      BY <1>2, <3>2, Zenon DEF Query
    <3> QED BY <3>1, <3>2
  <2>2. router' = [on |-> TRUE, decided |-> FALSE, fluid |-> FALSE, crystallized |-> FALSE,
                   novelty |-> x, contradiction |-> 0, unresolved |-> x, confidence |-> c,
                   threshold |-> router.threshold]
    BY <2>1 DEF NoRouter
  <2>3. router.threshold \in Base..SigMax
    BY DEF RouterInv, Router
  <2>4. router' \in Router /\ router'.threshold = router.threshold /\ router'.contradiction = 0
    BY <2>2, <2>3 DEF Router
  <2> QED BY <2>4 DEF RouterInv, FatigueRemains, Unjudged
<1>3. CASE EndTick
  <2>1. ASSUME NEW r, r = [Refreshed EXCEPT !.threshold = Decayed(@), !.decided = TRUE],
               \/ router' = [r EXCEPT !.fluid = TRUE, !.threshold = Bag!SatAdd(@, Fatigue)]
               \/ router' = [r EXCEPT !.crystallized = TRUE]
        PROVE  RouterInv'
    <3>1. Refreshed \in Router /\ Refreshed.threshold = router.threshold
      BY DEF Refreshed, RouterInv, Router
    <3>2. Decayed(router.threshold) \in Base..SigMax
      BY <3>1, DecayRange, Weights, Sizes DEF Router
    <3>3. r \in Router /\ r.threshold = Decayed(router.threshold) /\ r.decided = TRUE
      BY <2>1, <3>1, <3>2 DEF Router
    <3>4. CASE router' = [r EXCEPT !.crystallized = TRUE]
      <4>1. /\ router' \in Router /\ router'.threshold = Decayed(router.threshold)
            /\ router'.decided = TRUE
        BY <3>3, <3>4 DEF Router
      <4>2. router.threshold \in Base..SigMax
        BY DEF RouterInv, Router
      <4> QED BY <4>1, <4>2, DecayRange DEF RouterInv, FatigueRemains, Unjudged
    <3>5. CASE router' = [r EXCEPT !.fluid = TRUE, !.threshold = Bag!SatAdd(@, Fatigue)]
      <4>1. /\ Bag!SatAdd(r.threshold, Fatigue) \in Base..SigMax
            /\ Bag!SatAdd(r.threshold, Fatigue) >= Base + FatigueDecay - 1
        BY <3>2, <3>3, TiredRange
      <4>2. /\ router' \in Router /\ router'.threshold = Bag!SatAdd(r.threshold, Fatigue)
            /\ router'.decided = TRUE
        BY <3>3, <3>5, <4>1 DEF Router
      <4> QED BY <4>1, <4>2 DEF RouterInv, FatigueRemains, Unjudged
    <3> QED BY <2>1, <3>4, <3>5
  <2> QED BY <1>1, <1>3, <2>1, EndRouter, Zenon
<1> QED BY <1>1, <1>2, <1>3, RouterChange, Zenon

(* Time does not go back.                                                  *)
LEMMA TickGrows ==
  ASSUME TimesInv, QueueInv, EdgesInv, NodesInv, [Next]_vars
  PROVE  /\ tick \in Nat /\ tick' \in Nat /\ tick <= tick' /\ (tick' = tick \/ EndTick)
         /\ 0..tick \subseteq 0..tick' /\ Tags \subseteq Tags'
<1>1. tick' = tick \/ (EndTick /\ tick' = tick + 1)
  BY QueueChange, Zenon DEF EndTick, Bag!EndTick
<1>2. tick \in Nat /\ tick' \in Nat /\ tick <= tick'
  BY <1>1 DEF TimesInv
<1>3. 0..tick \subseteq 0..tick'
  BY <1>2
<1>4. Tags \subseteq Tags'
  BY <1>3 DEF Tags
<1> QED BY <1>1, <1>2, <1>3, <1>4

(* Who opens queries.                                                      *)
LEMMA QueryChange ==
  ASSUME [Next]_vars
  PROVE  \/ \E n \in Nodes : /\ tag' = <<tick, n>> /\ start' = tick /\ phase = "between"
                             /\ expected' = <<>> /\ traces' = traces
                             /\ opened' = [node |-> n, calm |-> /\ queue = {} /\ Modest(weight)
                                                                /\ \A m \in Nodes : charge[m] < One]
                             /\ muffled' = muffled \/ muffled' = {}
                             /\ predicting' = predicting
                             /\ Activate(n) \/ \E t, r : Query(n, t, r)
         \/ /\ UNCHANGED <<tag, start>>
            /\ predicting' \in {predicting, ~predicting}
            /\ \/ opened' = opened
               \/ opened' = [opened EXCEPT !.calm = FALSE] /\ \E e \in graph : Inject(e)
               \/ opened' = [opened EXCEPT !.calm = @ /\ Modest(weight')] /\ Apply
            /\ \/ muffled' = muffled
               \/ \E ev \in queue : Deliver(ev)
<1> DEFINE Same == /\ UNCHANGED <<tag, start>>
                   /\ predicting' \in {predicting, ~predicting}
                   /\ \/ opened' = opened
                      \/ opened' = [opened EXCEPT !.calm = FALSE] /\ \E e \in graph : Inject(e)
                      \/ opened' = [opened EXCEPT !.calm = @ /\ Modest(weight')] /\ Apply
                   /\ \/ muffled' = muffled
                      \/ \E ev \in queue : Deliver(ev)
           Opens(n) == /\ tag' = <<tick, n>> /\ start' = tick /\ phase = "between"
                       /\ expected' = <<>> /\ traces' = traces
                       /\ opened' = [node |-> n, calm |-> /\ queue = {} /\ Modest(weight)
                                                          /\ \A m \in Nodes : charge[m] < One]
                       /\ muffled' = muffled \/ muffled' = {}
                       /\ predicting' = predicting
                       /\ Activate(n) \/ \E t, r : Query(n, t, r)
<1>1. ASSUME NEW n \in Nodes, Activate(n) \/ \E t, r : Query(n, t, r)
      PROVE  Opens(n)
  BY <1>1, Zenon DEF Activate, Query, ActivateNode, Bag!Activate
<1>2. ASSUME NEW q \in Queries, Query(q.source, q.target, q.relation)
      PROVE  \E n \in Nodes : Opens(n)
  BY <1>1, <1>2, EngineQueries, Zenon
<1>3. ASSUME NEW e \in graph, Inject(e)
      PROVE  Same
  BY <1>3, Zenon DEF Inject, queryVars
<1>4. CASE SetPredictionMode
  BY <1>4, Zenon DEF SetPredictionMode, history
<1>5. CASE UNCHANGED vars \/ (\E n \in TickCounts : Ticks(n)) \/ BeginTick
  BY <1>5, Zenon DEF vars, Ticks, BeginTick, queryVars, history
<1>6. ASSUME NEW ev \in queue, Deliver(ev)
      PROVE  Same
  BY <1>6, Zenon DEF Deliver, queryVars
<1>7. CASE Send \/ EndTick
  BY <1>7, Zenon DEF Send, EndTick, queryVars, history
<1>8. CASE Apply
  BY <1>8, Zenon DEF Apply, queryVars
<1> QED BY <1>1, <1>2, <1>3, <1>4, <1>5, <1>6, <1>7, <1>8, Steps, Zenon

(* A step keeps the tag and the start of the query in the past.            *)
LEMMA QueryStep ==
  ASSUME TimesInv, QueueInv, EdgesInv, NodesInv, QueryInv, [Next]_vars
  PROVE  QueryInv'
<1>1. /\ tick \in Nat /\ 0..tick \subseteq 0..tick' /\ Tags \subseteq Tags'
      /\ tick \in 0..tick' /\ \A n \in Nodes : <<tick, n>> \in Tags'
  BY TickGrows DEF Tags
<1>m. muffled \subseteq Tags' /\ tag \in Tags'
  BY <1>1, Zenon DEF QueryInv
<1>2. ASSUME NEW n \in Nodes,
             tag' = <<tick, n>>, start' = tick, muffled' = muffled \/ muffled' = {},
             predicting' = predicting,
             opened' = [node |-> n, calm |-> /\ queue = {} /\ Modest(weight)
                                             /\ \A m \in Nodes : charge[m] < One]
      PROVE  QueryInv'
  <2> DEFINE c == queue = {} /\ Modest(weight) /\ \A m \in Nodes : charge[m] < One
  <2>1. c \in BOOLEAN
    BY Zenon
  <2>2. opened' = [node |-> n, calm |-> c]
    BY <1>2, Zenon
  <2> HIDE DEF c
  <2>3. opened' \in [node : {None} \cup Nodes, calm : BOOLEAN]
    BY <2>1, <2>2
  <2>4. tag' \in Tags' /\ start' \in 0..tick' /\ predicting' \in BOOLEAN
    BY <1>1, <1>2 DEF QueryInv
  <2>5. muffled' \subseteq Tags'
    BY <1>m, <1>2, Zenon
  <2> QED BY <2>3, <2>4, <2>5, Zenon DEF QueryInv
<1>3. ASSUME UNCHANGED <<tag, start>>, predicting' \in {predicting, ~predicting},
             \/ opened' = opened
             \/ opened' = [opened EXCEPT !.calm = FALSE]
             \/ opened' = [opened EXCEPT !.calm = @ /\ Modest(weight')],
             muffled' \subseteq Tags'
      PROVE  QueryInv'
  <2>1. tag' \in Tags' /\ start' \in 0..tick'
    BY <1>1, <1>3 DEF QueryInv
  <2>2. predicting' \in BOOLEAN
    BY <1>3, Zenon DEF QueryInv
  <2>3. opened' = opened => opened' \in [node : {None} \cup Nodes, calm : BOOLEAN]
    BY DEF QueryInv
  <2>4. opened' = [opened EXCEPT !.calm = FALSE]
          => opened' \in [node : {None} \cup Nodes, calm : BOOLEAN]
    BY DEF QueryInv
  <2>5. ASSUME opened' = [opened EXCEPT !.calm = @ /\ Modest(weight')]
        PROVE  opened' \in [node : {None} \cup Nodes, calm : BOOLEAN]
    <3> DEFINE c == opened.calm /\ Modest(weight')
    <3>1. c \in BOOLEAN
      BY Zenon
    <3>2. opened' = [opened EXCEPT !.calm = c]
      BY <2>5, Zenon
    <3> HIDE DEF c
    <3> QED BY <3>1, <3>2 DEF QueryInv
  <2> QED BY <1>3, <2>1, <2>2, <2>3, <2>4, <2>5 DEF QueryInv
<1>4. ASSUME NEW ev \in queue, Deliver(ev)
      PROVE  muffled' \subseteq Tags'
  <2>1. muffled' = IF IsEdge(ev) /\ IsSuppressed(Target(ev), ev.sig)
                   THEN muffled \cup {tag} ELSE muffled
    BY <1>4, DeliverEffect, Zenon
  <2> QED BY <1>m, <2>1, Zenon
<1>5. muffled \subseteq Tags'
  BY <1>m, Zenon
<1> QED BY <1>2, <1>3, <1>4, <1>5, QueryChange, Zenon

(* A function from the first numbers to a set is a sequence over the set.  *)
LEMMA FunctionIsSequence ==
  ASSUME NEW R, NEW n \in Nat, NEW f \in [1..n -> R]
  PROVE  f \in Seq(R) /\ Len(f) = n /\ DOMAIN f = 1..n
<1>1. f \in Seq(R)
  BY SeqDef, Zenon
<1> QED BY <1>1

(* The expectations with some of them settled.                             *)
SettledAs(exps, is, fate) ==
  /\ exps \in Seq(Expectation) /\ Len(exps) = Len(expected)
  /\ \A i \in 1..Len(expected) :
       /\ exps[i].edge = expected[i].edge
       /\ exps[i].fate = IF i \in is THEN fate ELSE expected[i].fate

(* Settling changes nothing but fates.                                     *)
LEMMA SettledShape ==
  ASSUME expected \in Seq(Expectation), NEW is, NEW fate \in {"confirmed", "missed"}
  PROVE  SettledAs(Settled(is, fate), is, fate)
<1>1. DOMAIN expected = 1..Len(expected) /\ Len(expected) \in Nat
  OBVIOUS
<1>2. ASSUME NEW i \in 1..Len(expected)
      PROVE  /\ Settled(is, fate)[i] \in Expectation
             /\ Settled(is, fate)[i].edge = expected[i].edge
             /\ Settled(is, fate)[i].fate = IF i \in is THEN fate ELSE expected[i].fate
  <2>1. expected[i] \in Expectation
    BY <1>2
  <2>2. Settled(is, fate)[i] =
          IF i \in is THEN [expected[i] EXCEPT !.fate = fate] ELSE expected[i]
    BY <1>1 DEF Settled
  <2> QED BY <2>1, <2>2 DEF Expectation
<1>3. Settled(is, fate) \in [1..Len(expected) -> Expectation]
  <2>1. Settled(is, fate) = [i \in 1..Len(expected) |-> Settled(is, fate)[i]]
    BY <1>1 DEF Settled
  <2> QED BY <1>2, <2>1
<1>4. Settled(is, fate) \in Seq(Expectation) /\ Len(Settled(is, fate)) = Len(expected)
  BY <1>1, <1>3, FunctionIsSequence
<1> QED BY <1>2, <1>4 DEF SettledAs

(* The records with some of them marked.                                   *)
MarksAt(ts, es, i) ==
  \E e \in es : Announces(ts, i, e) /\ \A j \in 1..(i - 1) : ~Announces(ts, j, e)

MarkedAs(us, ts, es, mark) ==
  /\ us \in Seq(TraceRecord) /\ Len(us) = Len(ts)
  /\ \A i \in 1..Len(ts) :
       /\ us[i].edge = ts[i].edge /\ us[i].kind = ts[i].kind /\ us[i].tag = ts[i].tag
       /\ us[i].marks = IF MarksAt(ts, es, i) THEN ts[i].marks \cup {mark} ELSE ts[i].marks

(* Marking changes nothing but marks.                                      *)
LEMMA MarkedShape ==
  ASSUME NEW ts \in Seq(TraceRecord), NEW es, NEW mark \in {"confirmed", "missed"}
  PROVE  MarkedAs(Marked(ts, es, mark), ts, es, mark)
<1>1. DOMAIN ts = 1..Len(ts) /\ Len(ts) \in Nat
  OBVIOUS
<1>2. ASSUME NEW i \in 1..Len(ts)
      PROVE  LET u == Marked(ts, es, mark)[i] IN
             /\ u \in TraceRecord
             /\ u.edge = ts[i].edge /\ u.kind = ts[i].kind /\ u.tag = ts[i].tag
             /\ u.marks = IF MarksAt(ts, es, i) THEN ts[i].marks \cup {mark} ELSE ts[i].marks
  <2>1. ts[i] \in TraceRecord
    BY <1>2
  <2>2. Marked(ts, es, mark)[i] =
          IF MarksAt(ts, es, i) THEN [ts[i] EXCEPT !.marks = ts[i].marks \cup {mark}] ELSE ts[i]
    BY <1>1, Zenon DEF Marked, MarksAt
  <2> QED BY <2>1, <2>2 DEF TraceRecord
<1>3. Marked(ts, es, mark) \in [1..Len(ts) -> TraceRecord]
  <2>1. Marked(ts, es, mark) = [i \in 1..Len(ts) |-> Marked(ts, es, mark)[i]]
    BY <1>1, Zenon DEF Marked
  <2> QED BY <1>2, <2>1
<1>4. Marked(ts, es, mark) \in Seq(TraceRecord) /\ Len(Marked(ts, es, mark)) = Len(ts)
  BY <1>1, <1>3, FunctionIsSequence
<1> QED BY <1>2, <1>4 DEF MarkedAs

(* A record pushes the oldest one out of a ring that is full.              *)
RecordedAs(us, ts, r) ==
  /\ us \in Seq(TraceRecord) /\ Len(us) <= TraceCap
  /\ Len(us) = IF Len(ts) < TraceCap THEN Len(ts) + 1 ELSE Len(ts)
  /\ us[1] = r
  /\ \A i \in 1..Len(us) : i # 1 => i - 1 \in 1..Len(ts) /\ us[i] = ts[i - 1]

(* Recording shifts the records, and keeps the newest.                     *)
LEMMA RecordedShape ==
  ASSUME NEW ts \in Seq(TraceRecord), Len(ts) <= TraceCap, NEW r \in TraceRecord
  PROVE  RecordedAs(Recorded(ts, r), ts, r)
<1> DEFINE n == Min({Len(ts), TraceCap - 1})
           kept == SubSeq(ts, 1, n)
<1>1. Len(ts) \in Nat /\ TraceCap \in Nat \ {0} /\ TraceCap - 1 \in Int /\ Len(ts) \in Int
  BY Sizes
<1>2. n \in {Len(ts), TraceCap - 1} /\ n <= Len(ts) /\ n <= TraceCap - 1
  BY <1>1, MinOfTwo, Zenon
<1> HIDE DEF n
<1>3. n \in 0..Len(ts) /\ n = IF Len(ts) < TraceCap THEN Len(ts) ELSE Len(ts) - 1
  BY <1>1, <1>2
<1>4. kept \in Seq(TraceRecord) /\ Len(kept) = n /\ \A i \in 1..n : kept[i] = ts[i]
  BY <1>1, <1>3
<1>5. Recorded(ts, r) = <<r>> \o kept
  BY Zenon DEF Recorded, n
<1> HIDE DEF kept
<1>6. /\ <<r>> \o kept \in Seq(TraceRecord) /\ Len(<<r>> \o kept) = n + 1
      /\ (<<r>> \o kept)[1] = r
      /\ \A i \in 1..(n + 1) : i # 1 => (<<r>> \o kept)[i] = kept[i - 1]
  BY <1>3, <1>4
<1>7. \A i \in 1..(n + 1) : i # 1 => i - 1 \in 1..n /\ i - 1 \in 1..Len(ts)
  BY <1>1, <1>3
<1>8. n + 1 <= TraceCap
  BY <1>1, <1>2, <1>3
<1>9. n + 1 = IF Len(ts) < TraceCap THEN Len(ts) + 1 ELSE Len(ts)
  BY <1>1, <1>3
<1>10. \A i \in 1..(n + 1) : i # 1 => (<<r>> \o kept)[i] = ts[i - 1]
  BY <1>4, <1>6, <1>7
<1> QED BY <1>5, <1>6, <1>7, <1>8, <1>9, <1>10, Zenon DEF RecordedAs

(* A set of the first numbers has an element for each place in its order.  *)
LEMMA NthExists ==
  ASSUME NEW n \in Nat, NEW is, is \subseteq 1..n, NEW k \in 1..Cardinality(is)
  PROVE  \E i \in is : Cardinality({j \in is : j < i}) = k - 1
<1> DEFINE Below(m) == {j \in is : j < m}
           T == {m \in 1..(n + 1) : Cardinality(Below(m)) >= k}
<1>0. IsFiniteSet(is) /\ Cardinality(is) \in Nat
  <2>1. 1 \in Int /\ n \in Int
    OBVIOUS
  <2>2. IsFiniteSet(1..n)
    BY <2>1, FS_Interval, Zenon
  <2> QED BY <2>2, FS_Subset, FS_CardinalityType
<1>01. \A j \in is : j \in Int /\ 1 <= j /\ j <= n
  OBVIOUS
<1>1. \A m : /\ Below(m) \subseteq is /\ IsFiniteSet(Below(m))
             /\ Cardinality(Below(m)) \in Nat
  <2>1. \A m : Below(m) \subseteq is
    OBVIOUS
  <2> HIDE DEF Below
  <2> QED BY <1>0, <2>1, FS_Subset, FS_CardinalityType
<1>2. n + 1 \in T
  <2>0. \A j \in is : j < n + 1
    BY <1>01
  <2>1. Below(n + 1) = is
    BY <2>0, Zenon
  <2> HIDE DEF Below
  <2> QED BY <1>0, <2>1
<1>3. PICK m \in T : \A y \in T : m <= y
  <2>1. T \subseteq Nat /\ T # {}
    BY <1>2
  <2> HIDE DEF T
  <2> QED BY <2>1, LeastNat
<1>4. m \in 1..(n + 1) /\ Cardinality(Below(m)) >= k
  OBVIOUS
<1>5. m # 1
  <2>0. \A j \in is : ~(j < 1)
    BY <1>01
  <2>1. Below(1) = {}
    BY <2>0, Zenon
  <2>2. Cardinality(Below(1)) = 0
    BY <2>1, FS_EmptySet
  <2> HIDE DEF Below
  <2> QED BY <1>4, <2>2
<1>6. m - 1 \in 1..n /\ m - 1 \notin T
  BY <1>3, <1>4, <1>5
<1>7. Cardinality(Below(m - 1)) <= k - 1
  <2>1. ~(Cardinality(Below(m - 1)) >= k)
    BY <1>6
  <2> HIDE DEF Below
  <2> QED BY <1>1, <2>1
<1>8. Below(m) = IF m - 1 \in is THEN Below(m - 1) \cup {m - 1} ELSE Below(m - 1)
  <2>1. \A j \in is : j < m <=> (j < m - 1 \/ j = m - 1)
    BY <1>01, <1>4
  <2> QED BY <2>1
<1>9. m - 1 \notin Below(m - 1)
  BY <1>4
<1> HIDE DEF Below, T
<1>10. m - 1 \in is
  BY <1>1, <1>4, <1>7, <1>8
<1>11. Cardinality(Below(m)) = Cardinality(Below(m - 1)) + 1
  BY <1>1, <1>8, <1>9, <1>10, FS_AddElement
<1>12. Cardinality(Below(m - 1)) = k - 1
  BY <1>1, <1>4, <1>7, <1>11
<1> QED BY <1>10, <1>12 DEF Below

(* The first expectation that waits, if any, and the expired ones.         *)
LEMMA ResolvedOnes ==
  ASSUME expected \in Seq(Expectation)
  PROVE  /\ FirstPending \subseteq PendingOnes /\ Expired \subseteq PendingOnes
         /\ PendingOnes \subseteq 1..Len(expected)
         /\ \A ev : ResolvedBy(ev) \subseteq PendingOnes
<1>1. PendingOnes \subseteq 1..Len(expected) /\ 1..Len(expected) \subseteq Nat
  BY DEF PendingOnes
<1>2. ASSUME NEW is, is \subseteq PendingOnes, is # {}
      PROVE  Min(is) \in is
  <2>1. is \subseteq Nat
    BY <1>1, <1>2
  <2>2. \E x \in is : \A y \in is : x <= y
    BY <1>2, <2>1, LeastNat
  <2> QED BY <2>2, Zenon DEF Min
<1>3. FirstPending \subseteq PendingOnes
  <2> DEFINE mine == {i \in PendingOnes : tag # None => expected[i].tag = tag}
  <2>1. FirstPending = IF mine # {} THEN {Min(mine)}
                       ELSE IF PendingOnes # {} THEN {Min(PendingOnes)} ELSE {}
    BY Zenon DEF FirstPending
  <2>2. mine \subseteq PendingOnes
    BY Zenon
  <2> HIDE DEF mine
  <2> QED BY <1>2, <2>1, <2>2
<1>4. Expired \subseteq PendingOnes
  BY Zenon DEF Expired
<1>5. \A ev : ResolvedBy(ev) \subseteq PendingOnes
  BY <1>3, Zenon DEF ResolvedBy
<1> QED BY <1>1, <1>3, <1>4, <1>5

(* What is learnt names edges, and one delta for each expectation.         *)
LEMMA LearntShape ==
  ASSUME expected \in Seq(Expectation), deltas \in Seq([edge : graph, by : {Ltp, Ltd}]),
         NEW is, is \subseteq 1..Len(expected), NEW fate
  PROVE  /\ Learnt(is, fate) \in Seq([edge : graph, by : {Ltp, Ltd}])
         /\ Len(Learnt(is, fate)) = Len(deltas) + Cardinality(is)
<1> DEFINE D == [edge : graph, by : {Ltp, Ltd}]
           d == IF fate = "confirmed" THEN Ltp ELSE Ltd
           n == Cardinality(is)
<1>1. Len(expected) \in Nat
  OBVIOUS
<1>2. n \in Nat
  <2>1. 1 \in Int /\ Len(expected) \in Int
    BY <1>1
  <2>2. IsFiniteSet(1..Len(expected))
    BY <2>1, FS_Interval, Zenon
  <2> QED BY <2>2, FS_Subset, FS_CardinalityType
<1>3. ASSUME NEW k \in 1..n
      PROVE  DeltasOf(is, d)[k] \in D
  <2> DEFINE i == CHOOSE i \in is : Cardinality({j \in is : j < i}) = k - 1
  <2>1. i \in is
    <3>1. \E x \in is : Cardinality({j \in is : j < x}) = k - 1
      BY <1>1, NthExists
    <3> QED BY <3>1, Zenon
  <2>2. DeltasOf(is, d)[k] = [edge |-> expected[i].edge, by |-> d]
    BY Zenon DEF DeltasOf
  <2> HIDE DEF i
  <2>3. expected[i].edge \in graph
    <3>1. expected[i] \in Expectation
      BY <2>1, ElementOfSeq, Zenon
    <3> QED BY <3>1 DEF Expectation
  <2> HIDE DEF n
  <2> QED BY <2>2, <2>3
<1>4. DeltasOf(is, d) = [k \in 1..n |-> DeltasOf(is, d)[k]]
  BY Zenon DEF DeltasOf
<1> HIDE DEF D, d, n
<1>5. DeltasOf(is, d) \in [1..n -> D]
  BY <1>3, <1>4
<1>6. DeltasOf(is, d) \in Seq(D) /\ Len(DeltasOf(is, d)) = n
  BY <1>2, <1>5, FunctionIsSequence
<1>7. Learnt(is, fate) = deltas \o DeltasOf(is, d) /\ deltas \in Seq(D)
  BY Zenon DEF Learnt, d, D
<1>8. /\ deltas \o DeltasOf(is, d) \in Seq(D)
      /\ Len(deltas \o DeltasOf(is, d)) = Len(deltas) + n
  BY <1>6, <1>7, ConcatProperties, Zenon
<1> QED BY <1>7, <1>8 DEF D, n

(* How a delivery changes the expectations and the records.                *)
Awaited(e) == [edge |-> e, tick |-> tick, tag |-> tag, fate |-> "pending"]

Noted(ev, recs) ==
  \/ ~IsEdge(ev) /\ recs = traces
  \/ IsEdge(ev) /\ \E ms : /\ MarkedAs(ms, traces, {expected[i].edge : i \in ResolvedBy(ev)},
                                       Verdict(ev.key))
                           /\ RecordedAs(recs, ms, Record(ev.key, KindOf(ev)))

(* A delivery settles, marks, records, and may expect one edge more.       *)
LEMMA DeliverLists ==
  ASSUME QueueInv, EdgesInv, QueryInv, ExpectInv, NEW ev \in queue, Deliver(ev)
  PROVE  \E exps, recs :
           /\ SettledAs(exps, ResolvedBy(ev), Verdict(ev.key))
           /\ recs \in Seq(TraceRecord) /\ Len(recs) <= TraceCap
           /\ Noted(ev, recs)
           /\ \/ expected' = exps /\ traces' = recs
              \/ \E e \in graph : /\ expected' = Append(exps, Awaited(e))
                                  /\ RecordedAs(traces', recs, Record(e, "expected"))
                                  /\ Len(expected) < ExpectCap
<1> DEFINE exps == Settled(ResolvedBy(ev), Verdict(ev.key))
           recs == RecordsOf(ev)
           es == {expected[i].edge : i \in ResolvedBy(ev)}
           ms == Marked(traces, es, Verdict(ev.key))
<1>1. Verdict(ev.key) \in {"confirmed", "missed"}
  BY Zenon DEF Verdict
<1>2. SettledAs(exps, ResolvedBy(ev), Verdict(ev.key))
  BY <1>1, SettledShape, Zenon DEF ExpectInv
<1>3. MarkedAs(ms, traces, es, Verdict(ev.key))
  BY <1>1, MarkedShape, Zenon DEF ExpectInv
<1>4. ASSUME NEW e \in graph, NEW kind \in {"used", "suppressed", "expected"}
      PROVE  Record(e, kind) \in TraceRecord
  BY DEF Record, TraceRecord, QueryInv
<1>5. KindOf(ev) \in {"used", "suppressed", "expected"}
  BY Zenon DEF KindOf
<1>6. recs = IF IsEdge(ev) THEN Recorded(ms, Record(ev.key, KindOf(ev))) ELSE traces
  BY Zenon DEF RecordsOf
<1> HIDE DEF ms, es, exps, recs
<1>7. ASSUME IsEdge(ev)
      PROVE  recs \in Seq(TraceRecord) /\ Len(recs) <= TraceCap /\ Noted(ev, recs)
  <2>1. ms \in Seq(TraceRecord) /\ Len(ms) = Len(traces) /\ Len(ms) <= TraceCap
    BY <1>3 DEF MarkedAs, ExpectInv
  <2>2. Record(ev.key, KindOf(ev)) \in TraceRecord
    BY <1>4, <1>5, <1>7, Zenon DEF IsEdge
  <2>3. RecordedAs(Recorded(ms, Record(ev.key, KindOf(ev))), ms, Record(ev.key, KindOf(ev)))
    BY <2>1, <2>2, RecordedShape, Zenon
  <2>4. recs = Recorded(ms, Record(ev.key, KindOf(ev)))
    BY <1>6, <1>7, Zenon
  <2>5. RecordedAs(recs, ms, Record(ev.key, KindOf(ev)))
    BY <2>3, <2>4, Zenon
  <2>6. recs \in Seq(TraceRecord) /\ Len(recs) <= TraceCap
    BY <2>5, Zenon DEF RecordedAs
  <2>7. Noted(ev, recs)
    BY <1>3, <1>7, <2>5, Zenon DEF Noted, es
  <2> QED BY <2>6, <2>7
<1>8. ASSUME ~IsEdge(ev)
      PROVE  recs \in Seq(TraceRecord) /\ Len(recs) <= TraceCap /\ Noted(ev, recs)
  <2>1. recs = traces
    BY <1>6, <1>8, Zenon
  <2> QED BY <1>8, <2>1, Zenon DEF Noted, ExpectInv
<1>9. recs \in Seq(TraceRecord) /\ Len(recs) <= TraceCap /\ Noted(ev, recs)
  BY <1>7, <1>8, Zenon
<1>10. Expect(NextOf(ev), exps, recs, ChargesOf(ev))
  BY DeliverEffect, Zenon DEF exps, recs
<1>11. \/ expected' = exps /\ traces' = recs
       \/ \E e \in NextOf(ev) :
             /\ expected' = Append(exps, Awaited(e))
             /\ traces' = Recorded(recs, Record(e, "expected"))
  BY <1>10, ExpectEffect, Zenon DEF Awaited
<1>12. \A e \in NextOf(ev) : e \in graph /\ Len(expected) < ExpectCap
  BY NextRange, Zenon
<1>13. ASSUME NEW e \in NextOf(ev), traces' = Recorded(recs, Record(e, "expected"))
       PROVE  RecordedAs(traces', recs, Record(e, "expected"))
  <2>1. Record(e, "expected") \in TraceRecord
    BY <1>4, <1>12
  <2> QED BY <1>9, <1>13, <2>1, RecordedShape, Zenon
<1> QED BY <1>2, <1>9, <1>11, <1>12, <1>13, Zenon

(* Who changes the expectations, the records and the deltas.               *)
LEMMA ExpectChange ==
  ASSUME [Next]_vars
  PROVE  \/ \E n \in Nodes : /\ phase = "between" /\ tag' = <<tick, n>> /\ expected' = <<>>
                             /\ muffled' = muffled \/ muffled' = {}
                             /\ UNCHANGED <<tick, phase, traces, deltas, applying>>
         \/ BeginTick /\ UNCHANGED <<tick, tag, muffled, applying>>
         \/ \E ev \in queue : Deliver(ev) /\ UNCHANGED <<tick, tag, applying>>
         \/ EndTick /\ UNCHANGED <<tag, muffled, expected, traces, deltas>>
         \/ Apply /\ UNCHANGED <<tick, phase, tag, muffled, expected, traces>>
         \/ UNCHANGED <<tick, phase, tag, muffled, expected, traces, deltas, applying>>
<1> DEFINE Opens(n) == /\ phase = "between" /\ tag' = <<tick, n>> /\ expected' = <<>>
                       /\ muffled' = muffled \/ muffled' = {}
                       /\ UNCHANGED <<tick, phase, traces, deltas, applying>>
           Same == UNCHANGED <<tick, phase, tag, muffled, expected, traces, deltas, applying>>
<1>1. ASSUME NEW n \in Nodes, Activate(n) \/ \E t, r : Query(n, t, r)
      PROVE  Opens(n)
  BY <1>1, Zenon DEF Activate, Query, ActivateNode, Bag!Activate
<1>2. ASSUME NEW q \in Queries, Query(q.source, q.target, q.relation)
      PROVE  \E n \in Nodes : Opens(n)
  BY <1>1, <1>2, EngineQueries, Zenon
<1>3. ASSUME NEW e \in graph, Inject(e)
      PROVE  Same
  BY <1>3, Zenon DEF Inject, Bag!Activate, queryVars, predictVars
<1>4. CASE SetPredictionMode \/ UNCHANGED vars \/ (\E n \in TickCounts : Ticks(n)) \/ Send
  BY <1>4, Zenon DEF SetPredictionMode, vars, Ticks, Send, bagVars, Bag!Emit, queryVars,
     predictVars, history
<1>5. CASE BeginTick
  BY <1>5, Zenon DEF BeginTick, Bag!BeginTick, queryVars, history
<1>6. ASSUME NEW ev \in queue, Deliver(ev)
      PROVE  UNCHANGED <<tick, tag, applying>>
  BY <1>6, Zenon DEF Deliver, Bag!Deliver, queryVars
<1>7. CASE EndTick
  BY <1>7, Zenon DEF EndTick, queryVars, history
<1>8. CASE Apply
  BY <1>8, Zenon DEF Apply, bagVars, queryVars
<1> QED BY <1>1, <1>2, <1>3, <1>4, <1>5, <1>6, <1>7, <1>8, Steps, Zenon

(* What the expectations and the records may be only grows with time.      *)
LEMMA TypesGrow ==
  ASSUME TimesInv, QueueInv, EdgesInv, NodesInv, [Next]_vars
  PROVE  /\ TraceRecord \subseteq TraceRecord'
         /\ tag' = tag => Expectation \subseteq Expectation'
         /\ tick' = tick => TraceRecord' = TraceRecord
         /\ tick' = tick /\ tag' = tag => Expectation' = Expectation
<1>1. graph' = graph /\ 0..tick \subseteq 0..tick' /\ Tags \subseteq Tags'
      /\ (tick' = tick => Tags' = Tags)
  BY SameGraph, TickGrows DEF Tags
<1> QED BY <1>1 DEF TraceRecord, Expectation

(* What a tick begins with.                                                *)
LEMMA BeginLists ==
  ASSUME ExpectInv, BeginTick
  PROVE  /\ SettledAs(expected', Expired, "missed")
         /\ MarkedAs(traces', traces, {expected[i].edge : i \in Expired}, "missed")
         /\ deltas' = Learnt(Expired, "missed")
         /\ Expired \subseteq PendingOnes
<1>1. expected \in Seq(Expectation) /\ traces \in Seq(TraceRecord)
  BY Zenon DEF ExpectInv
<1>2. /\ expected' = Settled(Expired, "missed")
      /\ traces' = Marked(traces, {expected[i].edge : i \in Expired}, "missed")
      /\ deltas' = Learnt(Expired, "missed")
  BY Zenon DEF BeginTick
<1>3. "missed" \in {"confirmed", "missed"}
  OBVIOUS
<1>4. SettledAs(Settled(Expired, "missed"), Expired, "missed")
  BY <1>1, <1>3, SettledShape, Zenon
<1>5. MarkedAs(Marked(traces, {expected[i].edge : i \in Expired}, "missed"), traces,
               {expected[i].edge : i \in Expired}, "missed")
  BY <1>1, <1>3, MarkedShape, Zenon
<1> QED BY <1>1, <1>2, <1>4, <1>5, ResolvedOnes, Zenon

(* A step keeps the lists of expectations, records and deltas.             *)
LEMMA ExpectStep ==
  ASSUME TypeInv, [Next]_vars
  PROVE  ExpectInv'
<1> DEFINE D == [edge : graph, by : {Ltp, Ltd}]
<1> USE DEF TypeInv
<1>1. /\ expected \in Seq(Expectation) /\ Len(expected) <= ExpectCap
      /\ traces \in Seq(TraceRecord) /\ Len(traces) <= TraceCap
      /\ deltas \in Seq(D) /\ (applying => deltas # <<>>) /\ D' = D
      /\ Len(expected) \in Nat /\ ExpectCap \in Nat /\ PendingOnes \subseteq 1..Len(expected)
  <2>1. /\ expected \in Seq(Expectation) /\ Len(expected) <= ExpectCap
        /\ traces \in Seq(TraceRecord) /\ Len(traces) <= TraceCap
        /\ deltas \in Seq(D) /\ (applying => deltas # <<>>)
    BY Zenon DEF ExpectInv
  <2>2. D' = D
    BY SameGraph, Zenon
  <2>3. PendingOnes \subseteq 1..Len(expected)
    BY <2>1, ResolvedOnes, Zenon
  <2>4. Len(expected) \in Nat /\ ExpectCap \in Nat
    BY <2>1, Sizes
  <2> QED BY <2>1, <2>2, <2>3, <2>4, Zenon
<1>2. tag' = tag => expected \in Seq(Expectation')
  BY <1>1, TypesGrow
<1>3. traces \in Seq(TraceRecord')
  BY <1>1, TypesGrow
<1>4. ASSUME expected' \in Seq(Expectation'), Len(expected') <= ExpectCap,
             traces' \in Seq(TraceRecord'), Len(traces') <= TraceCap,
             deltas' \in Seq(D), applying' => deltas' # <<>>
      PROVE  ExpectInv'
  BY <1>1, <1>4 DEF ExpectInv
<1> HIDE DEF D
<1>5. ASSUME expected' = <<>>, UNCHANGED <<traces, deltas, applying>>
      PROVE  ExpectInv'
  <2>1. expected' \in Seq(Expectation') /\ Len(expected') <= ExpectCap
    BY <1>1, <1>5
  <2> QED BY <1>1, <1>3, <1>4, <1>5, <2>1, Zenon
<1>6. CASE BeginTick /\ UNCHANGED <<tick, tag, muffled, applying>>
  <2>1. /\ SettledAs(expected', Expired, "missed")
        /\ MarkedAs(traces', traces, {expected[i].edge : i \in Expired}, "missed")
        /\ deltas' = Learnt(Expired, "missed")
        /\ Expired \subseteq PendingOnes
    BY <1>6, BeginLists
  <2>2. /\ expected' \in Seq(Expectation') /\ Len(expected') = Len(expected)
        /\ traces' \in Seq(TraceRecord') /\ Len(traces') = Len(traces)
    BY <1>6, <2>1, TypesGrow, Zenon DEF SettledAs, MarkedAs
  <2>3. deltas' \in Seq(D)
    BY <1>1, <2>1, LearntShape DEF D
  <2>4. ~applying'
    <3>1. ~applying
      BY <1>6, Zenon DEF BeginTick
    <3> QED BY <1>6, <3>1
  <2> QED BY <1>1, <1>4, <2>2, <2>3, <2>4
<1>7. ASSUME NEW ev \in queue, Deliver(ev), UNCHANGED <<tick, tag, applying>>
      PROVE  ExpectInv'
  <2>1. PICK exps, recs :
           /\ SettledAs(exps, ResolvedBy(ev), Verdict(ev.key))
           /\ recs \in Seq(TraceRecord) /\ Len(recs) <= TraceCap
           /\ \/ expected' = exps /\ traces' = recs
              \/ \E e \in graph : /\ expected' = Append(exps, Awaited(e))
                                  /\ RecordedAs(traces', recs, Record(e, "expected"))
                                  /\ Len(expected) < ExpectCap
    BY <1>7, DeliverLists, Zenon
  <2>2. exps \in Seq(Expectation) /\ Len(exps) = Len(expected)
    BY <2>1, Zenon DEF SettledAs
  <2>3. Expectation' = Expectation /\ TraceRecord' = TraceRecord
    BY <1>7, TypesGrow
  <2>4. \A e \in graph : Awaited(e) \in Expectation
    BY DEF Awaited, Expectation, TimesInv
  <2>5. /\ expected' \in Seq(Expectation) /\ Len(expected') <= ExpectCap
        /\ traces' \in Seq(TraceRecord) /\ Len(traces') <= TraceCap
    <3>1. CASE expected' = exps /\ traces' = recs
      BY <1>1, <2>1, <2>2, <3>1
    <3>2. ASSUME NEW e \in graph, expected' = Append(exps, Awaited(e)),
                 RecordedAs(traces', recs, Record(e, "expected")), Len(expected) < ExpectCap
          PROVE  /\ expected' \in Seq(Expectation) /\ Len(expected') <= ExpectCap
                 /\ traces' \in Seq(TraceRecord) /\ Len(traces') <= TraceCap
      <4>1. expected' \in Seq(Expectation) /\ Len(expected') = Len(expected) + 1
        BY <2>2, <2>4, <3>2
      <4>2. traces' \in Seq(TraceRecord) /\ Len(traces') <= TraceCap
        BY <3>2, Zenon DEF RecordedAs
      <4> QED BY <1>1, <3>2, <4>1, <4>2
    <3> QED BY <2>1, <3>1, <3>2, Zenon
  <2>6. deltas' \in Seq(D)
    <3>1. deltas' = Learnt(ResolvedBy(ev), Verdict(ev.key))
      BY <1>7, DeliverEffect, Zenon
    <3>2. ResolvedBy(ev) \subseteq 1..Len(expected)
      BY <1>1, ResolvedOnes, Zenon
    <3> QED BY <1>1, <3>1, <3>2, LearntShape, Zenon DEF D
  <2>7. ~applying'
    <3>1. phase # "between"
      BY <1>7, Zenon DEF Deliver, Bag!Deliver
    <3> QED BY <1>7, <3>1, Zenon DEF TimesInv
  <2> QED BY <1>4, <2>3, <2>5, <2>6, <2>7
<1>8. CASE EndTick /\ UNCHANGED <<tag, muffled, expected, traces, deltas>>
  <2>1. applying' => (applying \/ deltas # <<>>)
    BY <1>8, Zenon DEF EndTick, Rest
  <2> QED BY <1>1, <1>2, <1>3, <1>4, <1>8, <2>1, Zenon
<1>9. CASE Apply /\ UNCHANGED <<tick, phase, tag, muffled, expected, traces>>
  <2>1. applying /\ deltas' = Tail(deltas) /\ applying' = (Tail(deltas) # <<>>)
    BY <1>9, Zenon DEF Apply
  <2>2. deltas' \in Seq(D)
    BY <1>1, <2>1
  <2> QED BY <1>1, <1>2, <1>3, <1>4, <1>9, <2>1, <2>2, Zenon
<1>10. CASE UNCHANGED <<tick, phase, tag, muffled, expected, traces, deltas, applying>>
  BY <1>1, <1>2, <1>3, <1>4, <1>10, Zenon
<1> QED BY <1>5, <1>6, <1>7, <1>8, <1>9, <1>10, ExpectChange, Zenon

(* Between ticks no record bears a tag that could be given now.            *)
LEMMA FreshTag ==
  ASSUME TypeInv, FateInv, phase = "between", NEW n \in Nodes
  PROVE  \A k \in 1..Len(traces) : traces[k].tag # <<tick, n>>
<1> DEFINE t == <<tick, n>>
<1>1. Past /\ tick \in Nat
  BY DEF TypeInv, TimesInv, FateInv
<1>2. t # None /\ t[1] = tick
  <2>1. t \in Nat \X Nodes
    BY <1>1
  <2> QED BY <2>1, EngineGraphs
<1>3. ASSUME NEW k \in 1..Len(traces)
      PROVE  traces[k].tag # t
  <2>1. traces[k].tag # None => traces[k].tag[1] < tick
    BY <1>1, Zenon DEF Past
  <2>2. traces[k].tag = t => FALSE
    BY <1>1, <1>2, <2>1
  <2> QED BY <2>2
<1> QED BY <1>3

(* Marking leaves such records as they are.                                *)
LEMMA MutedMarked ==
  ASSUME NEW t, NEW ts, NEW us, NEW es, NEW mark, MarkedAs(us, ts, es, mark)
  PROVE  Len(us) = Len(ts) /\ (Muted(t, ts) <=> Muted(t, us))
  BY Zenon DEF MarkedAs, Muted

(* Recording adds one only for a suppression, and in a ring with room      *)
(* loses none.                                                             *)
LEMMA MutedRecorded ==
  ASSUME NEW t, NEW ts \in Seq(TraceRecord), NEW us, NEW r, RecordedAs(us, ts, r)
  PROVE  /\ Muted(t, us) => Muted(t, ts) \/ (r.kind = "suppressed" /\ r.tag = t)
         /\ Len(us) < TraceCap
              => /\ Len(ts) < TraceCap /\ (Muted(t, ts) => Muted(t, us))
                 /\ r.kind = "suppressed" /\ r.tag = t => Muted(t, us)
<1>1. Len(ts) \in Nat /\ TraceCap \in Nat
  BY Sizes
<1>2. Muted(t, us) => Muted(t, ts) \/ (r.kind = "suppressed" /\ r.tag = t)
  <2>1. \A i \in 1..Len(us) : us[i] = r \/ \E j \in 1..Len(ts) : us[i] = ts[j]
    BY Zenon DEF RecordedAs
  <2> QED BY <2>1, Zenon DEF Muted
<1>3. ASSUME Len(us) < TraceCap
      PROVE  /\ Len(ts) < TraceCap /\ (Muted(t, ts) => Muted(t, us))
             /\ r.kind = "suppressed" /\ r.tag = t => Muted(t, us)
  <2>1. Len(ts) < TraceCap /\ Len(us) = Len(ts) + 1
    BY <1>1, <1>3 DEF RecordedAs
  <2>2. us[1] = r /\ 1 \in 1..Len(us)
    BY <1>1, <2>1 DEF RecordedAs
  <2>3. ASSUME NEW i \in 1..Len(ts)
        PROVE  i + 1 \in 1..Len(us) /\ us[i + 1] = ts[i]
    <3>1. i + 1 \in 1..Len(us) /\ i + 1 # 1 /\ (i + 1) - 1 = i
      BY <1>1, <2>1
    <3>2. us[i + 1] = ts[(i + 1) - 1]
      BY <3>1, Zenon DEF RecordedAs
    <3> QED BY <3>1, <3>2
  <2> QED BY <2>1, <2>2, <2>3, Zenon DEF Muted
<1> QED BY <1>2, <1>3

(* What a delivery records, under any tag.                                 *)
LEMMA MutedDelivered ==
  ASSUME TypeInv, NEW ev \in queue, NEW t, NEW recs, Noted(ev, recs)
  PROVE  LET now == IsEdge(ev) /\ IsSuppressed(Target(ev), ev.sig) IN
         /\ Muted(t, recs) => Muted(t, traces) \/ (now /\ t = tag)
         /\ Len(recs) < TraceCap
              => /\ Len(traces) < TraceCap /\ (Muted(t, traces) => Muted(t, recs))
                 /\ now /\ t = tag => Muted(t, recs)
<1>1. CASE ~IsEdge(ev)
  BY <1>1, Zenon DEF Noted
<1>2. CASE IsEdge(ev)
  <2>1. PICK ms : /\ MarkedAs(ms, traces, {expected[i].edge : i \in ResolvedBy(ev)},
                              Verdict(ev.key))
                  /\ RecordedAs(recs, ms, Record(ev.key, KindOf(ev)))
    BY <1>2, Zenon DEF Noted
  <2>2. ms \in Seq(TraceRecord)
    BY <2>1, Zenon DEF MarkedAs
  <2>3. Len(ms) = Len(traces) /\ (Muted(t, traces) <=> Muted(t, ms))
    BY <2>1, MutedMarked, Zenon
  <2>4. /\ Record(ev.key, KindOf(ev)).kind = KindOf(ev)
        /\ Record(ev.key, KindOf(ev)).tag = tag
    BY DEF Record
  <2>5. KindOf(ev) = "suppressed" <=> IsSuppressed(Target(ev), ev.sig)
    <3>1. "used" # "suppressed"
      OBVIOUS
    <3> QED BY <3>1, Zenon DEF KindOf
  <2>6. /\ Muted(t, recs) => Muted(t, ms) \/ (KindOf(ev) = "suppressed" /\ tag = t)
        /\ Len(recs) < TraceCap
             => /\ Len(ms) < TraceCap /\ (Muted(t, ms) => Muted(t, recs))
                /\ KindOf(ev) = "suppressed" /\ tag = t => Muted(t, recs)
    <3> DEFINE r == Record(ev.key, KindOf(ev))
    <3> HIDE DEF r
    <3>r. RecordedAs(recs, ms, r)
      BY <2>1, Zenon DEF r
    <3>1. /\ Muted(t, recs) => Muted(t, ms) \/ (r.kind = "suppressed" /\ r.tag = t)
          /\ Len(recs) < TraceCap
               => /\ Len(ms) < TraceCap /\ (Muted(t, ms) => Muted(t, recs))
                  /\ r.kind = "suppressed" /\ r.tag = t => Muted(t, recs)
      BY <2>2, <3>r, MutedRecorded, Zenon
    <3>2. r.kind = KindOf(ev) /\ r.tag = tag
      BY <2>4 DEF r
    <3> QED BY <3>1, <3>2
  <2> QED BY <1>2, <2>3, <2>5, <2>6, Zenon
<1> QED BY <1>1, <1>2

(* The history and the ring agree after every step.                        *)
LEMMA MuffledStep ==
  ASSUME TypeInv, FateInv, MuffledInv, [Next]_vars
  PROVE  MuffledInv'
<1> USE DEF TypeInv
<1>1. /\ Len(traces) < TraceCap => \A t \in muffled : Muted(t, traces)
      /\ Muted(tag, traces) => tag \in muffled
  BY Zenon DEF MuffledInv
<1>2. ASSUME NEW n \in Nodes, phase = "between", tag' = <<tick, n>>,
             muffled' = muffled \/ muffled' = {}, traces' = traces
      PROVE  MuffledInv'
  <2>1. ~Muted(<<tick, n>>, traces)
    BY <1>2, FreshTag, Zenon DEF Muted
  <2>2. ~Muted(tag', traces')
    BY <1>2, <2>1, Zenon
  <2>3. ASSUME Len(traces') < TraceCap, NEW t \in muffled'
        PROVE  Muted(t, traces')
    BY <1>1, <1>2, <2>3, Zenon
  <2> QED BY <2>2, <2>3, Zenon DEF MuffledInv, Muted
<1>3. ASSUME UNCHANGED <<tag, muffled, traces>>
      PROVE  MuffledInv'
  BY <1>3, Zenon DEF MuffledInv, Muted
<1>4. CASE BeginTick /\ UNCHANGED <<tick, tag, muffled, applying>>
  <2>1. MarkedAs(traces', traces, {expected[i].edge : i \in Expired}, "missed")
    BY <1>4, BeginLists, Zenon
  <2>2. Len(traces') = Len(traces) /\ \A t : Muted(t, traces) <=> Muted(t, traces')
    BY <2>1, MutedMarked, Zenon
  <2>3. muffled' = muffled /\ tag' = tag
    BY <1>4, Zenon
  <2>4. ASSUME Len(traces') < TraceCap, NEW t \in muffled'
        PROVE  Muted(t, traces')
    BY <1>1, <2>2, <2>3, <2>4, Zenon
  <2>5. Muted(tag', traces') => tag' \in muffled'
    BY <1>1, <2>2, <2>3, Zenon
  <2> QED BY <2>4, <2>5, Zenon DEF MuffledInv, Muted
<1>5. ASSUME NEW ev \in queue, Deliver(ev), UNCHANGED <<tick, tag, applying>>
      PROVE  MuffledInv'
  <2> DEFINE now == IsEdge(ev) /\ IsSuppressed(Target(ev), ev.sig)
  <2>1. PICK recs :
           /\ recs \in Seq(TraceRecord)
           /\ Noted(ev, recs)
           /\ \/ traces' = recs
              \/ \E e \in graph : RecordedAs(traces', recs, Record(e, "expected"))
    BY <1>5, DeliverLists, Zenon
  <2>2. muffled' = IF now THEN muffled \cup {tag} ELSE muffled
    BY <1>5, DeliverEffect, Zenon
  <2>3. tag' = tag
    BY <1>5, Zenon
  <2>4. \A t : /\ Muted(t, recs) => Muted(t, traces) \/ (now /\ t = tag)
               /\ Len(recs) < TraceCap
                    => /\ Len(traces) < TraceCap /\ (Muted(t, traces) => Muted(t, recs))
                       /\ now /\ t = tag => Muted(t, recs)
    BY <2>1, MutedDelivered, Zenon
  <2>5. \A t : /\ Muted(t, traces') => Muted(t, recs)
               /\ Len(traces') < TraceCap
                    => Len(recs) < TraceCap /\ (Muted(t, recs) => Muted(t, traces'))
    <3>1. CASE traces' = recs
      BY <3>1, Zenon
    <3>2. ASSUME NEW e \in graph, RecordedAs(traces', recs, Record(e, "expected"))
          PROVE  \A t : /\ Muted(t, traces') => Muted(t, recs)
                        /\ Len(traces') < TraceCap
                             => Len(recs) < TraceCap /\ (Muted(t, recs) => Muted(t, traces'))
      <4>1. Record(e, "expected").kind # "suppressed"
        BY DEF Record
      <4> QED BY <2>1, <3>2, <4>1, MutedRecorded, Zenon
    <3> QED BY <2>1, <3>1, <3>2, Zenon
  <2> HIDE DEF now
  <2>6. ASSUME Len(traces') < TraceCap, NEW t \in muffled'
        PROVE  Muted(t, traces')
    <3>1. CASE t \in muffled
      BY <1>1, <2>4, <2>5, <2>6, <3>1, Zenon
    <3>2. CASE now /\ t = tag
      BY <2>4, <2>5, <2>6, <3>2, Zenon
    <3> QED BY <2>2, <2>6, <3>1, <3>2, Zenon
  <2>7. Muted(tag', traces') => tag' \in muffled'
    BY <1>1, <2>2, <2>3, <2>4, <2>5, Zenon
  <2> QED BY <2>6, <2>7, Zenon DEF MuffledInv, Muted
<1> QED BY <1>2, <1>3, <1>4, <1>5, ExpectChange, Zenon

(* A query is decided after a look at the trace, and by what is there.     *)
LEMMA SuppressionStep ==
  ASSUME TypeInv, MuffledInv, [Next]_vars
  PROVE  (~router.decided /\ router'.decided
            /\ Len(traces) < TraceCap /\ Len(traces) <= ScanLimit)
           => (router'.contradiction = 1 <=> tag \in muffled)
<1> SUFFICES ASSUME ~router.decided, router'.decided,
                    Len(traces) < TraceCap, Len(traces) <= ScanLimit
             PROVE  router'.contradiction = 1 <=> tag \in muffled
  OBVIOUS
<1>1. router \in Router /\ router.contradiction = 0 /\ traces \in Seq(TraceRecord)
  BY Zenon DEF TypeInv, RouterInv, Unjudged, ExpectInv
<1>2. Contradicted <=> tag \in muffled
  <2>1. Muted(tag, traces) <=> tag \in muffled
    BY Zenon DEF MuffledInv
  <2>2. DOMAIN traces = 1..Len(traces) /\ \A i \in 1..Len(traces) : i <= ScanLimit
    BY <1>1, Sizes
  <2>3. Contradicted <=> Muted(tag, traces)
    BY <2>2, Zenon DEF Contradicted, Muted
  <2> QED BY <2>1, <2>3, Zenon
<1>3. Refreshed.contradiction = (IF Contradicted THEN 1 ELSE 0) /\ DOMAIN Refreshed = DOMAIN router
  <2>1. CASE Contradicted
    <3>1. Refreshed = [router EXCEPT !.contradiction = 1, !.unresolved = 1,
                                     !.confidence = One \div 4]
      BY <2>1, Zenon DEF Refreshed
    <3> QED BY <1>1, <2>1, <3>1 DEF Router
  <2>2. CASE ~Contradicted
    <3>1. Refreshed = router
      BY <2>2, Zenon DEF Refreshed
    <3> QED BY <1>1, <2>2, <3>1
  <2> QED BY <2>1, <2>2
<1>4. router' # router
  BY Zenon
<1>5. ASSUME NEW n \in Nodes, NEW t, NEW r, Query(n, t, r)
      PROVE  FALSE
  <2>1. PICK x, c :
          router' = [NoRouter EXCEPT !.on = TRUE, !.threshold = router.threshold,
                                     !.novelty = x, !.unresolved = x, !.confidence = c]
    <3>1. CASE Reachable(n, t, r)
      BY <1>5, <3>1, Zenon DEF Query
    <3>2. CASE ~Reachable(n, t, r)
      BY <1>5, <3>2, Zenon DEF Query
    <3> QED BY <3>1, <3>2
  <2>2. router'.decided = FALSE
    BY <2>1 DEF NoRouter
  <2> QED BY <2>2
<1>6. CASE EndTick
  <2>1. ASSUME NEW r, r = [Refreshed EXCEPT !.threshold = Decayed(@), !.decided = TRUE],
               \/ router' = [r EXCEPT !.fluid = TRUE, !.threshold = Bag!SatAdd(@, Fatigue)]
               \/ router' = [r EXCEPT !.crystallized = TRUE]
        PROVE  router'.contradiction = Refreshed.contradiction
    <3>1. r.contradiction = Refreshed.contradiction /\ DOMAIN r = DOMAIN router
      BY <1>3, <2>1
    <3>2. "contradiction" \in DOMAIN router
      BY <1>1 DEF Router
    <3> QED BY <2>1, <3>1, <3>2
  <2>2. router'.contradiction = Refreshed.contradiction
    BY <1>4, <1>6, <2>1, EndRouter, Zenon
  <2> QED BY <1>2, <1>3, <2>2
<1> QED BY <1>4, <1>5, <1>6, RouterChange, Zenon

(* Settling expectations and marking their records keeps them in step.     *)
LEMMA FatesSettled ==
  ASSUME ExpectInv, Fates(tag, expected, traces),
         NEW exps, NEW ms, NEW is, is \subseteq PendingOnes, NEW fate \in {"confirmed", "missed"},
         SettledAs(exps, is, fate), MarkedAs(ms, traces, {expected[i].edge : i \in is}, fate)
  PROVE  Fates(tag, exps, ms)
<1> DEFINE es == {expected[i].edge : i \in is}
<1>1. /\ traces \in Seq(TraceRecord) /\ expected \in Seq(Expectation) /\ ScanLimit \in Nat
      /\ PendingOnes \subseteq 1..Len(expected)
      /\ Untagged(tag, traces) /\ Listed(tag, expected, traces)
      /\ Apart(tag, expected, traces) /\ Fated(tag, expected, traces)
  BY Sizes, ResolvedOnes, Zenon DEF ExpectInv, Fates
<1>2. Len(ms) = Len(traces) /\ Len(exps) = Len(expected)
  BY Zenon DEF SettledAs, MarkedAs
<1>3. \A k \in 1..Len(traces) :
        /\ ms[k].edge = traces[k].edge /\ ms[k].kind = traces[k].kind /\ ms[k].tag = traces[k].tag
        /\ ms[k].marks = IF MarksAt(traces, es, k) THEN traces[k].marks \cup {fate}
                         ELSE traces[k].marks
  BY Zenon DEF MarkedAs
<1>4. \A i \in 1..Len(expected) :
        /\ exps[i].edge = expected[i].edge
        /\ exps[i].fate = IF i \in is THEN fate ELSE expected[i].fate
  BY Zenon DEF SettledAs
<1>5. \A k \in 1..Len(traces) : Told(tag, ms[k]) <=> Told(tag, traces[k])
  BY <1>3, Zenon DEF Told
<1>6. Untagged(tag, ms)
  BY <1>1, <1>2, <1>3, Zenon DEF Untagged
<1>7. Listed(tag, exps, ms)
  <2>1. ASSUME NEW k \in 1..Len(traces), Told(tag, ms[k])
        PROVE  \E i \in 1..Len(expected) : exps[i].edge = ms[k].edge
    <3>1. PICK i \in 1..Len(expected) : expected[i].edge = traces[k].edge
      BY <1>1, <1>5, <2>1, Zenon DEF Listed
    <3>2. exps[i].edge = ms[k].edge
      BY <1>3, <1>4, <3>1
    <3> QED BY <3>2
  <2> QED BY <1>2, <2>1, Zenon DEF Listed
<1>8. Apart(tag, exps, ms)
  <2>1. ASSUME NEW j \in 1..Len(traces), NEW k \in 1..Len(traces),
               j # k, ms[j].edge = ms[k].edge, Told(tag, ms[j]), Told(tag, ms[k])
        PROVE  \E i, l \in 1..Len(expected) : /\ i # l /\ exps[i].edge = ms[k].edge
                                              /\ exps[l].edge = ms[k].edge
    <3>1. traces[j].edge = traces[k].edge /\ Told(tag, traces[j]) /\ Told(tag, traces[k])
      BY <1>3, <1>5, <2>1
    <3>2. PICK i, l \in 1..Len(expected) : /\ i # l /\ expected[i].edge = traces[k].edge
                                           /\ expected[l].edge = traces[k].edge
      BY <1>1, <2>1, <3>1, Zenon DEF Apart
    <3>3. exps[i].edge = ms[k].edge /\ exps[l].edge = ms[k].edge
      BY <1>3, <1>4, <3>2
    <3> QED BY <3>2, <3>3, Zenon
  <2> QED BY <1>2, <2>1 DEF Apart
<1>9. ASSUME NEW i \in 1..Len(expected), NEW k \in 1..Len(traces), Alone(exps, i),
             k <= ScanLimit, Told(tag, ms[k]), ms[k].edge = exps[i].edge
      PROVE  ms[k].marks = {exps[i].fate} \ {"pending"}
  <2>1. Alone(expected, i)
    BY <1>2, <1>4, <1>9, Zenon DEF Alone
  <2>2. Told(tag, traces[k]) /\ traces[k].edge = expected[i].edge
    BY <1>3, <1>4, <1>5, <1>9, Zenon
  <2>3. traces[k].marks = {expected[i].fate} \ {"pending"}
    BY <1>1, <1>9, <2>1, <2>2, Zenon DEF Fated
  <2>4. CASE i \in is
    <3>1. expected[i].fate = "pending"
      BY <2>4, Zenon DEF PendingOnes
    <3>2. traces[k].marks = {}
      BY <2>3, <3>1
    <3>3. Announces(traces, k, expected[i].edge)
      BY <1>9, <2>2, Zenon DEF Announces, Told
    <3>4. ASSUME NEW j \in 1..(k - 1), Announces(traces, j, expected[i].edge)
          PROVE  FALSE
      <4>1. j \in 1..Len(traces) /\ j # k
        BY <1>1
      <4>2. traces[j].edge = expected[i].edge /\ Told(tag, traces[j])
        <5>1. traces[j].edge = expected[i].edge /\ traces[j].kind = "expected"
              /\ (tag # None => traces[j].tag = tag)
          BY <3>4, Zenon DEF Announces
        <5>2. tag = None => traces[j].tag = None
          BY <1>1, <4>1, Zenon DEF Untagged
        <5> QED BY <5>1, <5>2, Zenon DEF Told
      <4>3. PICK m, l \in 1..Len(expected) : /\ m # l /\ expected[m].edge = traces[k].edge
                                             /\ expected[l].edge = traces[k].edge
        BY <1>1, <2>2, <4>1, <4>2, Zenon DEF Apart
      <4> QED BY <2>1, <2>2, <4>3, Zenon DEF Alone
    <3>5. MarksAt(traces, es, k)
      BY <2>4, <3>3, <3>4, Zenon DEF MarksAt
    <3>6. ms[k].marks = {fate} /\ exps[i].fate = fate
      BY <1>3, <1>4, <2>4, <3>2, <3>5
    <3> QED BY <3>6
  <2>5. CASE i \notin is
    <3>1. ASSUME MarksAt(traces, es, k)
          PROVE  FALSE
      <4>1. PICK e \in es : Announces(traces, k, e)
        BY <3>1, Zenon DEF MarksAt
      <4>2. PICK j \in is : e = expected[j].edge
        BY <4>1, Zenon
      <4>3. expected[j].edge = expected[i].edge
        BY <2>2, <4>1, <4>2, Zenon DEF Announces
      <4>4. j \in 1..Len(expected)
        BY <1>1, <4>2, Zenon
      <4> QED BY <2>1, <2>5, <4>2, <4>3, <4>4, Zenon DEF Alone
    <3> QED BY <1>3, <1>4, <2>3, <2>5, <3>1, Zenon
  <2> QED BY <2>4, <2>5
<1>10. Fated(tag, exps, ms)
  BY <1>2, <1>9, Zenon DEF Fated
<1> QED BY <1>6, <1>7, <1>8, <1>10, Zenon DEF Fates

(* So does the record of a signal.                                         *)
LEMMA FatesRecorded ==
  ASSUME NEW exps, NEW ts \in Seq(TraceRecord), NEW us, NEW r, RecordedAs(us, ts, r),
         Fates(tag, exps, ts), r.kind # "expected", r.tag = tag
  PROVE  Fates(tag, exps, us)
<1>1. \A k \in 1..Len(us) : (k = 1 /\ us[k] = r) \/ \E j \in 1..Len(ts) : j = k - 1 /\ us[k] = ts[j]
  BY Zenon DEF RecordedAs
<1>2. ~Told(tag, r)
  BY Zenon DEF Told
<1>3. \A k \in 1..Len(us) : Told(tag, us[k]) => \E j \in 1..Len(ts) : j = k - 1 /\ us[k] = ts[j]
  BY <1>1, <1>2, Zenon
<1>4. Untagged(tag, us)
  BY <1>1, Zenon DEF Fates, Untagged
<1>5. Listed(tag, exps, us)
  BY <1>3, Zenon DEF Fates, Listed
<1>6. ASSUME NEW j \in 1..Len(us), NEW k \in 1..Len(us),
             j # k, us[j].edge = us[k].edge, Told(tag, us[j]), Told(tag, us[k])
      PROVE  \E i, l \in 1..Len(exps) : /\ i # l /\ exps[i].edge = us[k].edge
                                        /\ exps[l].edge = us[k].edge
  <2>1. j - 1 \in 1..Len(ts) /\ k - 1 \in 1..Len(ts) /\ us[j] = ts[j - 1] /\ us[k] = ts[k - 1]
    BY <1>3, <1>6, Zenon
  <2>2. j - 1 # k - 1
    BY <1>6
  <2>3. /\ ts[j - 1].edge = ts[k - 1].edge /\ Told(tag, ts[j - 1]) /\ Told(tag, ts[k - 1])
        /\ us[k].edge = ts[k - 1].edge /\ Apart(tag, exps, ts)
    BY <1>6, <2>1, Zenon DEF Fates
  <2>4. \E i, l \in 1..Len(exps) : /\ i # l /\ exps[i].edge = ts[k - 1].edge
                                   /\ exps[l].edge = ts[k - 1].edge
    BY <2>1, <2>2, <2>3, Zenon DEF Apart
  <2> QED BY <2>3, <2>4, Zenon
<1>7. Apart(tag, exps, us)
  BY <1>6, Zenon DEF Apart
<1>8. ASSUME NEW i \in 1..Len(exps), NEW k \in 1..Len(us), Alone(exps, i), k <= ScanLimit,
             Told(tag, us[k]), us[k].edge = exps[i].edge
      PROVE  us[k].marks = {exps[i].fate} \ {"pending"}
  <2>1. k - 1 \in 1..Len(ts) /\ us[k] = ts[k - 1]
    BY <1>3, <1>8, Zenon
  <2>2. k - 1 <= ScanLimit
    BY <1>8, Sizes
  <2> QED BY <1>8, <2>1, <2>2, Zenon DEF Fates, Fated
<1>9. Fated(tag, exps, us)
  BY <1>8, Zenon DEF Fated
<1> QED BY <1>4, <1>5, <1>7, <1>9, Zenon DEF Fates

(* And so does expecting an edge.                                          *)
LEMMA FatesExpected ==
  ASSUME NEW exps \in Seq(Expectation), NEW ts \in Seq(TraceRecord), NEW us, NEW e \in graph,
         RecordedAs(us, ts, Record(e, "expected")), Fates(tag, exps, ts), Awaited(e) \in Expectation
  PROVE  Fates(tag, Append(exps, Awaited(e)), us)
<1> DEFINE more == Append(exps, Awaited(e))
           n == Len(exps) + 1
           r == Record(e, "expected")
<1>1. \A k \in 1..Len(us) : (k = 1 /\ us[k] = r) \/ \E j \in 1..Len(ts) : j = k - 1 /\ us[k] = ts[j]
  BY Zenon DEF RecordedAs
<1>2. r.edge = e /\ r.tag = tag /\ r.marks = {}
  BY DEF Record
<1>3. /\ Len(more) = n /\ n \in 1..n /\ 1..Len(exps) \subseteq 1..n /\ n \notin 1..Len(exps)
      /\ \A i \in 1..n : i \in 1..Len(exps) \/ i = n
      /\ more[n] = Awaited(e) /\ \A i \in 1..Len(exps) : more[i] = exps[i]
  OBVIOUS
<1>4. more[n].edge = e /\ more[n].fate = "pending"
  BY <1>3 DEF Awaited
<1> HIDE DEF more, n, r
<1>5. Untagged(tag, us)
  BY <1>1, <1>2, Zenon DEF Fates, Untagged
<1>6. Listed(tag, more, us)
  <2>1. ASSUME NEW k \in 1..Len(us), Told(tag, us[k])
        PROVE  \E i \in 1..n : more[i].edge = us[k].edge
    <3>1. CASE us[k] = r
      BY <1>2, <1>3, <1>4, <3>1, Zenon
    <3>2. ASSUME NEW m \in 1..Len(ts), us[k] = ts[m]
          PROVE  \E i \in 1..n : more[i].edge = us[k].edge
      <4>1. PICK i \in 1..Len(exps) : exps[i].edge = us[k].edge
        BY <2>1, <3>2, Zenon DEF Fates, Listed
      <4> QED BY <1>3, <4>1, Zenon
    <3> QED BY <1>1, <3>1, <3>2, Zenon
  <2> QED BY <1>3, <2>1, Zenon DEF Listed
<1>7. ASSUME NEW j \in 1..Len(us), NEW k \in 1..Len(us),
             j # k, us[j].edge = us[k].edge, Told(tag, us[j]), Told(tag, us[k])
      PROVE  \E i, l \in 1..n : /\ i # l /\ more[i].edge = us[k].edge
                                /\ more[l].edge = us[k].edge
  <2>1. CASE j = 1
    <3>1. us[k].edge = e /\ us[j] = r
      BY <1>1, <1>2, <1>7, <2>1
    <3>2. PICK m \in 1..Len(ts) : us[k] = ts[m]
      BY <1>1, <1>7, <2>1, Zenon
    <3>3. PICK i \in 1..Len(exps) : exps[i].edge = us[k].edge
      BY <1>7, <3>2, Zenon DEF Fates, Listed
    <3> QED BY <1>3, <1>4, <3>1, <3>3, Zenon
  <2>2. CASE k = 1
    <3>1. us[j].edge = e /\ us[k].edge = e
      BY <1>1, <1>2, <1>7, <2>2
    <3>2. PICK m \in 1..Len(ts) : us[j] = ts[m]
      BY <1>1, <1>7, <2>2, Zenon
    <3>3. PICK i \in 1..Len(exps) : exps[i].edge = us[j].edge
      BY <1>7, <3>2, Zenon DEF Fates, Listed
    <3> QED BY <1>3, <1>4, <3>1, <3>3, Zenon
  <2>3. CASE j # 1 /\ k # 1
    <3>1. j - 1 \in 1..Len(ts) /\ k - 1 \in 1..Len(ts) /\ us[j] = ts[j - 1] /\ us[k] = ts[k - 1]
      BY <1>1, <2>3, Zenon
    <3>2. j - 1 # k - 1
      BY <1>7
    <3>4. /\ ts[j - 1].edge = ts[k - 1].edge /\ Told(tag, ts[j - 1]) /\ Told(tag, ts[k - 1])
          /\ us[k].edge = ts[k - 1].edge /\ Apart(tag, exps, ts)
      BY <1>7, <3>1, Zenon DEF Fates
    <3>5. \E i, l \in 1..Len(exps) : /\ i # l /\ exps[i].edge = ts[k - 1].edge
                                     /\ exps[l].edge = ts[k - 1].edge
      BY <3>1, <3>2, <3>4, Zenon DEF Apart
    <3>3. PICK i, l \in 1..Len(exps) : /\ i # l /\ exps[i].edge = us[k].edge
                                       /\ exps[l].edge = us[k].edge
      BY <3>4, <3>5, Zenon
    <3> QED BY <1>3, <3>3, Zenon
  <2> QED BY <2>1, <2>2, <2>3, Zenon
<1>8. Apart(tag, more, us)
  BY <1>3, <1>7, Zenon DEF Apart
<1>9. ASSUME NEW i \in 1..n, NEW k \in 1..Len(us), Alone(more, i), k <= ScanLimit,
             Told(tag, us[k]), us[k].edge = more[i].edge
      PROVE  us[k].marks = {more[i].fate} \ {"pending"}
  <2>1. CASE i = n /\ k = 1
    BY <1>1, <1>2, <1>4, <2>1
  <2>2. CASE i = n /\ k # 1
    <3>1. PICK m \in 1..Len(ts) : us[k] = ts[m]
      BY <1>1, <2>2, Zenon
    <3>2. PICK j \in 1..Len(exps) : exps[j].edge = us[k].edge
      BY <1>9, <3>1, Zenon DEF Fates, Listed
    <3>3. j \in 1..Len(more) /\ more[j].edge = more[i].edge /\ j # i
      BY <1>3, <1>9, <2>2, <3>2, Zenon
    <3> QED BY <1>9, <3>3, Zenon DEF Alone
  <2>3. CASE i # n /\ k = 1
    <3>1. n \in 1..Len(more) /\ more[n].edge = more[i].edge
      BY <1>1, <1>2, <1>3, <1>4, <1>9, <2>3
    <3> QED BY <1>9, <2>3, <3>1, Zenon DEF Alone
  <2>4. CASE i # n /\ k # 1
    <3>1. k - 1 \in 1..Len(ts) /\ us[k] = ts[k - 1] /\ i \in 1..Len(exps) /\ more[i] = exps[i]
      BY <1>1, <1>3, <2>4, Zenon
    <3>2. k - 1 <= ScanLimit
      BY <1>9, Sizes
    <3>3. Alone(exps, i)
      BY <1>3, <1>9, <3>1, Zenon DEF Alone
    <3> QED BY <1>9, <3>1, <3>2, <3>3, Zenon DEF Fates, Fated
  <2> QED BY <2>1, <2>2, <2>3, <2>4, Zenon
<1>10. Fated(tag, more, us)
  BY <1>3, <1>9, Zenon DEF Fated
<1>11. Fates(tag, more, us)
  BY <1>5, <1>6, <1>8, <1>10, Zenon DEF Fates
<1> QED BY <1>11 DEF more

(* No record is of a query that opens now.                                 *)
LEMMA FatesOpened ==
  ASSUME TypeInv, FateInv, phase = "between", NEW n \in Nodes
  PROVE  Fates(<<tick, n>>, <<>>, traces)
<1> DEFINE t == <<tick, n>>
<1>1. /\ traces \in Seq(TraceRecord) /\ Past /\ Len(traces) \in Nat /\ tick \in Nat
  BY DEF TypeInv, ExpectInv, TimesInv, FateInv
<1>2. t # None /\ t[1] = tick
  <2>1. t \in Nat \X Nodes
    BY <1>1
  <2> QED BY <2>1, EngineGraphs
<1>3. \A k \in 1..Len(traces) : traces[k].tag # t
  BY FreshTag, Zenon
<1> HIDE DEF t
<1>4. \A k \in 1..Len(traces) : ~Told(t, traces[k])
  BY <1>3, Zenon DEF Told
<1>5. Fates(t, <<>>, traces)
  BY <1>2, <1>4, Zenon DEF Fates, Untagged, Listed, Apart, Fated
<1> QED BY <1>5 DEF t

(* The fates are told after a delivery.                                    *)
LEMMA FatesDelivered ==
  ASSUME TypeInv, FateInv, NEW ev \in queue, Deliver(ev)
  PROVE  Fates(tag, expected', traces')
<1>1. PICK exps, recs :
           /\ SettledAs(exps, ResolvedBy(ev), Verdict(ev.key))
           /\ recs \in Seq(TraceRecord) /\ Len(recs) <= TraceCap
           /\ Noted(ev, recs)
           /\ \/ expected' = exps /\ traces' = recs
              \/ \E e \in graph : /\ expected' = Append(exps, Awaited(e))
                                  /\ RecordedAs(traces', recs, Record(e, "expected"))
  BY DeliverLists, Zenon DEF TypeInv
<1>2. ResolvedBy(ev) \subseteq PendingOnes /\ Verdict(ev.key) \in {"confirmed", "missed"}
  <2>1. expected \in Seq(Expectation)
    BY Zenon DEF TypeInv, ExpectInv
  <2> QED BY <2>1, ResolvedOnes, Zenon DEF Verdict
<1>3. ExpectInv /\ Fates(tag, expected, traces)
  BY Zenon DEF TypeInv, FateInv
<1>4. exps \in Seq(Expectation)
  BY <1>1, Zenon DEF SettledAs
<1>5. Fates(tag, exps, recs)
  <2>1. CASE IsEdge(ev)
    <3>1. PICK ms : /\ MarkedAs(ms, traces, {expected[i].edge : i \in ResolvedBy(ev)},
                                Verdict(ev.key))
                    /\ RecordedAs(recs, ms, Record(ev.key, KindOf(ev)))
      BY <1>1, <2>1, Zenon DEF Noted
    <3>2. ms \in Seq(TraceRecord)
      BY <3>1, Zenon DEF MarkedAs
    <3>3. Fates(tag, exps, ms)
      BY <1>1, <1>2, <1>3, <3>1, FatesSettled, Zenon
    <3>4. Record(ev.key, KindOf(ev)).kind # "expected" /\ Record(ev.key, KindOf(ev)).tag = tag
      BY DEF Record, KindOf
    <3> QED BY <3>1, <3>2, <3>3, <3>4, FatesRecorded, Zenon
  <2>2. CASE ~IsEdge(ev)
    <3>1. recs = traces /\ ResolvedBy(ev) = {}
      BY <1>1, <2>2, Zenon DEF Noted, ResolvedBy
    <3>2. MarkedAs(traces, traces, {expected[i].edge : i \in {}}, Verdict(ev.key))
      <4>1. {expected[i].edge : i \in {}} = {}
        OBVIOUS
      <4>2. \A k : ~MarksAt(traces, {}, k)
        BY Zenon DEF MarksAt
      <4>3. traces \in Seq(TraceRecord)
        BY Zenon DEF TypeInv, ExpectInv
      <4> QED BY <4>1, <4>2, <4>3, Zenon DEF MarkedAs
    <3>3. {} \subseteq PendingOnes /\ SettledAs(exps, {}, Verdict(ev.key))
      BY <1>1, <3>1, Zenon
    <3>4. Fates(tag, exps, traces)
      BY <1>2, <1>3, <3>2, <3>3, FatesSettled, Zenon
    <3> QED BY <3>1, <3>4, Zenon
  <2> QED BY <2>1, <2>2
<1>6. \A e \in graph : Awaited(e) \in Expectation
  BY DEF Awaited, Expectation, TypeInv, TimesInv
<1>7. ASSUME NEW e \in graph, expected' = Append(exps, Awaited(e)),
             RecordedAs(traces', recs, Record(e, "expected"))
      PROVE  Fates(tag, expected', traces')
  <2>1. Fates(tag, Append(exps, Awaited(e)), traces')
    BY <1>1, <1>4, <1>5, <1>6, <1>7, FatesExpected, Zenon
  <2> QED BY <1>7, <2>1, Zenon
<1> QED BY <1>1, <1>5, <1>7, Zenon

(* A step keeps the records in step with the expectations.                 *)
LEMMA FateStep ==
  ASSUME TypeInv, FateInv, [Next]_vars
  PROVE  FateInv'
<1>1. Fates(tag, expected, traces) /\ (phase = "between" => Past) /\ traces \in Seq(TraceRecord)
      /\ tick \in Nat /\ ExpectInv
  BY Zenon DEF FateInv, TypeInv, ExpectInv, TimesInv
<1>2. ASSUME NEW n \in Nodes, phase = "between", tag' = <<tick, n>>, expected' = <<>>,
             UNCHANGED <<tick, phase, traces>>
      PROVE  FateInv'
  <2>1. Fates(<<tick, n>>, <<>>, traces)
    BY <1>2, FatesOpened
  <2>2. Fates(tag', expected', traces')
    BY <1>2, <2>1
  <2>3. Past'
    BY <1>1, <1>2 DEF Past
  <2> QED BY <2>2, <2>3 DEF FateInv
<1>3. CASE BeginTick /\ UNCHANGED <<tick, tag, muffled, applying>>
  <2>1. /\ SettledAs(expected', Expired, "missed")
        /\ MarkedAs(traces', traces, {expected[i].edge : i \in Expired}, "missed")
        /\ Expired \subseteq PendingOnes
    BY <1>1, <1>3, BeginLists, Zenon
  <2>2. Fates(tag, expected', traces')
    <3>1. "missed" \in {"confirmed", "missed"}
      OBVIOUS
    <3> QED BY <1>1, <2>1, <3>1, FatesSettled, Zenon
  <2>3. phase' # "between"
    BY <1>3 DEF BeginTick, Bag!BeginTick
  <2>4. tag' = tag
    BY <1>3
  <2> QED BY <2>2, <2>3, <2>4 DEF FateInv
<1>4. ASSUME NEW ev \in queue, Deliver(ev), UNCHANGED <<tick, tag, applying>>
      PROVE  FateInv'
  <2>1. Fates(tag, expected', traces')
    BY <1>4, FatesDelivered
  <2>2. phase' # "between"
    BY <1>4 DEF Deliver, Bag!Deliver
  <2> QED BY <1>4, <2>1, <2>2 DEF FateInv
<1>5. CASE EndTick /\ UNCHANGED <<tag, muffled, expected, traces, deltas>>
  <2>1. tick' = tick + 1
    BY <1>5 DEF EndTick, Bag!EndTick
  <2>2. ASSUME NEW k \in 1..Len(traces), traces[k].tag # None
        PROVE  traces[k].tag[1] < tick'
    <3>1. traces[k].tag \in (0..tick) \X Nodes
      <4>1. traces[k] \in TraceRecord
        BY <1>1, ElementOfSeq, Zenon
      <4> QED BY <2>2, <4>1 DEF TraceRecord, Tags
    <3>2. traces[k].tag[1] \in 0..tick
      BY <3>1
    <3> QED BY <1>1, <2>1, <3>2
  <2>3. Past'
    <3>1. traces' = traces
      BY <1>5
    <3> QED BY <2>2, <3>1, Zenon DEF Past
  <2>4. Fates(tag', expected', traces')
    BY <1>1, <1>5
  <2> QED BY <2>3, <2>4 DEF FateInv
<1>6. ASSUME UNCHANGED <<tick, phase, tag, expected, traces>>
      PROVE  FateInv'
  <2>1. Fates(tag', expected', traces') /\ (Past' <=> Past)
    BY <1>1, <1>6 DEF Past
  <2> QED BY <1>1, <1>6, <2>1 DEF FateInv
<1> QED BY <1>2, <1>3, <1>4, <1>5, <1>6, ExpectChange, Zenon

(* The trace tells the fate of each expectation in its reach.              *)
LEMMA FatesTold ==
  ASSUME TypeInv, FateInv
  PROVE  TraceTellsFate
<1>1. /\ expected \in Seq(Expectation) /\ traces \in Seq(TraceRecord)
      /\ Fated(tag, expected, traces)
  BY Zenon DEF TypeInv, ExpectInv, FateInv, Fates
<1>2. DOMAIN expected = 1..Len(expected) /\ DOMAIN traces = 1..Len(traces)
  BY <1>1
<1>3. \A i \in 1..Len(expected) : expected[i].tag = tag
  <2> SUFFICES ASSUME NEW i \in 1..Len(expected) PROVE expected[i].tag = tag
    OBVIOUS
  <2>1. expected[i] \in Expectation
    BY <1>1, ElementOfSeq, Zenon
  <2> QED BY <2>1 DEF Expectation
<1>4. ASSUME NEW i \in 1..Len(expected), NEW k \in 1..Len(traces),
             \A j \in 1..Len(expected) : expected[j].edge = expected[i].edge => j = i,
             k <= ScanLimit, traces[k].kind = "expected",
             traces[k].edge = expected[i].edge, traces[k].tag = expected[i].tag
      PROVE  traces[k].marks = {expected[i].fate} \ {"pending"}
  <2>1. Alone(expected, i) /\ Told(tag, traces[k])
    BY <1>3, <1>4, Zenon DEF Alone, Told
  <2> QED BY <1>1, <1>4, <2>1, Zenon DEF Fated
<1> QED BY <1>2, <1>4, Zenon DEF TraceTellsFate

(* What a step leaves as it is, it leaves calm.                            *)
LEMMA CalmKept ==
  ASSUME CalmInv, opened'.calm => opened.calm /\ Modest(weight)', opened'.node = opened.node,
         UNCHANGED <<graph, queue, sending, lastFired, tick, charge, start>>
  PROVE  CalmInv'
<1>1. ASSUME opened.calm, Modest(weight)'
      PROVE  (SignalsInv /\ OpenedInv /\ BlockedInv)'
  <2>1. SignalsInv /\ OpenedInv /\ BlockedInv
    BY <1>1, Zenon DEF CalmInv
  <2>2. SignalsInv'
    BY <1>1, <2>1 DEF SignalsInv
  <2>3. OpenedInv'
    BY <2>1 DEF OpenedInv
  <2>4. BlockedInv'
    BY <2>1 DEF BlockedInv
  <2> QED BY <2>2, <2>3, <2>4
<1> QED BY <1>1, Zenon DEF CalmInv

(* A query that opens finds the engine calm only if nothing is pending, no *)
(* node is about to fire, and no edge carries too much.                    *)
LEMMA CalmOpened ==
  ASSUME TypeInv, graph' = graph, NEW n \in Nodes, phase = "between",
         UNCHANGED <<sending, lastFired, tick, charge, weight>>,
         start' = tick, queue' \subseteq queue \cup New(ActivationOf(n), tick, One),
         opened' = [node |-> n, calm |-> /\ queue = {} /\ Modest(weight)
                                         /\ \A m \in Nodes : charge[m] < One]
  PROVE  CalmInv'
<1>1. opened'.node = n /\ (opened'.calm <=> /\ queue = {} /\ Modest(weight)
                                            /\ \A m \in Nodes : charge[m] < One)
  <2> DEFINE c == queue = {} /\ Modest(weight) /\ \A m \in Nodes : charge[m] < One
  <2>1. opened' = [node |-> n, calm |-> c]
    BY Zenon
  <2>0. c \in BOOLEAN
    BY Zenon
  <2> HIDE DEF c
  <2>2. opened'.node = n /\ (opened'.calm <=> c)
    BY <2>0, <2>1
  <2> QED BY <2>2, Zenon DEF c
<1> SUFFICES ASSUME opened'.calm PROVE (SignalsInv /\ OpenedInv /\ BlockedInv)'
  BY Zenon DEF CalmInv
<1>2. queue = {} /\ Modest(weight) /\ \A m \in Nodes : charge[m] < One
  BY <1>1, Zenon
<1>3. sending = {} /\ graph \in Graphs /\ \A m \in Nodes : lastFired[m] < tick
  BY Zenon DEF TypeInv, TimesInv, EdgesInv, NodesInv
<1>4. ActivationOf(n) \notin graph /\ ActivationOf(n).target = n
  BY <1>3, Keys, Zenon
<1>5. \A ev \in queue' : ev.key = ActivationOf(n)
  BY <1>2 DEF New
<1>6. \A ev \in queue' : ev.key \notin graph' /\ ev.key.target = n
  BY <1>4, <1>5, Zenon
<1>7. Modest(weight)'
  BY <1>2 DEF Modest
<1>8. sending' = {}
  BY <1>3
<1>9. SignalsInv'
  BY <1>1, <1>6, <1>7, <1>8, Zenon DEF SignalsInv
<1>10. OpenedInv'
  BY <1>6, <1>8, Zenon DEF OpenedInv
<1>11. \A e \in graph : e.target \in Nodes
  BY <1>3, EngineGraphs, Zenon
<1>12. BlockedInv'
  BY <1>2, <1>3, <1>11 DEF BlockedInv
<1> QED BY <1>9, <1>10, <1>12

(* A node sends along each of its edges once, a signal that alone cannot   *)
(* make its target fire.                                                   *)
LEMMA CalmSent ==
  ASSUME TypeInv, CalmInv, NEW e \in sending, sending' = sending \ {e},
         queue' \subseteq queue \cup New(e, tick + 1, Signal(e)) \cup Merged(e, tick + 1, Signal(e)),
         UNCHANGED <<graph, weight, lastFired, tick, charge, start, opened>>
  PROVE  CalmInv'
<1> SUFFICES ASSUME opened.calm PROVE (SignalsInv /\ OpenedInv /\ BlockedInv)'
  BY Zenon DEF CalmInv
<1>1. SignalsInv /\ OpenedInv /\ BlockedInv
  BY Zenon DEF CalmInv
<1>2. tick \in Nat /\ e \in graph /\ \A ev \in queue : ev.due \in Int
  <2>1. tick \in Nat /\ e \in graph
    BY DEF TypeInv, TimesInv, EdgesInv
  <2>2. \A ev \in queue : ev.due \in tick..(tick + 1)
    BY DEF TypeInv, QueueInv
  <2> QED BY <2>1, <2>2
<1>3. lastFired[e.source] = tick /\ \A ev \in queue : ev.key = e => ev.due # tick + 1
  BY <1>1, Zenon DEF SignalsInv
<1>4. Merged(e, tick + 1, Signal(e)) = {}
  <2>1. \A ev \in queue : ~Bag!Mergeable(ev, e, tick + 1)
    BY <1>2, <1>3 DEF Bag!Mergeable
  <2> QED BY <2>1, Zenon DEF Merged
<1>5. \A ev \in queue' : ev \in queue \/ (ev.key = e /\ ev.sig = Signal(e) /\ ev.due = tick + 1)
  BY <1>4 DEF New
<1>6. Signal(e) <= One
  <2>1. /\ weight[e] \in WMin..WMax /\ e.gate \in 0..GateOne /\ e.blocker \in BOOLEAN
        /\ e.ctrl = None \/ charge[e.ctrl] \in Q8_8
    BY <1>2, EngineGraphs DEF TypeInv, EdgesInv, NodesInv
  <2>2. e.ctrl = None \/ charge[e.ctrl] \in Int
    BY <2>1, Sizes DEF Q8_8
  <2>3. weight[e] <= One
    BY <1>1, <1>2, Zenon DEF SignalsInv, Modest
  <2> QED BY <2>1, <2>2, <2>3, SignalRange
<1>7. SignalsInv'
  <2>1. ASSUME NEW ev \in queue', ev.key \in graph
        PROVE  ev.sig <= One /\ lastFired[ev.key.source] >= ev.due - 1
    <3>1. CASE ev \in queue
      BY <1>1, <2>1, <3>1, Zenon DEF SignalsInv
    <3>2. CASE ev.key = e /\ ev.sig = Signal(e) /\ ev.due = tick + 1
      BY <1>2, <1>3, <1>6, <3>2
    <3> QED BY <1>5, <3>1, <3>2
  <2>2. ASSUME NEW f \in sending'
        PROVE  /\ lastFired[f.source] = tick
               /\ \A ev \in queue' : ev.key = f => ev.due # tick + 1
    <3>1. f \in sending /\ f # e
      OBVIOUS
    <3>2. lastFired[f.source] = tick /\ \A ev \in queue : ev.key = f => ev.due # tick + 1
      BY <1>1, <3>1, Zenon DEF SignalsInv
    <3> QED BY <1>5, <3>1, <3>2, Zenon
  <2>3. \A ev \in queue' : ev.key \notin graph => ev.key.target = opened.node
    BY <1>1, <1>2, <1>5, Zenon DEF SignalsInv
  <2>4. Modest(weight)' /\ opened'.node \in Nodes
    BY <1>1 DEF SignalsInv, Modest
  <2> QED BY <2>1, <2>2, <2>3, <2>4 DEF SignalsInv
<1>8. OpenedInv'
  <2>1. lastFired[opened.node] >= start
    BY <1>1, Zenon DEF OpenedInv
  <2> QED BY <2>1 DEF OpenedInv
<1>9. BlockedInv'
  BY <1>1 DEF BlockedInv
<1> QED BY <1>7, <1>8, <1>9

(* Time and the leak make nothing fire.                                    *)
LEMMA CalmEnded ==
  ASSUME TypeInv, CalmInv, EndTick, graph' = graph
  PROVE  CalmInv'
<1>1. /\ sending = {} /\ UNCHANGED <<queue, weight, lastFired, sending, start, opened>>
  BY Zenon DEF EndTick, Bag!EndTick, queryVars, history
<1> SUFFICES ASSUME opened.calm PROVE (SignalsInv /\ OpenedInv /\ BlockedInv)'
  BY <1>1 DEF CalmInv
<1>2. SignalsInv /\ OpenedInv /\ BlockedInv
  BY Zenon DEF CalmInv
<1>3. SignalsInv'
  BY <1>1, <1>2 DEF SignalsInv, Modest
<1>4. OpenedInv'
  BY <1>1, <1>2 DEF OpenedInv
<1>5. \A b \in graph : b.target \in Nodes
  BY EngineGraphs, Zenon DEF TypeInv, EdgesInv
<1>6. \A n \in Nodes : charge[n] < One => charge'[n] < One
  BY EndCharge, Zenon DEF TypeInv
<1>7. BlockedInv'
  BY <1>1, <1>2, <1>5, <1>6 DEF BlockedInv
<1> QED BY <1>3, <1>4, <1>7

(* What an event does to the target of a blocker that is active.           *)
LEMMA BlockedCharge ==
  ASSUME TypeInv, opened.calm, SignalsInv, OpenedInv, BlockedInv,
         NEW ev \in queue, NEW b \in graph, b.blocker, b.source # b.target,
         opened.node = b.source, Target(ev) = b.target
  PROVE  ChargeOf(ev) < One /\ ~FiresOn(ev)
<1>1. /\ charge[b.target] < One /\ lastFired[b.target] < start
      /\ ev.sig \in Q8_8 /\ Sum(ev) \in Q8_8 /\ Target(ev) \in Nodes /\ charge[b.target] \in Q8_8
  BY ChargeRange DEF BlockedInv, TypeInv, NodesInv
<1>2. ev.key \in graph /\ ev.sig <= One
  BY DEF SignalsInv, Target
<1>3. lastFired[b.source] >= start
  BY <1>2, Zenon DEF OpenedInv
<1>4. SourceActive(b)
  <2>1. b.source \in Nodes
    BY EngineGraphs, Zenon DEF TypeInv, EdgesInv
  <2>2. lastFired[b.source] \in Int /\ start \in Nat
    BY <2>1 DEF TypeInv, NodesInv, QueryInv, TimesInv
  <2> QED BY <1>3, <2>2 DEF SourceActive
<1>5. ev.sig > 0 => IsSuppressed(Target(ev), ev.sig)
  BY <1>4, Zenon DEF IsSuppressed, BlockersOf
<1>6. ev.sig \in Int /\ charge[b.target] \in Int /\ SigMax \in Nat /\ One = 256 /\ Sum(ev) \in Int
      /\ Sum(ev) = Bag!SatAdd(charge[b.target], ev.sig)
  BY <1>1, Units, Sizes DEF Q8_8, Sum
<1>7. /\ ev.sig <= 0 => Sum(ev) <= charge[b.target]
      /\ Sum(ev) <= charge[b.target] + ev.sig \/ Sum(ev) = -SigMax - 1
  BY <1>1, <1>6, SatAddRange
<1>8. Sum(ev) < 2 * One
  BY <1>1, <1>2, <1>6, <1>7
<1>9. Suppressed(Sum(ev)) < One
  BY <1>1, <1>8, SuppressedRange
<1>10. ChargeOf(ev) < One
  <2>1. CASE IsSuppressed(Target(ev), ev.sig)
    BY <1>9, <2>1, Zenon DEF ChargeOf
  <2>2. CASE ~IsSuppressed(Target(ev), ev.sig)
    <3>1. ev.sig <= 0
      BY <1>5, <1>6, <2>2
    <3>2. Sum(ev) < One
      BY <1>1, <1>6, <1>7, <3>1
    <3> QED BY <2>2, <3>2, Zenon DEF ChargeOf
  <2> QED BY <2>1, <2>2
<1>11. ChargeOf(ev) \in Int
  BY ChargeRange, Sizes DEF TypeInv, Q8_8
<1>12. ~FiresOn(ev)
  <2>1. ~(ChargeOf(ev) >= One)
    BY <1>6, <1>10, <1>11
  <2> QED BY <2>1, Zenon DEF FiresOn, Fires, Theta
<1> QED BY <1>10, <1>12

(* A delivery fires no blocked node of a calm query.                       *)
LEMMA CalmDelivered ==
  ASSUME TypeInv, CalmInv, graph' = graph, NEW ev \in queue, Deliver(ev)
  PROVE  CalmInv'
<1> DEFINE n == Target(ev)
<1>1. /\ queue' = queue \ {ev} /\ sending = {}
      /\ lastFired' = IF FiresOn(ev) THEN [lastFired EXCEPT ![n] = tick] ELSE lastFired
      /\ sending' = IF FiresOn(ev) /\ ~predicting THEN OutOf(n) ELSE {}
      /\ Expect(NextOf(ev), Settled(ResolvedBy(ev), Verdict(ev.key)), RecordsOf(ev), ChargesOf(ev))
      /\ UNCHANGED <<weight, start, opened, tick>>
  BY DeliverEffect, Zenon DEF Bag!Deliver, queryVars
<1> SUFFICES ASSUME opened.calm PROVE (SignalsInv /\ OpenedInv /\ BlockedInv)'
  BY <1>1 DEF CalmInv
<1>2. SignalsInv /\ OpenedInv /\ BlockedInv
  BY Zenon DEF CalmInv
<1>3. /\ n \in Nodes /\ lastFired \in [Nodes -> Int] /\ tick \in Nat /\ start <= tick
      /\ charge \in [Nodes -> Q8_8] /\ ChargesOf(ev) \in [Nodes -> Q8_8] /\ start \in Int
  BY ChargeRange DEF TypeInv, NodesInv, TimesInv, QueryInv
<1>4. \A m \in Nodes : lastFired[m] <= tick
  <2>1. \A m \in Nodes : lastFired[m] \in -Refractory..tick
    BY Zenon DEF TypeInv, NodesInv
  <2> QED BY <1>3, <2>1, Sizes
<1>5. /\ \A m \in Nodes : lastFired'[m] >= lastFired[m] /\ lastFired'[m] \in Int
      /\ \A m \in Nodes : m # n => lastFired'[m] = lastFired[m]
      /\ FiresOn(ev) => lastFired'[n] = tick
      /\ ~FiresOn(ev) => lastFired' = lastFired
  <2>1. CASE FiresOn(ev)
    BY <1>1, <1>3, <1>4, <2>1
  <2>2. CASE ~FiresOn(ev)
    BY <1>1, <1>3, <2>2
  <2> QED BY <2>1, <2>2
<1>6. FiresOn(ev) => lastFired[n] # tick
  <2>1. FiresOn(ev) => ~(tick - lastFired[n] < Refractory)
    BY Zenon DEF FiresOn, Fires, RefractoryActive
  <2> QED BY <1>3, <2>1, Sizes
<1>7. \A e \in graph : e.source \in Nodes /\ e.target \in Nodes
  BY EngineGraphs, Zenon DEF TypeInv, EdgesInv
<1>8. \A o \in queue : o.due \in Int
  <2>1. \A o \in queue : o.due \in tick..(tick + 1)
    BY Zenon DEF TypeInv, QueueInv
  <2> QED BY <1>3, <2>1
<1> HIDE DEF n
<1>9. SignalsInv'
  <2>1. ASSUME NEW o \in queue', o.key \in graph
        PROVE  o.sig <= One /\ lastFired'[o.key.source] >= o.due - 1
    <3>1. o \in queue /\ o.key.source \in Nodes /\ o.due \in Int
      BY <1>1, <1>7, <1>8, <2>1
    <3>2. o.sig <= One /\ lastFired[o.key.source] >= o.due - 1
      BY <1>2, <2>1, <3>1, Zenon DEF SignalsInv
    <3>3. lastFired[o.key.source] \in Int
      BY <1>3, <3>1
    <3> QED BY <1>5, <3>1, <3>2, <3>3
  <2>2. ASSUME NEW e \in sending'
        PROVE  lastFired'[e.source] = tick /\ \A o \in queue' : o.key = e => o.due # tick + 1
    <3>1. FiresOn(ev) /\ e \in graph /\ e.source = n
      BY <1>1 DEF OutOf
    <3>2. lastFired'[e.source] = tick
      BY <1>5, <3>1
    <3>3. ASSUME NEW o \in queue', o.key = e, o.due = tick + 1
          PROVE  FALSE
      <4>1. o \in queue
        BY <1>1
      <4>2. lastFired[n] >= o.due - 1
        BY <1>2, <3>1, <3>3, <4>1 DEF SignalsInv
      <4>3. lastFired[n] = tick
        BY <1>3, <1>4, <3>3, <4>2
      <4> QED BY <1>6, <3>1, <4>3
    <3> QED BY <3>2, <3>3
  <2>3. \A o \in queue' : o.key \notin graph => o.key.target = opened.node
    BY <1>1, <1>2 DEF SignalsInv
  <2>4. Modest(weight)' /\ opened'.node \in Nodes
    BY <1>1, <1>2 DEF SignalsInv, Modest
  <2>5. tick' = tick
    BY <1>1
  <2>6. \A e \in sending' : lastFired'[e.source] = tick' /\ \A o \in queue' : o.key = e => o.due # tick' + 1
    BY <2>2, <2>5
  <2>7. \A o \in queue' : o.key \in graph' => o.sig <= One /\ lastFired'[o.key.source] >= o.due - 1
    BY <2>1
  <2>8. \A o \in queue' : o.key \notin graph' => o.key.target = opened'.node
    BY <1>1, <2>3
  <2> QED BY <2>4, <2>6, <2>7, <2>8, Zenon DEF SignalsInv
<1>10. opened.node \in Nodes
  BY <1>2, Zenon DEF SignalsInv
<1>11. OpenedInv'
  <2>1. CASE lastFired[opened.node] >= start
    <3>1. lastFired'[opened.node] >= start
      BY <1>3, <1>5, <1>10, <2>1
    <3> QED BY <1>1, <3>1 DEF OpenedInv
  <2>2. CASE \A o \in queue : o.key \notin graph
    <3>1. n = opened.node
      BY <1>2, <2>2, Zenon DEF SignalsInv, n, Target
    <3>2. CASE FiresOn(ev)
      <4>1. lastFired'[opened.node] >= start
        BY <1>3, <1>5, <3>1, <3>2
      <4> QED BY <1>1, <4>1 DEF OpenedInv
    <3>3. CASE ~FiresOn(ev)
      <4>1. sending' = {} /\ \A o \in queue' : o.key \notin graph'
        BY <1>1, <2>2, <3>3
      <4> QED BY <4>1, Zenon DEF OpenedInv
    <3> QED BY <3>2, <3>3
  <2> QED BY <1>2, <2>1, <2>2, Zenon DEF OpenedInv
<1>12. ASSUME NEW b \in graph, b.blocker, b.source # b.target, opened.node = b.source
       PROVE  charge'[b.target] < One /\ lastFired'[b.target] < start
  <2>1. charge[b.target] < One /\ lastFired[b.target] < start /\ b.target \in Nodes
    BY <1>2, <1>7, <1>12, Zenon DEF BlockedInv
  <2>2. ChargesOf(ev)[b.target] < One /\ lastFired'[b.target] < start
    <3>1. CASE n = b.target
      <4>1. ChargeOf(ev) < One /\ ~FiresOn(ev)
        BY <1>2, <1>12, <3>1, BlockedCharge, Zenon DEF n
      <4>2. ChargesOf(ev)[b.target] = ChargeOf(ev)
        BY <1>3, <2>1, <3>1, <4>1 DEF ChargesOf, n
      <4> QED BY <1>5, <2>1, <4>1, <4>2
    <3>2. CASE n # b.target
      <4>1. ChargesOf(ev)[b.target] = charge[b.target]
        BY <1>3, <2>1, <3>2 DEF ChargesOf, n
      <4> QED BY <1>5, <2>1, <3>2, <4>1
    <3> QED BY <3>1, <3>2
  <2>3. \/ charge' = ChargesOf(ev)
        \/ \E e \in NextOf(ev) : charge' = PrechargedAt(ChargesOf(ev), e)
    BY <1>1, ExpectEffect, Zenon
  <2>4. ASSUME NEW e \in NextOf(ev), charge' = PrechargedAt(ChargesOf(ev), e)
        PROVE  charge'[b.target] < One
    <3>1. charge' = [ChargesOf(ev) EXCEPT ![e.target] = PreCharged(ChargesOf(ev)[e.target])]
      BY <2>4 DEF PrechargedAt
    <3>2. CASE e.target = b.target
      <4>1. ChargesOf(ev)[b.target] \in Q8_8
        BY <1>3, <2>1
      <4>2. PreCharged(ChargesOf(ev)[b.target]) < One
        BY <4>1, PreChargedRange
      <4>3. charge'[b.target] = PreCharged(ChargesOf(ev)[b.target])
        BY <1>3, <2>1, <3>1, <3>2
      <4> QED BY <4>2, <4>3
    <3>3. CASE e.target # b.target
      BY <1>3, <2>1, <2>2, <3>1, <3>3
    <3> QED BY <3>2, <3>3
  <2> QED BY <2>2, <2>3, <2>4, Zenon
<1>13. BlockedInv'
  BY <1>1, <1>12 DEF BlockedInv
<1> QED BY <1>9, <1>11, <1>13

(* What the calm of a query rests on.                                      *)
LEMMA CalmChange ==
  ASSUME TypeInv, [Next]_vars
  PROVE  \/ /\ opened'.calm => opened.calm /\ Modest(weight)'
            /\ opened'.node = opened.node
            /\ UNCHANGED <<graph, queue, sending, lastFired, tick, charge, start>>
         \/ \E n \in Nodes :
              /\ phase = "between"
              /\ UNCHANGED <<sending, lastFired, tick, charge, weight>>
              /\ start' = tick /\ queue' \subseteq queue \cup New(ActivationOf(n), tick, One)
              /\ opened' = [node |-> n, calm |-> /\ queue = {} /\ Modest(weight)
                                                 /\ \A m \in Nodes : charge[m] < One]
         \/ \E e \in sending :
              /\ sending' = sending \ {e}
              /\ queue' \subseteq queue \cup New(e, tick + 1, Signal(e))
                                    \cup Merged(e, tick + 1, Signal(e))
              /\ UNCHANGED <<weight, lastFired, tick, charge, start, opened>>
         \/ \E ev \in queue : Deliver(ev)
         \/ EndTick
         \/ ~opened'.calm
         \/ UNCHANGED <<queue, sending, lastFired, tick, charge, start, opened, weight>>
<1> DEFINE Opens(n) ==
             /\ phase = "between"
             /\ UNCHANGED <<sending, lastFired, tick, charge, weight>>
             /\ start' = tick /\ queue' \subseteq queue \cup New(ActivationOf(n), tick, One)
             /\ opened' = [node |-> n, calm |-> /\ queue = {} /\ Modest(weight)
                                                /\ \A m \in Nodes : charge[m] < One]
           Same == UNCHANGED <<queue, sending, lastFired, tick, charge, start, opened, weight>>
<1>0. QueueInv /\ EdgesInv /\ graph' = graph
  BY SameGraph, Zenon DEF TypeInv
<1>1. ASSUME NEW n \in Nodes, Activate(n) \/ \E t, r : Query(n, t, r)
      PROVE  Opens(n)
  <2>1. ActivateNode(n)
    BY <1>1, Zenon DEF Activate, Query
  <2>2. Bag!Activate(ActivationOf(n), One)
    BY <2>1, Zenon DEF ActivateNode, ActivationOf
  <2>3. phase = "between" /\ queue' \subseteq queue \cup New(ActivationOf(n), tick, One) /\ tick' = tick
    BY <1>0, <2>2, PushEffect, Zenon DEF Bag!Activate
  <2> QED BY <2>1, <2>3, Zenon DEF ActivateNode, nodeVars
<1>2. ASSUME NEW q \in Queries, Query(q.source, q.target, q.relation)
      PROVE  \E n \in Nodes : Opens(n)
  BY <1>1, <1>2, EngineQueries, Zenon
<1>3. ASSUME NEW e \in graph, Inject(e)
      PROVE  ~opened'.calm
  <2>1. opened' = [opened EXCEPT !.calm = FALSE]
    BY <1>3, Zenon DEF Inject
  <2>2. opened \in [node : {None} \cup Nodes, calm : BOOLEAN]
    BY Zenon DEF TypeInv, QueryInv
  <2> QED BY <2>1, <2>2
<1>4. CASE SetPredictionMode \/ UNCHANGED vars \/ (\E n \in TickCounts : Ticks(n)) \/ BeginTick
  BY <1>4, Zenon DEF SetPredictionMode, vars, Ticks, BeginTick, Bag!BeginTick, bagVars, nodeVars,
     queryVars, history
<1>5. CASE Send
  <2>1. PICK e \in sending :
           /\ sending' = sending \ {e}
           /\ \/ UNCHANGED <<bagVars, stability>>
              \/ Bag!Emit(e, 1, Signal(e))
           /\ UNCHANGED <<weight, nodeVars, queryVars, history>>
    BY <1>0, <1>5, SendEffect, Zenon
  <2>2. /\ queue' \subseteq queue \cup New(e, tick + 1, Signal(e))
                                   \cup Merged(e, tick + 1, Signal(e))
        /\ tick' = tick
    <3>1. CASE UNCHANGED <<bagVars, stability>>
      BY <3>1, Zenon DEF bagVars
    <3>2. CASE Bag!Emit(e, 1, Signal(e))
      BY <1>0, <3>2, EmitEffect, Zenon
    <3> QED BY <2>1, <3>1, <3>2
  <2> QED BY <2>1, <2>2, Zenon DEF nodeVars, queryVars, history
<1>6. CASE Apply
  <2>1. opened' = [opened EXCEPT !.calm = @ /\ Modest(weight')]
    BY <1>6, Zenon DEF Apply
  <2>2. opened \in [node : {None} \cup Nodes, calm : BOOLEAN]
    BY Zenon DEF TypeInv, QueryInv
  <2>3. Modest(weight') \in BOOLEAN
    BY Zenon DEF Modest
  <2>4. (opened'.calm => opened.calm /\ Modest(weight')) /\ opened'.node = opened.node
    <3> DEFINE m == Modest(weight')
    <3>1. m \in BOOLEAN /\ opened' = [opened EXCEPT !.calm = opened.calm /\ m]
      BY <2>1, <2>3, Zenon
    <3> HIDE DEF m
    <3>2. (opened'.calm => opened.calm /\ m) /\ opened'.node = opened.node
      BY <2>2, <3>1
    <3> QED BY <3>2 DEF m
  <2>5. Modest(weight') => Modest(weight)'
    BY <1>0 DEF Modest
  <2>6. UNCHANGED <<graph, queue, sending, lastFired, tick, charge, start>>
    BY <1>6, Zenon DEF Apply, bagVars, nodeVars, queryVars
  <2> QED BY <2>4, <2>5, <2>6, Zenon
<1> QED BY <1>1, <1>2, <1>3, <1>4, <1>5, <1>6, Steps, Zenon

(* A query that is calm stays so until it is disturbed.                    *)
LEMMA CalmStep ==
  ASSUME TypeInv, CalmInv, [Next]_vars
  PROVE  CalmInv'
<1>1. graph' = graph
  BY SameGraph
<1>2. CASE ~opened'.calm
  BY <1>2, Zenon DEF CalmInv
<1>3. ASSUME UNCHANGED <<queue, sending, lastFired, tick, charge, start, opened, weight>>
      PROVE  CalmInv'
  <2>1. opened'.calm => opened.calm /\ Modest(weight)'
    BY <1>1, <1>3 DEF CalmInv, SignalsInv, Modest
  <2> QED BY <1>1, <1>3, <2>1, CalmKept
<1> QED BY <1>1, <1>2, <1>3, CalmChange, CalmKept, CalmOpened, CalmSent, CalmDelivered, CalmEnded,
     Zenon

(* The engine starts in the invariant.                                     *)
LEMMA InitTypes ==
  ASSUME Init
  PROVE  TypeInv
<1> USE Sizes DEF Init
<1>1. TimesInv
  <2>1. /\ tick = 0 /\ phase = "between" /\ sending = {} /\ applying = FALSE
        /\ idle = 0 /\ left = 0 /\ calls = 0
    BY Zenon
  <2>2. ~applying /\ applying \in BOOLEAN
    BY <2>1, Zenon
  <2>3. /\ tick \in Nat /\ left \in Nat /\ tick + left <= MaxTick
        /\ idle \in 0..IdleTicks /\ calls \in 0..MaxCalls
    BY <2>1
  <2>4. phase \in Bag!Phase /\ ~(phase # "between")
    BY <2>1 DEF Bag!Phase
  <2> HIDE DEF Init
  <2> QED BY <2>1, <2>2, <2>3, <2>4, Zenon DEF TimesInv
<1>2. QueueInv
  BY DEF QueueInv
<1>3. EdgesInv
  <2>1. PICK s \in Stabilities : stability = [e \in graph |-> s]
    BY Zenon
  <2>2. s \in 0..StabMax /\ W0 \in WMin..WMax
    BY EngineSizes, Weights
  <2> QED BY <2>1, <2>2 DEF EdgesInv
<1>4. NodesInv
  <2>1. 0 \in Q8_8
    BY DEF Q8_8
  <2>2. -Refractory \in Int /\ -Refractory \in -Refractory..0 /\ -Refractory < 0
    OBVIOUS
  <2> QED BY <2>1, <2>2 DEF NodesInv
<1>5. ActiveInv
  <2>1. IsFiniteSet({}) /\ Cardinality({}) = 0
    BY FS_EmptySet
  <2> QED BY <2>1 DEF ActiveInv
<1>6. QueryInv
  <2>1. /\ predicting = FALSE /\ tag = None /\ start = 0 /\ tick = 0 /\ muffled = {}
        /\ opened = [node |-> None, calm |-> FALSE]
    BY Zenon
  <2> HIDE DEF Init
  <2>2. predicting \in BOOLEAN /\ muffled \subseteq Tags /\ tag \in Tags
    BY <2>1, Zenon DEF Tags
  <2>3. start \in 0..tick
    BY <2>1
  <2>4. opened \in [node : {None} \cup Nodes, calm : BOOLEAN]
    BY <2>1
  <2> QED BY <2>2, <2>3, <2>4, Zenon DEF QueryInv
<1>7. ExpectInv
  BY DEF ExpectInv
<1>8. RouterInv
  <2>1. router = [on |-> FALSE, decided |-> FALSE, fluid |-> FALSE, crystallized |-> FALSE,
                  novelty |-> 0, contradiction |-> 0, unresolved |-> 0, confidence |-> 0,
                  threshold |-> Base]
    BY DEF NoRouter
  <2>2. Base \in Base..SigMax
    BY Weights
  <2> QED BY <2>1, <2>2 DEF RouterInv, Router, FatigueRemains, Unjudged
<1> QED BY <1>1, <1>2, <1>3, <1>4, <1>5, <1>6, <1>7, <1>8 DEF TypeInv

(* The invariant holds at the start.                                       *)
LEMMA InitInv ==
  ASSUME Init
  PROVE  EngineInv
<1>1. TypeInv
  BY InitTypes
<1>2. MuffledInv
  BY DEF Init, MuffledInv, Muted
<1>3. FateInv
  BY DEF Init, FateInv, Past, Fates, Untagged, Listed, Apart, Fated
<1>4. CalmInv
  BY DEF Init, CalmInv
<1> QED BY <1>1, <1>2, <1>3, <1>4 DEF EngineInv

(* The types of the state, one part for each group of variables.           *)
LEMMA TypesStep ==
  ASSUME TypeInv, [Next]_vars
  PROVE  TypeInv'
<1>1. /\ TimesInv /\ QueueInv /\ EdgesInv /\ NodesInv /\ ActiveInv /\ QueryInv /\ ExpectInv
      /\ RouterInv
  BY Zenon DEF TypeInv
<1>2. TimesInv' /\ QueueInv' /\ EdgesInv' /\ NodesInv'
  BY <1>1, TimesStep, QueueStep, EdgesStep, NodesStep, Zenon
<1>3. ActiveInv' /\ QueryInv' /\ ExpectInv' /\ RouterInv'
  BY <1>1, ActiveStep, QueryStep, ExpectStep, RouterStep, Zenon
<1> QED BY <1>2, <1>3, Zenon DEF TypeInv

(* The parts make the type invariant.                                      *)
LEMMA TypesOK ==
  ASSUME TypeInv
  PROVE  TypeOK
<1>1. TimesInv /\ EdgesInv /\ NodesInv /\ ActiveInv /\ QueryInv /\ ExpectInv /\ RouterInv /\ QueueInv
  BY Zenon DEF TypeInv
<1>2. /\ tick \in 0..MaxTick /\ phase \in Bag!Phase /\ left \in 0..MaxTick
      /\ idle \in 0..IdleTicks /\ calls \in 0..MaxCalls /\ applying \in BOOLEAN
  BY <1>1, Sizes DEF TimesInv
<1>3. queue \subseteq [id : 1..Cap, key : graph \cup [source : {None}, target : Nodes],
                       due : tick..(tick + 1), sig : (-SigMax - 1)..SigMax]
  BY <1>1 DEF QueueInv, KeysNow, Q8_8
<1>4. /\ graph \in Graphs /\ sending \subseteq graph
      /\ weight \in [graph -> WMin..WMax] /\ stability \in [graph -> 0..StabMax]
      /\ charge \in [Nodes -> (-SigMax - 1)..SigMax]
      /\ lastFired \in [Nodes -> Int] /\ \A n \in Nodes : lastFired[n] \in -Refractory..tick
      /\ active \subseteq Nodes /\ Cardinality(active) <= ActiveCap
  BY <1>1, Zenon DEF EdgesInv, NodesInv, ActiveInv, Q8_8
<1>5. /\ predicting \in BOOLEAN /\ start \in 0..tick /\ tag \in {None} \cup ((0..tick) \X Nodes)
      /\ opened \in [node : {None} \cup Nodes, calm : BOOLEAN]
      /\ muffled \subseteq {None} \cup ((0..tick) \X Nodes)
  BY <1>1, Zenon DEF QueryInv, Tags
<1>6. /\ expected \in Seq([edge : graph, tick : 0..tick, tag : {tag},
                           fate : {"pending", "confirmed", "missed"}])
      /\ traces \in Seq([edge : graph, tag : {None} \cup ((0..tick) \X Nodes),
                         kind : {"used", "suppressed", "expected"},
                         marks : SUBSET {"confirmed", "missed"}])
      /\ Len(expected) <= ExpectCap /\ Len(traces) <= TraceCap
      /\ deltas \in Seq([edge : graph, by : {Ltp, Ltd}])
      /\ applying => deltas # <<>>
  BY <1>1, Zenon DEF ExpectInv, Expectation, TraceRecord, Tags
<1>7. router \in [on : BOOLEAN, decided : BOOLEAN, fluid : BOOLEAN, crystallized : BOOLEAN,
                  novelty : {0, 1}, contradiction : {0, 1}, unresolved : {0, 1},
                  confidence : {0, One \div 4, 2 * One}, threshold : Base..SigMax]
  BY <1>1, Zenon DEF RouterInv, Router
<1> QED BY <1>2, <1>3, <1>4, <1>5, <1>6, <1>7, Zenon DEF TypeOK

(* The invariant is inductive, for every graph and every capacity.         *)
LEMMA InvStep ==
  ASSUME EngineInv, [Next]_vars
  PROVE  EngineInv'
  BY TypesStep, MuffledStep, FateStep, CalmStep, Zenon DEF EngineInv

(* Every state of the engine, with its queue, its expectations and its     *)
(* records, satisfies the invariant, whatever commands it is given.        *)
THEOREM EngineInvariant == Spec => []EngineInv
<1>1. Init => EngineInv
  BY InitInv
<1>2. EngineInv /\ [Next]_vars => EngineInv'
  BY InvStep
<1> QED BY <1>1, <1>2, PTL DEF Spec

(* The state of the engine keeps its types: charges within Q8.8, weights   *)
(* within their limits, lists within their capacities.                     *)
THEOREM EngineTyped == Spec => []TypeOK
<1>1. EngineInv => TypeOK
  BY TypesOK DEF EngineInv
<1> QED BY <1>1, EngineInvariant, PTL

(* A blocker whose source opened a query of a calm engine keeps its target *)
(* from firing, whatever paths lead there (nerva_fire_node and the         *)
(* suppression of nerva_exception.c), for every graph.                     *)
THEOREM BlockedNeverFires == Spec => []ExceptionHolds
<1>1. EngineInv => ExceptionHolds
  BY Zenon DEF EngineInv, CalmInv, BlockedInv, ExceptionHolds
<1> QED BY <1>1, EngineInvariant, PTL

(* The trace tells the fate of every expectation in its reach              *)
(* (nerva_prediction_mark_trace), for every capacity and scan limit.       *)
THEOREM FatesAreTold == Spec => []TraceTellsFate
<1>1. EngineInv => TraceTellsFate
  BY FatesTold DEF EngineInv
<1> QED BY <1>1, EngineInvariant, PTL

(* A router once tired never gets back to its base threshold               *)
(* (nerva_routing_decay_threshold), for every fatigue and decay.           *)
THEOREM TiredForGood == Spec => []FatigueRemains
<1>1. EngineInv => FatigueRemains
  BY Zenon DEF EngineInv, TypeInv, RouterInv
<1> QED BY <1>1, EngineInvariant, PTL

(* Before its trace overflows, a query is decided as contradicted exactly  *)
(* if a signal was suppressed in it since the latest activation            *)
(* (nerva_routing_query_has_exception): an activation in between makes the *)
(* router forget what was suppressed before, and nothing else does.        *)
THEOREM SuppressionsCount == Spec => SuppressionNoticed
<1>1. EngineInv /\ [Next]_vars
        => [(~router.decided /\ router'.decided
               /\ Len(traces) < TraceCap /\ Len(traces) <= ScanLimit)
              => (router'.contradiction = 1 <=> tag \in muffled)]_vars
  BY SuppressionStep DEF EngineInv
<1> QED BY <1>1, EngineInvariant, PTL DEF Spec, SuppressionNoticed
=============================================================================
