---------------------------- MODULE Counting_proofs ----------------------------
(***************************************************************************)
(* Proofs about Counting, for every text, order, number of threads, limit  *)
(* and setting of the training, and every interleaving of the threads.     *)
(***************************************************************************)
EXTENDS Counting, FiniteSetTheorems, FunctionTheorems, SequenceTheorems, WellFoundedInduction, TLAPS

Gram == [ctx : Seq(Nat), next : Nat]

(* A table of counts, none of which is zero.                               *)
IsTable(t) == /\ IsFiniteSet(Grams(t)) /\ Grams(t) \subseteq Gram
              /\ t = [g \in Grams(t) |-> t[g]]
              /\ \A g \in Grams(t) : t[g] \in Nat \ {0}
Tally(t, g) == IF g \in Grams(t) THEN t[g] ELSE 0

(* Those of some places where a gram is.                                   *)
At(g, ps) == {p \in ps : GramAt(p) = g}

(* All places of a counted text, those of a job, and what it has counted.  *)
Whole == Places(1, Len(Text), 1)
Mine(j) == Places(Lo(j), Hi(j), 1)
From(j) == IF thread[j] = "none" THEN {} ELSE Mine(j) \ todo[j]

(* The main thread has taken the count of a gram over from a job.          *)
Past == {"merge", "contexts", "edges", "done", "failed"}
Taken(j, g) == /\ pc \in Past
               /\ j < cur \/ (j = cur /\ g \notin Grams(table[cur]))

(* The places that a thread's count of a gram may stand for.               *)
Serially == IF NJobs = 1 /\ pc \notin {"start", "tokens"} THEN Whole \ todo[Main] ELSE {}
Own(j, g) ==
  IF j = Main THEN Serially \cup UNION {From(i) : i \in {i \in Jobs : Taken(i, g)}}
  ELSE IF Taken(j, g) THEN {} ELSE From(j)

(* No limit is met, and nothing has failed.                                *)
Room == cfg.soft = 0 \/ Cardinality(TrueGrams) <= cfg.soft
Smooth == cfg.mode = "counted" /\ Room /\ ~spoilt /\ pc \notin {"failed", "crashed"}

(* A thread's tally of a gram is at most, and where nothing is given up    *)
(* exactly, that of the places that it stands for.                         *)
Exact(j) == Smooth /\ (j # Main => thread[j] # "failed")
Fair(j, g) ==
  /\ Tally(table[j], g) <= Cardinality(At(g, Own(j, g)))
  /\ Exact(j) => Tally(table[j], g) = Cardinality(At(g, Own(j, g)))
CountsInv ==
  \A j \in {Main} \cup Jobs :
    /\ IsTable(table[j]) /\ Grams(table[j]) \subseteq TrueGrams
    /\ \A g \in TrueGrams : Fair(j, g)

(* Types, and the places that are still to be counted.                     *)
Marks == {"none", "running", "inline", "failed"}
Threads == {Main} \cup Jobs
Ready == {"contexts", "edges", "done"}
ShapeInv ==
  /\ cfg \in Configs
  /\ pc \in {"start", "tokens", "online", "serial", "spawn", "inline", "join", "merge",
             "contexts", "edges", "done", "failed", "crashed"}
  /\ cur \in 1..(MaxJobs + 1) /\ spoilt \in BOOLEAN
  /\ thread \in [Jobs -> Marks]
  /\ DOMAIN table = Threads /\ DOMAIN todo = Threads
  /\ table = [j \in Threads |-> table[j]] /\ todo = [j \in Threads |-> todo[j]]
  /\ todo[Main] \subseteq IF cfg.mode = "online" THEN Stream ELSE Whole
  /\ \A j \in Jobs : todo[j] \subseteq Mine(j)

(* Who counts, and when.                                                   *)
Idle == cur = 1 /\ ~spoilt /\ \A j \in Jobs : thread[j] = "none"
StagesInv ==
  /\ cfg.mode = "online" => /\ pc \in {"start", "online", "done"}
                            /\ Idle /\ Grams(table[Main]) = {}
                            /\ pc = "done" => todo[Main] = {}
  /\ cfg.mode = "counted" => pc # "online"
  /\ pc \in {"start", "tokens", "serial"} => Idle
  /\ pc \in {"start", "tokens"} => todo[Main] = {} /\ Grams(table[Main]) = {}
  /\ NJobs = 1 => Idle /\ pc \notin {"spawn", "inline", "join", "merge"}
  /\ NJobs # 1 => pc # "serial"
  /\ pc \in {"spawn", "join", "merge"} => cur \in 1..(NJobs + 1)
  /\ pc = "inline" => cur \in 1..NJobs
  /\ pc \in Ready /\ cfg.mode = "counted" =>
       ~spoilt /\ IF NJobs = 1 THEN todo[Main] = {} ELSE cur = NJobs + 1

JobInv(j) ==
  /\ thread[j] = "none" => todo[j] = {} /\ Grams(table[j]) = {}
  /\ thread[j] = "failed" => todo[j] = {}
  /\ j > NJobs => thread[j] = "none"
  /\ pc = "spawn" => (thread[j] = "none" <=> j >= cur)
  /\ pc = "inline" => (thread[j] = "none" <=> j > cur)
  /\ pc \in {"join", "merge"} \cup Ready /\ j <= NJobs /\ NJobs # 1 /\ cfg.mode = "counted"
       => thread[j] # "none"
  /\ pc = "join" /\ j < cur => todo[j] = {}
  /\ pc \in {"merge", "failed"} \cup Ready => todo[j] = {}
  /\ pc \in {"merge"} \cup Ready => thread[j] # "failed"
  /\ pc \in {"merge"} \cup Ready /\ j < cur => Grams(table[j]) = {}
JobsInv == \A j \in Jobs : JobInv(j)

(* What is still to be materialised.                                       *)
TextTokens == {Text[i] : i \in DOMAIN Text}
ContextsOf(grams) == {g.ctx : g \in grams}
RestInv ==
  /\ pc = "tokens" => rest \subseteq TextTokens
  /\ pc = "contexts" => rest \subseteq ContextsOf(Grams(table[Main]))
  /\ pc = "edges" => rest \subseteq Grams(table[Main])

KnInv == kn = [t \in 0..(Vocab - 1) |->
                 IF pc \in Ready /\ cfg.mode = "counted"
                 THEN Predecessors(Grams(table[Main]), t) ELSE 0]

(* A graph within its limits.                                              *)
IsGraph(gr) ==
  /\ gr = [toks |-> gr.toks, ctxs |-> gr.ctxs, names |-> gr.names, edges |-> gr.edges]
  /\ IsFiniteSet(gr.toks) /\ IsFiniteSet(gr.ctxs) /\ gr.names \in Nat
  /\ NodeCount(gr) <= cfg.nodeCap /\ NodeCount(gr) <= gr.names
  /\ gr.names <= cfg.nameCap
  /\ IsFiniteSet(DOMAIN gr.edges) /\ Cardinality(DOMAIN gr.edges) <= cfg.edgeCap
  /\ gr.edges = [g \in DOMAIN gr.edges |-> gr.edges[g]]
  /\ \A g \in DOMAIN gr.edges :
       gr.edges[g] \in 0..WMax /\ g.next \in gr.toks /\ g.ctx \in gr.ctxs
GraphInv ==
  /\ IsGraph(graph)
  /\ \A g \in DOMAIN graph.edges : graph.edges[g] # 0

(* The limit of the main table.                                            *)
LimitInv == cfg.soft # 0 => Cardinality(Grams(table[Main])) <= cfg.soft

(* Where no limit is met, the graph has what the reference calls for.      *)
CountedGraph ==
  cfg.mode = "counted" /\ Fits =>
    /\ pc = "start" => graph.toks = {}
    /\ pc = "tokens" => graph.toks = TextTokens \ rest
    /\ pc \notin {"start", "tokens", "failed", "crashed"} => graph.toks = TextTokens
    /\ pc \notin {"contexts", "edges", "done", "failed", "crashed"} => graph.ctxs = {}
    /\ pc \notin {"edges", "done"} => DOMAIN graph.edges = {}
    /\ pc \notin {"failed", "crashed"} => graph.names = NodeCount(graph)
    /\ pc = "contexts" => graph.ctxs = ContextsOf(TrueGrams) \ rest
    /\ pc \in {"edges", "done"} => graph.ctxs = ContextsOf(TrueGrams)
    /\ pc = "edges" => DOMAIN graph.edges = TrueEdges \ rest
    /\ pc = "done" => DOMAIN graph.edges = TrueEdges
    /\ \A g \in DOMAIN graph.edges : graph.edges[g] = TrueWeight(g)

Seen == IF pc = "start" THEN {} ELSE Stream \ todo[Main]
SeenGrams == {p \in Seen : p[2] # 0}
OnlineGraph ==
  cfg.mode = "online" /\ Fits =>
    /\ graph.names = NodeCount(graph)
    /\ graph.toks = {Text[p[1]] : p \in {p \in Seen : p[2] = 0}}
    /\ graph.ctxs = {GramAt(p).ctx : p \in SeenGrams}
    /\ DOMAIN graph.edges = {GramAt(p) : p \in SeenGrams}
    /\ \A g \in DOMAIN graph.edges :
         graph.edges[g] = Min({Step(g.ctx) * Cardinality(At(g, Seen)), WMax})

CountingInv == /\ ShapeInv /\ StagesInv /\ JobsInv /\ RestInv /\ LimitInv
               /\ CountsInv /\ KnInv /\ GraphInv /\ CountedGraph /\ OnlineGraph

(* What a configuration is.                                                *)
LEMMA CfgFacts ==
  ASSUME cfg \in Configs
  PROVE  /\ Text \in Seq(0..(Vocab - 1)) /\ Len(Text) \in Nat \ {0}
         /\ cfg.order \in Nat \ {0} /\ cfg.skip \in BOOLEAN /\ cfg.jobs \in 1..MaxJobs
         /\ cfg.chunk \in Nat \ {0} /\ cfg.soft \in Nat /\ cfg.norm \in BOOLEAN
         /\ cfg.mode \in {"online", "counted"} /\ (cfg.norm => cfg.mode = "counted")
         /\ cfg.nodeCap \in Nat /\ cfg.nameCap \in Nat /\ cfg.edgeCap \in Nat
         /\ DOMAIN Text = 1..Len(Text) /\ \A i \in 1..Len(Text) : Text[i] \in 0..(Vocab - 1)
         /\ Skip = cfg.order + 1
<1>1. /\ cfg.text \in Seq(0..(Vocab - 1)) /\ cfg.text # <<>>
      /\ cfg.order \in Nat \ {0} /\ cfg.skip \in BOOLEAN /\ cfg.jobs \in 1..MaxJobs
      /\ cfg.chunk \in Nat \ {0} /\ cfg.soft \in Nat /\ cfg.norm \in BOOLEAN
      /\ cfg.mode \in {"online", "counted"} /\ (cfg.norm => cfg.mode = "counted")
      /\ cfg.nodeCap \in Nat /\ cfg.nameCap \in Nat /\ cfg.edgeCap \in Nat
  BY CountingConfigs
<1>2. ASSUME NEW S, NEW s \in Seq(S), s # <<>>
      PROVE  /\ Len(s) \in Nat \ {0} /\ DOMAIN s = 1..Len(s)
             /\ \A i \in 1..Len(s) : s[i] \in S
  BY <1>2, EmptySeq
<1>3. /\ Len(Text) \in Nat \ {0} /\ DOMAIN Text = 1..Len(Text)
      /\ \A i \in 1..Len(Text) : Text[i] \in 0..(Vocab - 1)
  BY <1>1, <1>2, Zenon DEF Text
<1> QED BY <1>1, <1>3, Zenon DEF Text, Skip

(* The numbers.                                                            *)
LEMMA Numbers ==
  /\ Vocab \in Nat \ {0} /\ MaxJobs \in Nat \ {0} /\ ParallelFrom \in Nat \ {0}
  /\ WMax \in Nat \ {0} /\ NormFrom \in Nat \ {0} /\ PruneFrom \in Nat \ {0}
  /\ Top \in Nat \ {0} /\ MaxFaults \in Nat \ {0} /\ Jobs = 1..MaxJobs /\ Main = 0
BY CountingSizes DEF Jobs, Main

(* The smaller and the larger of two numbers.                              *)
LEMMA MinTwo ==
  ASSUME NEW a \in Int, NEW b \in Int
  PROVE  /\ Min({a, b}) = IF a <= b THEN a ELSE b
         /\ Max({a, b}) = IF a <= b THEN b ELSE a
BY DEF Min, Max

(* Of a text that stays, all that is read off it stays.                    *)
LEMMA Static ==
  ASSUME cfg' = cfg
  PROVE  /\ Whole' = Whole /\ Stream' = Stream /\ NJobs' = NJobs
         /\ \A j : Mine(j)' = Mine(j)
         /\ \A p : GramAt(p)' = GramAt(p)
<1>1. Whole' = Whole
  BY Zenon DEF Whole, Places, Skip, Text
<1>2. Stream' = Stream
  BY Zenon DEF Stream, ChunkStart, Text
<1>3. NJobs' = NJobs
  BY Zenon DEF NJobs, Text
<1>4. \A j : Mine(j)' = Mine(j)
  BY Zenon DEF Mine, Places, Skip, Lo, Hi, Chunk, NJobs, Text
<1>5. \A p : GramAt(p)' = GramAt(p)
  BY Zenon DEF GramAt, Skip, Text
<1> QED BY <1>1, <1>2, <1>3, <1>4, <1>5

(* So does the reference.                                                  *)
LEMMA StaticTruth ==
  ASSUME cfg' = cfg
  PROVE  /\ TrueGrams' = TrueGrams /\ TrueCounts' = TrueCounts
         /\ TrueEdges' = TrueEdges /\ Fits' = Fits
         /\ \A g : Occurs(g)' = Occurs(g) /\ TrueWeight(g)' = TrueWeight(g)
<1>1. Occurrences' = Occurrences
  BY Zenon DEF Occurrences, Spans, Skips, Base, ChunkStart, Text
<1>2. TrueGrams' = TrueGrams /\ \A g : Occurs(g)' = Occurs(g)
  BY <1>1, Zenon DEF TrueGrams, Occurs
<1>3. TrueCounts' = TrueCounts
  BY <1>2, Zenon DEF TrueCounts
<1>4. \A g, c, m : Weight(g, c, m)' = Weight(g, c, m)
  BY SMT DEF Weight, Step, OrderStep, Order
<1>5. \A g : TrueWeight(g)' = TrueWeight(g)
  BY <1>2, <1>3, <1>4, Zenon DEF TrueWeight, MaxCount, Grams
<1>6. TrueEdges' = TrueEdges
  BY <1>2, <1>5, Zenon DEF TrueEdges
<1>7. Fits' = Fits
  BY <1>2, <1>6, Zenon DEF Fits, Text
<1> QED BY <1>2, <1>3, <1>5, <1>6, <1>7

(* What \div means.                                                        *)
LEMMA Division ==
  ASSUME NEW a \in Nat, NEW n \in Nat \ {0}
  PROVE  /\ a \div n \in Nat
         /\ n * (a \div n) <= a /\ a < n * (a \div n) + n
OBVIOUS

(* A product grows with its factors.                                       *)
LEMMA Times ==
  ASSUME NEW a \in Nat, NEW b \in Nat, NEW n \in Nat
  PROVE  /\ a * n \in Nat /\ n * a = a * n
         /\ a <= b => a * n <= b * n
         /\ a + 1 <= b => a * n + n <= b * n
         /\ (a + 1) * n = a * n + n
<1>1. a * n \in Nat /\ n * a = a * n /\ (a + 1) * n = a * n + n
  OBVIOUS
<1>2. ASSUME NEW c \in Nat, NEW d \in Nat, c <= d
      PROVE  c * n <= d * n
  <2>1. PICK e \in Nat : d = c + e
    <3>1. d - c \in Nat /\ d = c + (d - c)
      BY <1>2
    <3> QED BY <3>1
  <2>2. d * n = c * n + e * n /\ e * n \in Nat /\ c * n \in Nat
    BY <2>1
  <2> QED BY <2>2
<1>3. a <= b => a * n <= b * n
  BY <1>2
<1>4. a + 1 <= b => (a + 1) * n <= b * n
  BY <1>2
<1> QED BY <1>1, <1>3, <1>4

(* The jobs share the text out among them.                                 *)
LEMMA Ranges ==
  ASSUME cfg \in Configs
  PROVE  /\ NJobs \in Jobs /\ Chunk \in Nat \ {0} /\ Len(Text) <= NJobs * Chunk
         /\ \A j \in Jobs :
              /\ Lo(j) = (IF (j - 1) * Chunk <= Len(Text) THEN (j - 1) * Chunk ELSE Len(Text)) + 1
              /\ Hi(j) = IF j * Chunk <= Len(Text) THEN j * Chunk ELSE Len(Text)
              /\ Lo(j) \in Nat \ {0} /\ Hi(j) \in 0..Len(Text)
<1>1. NJobs \in Jobs
  BY CfgFacts, Numbers DEF NJobs
<1>2. Len(Text) \in Nat \ {0} /\ NJobs \in Nat \ {0} /\ Len(Text) + NJobs - 1 \in Nat
  BY <1>1, CfgFacts, Numbers
<1>3. /\ Chunk \in Nat /\ Len(Text) + NJobs - 1 < NJobs * Chunk + NJobs
      /\ NJobs * Chunk \in Nat
  <2>1. /\ Chunk \in Nat /\ Len(Text) + NJobs - 1 < NJobs * Chunk + NJobs
    BY <1>2, Division DEF Chunk
  <2> QED BY <1>2, <2>1, Times
<1>4. Len(Text) <= NJobs * Chunk
  BY <1>2, <1>3
<1>5. Chunk # 0
  BY <1>2, <1>3, <1>4
<1>6. ASSUME NEW j \in Jobs
      PROVE  /\ Lo(j) = (IF (j - 1) * Chunk <= Len(Text) THEN (j - 1) * Chunk ELSE Len(Text)) + 1
             /\ Hi(j) = IF j * Chunk <= Len(Text) THEN j * Chunk ELSE Len(Text)
             /\ Lo(j) \in Nat \ {0} /\ Hi(j) \in 0..Len(Text)
  <2>1. j \in Nat /\ j - 1 \in Nat
    BY Numbers
  <2>2. (j - 1) * Chunk \in Nat /\ j * Chunk \in Nat
    BY <2>1, <1>3, Times
  <2>3. /\ Lo(j) = (IF (j - 1) * Chunk <= Len(Text) THEN (j - 1) * Chunk ELSE Len(Text)) + 1
        /\ Hi(j) = IF j * Chunk <= Len(Text) THEN j * Chunk ELSE Len(Text)
    BY <2>2, <1>2, MinTwo DEF Lo, Hi
  <2> QED BY <2>2, <2>3, <1>2
<1> QED BY <1>1, <1>3, <1>4, <1>5, <1>6

(* No position is of two jobs.                                             *)
LEMMA RangesApart ==
  ASSUME cfg \in Configs, NEW i \in Jobs, NEW j \in Jobs, i < j
  PROVE  Hi(i) < Lo(j)
<1>1. i \in Nat /\ j - 1 \in Nat /\ i <= j - 1 /\ Chunk \in Nat /\ Len(Text) \in Nat
  BY Numbers, Ranges, CfgFacts
<1>2. i * Chunk <= (j - 1) * Chunk /\ i * Chunk \in Nat /\ (j - 1) * Chunk \in Nat
  BY <1>1, Times
<1>3. /\ Hi(i) = IF i * Chunk <= Len(Text) THEN i * Chunk ELSE Len(Text)
      /\ Lo(j) = (IF (j - 1) * Chunk <= Len(Text) THEN (j - 1) * Chunk ELSE Len(Text)) + 1
  BY Ranges
<1> HIDE DEF Chunk
<1> QED BY <1>1, <1>2, <1>3

(* Each position is of one.                                                *)
LEMMA RangesMeet ==
  ASSUME cfg \in Configs, NEW i \in 1..Len(Text)
  PROVE  \E j \in 1..NJobs : i \in Lo(j)..Hi(j)
<1> DEFINE q == (i - 1) \div Chunk
<1>1. /\ i - 1 \in Nat /\ Chunk \in Nat \ {0} /\ Len(Text) \in Nat /\ NJobs \in Jobs /\ NJobs \in Nat
      /\ Len(Text) <= NJobs * Chunk /\ i <= Len(Text) /\ i \in Nat
  BY Ranges, CfgFacts, Numbers
<1>2. q \in Nat /\ Chunk * q <= i - 1 /\ i - 1 < Chunk * q + Chunk
  BY <1>1, Division
<1> HIDE DEF q
<1>3. /\ q * Chunk \in Nat /\ q * Chunk = Chunk * q /\ (q + 1) * Chunk = q * Chunk + Chunk
      /\ NJobs <= q => NJobs * Chunk <= q * Chunk
  BY <1>1, <1>2, Times
<1>4. q + 1 \in 1..NJobs
  <2>1. ~(NJobs <= q)
    BY <1>1, <1>2, <1>3
  <2> QED BY <2>1, <1>1, <1>2
<1>5. q + 1 \in Jobs /\ (q + 1) - 1 = q
  BY <1>1, <1>2, <1>4, Numbers
<1>6. i \in Lo(q + 1)..Hi(q + 1)
  <2>1. /\ Lo(q + 1) = (IF q * Chunk <= Len(Text) THEN q * Chunk ELSE Len(Text)) + 1
        /\ Hi(q + 1) = IF (q + 1) * Chunk <= Len(Text) THEN (q + 1) * Chunk ELSE Len(Text)
    BY <1>5, Ranges
  <2> QED BY <2>1, <1>1, <1>2, <1>3
<1> QED BY <1>4, <1>6

(* The context at a place is within the text.                              *)
Reaches(p) == \/ p[2] \in 1..cfg.order /\ p[1] - p[2] >= 1
              \/ p[2] = Skip /\ cfg.skip /\ p[1] - 2 >= 1

(* The places of a part of the text.                                       *)
LEMMA PlaceOf ==
  ASSUME NEW lo, NEW hi, NEW p
  PROVE  p \in Places(lo, hi, 1) <=> p = <<p[1], p[2]>> /\ p[1] \in lo..hi /\ Reaches(p)
<1>1. p \in Places(lo, hi, 1) =>
        p = <<p[1], p[2]>> /\ p[1] \in lo..hi /\ Reaches(p)
  BY DEF Places, Reaches
<1>2. p = <<p[1], p[2]>> /\ p[1] \in lo..hi /\ Reaches(p) => p \in Places(lo, hi, 1)
  <2>1. ASSUME NEW a, NEW b, p = <<a, b>>, a \in lo..hi, Reaches(p)
        PROVE  p \in Places(lo, hi, 1)
    <3>1. CASE b \in 1..cfg.order /\ a - b >= 1
      BY <2>1, <3>1 DEF Places
    <3>2. CASE b = Skip /\ cfg.skip /\ a - 2 >= 1
      BY <2>1, <3>2 DEF Places
    <3> QED BY <2>1, <3>1, <3>2 DEF Reaches
  <2> QED BY <2>1
<1> QED BY <1>1, <1>2

(* Those of the whole text.                                                *)
LEMMA WholeIs ==
  ASSUME cfg \in Configs, NEW p
  PROVE  p \in Whole <=> p = <<p[1], p[2]>> /\ p[1] \in 1..Len(Text) /\ Reaches(p)
BY PlaceOf DEF Whole

(* Those of the calls of fluency_train, one token at a time.               *)
LEMMA StreamIs ==
  ASSUME cfg \in Configs, NEW p
  PROVE  p \in Stream <=> /\ p = <<p[1], p[2]>> /\ p[1] \in 1..Len(Text)
                          /\ p[2] \in 0..cfg.order /\ p[1] - p[2] >= ChunkStart(p[1])
<1>1. DOMAIN Text = 1..Len(Text)
  BY CfgFacts
<1>2. p \in Stream => /\ p = <<p[1], p[2]>> /\ p[1] \in 1..Len(Text)
                      /\ p[2] \in 0..cfg.order /\ p[1] - p[2] >= ChunkStart(p[1])
  <2> HIDE DEF ChunkStart
  <2> QED BY <1>1 DEF Stream
<1>3. ASSUME NEW a, NEW b, p = <<a, b>>, a \in 1..Len(Text), b \in 0..cfg.order,
             a - b >= ChunkStart(a)
      PROVE  p \in Stream
  <2> HIDE DEF ChunkStart
  <2> QED BY <1>1, <1>3 DEF Stream
<1> QED BY <1>2, <1>3

(* A call of fluency_train begins in the text, at or before its tokens.    *)
LEMMA ChunkStarts ==
  ASSUME cfg \in Configs, NEW i \in 1..Len(Text)
  PROVE  ChunkStart(i) \in Nat \ {0} /\ ChunkStart(i) <= i
<1>1. i - 1 \in Nat /\ cfg.chunk \in Nat \ {0}
  BY CfgFacts
<1>2. (i - 1) \div cfg.chunk \in Nat /\ cfg.chunk * ((i - 1) \div cfg.chunk) <= i - 1
  BY <1>1, Division
<1>3. cfg.chunk * ((i - 1) \div cfg.chunk) \in Nat
  BY <1>1, <1>2, Times
<1> QED BY <1>2, <1>3 DEF ChunkStart

(* Places are pairs of numbers, and there are finitely many.               *)
LEMMA PlacesAreFinite ==
  ASSUME cfg \in Configs
  PROVE  /\ IsFiniteSet(Whole) /\ IsFiniteSet(Stream)
         /\ Whole \subseteq Nat \X Nat /\ Stream \subseteq Nat \X Nat
<1> DEFINE All == (1..Len(Text)) \X (0..(cfg.order + 1))
<1>1. Len(Text) \in Nat /\ cfg.order \in Nat /\ Skip = cfg.order + 1
  BY CfgFacts
<1>2. IsFiniteSet(1..Len(Text)) /\ IsFiniteSet(0..(cfg.order + 1))
  BY <1>1, FS_Interval
<1>3. IsFiniteSet(All)
  BY <1>2, FS_Product
<1>4. ASSUME NEW p, p = <<p[1], p[2]>>, p[1] \in 1..Len(Text), p[2] \in 0..(cfg.order + 1)
      PROVE  p \in All
  BY <1>4
<1>5. Whole \subseteq All
  <2>1. ASSUME NEW p \in Whole PROVE p[2] \in 0..(cfg.order + 1)
    BY <1>1, WholeIs DEF Reaches
  <2> QED BY <2>1, <1>4, WholeIs
<1>6. Stream \subseteq All
  <2>1. ASSUME NEW p \in Stream PROVE p[2] \in 0..(cfg.order + 1)
    BY <1>1, StreamIs
  <2> QED BY <2>1, <1>4, StreamIs
<1>7. All \subseteq Nat \X Nat
  BY <1>1
<1> QED BY <1>3, <1>5, <1>6, <1>7, FS_Subset

(* Those of a job are places of the text.                                  *)
LEMMA MineIn ==
  ASSUME cfg \in Configs, NEW j \in Jobs
  PROVE  Mine(j) \subseteq Whole
<1>1. Lo(j) \in Nat \ {0} /\ Hi(j) \in 0..Len(Text) /\ Len(Text) \in Nat
  BY Ranges, CfgFacts
<1>2. \A p \in Mine(j) : p = <<p[1], p[2]>> /\ p[1] \in Lo(j)..Hi(j) /\ Reaches(p)
  BY PlaceOf DEF Mine
<1>3. Lo(j)..Hi(j) \subseteq 1..Len(Text)
  BY <1>1
<1> QED BY <1>2, <1>3, WholeIs

(* No place is of two jobs.                                                *)
LEMMA MineApart ==
  ASSUME cfg \in Configs, NEW i \in Jobs, NEW j \in Jobs, i # j
  PROVE  Mine(i) \cap Mine(j) = {}
<1>1. \A k \in Jobs : \A p \in Mine(k) : p[1] \in Lo(k)..Hi(k)
  BY PlaceOf DEF Mine
<1>2. \A k \in Jobs : Lo(k) \in Nat /\ Hi(k) \in Nat
  <2>1. Len(Text) \in Nat
    BY CfgFacts
  <2> QED BY <2>1, Ranges
<1>3. i < j \/ j < i
  BY Numbers
<1>4. Hi(i) < Lo(j) \/ Hi(j) < Lo(i)
  BY <1>3, RangesApart
<1>5. ASSUME NEW p \in Mine(i), p \in Mine(j) PROVE FALSE
  <2>1. p[1] \in Lo(i)..Hi(i) /\ p[1] \in Lo(j)..Hi(j)
    BY <1>1, <1>5
  <2>2. Lo(i) \in Nat /\ Hi(i) \in Nat /\ Lo(j) \in Nat /\ Hi(j) \in Nat
    BY <1>2
  <2> QED BY <2>1, <2>2, <1>4
<1> QED BY <1>5

(* Together the jobs have the text.                                        *)
LEMMA MineMeet ==
  ASSUME cfg \in Configs
  PROVE  UNION {Mine(j) : j \in 1..NJobs} = Whole
<1>1. \A j \in 1..NJobs : j \in Jobs
  BY Ranges, Numbers
<1>2. UNION {Mine(j) : j \in 1..NJobs} \subseteq Whole
  BY <1>1, MineIn
<1>3. ASSUME NEW p \in Whole PROVE \E j \in 1..NJobs : p \in Mine(j)
  <2>1. p = <<p[1], p[2]>> /\ p[1] \in 1..Len(Text) /\ Reaches(p)
    BY WholeIs
  <2>2. PICK j \in 1..NJobs : p[1] \in Lo(j)..Hi(j)
    BY <2>1, RangesMeet
  <2>3. p \in Mine(j)
    BY <2>1, <2>2, PlaceOf DEF Mine
  <2> QED BY <2>3
<1> QED BY <1>2, <1>3

(* A record of a context and a token.                                      *)
LEMMA GramOf ==
  ASSUME NEW c, NEW t, NEW g, g = [ctx |-> c, next |-> t]
  PROVE  g.ctx = c /\ g.next = t /\ (c \in Seq(Nat) /\ t \in Nat => g \in Gram)
BY DEF Gram

(* What is at a place.                                                     *)
LEMMA OrderAt ==
  ASSUME cfg \in Configs, NEW i \in 1..Len(Text), NEW k \in 0..cfg.order, i - k >= 1
  PROVE  /\ GramAt(<<i, k>>) = [ctx |-> SubSeq(Text, i - k, i - 1), next |-> Text[i]]
         /\ SubSeq(Text, i - k, i - 1) \in Seq(Nat) /\ Len(SubSeq(Text, i - k, i - 1)) = k
         /\ \A n \in 1..k : SubSeq(Text, i - k, i - 1)[n] = Text[i - k + n - 1]
         /\ GramAt(<<i, k>>) \in Gram
<1>1. /\ i \in Nat /\ k \in Nat /\ cfg.order \in Nat /\ Skip = cfg.order + 1
      /\ Len(Text) \in Nat /\ \A n \in 1..Len(Text) : Text[n] \in Nat
      /\ i - k \in 1..i /\ i <= Len(Text) /\ i - 1 \in Nat
  <2>1. \A n \in 1..Len(Text) : Text[n] \in 0..(Vocab - 1)
    BY CfgFacts
  <2>2. Len(Text) \in Nat /\ cfg.order \in Nat /\ Skip = cfg.order + 1
    BY CfgFacts
  <2> QED BY <2>1, <2>2
<1>2. \A n \in (i - k)..(i - 1) : Text[n] \in Nat
  BY <1>1
<1>3. /\ SubSeq(Text, i - k, i - 1) \in Seq(Nat)
      /\ Len(SubSeq(Text, i - k, i - 1)) = IF i - k <= i - 1 THEN (i - 1) - (i - k) + 1 ELSE 0
      /\ \A n \in 1..((i - 1) - (i - k) + 1) :
           SubSeq(Text, i - k, i - 1)[n] = Text[(i - k) + n - 1]
  <2>1. i - k \in Int /\ i - 1 \in Int
    BY <1>1
  <2> DEFINE m == i - k
             n == i - 1
  <2>2. m \in Int /\ n \in Int /\ \A l \in m..n : Text[l] \in Nat
    BY <1>2, <2>1
  <2> HIDE DEF m, n
  <2>3. /\ SubSeq(Text, m, n) \in Seq(Nat)
        /\ Len(SubSeq(Text, m, n)) = IF m <= n THEN n - m + 1 ELSE 0
        /\ \A l \in 1..(n - m + 1) : SubSeq(Text, m, n)[l] = Text[m + l - 1]
    BY <2>2, SubSeqProperties
  <2> QED BY <2>3, Zenon DEF m, n
<1>4. (i - 1) - (i - k) + 1 = k /\ (~(i - k <= i - 1) => k = 0)
  BY <1>1
<1>5. GramAt(<<i, k>>) = [ctx |-> SubSeq(Text, i - k, i - 1), next |-> Text[i]]
  <2>1. k # Skip
    BY <1>1
  <2>2. <<i, k>>[1] = i /\ <<i, k>>[2] = k
    OBVIOUS
  <2> QED BY <2>1, <2>2, Zenon DEF GramAt
<1>6. /\ Len(SubSeq(Text, i - k, i - 1)) = k
      /\ \A n \in 1..k : SubSeq(Text, i - k, i - 1)[n] = Text[i - k + n - 1]
  BY <1>1, <1>3, <1>4
<1>7. Text[i] \in Nat
  BY <1>1
<1>8. GramAt(<<i, k>>) \in Gram
  <2>1. ASSUME NEW c \in Seq(Nat), NEW t \in Nat PROVE [ctx |-> c, next |-> t] \in Gram
    BY DEF Gram
  <2> QED BY <1>3, <1>5, <1>7, <2>1, Zenon
<1> QED BY <1>3, <1>5, <1>6, <1>8, Zenon

(* What is at a place that skips a token.                                  *)
LEMMA SkipAt ==
  ASSUME cfg \in Configs, NEW i \in 1..Len(Text), i - 2 >= 1
  PROVE  /\ GramAt(<<i, Skip>>) = [ctx |-> <<Text[i - 2] + Vocab>>, next |-> Text[i]]
         /\ Text[i - 2] \in Nat /\ GramAt(<<i, Skip>>) \in Gram
<1>1. Len(Text) \in Nat /\ Vocab \in Nat
  BY CfgFacts, Numbers
<1>2. i \in 1..Len(Text) /\ i - 2 \in 1..Len(Text)
  BY <1>1
<1>3. Text[i] \in Nat /\ Text[i - 2] \in Nat
  <2>1. \A n \in 1..Len(Text) : Text[n] \in 0..(Vocab - 1)
    BY CfgFacts
  <2> QED BY <1>2, <2>1
<1>4. GramAt(<<i, Skip>>) = [ctx |-> <<Text[i - 2] + Vocab>>, next |-> Text[i]]
  BY DEF GramAt
<1>5. Text[i - 2] + Vocab \in Nat
  BY <1>1, <1>3
<1>6. <<Text[i - 2] + Vocab>> \in Seq(Nat)
  BY <1>5
<1>7. GramAt(<<i, Skip>>) \in Gram
  BY <1>3, <1>4, <1>6, GramOf, Zenon
<1> QED BY <1>3, <1>4, <1>7

(* The places that the reference counts.                                   *)
Real == IF cfg.mode = "online" THEN {p \in Stream : p[2] # 0} ELSE Whole

(* They are grams.                                                         *)
LEMMA RealIs ==
  ASSUME cfg \in Configs, NEW p \in Real
  PROVE  /\ p = <<p[1], p[2]>> /\ p[1] \in 1..Len(Text)
         /\ \/ p[2] \in 1..cfg.order /\ p[1] - p[2] >= 1
            \/ p[2] = Skip /\ cfg.skip /\ p[1] - 2 >= 1 /\ cfg.mode = "counted"
         /\ GramAt(p) \in Gram /\ GramAt(p).next = Text[p[1]]
         /\ GramAt(p).ctx # <<>>
<1>1. /\ p = <<p[1], p[2]>> /\ p[1] \in 1..Len(Text)
      /\ \/ p[2] \in 1..cfg.order /\ p[1] - p[2] >= 1
         \/ p[2] = Skip /\ cfg.skip /\ p[1] - 2 >= 1 /\ cfg.mode = "counted"
  <2>1. CASE cfg.mode = "online"
    <3>1. /\ p = <<p[1], p[2]>> /\ p[1] \in 1..Len(Text)
          /\ p[2] \in 0..cfg.order /\ p[1] - p[2] >= ChunkStart(p[1]) /\ p[2] # 0
      BY <2>1, StreamIs DEF Real
    <3>2. ChunkStart(p[1]) \in Nat \ {0}
      BY <3>1, ChunkStarts
    <3>3. p[1] \in Nat /\ p[2] \in Nat /\ cfg.order \in Nat
      BY <3>1, CfgFacts
    <3> HIDE DEF ChunkStart
    <3> QED BY <3>1, <3>2, <3>3
  <2>2. CASE cfg.mode # "online"
    BY <2>2, WholeIs, CfgFacts DEF Real, Reaches
  <2> QED BY <2>1, <2>2
<1>2. CASE p[2] \in 1..cfg.order /\ p[1] - p[2] >= 1
  <2> DEFINE s == SubSeq(Text, p[1] - p[2], p[1] - 1)
  <2>1. p[2] \in 0..cfg.order /\ p[2] # 0
    BY <1>2, CfgFacts
  <2>2. /\ GramAt(<<p[1], p[2]>>) = [ctx |-> s, next |-> Text[p[1]]]
        /\ Len(s) = p[2] /\ GramAt(<<p[1], p[2]>>) \in Gram
    BY <1>1, <1>2, <2>1, OrderAt
  <2>3. s # <<>>
    <3> HIDE DEF s
    <3> QED BY <2>1, <2>2, EmptySeq
  <2>4. GramAt(p) = [ctx |-> s, next |-> Text[p[1]]] /\ GramAt(p) \in Gram
    <3> HIDE DEF s
    <3> QED BY <1>1, <2>2
  <2>5. GramAt(p).ctx = s /\ GramAt(p).next = Text[p[1]]
    <3> HIDE DEF s
    <3> QED BY <2>4
  <2> QED BY <1>1, <1>2, <2>3, <2>4, <2>5, Zenon
<1>3. CASE p[2] = Skip /\ p[1] - 2 >= 1
  <2>1. /\ GramAt(<<p[1], Skip>>) = [ctx |-> <<Text[p[1] - 2] + Vocab>>, next |-> Text[p[1]]]
        /\ GramAt(<<p[1], Skip>>) \in Gram
    BY <1>1, <1>3, SkipAt
  <2>2. \A x : <<x>> # <<>>
    OBVIOUS
  <2>3. GramAt(p) = GramAt(<<p[1], Skip>>)
    BY <1>1, <1>3
  <2>4. /\ GramAt(p).ctx = <<Text[p[1] - 2] + Vocab>> /\ GramAt(p).next = Text[p[1]]
        /\ GramAt(p) \in Gram
    BY <2>1, <2>3
  <2> QED BY <1>1, <2>2, <2>4
<1> QED BY <1>1, <1>2, <1>3

(* At one position, no two of them are the same gram: contexts differ in   *)
(* their length, or, skipping, by the token beyond the vocabulary.         *)
LEMMA GramTells ==
  ASSUME cfg \in Configs, NEW p \in Real, NEW q \in Real, p[1] = q[1], GramAt(p) = GramAt(q)
  PROVE  p = q
<1>1. /\ p = <<p[1], p[2]>> /\ p[1] \in 1..Len(Text)
      /\ \/ p[2] \in 1..cfg.order /\ p[1] - p[2] >= 1
         \/ p[2] = Skip /\ p[1] - 2 >= 1
  BY RealIs
<1>2. /\ q = <<q[1], q[2]>> /\ q[1] \in 1..Len(Text)
      /\ \/ q[2] \in 1..cfg.order /\ q[1] - q[2] >= 1
         \/ q[2] = Skip /\ q[1] - 2 >= 1
  BY RealIs
<1>3. ASSUME NEW i \in 1..Len(Text), NEW k \in 1..cfg.order, i - k >= 1, i - 2 >= 1,
             GramAt(<<i, k>>) = GramAt(<<i, Skip>>)
      PROVE  FALSE
  <2> DEFINE s == SubSeq(Text, i - k, i - 1)
  <2>1. k \in 0..cfg.order /\ cfg.order \in Nat /\ k \in Nat
    BY CfgFacts
  <2>2. /\ GramAt(<<i, k>>) = [ctx |-> s, next |-> Text[i]]
        /\ Len(s) = k /\ \A n \in 1..k : s[n] = Text[i - k + n - 1]
    BY <1>3, <2>1, OrderAt
  <2>3. /\ GramAt(<<i, Skip>>) = [ctx |-> <<Text[i - 2] + Vocab>>, next |-> Text[i]]
        /\ Text[i - 2] \in Nat
    BY <1>3, SkipAt
  <2>4. s = <<Text[i - 2] + Vocab>>
    <3> HIDE DEF s
    <3>1. GramAt(<<i, k>>).ctx = s
      BY <2>2, GramOf
    <3>2. GramAt(<<i, Skip>>).ctx = <<Text[i - 2] + Vocab>>
      BY <2>3, GramOf
    <3> QED BY <1>3, <3>1, <3>2, Zenon
  <2>5. k = 1 /\ s[1] = Text[i - 2] + Vocab
    <3> HIDE DEF s
    <3> QED BY <2>2, <2>4
  <2>6. s[1] = Text[i - 1]
    <3> HIDE DEF s
    <3> QED BY <2>2, <2>5
  <2>7. Text[i - 1] \in 0..(Vocab - 1) /\ Vocab \in Nat
    <3>1. i - 1 \in 1..Len(Text) /\ \A n \in 1..Len(Text) : Text[n] \in 0..(Vocab - 1)
      BY <1>3, CfgFacts
    <3> QED BY <3>1, Numbers
  <2> HIDE DEF s
  <2> QED BY <2>3, <2>5, <2>6, <2>7
<1>4. ASSUME NEW i \in 1..Len(Text), NEW k \in 1..cfg.order, NEW l \in 1..cfg.order,
             i - k >= 1, i - l >= 1, GramAt(<<i, k>>) = GramAt(<<i, l>>)
      PROVE  k = l
  <2>1. k \in 0..cfg.order /\ l \in 0..cfg.order
    BY CfgFacts
  <2>2. ASSUME NEW m \in 0..cfg.order, i - m >= 1 PROVE Len(GramAt(<<i, m>>).ctx) = m
    <3>1. /\ GramAt(<<i, m>>) = [ctx |-> SubSeq(Text, i - m, i - 1), next |-> Text[i]]
          /\ Len(SubSeq(Text, i - m, i - 1)) = m
      BY <1>4, <2>2, OrderAt
    <3>2. GramAt(<<i, m>>).ctx = SubSeq(Text, i - m, i - 1)
      <4>1. \A c, t : [ctx |-> c, next |-> t].ctx = c
        OBVIOUS
      <4> QED BY <3>1, <4>1, Zenon
    <3> QED BY <3>1, <3>2, Zenon
  <2> QED BY <1>4, <2>1, <2>2
<1>5. CASE p[2] = Skip /\ q[2] = Skip
  BY <1>1, <1>2, <1>5
<1>6. CASE p[2] \in 1..cfg.order /\ p[1] - p[2] >= 1 /\ q[2] = Skip /\ q[1] - 2 >= 1
  BY <1>1, <1>2, <1>3, <1>6, Zenon
<1>7. CASE q[2] \in 1..cfg.order /\ q[1] - q[2] >= 1 /\ p[2] = Skip /\ p[1] - 2 >= 1
  BY <1>1, <1>2, <1>3, <1>7, Zenon
<1>8. CASE p[2] \in 1..cfg.order /\ p[1] - p[2] >= 1 /\ q[2] \in 1..cfg.order /\ q[1] - q[2] >= 1
  <2>1. p[2] = q[2]
    BY <1>1, <1>2, <1>4, <1>8, Zenon
  <2> QED BY <2>1, <1>1, <1>2
<1> QED BY <1>1, <1>2, <1>5, <1>6, <1>7, <1>8

(* The occurrences are those at the places that count.                     *)
LEMMA OccurrencesAt ==
  ASSUME cfg \in Configs
  PROVE  Occurrences = {[at |-> p[1], gram |-> GramAt(p)] : p \in Real}
<1> DEFINE O(p) == [at |-> p[1], gram |-> GramAt(p)]
           OfSpan(s) == [at |-> s[2],
                         gram |-> [ctx |-> SubSeq(Text, s[1], s[2] - 1), next |-> Text[s[2]]]]
           OfSkip(i) == [at |-> i, gram |-> [ctx |-> <<Text[i - 2] + Vocab>>, next |-> Text[i]]]
<1>1. /\ Len(Text) \in Nat /\ DOMAIN Text = 1..Len(Text) /\ cfg.order \in Nat
      /\ Skip = cfg.order + 1 /\ cfg.mode \in {"online", "counted"}
  BY CfgFacts
<1>2. Occurrences = {OfSpan(s) : s \in Spans} \cup {OfSkip(i) : i \in Skips}
  BY Zenon DEF Occurrences
<1>3. \A s : s \in Spans <=> /\ s \in (1..Len(Text)) \X (1..Len(Text))
                             /\ Base(s[2]) <= s[1] /\ s[2] - s[1] \in 1..cfg.order
  <2> HIDE DEF Base
  <2> QED BY <1>1 DEF Spans
<1>4. \A i \in 1..Len(Text) : Base(i) = IF cfg.mode = "online" THEN ChunkStart(i) ELSE 1
  BY Zenon DEF Base
<1>5. \A i \in 1..Len(Text) : Base(i) \in Nat \ {0} /\ Base(i) <= i
  <2>1. \A i \in 1..Len(Text) : ChunkStart(i) \in Nat \ {0} /\ ChunkStart(i) <= i
    BY ChunkStarts
  <2> HIDE DEF ChunkStart
  <2> QED BY <1>4, <2>1
<1>6. ASSUME NEW i \in 1..Len(Text), NEW k \in 1..cfg.order, i - k >= Base(i)
      PROVE  /\ i - k \in 1..Len(Text) /\ <<i - k, i>> \in Spans
             /\ <<i, k>> \in Real /\ O(<<i, k>>) = OfSpan(<<i - k, i>>)
  <2>1. i - k >= 1 /\ i - k \in 1..Len(Text) /\ k \in 0..cfg.order /\ i - (i - k) = k
    BY <1>1, <1>5, <1>6
  <2>2. <<i - k, i>> \in Spans
    <3> HIDE DEF Base
    <3> QED BY <1>1, <1>3, <1>6, <2>1
  <2>3. <<i, k>> \in Real
    <3>1. CASE cfg.mode = "online"
      <4>1. i - k >= ChunkStart(i)
        BY <1>4, <1>6, <3>1
      <4> HIDE DEF ChunkStart
      <4> QED BY <1>1, <2>1, <3>1, <4>1, StreamIs DEF Real
    <3>2. CASE cfg.mode # "online"
      BY <2>1, <3>2, WholeIs DEF Real, Reaches
    <3> QED BY <3>1, <3>2
  <2>4. GramAt(<<i, k>>) = [ctx |-> SubSeq(Text, i - k, i - 1), next |-> Text[i]]
    BY <2>1, OrderAt
  <2> QED BY <2>1, <2>2, <2>3, <2>4
<1>7. \A s \in Spans : \E p \in Real : OfSpan(s) = O(p)
  <2>1. ASSUME NEW s \in Spans PROVE \E p \in Real : OfSpan(s) = O(p)
    <3>1. /\ s = <<s[1], s[2]>> /\ s[1] \in 1..Len(Text) /\ s[2] \in 1..Len(Text)
          /\ Base(s[2]) <= s[1] /\ s[2] - s[1] \in 1..cfg.order
      <4> HIDE DEF Base
      <4> QED BY <1>3
    <3> DEFINE i == s[2]
               k == s[2] - s[1]
    <3>2. i \in 1..Len(Text) /\ k \in 1..cfg.order /\ i - k >= Base(i) /\ i - k = s[1]
      <4>1. Base(i) \in Nat
        BY <1>5, <3>1
      <4> HIDE DEF Base
      <4> QED BY <3>1, <4>1
    <3> HIDE DEF i, k
    <3>3. <<i, k>> \in Real /\ O(<<i, k>>) = OfSpan(<<i - k, i>>)
      BY <1>6, <3>2
    <3>4. <<i - k, i>> = s
      BY <3>1, <3>2, Zenon DEF i
    <3> QED BY <3>3, <3>4, Zenon
  <2> QED BY <2>1
<1>8. ASSUME NEW i \in 1..Len(Text), i - 2 >= 1
      PROVE  O(<<i, Skip>>) = OfSkip(i)
  BY <1>8, SkipAt
<1>9. Skips = IF cfg.skip /\ cfg.mode = "counted" THEN 3..Len(Text) ELSE {}
  BY Zenon DEF Skips
<1>10. \A i \in Skips : \E p \in Real : OfSkip(i) = O(p)
  <2>1. ASSUME NEW i \in Skips PROVE <<i, Skip>> \in Real /\ O(<<i, Skip>>) = OfSkip(i)
    <3>1. i \in 1..Len(Text) /\ i - 2 >= 1 /\ cfg.skip /\ cfg.mode = "counted"
      BY <1>1, <1>9
    <3>2. <<i, Skip>> \in Whole
      BY <3>1, WholeIs DEF Reaches
    <3> QED BY <1>8, <3>1, <3>2 DEF Real
  <2> QED BY <2>1
<1>11. \A p \in Real : \/ \E s \in Spans : O(p) = OfSpan(s)
                       \/ \E i \in Skips : O(p) = OfSkip(i)
  <2>1. ASSUME NEW p \in Real
        PROVE  \/ \E s \in Spans : O(p) = OfSpan(s)
               \/ \E i \in Skips : O(p) = OfSkip(i)
    <3>1. /\ p = <<p[1], p[2]>> /\ p[1] \in 1..Len(Text)
          /\ \/ p[2] \in 1..cfg.order /\ p[1] - p[2] >= 1
             \/ p[2] = Skip /\ cfg.skip /\ p[1] - 2 >= 1 /\ cfg.mode = "counted"
      BY RealIs
    <3>2. CASE p[2] \in 1..cfg.order /\ p[1] - p[2] >= 1
      <4>1. p[1] - p[2] >= Base(p[1])
        <5>1. CASE cfg.mode = "online"
          <6>1. p \in Stream
            BY <5>1 DEF Real
          <6>2. p[1] - p[2] >= ChunkStart(p[1])
            BY <6>1, StreamIs
          <6>3. Base(p[1]) = ChunkStart(p[1])
            BY <1>4, <3>1, <5>1
          <6> QED BY <6>2, <6>3, Zenon
        <5>2. CASE cfg.mode # "online"
          <6>1. Base(p[1]) = 1
            BY <1>4, <3>1, <5>2
          <6> QED BY <6>1, <3>2
        <5> QED BY <5>1, <5>2
      <4>2. /\ <<p[1] - p[2], p[1]>> \in Spans
            /\ O(<<p[1], p[2]>>) = OfSpan(<<p[1] - p[2], p[1]>>)
        BY <1>6, <3>1, <3>2, <4>1
      <4>3. O(<<p[1], p[2]>>) = O(p)
        BY <3>1
      <4> QED BY <4>2, <4>3, Zenon
    <3>3. CASE p[2] = Skip /\ cfg.skip /\ p[1] - 2 >= 1 /\ cfg.mode = "counted"
      <4>1. p[1] \in Skips
        BY <1>1, <1>9, <3>1, <3>3
      <4>2. O(<<p[1], Skip>>) = OfSkip(p[1])
        BY <1>8, <3>1, <3>3
      <4>3. O(<<p[1], Skip>>) = O(p)
        BY <3>1, <3>3
      <4> QED BY <4>1, <4>2, <4>3, Zenon
    <3> QED BY <3>1, <3>2, <3>3
  <2> QED BY <2>1
<1> HIDE DEF O, OfSpan, OfSkip
<1>12. Occurrences = {O(p) : p \in Real}
  <2>1. \A o : o \in Occurrences => o \in {O(p) : p \in Real}
    BY <1>2, <1>7, <1>10, Zenon
  <2>2. \A o : o \in {O(p) : p \in Real} => o \in Occurrences
    BY <1>2, <1>11, Zenon
  <2> QED BY <2>1, <2>2, Zenon
<1> QED BY <1>12, Zenon DEF O

(* A gram occurs as often as there are places with it.                     *)
LEMMA OccursAt ==
  ASSUME cfg \in Configs
  PROVE  /\ IsFiniteSet(Real) /\ IsFiniteSet(TrueGrams) /\ TrueGrams \subseteq Gram
         /\ TrueGrams = {GramAt(p) : p \in Real}
         /\ \A g : Occurs(g) = Cardinality(At(g, Real)) /\ Occurs(g) \in Nat
         /\ \A g \in TrueGrams : Occurs(g) >= 1
<1>1. IsFiniteSet(Real)
  <2>1. Real \subseteq Whole \/ Real \subseteq Stream
    BY DEF Real
  <2> QED BY <2>1, PlacesAreFinite, FS_Subset
<1>2. TrueGrams = {GramAt(p) : p \in Real}
  <2>1. \A p \in Real : [at |-> p[1], gram |-> GramAt(p)] \in Occurrences
    BY OccurrencesAt, Zenon
  <2>2. \A o \in Occurrences : \E p \in Real : o.gram = GramAt(p)
    <3>1. \A o \in Occurrences : \E p \in Real : o = [at |-> p[1], gram |-> GramAt(p)]
      BY OccurrencesAt, Zenon
    <3>2. ASSUME NEW o \in Occurrences PROVE \E p \in Real : o.gram = GramAt(p)
      <4>1. PICK p \in Real : o = [at |-> p[1], gram |-> GramAt(p)]
        BY <3>1, <3>2, Zenon
      <4>2. o.gram = GramAt(p)
        BY <4>1
      <4> QED BY <4>2
    <3> QED BY <3>2
  <2>3. \A p \in Real : \E o \in Occurrences : o.gram = GramAt(p)
    <3>1. \A a, g : [at |-> a, gram |-> g].gram = g
      OBVIOUS
    <3> QED BY <2>1, <3>1, Zenon
  <2> QED BY <2>2, <2>3, Zenon DEF TrueGrams
<1>3. TrueGrams \subseteq Gram
  BY <1>2, RealIs
<1>4. IsFiniteSet(TrueGrams)
  <2> DEFINE f == [p \in Real |-> GramAt(p)]
  <2>1. f \in [Real -> TrueGrams] /\ \A g \in TrueGrams : \E p \in Real : f[p] = g
    BY <1>2, Zenon
  <2> HIDE DEF f
  <2>2. f \in Surjection(Real, TrueGrams)
    BY <2>1, Fun_IsSurj
  <2> QED BY <1>1, <2>2, FS_Surjection
<1>5. ASSUME NEW g
      PROVE  Occurs(g) = Cardinality(At(g, Real)) /\ IsFiniteSet(At(g, Real))
  <2> DEFINE T == {o \in Occurrences : o.gram = g}
             f == [p \in At(g, Real) |-> [at |-> p[1], gram |-> g]]
  <2>1. IsFiniteSet(At(g, Real))
    <3>1. At(g, Real) \subseteq Real
      BY DEF At
    <3> QED BY <1>1, <3>1, FS_Subset
  <2>2. ASSUME NEW p \in At(g, Real) PROVE p \in Real /\ GramAt(p) = g
    BY <2>2, Zenon DEF At
  <2>3. ASSUME NEW p \in At(g, Real) PROVE f[p] \in T
    <3>1. [at |-> p[1], gram |-> GramAt(p)] \in Occurrences
      BY <2>2, OccurrencesAt, Zenon
    <3>2. [at |-> p[1], gram |-> g].gram = g
      OBVIOUS
    <3>3. f[p] = [at |-> p[1], gram |-> g]
      BY Zenon
    <3> QED BY <2>2, <3>1, <3>2, <3>3, Zenon
  <2>4. ASSUME NEW o \in T PROVE \E p \in At(g, Real) : f[p] = o
    <3>1. PICK p \in Real : o = [at |-> p[1], gram |-> GramAt(p)]
      BY <2>4, OccurrencesAt, Zenon
    <3>2. o.gram = GramAt(p)
      BY <3>1
    <3>3. GramAt(p) = g
      BY <2>4, <3>2, Zenon
    <3>4. p \in At(g, Real)
      BY <3>3, Zenon DEF At
    <3>5. f[p] = [at |-> p[1], gram |-> g]
      BY <3>4, Zenon
    <3> QED BY <3>1, <3>3, <3>4, <3>5, Zenon
  <2>5. ASSUME NEW p \in At(g, Real), NEW q \in At(g, Real), f[p] = f[q] PROVE p = q
    <3>1. f[p] = [at |-> p[1], gram |-> g] /\ f[q] = [at |-> q[1], gram |-> g]
      BY Zenon
    <3>2. p[1] = q[1]
      <4>1. \A a, b : [at |-> a, gram |-> g] = [at |-> b, gram |-> g] => a = b
        OBVIOUS
      <4> QED BY <2>5, <3>1, <4>1, Zenon
    <3> QED BY <3>2, <2>2, GramTells
  <2>6. f \in Bijection(At(g, Real), T)
    <3>1. f \in [At(g, Real) -> T]
      BY <2>3
    <3> HIDE DEF f, T
    <3> QED BY <3>1, <2>4, <2>5, Fun_IsBij
  <2>7. Cardinality(T) = Cardinality(At(g, Real))
    <3> HIDE DEF f, T
    <3> QED BY <2>1, <2>6, FS_Bijection DEF ExistsBijection
  <2>8. Occurs(g) = Cardinality(T)
    BY Zenon DEF Occurs
  <2> QED BY <2>1, <2>7, <2>8, Zenon
<1>6. \A g : Occurs(g) \in Nat
  BY <1>5, FS_CardinalityType, Zenon
<1>7. ASSUME NEW g \in TrueGrams PROVE Occurs(g) >= 1
  <2>1. PICK p \in Real : GramAt(p) = g
    BY <1>2, Zenon
  <2>2. At(g, Real) # {}
    BY <2>1, Zenon DEF At
  <2>3. Cardinality(At(g, Real)) # 0
    BY <1>5, <2>2, FS_EmptySet, Zenon
  <2> QED BY <1>5, <1>6, <2>3
<1> QED BY <1>1, <1>2, <1>3, <1>4, <1>5, <1>6, <1>7, Zenon

(* One more place.                                                         *)
LEMMA AtMore ==
  ASSUME NEW g, NEW S, IsFiniteSet(S), NEW p, p \notin S
  PROVE  /\ IsFiniteSet(S \cup {p}) /\ Cardinality(At(g, S)) \in Nat
         /\ Cardinality(At(g, S \cup {p})) =
              Cardinality(At(g, S)) + (IF GramAt(p) = g THEN 1 ELSE 0)
<1>1. At(g, S) \subseteq S /\ p \notin At(g, S)
  BY DEF At
<1>2. IsFiniteSet(At(g, S)) /\ IsFiniteSet(S \cup {p})
  BY <1>1, FS_Subset, FS_AddElement
<1>3. At(g, S \cup {p}) = IF GramAt(p) = g THEN At(g, S) \cup {p} ELSE At(g, S)
  BY DEF At
<1>4. Cardinality(At(g, S) \cup {p}) = Cardinality(At(g, S)) + 1 /\ Cardinality(At(g, S)) \in Nat
  BY <1>1, <1>2, FS_AddElement, FS_CardinalityType
<1> QED BY <1>2, <1>3, <1>4

(* The places of two sets that have none in common.                        *)
LEMMA AtBoth ==
  ASSUME NEW g, NEW S, IsFiniteSet(S), NEW T, IsFiniteSet(T), S \cap T = {}
  PROVE  /\ IsFiniteSet(S \cup T)
         /\ Cardinality(At(g, S)) \in Nat /\ Cardinality(At(g, T)) \in Nat
         /\ Cardinality(At(g, S \cup T)) = Cardinality(At(g, S)) + Cardinality(At(g, T))
<1>1. At(g, S) \subseteq S /\ At(g, T) \subseteq T /\ At(g, S \cup T) = At(g, S) \cup At(g, T)
  BY DEF At
<1>2. IsFiniteSet(At(g, S)) /\ IsFiniteSet(At(g, T)) /\ At(g, S) \cap At(g, T) = {}
  BY <1>1, FS_Subset
<1>3. Cardinality({}) = 0
  BY FS_EmptySet
<1>4. /\ Cardinality(At(g, S) \cup At(g, T)) =
           Cardinality(At(g, S)) + Cardinality(At(g, T)) - Cardinality(At(g, S) \cap At(g, T))
      /\ Cardinality(At(g, S)) \in Nat /\ Cardinality(At(g, T)) \in Nat
  BY <1>2, FS_Union, FS_CardinalityType
<1>5. IsFiniteSet(S \cup T)
  BY FS_Union
<1>6. Cardinality(At(g, S) \cap At(g, T)) = 0
  BY <1>2, <1>3, Zenon
<1>7. Cardinality(At(g, S \cup T)) = Cardinality(At(g, S) \cup At(g, T))
  BY <1>1, Zenon
<1> QED BY <1>4, <1>5, <1>6, <1>7

(* Fewer places have a gram no more often.                                 *)
LEMMA AtFewer ==
  ASSUME NEW g, NEW T, IsFiniteSet(T), NEW S, S \subseteq T
  PROVE  /\ IsFiniteSet(At(g, T)) /\ IsFiniteSet(At(g, S)) /\ IsFiniteSet(S)
         /\ Cardinality(At(g, S)) \in Nat /\ Cardinality(At(g, T)) \in Nat
         /\ Cardinality(At(g, S)) <= Cardinality(At(g, T))
<1>1. At(g, T) \subseteq T /\ At(g, S) \subseteq At(g, T)
  BY DEF At
<1>2. IsFiniteSet(At(g, T)) /\ IsFiniteSet(S)
  BY <1>1, FS_Subset
<1> QED BY <1>1, <1>2, FS_Subset, FS_CardinalityType

(* A table with a gram more.                                               *)
LEMMA WithIs ==
  ASSUME NEW t, NEW g, g \notin Grams(t), NEW n, NEW u, u = With(t, g, n)
  PROVE  /\ Grams(u) = Grams(t) \cup {g} /\ u[g] = n
         /\ \A h \in Grams(t) : u[h] = t[h]
         /\ u = [h \in Grams(u) |-> u[h]]
<1> DEFINE w == [x \in Grams(t) \cup {g} |-> IF x = g THEN n ELSE t[x]]
<1>1. u = w
  BY Zenon DEF With
<1>2. DOMAIN w = Grams(t) \cup {g} /\ w[g] = n /\ \A h \in Grams(t) : w[h] = t[h]
  BY Zenon
<1>3. w = [h \in DOMAIN w |-> w[h]]
  BY Zenon
<1> HIDE DEF w
<1> QED BY <1>1, <1>2, <1>3, Zenon DEF Grams

(* A table with a gram less.                                               *)
LEMMA WithoutIs ==
  ASSUME NEW t, IsTable(t), NEW g
  PROVE  /\ IsTable(Without(t, g)) /\ Grams(Without(t, g)) = Grams(t) \ {g}
         /\ \A h \in Grams(t) \ {g} : Without(t, g)[h] = t[h]
         /\ \A h : Tally(Without(t, g), h) = IF h = g THEN 0 ELSE Tally(t, h)
<1>1. Grams(Without(t, g)) = Grams(t) \ {g} /\ \A h \in Grams(t) \ {g} : Without(t, g)[h] = t[h]
  BY Zenon DEF Grams, Without
<1>2. IsFiniteSet(Grams(t) \ {g})
  BY FS_RemoveElement DEF IsTable
<1>3. Without(t, g) = [h \in Grams(Without(t, g)) |-> Without(t, g)[h]]
  BY <1>1, Zenon DEF Without
<1>4. Grams(t) \ {g} \subseteq Gram /\ \A h \in Grams(t) \ {g} : t[h] \in Nat \ {0}
  BY Zenon DEF IsTable
<1>5. IsTable(Without(t, g))
  BY <1>1, <1>2, <1>3, <1>4, Zenon DEF IsTable
<1>6. \A h : Tally(Without(t, g), h) = IF h = g THEN 0 ELSE Tally(t, h)
  BY <1>1, Zenon DEF Tally
<1> QED BY <1>1, <1>5, <1>6

(* A count that is raised by a positive number.                            *)
LEMMA PlusIs ==
  ASSUME NEW u, IsFiniteSet(Grams(u)), Grams(u) \subseteq Gram,
         u = [h \in Grams(u) |-> u[h]],
         NEW g \in Grams(u), u[g] \in Nat, \A h \in Grams(u) \ {g} : u[h] \in Nat \ {0},
         NEW n \in Nat \ {0}
  PROVE  /\ IsTable(Plus(u, g, n)) /\ Grams(Plus(u, g, n)) = Grams(u)
         /\ Tally(Plus(u, g, n), g) = u[g] + n
         /\ \A h : h # g => Tally(Plus(u, g, n), h) = Tally(u, h)
<1> DEFINE v == Plus(u, g, n)
<1>1. /\ Grams(v) = Grams(u) /\ v = [h \in Grams(v) |-> v[h]]
      /\ v[g] = u[g] + n /\ \A h \in Grams(u) \ {g} : v[h] = u[h]
  BY Zenon DEF Plus, Grams
<1>2. v[g] \in Nat \ {0}
  BY <1>1
<1> HIDE DEF v
<1>3. \A h \in Grams(v) : v[h] \in Nat \ {0}
  BY <1>1, <1>2, Zenon
<1>4. IsTable(v)
  BY <1>1, <1>3, Zenon DEF IsTable
<1>5. Tally(v, g) = u[g] + n /\ \A h : h # g => Tally(v, h) = Tally(u, h)
  BY <1>1, Zenon DEF Tally
<1> QED BY <1>1, <1>4, <1>5, Zenon DEF v

(* Counting a gram that finds a place: its tally goes up, and no other     *)
(* changes, except that a full table may give up one that is rare.         *)
LEMMA Grow ==
  ASSUME NEW t, IsTable(t), NEW g \in Gram, NEW soft \in Nat, NEW n \in Nat \ {0},
         NEW u \in Ref(t, g, soft)
  PROVE  /\ IsTable(Plus(u, g, n)) /\ Grams(Plus(u, g, n)) \subseteq Grams(t) \cup {g}
         /\ Tally(Plus(u, g, n), g) = Tally(t, g) + n
         /\ \A h : Tally(t, h) \in Nat /\ Tally(Plus(u, g, n), h) \in Nat
         /\ \A h : h # g => Tally(Plus(u, g, n), h) <= Tally(t, h)
         /\ ~Full(t, g, soft) => \A h : h # g => Tally(Plus(u, g, n), h) = Tally(t, h)
         /\ soft # 0 /\ Cardinality(Grams(t)) <= soft
              => Cardinality(Grams(Plus(u, g, n))) <= soft
<1> DEFINE v == Plus(u, g, n)
<1>1. /\ IsFiniteSet(Grams(t)) /\ Grams(t) \subseteq Gram /\ t = [h \in Grams(t) |-> t[h]]
      /\ \A h \in Grams(t) : t[h] \in Nat \ {0}
  BY Zenon DEF IsTable
<1>2. \A w : IsTable(w) => \A h : Tally(w, h) \in Nat
  <2>1. \A w : IsTable(w) => \A h \in Grams(w) : w[h] \in Nat
    BY DEF IsTable
  <2> QED BY <2>1 DEF Tally
<1>3. Cardinality(Grams(t)) \in Nat
  BY <1>1, FS_CardinalityType
<1>4. CASE u = t /\ g \in Grams(t)
  <2>1. \A h \in Grams(t) \ {g} : t[h] \in Nat \ {0}
    BY <1>1, Zenon
  <2>2. t[g] \in Nat /\ Tally(t, g) = t[g]
    BY <1>1, <1>4 DEF Tally
  <2>3. /\ IsTable(v) /\ Grams(v) = Grams(t) /\ Tally(v, g) = t[g] + n
        /\ \A h : h # g => Tally(v, h) = Tally(t, h)
    BY <1>1, <1>4, <2>1, <2>2, PlusIs
  <2>4. \A h : Tally(t, h) \in Nat /\ Tally(v, h) \in Nat
    BY <1>2, <2>3
  <2> HIDE DEF v
  <2>5. \A h : h # g => Tally(v, h) <= Tally(t, h)
    BY <2>3, <2>4
  <2> QED BY <2>2, <2>3, <2>4, <2>5 DEF v
<1>5. CASE /\ u = With(t, g, 0) /\ g \notin Grams(t)
           /\ soft = 0 \/ Cardinality(Grams(t)) < soft
  <2>1. Grams(u) = Grams(t) \cup {g} /\ u[g] = 0 /\ \A h \in Grams(t) : u[h] = t[h]
    BY <1>5, WithIs
  <2>2. u = [h \in Grams(u) |-> u[h]]
    BY <1>5, WithIs
  <2>3. /\ IsFiniteSet(Grams(u)) /\ Cardinality(Grams(u)) = Cardinality(Grams(t)) + 1
    BY <1>1, <1>5, <2>1, FS_AddElement
  <2>4. /\ Grams(u) \subseteq Gram /\ \A h \in Grams(u) \ {g} : u[h] \in Nat \ {0}
    BY <1>1, <1>5, <2>1, Zenon
  <2>5. \A h : h # g => Tally(u, h) = Tally(t, h)
    BY <2>1, Zenon DEF Tally
  <2>6. /\ IsTable(v) /\ Grams(v) = Grams(u) /\ Tally(v, g) = u[g] + n
        /\ \A h : h # g => Tally(v, h) = Tally(u, h)
    <3>1. u[g] \in Nat /\ g \in Grams(u)
      BY <2>1
    <3> QED BY <2>2, <2>3, <2>4, <3>1, PlusIs
  <2>7. \A h : Tally(t, h) \in Nat /\ Tally(v, h) \in Nat
    BY <1>2, <2>6
  <2>8. Tally(t, g) = 0
    BY <1>5 DEF Tally
  <2> HIDE DEF v
  <2>9. \A h : h # g => Tally(v, h) = Tally(t, h)
    BY <2>5, <2>6, Zenon
  <2>10. \A h : h # g => Tally(v, h) <= Tally(t, h)
    BY <2>7, <2>9
  <2>11. soft # 0 => Cardinality(Grams(v)) <= soft
    BY <1>3, <1>5, <2>3, <2>6
  <2> QED BY <2>1, <2>6, <2>7, <2>8, <2>9, <2>10, <2>11 DEF v
<1>6. CASE /\ \E h \in Rare(t) : u = With(Without(t, h), g, 0)
           /\ g \notin Grams(t) /\ Full(t, g, soft)
  <2>1. PICK r \in Rare(t) : u = With(Without(t, r), g, 0)
    BY <1>6, Zenon
  <2>2. r \in Grams(t) /\ r # g
    BY <1>6 DEF Rare
  <2> DEFINE w == Without(t, r)
  <2>3. /\ IsTable(w) /\ Grams(w) = Grams(t) \ {r}
        /\ \A h : Tally(w, h) = IF h = r THEN 0 ELSE Tally(t, h)
    BY WithoutIs
  <2>4. u = With(w, g, 0)
    BY <2>1
  <2> HIDE DEF w
  <2>5. Grams(u) = Grams(w) \cup {g} /\ u[g] = 0 /\ \A h \in Grams(w) : u[h] = w[h]
    <3>1. g \notin Grams(w)
      BY <1>6, <2>3
    <3> QED BY <2>4, <3>1, WithIs
  <2>6. u = [h \in Grams(u) |-> u[h]]
    <3>1. g \notin Grams(w)
      BY <1>6, <2>3
    <3> QED BY <2>4, <3>1, WithIs
  <2>7. /\ IsFiniteSet(Grams(u)) /\ Cardinality(Grams(u)) = Cardinality(Grams(t))
    <3>1. /\ IsFiniteSet(Grams(w)) /\ Cardinality(Grams(w)) = Cardinality(Grams(t)) - 1
      BY <1>1, <2>2, <2>3, FS_RemoveElement
    <3>2. g \notin Grams(w)
      BY <1>6, <2>3
    <3>3. /\ IsFiniteSet(Grams(w) \cup {g})
          /\ Cardinality(Grams(w) \cup {g}) = Cardinality(Grams(w)) + 1
      BY <3>1, <3>2, FS_AddElement
    <3>4. Cardinality(Grams(t)) \in Nat
      BY <1>1, FS_CardinalityType
    <3> QED BY <2>5, <3>1, <3>3, <3>4
  <2>8. /\ Grams(u) \subseteq Gram /\ \A h \in Grams(u) \ {g} : u[h] \in Nat \ {0}
    <3>1. Grams(w) \subseteq Gram /\ \A h \in Grams(w) : w[h] \in Nat \ {0}
      BY <2>3, Zenon DEF IsTable
    <3> QED BY <2>5, <3>1, Zenon
  <2>9. \A h : h # g => Tally(u, h) = Tally(w, h)
    BY <2>5, Zenon DEF Tally
  <2>10. /\ IsTable(v) /\ Grams(v) = Grams(u) /\ Tally(v, g) = u[g] + n
         /\ \A h : h # g => Tally(v, h) = Tally(u, h)
    <3>1. u[g] \in Nat /\ g \in Grams(u)
      BY <2>5
    <3> QED BY <2>6, <2>7, <2>8, <3>1, PlusIs
  <2>11. \A h : Tally(t, h) \in Nat /\ Tally(v, h) \in Nat
    BY <1>2, <2>10
  <2>12. Tally(t, g) = 0
    BY <1>6 DEF Tally
  <2> HIDE DEF v
  <2>13. \A h : h # g => Tally(v, h) = IF h = r THEN 0 ELSE Tally(t, h)
    BY <2>3, <2>9, <2>10, Zenon
  <2>14. \A h : h # g => Tally(v, h) <= Tally(t, h)
    BY <2>11, <2>13
  <2>15. Grams(v) \subseteq Grams(t) \cup {g} /\ Cardinality(Grams(v)) = Cardinality(Grams(t))
    BY <2>3, <2>5, <2>7, <2>10
  <2> QED BY <1>6, <2>5, <2>10, <2>11, <2>12, <2>14, <2>15 DEF v
<1>7. \/ u = t /\ g \in Grams(t)
      \/ u = With(t, g, 0) /\ g \notin Grams(t) /\ (soft = 0 \/ Cardinality(Grams(t)) < soft)
      \/ /\ \E h \in Rare(t) : u = With(Without(t, h), g, 0)
         /\ g \notin Grams(t) /\ Full(t, g, soft)
  <2>1. CASE g \in Grams(t)
    BY <2>1, Zenon DEF Ref
  <2>2. CASE g \notin Grams(t) /\ (soft = 0 \/ Cardinality(Grams(t)) < soft)
    BY <2>2, Zenon DEF Ref
  <2>3. CASE g \notin Grams(t) /\ ~(soft = 0 \/ Cardinality(Grams(t)) < soft)
    <3>1. Cardinality(Grams(t)) >= soft
      BY <1>3, <2>3
    <3>2. \E h \in Rare(t) : u = With(Without(t, h), g, 0)
      BY <2>3, Zenon DEF Ref
    <3> QED BY <2>3, <3>1, <3>2, Zenon DEF Full
  <2> QED BY <2>1, <2>2, <2>3
<1> QED BY <1>4, <1>5, <1>6, <1>7, Zenon

(* A set of numbers that is not empty has a least one.                     *)
LEMMA LeastNat ==
  ASSUME NEW I, I \subseteq Nat, I # {}
  PROVE  \E x \in I : \A y \in I : x <= y
<1>1. \E x \in I : \A y \in I : ~(<<y, x>> \in OpToRel(<, Nat))
  BY NatLessThanWellFounded, WFMin, Zenon
<1>2. \A x \in I, y \in I : y < x => <<y, x>> \in OpToRel(<, Nat)
  BY Zenon DEF OpToRel
<1>3. \A x, y \in Nat : ~(y < x) => x <= y
  OBVIOUS
<1> QED BY <1>1, <1>2, <1>3, Zenon

(* And it is the minimum.                                                  *)
LEMMA MinIsLeast ==
  ASSUME NEW I, I \subseteq Nat, I # {}
  PROVE  Min(I) \in I
BY LeastNat, Zenon DEF Min

(* If it is finite, it has a largest one: a smallest set without would     *)
(* not lose that with one of its elements.                                 *)
LEMMA MaxIsMost ==
  ASSUME NEW I, I \subseteq Nat, I # {}, IsFiniteSet(I)
  PROVE  Max(I) \in I /\ \A y \in I : y <= Max(I)
<1> DEFINE Topped(T) == \E x \in T : \A y \in T : y <= x
           Sizes == {n \in Nat : \E T \in SUBSET Nat : /\ IsFiniteSet(T) /\ T # {}
                                                       /\ Cardinality(T) = n /\ ~Topped(T)}
<1>1. ASSUME Sizes # {} PROVE FALSE
  <2>1. PICK n \in Sizes : \A m \in Sizes : n <= m
    <3>1. Sizes \subseteq Nat
      BY Zenon
    <3> HIDE DEF Sizes
    <3> QED BY <1>1, <3>1, LeastNat
  <2>2. PICK T \in SUBSET Nat : /\ IsFiniteSet(T) /\ T # {}
                                /\ Cardinality(T) = n /\ ~Topped(T)
    BY Zenon
  <2>3. PICK x \in T : TRUE
    BY <2>2
  <2>4. IsFiniteSet(T \ {x}) /\ Cardinality(T \ {x}) = n - 1 /\ n - 1 \in Nat
    <3>1. IsFiniteSet(T \ {x}) /\ Cardinality(T \ {x}) = n - 1
      BY <2>2, FS_RemoveElement
    <3> QED BY <3>1, FS_CardinalityType
  <2>5. T \ {x} = {} \/ Topped(T \ {x})
    <3>1. ~(n <= n - 1)
      BY <2>4
    <3>2. n - 1 \notin Sizes
      BY <2>1, <3>1, Zenon
    <3>3. T \ {x} \in SUBSET Nat
      OBVIOUS
    <3> HIDE DEF Topped
    <3> QED BY <2>4, <3>2, <3>3, Zenon
  <2>6. CASE T \ {x} = {}
    <3>1. \A y \in T : y = x
      BY <2>6
    <3>2. x <= x
      OBVIOUS
    <3> QED BY <2>2, <2>3, <3>1, <3>2, Zenon
  <2>7. CASE Topped(T \ {x})
    <3>1. PICK m \in T \ {x} : \A y \in T \ {x} : y <= m
      BY <2>7, Zenon
    <3>2. \A y \in T : y = x \/ y <= m
      BY <3>1, Zenon
    <3>3. \A y \in T : y \in Nat
      BY Zenon
    <3>4. CASE x <= m
      <4>1. \A y \in T : y <= m
        BY <3>2, <3>4, Zenon
      <4> QED BY <2>2, <4>1, Zenon
    <3>5. CASE ~(x <= m)
      <4>1. \A y \in Nat : y <= m => y <= x
        BY <3>5
      <4>2. \A y \in T : y <= x
        <5>1. x <= x
          OBVIOUS
        <5> QED BY <3>2, <3>3, <4>1, <5>1, Zenon
      <4> QED BY <2>2, <4>2, Zenon
    <3> QED BY <3>4, <3>5
  <2> QED BY <2>5, <2>6, <2>7
<1>2. Cardinality(I) \in Nat
  BY FS_CardinalityType
<1>3. Topped(I)
  <2>1. I \in SUBSET Nat
    OBVIOUS
  <2>2. Cardinality(I) \notin Sizes
    BY <1>1, Zenon
  <2> HIDE DEF Topped
  <2> QED BY <1>2, <2>1, <2>2, Zenon
<1>4. \E x \in I : \A y \in I : x >= y
  <2>1. \A x, y \in Nat : y <= x => x >= y
    OBVIOUS
  <2> QED BY <1>3, <2>1
<1>5. Max(I) \in I /\ \A y \in I : Max(I) >= y
  BY <1>4, Zenon DEF Max
<1> QED BY <1>5

(* The first place comes before all others.                                *)
LEMMA FirstIn ==
  ASSUME NEW ps, ps \subseteq Nat \X Nat, ps # {}
  PROVE  /\ First(ps) \in ps
         /\ \A q \in ps : \/ First(ps)[1] < q[1]
                          \/ First(ps)[1] = q[1] /\ First(ps)[2] <= q[2]
<1> DEFINE I == {p[1] : p \in ps}
           J(i) == {p[2] : p \in {p \in ps : p[1] = i}}
<1>1. \A p \in ps : p = <<p[1], p[2]>> /\ p[1] \in Nat /\ p[2] \in Nat
  OBVIOUS
<1>2. PICK i \in I : \A k \in I : i <= k
  <2>1. I \subseteq Nat /\ I # {}
    BY <1>1
  <2> HIDE DEF I
  <2> QED BY <2>1, LeastNat
<1>3. PICK j \in J(i) : \A k \in J(i) : j <= k
  <2>1. J(i) \subseteq Nat /\ J(i) # {}
    BY <1>1
  <2> HIDE DEF J
  <2> QED BY <2>1, LeastNat
<1>4. PICK p \in ps : p[1] = i /\ p[2] = j
  BY <1>3, Zenon
<1>5. ASSUME NEW q \in ps PROVE p[1] < q[1] \/ (p[1] = q[1] /\ p[2] <= q[2])
  <2>1. i <= q[1]
    BY <1>2, Zenon
  <2>2. q[1] = i => j <= q[2]
    BY <1>3, Zenon
  <2>3. i \in Nat /\ q[1] \in Nat
    BY <1>1, <1>4
  <2> QED BY <1>4, <2>1, <2>2, <2>3
<1>6. \E p1 \in ps : \A q \in ps : p1[1] < q[1] \/ (p1[1] = q[1] /\ p1[2] <= q[2])
  BY <1>4, <1>5, Zenon
<1> QED BY <1>6, Zenon DEF First

(* Orders weigh 1 to 4096.                                                 *)
LEMMA StepIs ==
  ASSUME NEW k \in Nat \ {0}
  PROVE  OrderStep(k) \in Nat \ {0}
<1>1. Min({k, 5}) = IF k <= 5 THEN k ELSE 5
  BY MinTwo
<1>2. Min({k, 5}) \in 1..5
  BY <1>1
<1>3. \A n \in 1..5 : <<1, 8, 64, 512, 4096>>[n] \in Nat \ {0}
  OBVIOUS
<1> QED BY <1>2, <1>3 DEF OrderStep

(* A weight is below the limit, and, if they are not normed, not zero.     *)
LEMMA WeightIs ==
  ASSUME cfg \in Configs, NEW g \in TrueGrams, NEW c \in Nat \ {0}, NEW m \in Nat
  PROVE  /\ Step(g.ctx) \in Nat \ {0}
         /\ Weight(g, c, m) \in 0..WMax
         /\ ~cfg.norm => /\ Weight(g, c, m) = Min({Step(g.ctx) * c, WMax})
                         /\ Weight(g, c, m) # 0
<1>1. Step(g.ctx) \in Nat \ {0}
  <2>1. PICK p \in Real : g = GramAt(p)
    BY OccursAt, Zenon
  <2>2. g \in Gram /\ g.ctx # <<>>
    BY <2>1, RealIs, Zenon
  <2>3. g.ctx \in Seq(Nat)
    BY <2>2 DEF Gram
  <2>4. Len(g.ctx) \in Nat \ {0}
    BY <2>2, <2>3, EmptySeq
  <2> QED BY <2>4, StepIs, Zenon DEF Step, Order
<1> DEFINE s == Step(g.ctx)
           raw == Min({s * c, WMax})
           target == Min({Top, WMax})
           d == m * OrderStep(cfg.order)
           n == (c * target * s) \div d
<1>2. WMax \in Nat \ {0} /\ Top \in Nat \ {0} /\ NormFrom \in Nat \ {0}
  BY Numbers
<1>3. raw \in Nat \ {0} /\ raw <= WMax
  <2>1. s * c \in Nat
    BY <1>1, Times
  <2>2. s * c # 0
    <3>1. (s = (s - 1) + 1) /\ s - 1 \in Nat
      BY <1>1
    <3>2. s * c = (s - 1) * c + c /\ (s - 1) * c \in Nat
      BY <3>1, Times
    <3> HIDE DEF s
    <3> QED BY <3>2
  <2> HIDE DEF s
  <2>3. raw = IF s * c <= WMax THEN s * c ELSE WMax
    BY <1>2, <2>1, MinTwo
  <2> QED BY <1>2, <2>1, <2>2, <2>3
<1>4. ASSUME m >= NormFrom PROVE Min({WMax, n}) \in 0..WMax
  <2>1. target \in Nat
    <3>1. target = IF Top <= WMax THEN Top ELSE WMax
      BY <1>2, MinTwo
    <3> QED BY <1>2, <3>1
  <2>2. OrderStep(cfg.order) \in Nat \ {0}
    BY StepIs, CfgFacts
  <2>3. m \in Nat \ {0}
    BY <1>2, <1>4
  <2>4. d \in Nat \ {0}
    <3> DEFINE o == OrderStep(cfg.order)
    <3> HIDE DEF o
    <3>1. (m = (m - 1) + 1) /\ m - 1 \in Nat /\ o \in Nat \ {0}
      BY <2>2, <2>3 DEF o
    <3>2. m * o = (m - 1) * o + o /\ (m - 1) * o \in Nat
      BY <3>1, Times
    <3>3. m * o \in Nat \ {0}
      BY <3>1, <3>2
    <3> QED BY <3>3, Zenon DEF o
  <2>5. c * target * s \in Nat
    <3> HIDE DEF target, s
    <3>1. c * target \in Nat
      BY <2>1, Times
    <3>2. s \in Nat
      BY <1>1 DEF s
    <3> QED BY <3>1, <3>2, Times
  <2> HIDE DEF d, target, s
  <2>6. n \in Nat
    BY <2>4, <2>5, Division
  <2>7. Min({WMax, n}) = IF WMax <= n THEN WMax ELSE n
    BY <1>2, <2>6, MinTwo
  <2> HIDE DEF n
  <2> QED BY <1>2, <2>6, <2>7
<1>5. Weight(g, c, m) = IF ~cfg.norm \/ m < NormFrom THEN raw
                        ELSE IF c = 1 \/ (m >= PruneFrom /\ c < 3) THEN 0
                        ELSE Min({WMax, n})
  BY Zenon DEF Weight
<1> HIDE DEF raw, n
<1>6. Weight(g, c, m) \in 0..WMax
  <2>1. raw \in 0..WMax
    BY <1>2, <1>3
  <2>2. 0 \in 0..WMax
    BY <1>2
  <2>3. ~(m < NormFrom) => m >= NormFrom
    BY <1>2
  <2> QED BY <1>4, <1>5, <2>1, <2>2, <2>3, Zenon
<1>7. ~cfg.norm => Weight(g, c, m) = raw
  BY <1>5, Zenon
<1>8. raw # 0
  BY <1>3
<1> QED BY <1>1, <1>6, <1>7, <1>8, Zenon DEF raw

(* No step changes the training.                                           *)
LEMMA CfgStays ==
  ASSUME Next
  PROVE  cfg' = cfg
BY Zenon DEF Next, Start, Token, Tokens, Online, Serial, Exhausted, Spawn, Inlined,
   Spawned, Count, OutOfMemory, Join, Joined, Merge, Merged, Counted, Context, Contexts,
   Edge, Done

(* Who counts what, and when.                                              *)
LEMMA StagesStep ==
  ASSUME ShapeInv, StagesInv, JobsInv, Next
  PROVE  ShapeInv' /\ StagesInv' /\ JobsInv'
<1>1. ShapeInv /\ StagesInv /\ JobsInv /\ cfg \in Configs
  BY Zenon DEF ShapeInv
<1>2. /\ cfg' = cfg /\ Whole' = Whole /\ Stream' = Stream /\ NJobs' = NJobs
      /\ \A j : Mine(j)' = Mine(j)
  BY CfgStays, Static
<1>3. NJobs \in Jobs /\ NJobs \in Nat \ {0} /\ Jobs = 1..MaxJobs /\ MaxJobs \in Nat \ {0} /\ Main = 0
  <2>1. NJobs \in Jobs
    BY <1>1, Ranges
  <2> QED BY <2>1, Numbers
<1>4. cfg.mode \in {"online", "counted"}
  BY <1>1, CfgFacts
<1>5. Whole = Places(1, Len(Text), 1) /\ \A j : Mine(j) = Places(Lo(j), Hi(j), 1)
  BY Zenon DEF Whole, Mine
<1>6. Threads = {Main} \cup Jobs /\ Main \in Threads /\ Jobs \subseteq Threads /\ Main \notin Jobs
  BY <1>3 DEF Threads
<1>7. /\ cur \in Nat \ {0} /\ \A j \in Jobs : j \in Nat \ {0}
      /\ \A c \in 1..(NJobs + 1) : c \in 1..(MaxJobs + 1) /\ (c <= NJobs => c \in Jobs)
      /\ \A c \in 1..NJobs : c + 1 \in 1..(NJobs + 1)
      /\ pc \in {"spawn", "join", "merge"} /\ cur <= NJobs => cur \in 1..NJobs /\ cur \in Jobs
  BY <1>1, <1>3 DEF ShapeInv, StagesInv
<1>8. 1 \in 1..(NJobs + 1)
  BY <1>3
<1>11. CASE Start
  <2>1. ShapeInv'
    BY <1>1, <1>2, <1>3, <1>4, <1>5, <1>6, <1>11 DEF
       Start, counting, result, ShapeInv, StagesInv, Marks
  <2>2. StagesInv'
    BY <1>1, <1>2, <1>3, <1>4, <1>6, <1>11 DEF
       Start, StagesInv, Idle, Ready, JobsInv, JobInv, ShapeInv, Marks, counting, result
  <2>3. JobsInv'
    BY <1>1, <1>2, <1>3, <1>4, <1>6, <1>11 DEF
       Start, StagesInv, Idle, Ready, JobsInv, JobInv, ShapeInv, Marks, counting, result
  <2> QED BY <2>1, <2>2, <2>3
<1>12. CASE Token
  <2>1. ShapeInv'
    BY <1>1, <1>2, <1>3, <1>4, <1>5, <1>6, <1>12 DEF
       Token, counting, result, ShapeInv, StagesInv, Marks
  <2>2. StagesInv'
    BY <1>1, <1>2, <1>3, <1>4, <1>6, <1>12 DEF
       Token, StagesInv, Idle, Ready, JobsInv, JobInv, ShapeInv, Marks, counting, result
  <2>3. JobsInv'
    BY <1>1, <1>2, <1>3, <1>4, <1>6, <1>12 DEF
       Token, StagesInv, Idle, Ready, JobsInv, JobInv, ShapeInv, Marks, counting, result
  <2> QED BY <2>1, <2>2, <2>3
<1>13. CASE Tokens
  <2>1. ShapeInv'
    BY <1>1, <1>2, <1>3, <1>4, <1>5, <1>6, <1>13 DEF
       Tokens, counting, result, ShapeInv, StagesInv, Marks
  <2>2. StagesInv'
    BY <1>1, <1>2, <1>3, <1>4, <1>6, <1>13 DEF
       Tokens, StagesInv, Idle, Ready, JobsInv, JobInv, ShapeInv, Marks, counting,
       result
  <2>3. ASSUME NEW j \in Jobs PROVE JobInv(j)'
    <3>1. JobInv(j) /\ j \in Nat \ {0}
      BY <1>1, <1>7 DEF JobsInv
    <3>2. /\ thread'[j] = "none" /\ todo'[j] = todo[j] /\ table'[j] = table[j] /\ cur' = 1
          /\ pc' \in {"serial", "spawn"} /\ thread[j] = "none"
      BY <1>1, <1>6, <1>13 DEF Tokens, ShapeInv, StagesInv, Idle
    <3> QED BY <1>2, <3>1, <3>2 DEF JobInv, Ready, Grams
  <2> QED BY <2>1, <2>2, <2>3 DEF JobsInv
<1>14. CASE Online
  <2>1. ShapeInv'
    <3>1. /\ pc = "online" /\ pc' \in {"online", "done"}
          /\ todo' = todo \/ \E p : todo' = [todo EXCEPT ![Main] = @ \ {p}]
          /\ UNCHANGED <<cfg, cur, thread, table, spoilt>>
      BY <1>14, Zenon DEF Online
    <3> QED BY <1>1, <1>2, <1>6, <3>1 DEF ShapeInv
  <2>2. StagesInv'
    <3>1. /\ pc = "online" /\ UNCHANGED <<cfg, cur, thread, table, spoilt>>
          /\ pc' = "online" \/ (pc' = "done" /\ todo[Main] = {} /\ todo' = todo)
      BY <1>14, Zenon DEF Online
    <3> QED BY <1>1, <1>2, <1>4, <3>1 DEF StagesInv, Idle, Ready
  <2>3. JobsInv'
    <3>1. /\ pc = "online" /\ pc' \in {"online", "done"}
          /\ UNCHANGED <<cfg, cur, thread, table, spoilt>>
          /\ todo' = todo \/ \E p : todo' = [todo EXCEPT ![Main] = @ \ {p}]
      BY <1>14, Zenon DEF Online
    <3>2. cfg.mode = "online" /\ \A j \in Jobs : todo'[j] = todo[j] /\ thread[j] = "none"
      BY <1>1, <1>4, <1>6, <3>1 DEF StagesInv, Idle, ShapeInv
    <3>3. ASSUME NEW j \in Jobs PROVE JobInv(j)'
      <4>1. JobInv(j) /\ j \in Nat \ {0}
        BY <1>1, <1>7 DEF JobsInv
      <4> QED BY <1>2, <3>1, <3>2, <4>1 DEF JobInv, Ready, Grams
    <3> QED BY <3>3 DEF JobsInv
  <2> QED BY <2>1, <2>2, <2>3
<1>15. CASE Serial
  <2>1. ShapeInv'
    BY <1>1, <1>2, <1>3, <1>4, <1>5, <1>6, <1>15 DEF
       Serial, counting, result, ShapeInv, StagesInv, Marks
  <2>2. StagesInv'
    BY <1>1, <1>2, <1>3, <1>4, <1>6, <1>15 DEF
       Serial, StagesInv, Idle, Ready, JobsInv, JobInv, ShapeInv, Marks, counting,
       result
  <2>3. JobsInv'
    BY <1>1, <1>2, <1>3, <1>4, <1>6, <1>15 DEF
       Serial, StagesInv, Idle, Ready, JobsInv, JobInv, ShapeInv, Marks, counting,
       result
  <2> QED BY <2>1, <2>2, <2>3
<1>16. CASE Exhausted
  <2>1. ShapeInv'
    BY <1>1, <1>2, <1>3, <1>4, <1>5, <1>6, <1>16 DEF
       Exhausted, counting, result, ShapeInv, StagesInv, Marks
  <2>2. StagesInv'
    BY <1>1, <1>2, <1>3, <1>4, <1>6, <1>16 DEF
       Exhausted, StagesInv, Idle, Ready, JobsInv, JobInv, ShapeInv, Marks, counting,
       result
  <2>3. JobsInv'
    BY <1>1, <1>2, <1>3, <1>4, <1>6, <1>16 DEF
       Exhausted, StagesInv, Idle, Ready, JobsInv, JobInv, ShapeInv, Marks, counting,
       result
  <2> QED BY <2>1, <2>2, <2>3
<1>17. CASE Spawn
  <2>1. ShapeInv'
    <3>1. cur' \in 1..(MaxJobs + 1)
      BY <1>1, <1>2, <1>7, <1>8, <1>17, Zenon DEF Spawn, ShapeInv, StagesInv
    <3> QED BY <1>1, <1>2, <1>3, <1>4, <1>5, <1>6, <1>7, <1>17, <3>1 DEF
       Spawn, counting, result, ShapeInv, StagesInv, Marks
  <2>2. StagesInv'
    BY <1>1, <1>2, <1>3, <1>4, <1>6, <1>17 DEF
       Spawn, StagesInv, Idle, Ready, JobsInv, JobInv, ShapeInv, Marks, counting, result
  <2>3. ASSUME NEW j \in Jobs PROVE JobInv(j)'
    <3>1. JobInv(j) /\ j \in Nat \ {0}
      BY <1>1, <1>7 DEF JobsInv
    <3>2. /\ cur \in Jobs /\ j # Main /\ cur # Main
      BY <1>6, <1>7, <1>17 DEF Spawn
    <3>3. /\ table' = table
          /\ j # cur => thread'[j] = thread[j] /\ todo'[j] = todo[j]
          /\ pc = "spawn" /\ cur <= NJobs
          /\ \/ pc' = "spawn" /\ cur' = cur + 1 /\ thread'[cur] = "running"
             \/ pc' = "inline" /\ cur' = cur /\ thread'[cur] = "inline"
      BY <1>1, <1>6, <1>17, <3>2 DEF Spawn, ShapeInv
    <3>4. CASE j = cur
      BY <1>2, <1>3, <1>7, <3>1, <3>3, <3>4 DEF JobInv, Ready, Grams
    <3>5. CASE j # cur
      <4>1. (j >= cur <=> j > cur) /\ (j >= cur <=> j >= cur + 1)
        BY <1>7, <3>1, <3>5
      <4> QED BY <1>2, <3>1, <3>3, <3>5, <4>1 DEF JobInv, Ready, Grams
    <3> QED BY <3>4, <3>5
  <2> QED BY <2>1, <2>2, <2>3 DEF JobsInv
<1>18. CASE Inlined
  <2>1. ShapeInv'
    <3>1. cur' \in 1..(MaxJobs + 1)
      BY <1>1, <1>2, <1>7, <1>8, <1>18, Zenon DEF Inlined, ShapeInv, StagesInv
    <3> QED BY <1>1, <1>2, <1>3, <1>4, <1>5, <1>6, <1>7, <1>18, <3>1 DEF
       Inlined, counting, result, ShapeInv, StagesInv, Marks
  <2>2. StagesInv'
    BY <1>1, <1>2, <1>3, <1>4, <1>6, <1>18 DEF
       Inlined, StagesInv, Idle, Ready, JobsInv, JobInv, ShapeInv, Marks, counting,
       result
  <2>3. ASSUME NEW j \in Jobs PROVE JobInv(j)'
    <3>1. JobInv(j) /\ j \in Nat \ {0}
      BY <1>1, <1>7 DEF JobsInv
    <3>2. /\ table' = table /\ thread' = thread /\ todo' = todo
          /\ pc = "inline" /\ pc' = "spawn" /\ cur' = cur + 1
      BY <1>18 DEF Inlined
    <3> QED BY <1>2, <1>7, <3>1, <3>2 DEF JobInv, Ready, Grams
  <2> QED BY <2>1, <2>2, <2>3 DEF JobsInv
<1>19. CASE Spawned
  <2>1. ShapeInv'
    <3>1. cur' \in 1..(MaxJobs + 1)
      BY <1>1, <1>2, <1>7, <1>8, <1>19, Zenon DEF Spawned, ShapeInv, StagesInv
    <3> QED BY <1>1, <1>2, <1>3, <1>4, <1>5, <1>6, <1>7, <1>19, <3>1 DEF
       Spawned, counting, result, ShapeInv, StagesInv, Marks
  <2>2. StagesInv'
    BY <1>1, <1>2, <1>3, <1>4, <1>6, <1>19 DEF
       Spawned, StagesInv, Idle, Ready, JobsInv, JobInv, ShapeInv, Marks, counting,
       result
  <2>3. ASSUME NEW j \in Jobs PROVE JobInv(j)'
    <3>1. JobInv(j) /\ j \in Nat \ {0}
      BY <1>1, <1>7 DEF JobsInv
    <3>2. /\ table' = table /\ thread' = thread /\ todo' = todo
          /\ pc = "spawn" /\ pc' = "join" /\ cur' = 1 /\ cur > NJobs
      BY <1>19 DEF Spawned
    <3> QED BY <1>2, <1>3, <1>7, <3>1, <3>2 DEF JobInv, Ready, Grams
  <2> QED BY <2>1, <2>2, <2>3 DEF JobsInv
<1>20. CASE Join
  <2>1. ShapeInv'
    <3>1. cur' \in 1..(MaxJobs + 1)
      BY <1>1, <1>2, <1>7, <1>8, <1>20, Zenon DEF Join, ShapeInv, StagesInv
    <3> QED BY <1>1, <1>2, <1>3, <1>4, <1>5, <1>6, <1>7, <1>20, <3>1 DEF
       Join, counting, result, ShapeInv, StagesInv, Marks
  <2>2. StagesInv'
    BY <1>1, <1>2, <1>3, <1>4, <1>6, <1>20 DEF
       Join, StagesInv, Idle, Ready, JobsInv, JobInv, ShapeInv, Marks, counting, result
  <2>3. ASSUME NEW j \in Jobs PROVE JobInv(j)'
    <3>1. JobInv(j) /\ j \in Nat \ {0}
      BY <1>1, <1>7 DEF JobsInv
    <3>2. /\ table' = table /\ thread' = thread /\ todo' = todo /\ todo[cur] = {}
          /\ pc = "join" /\ \/ pc' = "join" /\ cur' = cur + 1
                            \/ pc' = "crashed" /\ cur' = cur
      BY <1>20 DEF Join
    <3>3. j < cur + 1 => j < cur \/ j = cur
      BY <1>7, <3>1
    <3> QED BY <1>2, <1>7, <3>1, <3>2, <3>3 DEF JobInv, Ready, Grams
  <2> QED BY <2>1, <2>2, <2>3 DEF JobsInv
<1>21. CASE Joined
  <2>1. ShapeInv'
    <3>1. cur' \in 1..(MaxJobs + 1)
      BY <1>1, <1>2, <1>7, <1>8, <1>21, Zenon DEF Joined, ShapeInv, StagesInv
    <3> QED BY <1>1, <1>2, <1>3, <1>4, <1>5, <1>6, <1>7, <1>21, <3>1 DEF
       Joined, counting, result, ShapeInv, StagesInv, Marks
  <2>2. StagesInv'
    BY <1>1, <1>2, <1>3, <1>4, <1>6, <1>21 DEF
       Joined, StagesInv, Idle, Ready, JobsInv, JobInv, ShapeInv, Marks, counting,
       result
  <2>3. ASSUME NEW j \in Jobs PROVE JobInv(j)'
    <3>1. JobInv(j) /\ j \in Nat \ {0}
      BY <1>1, <1>7 DEF JobsInv
    <3>2. /\ table' = table /\ thread' = thread /\ todo' = todo
          /\ pc = "join" /\ cur > NJobs /\ cur' = 1
          /\ pc' = IF \E i \in 1..NJobs : thread[i] = "failed" THEN "failed" ELSE "merge"
      BY <1>21 DEF Joined
    <3>3. j \in 1..NJobs \/ j > NJobs
      BY <1>3, <3>1
    <3>4. pc' = "failed" \/ (pc' = "merge" /\ (j \in 1..NJobs => thread[j] # "failed"))
      BY <3>2
    <3>5. (j \in 1..NJobs => j < cur) /\ ~(j < 1)
      BY <1>3, <1>7, <3>1, <3>2
    <3> QED BY <1>2, <1>7, <3>1, <3>2, <3>3, <3>4, <3>5 DEF JobInv, Ready, Grams
  <2> QED BY <2>1, <2>2, <2>3 DEF JobsInv
<1>22. CASE Merge
  <2>1. ShapeInv'
    BY <1>1, <1>2, <1>3, <1>4, <1>5, <1>6, <1>22 DEF
       Merge, counting, result, ShapeInv, StagesInv, Marks
  <2>2. StagesInv'
    BY <1>1, <1>2, <1>3, <1>4, <1>6, <1>22 DEF
       Merge, StagesInv, Idle, Ready, JobsInv, JobInv, ShapeInv, Marks, counting, result
  <2>3. JobsInv'
    BY <1>1, <1>2, <1>3, <1>4, <1>6, <1>22 DEF
       Merge, StagesInv, Idle, Ready, JobsInv, JobInv, ShapeInv, Marks, counting, result
  <2> QED BY <2>1, <2>2, <2>3
<1>23. CASE Merged
  <2>1. ShapeInv'
    <3>1. cur' \in 1..(MaxJobs + 1)
      BY <1>1, <1>2, <1>7, <1>8, <1>23, Zenon DEF Merged, ShapeInv, StagesInv
    <3> QED BY <1>1, <1>2, <1>3, <1>4, <1>5, <1>6, <1>7, <1>23, <3>1 DEF
       Merged, counting, result, ShapeInv, StagesInv, Marks
  <2>2. StagesInv'
    BY <1>1, <1>2, <1>3, <1>4, <1>6, <1>23 DEF
       Merged, StagesInv, Idle, Ready, JobsInv, JobInv, ShapeInv, Marks, counting,
       result
  <2>3. ASSUME NEW j \in Jobs PROVE JobInv(j)'
    <3>1. JobInv(j) /\ j \in Nat \ {0}
      BY <1>1, <1>7 DEF JobsInv
    <3>2. /\ table' = table /\ thread' = thread /\ todo' = todo /\ pc' = pc
          /\ pc = "merge" /\ cur' = cur + 1 /\ Grams(table[cur]) = {}
      BY <1>23 DEF Merged
    <3>3. j < cur + 1 => j < cur \/ j = cur
      BY <1>7, <3>1
    <3> QED BY <1>2, <1>7, <3>1, <3>2, <3>3 DEF JobInv, Ready
  <2> QED BY <2>1, <2>2, <2>3 DEF JobsInv
<1>24. CASE Counted
  <2>1. ShapeInv'
    BY <1>1, <1>2, <1>3, <1>4, <1>5, <1>6, <1>24 DEF
       Counted, counting, result, ShapeInv, StagesInv, Marks
  <2>2. StagesInv'
    BY <1>1, <1>2, <1>3, <1>4, <1>6, <1>24 DEF
       Counted, StagesInv, Idle, Ready, JobsInv, JobInv, ShapeInv, Marks, counting,
       result
  <2>3. JobsInv'
    BY <1>1, <1>2, <1>3, <1>4, <1>6, <1>24 DEF
       Counted, StagesInv, Idle, Ready, JobsInv, JobInv, ShapeInv, Marks, counting,
       result
  <2> QED BY <2>1, <2>2, <2>3
<1>25. CASE Context
  <2>1. ShapeInv'
    BY <1>1, <1>2, <1>3, <1>4, <1>5, <1>6, <1>25 DEF
       Context, counting, result, ShapeInv, StagesInv, Marks
  <2>2. StagesInv'
    BY <1>1, <1>2, <1>3, <1>4, <1>6, <1>25 DEF
       Context, StagesInv, Idle, Ready, JobsInv, JobInv, ShapeInv, Marks, counting,
       result
  <2>3. JobsInv'
    BY <1>1, <1>2, <1>3, <1>4, <1>6, <1>25 DEF
       Context, StagesInv, Idle, Ready, JobsInv, JobInv, ShapeInv, Marks, counting,
       result
  <2> QED BY <2>1, <2>2, <2>3
<1>26. CASE Contexts
  <2>1. ShapeInv'
    BY <1>1, <1>2, <1>3, <1>4, <1>5, <1>6, <1>26 DEF
       Contexts, counting, result, ShapeInv, StagesInv, Marks
  <2>2. StagesInv'
    BY <1>1, <1>2, <1>3, <1>4, <1>6, <1>26 DEF
       Contexts, StagesInv, Idle, Ready, JobsInv, JobInv, ShapeInv, Marks, counting,
       result
  <2>3. JobsInv'
    BY <1>1, <1>2, <1>3, <1>4, <1>6, <1>26 DEF
       Contexts, StagesInv, Idle, Ready, JobsInv, JobInv, ShapeInv, Marks, counting,
       result
  <2> QED BY <2>1, <2>2, <2>3
<1>27. CASE Edge
  <2>1. ShapeInv'
    BY <1>1, <1>2, <1>3, <1>4, <1>5, <1>6, <1>27 DEF
       Edge, counting, result, ShapeInv, StagesInv, Marks
  <2>2. StagesInv'
    BY <1>1, <1>2, <1>3, <1>4, <1>6, <1>27 DEF
       Edge, StagesInv, Idle, Ready, JobsInv, JobInv, ShapeInv, Marks, counting, result
  <2>3. JobsInv'
    BY <1>1, <1>2, <1>3, <1>4, <1>6, <1>27 DEF
       Edge, StagesInv, Idle, Ready, JobsInv, JobInv, ShapeInv, Marks, counting, result
  <2> QED BY <2>1, <2>2, <2>3
<1>28. CASE Done
  <2>1. ShapeInv'
    BY <1>1, <1>2, <1>3, <1>4, <1>5, <1>6, <1>28 DEF
       Done, counting, result, ShapeInv, StagesInv, Marks
  <2>2. StagesInv'
    BY <1>1, <1>2, <1>3, <1>4, <1>6, <1>28 DEF
       Done, StagesInv, Idle, Ready, JobsInv, JobInv, ShapeInv, Marks, counting, result
  <2>3. JobsInv'
    BY <1>1, <1>2, <1>3, <1>4, <1>6, <1>28 DEF
       Done, StagesInv, Idle, Ready, JobsInv, JobInv, ShapeInv, Marks, counting, result
  <2> QED BY <2>1, <2>2, <2>3
<1>29. ASSUME NEW j \in Jobs, Count(j) PROVE ShapeInv' /\ StagesInv' /\ JobsInv'
  <2>1. ShapeInv'
    BY <1>1, <1>2, <1>3, <1>4, <1>5, <1>6, <1>29 DEF
       Count, counting, result, ShapeInv, StagesInv, Marks
  <2>2. StagesInv'
    BY <1>1, <1>2, <1>3, <1>4, <1>6, <1>29 DEF
       Count, StagesInv, Idle, Ready, JobsInv, JobInv, ShapeInv, Marks, counting, result
  <2>3. JobsInv'
    BY <1>1, <1>2, <1>3, <1>4, <1>6, <1>29 DEF
       Count, StagesInv, Idle, Ready, JobsInv, JobInv, ShapeInv, Marks, counting, result
  <2> QED BY <2>1, <2>2, <2>3
<1>30. ASSUME NEW j \in Jobs, OutOfMemory(j) PROVE ShapeInv' /\ StagesInv' /\ JobsInv'
  <2>1. ShapeInv'
    BY <1>1, <1>2, <1>3, <1>4, <1>5, <1>6, <1>30 DEF
       OutOfMemory, counting, result, ShapeInv, StagesInv, Marks
  <2>2. StagesInv'
    BY <1>1, <1>2, <1>3, <1>4, <1>6, <1>30 DEF
       OutOfMemory, StagesInv, Idle, Ready, JobsInv, JobInv, ShapeInv, Marks, counting,
       result
  <2>3. JobsInv'
    BY <1>1, <1>2, <1>3, <1>4, <1>6, <1>30 DEF
       OutOfMemory, StagesInv, Idle, Ready, JobsInv, JobInv, ShapeInv, Marks, counting,
       result
  <2> QED BY <2>1, <2>2, <2>3
<1> QED BY <1>11, <1>12, <1>13, <1>14, <1>15, <1>16, <1>17, <1>18, <1>19, <1>20, <1>21, <1>22, <1>23, <1>24, <1>25, <1>26, <1>27, <1>28, <1>29, <1>30, Zenon DEF
   Next

(* What the tallies stand for are places of the text.                      *)
LEMMA OwnIn ==
  cfg \in Configs =>
    /\ IsFiniteSet(Whole)
    /\ \A j \in Jobs : From(j) \subseteq Whole
    /\ \A j \in {Main} \cup Jobs : \A g : Own(j, g) \subseteq Whole
<1> SUFFICES ASSUME cfg \in Configs
             PROVE  /\ IsFiniteSet(Whole)
                    /\ \A j \in Jobs : From(j) \subseteq Whole
                    /\ \A j \in {Main} \cup Jobs : \A g : Own(j, g) \subseteq Whole
  OBVIOUS
<1>1. IsFiniteSet(Whole)
  BY PlacesAreFinite
<1>2. \A j \in Jobs : From(j) \subseteq Whole
  <2>1. \A j \in Jobs : From(j) \subseteq Mine(j)
    BY Zenon DEF From
  <2> QED BY <2>1, MineIn, Zenon
<1>3. Serially \subseteq Whole
  BY Zenon DEF Serially
<1>4. ASSUME NEW j \in {Main} \cup Jobs, NEW g PROVE Own(j, g) \subseteq Whole
  <2>1. CASE j = Main
    BY <1>2, <1>3, <2>1, Zenon DEF Own
  <2>2. CASE j # Main
    <3>1. j \in Jobs
      BY <2>2, Zenon
    <3> QED BY <1>2, <2>2, <3>1, Zenon DEF Own
  <2> QED BY <2>1, <2>2
<1> QED BY <1>1, <1>2, <1>4

(* The same after a step.                                                  *)
LEMMA OwnInNext ==
  ASSUME cfg \in Configs, cfg' = cfg
  PROVE  \A j \in {Main} \cup Jobs : \A g : Own(j, g)' \subseteq Whole
<1>1. (cfg \in Configs =>
         /\ IsFiniteSet(Whole)
         /\ \A j \in Jobs : From(j) \subseteq Whole
         /\ \A j \in {Main} \cup Jobs : \A g : Own(j, g) \subseteq Whole)'
  BY OwnIn, PTL
<1>2. Whole' = Whole /\ (cfg \in Configs)'
  BY Static
<1> QED BY <1>1, <1>2, Zenon

(* Where every thread is idle, or main has not begun to take counts over,  *)
(* each tally stands for what was counted in it.                           *)
LEMMA OwnApart ==
  ASSUME \/ \A i \in Jobs : thread[i] = "none"
         \/ pc \notin Past, NEW g
  PROVE  /\ Own(Main, g) = Serially
         /\ \A j \in Jobs : j # Main => Own(j, g) = From(j)
<1>1. CASE \A i \in Jobs : thread[i] = "none"
  <2>1. \A i \in Jobs : From(i) = {}
    BY <1>1, Zenon DEF From
  <2> QED BY <2>1, Zenon DEF Own
<1>2. CASE pc \notin Past
  <2>1. \A i : ~Taken(i, g)
    BY <1>2, Zenon DEF Taken
  <2> QED BY <2>1, Zenon DEF Own
<1> QED BY <1>1, <1>2

(* The same after a step.                                                  *)
LEMMA OwnApartNext ==
  ASSUME \/ \A i \in Jobs : thread'[i] = "none"
         \/ pc' \notin Past, NEW g
  PROVE  /\ Own(Main, g)' = Serially'
         /\ \A j \in Jobs : j # Main => Own(j, g)' = From(j)'
<1>1. CASE \A i \in Jobs : thread'[i] = "none"
  <2>1. \A i \in Jobs : From(i)' = {}
    BY <1>1, Zenon DEF From
  <2> QED BY <2>1, Zenon DEF Own
<1>2. CASE pc' \notin Past
  <2>1. \A i : ~Taken(i, g)'
    BY <1>2, Zenon DEF Taken
  <2> QED BY <2>1, Zenon DEF Own
<1> QED BY <1>1, <1>2

(* No table is full where the limit is met by all grams there are.         *)
LEMMA NotFull ==
  ASSUME cfg \in Configs, Room, NEW t, Grams(t) \subseteq TrueGrams, NEW g \in TrueGrams
  PROVE  ~Full(t, g, cfg.soft)
<1>1. IsFiniteSet(TrueGrams) /\ cfg.soft \in Nat
  BY OccursAt, CfgFacts
<1>2. ASSUME Full(t, g, cfg.soft) PROVE FALSE
  <2>1. /\ g \notin Grams(t) /\ cfg.soft # 0 /\ Cardinality(Grams(t)) >= cfg.soft
    BY <1>2, Zenon DEF Full
  <2>2. Grams(t) \subseteq TrueGrams \ {g}
    BY <2>1
  <2>3. /\ IsFiniteSet(TrueGrams \ {g})
        /\ Cardinality(TrueGrams \ {g}) = Cardinality(TrueGrams) - 1
    BY <1>1, FS_RemoveElement
  <2>4. Cardinality(Grams(t)) <= Cardinality(TrueGrams \ {g})
    BY <2>2, <2>3, FS_Subset
  <2>5. /\ Cardinality(Grams(t)) \in Nat /\ Cardinality(TrueGrams) \in Nat
        /\ Cardinality(TrueGrams) <= cfg.soft
    <3>1. IsFiniteSet(Grams(t))
      BY <2>2, <2>3, FS_Subset
    <3> QED BY <1>1, <2>1, <3>1, FS_CardinalityType DEF Room
  <2> QED BY <1>1, <2>1, <2>3, <2>4, <2>5
<1> QED BY <1>2

(* Counting the gram of a place: the tallies go with the places.           *)
LEMMA TalliedPlace ==
  ASSUME NEW t, IsTable(t), NEW S, IsFiniteSet(S), NEW p, p \notin S, GramAt(p) \in Gram,
         NEW soft \in Nat, NEW u \in Ref(t, GramAt(p), soft),
         NEW h, Tally(t, h) <= Cardinality(At(h, S))
  PROVE  LET v == Plus(u, GramAt(p), 1)
         IN  /\ Tally(v, h) <= Cardinality(At(h, S \cup {p}))
             /\ ~Full(t, GramAt(p), soft) /\ Tally(t, h) = Cardinality(At(h, S))
                  => Tally(v, h) = Cardinality(At(h, S \cup {p}))
<1> DEFINE v == Plus(u, GramAt(p), 1)
<1>1. /\ Tally(v, GramAt(p)) = Tally(t, GramAt(p)) + 1
      /\ Tally(t, h) \in Nat /\ Tally(v, h) \in Nat
      /\ h # GramAt(p) => Tally(v, h) <= Tally(t, h)
      /\ ~Full(t, GramAt(p), soft) /\ h # GramAt(p) => Tally(v, h) = Tally(t, h)
  BY Grow
<1>2. /\ Cardinality(At(h, S)) \in Nat
      /\ Cardinality(At(h, S \cup {p})) =
           Cardinality(At(h, S)) + (IF GramAt(p) = h THEN 1 ELSE 0)
  BY AtMore
<1> HIDE DEF v
<1>3. CASE h = GramAt(p)
  BY <1>1, <1>2, <1>3 DEF v
<1>4. CASE h # GramAt(p)
  BY <1>1, <1>2, <1>4 DEF v
<1> QED BY <1>3, <1>4

(* Tallies that stay, of places that become no fewer.                      *)
LEMMA CountsCalm ==
  ASSUME cfg \in Configs, CountsInv, cfg' = cfg, table' = table,
         ASSUME NEW j \in {Main} \cup Jobs, NEW g
         PROVE  /\ Own(j, g) \subseteq Own(j, g)'
                /\ Exact(j)' => Exact(j) /\ Own(j, g)' = Own(j, g)
  PROVE  CountsInv'
<1>1. /\ TrueGrams' = TrueGrams /\ \A p : GramAt(p)' = GramAt(p)
  BY Static, StaticTruth
<1>2. ASSUME NEW j \in {Main} \cup Jobs, NEW g \in TrueGrams PROVE Fair(j, g)'
  <2>1. /\ Tally(table[j], g) <= Cardinality(At(g, Own(j, g)))
        /\ Exact(j) => Tally(table[j], g) = Cardinality(At(g, Own(j, g)))
    BY Zenon DEF CountsInv, Fair
  <2>2. At(g, Own(j, g))' = At(g, Own(j, g)')
    BY <1>1, Zenon DEF At
  <2>3. /\ Cardinality(At(g, Own(j, g))) \in Nat /\ Cardinality(At(g, Own(j, g)')) \in Nat
        /\ Cardinality(At(g, Own(j, g))) <= Cardinality(At(g, Own(j, g)'))
    <3>1. IsFiniteSet(Whole) /\ Own(j, g)' \subseteq Whole
      BY OwnIn, OwnInNext
    <3>2. IsFiniteSet(Own(j, g)')
      BY <3>1, FS_Subset
    <3>3. Own(j, g) \subseteq Own(j, g)'
      OBVIOUS
    <3> QED BY <3>2, <3>3, AtFewer
  <2>4. Tally(table[j], g)' = Tally(table[j], g) /\ Tally(table[j], g) \in Nat
    <3>1. IsTable(table[j])
      BY Zenon DEF CountsInv
    <3>2. Tally(table[j], g) \in Nat
      BY <3>1 DEF Tally, IsTable
    <3> QED BY <3>2, Zenon DEF Tally, Grams
  <2>5. Tally(table[j], g)' <= Cardinality(At(g, Own(j, g)))'
    BY <2>1, <2>2, <2>3, <2>4
  <2>6. Exact(j)' => Tally(table[j], g)' = Cardinality(At(g, Own(j, g)))'
    <3>1. Exact(j)' => Exact(j) /\ Own(j, g)' = Own(j, g)
      OBVIOUS
    <3> QED BY <2>1, <2>2, <2>4, <3>1, Zenon
  <2> QED BY <2>5, <2>6, Zenon DEF Fair
<1>3. \A j \in {Main} \cup Jobs : IsTable(table[j])' /\ Grams(table[j])' \subseteq TrueGrams'
  BY <1>1, Zenon DEF CountsInv, IsTable, Grams
<1> QED BY <1>1, <1>2, <1>3, Zenon DEF CountsInv

(* The places that tallies stand for become no fewer, and where they are   *)
(* exact, they stay.                                                       *)
Calm == \A j \in {Main} \cup Jobs : \A g :
          /\ Own(j, g) \subseteq Own(j, g)'
          /\ Exact(j)' => Exact(j) /\ Own(j, g)' = Own(j, g)

(* Of what the texts say, nothing depends on the stage.                    *)
LEMMA RoomStays ==
  ASSUME cfg' = cfg
  PROVE  Room' = Room
BY StaticTruth, Zenon DEF Room

(* While every thread is idle, a tally stays calm if main's does.          *)
LEMMA CalmIdle ==
  ASSUME cfg' = cfg, thread' = thread, \A i \in Jobs : thread[i] = "none",
         Main \notin Jobs, Serially \subseteq Serially',
         Smooth' => Smooth /\ Serially' = Serially
  PROVE  Calm
<1>1. \A i \in Jobs : From(i) = {} /\ From(i)' = {}
  BY Zenon DEF From
<1>2. ASSUME NEW j \in {Main} \cup Jobs, NEW g
      PROVE  /\ Own(j, g) \subseteq Own(j, g)'
             /\ Exact(j)' => Exact(j) /\ Own(j, g)' = Own(j, g)
  <2>1. /\ Own(Main, g) = Serially /\ \A i \in Jobs : i # Main => Own(i, g) = From(i)
    BY OwnApart
  <2>2. /\ Own(Main, g)' = Serially' /\ \A i \in Jobs : i # Main => Own(i, g)' = From(i)'
    <3>1. \A i \in Jobs : thread'[i] = "none"
      OBVIOUS
    <3> QED BY <3>1, OwnApartNext
  <2>3. Exact(j)' => Exact(j) /\ Smooth'
    BY Zenon DEF Exact
  <2>4. CASE j = Main
    BY <2>1, <2>2, <2>3, <2>4, Zenon
  <2>5. CASE j # Main
    <3>1. j \in Jobs
      BY <2>5, Zenon
    <3> QED BY <1>1, <2>1, <2>2, <2>3, <2>5, <3>1, Zenon
  <2> QED BY <2>4, <2>5
<1> QED BY <1>2, Zenon DEF Calm

(* So it does before main takes counts over.                               *)
LEMMA CalmApart ==
  ASSUME pc \notin Past, pc' \notin Past, Main \notin Jobs, Serially' = Serially,
         \A i \in Jobs : From(i) \subseteq From(i)',
         \A i \in Jobs : thread'[i] # "failed" => From(i)' = From(i) /\ thread[i] # "failed",
         Smooth' => Smooth
  PROVE  Calm
<1>1. ASSUME NEW j \in {Main} \cup Jobs, NEW g
      PROVE  /\ Own(j, g) \subseteq Own(j, g)'
             /\ Exact(j)' => Exact(j) /\ Own(j, g)' = Own(j, g)
  <2>1. /\ Own(Main, g) = Serially /\ \A i \in Jobs : i # Main => Own(i, g) = From(i)
    BY OwnApart
  <2>2. /\ Own(Main, g)' = Serially' /\ \A i \in Jobs : i # Main => Own(i, g)' = From(i)'
    BY OwnApartNext
  <2>3. CASE j = Main
    <3>1. Exact(j)' => Exact(j)
      BY <2>3, Zenon DEF Exact
    <3> QED BY <2>1, <2>2, <2>3, <3>1, Zenon
  <2>4. CASE j # Main
    <3>1. j \in Jobs
      BY <2>4, Zenon
    <3>2. Exact(j)' => Exact(j) /\ thread'[j] # "failed"
      BY <2>4, <3>1, Zenon DEF Exact
    <3> QED BY <2>1, <2>2, <2>4, <3>1, <3>2, Zenon
  <2> QED BY <2>3, <2>4
<1> QED BY <1>1, Zenon DEF Calm

(* And when nothing that counts has changed.                               *)
LEMMA CalmLater ==
  ASSUME cfg' = cfg, UNCHANGED counting, pc \in Past, pc' \in Past, Smooth' => Smooth
  PROVE  Calm
<1>1. UNCHANGED <<cur, thread, todo, table, spoilt>>
  BY Zenon DEF counting
<1>2. \A i, g : Taken(i, g)' <=> Taken(i, g)
  BY <1>1, Zenon DEF Taken, Grams
<1>3. \A i : From(i)' = From(i)
  BY <1>1, Static, Zenon DEF From
<1>4. Serially' = Serially
  <2>1. pc \notin {"start", "tokens"} /\ pc' \notin {"start", "tokens"}
    BY DEF Past
  <2> QED BY <1>1, <2>1, Static, Zenon DEF Serially
<1>5. \A j, g : Own(j, g)' = Own(j, g)
  <2>1. ASSUME NEW j, NEW g PROVE Own(j, g)' = Own(j, g)
    <3>1. {i \in Jobs : Taken(i, g)'} = {i \in Jobs : Taken(i, g)}
      BY <1>2, Zenon
    <3>2. UNION {From(i)' : i \in {i \in Jobs : Taken(i, g)'}}
            = UNION {From(i) : i \in {i \in Jobs : Taken(i, g)}}
      BY <1>3, <3>1, Zenon
    <3>3. Taken(j, g)' <=> Taken(j, g)
      BY <1>2, Zenon
    <3>4. From(j)' = From(j)
      BY <1>3, Zenon
    <3> QED BY <1>4, <3>2, <3>3, <3>4, Zenon DEF Own
  <2> QED BY <2>1, Zenon
<1>6. \A j : Exact(j)' => Exact(j)
  BY <1>1, Zenon DEF Exact
<1> QED BY <1>5, <1>6, Zenon DEF Calm

(* The steps that leave the tables alone.                                  *)
LEMMA CountsCalmStep ==
  ASSUME ShapeInv, StagesInv, JobsInv, CountsInv,
         \/ Start \/ Token \/ Tokens \/ Online \/ Exhausted \/ Spawn \/ Inlined \/ Spawned
         \/ Join \/ Counted \/ Context \/ Contexts \/ Edge \/ Done
         \/ \E j \in Jobs : OutOfMemory(j)
  PROVE  CountsInv'
<1>1. cfg \in Configs /\ cfg' = cfg /\ table' = table
  BY Zenon DEF ShapeInv, Start, Token, Tokens, Online, Exhausted, Spawn, Inlined, Spawned,
     Join, Counted, Context, Contexts, Edge, Done, OutOfMemory, counting, result
<1>2. /\ Whole' = Whole /\ Stream' = Stream /\ NJobs' = NJobs /\ \A j : Mine(j)' = Mine(j)
      /\ Room' = Room
  BY <1>1, Static, RoomStays
<1>3. Main \notin Jobs /\ Main \in Threads /\ Jobs \subseteq Threads
  BY Numbers DEF Threads
<1>4. cfg.mode \in {"online", "counted"}
  BY <1>1, CfgFacts
<1>5. pc \in {"start", "tokens"} => Serially = {}
  BY Zenon DEF Serially
<1>6. ASSUME \/ Start \/ Token \/ Tokens \/ Online \/ Exhausted
             \/ (Counted /\ pc = "serial")
      PROVE  Calm
  <2>1. thread' = thread /\ \A i \in Jobs : thread[i] = "none"
    <3>1. thread' = thread
      BY <1>6, Zenon DEF Start, Token, Tokens, Online, Exhausted, Counted, counting, result
    <3>2. pc \in {"start", "tokens", "online", "serial"}
      BY <1>6, Zenon DEF Start, Token, Tokens, Online, Exhausted
    <3> QED BY <1>4, <3>1, <3>2, Zenon DEF StagesInv, Idle
  <2>2. Serially \subseteq Serially' /\ (Smooth' => Smooth /\ Serially' = Serially)
    <3>1. CASE Start
      <4>1. pc = "start" /\ spoilt' = spoilt /\ (cfg.mode = "online" \/ pc' = "tokens")
        BY <3>1, Zenon DEF Start
      <4> QED BY <1>1, <1>2, <1>5, <4>1 DEF Smooth, Serially
    <3>2. CASE Token
      <4>1. pc = "tokens" /\ spoilt' = spoilt /\ pc' \in {"tokens", "failed"}
        BY <3>2, Zenon DEF Token, counting
      <4> QED BY <1>1, <1>2, <1>5, <4>1 DEF Smooth, Serially
    <3>3. CASE Tokens
      <4>1. pc = "tokens" /\ spoilt' = spoilt
        BY <3>3, Zenon DEF Tokens
      <4>2. NJobs = 1 => todo'[Main] = Whole
        BY <1>3, <3>3 DEF Tokens, Whole, ShapeInv
      <4>3. Serially' = {}
        <5>1. NJobs = 1 => Whole \ todo'[Main] = {}
          BY <4>2, Zenon
        <5> QED BY <1>2, <5>1, Zenon DEF Serially
      <4>4. Smooth' => Smooth
        BY <1>1, <1>2, <4>1 DEF Smooth
      <4> QED BY <1>5, <4>1, <4>3, <4>4, Zenon
    <3>4. CASE Online
      <4>1. /\ pc = "online" /\ pc' \in {"online", "done"} /\ spoilt' = spoilt
            /\ todo' = todo \/ \E p : todo' = [todo EXCEPT ![Main] = @ \ {p}]
        BY <3>4, Zenon DEF Online
      <4>2. todo'[Main] \subseteq todo[Main] /\ cfg.mode = "online"
        BY <1>3, <1>4, <4>1 DEF ShapeInv, StagesInv
      <4>3. pc' \notin {"start", "tokens"}
        BY <4>1
      <4>4. Serially \subseteq Serially'
        BY <1>2, <4>2, <4>3, Zenon DEF Serially
      <4>5. ~Smooth'
        BY <1>1, <4>2, Zenon DEF Smooth
      <4> QED BY <4>4, <4>5
    <3>5. CASE Exhausted
      <4>1. pc = "serial" /\ pc' = "failed" /\ todo' = todo
        BY <3>5, Zenon DEF Exhausted, counting
      <4>2. Serially' = Serially
        BY <1>2, <4>1 DEF Serially
      <4> QED BY <4>1, <4>2 DEF Smooth
    <3>6. CASE Counted /\ pc = "serial"
      <4>1. pc' \in {"failed", "contexts"} /\ todo' = todo /\ spoilt' = spoilt
        BY <3>6, Zenon DEF Counted, counting
      <4>2. Serially' = Serially
        BY <1>2, <3>6, <4>1 DEF Serially
      <4> QED BY <1>1, <1>2, <3>6, <4>1, <4>2 DEF Smooth
    <3> QED BY <1>6, <3>1, <3>2, <3>3, <3>4, <3>5, <3>6
  <2> QED BY <1>1, <1>3, <2>1, <2>2, CalmIdle
<1>7. ASSUME \/ Spawn \/ Inlined \/ Spawned \/ Join \/ \E j \in Jobs : OutOfMemory(j)
      PROVE  Calm
  <2>1. /\ pc \notin Past /\ pc' \notin Past /\ NJobs # 1 /\ spoilt' = spoilt
        /\ Smooth' => Smooth
    <3>1. CASE Spawn \/ Inlined \/ Spawned \/ Join
      <4>1. /\ pc \in {"spawn", "inline", "join"}
            /\ pc' \in {"spawn", "inline", "join", "crashed"} /\ spoilt' = spoilt
        BY <3>1, Zenon DEF Spawn, Inlined, Spawned, Join
      <4>2. NJobs # 1
        BY <4>1 DEF StagesInv
      <4>3. Smooth' => Smooth
        BY <1>1, <1>2, <4>1 DEF Smooth
      <4> QED BY <4>1, <4>2, <4>3 DEF Past
    <3>2. CASE \E j \in Jobs : OutOfMemory(j)
      <4>1. PICK j \in Jobs : OutOfMemory(j)
        BY <3>2
      <4>2. /\ thread[j] \in {"running", "inline"} /\ todo[j] # {} /\ pc' = pc
            /\ spoilt' = spoilt
        BY <4>1, Zenon DEF OutOfMemory
      <4>3. pc \notin Past
        BY <4>2 DEF JobsInv, JobInv, Past, Ready
      <4>4. NJobs # 1
        BY <4>2 DEF StagesInv, Idle
      <4>5. Smooth' => Smooth
        BY <1>1, <1>2, <4>2, Zenon DEF Smooth
      <4> QED BY <4>2, <4>3, <4>4, <4>5
    <3> QED BY <1>7, <3>1, <3>2
  <2>2. Serially' = Serially
    BY <1>2, <2>1, Zenon DEF Serially
  <2>3. ASSUME NEW i \in Jobs
        PROVE  /\ From(i) \subseteq From(i)'
               /\ thread'[i] # "failed" => From(i)' = From(i) /\ thread[i] # "failed"
    <3>1. CASE Spawn
      <4>1. /\ cur \in Jobs /\ thread[cur] = "none"
            /\ pc = "spawn" /\ cur <= NJobs
        <5>1. pc = "spawn" /\ cur <= NJobs /\ cur \in 1..(NJobs + 1)
          BY <3>1 DEF Spawn, StagesInv
        <5>2. cur \in Jobs /\ cur >= cur
          <6>1. NJobs \in Jobs /\ Jobs = 1..MaxJobs /\ MaxJobs \in Nat
            BY <1>1, Ranges, Numbers
          <6> QED BY <5>1, <6>1
        <5> QED BY <5>1, <5>2 DEF JobsInv, JobInv
      <4>2. /\ i # cur => thread'[i] = thread[i] /\ todo'[i] = todo[i]
            /\ todo'[cur] = Mine(cur) /\ thread'[cur] \in {"running", "inline"}
        BY <1>3, <3>1, <4>1 DEF Spawn, ShapeInv, Mine
      <4>3. CASE i = cur
        <5>1. From(i) = {} /\ Mine(i)' \ todo'[i] = {}
          BY <1>2, <4>1, <4>2, <4>3, Zenon DEF From
        <5> QED BY <4>1, <4>3, <5>1 DEF From
      <4>4. CASE i # cur
        BY <1>2, <4>2, <4>4, Zenon DEF From
      <4> QED BY <4>3, <4>4
    <3>2. CASE Inlined \/ Spawned \/ Join
      <4>1. thread' = thread /\ todo' = todo
        BY <3>2, Zenon DEF Inlined, Spawned, Join
      <4> QED BY <1>2, <4>1, Zenon DEF From
    <3>3. CASE \E j \in Jobs : OutOfMemory(j)
      <4>1. PICK j \in Jobs : OutOfMemory(j)
        BY <3>3
      <4>2. /\ i # j => thread'[i] = thread[i] /\ todo'[i] = todo[i]
            /\ todo'[j] = {} /\ thread'[j] = "failed"
        BY <1>3, <4>1 DEF OutOfMemory, ShapeInv
      <4>3. CASE i = j
        BY <1>2, <4>2, <4>3 DEF From
      <4>4. CASE i # j
        BY <1>2, <4>2, <4>4, Zenon DEF From
      <4> QED BY <4>3, <4>4
    <3> QED BY <1>7, <3>1, <3>2, <3>3
  <2> QED BY <1>3, <2>1, <2>2, <2>3, CalmApart
<1>8. ASSUME (Counted /\ pc # "serial") \/ Context \/ Contexts \/ Edge \/ Done PROVE Calm
  <2>1. UNCHANGED counting /\ pc \in Past /\ pc' \in Past
    <3>1. UNCHANGED counting
      BY <1>8, Zenon DEF Counted, Context, Contexts, Edge, Done
    <3>2. /\ pc \in {"merge", "contexts", "edges", "done"}
          /\ pc' \in {"failed", "contexts", "edges", "done"}
      BY <1>8, Zenon DEF Counted, Context, Contexts, Edge, Done
    <3> QED BY <3>1, <3>2 DEF Past
  <2>2. Smooth' => Smooth
    <3>1. spoilt' = spoilt /\ pc \notin {"failed", "crashed"}
      BY <1>8, <2>1 DEF counting, Counted, Context, Contexts, Edge, Done
    <3> QED BY <1>1, <1>2, <3>1, Zenon DEF Smooth
  <2> QED BY <1>1, <2>1, <2>2, CalmLater
<1>9. Calm
  BY <1>6, <1>7, <1>8, Zenon
<1>10. \A j \in {Main} \cup Jobs : \A g :
         /\ Own(j, g) \subseteq Own(j, g)'
         /\ Exact(j)' => Exact(j) /\ Own(j, g)' = Own(j, g)
  BY <1>9, Zenon DEF Calm
<1> QED BY <1>1, <1>10, CountsCalm

(* A thread counts the gram at its next place.                             *)
LEMMA CountsPlace ==
  ASSUME cfg \in Configs, CountsInv, cfg' = cfg, NEW j \in {Main} \cup Jobs, Main \notin Jobs,
         cfg.mode = "counted", NEW p \in Whole, NEW S, S \subseteq Whole, p \notin S,
         NEW soft \in {0, cfg.soft},
         \A g : Own(j, g) = S /\ Own(j, g)' = S \cup {p},
         \A i \in {Main} \cup Jobs : i # j =>
           table'[i] = table[i] /\ \A g : Own(i, g)' = Own(i, g),
         \A i \in {Main} \cup Jobs : Exact(i)' => Exact(i),
         \/ \E u \in Ref(table[j], GramAt(p), soft) : table'[j] = Plus(u, GramAt(p), 1)
         \/ Full(table[j], GramAt(p), soft) /\ soft = cfg.soft /\ table'[j] = table[j]
  PROVE  CountsInv'
<1> DEFINE g == GramAt(p)
<1>1. /\ TrueGrams' = TrueGrams /\ \A q : GramAt(q)' = GramAt(q)
  BY Static, StaticTruth
<1>2. g \in TrueGrams /\ g \in Gram /\ cfg.soft \in Nat /\ soft \in Nat
  <2>1. p \in Real
    BY DEF Real
  <2>2. cfg.soft \in Nat
    BY CfgFacts
  <2> QED BY <2>1, <2>2, OccursAt
<1>3. \A h, T : At(h, T)' = At(h, T')
  BY <1>1, Zenon DEF At
<1>4. ASSUME NEW i \in {Main} \cup Jobs, i # j
      PROVE  /\ IsTable(table'[i]) /\ Grams(table'[i]) \subseteq TrueGrams
             /\ \A h \in TrueGrams : Fair(i, h)'
  <2>1. table'[i] = table[i] /\ \A h : Own(i, h)' = Own(i, h)
    BY <1>4
  <2>2. IsTable(table[i]) /\ Grams(table[i]) \subseteq TrueGrams /\ \A h \in TrueGrams : Fair(i, h)
    BY Zenon DEF CountsInv
  <2>3. Exact(i)' => Exact(i)
    OBVIOUS
  <2>4. ASSUME NEW h \in TrueGrams PROVE Fair(i, h)'
    <3>1. At(h, Own(i, h))' = At(h, Own(i, h))
      BY <1>1, <2>1, Zenon DEF At
    <3>2. Tally(table[i], h)' = Tally(table[i], h)
      BY <2>1, Zenon DEF Tally, Grams
    <3> QED BY <2>2, <2>3, <3>1, <3>2, Zenon DEF Fair
  <2> QED BY <2>1, <2>2, <2>4, Zenon
<1>5. /\ IsTable(table'[j]) /\ Grams(table'[j]) \subseteq TrueGrams
      /\ \A h \in TrueGrams : Fair(j, h)'
  <2>1. IsTable(table[j]) /\ Grams(table[j]) \subseteq TrueGrams
    BY Zenon DEF CountsInv
  <2>2. IsFiniteSet(S) /\ IsFiniteSet(S \cup {p})
    BY OwnIn, FS_Subset, FS_AddElement
  <2>3. \A h \in TrueGrams : /\ Tally(table[j], h) <= Cardinality(At(h, S))
                             /\ Exact(j) => Tally(table[j], h) = Cardinality(At(h, S))
    BY Zenon DEF CountsInv, Fair
  <2>4. \A h : At(h, Own(j, h))' = At(h, S \cup {p})
    <3>1. \A h : Own(j, h)' = S \cup {p}
      OBVIOUS
    <3> QED BY <1>1, <3>1, Zenon DEF At
  <2>5. Exact(j)' => Exact(j) /\ ~Full(table[j], g, soft)
    <3>1. ~Full(table[j], g, 0)
      BY Zenon DEF Full
    <3>2. Room => ~Full(table[j], g, cfg.soft)
      BY <1>2, <2>1, NotFull
    <3>3. Exact(j)' => Exact(j) /\ Room
      BY Zenon DEF Exact, Smooth
    <3> QED BY <3>1, <3>2, <3>3
  <2>6. CASE \E u \in Ref(table[j], g, soft) : table'[j] = Plus(u, g, 1)
    <3>1. PICK u \in Ref(table[j], g, soft) : table'[j] = Plus(u, g, 1)
      BY <2>6
    <3> DEFINE v == Plus(u, g, 1)
    <3>2. IsTable(v) /\ Grams(v) \subseteq Grams(table[j]) \cup {g}
      <4>1. 1 \in Nat \ {0}
        OBVIOUS
      <4> QED BY <1>2, <2>1, <4>1, Grow
    <3>3. ASSUME NEW h \in TrueGrams PROVE Fair(j, h)'
      <4>1. Tally(table[j], h) <= Cardinality(At(h, S))
        BY <2>3
      <4>2. /\ Tally(v, h) <= Cardinality(At(h, S \cup {p}))
            /\ ~Full(table[j], g, soft) /\ Tally(table[j], h) = Cardinality(At(h, S))
                 => Tally(v, h) = Cardinality(At(h, S \cup {p}))
        BY <1>2, <2>1, <2>2, <4>1, TalliedPlace
      <4>3. Tally(table[j], h)' = Tally(v, h)
        BY <3>1, Zenon DEF Tally, Grams
      <4>4. Cardinality(At(h, Own(j, h)))' = Cardinality(At(h, S \cup {p}))
        BY <2>4, Zenon
      <4>5. Exact(j)' => Tally(v, h) = Cardinality(At(h, S \cup {p}))
        BY <2>3, <2>5, <4>2, Zenon
      <4> QED BY <4>2, <4>3, <4>4, <4>5, Zenon DEF Fair
    <3>4. Grams(table'[j]) \subseteq TrueGrams /\ IsTable(table'[j])
      <4> HIDE DEF g, v
      <4> QED BY <1>2, <2>1, <3>1, <3>2 DEF v
    <3> QED BY <3>3, <3>4
  <2>7. CASE Full(table[j], g, soft) /\ table'[j] = table[j]
    <3>1. ASSUME NEW h \in TrueGrams PROVE Fair(j, h)'
      <4>1. /\ Cardinality(At(h, S)) \in Nat /\ Cardinality(At(h, S \cup {p})) \in Nat
            /\ Cardinality(At(h, S)) <= Cardinality(At(h, S \cup {p}))
        BY <2>2, AtFewer
      <4>2. Tally(table[j], h) <= Cardinality(At(h, S)) /\ Tally(table[j], h) \in Nat
        BY <2>1, <2>3 DEF Tally, IsTable
      <4>3. Tally(table[j], h) <= Cardinality(At(h, S \cup {p}))
        BY <4>1, <4>2
      <4>4. Tally(table[j], h)' = Tally(table[j], h)
        BY <2>7, Zenon DEF Tally, Grams
      <4>5. Cardinality(At(h, Own(j, h)))' = Cardinality(At(h, S \cup {p}))
        BY <2>4, Zenon
      <4>6. ~Exact(j)'
        BY <2>5, <2>7, Zenon
      <4> QED BY <4>3, <4>4, <4>5, <4>6, Zenon DEF Fair
    <3> QED BY <2>1, <2>7, <3>1, Zenon
  <2> QED BY <2>6, <2>7, Zenon
<1>6. \A i \in {Main} \cup Jobs :
        /\ IsTable(table'[i]) /\ Grams(table'[i]) \subseteq TrueGrams
        /\ \A h \in TrueGrams : Fair(i, h)'
  BY <1>4, <1>5, Zenon
<1>7. \A i \in {Main} \cup Jobs : IsTable(table[i])' /\ Grams(table[i])' \subseteq TrueGrams'
  BY <1>1, <1>6, Zenon DEF IsTable, Grams
<1> QED BY <1>1, <1>6, <1>7, Zenon DEF CountsInv

(* Counting in one thread.                                                 *)
LEMMA CountsSerial ==
  ASSUME ShapeInv, StagesInv, JobsInv, CountsInv, Serial
  PROVE  CountsInv'
<1> DEFINE p == First(todo[Main])
<1>1. /\ cfg \in Configs /\ cfg' = cfg /\ pc = "serial" /\ pc' = pc /\ thread' = thread
      /\ spoilt' = spoilt /\ todo[Main] # {}
  BY Zenon DEF ShapeInv, Serial, result
<1>2. /\ Whole' = Whole /\ NJobs' = NJobs /\ \A j : Mine(j)' = Mine(j) /\ Room' = Room
  BY <1>1, Static, RoomStays
<1>3. /\ Main \notin Jobs /\ Main \in Threads /\ Jobs \subseteq Threads
      /\ Threads = {Main} \cup Jobs
  BY Numbers DEF Threads
<1>4. NJobs = 1 /\ cfg.mode = "counted" /\ \A i \in Jobs : thread[i] = "none"
  <2>1. cfg.mode \in {"online", "counted"}
    BY <1>1, CfgFacts
  <2> QED BY <1>1, <2>1, Zenon DEF StagesInv, Idle
<1>5. todo[Main] \subseteq Whole /\ todo[Main] \subseteq Nat \X Nat
  <2>1. todo[Main] \subseteq Whole
    BY <1>4 DEF ShapeInv
  <2> QED BY <1>1, <2>1, PlacesAreFinite
<1>6. p \in todo[Main]
  BY <1>1, <1>5, FirstIn
<1>7. /\ todo' = [todo EXCEPT ![Main] = @ \ {p}]
      /\ \/ \E t \in Ref(table[Main], GramAt(p), cfg.soft) :
              table' = [table EXCEPT ![Main] = Plus(t, GramAt(p), 1)]
         \/ Full(table[Main], GramAt(p), cfg.soft) /\ table' = table
  BY Zenon DEF Serial
<1> HIDE DEF p
<1> DEFINE S == Whole \ todo[Main]
<1>8. Serially = S /\ Serially' = S \cup {p}
  <2>1. todo'[Main] = todo[Main] \ {p}
    BY <1>3, <1>7 DEF ShapeInv
  <2>2. Whole \ (todo[Main] \ {p}) = S \cup {p}
    BY <1>5, <1>6
  <2>3. Serially = S /\ Serially' = Whole \ todo'[Main]
    BY <1>1, <1>2, <1>4 DEF Serially
  <2> QED BY <2>1, <2>2, <2>3
<1>9. \A g : Own(Main, g) = S /\ Own(Main, g)' = S \cup {p}
  <2>1. \A i \in Jobs : thread'[i] = "none"
    BY <1>1, <1>4
  <2> QED BY <1>4, <1>8, <2>1, OwnApart, OwnApartNext, Zenon
<1>10. \A i \in {Main} \cup Jobs : i # Main =>
         table'[i] = table[i] /\ \A g : Own(i, g)' = Own(i, g)
  <2>1. ASSUME NEW i \in Jobs PROVE \A g : Own(i, g)' = Own(i, g)
    <3>1. From(i) = {} /\ From(i)' = {}
      BY <1>1, <1>4, Zenon DEF From
    <3> QED BY <1>3, <3>1, Zenon DEF Own
  <2>2. \A i \in Jobs : table'[i] = table[i]
    BY <1>3, <1>7 DEF ShapeInv
  <2> QED BY <2>1, <2>2
<1>11. \A i \in {Main} \cup Jobs : Exact(i)' => Exact(i)
  BY <1>1, <1>2, Zenon DEF Exact, Smooth
<1>12. \/ \E u \in Ref(table[Main], GramAt(p), cfg.soft) : table'[Main] = Plus(u, GramAt(p), 1)
       \/ Full(table[Main], GramAt(p), cfg.soft) /\ table'[Main] = table[Main]
  BY <1>3, <1>7, Zenon DEF ShapeInv
<1>13. p \in Whole /\ S \subseteq Whole /\ p \notin S
  BY <1>5, <1>6
<1> HIDE DEF S
<1> QED BY <1>1, <1>3, <1>4, <1>9, <1>10, <1>11, <1>12, <1>13, CountsPlace

(* Counting in several.                                                    *)
LEMMA CountsCount ==
  ASSUME ShapeInv, StagesInv, JobsInv, CountsInv, NEW j \in Jobs, Count(j)
  PROVE  CountsInv'
<1> DEFINE p == First(todo[j])
<1>1. /\ cfg \in Configs /\ cfg' = cfg /\ pc' = pc /\ thread' = thread
      /\ spoilt' = spoilt /\ todo[j] # {} /\ thread[j] \in {"running", "inline"}
  BY Zenon DEF ShapeInv, Count, result
<1>2. /\ Whole' = Whole /\ NJobs' = NJobs /\ (\A i : Mine(i)' = Mine(i)) /\ Room' = Room
  BY <1>1, Static, RoomStays
<1>3. /\ Main \notin Jobs /\ Main \in Threads /\ Jobs \subseteq Threads
      /\ Threads = {Main} \cup Jobs /\ j # Main
  BY Numbers DEF Threads
<1>4. NJobs # 1 /\ cfg.mode = "counted" /\ pc \notin Past
  <2>1. cfg.mode \in {"online", "counted"}
    BY <1>1, CfgFacts
  <2>2. NJobs # 1 /\ cfg.mode # "online"
    BY <1>1 DEF StagesInv, Idle
  <2>3. pc \notin Past
    BY <1>1 DEF JobsInv, JobInv, Past, Ready
  <2> QED BY <2>1, <2>2, <2>3
<1>5. todo[j] \subseteq Mine(j) /\ todo[j] \subseteq Whole /\ todo[j] \subseteq Nat \X Nat
  <2>1. todo[j] \subseteq Mine(j) /\ Mine(j) \subseteq Whole
    BY <1>1, MineIn DEF ShapeInv
  <2>2. Whole \subseteq Nat \X Nat
    BY <1>1, PlacesAreFinite
  <2> QED BY <2>1, <2>2
<1>6. p \in todo[j]
  BY <1>1, <1>5, FirstIn
<1>7. /\ todo' = [todo EXCEPT ![j] = @ \ {p}]
      /\ \E t \in Ref(table[j], GramAt(p), 0) :
           table' = [table EXCEPT ![j] = Plus(t, GramAt(p), 1)]
  BY Zenon DEF Count
<1> HIDE DEF p
<1> DEFINE S == Mine(j) \ todo[j]
<1>8. From(j) = S /\ From(j)' = S \cup {p} /\ \A i \in Jobs : i # j => From(i)' = From(i)
  <2>1. todo'[j] = todo[j] \ {p} /\ \A i \in Jobs : i # j => todo'[i] = todo[i]
    BY <1>3, <1>7 DEF ShapeInv
  <2>2. Mine(j) \ (todo[j] \ {p}) = S \cup {p}
    BY <1>5, <1>6
  <2>3. From(j) = S /\ From(j)' = Mine(j) \ todo'[j]
    BY <1>1, <1>2 DEF From
  <2>4. \A i \in Jobs : i # j => From(i)' = From(i)
    BY <1>1, <1>2, <2>1, Zenon DEF From
  <2> QED BY <2>1, <2>2, <2>3, <2>4
<1>9. Serially' = Serially
  BY <1>2, <1>4, Zenon DEF Serially
<1>10. /\ \A i \in Jobs : \A g : Own(i, g) = From(i) /\ Own(i, g)' = From(i)'
       /\ \A g : Own(Main, g) = Serially /\ Own(Main, g)' = Serially'
  <2>1. pc' \notin Past
    BY <1>1, <1>4
  <2> QED BY <1>3, <1>4, <2>1, OwnApart, OwnApartNext, Zenon
<1>11. \A g : Own(j, g) = S /\ Own(j, g)' = S \cup {p}
  BY <1>8, <1>10, Zenon
<1>12. \A i \in {Main} \cup Jobs : i # j =>
         table'[i] = table[i] /\ \A g : Own(i, g)' = Own(i, g)
  <2>1. \A i \in {Main} \cup Jobs : i # j => table'[i] = table[i]
    BY <1>3, <1>7 DEF ShapeInv
  <2> QED BY <1>8, <1>9, <1>10, <2>1, Zenon
<1>13. \A i \in {Main} \cup Jobs : Exact(i)' => Exact(i)
  BY <1>1, <1>2, Zenon DEF Exact, Smooth
<1>14. \E u \in Ref(table[j], GramAt(p), 0) : table'[j] = Plus(u, GramAt(p), 1)
  BY <1>3, <1>7, Zenon DEF ShapeInv
<1>15. p \in Whole /\ S \subseteq Whole /\ p \notin S /\ 0 \in {0, cfg.soft}
  <2>1. Mine(j) \subseteq Whole
    BY <1>1, MineIn
  <2> QED BY <1>5, <1>6, <2>1
<1> HIDE DEF S
<1> QED BY <1>1, <1>3, <1>4, <1>11, <1>12, <1>13, <1>14, <1>15, CountsPlace

(* The main thread turns to the next job: of a gram that this job has not  *)
(* counted, it takes the places over there and then.                       *)
LEMMA CountsTurn ==
  ASSUME cfg \in Configs, CountsInv, cfg' = cfg, Main \notin Jobs, NEW c \in Nat,
         table' = table, thread' = thread, todo' = todo, spoilt' = spoilt,
         Serially' = Serially, pc' \in Past, pc # "failed", pc # "crashed",
         pc' = "failed" \/ \A i \in Jobs : thread[i] # "failed",
         \A i \in Jobs : \A g :
           Taken(i, g)' <=> Taken(i, g) \/ (i = c /\ g \notin Grams(table[c]))
  PROVE  CountsInv'
<1>1. /\ TrueGrams' = TrueGrams /\ (\A q : GramAt(q)' = GramAt(q)) /\ Room' = Room
      /\ \A i : Mine(i)' = Mine(i)
  BY Static, StaticTruth, RoomStays
<1>2. \A i : From(i)' = From(i)
  BY <1>1, Zenon DEF From
<1>3. Smooth' => Smooth
  BY <1>1, Zenon DEF Smooth
<1>4. pc' = "failed" => ~Smooth'
  BY Zenon DEF Smooth
<1>5. \A i \in {Main} \cup Jobs : \A g : Tally(table[i], g)' = Tally(table[i], g)
  BY Zenon DEF Tally, Grams
<1>6. \A i \in {Main} \cup Jobs : \A g :
        /\ IsFiniteSet(Own(i, g)) /\ IsFiniteSet(Own(i, g)')
        /\ Cardinality(At(g, Own(i, g))) \in Nat
        /\ At(g, Own(i, g))' = At(g, Own(i, g)')
  <2>1. ASSUME NEW i \in {Main} \cup Jobs, NEW g
        PROVE  /\ IsFiniteSet(Own(i, g)) /\ IsFiniteSet(Own(i, g)')
               /\ Cardinality(At(g, Own(i, g))) \in Nat
               /\ At(g, Own(i, g))' = At(g, Own(i, g)')
    <3>1. IsFiniteSet(Whole) /\ Own(i, g) \subseteq Whole /\ Own(i, g)' \subseteq Whole
      BY OwnIn, OwnInNext
    <3>2. IsFiniteSet(Own(i, g)) /\ IsFiniteSet(Own(i, g)')
      BY <3>1, FS_Subset
    <3>3. Cardinality(At(g, Own(i, g))) \in Nat
      BY <3>2, AtFewer
    <3>4. At(g, Own(i, g))' = At(g, Own(i, g)')
      BY <1>1, Zenon DEF At
    <3> QED BY <3>2, <3>3, <3>4
  <2> QED BY <2>1
<1>7. \A i \in {Main} \cup Jobs : \A g \in TrueGrams :
        /\ Tally(table[i], g) <= Cardinality(At(g, Own(i, g)))
        /\ Exact(i) => Tally(table[i], g) = Cardinality(At(g, Own(i, g)))
        /\ Tally(table[i], g) \in Nat
  <2>1. \A i \in {Main} \cup Jobs : IsTable(table[i]) /\ \A g \in TrueGrams : Fair(i, g)
    BY Zenon DEF CountsInv
  <2>2. \A t : IsTable(t) => \A g : Tally(t, g) \in Nat
    BY DEF IsTable, Tally
  <2> QED BY <2>1, <2>2, Zenon DEF Fair
<1>8. ASSUME NEW g \in TrueGrams PROVE Fair(Main, g)'
  <2>1. /\ Own(Main, g) = Serially \cup UNION {From(i) : i \in {i \in Jobs : Taken(i, g)}}
        /\ Own(Main, g)' = Serially \cup UNION {From(i) : i \in {i \in Jobs : Taken(i, g)'}}
    <3>1. UNION {From(i)' : i \in {i \in Jobs : Taken(i, g)'}}
            = UNION {From(i) : i \in {i \in Jobs : Taken(i, g)'}}
      BY <1>2, Zenon
    <3> QED BY <3>1, Zenon DEF Own
  <2>2. Own(Main, g) \subseteq Own(Main, g)'
    BY <2>1, Zenon
  <2>3. Cardinality(At(g, Own(Main, g))) <= Cardinality(At(g, Own(Main, g)'))
    BY <1>6, <2>2, AtFewer
  <2>4. Tally(table[Main], g)' <= Cardinality(At(g, Own(Main, g)))'
    <3>1. Cardinality(At(g, Own(Main, g)')) \in Nat
      BY <1>6, AtFewer
    <3> QED BY <1>5, <1>6, <1>7, <2>3, <3>1
  <2>5. ASSUME Exact(Main)'
        PROVE  At(g, Own(Main, g)') = At(g, Own(Main, g)) /\ Exact(Main)
    <3>1. Smooth' /\ Smooth /\ pc' # "failed" /\ \A i \in Jobs : thread[i] # "failed"
      BY <1>3, <1>4, <2>5, Zenon DEF Exact
    <3>2. ASSUME c \in Jobs, g \notin Grams(table[c]), ~Taken(c, g)
          PROVE  At(g, From(c)) = {}
      <4>1. Exact(c) /\ Own(c, g) = From(c)
        BY <3>1, <3>2, Zenon DEF Exact, Own
      <4>2. Tally(table[c], g) = 0
        BY <3>2, Zenon DEF Tally
      <4>3. Cardinality(At(g, From(c))) = 0 /\ IsFiniteSet(From(c))
        BY <1>6, <1>7, <3>2, <4>1, <4>2
      <4>4. IsFiniteSet(At(g, From(c)))
        BY <4>3, AtFewer
      <4> QED BY <4>3, <4>4, FS_EmptySet
    <3>3. ASSUME NEW q \in Own(Main, g)', GramAt(q) = g PROVE q \in Own(Main, g)
      <4>1. CASE q \in Serially
        BY <2>1, <4>1, Zenon
      <4>2. CASE \E i \in Jobs : Taken(i, g)' /\ q \in From(i)
        <5>1. PICK i \in Jobs : Taken(i, g)' /\ q \in From(i)
          BY <4>2
        <5>2. CASE Taken(i, g)
          BY <2>1, <5>1, <5>2, Zenon
        <5>3. CASE ~Taken(i, g)
          <6>1. i = c /\ g \notin Grams(table[c])
            BY <5>1, <5>3, Zenon
          <6>2. At(g, From(c)) = {}
            BY <3>2, <5>3, <6>1, Zenon
          <6>3. q \in At(g, From(c))
            BY <3>3, <5>1, <6>1, Zenon DEF At
          <6> QED BY <6>2, <6>3, Zenon
        <5> QED BY <5>2, <5>3
      <4> QED BY <2>1, <3>3, <4>1, <4>2, Zenon
    <3>4. At(g, Own(Main, g)') \subseteq At(g, Own(Main, g))
      BY <3>3, Zenon DEF At
    <3>5. At(g, Own(Main, g)) \subseteq At(g, Own(Main, g)')
      BY <2>2, Zenon DEF At
    <3> QED BY <3>1, <3>4, <3>5 DEF Exact
  <2>6. Exact(Main)' => Tally(table[Main], g)' = Cardinality(At(g, Own(Main, g)))'
    BY <1>5, <1>6, <1>7, <2>5, Zenon
  <2> QED BY <2>4, <2>6, Zenon DEF Fair
<1>9. ASSUME NEW i \in Jobs, NEW g \in TrueGrams PROVE Fair(i, g)'
  <2>1. Exact(i)' => Exact(i)
    BY <1>3, Zenon DEF Exact
  <2>2. CASE Taken(i, g)' <=> Taken(i, g)
    <3>1. Own(i, g)' = Own(i, g)
      BY <1>2, <2>2, Zenon DEF Own
    <3>2. At(g, Own(i, g))' = At(g, Own(i, g))
      BY <1>1, <3>1, Zenon DEF At
    <3>3. Tally(table[i], g)' = Tally(table[i], g)
      BY <1>5
    <3> QED BY <1>7, <2>1, <3>2, <3>3, Zenon DEF Fair
  <2>3. CASE ~(Taken(i, g)' <=> Taken(i, g))
    <3>1. Taken(i, g)' /\ i = c /\ g \notin Grams(table[c])
      BY <2>3, Zenon
    <3>2. Own(i, g)' = {}
      BY <3>1, Zenon DEF Own
    <3>3. Tally(table[i], g)' = 0
      BY <1>5, <3>1, Zenon DEF Tally
    <3>4. Cardinality(At(g, {})) = 0
      <4>1. At(g, {}) = {}
        BY DEF At
      <4> QED BY <4>1, FS_EmptySet
    <3>5. At(g, Own(i, g))' = At(g, {})
      BY <1>6, <3>2, Zenon
    <3>6. Tally(table[i], g)' <= Cardinality(At(g, Own(i, g)))'
      BY <3>3, <3>4, <3>5
    <3> QED BY <3>3, <3>4, <3>5, <3>6, Zenon DEF Fair
  <2> QED BY <2>2, <2>3
<1>10. \A i \in {Main} \cup Jobs : IsTable(table[i])' /\ Grams(table[i])' \subseteq TrueGrams'
  BY <1>1, Zenon DEF CountsInv, IsTable, Grams
<1> QED BY <1>1, <1>8, <1>9, <1>10, Zenon DEF CountsInv

(* All threads have joined, or one has been merged.                        *)
LEMMA CountsJoined ==
  ASSUME ShapeInv, StagesInv, JobsInv, CountsInv, Joined \/ Merged
  PROVE  CountsInv'
<1>1. /\ cfg \in Configs /\ cfg' = cfg /\ table' = table /\ thread' = thread /\ todo' = todo
      /\ spoilt' = spoilt /\ pc \in {"join", "merge"} /\ pc' \in {"failed", "merge"}
      /\ Joined => pc = "join" /\ cur' = 1
      /\ Merged => pc = "merge" /\ pc' = "merge" /\ cur' = cur + 1 /\ Grams(table[cur]) = {}
  BY Zenon DEF ShapeInv, Joined, Merged, result
<1>2. Main \notin Jobs /\ cur \in Nat \ {0} /\ \A i \in Jobs : i \in Nat \ {0}
  BY Numbers DEF ShapeInv
<1>3. pc' \in Past /\ pc # "failed" /\ pc # "crashed"
  BY <1>1 DEF Past
<1>4. Serially' = Serially
  <2>1. NJobs # 1
    BY <1>1 DEF StagesInv
  <2>2. NJobs' = NJobs
    BY <1>1, Static
  <2> QED BY <2>1, <2>2, Zenon DEF Serially
<1>5. pc' = "failed" \/ \A i \in Jobs : thread[i] # "failed"
  <2>1. CASE Joined
    <3>1. pc' = "failed" \/ \A i \in 1..NJobs : thread[i] # "failed"
      BY <2>1, Zenon DEF Joined
    <3>2. \A i \in Jobs : i \in 1..NJobs \/ thread[i] = "none"
      <4>1. NJobs \in Nat
        BY <1>1, Ranges, Numbers
      <4>2. \A i \in Jobs : i > NJobs => thread[i] = "none"
        BY Zenon DEF JobsInv, JobInv
      <4> QED BY <1>2, <4>1, <4>2
    <3> QED BY <3>1, <3>2
  <2>2. CASE Merged
    BY <1>1, <2>2 DEF JobsInv, JobInv
  <2> QED BY <2>1, <2>2
<1>6. ASSUME NEW i \in Jobs, NEW g
      PROVE  Taken(i, g)' <=> Taken(i, g) \/ (i = cur' /\ g \notin Grams(table[cur']))
  <2>1. i \in Nat \ {0}
    BY <1>2
  <2>2. Taken(i, g)' <=> i < cur' \/ (i = cur' /\ g \notin Grams(table[cur']))
    BY <1>1, <1>3, Zenon DEF Taken, Grams
  <2>3. CASE Joined
    <3>1. ~Taken(i, g) /\ ~(i < cur')
      BY <1>1, <2>1, <2>3 DEF Taken, Past
    <3> QED BY <2>2, <3>1
  <2>4. CASE Merged
    <3>1. i < cur' <=> i < cur \/ i = cur
      BY <1>1, <1>2, <2>1, <2>4
    <3>2. Taken(i, g) <=> i < cur \/ i = cur
      BY <1>1, <2>4 DEF Taken, Past
    <3> QED BY <2>2, <3>1, <3>2
  <2> QED BY <2>3, <2>4
<1>7. cur' \in Nat
  BY <1>1, <1>2
<1> QED BY <1>1, <1>2, <1>3, <1>4, <1>5, <1>6, <1>7, CountsTurn

(* Merging: who counts what, before and after.                             *)
LEMMA MergeFacts ==
  ASSUME ShapeInv, StagesInv, JobsInv, Merge
  PROVE  /\ cfg \in Configs /\ cfg' = cfg /\ pc = "merge" /\ pc' = pc /\ cur' = cur
         /\ thread' = thread /\ todo' = todo /\ cur \in Jobs /\ Main \notin Jobs
         /\ cfg.mode = "counted" /\ Serially = {} /\ Serially' = {}
         /\ \A i \in Jobs : thread[i] # "failed"
         /\ \A i : From(i)' = From(i)
         /\ \A i \in Jobs : \A g :
              /\ Taken(i, g) <=> i < cur \/ (i = cur /\ g \notin Grams(table[cur]))
              /\ Taken(i, g)' <=> i < cur \/ (i = cur /\ g \notin Grams(table'[cur]))
              /\ i = cur => ~(i < cur)
<1>1. /\ cfg \in Configs /\ cfg' = cfg /\ pc = "merge" /\ pc' = pc /\ cur' = cur
      /\ thread' = thread /\ todo' = todo /\ cur <= NJobs
  BY Zenon DEF ShapeInv, Merge, result
<1>2. cur \in Jobs /\ Main \notin Jobs
  <2>1. NJobs \in Jobs /\ Jobs = 1..MaxJobs /\ MaxJobs \in Nat /\ Main = 0
    BY <1>1, Ranges, Numbers
  <2>2. cur \in 1..(NJobs + 1)
    BY <1>1 DEF StagesInv
  <2> QED BY <1>1, <2>1, <2>2
<1>3. cfg.mode = "counted" /\ NJobs # 1
  <2>1. cfg.mode \in {"online", "counted"}
    BY <1>1, CfgFacts
  <2> QED BY <1>1, <2>1 DEF StagesInv
<1>4. Serially = {} /\ Serially' = {}
  <2>1. NJobs' = NJobs
    BY <1>1, Static
  <2> QED BY <1>3, <2>1, Zenon DEF Serially
<1>5. \A i \in Jobs : thread[i] # "failed"
  BY <1>1 DEF JobsInv, JobInv
<1>6. \A i : From(i)' = From(i)
  <2>1. \A i : Mine(i)' = Mine(i)
    BY <1>1, Static
  <2> QED BY <1>1, <2>1, Zenon DEF From
<1>7. ASSUME NEW i \in Jobs, NEW g
      PROVE  /\ Taken(i, g) <=> i < cur \/ (i = cur /\ g \notin Grams(table[cur]))
             /\ Taken(i, g)' <=> i < cur \/ (i = cur /\ g \notin Grams(table'[cur]))
             /\ i = cur => ~(i < cur)
  <2>1. pc \in Past /\ pc' \in Past
    BY <1>1 DEF Past
  <2>2. cur \in Nat
    BY <1>2, Numbers
  <2>3. i = cur => ~(i < cur)
    BY <2>2
  <2>4. Taken(i, g) <=> i < cur \/ (i = cur /\ g \notin Grams(table[cur]))
    BY <2>1, Zenon DEF Taken
  <2>5. Taken(i, g)' <=> i < cur \/ (i = cur /\ g \notin Grams(table'[cur]))
    BY <1>1, <2>1, Zenon DEF Taken, Grams
  <2> QED BY <2>3, <2>4, <2>5
<1> QED BY <1>1, <1>2, <1>3, <1>4, <1>5, <1>6, <1>7

(* What the tally of main stands for while it merges.                      *)
LEMMA OwnMerging ==
  ASSUME Serially = {}, Serially' = {}, \A i : From(i)' = From(i), NEW g
  PROVE  /\ Own(Main, g) = UNION {From(i) : i \in {i \in Jobs : Taken(i, g)}}
         /\ Own(Main, g)' = UNION {From(i) : i \in {i \in Jobs : Taken(i, g)'}}
         /\ \A q : q \in Own(Main, g) <=> \E i \in Jobs : Taken(i, g) /\ q \in From(i)
         /\ \A q : q \in Own(Main, g)' <=> \E i \in Jobs : Taken(i, g)' /\ q \in From(i)
<1>1. UNION {From(i)' : i \in {i \in Jobs : Taken(i, g)'}}
        = UNION {From(i) : i \in {i \in Jobs : Taken(i, g)'}}
  BY Zenon
<1>2. Own(Main, g) = Serially \cup UNION {From(i) : i \in {i \in Jobs : Taken(i, g)}}
  BY Zenon DEF Own
<1>3. Own(Main, g)' = Serially' \cup UNION {From(i)' : i \in {i \in Jobs : Taken(i, g)'}}
  BY Zenon DEF Own
<1>4. /\ \A q : q \in UNION {From(i) : i \in {i \in Jobs : Taken(i, g)}}
                 <=> \E i \in Jobs : Taken(i, g) /\ q \in From(i)
      /\ \A q : q \in UNION {From(i) : i \in {i \in Jobs : Taken(i, g)'}}
                 <=> \E i \in Jobs : Taken(i, g)' /\ q \in From(i)
  BY Zenon
<1>5. /\ Own(Main, g) = UNION {From(i) : i \in {i \in Jobs : Taken(i, g)}}
      /\ Own(Main, g)' = UNION {From(i) : i \in {i \in Jobs : Taken(i, g)'}}
  BY <1>1, <1>2, <1>3, Zenon
<1> QED BY <1>4, <1>5, Zenon

(* A gram of the job is added to the main table.                           *)
LEMMA CountsMergeGram ==
  ASSUME ShapeInv, StagesInv, JobsInv, CountsInv, Merge,
         NEW g \in Grams(table[cur]), NEW u \in Ref(table[Main], g, cfg.soft),
         table' = [table EXCEPT ![Main] = Plus(u, g, table[cur][g]),
                                ![cur] = Without(@, g)],
         spoilt' = spoilt
  PROVE  CountsInv'
<1>1. /\ cfg \in Configs /\ cfg' = cfg /\ pc = "merge" /\ pc' = pc /\ cur' = cur
      /\ thread' = thread /\ todo' = todo /\ cur \in Jobs /\ Main \notin Jobs
      /\ cfg.mode = "counted" /\ Serially = {} /\ Serially' = {}
      /\ \A i \in Jobs : thread[i] # "failed"
      /\ \A i : From(i)' = From(i)
  BY MergeFacts
<1>2. \A i \in Jobs : \A h :
        /\ Taken(i, h) <=> i < cur \/ (i = cur /\ h \notin Grams(table[cur]))
        /\ Taken(i, h)' <=> i < cur \/ (i = cur /\ h \notin Grams(table'[cur]))
        /\ i = cur => ~(i < cur)
  BY MergeFacts
<1> DEFINE n == table[cur][g]
           v == Plus(u, g, n)
           w == Without(table[cur], g)
<1>3. /\ table'[Main] = v /\ table'[cur] = w
      /\ \A i \in Jobs : i # cur => table'[i] = table[i]
  <2>1. DOMAIN table = {Main} \cup Jobs /\ cur # Main
    BY <1>1 DEF ShapeInv, Threads
  <2> QED BY <1>1, <2>1
<1>4. \A i \in {Main} \cup Jobs :
        /\ IsTable(table[i]) /\ Grams(table[i]) \subseteq TrueGrams
        /\ \A h \in TrueGrams : Fair(i, h)
  BY Zenon DEF CountsInv
<1>5. n \in Nat \ {0} /\ n = Tally(table[cur], g) /\ g \in TrueGrams /\ g \in Gram
  <2>1. IsTable(table[cur]) /\ Grams(table[cur]) \subseteq TrueGrams
    BY <1>1, <1>4
  <2> QED BY <2>1 DEF IsTable, Tally
<1>6. /\ IsTable(w) /\ Grams(w) = Grams(table[cur]) \ {g}
      /\ \A h : Tally(w, h) = IF h = g THEN 0 ELSE Tally(table[cur], h)
  <2>1. IsTable(table[cur])
    BY <1>1, <1>4
  <2> QED BY <2>1, WithoutIs
<1>7. /\ IsTable(v) /\ Grams(v) \subseteq Grams(table[Main]) \cup {g}
      /\ Tally(v, g) = Tally(table[Main], g) + n
      /\ \A h : Tally(table[Main], h) \in Nat /\ Tally(v, h) \in Nat
      /\ \A h : h # g => Tally(v, h) <= Tally(table[Main], h)
      /\ ~Full(table[Main], g, cfg.soft)
           => \A h : h # g => Tally(v, h) = Tally(table[Main], h)
  <2>1. IsTable(table[Main]) /\ cfg.soft \in Nat
    BY <1>1, <1>4, CfgFacts
  <2> HIDE DEF n
  <2> QED BY <1>5, <2>1, Grow
<1> HIDE DEF v, w, n
<1>8. /\ TrueGrams' = TrueGrams /\ (\A q : GramAt(q)' = GramAt(q)) /\ Room' = Room
  BY <1>1, Static, StaticTruth, RoomStays
<1>9. \A i \in {Main} \cup Jobs : Exact(i)' => Exact(i) /\ Exact(cur) /\ Room
  BY <1>1, <1>8, Zenon DEF Exact, Smooth
<1>10. Room => ~Full(table[Main], g, cfg.soft)
  BY <1>1, <1>4, <1>5, NotFull
<1>11. \A i \in Jobs : \A h : h # g \/ i # cur => (Taken(i, h)' <=> Taken(i, h))
  <2>1. \A h : h # g => (h \in Grams(table'[cur]) <=> h \in Grams(table[cur]))
    BY <1>3, <1>6, Zenon
  <2> QED BY <1>2, <2>1, Zenon
<1>12. \A i \in {Main} \cup Jobs : \A h :
         /\ IsFiniteSet(Own(i, h)) /\ At(h, Own(i, h))' = At(h, Own(i, h)')
  <2>1. \A i \in {Main} \cup Jobs : \A h : IsFiniteSet(Own(i, h))
    BY <1>1, OwnIn, FS_Subset
  <2>2. \A i, h : At(h, Own(i, h))' = At(h, Own(i, h)')
    BY <1>8, Zenon DEF At
  <2> QED BY <2>1, <2>2
(* Of another gram than g, the same places are counted as before.          *)
<1>13. ASSUME NEW h \in TrueGrams, h # g, NEW i \in {Main} \cup Jobs PROVE Fair(i, h)'
  <2>1. Own(i, h)' = Own(i, h)
    <3>1. CASE i = Main
      <4>1. {k \in Jobs : Taken(k, h)'} = {k \in Jobs : Taken(k, h)}
        BY <1>11, <1>13, Zenon
      <4> QED BY <1>1, <3>1, <4>1, OwnMerging, Zenon
    <3>2. CASE i \in Jobs
      <4>1. (Taken(i, h)' <=> Taken(i, h)) /\ From(i)' = From(i) /\ i # Main
        BY <1>1, <1>11, <1>13, <3>2, Zenon
      <4> QED BY <4>1, Zenon DEF Own
    <3> QED BY <3>1, <3>2
  <2>2. At(h, Own(i, h))' = At(h, Own(i, h))
    BY <1>12, <2>1, Zenon
  <2>3. /\ Tally(table'[i], h) <= Tally(table[i], h)
        /\ Exact(i)' => Tally(table'[i], h) = Tally(table[i], h)
        /\ Tally(table'[i], h) \in Nat /\ Tally(table[i], h) \in Nat
    <3>1. \A t : IsTable(t) => Tally(t, h) \in Nat
      BY DEF IsTable, Tally
    <3>2. CASE i = Main
      BY <1>3, <1>7, <1>9, <1>10, <1>13, <3>2, Zenon
    <3>3. CASE i # Main
      <4>1. Tally(table'[i], h) = Tally(table[i], h)
        BY <1>3, <1>6, <1>13, <3>3, Zenon
      <4>2. Tally(table[i], h) \in Nat
        BY <1>4, <3>1, Zenon
      <4> QED BY <4>1, <4>2
    <3> QED BY <3>2, <3>3
  <2>4. /\ Tally(table[i], h) <= Cardinality(At(h, Own(i, h)))
        /\ Exact(i) => Tally(table[i], h) = Cardinality(At(h, Own(i, h)))
        /\ Cardinality(At(h, Own(i, h))) \in Nat
    <3>1. Cardinality(At(h, Own(i, h))) \in Nat
      BY <1>12, AtFewer
    <3> QED BY <1>4, <3>1, Zenon DEF Fair
  <2>5. Tally(table'[i], h) <= Cardinality(At(h, Own(i, h)))
    BY <2>3, <2>4
  <2>6. Exact(i)' => Tally(table'[i], h) = Cardinality(At(h, Own(i, h)))
    BY <1>9, <2>3, <2>4, Zenon
  <2>7. Tally(table[i], h)' = Tally(table'[i], h)
    BY Zenon DEF Tally, Grams
  <2> QED BY <2>2, <2>5, <2>6, <2>7, Zenon DEF Fair
(* Those of g go from the job to main.                                     *)
<1>14. /\ Own(cur, g) = From(cur) /\ Own(cur, g)' = {}
       /\ Own(Main, g)' = Own(Main, g) \cup From(cur)
       /\ Own(Main, g) \cap From(cur) = {}
  <2>1. ~Taken(cur, g) /\ Taken(cur, g)'
    BY <1>1, <1>2, <1>3, <1>6, Zenon
  <2>2. Own(cur, g) = From(cur) /\ Own(cur, g)' = {}
    BY <1>1, <2>1, Zenon DEF Own
  <2>3. ASSUME NEW i \in Jobs PROVE Taken(i, g)' <=> Taken(i, g) \/ i = cur
    <3>1. CASE i = cur
      <4>1. Taken(i, g)'
        BY <1>1, <1>2, <1>3, <1>6, <3>1, Zenon
      <4> QED BY <3>1, <4>1
    <3>2. CASE i # cur
      BY <1>11, <3>2, Zenon
    <3> QED BY <3>1, <3>2
  <2>4. Own(Main, g)' = Own(Main, g) \cup From(cur)
    <3>1. /\ \A q : q \in Own(Main, g) <=> \E i \in Jobs : Taken(i, g) /\ q \in From(i)
          /\ \A q : q \in Own(Main, g)' <=> \E i \in Jobs : Taken(i, g)' /\ q \in From(i)
      BY <1>1, OwnMerging
    <3> QED BY <1>1, <2>3, <3>1, Zenon
  <2>5. ASSUME NEW q \in Own(Main, g), q \in From(cur) PROVE FALSE
    <3>5. \A x : x \in Own(Main, g) <=> \E i \in Jobs : Taken(i, g) /\ x \in From(i)
      BY <1>1, OwnMerging
    <3>1. PICK i \in Jobs : Taken(i, g) /\ q \in From(i)
      BY <3>5, Zenon
    <3>2. i # cur
      BY <2>1, <3>1, Zenon
    <3>3. \A k : From(k) \subseteq Mine(k)
      BY Zenon DEF From
    <3>4. Mine(i) \cap Mine(cur) = {}
      BY <1>1, <3>2, MineApart
    <3> QED BY <2>5, <3>1, <3>3, <3>4, Zenon
  <2> QED BY <2>2, <2>4, <2>5
<1>15. ASSUME NEW i \in {Main} \cup Jobs PROVE Fair(i, g)'
  <2>1. Tally(table[i], g)' = Tally(table'[i], g)
    BY Zenon DEF Tally, Grams
  <2>2. CASE i = Main
    <3>1. /\ IsFiniteSet(Own(Main, g)) /\ IsFiniteSet(From(cur))
      BY <1>1, <1>12, <1>14
    <3>2. /\ Cardinality(At(g, Own(Main, g))) \in Nat /\ Cardinality(At(g, From(cur))) \in Nat
          /\ Cardinality(At(g, Own(Main, g)')) =
               Cardinality(At(g, Own(Main, g))) + Cardinality(At(g, From(cur)))
      <4>1. Own(Main, g) \cap From(cur) = {}
        BY <1>14
      <4>2. /\ Cardinality(At(g, Own(Main, g))) \in Nat /\ Cardinality(At(g, From(cur))) \in Nat
            /\ Cardinality(At(g, Own(Main, g) \cup From(cur))) =
                 Cardinality(At(g, Own(Main, g))) + Cardinality(At(g, From(cur)))
        BY <4>1, <3>1, AtBoth
      <4> QED BY <1>14, <4>2, Zenon
    <3>3. /\ Tally(table[Main], g) <= Cardinality(At(g, Own(Main, g)))
          /\ n <= Cardinality(At(g, From(cur)))
          /\ Exact(Main) => Tally(table[Main], g) = Cardinality(At(g, Own(Main, g)))
          /\ Exact(cur) => n = Cardinality(At(g, From(cur)))
      BY <1>1, <1>4, <1>5, <1>14, Zenon DEF Fair
    <3>4. Tally(table'[Main], g) = Tally(table[Main], g) + n /\ Tally(table[Main], g) \in Nat
      BY <1>3, <1>7
    <3>5. Tally(table'[Main], g) <= Cardinality(At(g, Own(Main, g)'))
      BY <1>5, <3>2, <3>3, <3>4
    <3>6. Exact(Main)' => Tally(table'[Main], g) = Cardinality(At(g, Own(Main, g)'))
      BY <1>9, <3>2, <3>3, <3>4
    <3> QED BY <1>12, <2>1, <2>2, <3>5, <3>6, Zenon DEF Fair
  <2>3. CASE i = cur
    <3>1. Tally(table'[cur], g) = 0
      BY <1>3, <1>6, Zenon
    <3>2. Cardinality(At(g, {})) = 0
      <4>1. At(g, {}) = {}
        BY DEF At
      <4> QED BY <4>1, FS_EmptySet
    <3>3. At(g, Own(cur, g))' = At(g, {})
      BY <1>1, <1>12, <1>14, Zenon
    <3>4. Tally(table'[cur], g) <= Cardinality(At(g, {}))
      BY <3>1, <3>2
    <3> QED BY <1>1, <2>1, <2>3, <3>1, <3>2, <3>3, <3>4, Zenon DEF Fair
  <2>4. CASE i # Main /\ i # cur
    <3>1. i \in Jobs /\ table'[i] = table[i]
      BY <1>3, <2>4, Zenon
    <3>2. Own(i, g)' = Own(i, g)
      <4>1. (Taken(i, g)' <=> Taken(i, g)) /\ From(i)' = From(i)
        BY <1>1, <1>11, <2>4, <3>1, Zenon
      <4> QED BY <2>4, <4>1, Zenon DEF Own
    <3>3. At(g, Own(i, g))' = At(g, Own(i, g))
      BY <1>12, <3>2, Zenon
    <3>4. /\ Tally(table[i], g) <= Cardinality(At(g, Own(i, g)))
          /\ Exact(i)' => Tally(table[i], g) = Cardinality(At(g, Own(i, g)))
      BY <1>4, <1>5, <1>9, Zenon DEF Fair
    <3> QED BY <2>1, <3>1, <3>3, <3>4, Zenon DEF Fair
  <2> QED BY <2>2, <2>3, <2>4
<1>16. ASSUME NEW i \in {Main} \cup Jobs
       PROVE  IsTable(table'[i]) /\ Grams(table'[i]) \subseteq TrueGrams
  <2>1. CASE i = Main
    <3>1. Grams(table[Main]) \subseteq TrueGrams
      BY <1>4
    <3> QED BY <1>3, <1>5, <1>7, <2>1, <3>1, Zenon
  <2>2. CASE i = cur
    BY <1>1, <1>3, <1>4, <1>6, <2>2, Zenon
  <2>3. CASE i # Main /\ i # cur
    BY <1>3, <1>4, <2>3, Zenon
  <2> QED BY <2>1, <2>2, <2>3
<1>17. \A i \in {Main} \cup Jobs : IsTable(table[i])' /\ Grams(table[i])' \subseteq TrueGrams'
  BY <1>8, <1>16, Zenon DEF IsTable, Grams
<1>18. \A i \in {Main} \cup Jobs : \A h \in TrueGrams : Fair(i, h)'
  BY <1>13, <1>15, Zenon
<1> QED BY <1>8, <1>17, <1>18, Zenon DEF CountsInv

(* There is no room for it: the job's table is given up.                   *)
LEMMA CountsMergeFull ==
  ASSUME ShapeInv, StagesInv, JobsInv, CountsInv, Merge,
         table' = [table EXCEPT ![cur] = NoCounts], spoilt' = TRUE
  PROVE  CountsInv'
<1>1. /\ cfg \in Configs /\ cfg' = cfg /\ cur \in Jobs /\ Main \notin Jobs
      /\ Serially = {} /\ Serially' = {}
      /\ \A i : From(i)' = From(i)
  BY MergeFacts
<1>2. \A i \in Jobs : \A h :
        /\ Taken(i, h) <=> i < cur \/ (i = cur /\ h \notin Grams(table[cur]))
        /\ Taken(i, h)' <=> i < cur \/ (i = cur /\ h \notin Grams(table'[cur]))
        /\ i = cur => ~(i < cur)
  BY MergeFacts
<1>3. /\ table'[cur] = NoCounts
      /\ \A i \in {Main} \cup Jobs : i # cur => table'[i] = table[i]
  <2>1. DOMAIN table = {Main} \cup Jobs /\ cur # Main
    BY <1>1 DEF ShapeInv, Threads
  <2> QED BY <1>1, <2>1
<1>4. \A i \in {Main} \cup Jobs :
        /\ IsTable(table[i]) /\ Grams(table[i]) \subseteq TrueGrams
        /\ \A h \in TrueGrams : Fair(i, h)
  BY Zenon DEF CountsInv
<1>5. IsTable(NoCounts) /\ Grams(NoCounts) = {} /\ \A h : Tally(NoCounts, h) = 0
  <2>1. Grams(NoCounts) = {} /\ NoCounts = [g \in {} |-> NoCounts[g]]
    BY Zenon DEF NoCounts, Grams
  <2>2. IsFiniteSet({})
    BY FS_EmptySet
  <2> QED BY <2>1, <2>2, Zenon DEF IsTable, Tally
<1>6. /\ TrueGrams' = TrueGrams /\ (\A q : GramAt(q)' = GramAt(q))
  BY <1>1, Static, StaticTruth
<1>7. \A i : ~Exact(i)'
  BY Zenon DEF Exact, Smooth
<1>8. \A i \in Jobs : \A h : (Taken(i, h) => Taken(i, h)') /\ (i # cur => (Taken(i, h)' <=> Taken(i, h)))
  BY <1>2, <1>3, <1>5, Zenon
<1>9. \A i, h : At(h, Own(i, h))' = At(h, Own(i, h)')
  BY <1>6, Zenon DEF At
<1>10. \A i : \A h : Tally(table[i], h)' = Tally(table'[i], h)
  BY Zenon DEF Tally, Grams
<1>11. ASSUME NEW h \in TrueGrams PROVE Fair(Main, h)'
  <2>1. Own(Main, h) \subseteq Own(Main, h)'
    <3>1. /\ \A q : q \in Own(Main, h) <=> \E i \in Jobs : Taken(i, h) /\ q \in From(i)
          /\ \A q : q \in Own(Main, h)' <=> \E i \in Jobs : Taken(i, h)' /\ q \in From(i)
      BY <1>1, OwnMerging
    <3> QED BY <1>8, <3>1, Zenon
  <2>2. IsFiniteSet(Own(Main, h)')
    <3>1. IsFiniteSet(Whole) /\ Own(Main, h)' \subseteq Whole
      BY <1>1, OwnIn, OwnInNext
    <3> QED BY <3>1, FS_Subset
  <2>3. /\ Cardinality(At(h, Own(Main, h))) <= Cardinality(At(h, Own(Main, h)'))
        /\ Cardinality(At(h, Own(Main, h))) \in Nat /\ Cardinality(At(h, Own(Main, h)')) \in Nat
    BY <2>1, <2>2, AtFewer
  <2>4. Tally(table[Main], h) <= Cardinality(At(h, Own(Main, h))) /\ Tally(table[Main], h) \in Nat
    BY <1>4 DEF Fair, IsTable, Tally
  <2>5. Tally(table[Main], h) <= Cardinality(At(h, Own(Main, h)'))
    BY <2>3, <2>4
  <2>6. table'[Main] = table[Main]
    BY <1>1, <1>3, Zenon
  <2> QED BY <1>7, <1>9, <1>10, <2>5, <2>6, Zenon DEF Fair
<1>12. ASSUME NEW h \in TrueGrams, NEW i \in Jobs, i # cur PROVE Fair(i, h)'
  <2>1. Own(i, h)' = Own(i, h)
    <3>1. (Taken(i, h)' <=> Taken(i, h)) /\ From(i)' = From(i) /\ i # Main
      BY <1>1, <1>8, <1>12, Zenon
    <3> QED BY <3>1, Zenon DEF Own
  <2>2. table'[i] = table[i]
    BY <1>3, <1>12, Zenon
  <2>3. At(h, Own(i, h))' = At(h, Own(i, h))
    BY <1>9, <2>1, Zenon
  <2>4. Tally(table[i], h) <= Cardinality(At(h, Own(i, h)))
    BY <1>4, Zenon DEF Fair
  <2> QED BY <1>7, <1>10, <2>2, <2>3, <2>4, Zenon DEF Fair
<1>13. ASSUME NEW h \in TrueGrams, NEW i \in Jobs, i = cur PROVE Fair(i, h)'
  <2>1. Taken(i, h)' /\ i # Main
    BY <1>1, <1>2, <1>3, <1>5, <1>13, Zenon
  <2>2. Own(i, h)' = {}
    BY <2>1, Zenon DEF Own
  <2>3. Cardinality(At(h, {})) = 0
    <3>1. At(h, {}) = {}
      BY DEF At
    <3> QED BY <3>1, FS_EmptySet
  <2>4. At(h, Own(i, h))' = At(h, {})
    BY <1>9, <2>2, Zenon
  <2>5. Tally(table'[i], h) = 0
    BY <1>3, <1>5, <1>13, Zenon
  <2>6. Tally(table'[i], h) <= Cardinality(At(h, {}))
    BY <2>3, <2>5
  <2> QED BY <1>7, <1>10, <2>4, <2>6, Zenon DEF Fair
<1>14. \A i \in {Main} \cup Jobs : IsTable(table'[i]) /\ Grams(table'[i]) \subseteq TrueGrams
  <2>1. {} \subseteq TrueGrams
    OBVIOUS
  <2> QED BY <1>3, <1>4, <1>5, <2>1, Zenon
<1>15. \A i \in {Main} \cup Jobs : IsTable(table[i])' /\ Grams(table[i])' \subseteq TrueGrams'
  BY <1>6, <1>14, Zenon DEF IsTable, Grams
<1>16. \A i \in {Main} \cup Jobs : \A h \in TrueGrams : Fair(i, h)'
  BY <1>11, <1>12, <1>13, Zenon
<1> QED BY <1>6, <1>15, <1>16, Zenon DEF CountsInv

(* Counts are right whatever the step.                                     *)
LEMMA CountsStep ==
  ASSUME ShapeInv, StagesInv, JobsInv, CountsInv, Next
  PROVE  CountsInv'
<1>1. CASE Merge
  <2>1. PICK g \in Grams(table[cur]) :
          \/ \E t \in Ref(table[Main], g, cfg.soft) :
               /\ table' = [table EXCEPT ![Main] = Plus(t, g, table[cur][g]),
                                         ![cur] = Without(@, g)]
               /\ spoilt' = spoilt
          \/ table' = [table EXCEPT ![cur] = NoCounts] /\ spoilt' = TRUE
    BY <1>1, Zenon DEF Merge
  <2>2. CASE table' = [table EXCEPT ![cur] = NoCounts] /\ spoilt' = TRUE
    BY <1>1, <2>2, CountsMergeFull
  <2>3. ASSUME NEW t \in Ref(table[Main], g, cfg.soft),
               table' = [table EXCEPT ![Main] = Plus(t, g, table[cur][g]),
                                      ![cur] = Without(@, g)],
               spoilt' = spoilt
        PROVE  CountsInv'
    BY <1>1, <2>3, CountsMergeGram
  <2> QED BY <2>1, <2>2, <2>3, Zenon
<1>2. CASE Joined \/ Merged
  BY <1>2, CountsJoined
<1>3. CASE Serial
  BY <1>3, CountsSerial
<1>4. ASSUME NEW j \in Jobs, Count(j) PROVE CountsInv'
  BY <1>4, CountsCount
<1>5. ASSUME \/ Start \/ Token \/ Tokens \/ Online \/ Exhausted \/ Spawn \/ Inlined \/ Spawned
             \/ Join \/ Counted \/ Context \/ Contexts \/ Edge \/ Done
             \/ \E j \in Jobs : OutOfMemory(j)
      PROVE  CountsInv'
  BY <1>5, CountsCalmStep
<1> QED BY <1>1, <1>2, <1>3, <1>4, <1>5, Zenon DEF Next

(* What a step does to the main table.                                     *)
LEMMA MainTable ==
  ASSUME ShapeInv, StagesInv, JobsInv, CountsInv, Next
  PROVE  \/ table'[Main] = table[Main]
         \/ /\ pc \in {"serial", "merge"} /\ pc' = pc
            /\ \E g \in Gram : \E n \in Nat \ {0} : \E u \in Ref(table[Main], g, cfg.soft) :
                 table'[Main] = Plus(u, g, n)
<1>1. /\ cfg \in Configs /\ Main \notin Jobs /\ Main \in DOMAIN table
  BY Numbers DEF ShapeInv, Threads
<1>2. \A j \in {Main} \cup Jobs :
        /\ IsTable(table[j]) /\ Grams(table[j]) \subseteq TrueGrams
  BY Zenon DEF CountsInv
<1>3. CASE Merge
  <2>1. PICK g \in Grams(table[cur]) :
          \/ \E t \in Ref(table[Main], g, cfg.soft) :
               table' = [table EXCEPT ![Main] = Plus(t, g, table[cur][g]),
                                      ![cur] = Without(@, g)]
          \/ table' = [table EXCEPT ![cur] = NoCounts]
    BY <1>3, Zenon DEF Merge
  <2>2. cur \in Jobs /\ pc = "merge" /\ pc' = pc
    BY <1>3, MergeFacts
  <2>3. g \in Gram /\ table[cur][g] \in Nat \ {0}
    BY <1>2, <2>1, <2>2, Zenon DEF IsTable
  <2>4. CASE table' = [table EXCEPT ![cur] = NoCounts]
    BY <1>1, <2>2, <2>4
  <2>5. ASSUME NEW t \in Ref(table[Main], g, cfg.soft),
               table' = [table EXCEPT ![Main] = Plus(t, g, table[cur][g]),
                                      ![cur] = Without(@, g)]
        PROVE  table'[Main] = Plus(t, g, table[cur][g])
    BY <1>1, <2>2, <2>5
  <2> QED BY <2>1, <2>2, <2>3, <2>4, <2>5, Zenon
<1>4. CASE Serial
  <2>1. pc = "serial" /\ pc' = pc /\ todo[Main] # {}
    BY <1>4, Zenon DEF Serial
  <2>2. cfg.mode = "counted"
    <3>1. cfg.mode \in {"online", "counted"}
      BY <1>1, CfgFacts
    <3> QED BY <2>1, <3>1 DEF StagesInv
  <2>3. todo[Main] \subseteq Whole /\ Whole \subseteq Nat \X Nat
    BY <1>1, <2>2, PlacesAreFinite DEF ShapeInv
  <2>4. First(todo[Main]) \in Whole
    BY <2>1, <2>3, FirstIn
  <2>5. First(todo[Main]) \in Real
    BY <2>2, <2>4 DEF Real
  <2>6. GramAt(First(todo[Main])) \in Gram
    BY <1>1, <2>5, RealIs
  <2>7. \/ \E t \in Ref(table[Main], GramAt(First(todo[Main])), cfg.soft) :
             table' = [table EXCEPT ![Main] = Plus(t, GramAt(First(todo[Main])), 1)]
        \/ table' = table
    BY <1>4, Zenon DEF Serial
  <2>8. \/ \E t \in Ref(table[Main], GramAt(First(todo[Main])), cfg.soft) :
             table'[Main] = Plus(t, GramAt(First(todo[Main])), 1)
        \/ table'[Main] = table[Main]
    BY <1>1, <2>7, Zenon
  <2>9. 1 \in Nat \ {0}
    OBVIOUS
  <2> QED BY <2>1, <2>6, <2>8, <2>9, Zenon
<1>5. ASSUME NEW j \in Jobs, Count(j) PROVE table'[Main] = table[Main]
  <2>1. j # Main
    BY <1>1
  <2>2. \E v : table' = [table EXCEPT ![j] = v]
    BY <1>5, Zenon DEF Count
  <2> QED BY <1>1, <2>1, <2>2
<1>6. ASSUME NEW j \in Jobs, OutOfMemory(j) PROVE table' = table
  BY <1>6, Zenon DEF OutOfMemory
<1>7. ASSUME \/ Start \/ Token \/ Tokens \/ Online \/ Exhausted \/ Spawn \/ Inlined \/ Spawned
             \/ Join \/ Joined \/ Merged \/ Counted \/ Context \/ Contexts \/ Edge \/ Done
      PROVE  table' = table
  BY <1>7, Zenon DEF Start, Token, Tokens, Online, Exhausted, Spawn, Inlined, Spawned,
     Join, Joined, Merged, Counted, Context, Contexts, Edge, Done, counting
<1> QED BY <1>3, <1>4, <1>5, <1>6, <1>7, Zenon DEF Next

(* The main table keeps its limit.                                         *)
LEMMA LimitStep ==
  ASSUME ShapeInv, StagesInv, JobsInv, CountsInv, LimitInv, Next
  PROVE  LimitInv'
<1>1. cfg' = cfg /\ cfg \in Configs /\ IsTable(table[Main])
  BY CfgStays, Zenon DEF ShapeInv, CountsInv
<1>2. CASE table'[Main] = table[Main]
  BY <1>1, <1>2, Zenon DEF LimitInv, Grams
<1>3. ASSUME NEW g \in Gram, NEW n \in Nat \ {0}, NEW u \in Ref(table[Main], g, cfg.soft),
             table'[Main] = Plus(u, g, n)
      PROVE  LimitInv'
  <2>1. cfg.soft \in Nat
    BY <1>1, CfgFacts
  <2>2. cfg.soft # 0 /\ Cardinality(Grams(table[Main])) <= cfg.soft
          => Cardinality(Grams(Plus(u, g, n))) <= cfg.soft
    BY <1>1, <2>1, Grow
  <2> QED BY <1>1, <1>3, <2>2, Zenon DEF LimitInv, Grams
<1> QED BY <1>2, <1>3, MainTable, Zenon

(* What is still to be materialised are tokens, contexts and grams.        *)
LEMMA RestStep ==
  ASSUME ShapeInv, StagesInv, JobsInv, CountsInv, RestInv, Next
  PROVE  RestInv'
<1>1. cfg' = cfg /\ TextTokens' = TextTokens
  BY CfgStays, Zenon DEF TextTokens, Text
<1>2. pc' \in {"contexts", "edges"} => table'[Main] = table[Main]
  BY MainTable
<1>3. ASSUME pc' = "tokens" PROVE rest' \subseteq TextTokens'
  <2>1. CASE Start
    BY <1>1, <1>3, <2>1, Zenon DEF Start, TextTokens
  <2>2. CASE Token
    BY <1>1, <2>2, Zenon DEF Token, RestInv
  <2> QED BY <1>3, <2>1, <2>2 DEF Next, Tokens, Online, Serial, Exhausted, Spawn,
         Inlined, Spawned, Count, OutOfMemory, Join, Joined, Merge, Merged, Counted, Context,
         Contexts, Edge, Done, JobsInv, JobInv, StagesInv, Idle
<1>4. ASSUME pc' = "contexts" PROVE rest' \subseteq ContextsOf(Grams(table'[Main]))
  <2>1. CASE Counted
    BY <1>2, <1>4, <2>1, Zenon DEF Counted, ContextsOf
  <2>2. CASE Context
    BY <1>2, <1>4, <2>2, Zenon DEF Context, RestInv
  <2> QED BY <1>4, <2>1, <2>2 DEF Next, Start, Token, Tokens, Online, Serial, Exhausted, Spawn,
         Inlined, Spawned, Count, OutOfMemory, Join, Joined, Merge, Merged,
         Contexts, Edge, Done, JobsInv, JobInv, Ready
<1>5. ASSUME pc' = "edges" PROVE rest' \subseteq Grams(table'[Main])
  <2>1. CASE Contexts
    BY <1>2, <1>5, <2>1, Zenon DEF Contexts
  <2>2. CASE Edge
    BY <1>2, <1>5, <2>2, Zenon DEF Edge, RestInv
  <2> QED BY <1>5, <2>1, <2>2 DEF Next, Start, Token, Tokens, Online, Serial, Exhausted, Spawn,
         Inlined, Spawned, Count, OutOfMemory, Join, Joined, Merge, Merged, Counted, Context,
         Done, JobsInv, JobInv, Ready
<1>6. ContextsOf(Grams(table[Main]))' = ContextsOf(Grams(table'[Main]))
  BY Zenon DEF ContextsOf, Grams
<1> QED BY <1>3, <1>4, <1>5, <1>6, Zenon DEF RestInv, Grams

(* The predecessors of tokens are those of the main table.                 *)
LEMMA KnStep ==
  ASSUME ShapeInv, StagesInv, JobsInv, CountsInv, KnInv, Next
  PROVE  KnInv'
<1>1. cfg' = cfg
  BY CfgStays
<1>2. pc' \in Ready => table'[Main] = table[Main]
  BY MainTable DEF Ready
<1>3. \A grams, t : Predecessors(grams, t)' = Predecessors(grams, t)
  BY Zenon DEF Predecessors, Order
<1>4. DOMAIN kn = 0..(Vocab - 1)
  BY DEF KnInv
<1>5. CASE Counted /\ ~spoilt
  <2>1. pc' = "contexts" /\ kn' = [t \in DOMAIN kn |-> Predecessors(Grams(table[Main]), t)]
    BY <1>5, Zenon DEF Counted
  <2>2. cfg.mode = "counted"
    <3>1. cfg.mode \in {"online", "counted"}
      BY CfgFacts DEF ShapeInv
    <3>2. pc \in {"serial", "merge"}
      BY <1>5, Zenon DEF Counted
    <3> QED BY <3>1, <3>2 DEF StagesInv
  <2> QED BY <1>1, <1>2, <1>3, <1>4, <2>1, <2>2 DEF KnInv, Ready, Grams
<1>6. CASE ~(Counted /\ ~spoilt)
  <2>1. kn' = kn
    BY <1>6 DEF Next, Start, Token, Tokens, Online, Serial, Exhausted, Spawn,
         Inlined, Spawned, Count, OutOfMemory, Join, Joined, Merge, Merged, Counted, Context,
         Contexts, Edge, Done, result
  <2>2. cfg.mode = "counted" => (pc' \in Ready <=> pc \in Ready)
    BY <1>6 DEF Next, Start, Token, Tokens, Online, Serial, Exhausted, Spawn,
         Inlined, Spawned, Count, OutOfMemory, Join, Joined, Merge, Merged, Counted, Context,
         Contexts, Edge, Done, Ready, StagesInv
  <2> QED BY <1>1, <1>2, <1>3, <2>1, <2>2, Zenon DEF KnInv, Grams
<1> QED BY <1>5, <1>6

(* A set with one more member.                                             *)
LEMMA OneMore ==
  ASSUME NEW S, IsFiniteSet(S), NEW x
  PROVE  /\ IsFiniteSet(S \cup {x}) /\ Cardinality(S) \in Nat
         /\ Cardinality(S \cup {x}) = Cardinality(S) + (IF x \in S THEN 0 ELSE 1)
<1>1. x \in S => S \cup {x} = S
  OBVIOUS
<1>2. Cardinality(S) \in Nat
  BY FS_CardinalityType
<1> QED BY <1>1, <1>2, FS_AddElement

(* fluency_named_node keeps the limits, and adds only what it is to name;  *)
(* where there is room, it does.                                           *)
NamedAs(v, gr, kind, x) ==
  /\ IsGraph(v) /\ v.edges = gr.edges
  /\ kind = "toks" => v.ctxs = gr.ctxs /\ v.toks \in {gr.toks, gr.toks \cup {x}}
  /\ kind = "ctxs" => v.toks = gr.toks /\ v.ctxs \in {gr.ctxs, gr.ctxs \cup {x}}
  /\ /\ gr.names = NodeCount(gr)
     /\ x \in gr[kind] \/ (NodeCount(gr) < cfg.nodeCap /\ NodeCount(gr) < cfg.nameCap)
     => /\ v.names = NodeCount(v)
        /\ kind = "toks" => v.toks = gr.toks \cup {x}
        /\ kind = "ctxs" => v.ctxs = gr.ctxs \cup {x}

(* So it does.                                                             *)
LEMMA NamedIs ==
  ASSUME cfg \in Configs, NEW gr, IsGraph(gr), NEW kind \in {"toks", "ctxs"}, NEW x
  PROVE  NamedAs(Named(gr, kind, x), gr, kind, x)
<1> DEFINE v == Named(gr, kind, x)
<1>0. v = Named(gr, kind, x)
  OBVIOUS
<1> SUFFICES NamedAs(v, gr, kind, x)
  OBVIOUS
<1> HIDE DEF v
<1>1. /\ gr = [toks |-> gr.toks, ctxs |-> gr.ctxs, names |-> gr.names, edges |-> gr.edges]
      /\ IsFiniteSet(gr.toks) /\ IsFiniteSet(gr.ctxs) /\ gr.names \in Nat
      /\ NodeCount(gr) <= cfg.nodeCap /\ NodeCount(gr) <= gr.names
      /\ gr.names <= cfg.nameCap
      /\ IsFiniteSet(DOMAIN gr.edges) /\ Cardinality(DOMAIN gr.edges) <= cfg.edgeCap
      /\ gr.edges = [g \in DOMAIN gr.edges |-> gr.edges[g]]
      /\ \A g \in DOMAIN gr.edges :
           gr.edges[g] \in 0..WMax /\ g.next \in gr.toks /\ g.ctx \in gr.ctxs
  BY Zenon DEF IsGraph
<1>2. cfg.nodeCap \in Nat /\ cfg.nameCap \in Nat
  BY CfgFacts
<1>3. CASE x \in gr[kind]
  <2>1. v = gr
    BY <1>3, <1>0, Zenon DEF Named
  <2>2. (kind = "toks" => x \in gr.toks) /\ (kind = "ctxs" => x \in gr.ctxs)
    BY <1>3
  <2> QED BY <2>1, <2>2 DEF NamedAs
<1>4. CASE x \notin gr[kind] /\ gr.names >= cfg.nameCap
  <2>1. v = gr
    BY <1>4, <1>0, Zenon DEF Named
  <2>2. gr.names # NodeCount(gr) \/ ~(NodeCount(gr) < cfg.nameCap)
    BY <1>1, <1>2, <1>4
  <2> QED BY <1>4, <2>1, <2>2 DEF NamedAs
<1>5. CASE x \notin gr[kind] /\ ~(gr.names >= cfg.nameCap) /\ NodeCount(gr) >= cfg.nodeCap
  <2>1. v = [gr EXCEPT !.names = @ + 1]
    BY <1>5, <1>0, Zenon DEF Named
  <2>2. /\ v = [toks |-> gr.toks, ctxs |-> gr.ctxs, names |-> gr.names + 1, edges |-> gr.edges]
    BY <1>1, <2>1
  <2>3. /\ v.toks = gr.toks /\ v.ctxs = gr.ctxs /\ v.names = gr.names + 1 /\ v.edges = gr.edges
    BY <2>2
  <2>4. NodeCount(v) = NodeCount(gr) /\ NodeCount(gr) \in Nat
    <3>1. NodeCount(v) = NodeCount(gr)
      BY <2>3, Zenon DEF NodeCount
    <3> QED BY <1>1, <3>1, FS_CardinalityType DEF NodeCount
  <2>5. v = [toks |-> v.toks, ctxs |-> v.ctxs, names |-> v.names, edges |-> v.edges]
    BY <2>2, <2>3, Zenon
  <2>6. /\ v.names \in Nat /\ NodeCount(v) <= cfg.nodeCap /\ NodeCount(v) <= v.names
        /\ v.names <= cfg.nameCap
    BY <1>1, <1>2, <1>5, <2>3, <2>4
  <2>7. IsGraph(v)
    BY <1>1, <2>3, <2>5, <2>6, Zenon DEF IsGraph
  <2>8. ~(NodeCount(gr) < cfg.nodeCap)
    BY <1>2, <1>5, <2>4
  <2> QED BY <1>5, <2>3, <2>7, <2>8 DEF NamedAs
<1>6. CASE x \notin gr[kind] /\ ~(gr.names >= cfg.nameCap) /\ ~(NodeCount(gr) >= cfg.nodeCap)
  <2>1. v = [gr EXCEPT !.names = @ + 1, ![kind] = @ \cup {x}]
    BY <1>6, <1>0, Zenon DEF Named
  <2>2. /\ v = [toks |-> v.toks, ctxs |-> v.ctxs, names |-> v.names, edges |-> v.edges]
        /\ v.names = gr.names + 1 /\ v.edges = gr.edges
        /\ kind = "toks" => x \notin gr.toks /\ v.toks = gr.toks \cup {x} /\ v.ctxs = gr.ctxs
        /\ kind = "ctxs" => x \notin gr.ctxs /\ v.ctxs = gr.ctxs \cup {x} /\ v.toks = gr.toks
    <3>1. CASE kind = "toks"
      <4>1. v = [gr EXCEPT !.names = @ + 1, !.toks = @ \cup {x}] /\ x \notin gr.toks
        BY <1>6, <2>1, <3>1, Zenon
      <4>2. v = [toks |-> gr.toks \cup {x}, ctxs |-> gr.ctxs, names |-> gr.names + 1,
                 edges |-> gr.edges]
        BY <1>1, <4>1
      <4> QED BY <3>1, <4>1, <4>2
    <3>2. CASE kind = "ctxs"
      <4>1. v = [gr EXCEPT !.names = @ + 1, !.ctxs = @ \cup {x}] /\ x \notin gr.ctxs
        BY <1>6, <2>1, <3>2, Zenon
      <4>2. v = [toks |-> gr.toks, ctxs |-> gr.ctxs \cup {x}, names |-> gr.names + 1,
                 edges |-> gr.edges]
        BY <1>1, <4>1
      <4> QED BY <3>2, <4>1, <4>2
    <3> QED BY <3>1, <3>2
  <2>3. /\ IsFiniteSet(gr.toks \cup {x}) /\ IsFiniteSet(gr.ctxs \cup {x})
        /\ Cardinality(gr.toks) \in Nat /\ Cardinality(gr.ctxs) \in Nat
        /\ x \notin gr.toks => Cardinality(gr.toks \cup {x}) = Cardinality(gr.toks) + 1
        /\ x \notin gr.ctxs => Cardinality(gr.ctxs \cup {x}) = Cardinality(gr.ctxs) + 1
    BY <1>1, OneMore
  <2>4. NodeCount(v) = NodeCount(gr) + 1 /\ NodeCount(gr) \in Nat
    <3>1. /\ NodeCount(v) = Cardinality(v.toks) + Cardinality(v.ctxs)
          /\ NodeCount(gr) = Cardinality(gr.toks) + Cardinality(gr.ctxs)
      BY Zenon DEF NodeCount
    <3>2. CASE kind = "toks"
      <4>1. /\ Cardinality(v.toks) = Cardinality(gr.toks) + 1
            /\ Cardinality(v.ctxs) = Cardinality(gr.ctxs)
        BY <2>2, <2>3, <3>2, Zenon
      <4> QED BY <2>3, <3>1, <4>1
    <3>3. CASE kind = "ctxs"
      <4>1. /\ Cardinality(v.ctxs) = Cardinality(gr.ctxs) + 1
            /\ Cardinality(v.toks) = Cardinality(gr.toks)
        BY <2>2, <2>3, <3>3, Zenon
      <4> QED BY <2>3, <3>1, <4>1
    <3> QED BY <3>2, <3>3
  <2>5. IsFiniteSet(v.toks) /\ IsFiniteSet(v.ctxs) /\ gr.toks \subseteq v.toks /\ gr.ctxs \subseteq v.ctxs
    BY <1>1, <2>2, <2>3
  <2>6. /\ v.names \in Nat /\ NodeCount(v) <= cfg.nodeCap /\ NodeCount(v) <= v.names
        /\ v.names <= cfg.nameCap /\ (gr.names = NodeCount(gr) => v.names = NodeCount(v))
    BY <1>1, <1>2, <1>6, <2>2, <2>4
  <2>7. IsGraph(v)
    BY <1>1, <2>2, <2>5, <2>6, Zenon DEF IsGraph
  <2> QED BY <2>2, <2>6, <2>7 DEF NamedAs
<1> QED BY <1>3, <1>4, <1>5, <1>6

(* Making an edge: of weight zero, if it has its nodes and there is room.  *)
EdgedAs(v, gr, g) ==
  /\ IsGraph(v) /\ v.toks = gr.toks /\ v.ctxs = gr.ctxs /\ v.names = gr.names
  /\ DOMAIN v.edges \in {DOMAIN gr.edges, DOMAIN gr.edges \cup {g}}
  /\ \A h \in DOMAIN gr.edges : v.edges[h] = gr.edges[h]
  /\ g \notin DOMAIN gr.edges /\ g \in DOMAIN v.edges => v.edges[g] = 0
  /\ /\ g.next \in gr.toks /\ g.ctx \in gr.ctxs
     /\ g \in DOMAIN gr.edges \/ Cardinality(DOMAIN gr.edges) < cfg.edgeCap
     => DOMAIN v.edges = DOMAIN gr.edges \cup {g}

(* An edge is made so.                                                     *)
LEMMA EdgedIs ==
  ASSUME cfg \in Configs, NEW gr, IsGraph(gr), NEW g
  PROVE  EdgedAs(Edged(gr, g), gr, g)
<1> DEFINE v == Edged(gr, g)
<1>0. v = Edged(gr, g)
  OBVIOUS
<1> SUFFICES EdgedAs(v, gr, g)
  OBVIOUS
<1> HIDE DEF v
<1>1. /\ gr = [toks |-> gr.toks, ctxs |-> gr.ctxs, names |-> gr.names, edges |-> gr.edges]
      /\ IsFiniteSet(gr.toks) /\ IsFiniteSet(gr.ctxs) /\ gr.names \in Nat
      /\ NodeCount(gr) <= cfg.nodeCap /\ NodeCount(gr) <= gr.names
      /\ gr.names <= cfg.nameCap
      /\ IsFiniteSet(DOMAIN gr.edges) /\ Cardinality(DOMAIN gr.edges) <= cfg.edgeCap
      /\ gr.edges = [h \in DOMAIN gr.edges |-> gr.edges[h]]
      /\ \A h \in DOMAIN gr.edges :
           gr.edges[h] \in 0..WMax /\ h.next \in gr.toks /\ h.ctx \in gr.ctxs
  BY Zenon DEF IsGraph
<1> DEFINE E == /\ g \notin DOMAIN gr.edges /\ Cardinality(DOMAIN gr.edges) < cfg.edgeCap
                /\ g.next \in gr.toks /\ g.ctx \in gr.ctxs
<1>2. CASE ~E
  <2>1. v = gr
    BY <1>2, <1>0, Zenon DEF Edged
  <2> QED BY <1>2, <2>1 DEF EdgedAs
<1>3. CASE E
  <2> DEFINE u == With(gr.edges, g, 0)
  <2>1. v = [gr EXCEPT !.edges = u]
    BY <1>3, <1>0, Zenon DEF Edged
  <2>2. /\ DOMAIN u = DOMAIN gr.edges \cup {g} /\ u[g] = 0
        /\ \A h \in DOMAIN gr.edges : u[h] = gr.edges[h]
        /\ u = [h \in DOMAIN u |-> u[h]]
    <3>1. u = With(gr.edges, g, 0) /\ g \notin Grams(gr.edges)
      BY <1>3 DEF Grams
    <3> HIDE DEF u
    <3>2. /\ Grams(u) = Grams(gr.edges) \cup {g} /\ u[g] = 0
          /\ \A h \in Grams(gr.edges) : u[h] = gr.edges[h]
          /\ u = [h \in Grams(u) |-> u[h]]
      BY <3>1, WithIs
    <3> QED BY <3>2, Zenon DEF Grams
  <2> HIDE DEF u
  <2>3. v = [toks |-> gr.toks, ctxs |-> gr.ctxs, names |-> gr.names, edges |-> u]
    BY <1>1, <2>1
  <2>4. v.toks = gr.toks /\ v.ctxs = gr.ctxs /\ v.names = gr.names /\ v.edges = u
    BY <2>3
  <2>5. /\ IsFiniteSet(DOMAIN u) /\ Cardinality(DOMAIN u) <= cfg.edgeCap
    <3>1. /\ IsFiniteSet(DOMAIN gr.edges \cup {g}) /\ Cardinality(DOMAIN gr.edges) \in Nat
          /\ Cardinality(DOMAIN gr.edges \cup {g}) = Cardinality(DOMAIN gr.edges) + 1
      BY <1>1, <1>3, OneMore
    <3>2. Cardinality(DOMAIN gr.edges) + 1 <= cfg.edgeCap
      BY <1>3, <3>1, CfgFacts
    <3> QED BY <2>2, <3>1, <3>2, Zenon
  <2>6. \A h \in DOMAIN u : u[h] \in 0..WMax /\ h.next \in gr.toks /\ h.ctx \in gr.ctxs
    <3>1. 0 \in 0..WMax
      BY Numbers
    <3> QED BY <1>1, <1>3, <2>2, <3>1, Zenon
  <2>7. NodeCount(v) = NodeCount(gr)
    BY <2>4, Zenon DEF NodeCount
  <2>8. v = [toks |-> v.toks, ctxs |-> v.ctxs, names |-> v.names, edges |-> v.edges]
    BY <2>3, <2>4, Zenon
  <2>9. IsGraph(v)
    BY <1>1, <2>2, <2>4, <2>5, <2>6, <2>7, <2>8, Zenon DEF IsGraph
  <2> QED BY <2>2, <2>4, <2>9 DEF EdgedAs
<1> QED BY <1>2, <1>3

(* Giving an edge its weight.                                              *)
WeighedAs(v, gr, g, w) ==
  /\ IsGraph(v) /\ v.toks = gr.toks /\ v.ctxs = gr.ctxs /\ v.names = gr.names
  /\ DOMAIN v.edges = DOMAIN gr.edges /\ v.edges[g] = w
  /\ \A h \in DOMAIN gr.edges : h # g => v.edges[h] = gr.edges[h]

(* Only the weight changes.                                                *)
LEMMA WeighedIs ==
  ASSUME NEW gr, IsGraph(gr), NEW g \in DOMAIN gr.edges, NEW w \in 0..WMax
  PROVE  WeighedAs([gr EXCEPT !.edges[g] = w], gr, g, w)
<1> DEFINE v == [gr EXCEPT !.edges[g] = w]
<1>0. v = [gr EXCEPT !.edges[g] = w]
  OBVIOUS
<1> SUFFICES WeighedAs(v, gr, g, w)
  OBVIOUS
<1> HIDE DEF v
<1>1. /\ gr = [toks |-> gr.toks, ctxs |-> gr.ctxs, names |-> gr.names, edges |-> gr.edges]
      /\ IsFiniteSet(gr.toks) /\ IsFiniteSet(gr.ctxs) /\ gr.names \in Nat
      /\ NodeCount(gr) <= cfg.nodeCap /\ NodeCount(gr) <= gr.names
      /\ gr.names <= cfg.nameCap
      /\ IsFiniteSet(DOMAIN gr.edges) /\ Cardinality(DOMAIN gr.edges) <= cfg.edgeCap
      /\ gr.edges = [h \in DOMAIN gr.edges |-> gr.edges[h]]
      /\ \A h \in DOMAIN gr.edges :
           gr.edges[h] \in 0..WMax /\ h.next \in gr.toks /\ h.ctx \in gr.ctxs
  BY Zenon DEF IsGraph
<1> DEFINE u == [gr.edges EXCEPT ![g] = w]
<1>2. /\ DOMAIN u = DOMAIN gr.edges /\ u[g] = w
      /\ \A h \in DOMAIN gr.edges : h # g => u[h] = gr.edges[h]
      /\ u = [h \in DOMAIN u |-> u[h]]
  OBVIOUS
<1>3. v = [toks |-> gr.toks, ctxs |-> gr.ctxs, names |-> gr.names, edges |-> u]
  BY <1>0, <1>1
<1> HIDE DEF u
<1>4. v.toks = gr.toks /\ v.ctxs = gr.ctxs /\ v.names = gr.names /\ v.edges = u
  BY <1>3
<1>5. \A h \in DOMAIN u : u[h] \in 0..WMax /\ h.next \in gr.toks /\ h.ctx \in gr.ctxs
  BY <1>1, <1>2, Zenon
<1>6. NodeCount(v) = NodeCount(gr)
  BY <1>4, Zenon DEF NodeCount
<1>7. v = [toks |-> v.toks, ctxs |-> v.ctxs, names |-> v.names, edges |-> v.edges]
  BY <1>3, <1>4, Zenon
<1>8. IsGraph(v)
  <2>1. /\ IsFiniteSet(v.toks) /\ IsFiniteSet(v.ctxs) /\ v.names \in Nat
        /\ NodeCount(v) <= cfg.nodeCap /\ NodeCount(v) <= v.names /\ v.names <= cfg.nameCap
    BY <1>1, <1>4, <1>6, Zenon
  <2>2. /\ IsFiniteSet(DOMAIN v.edges) /\ Cardinality(DOMAIN v.edges) <= cfg.edgeCap
    BY <1>1, <1>2, <1>4, Zenon
  <2>3. v.edges = [h \in DOMAIN v.edges |-> v.edges[h]]
    BY <1>2, <1>4, Zenon
  <2>4. \A h \in DOMAIN v.edges :
          v.edges[h] \in 0..WMax /\ h.next \in v.toks /\ h.ctx \in v.ctxs
    BY <1>4, <1>5, Zenon
  <2> QED BY <1>7, <2>1, <2>2, <2>3, <2>4, Zenon DEF IsGraph
<1> QED BY <1>2, <1>4, <1>8 DEF WeighedAs

(* The values of a function with finitely many arguments are finitely many.*)
LEMMA FiniteValues ==
  ASSUME NEW f, IsFiniteSet(DOMAIN f)
  PROVE  IsFiniteSet({f[x] : x \in DOMAIN f})
<1> DEFINE S == DOMAIN f
           T == {f[x] : x \in S}
           h == [x \in S |-> f[x]]
<1>1. h \in [S -> T] /\ \A y \in T : \E x \in S : h[x] = y
  OBVIOUS
<1>2. h \in Surjection(S, T)
  <2> HIDE DEF h, T, S
  <2> QED BY <1>1, Fun_IsSurj
<1>3. IsFiniteSet(S)
  OBVIOUS
<1> HIDE DEF h, T, S
<1>4. IsFiniteSet(T)
  BY <1>2, <1>3, FS_Surjection
<1> QED BY <1>4 DEF T, S

(* The nodes that a text calls for.                                        *)
LEMMA TextIsFinite ==
  ASSUME cfg \in Configs
  PROVE  /\ IsFiniteSet(TextTokens) /\ IsFiniteSet(ContextsOf(TrueGrams))
         /\ TextTokens \subseteq 0..(Vocab - 1) /\ TextTokens \subseteq Nat
<1>1. DOMAIN Text = 1..Len(Text) /\ Len(Text) \in Nat /\ \A i \in 1..Len(Text) : Text[i] \in 0..(Vocab - 1)
  BY CfgFacts
<1>2. IsFiniteSet(1..Len(Text))
  BY <1>1, FS_Interval
<1>3. IsFiniteSet({Text[i] : i \in DOMAIN Text})
  BY <1>1, <1>2, FiniteValues
<1>4. IsFiniteSet(ContextsOf(TrueGrams))
  <2> DEFINE f == [g \in TrueGrams |-> g.ctx]
  <2>1. IsFiniteSet(TrueGrams)
    BY OccursAt
  <2>2. IsFiniteSet({f[g] : g \in DOMAIN f})
    <3>1. DOMAIN f = TrueGrams
      OBVIOUS
    <3> HIDE DEF f
    <3> QED BY <2>1, <3>1, FiniteValues
  <2>3. {f[g] : g \in DOMAIN f} = ContextsOf(TrueGrams)
    BY DEF ContextsOf
  <2> QED BY <2>2, <2>3
<1>5. TextTokens \subseteq 0..(Vocab - 1)
  BY <1>1 DEF TextTokens
<1>6. 0..(Vocab - 1) \subseteq Nat
  BY Numbers
<1> QED BY <1>3, <1>4, <1>5, <1>6 DEF TextTokens

(* How often the most frequent gram of a context was counted is a number.  *)
LEMMA MaxCountIs ==
  ASSUME NEW t, IsTable(t), NEW g \in Grams(t)
  PROVE  MaxCount(t, g.ctx) \in Nat
<1> DEFINE H == {h \in Grams(t) : h.ctx = g.ctx}
           f == [h \in H |-> t[h]]
           I == {t[h] : h \in H}
<1>1. IsFiniteSet(H)
  <2>1. H \subseteq Grams(t) /\ IsFiniteSet(Grams(t))
    BY DEF IsTable
  <2> QED BY <2>1, FS_Subset
<1>2. DOMAIN f = H /\ {f[h] : h \in DOMAIN f} = I
  OBVIOUS
<1>3. I \subseteq Nat /\ I # {}
  <2>1. g \in H /\ t[g] \in I
    OBVIOUS
  <2>2. \A h \in H : t[h] \in Nat
    BY DEF IsTable
  <2> QED BY <2>1, <2>2
<1>4. MaxCount(t, g.ctx) = Max(I)
  BY Zenon DEF MaxCount
<1>5. IsFiniteSet(I)
  <2> HIDE DEF f, H
  <2>1. IsFiniteSet({f[h] : h \in DOMAIN f})
    BY <1>1, <1>2, FiniteValues
  <2> HIDE DEF I
  <2> QED BY <1>2, <2>1
<1> HIDE DEF I
<1>6. Max(I) \in I
  BY <1>3, <1>5, MaxIsMost
<1> QED BY <1>3, <1>4, <1>6

(* Where it depends on nothing else, the graph is as it was.               *)
LEMMA GraphStays ==
  ASSUME cfg' = cfg, IsGraph(graph')
  PROVE  IsGraph(graph)'
BY Zenon DEF IsGraph, NodeCount

(* On the graph: the places that are read are tokens and grams of the text.*)
LEMMA OnlinePlace ==
  ASSUME cfg \in Configs, cfg.mode = "online", NEW p \in Stream
  PROVE  /\ p = <<p[1], p[2]>> /\ p[1] \in 1..Len(Text) /\ p[2] \in 0..cfg.order
         /\ GramAt(p).next = Text[p[1]] /\ Text[p[1]] \in TextTokens
         /\ p[2] = 0 => GramAt(p) \notin TrueGrams
         /\ p[2] # 0 => /\ p \in Real /\ GramAt(p) \in TrueGrams
                        /\ GramAt(p).ctx \in ContextsOf(TrueGrams)
                        /\ Step(GramAt(p).ctx) \in Nat \ {0}
<1>1. /\ p = <<p[1], p[2]>> /\ p[1] \in 1..Len(Text) /\ p[2] \in 0..cfg.order
      /\ DOMAIN Text = 1..Len(Text)
  BY StreamIs, CfgFacts
<1>2. GramAt(p).next = Text[p[1]]
  BY DEF GramAt
<1>3. Text[p[1]] \in TextTokens
  BY <1>1, Zenon DEF TextTokens
<1>4. ASSUME p[2] = 0 PROVE GramAt(p) \notin TrueGrams
  <2>1. SUFFICES ASSUME GramAt(p) \in TrueGrams PROVE FALSE
    OBVIOUS
  <2>2. PICK q \in Real : GramAt(p) = GramAt(q)
    <3>1. TrueGrams = {GramAt(r) : r \in Real}
      BY OccursAt
    <3> QED BY <2>1, <3>1, Zenon
  <2>3. GramAt(q).ctx # <<>> /\ GramAt(q) \in Gram
    BY RealIs
  <2>4. p[1] - 0 >= 1 /\ p = <<p[1], 0>> /\ 0 \in 0..cfg.order
    BY <1>1, <1>4
  <2>5. /\ GramAt(<<p[1], 0>>) = [ctx |-> SubSeq(Text, p[1] - 0, p[1] - 1), next |-> Text[p[1]]]
        /\ Len(SubSeq(Text, p[1] - 0, p[1] - 1)) = 0
        /\ SubSeq(Text, p[1] - 0, p[1] - 1) \in Seq(Nat)
    BY <1>1, <2>4, OrderAt
  <2>6. GramAt(p).ctx = SubSeq(Text, p[1] - 0, p[1] - 1)
    <3>1. GramAt(p) = [ctx |-> SubSeq(Text, p[1] - 0, p[1] - 1), next |-> Text[p[1]]]
      BY <2>4, <2>5, Zenon
    <3>2. \A c, t, h : h = [ctx |-> c, next |-> t] => h.ctx = c
      OBVIOUS
    <3> QED BY <3>1, <3>2, Zenon
  <2>7. GramAt(p).ctx = <<>>
    BY <2>5, <2>6, EmptySeq
  <2> QED BY <2>2, <2>3, <2>7, Zenon
<1>5. ASSUME p[2] # 0
      PROVE  /\ p \in Real /\ GramAt(p) \in TrueGrams
             /\ GramAt(p).ctx \in ContextsOf(TrueGrams)
             /\ Step(GramAt(p).ctx) \in Nat \ {0}
  <2>1. p \in Real
    BY <1>5, Zenon DEF Real
  <2>2. GramAt(p) \in TrueGrams
    BY <2>1, OccursAt, Zenon
  <2>3. 1 \in Nat \ {0} /\ 1 \in Nat
    OBVIOUS
  <2> QED BY <2>1, <2>2, <2>3, WeightIs, Zenon DEF ContextsOf
<1> QED BY <1>1, <1>2, <1>3, <1>4, <1>5

(* The graph keeps its limits, and no edge is without weight.              *)
LEMMA GraphStep ==
  ASSUME ShapeInv, StagesInv, JobsInv, CountsInv, RestInv, GraphInv, Next
  PROVE  GraphInv'
<1>1. cfg \in Configs /\ cfg' = cfg /\ IsGraph(graph)
  BY CfgStays, Zenon DEF ShapeInv, GraphInv
<1>2. \A h \in DOMAIN graph.edges : graph.edges[h] # 0
  BY Zenon DEF GraphInv
<1>3. ASSUME NEW v, graph' = v, IsGraph(v), \A h \in DOMAIN v.edges : v.edges[h] # 0
      PROVE  GraphInv'
  BY <1>1, <1>3, GraphStays, Zenon DEF GraphInv
<1>4. ASSUME NEW kind \in {"toks", "ctxs"}, NEW x, graph' = Named(graph, kind, x)
      PROVE  GraphInv'
  <2>1. IsGraph(graph') /\ graph'.edges = graph.edges
    BY <1>1, <1>4, NamedIs DEF NamedAs
  <2> QED BY <1>2, <1>3, <2>1, Zenon
<1>5. CASE graph' = graph
  BY <1>1, <1>2, <1>3, <1>5, Zenon
<1>6. CASE Token
  BY <1>4, <1>6, Zenon DEF Token
<1>7. CASE Context
  BY <1>4, <1>7, Zenon DEF Context
<1>8. ASSUME NEW gr, IsGraph(gr), gr.edges = graph.edges \/ gr = graph, NEW g, NEW w \in 0..WMax, w # 0,
             NEW v, v = IF g \in DOMAIN Edged(gr, g).edges
                        THEN [Edged(gr, g) EXCEPT !.edges[g] = w] ELSE Edged(gr, g),
             graph' = v
      PROVE  GraphInv'
  <2> DEFINE made == Edged(gr, g)
  <2>1. /\ IsGraph(made)
        /\ DOMAIN made.edges \in {DOMAIN gr.edges, DOMAIN gr.edges \cup {g}}
        /\ \A h \in DOMAIN gr.edges : made.edges[h] = gr.edges[h]
    <3>1. IsGraph(gr)
      BY <1>8
    <3>2. EdgedAs(made, gr, g)
      BY <1>1, <3>1, EdgedIs
    <3> QED BY <3>2 DEF EdgedAs
  <2> HIDE DEF made
  <2>2. \A h \in DOMAIN made.edges : h # g => made.edges[h] # 0
    BY <1>2, <1>8, <2>1
  <2>3. CASE g \in DOMAIN made.edges
    <3>1. v = [made EXCEPT !.edges[g] = w]
      BY <1>8, <2>3, Zenon DEF made
    <3>2. /\ IsGraph(v) /\ DOMAIN v.edges = DOMAIN made.edges /\ v.edges[g] = w
          /\ \A h \in DOMAIN made.edges : h # g => v.edges[h] = made.edges[h]
      BY <2>1, <2>3, <3>1, WeighedIs DEF WeighedAs
    <3>3. \A h \in DOMAIN v.edges : v.edges[h] # 0
      BY <1>8, <2>2, <3>2, Zenon
    <3> QED BY <1>3, <1>8, <3>2, <3>3, Zenon
  <2>4. CASE g \notin DOMAIN made.edges
    <3>1. v = made
      BY <1>8, <2>4, Zenon DEF made
    <3> QED BY <1>3, <1>8, <2>1, <2>2, <2>4, <3>1, Zenon
  <2> QED BY <2>3, <2>4
<1>9. ASSUME NEW gr, IsGraph(gr), NEW g, NEW made, made = Edged(gr, g), g \in DOMAIN made.edges
      PROVE  made.edges[g] \in 0..WMax
  BY <1>1, <1>9, EdgedIs, Zenon DEF IsGraph, EdgedAs
<1>10. CASE Online
  <2>1. cfg.mode = "online" /\ todo[Main] \subseteq Stream
    <3>1. cfg.mode \in {"online", "counted"} /\ pc = "online"
      BY <1>1, <1>10, CfgFacts DEF Online
    <3>2. cfg.mode = "online"
      BY <3>1 DEF StagesInv
    <3> QED BY <3>2 DEF ShapeInv
  <2> DEFINE p == First(todo[Main])
             g == GramAt(p)
             gr == Named(graph, "ctxs", g.ctx)
  <2>2. \/ graph' = graph
        \/ graph' = Named(graph, "toks", g.next)
        \/ todo[Main] # {} /\ p[2] # 0 /\ graph' = Raised(Edged(gr, g), g)
    BY <1>10, Zenon DEF Online
  <2>3. CASE graph' = Named(graph, "toks", g.next)
    BY <1>4, <2>3, Zenon
  <2>4. CASE todo[Main] # {} /\ p[2] # 0 /\ graph' = Raised(Edged(gr, g), g)
    <3>1. p \in Stream
      <4>1. todo[Main] \subseteq Nat \X Nat
        BY <1>1, <2>1, PlacesAreFinite
      <4> QED BY <2>1, <2>4, <4>1, FirstIn
    <3>2. Step(g.ctx) \in Nat \ {0}
      BY <1>1, <2>1, <2>4, <3>1, OnlinePlace
    <3>3. IsGraph(gr) /\ gr.edges = graph.edges
      BY <1>1, NamedIs DEF NamedAs
    <3> DEFINE made == Edged(gr, g)
    <3> HIDE DEF gr, g
    <3>4. g \in DOMAIN made.edges => made.edges[g] \in 0..WMax
      BY <3>3, <1>9
    <3> DEFINE w == IF g \in DOMAIN made.edges THEN Min({made.edges[g] + Step(g.ctx), WMax}) ELSE 1
    <3>5. w \in 0..WMax /\ w # 0
      <4>1. CASE g \in DOMAIN made.edges
        <5>1. WMax \in Nat \ {0} /\ made.edges[g] \in Nat
          BY <3>4, <4>1, Numbers
        <5> DEFINE a == made.edges[g] + Step(g.ctx)
        <5>2. a \in Nat \ {0}
          BY <3>2, <5>1
        <5> HIDE DEF a
        <5>3. Min({a, WMax}) = IF a <= WMax THEN a ELSE WMax
          BY <5>1, <5>2, MinTwo
        <5>4. w = Min({a, WMax})
          BY <4>1, Zenon DEF a
        <5> HIDE DEF w
        <5> QED BY <5>1, <5>2, <5>3, <5>4
      <4>2. CASE g \notin DOMAIN made.edges
        BY <4>2, Numbers
      <4> QED BY <4>1, <4>2
    <3>6. graph' = IF g \in DOMAIN made.edges THEN [made EXCEPT !.edges[g] = w] ELSE made
      <4>1. CASE g \in DOMAIN made.edges
        <5>1. graph' = [made EXCEPT !.edges[g] = Min({@ + Step(g.ctx), WMax})]
          BY <2>4, <4>1, Zenon DEF Raised
        <5> HIDE DEF made
        <5> QED BY <4>1, <5>1
      <4>2. CASE g \notin DOMAIN made.edges
        BY <2>4, <4>2, Zenon DEF Raised
      <4> QED BY <4>1, <4>2
    <3> HIDE DEF w
    <3> QED BY <1>8, <3>3, <3>5, <3>6, Zenon
  <2> QED BY <1>5, <2>2, <2>3, <2>4
<1>11. CASE Edge
  <2>1. PICK g \in rest :
          graph' = IF Weight(g, table[Main][g], MaxCount(table[Main], g.ctx)) < 1 THEN graph
                   ELSE Materialised(graph, g,
                          Weight(g, table[Main][g], MaxCount(table[Main], g.ctx)))
    BY <1>11, Zenon DEF Edge
  <2> DEFINE c == table[Main][g]
             m == MaxCount(table[Main], g.ctx)
             weight == Weight(g, c, m)
             made == Edged(graph, g)
  <2>2. g \in Grams(table[Main]) /\ IsTable(table[Main]) /\ Grams(table[Main]) \subseteq TrueGrams
    BY <1>11, Zenon DEF Edge, RestInv, CountsInv
  <2>3. c \in Nat \ {0} /\ m \in Nat /\ g \in TrueGrams
    BY <2>2, MaxCountIs DEF IsTable
  <2>4. weight \in 0..WMax
    <3> HIDE DEF c, m
    <3> QED BY <1>1, <2>3, WeightIs
  <2>5. g \in DOMAIN made.edges => made.edges[g] \in 0..WMax
    BY <1>1, <1>9
  <2>6. graph' = IF weight < 1 THEN graph ELSE Materialised(graph, g, weight)
    BY <2>1, Zenon
  <2> HIDE DEF weight
  <2>7. CASE weight < 1
    BY <1>5, <2>6, <2>7, Zenon
  <2>8. CASE ~(weight < 1)
    <3> DEFINE w == IF g \in DOMAIN made.edges THEN Max({made.edges[g], weight}) ELSE 1
    <3>1. w \in 0..WMax /\ w # 0
      <4>1. CASE g \in DOMAIN made.edges
        <5> DEFINE a == made.edges[g]
        <5>1. WMax \in Nat \ {0} /\ a \in 0..WMax
          BY <2>5, <4>1, Numbers
        <5> HIDE DEF a
        <5>2. Max({a, weight}) = IF a <= weight THEN weight ELSE a
          BY <2>4, <5>1, MinTwo
        <5>3. w = Max({a, weight})
          BY <4>1, Zenon DEF a
        <5> HIDE DEF w
        <5> QED BY <2>4, <2>8, <5>1, <5>2, <5>3
      <4>2. CASE g \notin DOMAIN made.edges
        BY <4>2, Numbers
      <4> QED BY <4>1, <4>2
    <3>2. graph' = IF g \in DOMAIN made.edges THEN [made EXCEPT !.edges[g] = w] ELSE made
      <4>1. CASE g \in DOMAIN made.edges
        <5>1. graph' = [made EXCEPT !.edges[g] = Max({@, weight})]
          BY <2>6, <2>8, <4>1, Zenon DEF Materialised
        <5> HIDE DEF made
        <5> QED BY <4>1, <5>1
      <4>2. CASE g \notin DOMAIN made.edges
        BY <2>6, <2>8, <4>2, Zenon DEF Materialised
      <4> QED BY <4>1, <4>2
    <3> HIDE DEF w
    <3> QED BY <1>1, <1>8, <3>1, <3>2, Zenon
  <2> QED BY <2>7, <2>8
<1> QED BY <1>5, <1>6, <1>7, <1>10, <1>11, Zenon DEF Next, Start, Tokens, Serial, Exhausted,
     Spawn, Inlined, Spawned, Count, OutOfMemory, Join, Joined, Merge, Merged, Counted,
     Contexts, Done, result

(* Counting is over, and main has what all jobs have counted.              *)
Finished == IF NJobs = 1 THEN todo[Main] = {} /\ pc \notin {"start", "tokens"}
            ELSE cur = NJobs + 1 /\ pc \in {"merge"} \cup Ready

(* Then, if no limit was met, every gram has its count.                    *)
LEMMA ExactTable ==
  ASSUME ShapeInv, StagesInv, JobsInv, CountsInv, cfg.mode = "counted", Room, ~spoilt,
         pc \notin {"failed", "crashed"}, Finished
  PROVE  table[Main] = TrueCounts
<1>1. cfg \in Configs
  BY DEF ShapeInv
<1>2. /\ NJobs \in Jobs /\ NJobs \in Nat \ {0} /\ Jobs = 1..MaxJobs /\ MaxJobs \in Nat
      /\ 1..NJobs \subseteq Jobs /\ \A i \in Jobs : i \in Nat
  <2>1. NJobs \in Jobs
    BY <1>1, Ranges
  <2>2. Jobs = 1..MaxJobs /\ MaxJobs \in Nat
    BY Numbers
  <2> QED BY <2>1, <2>2
<1>3. ASSUME NEW g \in TrueGrams PROVE Own(Main, g) = Whole
  <2>1. Own(Main, g) \subseteq Whole
    BY <1>1, OwnIn
  <2>2. CASE NJobs = 1
    <3>1. Serially = Whole
      <4>1. Whole \ {} = Whole
        OBVIOUS
      <4> QED BY <2>2, <4>1, Zenon DEF Serially, Finished
    <3>2. Serially \subseteq Own(Main, g)
      BY Zenon DEF Own
    <3> QED BY <2>1, <3>1, <3>2
  <2>3. CASE NJobs # 1
    <3>1. cur = NJobs + 1 /\ pc \in Past
      BY <2>3 DEF Finished, Past, Ready
    <3>2. ASSUME NEW q \in Whole PROVE q \in Own(Main, g)
      <4>1. PICK i \in 1..NJobs : q \in Mine(i)
        BY <1>1, MineMeet, Zenon
      <4>2. i \in Jobs /\ i < cur /\ i <= NJobs
        BY <1>2, <3>1
      <4>3. thread[i] # "none" /\ todo[i] = {}
        BY <2>3, <4>2, Zenon DEF JobsInv, JobInv, Finished
      <4>4. q \in From(i)
        BY <4>1, <4>3, Zenon DEF From
      <4>5. Taken(i, g)
        BY <3>1, <4>2, Zenon DEF Taken
      <4> QED BY <4>2, <4>4, <4>5, Zenon DEF Own
    <3> QED BY <2>1, <3>2
  <2> QED BY <2>2, <2>3
<1>4. Real = Whole
  BY Zenon DEF Real
<1>5. ASSUME NEW g \in TrueGrams
      PROVE  g \in Grams(table[Main]) /\ table[Main][g] = Occurs(g)
  <2>1. Exact(Main)
    BY Zenon DEF Exact, Smooth
  <2>2. Tally(table[Main], g) = Cardinality(At(g, Own(Main, g)))
    BY <2>1, Zenon DEF CountsInv, Fair
  <2>3. Tally(table[Main], g) = Occurs(g)
    BY <1>1, <1>3, <1>4, <2>2, OccursAt, Zenon
  <2>4. Occurs(g) >= 1
    BY <1>1, OccursAt
  <2>5. Tally(table[Main], g) # 0
    BY <2>3, <2>4
  <2> QED BY <2>3, <2>5, Zenon DEF Tally
<1>6. /\ Grams(table[Main]) \subseteq TrueGrams
      /\ table[Main] = [g \in Grams(table[Main]) |-> table[Main][g]]
  BY Zenon DEF CountsInv, IsTable
<1>7. Grams(table[Main]) = TrueGrams
  BY <1>5, <1>6
<1>8. [g \in TrueGrams |-> table[Main][g]] = [g \in TrueGrams |-> Occurs(g)]
  BY <1>5
<1> QED BY <1>6, <1>7, <1>8, Zenon DEF TrueCounts

(* Of the nodes that a text calls for, there is room for the last.         *)
LEMMA RoomFor ==
  ASSUME cfg \in Configs, Fits, NEW gr, gr.toks \subseteq TextTokens,
         gr.ctxs \subseteq ContextsOf(TrueGrams), NEW x,
         \/ x \in TextTokens \ gr.toks
         \/ x \in ContextsOf(TrueGrams) \ gr.ctxs
  PROVE  NodeCount(gr) < cfg.nodeCap /\ NodeCount(gr) < cfg.nameCap
<1> DEFINE T == TextTokens
           C == ContextsOf(TrueGrams)
<1>1. /\ IsFiniteSet(T) /\ IsFiniteSet(C)
  BY TextIsFinite
<1>2. /\ Cardinality(T) \in Nat /\ Cardinality(C) \in Nat
      /\ Cardinality(gr.toks) \in Nat /\ Cardinality(gr.ctxs) \in Nat
      /\ Cardinality(gr.toks) <= Cardinality(T) /\ Cardinality(gr.ctxs) <= Cardinality(C)
      /\ Cardinality(gr.toks) = Cardinality(T) => gr.toks = T
      /\ Cardinality(gr.ctxs) = Cardinality(C) => gr.ctxs = C
  BY <1>1, FS_Subset, FS_CardinalityType
<1>3. /\ Cardinality(T) + Cardinality(C) <= cfg.nodeCap
      /\ Cardinality(T) + Cardinality(C) <= cfg.nameCap
  BY Zenon DEF Fits, TextTokens, ContextsOf
<1>4. NodeCount(gr) = Cardinality(gr.toks) + Cardinality(gr.ctxs)
  BY Zenon DEF NodeCount
<1>5. gr.toks # T \/ gr.ctxs # C
  OBVIOUS
<1>6. cfg.nodeCap \in Nat /\ cfg.nameCap \in Nat
  BY CfgFacts
<1> HIDE DEF T, C
<1> QED BY <1>2, <1>3, <1>4, <1>5, <1>6

(* Of the edges that a text calls for, there is room for the last.         *)
LEMMA RoomForEdge ==
  ASSUME cfg \in Configs, Fits, NEW E, E \subseteq TrueEdges, NEW g \in TrueEdges
  PROVE  g \in E \/ Cardinality(E) < cfg.edgeCap
<1>1. IsFiniteSet(TrueEdges)
  <2>1. TrueEdges \subseteq TrueGrams /\ IsFiniteSet(TrueGrams)
    BY OccursAt DEF TrueEdges
  <2> QED BY <2>1, FS_Subset
<1>2. /\ Cardinality(TrueEdges) \in Nat /\ Cardinality(E) \in Nat
      /\ Cardinality(E) <= Cardinality(TrueEdges)
      /\ Cardinality(E) = Cardinality(TrueEdges) => E = TrueEdges
  BY <1>1, FS_Subset, FS_CardinalityType
<1>3. Cardinality(TrueEdges) <= cfg.edgeCap /\ cfg.edgeCap \in Nat
  BY CfgFacts, Zenon DEF Fits
<1> QED BY <1>2, <1>3

(* The weight that a gram is due.                                          *)
LEMMA TrueWeightIs ==
  ASSUME cfg \in Configs, NEW g \in TrueGrams
  PROVE  /\ TrueWeight(g) \in 0..WMax
         /\ ~cfg.norm => /\ TrueWeight(g) = Min({Step(g.ctx) * Occurs(g), WMax})
                         /\ TrueWeight(g) # 0 /\ g \in TrueEdges
<1>1. IsTable(TrueCounts) /\ g \in Grams(TrueCounts)
  <2>1. /\ IsFiniteSet(TrueGrams) /\ TrueGrams \subseteq Gram
        /\ \A h \in TrueGrams : Occurs(h) \in Nat \ {0}
    <3>1. \A h \in TrueGrams : Occurs(h) \in Nat /\ Occurs(h) >= 1
      BY OccursAt
    <3> QED BY <3>1, OccursAt
  <2>2. Grams(TrueCounts) = TrueGrams /\ \A h \in TrueGrams : TrueCounts[h] = Occurs(h)
    BY Zenon DEF Grams, TrueCounts
  <2>3. TrueCounts = [h \in Grams(TrueCounts) |-> TrueCounts[h]]
    <3>1. TrueCounts = [h \in TrueGrams |-> Occurs(h)]
      BY Zenon DEF TrueCounts
    <3> QED BY <2>2, <3>1
  <2> QED BY <2>1, <2>2, <2>3, Zenon DEF IsTable
<1>2. MaxCount(TrueCounts, g.ctx) \in Nat
  BY <1>1, MaxCountIs
<1>3. Occurs(g) \in Nat \ {0}
  <2>1. Occurs(g) \in Nat /\ Occurs(g) >= 1
    BY OccursAt
  <2> QED BY <2>1
<1> DEFINE m == MaxCount(TrueCounts, g.ctx)
           c == Occurs(g)
<1>4. TrueWeight(g) = Weight(g, c, m)
  BY Zenon DEF TrueWeight
<1> HIDE DEF m
<1>5. /\ Weight(g, c, m) \in 0..WMax
      /\ ~cfg.norm => /\ Weight(g, c, m) = Min({Step(g.ctx) * c, WMax})
                      /\ Weight(g, c, m) # 0
  <2>1. c \in Nat \ {0} /\ m \in Nat
    BY <1>2, <1>3 DEF m
  <2> HIDE DEF c
  <2> QED BY <2>1, WeightIs
<1>6. TrueWeight(g) \in 0..WMax
  BY <1>4, <1>5
<1>7. ~cfg.norm => TrueWeight(g) # 0 /\ TrueWeight(g) = Min({Step(g.ctx) * Occurs(g), WMax})
  BY <1>4, <1>5, Zenon
<1>8. TrueWeight(g) # 0 => g \in TrueEdges
  <2>1. TrueWeight(g) # 0 => TrueWeight(g) > 0
    BY <1>6, Numbers
  <2> QED BY <2>1, Zenon DEF TrueEdges
<1> QED BY <1>6, <1>7, <1>8

(* What the graph has at each stage, where no limit is met.                *)
Built(p, r, gr) ==
  /\ p = "start" => gr.toks = {}
  /\ p = "tokens" => gr.toks = TextTokens \ r
  /\ p \notin {"start", "tokens", "failed", "crashed"} => gr.toks = TextTokens
  /\ p \notin {"contexts", "edges", "done", "failed", "crashed"} => gr.ctxs = {}
  /\ p \notin {"edges", "done"} => DOMAIN gr.edges = {}
  /\ p \notin {"failed", "crashed"} => gr.names = NodeCount(gr)
  /\ p = "contexts" => gr.ctxs = ContextsOf(TrueGrams) \ r
  /\ p \in {"edges", "done"} => gr.ctxs = ContextsOf(TrueGrams)
  /\ p = "edges" => DOMAIN gr.edges = TrueEdges \ r
  /\ p = "done" => DOMAIN gr.edges = TrueEdges
  /\ \A g \in DOMAIN gr.edges : gr.edges[g] = TrueWeight(g)

(* That is what CountedGraph says.                                         *)
LEMMA BuiltIs ==
  ASSUME cfg' = cfg
  PROVE  /\ CountedGraph <=> (cfg.mode = "counted" /\ Fits => Built(pc, rest, graph))
         /\ CountedGraph' <=> (cfg.mode = "counted" /\ Fits => Built(pc', rest', graph'))
<1>1. CountedGraph <=> (cfg.mode = "counted" /\ Fits => Built(pc, rest, graph))
  BY Zenon DEF CountedGraph, Built
<1>2. /\ TrueGrams' = TrueGrams /\ TrueEdges' = TrueEdges /\ Fits' = Fits
      /\ \A g : TrueWeight(g)' = TrueWeight(g)
  BY StaticTruth
<1>3. TextTokens' = TextTokens
  BY Zenon DEF TextTokens, Text
<1>4. ContextsOf(TrueGrams)' = ContextsOf(TrueGrams) /\ NodeCount(graph)' = NodeCount(graph')
  BY <1>2, Zenon DEF ContextsOf, NodeCount
<1>5. (cfg.mode = "counted" /\ Fits => Built(pc, rest, graph))'
        <=> (cfg.mode = "counted" /\ Fits => Built(pc', rest', graph'))
  BY <1>2, <1>3, <1>4, Zenon DEF Built
<1>6. CountedGraph' <=> (cfg.mode = "counted" /\ Fits => Built(pc, rest, graph))'
  BY Zenon DEF CountedGraph, Built
<1> QED BY <1>1, <1>5, <1>6, Zenon

(* Every step builds what it should.                                       *)
LEMMA CountedStep ==
  ASSUME ShapeInv, StagesInv, JobsInv, CountsInv, RestInv, GraphInv, CountedGraph, Next
  PROVE  CountedGraph'
<1>1. cfg \in Configs /\ cfg' = cfg /\ IsGraph(graph)
  BY CfgStays, Zenon DEF ShapeInv, GraphInv
<1>2. SUFFICES ASSUME cfg.mode = "counted", Fits PROVE Built(pc', rest', graph')
  BY <1>1, BuiltIs, Zenon
<1>3. Built(pc, rest, graph)
  BY <1>1, <1>2, BuiltIs, Zenon
<1>4. Room
  BY <1>2, Zenon DEF Room, Fits
<1>5. CASE Start
  <2>1. pc = "start" /\ pc' = "tokens" /\ graph' = graph /\ rest' = TextTokens
    BY <1>2, <1>5, Zenon DEF Start, TextTokens
  <2> QED BY <1>3, <2>1 DEF Built
<1>6. CASE Token
  <2> DEFINE t == Min(rest)
  <2>1. /\ pc = "tokens" /\ rest # {} /\ graph' = Named(graph, "toks", t) /\ rest' = rest \ {t}
        /\ pc' = IF t \in graph'.toks THEN pc ELSE "failed"
    BY <1>6, Zenon DEF Token
  <2>2. rest \subseteq TextTokens /\ t \in rest
    <3>1. rest \subseteq TextTokens
      BY <2>1 DEF RestInv
    <3>2. rest \subseteq Nat
      BY <1>1, <3>1, TextIsFinite
    <3> QED BY <2>1, <3>1, <3>2, MinIsLeast
  <2> HIDE DEF t
  <2>3. /\ graph.toks = TextTokens \ rest /\ graph.ctxs = {} /\ DOMAIN graph.edges = {}
        /\ graph.names = NodeCount(graph)
    BY <1>3, <2>1 DEF Built
  <2>4. NodeCount(graph) < cfg.nodeCap /\ NodeCount(graph) < cfg.nameCap
    BY <1>1, <1>2, <2>2, <2>3, RoomFor
  <2>5. /\ graph'.names = NodeCount(graph') /\ graph'.toks = graph.toks \cup {t}
        /\ graph'.edges = graph.edges /\ graph'.ctxs = graph.ctxs
    <3>1. NamedAs(graph', graph, "toks", t)
      BY <1>1, <2>1, NamedIs
    <3> QED BY <2>3, <2>4, <3>1 DEF NamedAs
  <2>6. pc' = "tokens" /\ graph'.toks = TextTokens \ rest'
    BY <2>1, <2>2, <2>3, <2>5
  <2> QED BY <2>3, <2>5, <2>6 DEF Built
<1>7. CASE Tokens
  <2>1. pc = "tokens" /\ rest = {} /\ pc' \in {"serial", "spawn"} /\ graph' = graph
    BY <1>7, Zenon DEF Tokens, result
  <2> QED BY <1>3, <2>1 DEF Built
<1>8. CASE \/ Serial \/ Exhausted \/ Spawn \/ Inlined \/ Spawned \/ Join \/ Joined \/ Merge \/ Merged
           \/ \E j \in Jobs : Count(j) \/ OutOfMemory(j)
  <2>1. graph' = graph
    BY <1>8, Zenon DEF Serial, Exhausted, Spawn, Inlined, Spawned, Join, Joined, Merge, Merged,
       Count, OutOfMemory, result
  <2>2. pc' = pc \/ (/\ pc \in {"serial", "spawn", "inline", "join", "merge"}
                     /\ pc' \in {"serial", "spawn", "inline", "join", "merge", "failed", "crashed"})
    BY <1>8, Zenon DEF Serial, Exhausted, Spawn, Inlined, Spawned, Join, Joined, Merge, Merged,
       Count, OutOfMemory
  <2>3. rest' = rest
    BY <1>8, Zenon DEF Serial, Exhausted, Spawn, Inlined, Spawned, Join, Joined, Merge, Merged,
       Count, OutOfMemory, result
  <2> QED BY <1>3, <2>1, <2>2, <2>3 DEF Built
<1>9. ASSUME ~spoilt, pc \notin {"failed", "crashed"}, Finished PROVE table[Main] = TrueCounts
  BY <1>2, <1>4, <1>9, ExactTable
<1>10. Grams(TrueCounts) = TrueGrams /\ \A g \in TrueGrams : TrueCounts[g] = Occurs(g)
  BY Zenon DEF Grams, TrueCounts
<1>11. pc \in Ready => Grams(table[Main]) = TrueGrams /\ table[Main] = TrueCounts
  <2>1. pc \in Ready => ~spoilt /\ pc \notin {"failed", "crashed"} /\ Finished
    BY <1>2 DEF StagesInv, Finished, Ready
  <2> QED BY <1>9, <1>10, <2>1, Zenon
<1>12. CASE Counted
  <2>1. pc \in {"serial", "merge"} /\ graph' = graph
    BY <1>12, Zenon DEF Counted
  <2>2. CASE spoilt
    <3>1. pc' = "failed"
      BY <1>12, <2>2, Zenon DEF Counted
    <3> QED BY <1>3, <2>1, <3>1 DEF Built
  <2>3. CASE ~spoilt
    <3>1. pc' = "contexts" /\ rest' = ContextsOf(Grams(table[Main]))
      BY <1>12, <2>3, Zenon DEF Counted, ContextsOf
    <3>2. Finished
      <4>1. NJobs \in Nat
        BY <1>1, Ranges, Numbers
      <4>2. CASE pc = "serial" /\ todo[Main] = {}
        <5>1. NJobs = 1
          BY <4>2 DEF StagesInv
        <5> QED BY <4>2, <5>1 DEF Finished
      <4>3. CASE pc = "merge" /\ cur > NJobs
        <5>1. NJobs # 1 /\ cur \in 1..(NJobs + 1)
          BY <4>3 DEF StagesInv
        <5>2. cur = NJobs + 1
          BY <4>1, <4>3, <5>1
        <5> QED BY <4>3, <5>1, <5>2 DEF Finished
      <4> QED BY <1>12, <4>2, <4>3, Zenon DEF Counted
    <3>3. Grams(table[Main]) = TrueGrams
      BY <1>9, <1>10, <2>1, <2>3, <3>2, Zenon
    <3> QED BY <1>3, <2>1, <3>1, <3>3 DEF Built
  <2> QED BY <2>2, <2>3
<1>13. CASE Context
  <2>1. PICK c \in rest : graph' = Named(graph, "ctxs", c) /\ rest' = rest \ {c}
    BY <1>13, Zenon DEF Context
  <2>2. pc = "contexts" /\ pc' = "contexts"
    BY <1>13, Zenon DEF Context
  <2>3. rest \subseteq ContextsOf(TrueGrams)
    BY <1>11, <2>2, Zenon DEF RestInv, Ready
  <2>4. /\ graph.toks = TextTokens /\ graph.ctxs = ContextsOf(TrueGrams) \ rest
        /\ DOMAIN graph.edges = {} /\ graph.names = NodeCount(graph)
    BY <1>3, <2>2 DEF Built
  <2>5. NodeCount(graph) < cfg.nodeCap /\ NodeCount(graph) < cfg.nameCap
    <3>1. c \in ContextsOf(TrueGrams) \ graph.ctxs /\ graph.toks \subseteq TextTokens
          /\ graph.ctxs \subseteq ContextsOf(TrueGrams)
      BY <2>1, <2>3, <2>4
    <3> QED BY <1>1, <1>2, <3>1, RoomFor
  <2>6. /\ graph'.names = NodeCount(graph') /\ graph'.ctxs = graph.ctxs \cup {c}
        /\ graph'.edges = graph.edges /\ graph'.toks = graph.toks
    <3>1. NamedAs(graph', graph, "ctxs", c)
      BY <1>1, <2>1, NamedIs
    <3> QED BY <2>4, <2>5, <3>1 DEF NamedAs
  <2>7. graph'.ctxs = ContextsOf(TrueGrams) \ rest'
    BY <2>1, <2>3, <2>4, <2>6
  <2> QED BY <2>2, <2>4, <2>6, <2>7 DEF Built
<1>14. CASE Contexts
  <2>1. /\ pc = "contexts" /\ pc' = "edges" /\ graph' = graph /\ rest = {}
        /\ rest' = Grams(table[Main])
    BY <1>14, Zenon DEF Contexts
  <2>2. rest' = TrueGrams /\ TrueEdges \subseteq TrueGrams
    BY <1>11, <2>1 DEF Ready, TrueEdges
  <2> QED BY <1>3, <2>1, <2>2 DEF Built
<1>15. CASE Edge
  <2>1. pc = "edges" /\ pc' = "edges"
    BY <1>15, Zenon DEF Edge
  <2>2. Grams(table[Main]) = TrueGrams /\ table[Main] = TrueCounts /\ rest \subseteq TrueGrams
    BY <1>11, <2>1, Zenon DEF RestInv, Ready
  <2>3. PICK g \in rest :
          /\ graph' = IF Weight(g, table[Main][g], MaxCount(table[Main], g.ctx)) < 1 THEN graph
                      ELSE Materialised(graph, g,
                             Weight(g, table[Main][g], MaxCount(table[Main], g.ctx)))
          /\ rest' = rest \ {g}
    BY <1>15, Zenon DEF Edge
  <2> DEFINE w == TrueWeight(g)
  <2>4. g \in TrueGrams /\ w \in 0..WMax
    BY <1>1, <2>2, <2>3, TrueWeightIs
  <2>5. Weight(g, table[Main][g], MaxCount(table[Main], g.ctx)) = w
    BY <1>10, <2>2, <2>4, Zenon DEF TrueWeight
  <2>6. graph' = IF w < 1 THEN graph ELSE Materialised(graph, g, w)
    BY <2>3, <2>5, Zenon
  <2>7. /\ graph.toks = TextTokens /\ graph.ctxs = ContextsOf(TrueGrams)
        /\ DOMAIN graph.edges = TrueEdges \ rest /\ graph.names = NodeCount(graph)
        /\ \A h \in DOMAIN graph.edges : graph.edges[h] = TrueWeight(h)
    BY <1>3, <2>1 DEF Built
  <2>8. CASE w < 1
    <3>1. graph' = graph
      BY <2>6, <2>8, Zenon
    <3>2. g \notin TrueEdges
      <4>1. ~(w > 0)
        BY <2>4, <2>8, Numbers
      <4> QED BY <4>1, Zenon DEF TrueEdges
    <3>3. TrueEdges \ rest' = TrueEdges \ rest
      BY <2>3, <3>2
    <3> QED BY <2>1, <2>7, <3>1, <3>3 DEF Built
  <2>9. CASE ~(w < 1)
    <3> DEFINE made == Edged(graph, g)
    <3>1. g \in TrueEdges /\ g \notin DOMAIN graph.edges
      <4>1. w > 0
        BY <2>4, <2>9, Numbers
      <4>2. g \in TrueEdges
        BY <2>4, <4>1, Zenon DEF TrueEdges
      <4> QED BY <2>3, <2>7, <4>2
    <3>2. Cardinality(DOMAIN graph.edges) < cfg.edgeCap
      <4>1. DOMAIN graph.edges \subseteq TrueEdges
        BY <2>7
      <4> QED BY <1>1, <1>2, <3>1, <4>1, RoomForEdge
    <3>3. g.next \in graph.toks /\ g.ctx \in graph.ctxs
      <4>1. PICK p \in Real : g = GramAt(p)
        BY <1>1, <2>4, OccursAt, Zenon
      <4>2. g.next = Text[p[1]] /\ p[1] \in DOMAIN Text
        BY <1>1, <4>1, RealIs, CfgFacts
      <4> QED BY <2>4, <2>7, <4>2, Zenon DEF TextTokens, ContextsOf
    <3>4. /\ IsGraph(made) /\ made.toks = graph.toks /\ made.ctxs = graph.ctxs
          /\ made.names = graph.names /\ DOMAIN made.edges = DOMAIN graph.edges \cup {g}
          /\ made.edges[g] = 0 /\ \A h \in DOMAIN graph.edges : made.edges[h] = graph.edges[h]
      <4>1. EdgedAs(made, graph, g)
        BY <1>1, EdgedIs
      <4> HIDE DEF made
      <4> QED BY <3>1, <3>2, <3>3, <4>1 DEF EdgedAs
    <3> HIDE DEF made
    <3>5. graph' = [made EXCEPT !.edges[g] = w]
      <4>1. graph' = [made EXCEPT !.edges[g] = Max({@, w})]
        BY <2>6, <2>9, <3>4, Zenon DEF Materialised, made
      <4>2. Max({0, w}) = w
        BY <2>4, MinTwo
      <4>3. graph' = [made EXCEPT !.edges[g] = Max({made.edges[g], w})]
        <5> HIDE DEF w
        <5> QED BY <3>4, <4>1
      <4> QED BY <3>4, <4>2, <4>3, Zenon
    <3>6. /\ graph'.toks = graph.toks /\ graph'.ctxs = graph.ctxs /\ graph'.names = graph.names
          /\ DOMAIN graph'.edges = DOMAIN graph.edges \cup {g} /\ graph'.edges[g] = w
          /\ \A h \in DOMAIN graph.edges : graph'.edges[h] = graph.edges[h]
      <4>1. g \in DOMAIN made.edges
        BY <3>4
      <4>2. WeighedAs(graph', made, g, w)
        <5> HIDE DEF w
        <5>1. w \in 0..WMax
          BY <2>4 DEF w
        <5> QED BY <3>4, <3>5, <4>1, <5>1, WeighedIs
      <4> HIDE DEF w
      <4> QED BY <3>1, <3>4, <4>2 DEF WeighedAs
    <3>7. NodeCount(graph') = NodeCount(graph)
      BY <3>6, Zenon DEF NodeCount
    <3>8. DOMAIN graph'.edges = TrueEdges \ rest'
      BY <2>3, <2>7, <3>1, <3>6
    <3>9. \A h \in DOMAIN graph'.edges : graph'.edges[h] = TrueWeight(h)
      BY <2>7, <3>6, Zenon
    <3> HIDE DEF w
    <3> QED BY <2>1, <2>7, <3>6, <3>7, <3>8, <3>9 DEF Built
  <2> QED BY <2>8, <2>9
<1>16. CASE Done
  <2>1. pc = "edges" /\ pc' = "done" /\ graph' = graph /\ rest = {}
    BY <1>16, Zenon DEF Done, result
  <2> QED BY <1>3, <2>1 DEF Built
<1>17. ~Online
  <2>1. pc # "online"
    BY <1>2 DEF StagesInv
  <2> QED BY <2>1, Zenon DEF Online
<1> QED BY <1>5, <1>6, <1>7, <1>8, <1>12, <1>13, <1>14, <1>15, <1>16, <1>17, Zenon DEF Next

(* What the graph has after some places of the text, trained one by one,   *)
(* where no limit is met.                                                  *)
Grown(S, gr) ==
  /\ gr.names = NodeCount(gr)
  /\ gr.toks = {Text[p[1]] : p \in {p \in S : p[2] = 0}}
  /\ gr.ctxs = {GramAt(p).ctx : p \in {p \in S : p[2] # 0}}
  /\ DOMAIN gr.edges = {GramAt(p) : p \in {p \in S : p[2] # 0}}
  /\ \A g \in DOMAIN gr.edges :
       gr.edges[g] = Min({Step(g.ctx) * Cardinality(At(g, S)), WMax})

(* That is what OnlineGraph says.                                          *)
LEMMA GrownIs ==
  ASSUME cfg' = cfg
  PROVE  /\ OnlineGraph <=> (cfg.mode = "online" /\ Fits => Grown(Seen, graph))
         /\ OnlineGraph' <=> (cfg.mode = "online" /\ Fits => Grown(Seen', graph'))
<1>1. OnlineGraph <=> (cfg.mode = "online" /\ Fits => Grown(Seen, graph))
  BY Zenon DEF OnlineGraph, Grown, SeenGrams
<1>2. (\A p : GramAt(p)' = GramAt(p)) /\ Fits' = Fits /\ Text' = Text
  BY Static, StaticTruth DEF Text
<1>3. \A g : At(g, Seen)' = At(g, Seen')
  BY <1>2, Zenon DEF At
<1>4. NodeCount(graph)' = NodeCount(graph') /\ \A g : Step(g.ctx)' = Step(g.ctx)
  BY Zenon DEF NodeCount, Step, OrderStep, Order
<1>5. (cfg.mode = "online" /\ Fits => Grown(Seen, graph))'
        <=> (cfg.mode = "online" /\ Fits => Grown(Seen', graph'))
  BY <1>2, <1>3, <1>4, Zenon DEF Grown
<1>6. OnlineGraph' <=> (cfg.mode = "online" /\ Fits => Grown(Seen, graph))'
  BY Zenon DEF OnlineGraph, Grown, SeenGrams
<1> QED BY <1>1, <1>5, <1>6, Zenon

(* The weight of an edge that has grown c times, and grows once more.      *)
LEMMA OnceMore ==
  ASSUME NEW s \in Nat \ {0}, NEW c \in Nat
  PROVE  /\ Min({Min({s * c, WMax}) + s, WMax}) = Min({s * (c + 1), WMax})
         /\ Min({0 + s, WMax}) = Min({s * 1, WMax})
<1>1. WMax \in Nat \ {0}
  BY Numbers
<1>2. s * c \in Nat /\ s * (c + 1) = s * c + s
  <2>1. c * s \in Nat /\ s * c = c * s /\ (c + 1) * s = c * s + s
    BY Times
  <2>2. s * (c + 1) = (c + 1) * s
    BY Times
  <2> QED BY <2>1, <2>2
<1> DEFINE a == s * c
<1>3. a \in Nat /\ s * (c + 1) = a + s
  BY <1>2
<1> HIDE DEF a
<1>4. Min({a, WMax}) = IF a <= WMax THEN a ELSE WMax
  BY <1>1, <1>3, MinTwo
<1>5. Min({a, WMax}) \in Nat
  BY <1>1, <1>3, <1>4
<1> DEFINE b == Min({a, WMax})
<1>6. b \in Nat /\ b = IF a <= WMax THEN a ELSE WMax
  BY <1>4, <1>5
<1> HIDE DEF b
<1>7. /\ Min({b + s, WMax}) = IF b + s <= WMax THEN b + s ELSE WMax
      /\ Min({a + s, WMax}) = IF a + s <= WMax THEN a + s ELSE WMax
  <2>1. b + s \in Nat /\ a + s \in Nat
    BY <1>3, <1>6
  <2> QED BY <1>1, <2>1, MinTwo
<1>8. Min({b + s, WMax}) = Min({a + s, WMax})
  BY <1>1, <1>3, <1>6, <1>7
<1>9. 0 + s = s /\ s * 1 = s
  OBVIOUS
<1> QED BY <1>3, <1>8, <1>9 DEF a, b

(* In one thread and on the graph, a token comes before its grams.         *)
LEMMA TokenFirst ==
  ASSUME cfg \in Configs, cfg.mode = "online", NEW T, T \subseteq Stream, T # {},
         First(T)[2] # 0
  PROVE  Text[First(T)[1]] \in {Text[p[1]] : p \in {p \in Stream \ T : p[2] = 0}}
<1> DEFINE p == First(T)
           q == <<p[1], 0>>
<1>1. T \subseteq Nat \X Nat
  BY PlacesAreFinite
<1>2. p \in T /\ \A x \in T : p[1] < x[1] \/ (p[1] = x[1] /\ p[2] <= x[2])
  BY <1>1, FirstIn
<1> HIDE DEF p
<1>3. p \in Stream /\ p[1] \in 1..Len(Text) /\ p[2] \in 0..cfg.order /\ cfg.order \in Nat
  BY <1>2, StreamIs, CfgFacts
<1>4. q \in Stream /\ q[1] = p[1] /\ q[2] = 0
  <2>1. ChunkStart(p[1]) <= p[1] /\ ChunkStart(p[1]) \in Nat
    BY <1>3, ChunkStarts
  <2>2. q = <<q[1], q[2]>> /\ q[1] = p[1] /\ q[2] = 0
    OBVIOUS
  <2>3. q[1] \in 1..Len(Text) /\ q[2] \in 0..cfg.order /\ q[1] - q[2] >= ChunkStart(q[1])
    <3>1. p[1] - 0 >= ChunkStart(p[1]) /\ 0 \in 0..cfg.order
      BY <1>3, <2>1
    <3> QED BY <1>3, <2>2, <3>1, Zenon
  <2> HIDE DEF q
  <2> QED BY <2>2, <2>3, StreamIs
<1>5. q \notin T
  <2>1. SUFFICES ASSUME q \in T PROVE FALSE
    OBVIOUS
  <2>2. p[1] < p[1] \/ (p[1] = p[1] /\ p[2] <= 0)
    BY <1>2, <1>4, <2>1
  <2>3. p[2] # 0
    BY DEF p
  <2> QED BY <1>3, <2>2, <2>3
<1> QED BY <1>4, <1>5, Zenon DEF p

(* What a further place adds to the tokens and to the grams.               *)
LEMMA FurtherPlace ==
  ASSUME NEW S, NEW p
  PROVE  /\ p[2] = 0 =>
              /\ {Text[q[1]] : q \in {q \in S \cup {p} : q[2] = 0}} =
                   {Text[q[1]] : q \in {q \in S : q[2] = 0}} \cup {Text[p[1]]}
              /\ {q \in S \cup {p} : q[2] # 0} = {q \in S : q[2] # 0}
         /\ p[2] # 0 =>
              /\ {q \in S \cup {p} : q[2] = 0} = {q \in S : q[2] = 0}
              /\ {GramAt(q).ctx : q \in {q \in S \cup {p} : q[2] # 0}} =
                   {GramAt(q).ctx : q \in {q \in S : q[2] # 0}} \cup {GramAt(p).ctx}
              /\ {GramAt(q) : q \in {q \in S \cup {p} : q[2] # 0}} =
                   {GramAt(q) : q \in {q \in S : q[2] # 0}} \cup {GramAt(p)}
<1>1. ASSUME p[2] = 0
      PROVE  {q \in S \cup {p} : q[2] # 0} = {q \in S : q[2] # 0}
  BY <1>1, Zenon
<1>2. ASSUME p[2] # 0
      PROVE  {q \in S \cup {p} : q[2] = 0} = {q \in S : q[2] = 0}
  BY <1>2, Zenon
<1>3. ASSUME p[2] = 0
      PROVE  {q \in S \cup {p} : q[2] = 0} = {q \in S : q[2] = 0} \cup {p}
  BY <1>3, Zenon
<1>4. ASSUME p[2] # 0
      PROVE  {q \in S \cup {p} : q[2] # 0} = {q \in S : q[2] # 0} \cup {p}
  BY <1>4, Zenon
<1>5. ASSUME NEW Q
      PROVE  /\ {Text[q[1]] : q \in Q \cup {p}} = {Text[q[1]] : q \in Q} \cup {Text[p[1]]}
             /\ {GramAt(q).ctx : q \in Q \cup {p}} = {GramAt(q).ctx : q \in Q} \cup {GramAt(p).ctx}
             /\ {GramAt(q) : q \in Q \cup {p}} = {GramAt(q) : q \in Q} \cup {GramAt(p)}
  OBVIOUS
<1> QED BY <1>1, <1>2, <1>3, <1>4, <1>5, Zenon

(* What has grown was called for.                                          *)
LEMMA GrownWithin ==
  ASSUME cfg \in Configs, cfg.mode = "online", NEW S, S \subseteq Stream, NEW gr, Grown(S, gr)
  PROVE  /\ gr.toks \subseteq TextTokens /\ gr.ctxs \subseteq ContextsOf(TrueGrams)
         /\ DOMAIN gr.edges \subseteq TrueGrams /\ TrueEdges = TrueGrams
         /\ \A g \in TrueGrams : g \in DOMAIN gr.edges \/ At(g, S) = {}
<1>1. \A q \in S : /\ Text[q[1]] \in TextTokens
                   /\ q[2] = 0 => GramAt(q) \notin TrueGrams
                   /\ q[2] # 0 => /\ GramAt(q) \in TrueGrams
                                  /\ GramAt(q).ctx \in ContextsOf(TrueGrams)
  BY OnlinePlace
<1>2. /\ gr.toks = {Text[p[1]] : p \in {p \in S : p[2] = 0}}
      /\ gr.ctxs = {GramAt(p).ctx : p \in {p \in S : p[2] # 0}}
      /\ DOMAIN gr.edges = {GramAt(p) : p \in {p \in S : p[2] # 0}}
  BY Zenon DEF Grown
<1>3. gr.toks \subseteq TextTokens
  BY <1>1, <1>2, Zenon
<1>4. gr.ctxs \subseteq ContextsOf(TrueGrams) /\ DOMAIN gr.edges \subseteq TrueGrams
  BY <1>1, <1>2, Zenon
<1>5. TrueEdges = TrueGrams
  <2>1. ~cfg.norm
    BY CfgFacts
  <2>2. \A g \in TrueGrams : g \in TrueEdges
    BY <2>1, TrueWeightIs
  <2>3. TrueEdges \subseteq TrueGrams
    BY Zenon DEF TrueEdges
  <2> QED BY <2>2, <2>3
<1>6. ASSUME NEW g \in TrueGrams, g \notin DOMAIN gr.edges PROVE At(g, S) = {}
  <2>1. SUFFICES ASSUME NEW q \in At(g, S) PROVE FALSE
    BY Zenon
  <2>2. q \in S /\ GramAt(q) = g
    BY Zenon DEF At
  <2>3. q[2] # 0
    BY <1>1, <2>2, Zenon
  <2> QED BY <1>2, <1>6, <2>2, <2>3, Zenon
<1> QED BY <1>3, <1>4, <1>5, <1>6

(* A further token.                                                        *)
LEMMA GrownToken ==
  ASSUME cfg \in Configs, cfg.mode = "online", Fits, NEW S, S \subseteq Stream, NEW gr,
         IsGraph(gr), Grown(S, gr), NEW p \in Stream \ S, p[2] = 0
  PROVE  Grown(S \cup {p}, Named(gr, "toks", GramAt(p).next))
<1> DEFINE x == Text[p[1]]
           v == Named(gr, "toks", x)
<1>1. /\ GramAt(p).next = x /\ x \in TextTokens /\ GramAt(p) \notin TrueGrams
  BY OnlinePlace
<1>2. IsFiniteSet(S)
  <2>1. IsFiniteSet(Stream)
    BY PlacesAreFinite
  <2> QED BY <2>1, FS_Subset
<1>3. /\ gr.toks \subseteq TextTokens /\ gr.ctxs \subseteq ContextsOf(TrueGrams)
      /\ DOMAIN gr.edges \subseteq TrueGrams
  BY GrownWithin
<1>4. gr.names = NodeCount(gr)
  BY Zenon DEF Grown
<1>5. x \in gr.toks \/ (NodeCount(gr) < cfg.nodeCap /\ NodeCount(gr) < cfg.nameCap)
  <2> HIDE DEF x
  <2>1. CASE x \notin gr.toks
    BY <1>1, <1>3, <2>1, RoomFor
  <2> QED BY <2>1
<1>6. NamedAs(v, gr, "toks", x)
  BY NamedIs
<1> HIDE DEF v, x
<1>7. /\ v.names = NodeCount(v) /\ v.toks = gr.toks \cup {x} /\ v.ctxs = gr.ctxs
      /\ v.edges = gr.edges
  BY <1>4, <1>5, <1>6 DEF NamedAs
<1>8. /\ v.toks = {Text[q[1]] : q \in {q \in S \cup {p} : q[2] = 0}}
      /\ v.ctxs = {GramAt(q).ctx : q \in {q \in S \cup {p} : q[2] # 0}}
      /\ DOMAIN v.edges = {GramAt(q) : q \in {q \in S \cup {p} : q[2] # 0}}
  <2>1. /\ {Text[q[1]] : q \in {q \in S \cup {p} : q[2] = 0}} =
             {Text[q[1]] : q \in {q \in S : q[2] = 0}} \cup {x}
        /\ {q \in S \cup {p} : q[2] # 0} = {q \in S : q[2] # 0}
    BY FurtherPlace DEF x
  <2> QED BY <1>7, <2>1, Zenon DEF Grown
<1>9. ASSUME NEW g \in DOMAIN v.edges
      PROVE  v.edges[g] = Min({Step(g.ctx) * Cardinality(At(g, S \cup {p})), WMax})
  <2>1. g \in DOMAIN gr.edges /\ g # GramAt(p)
    BY <1>1, <1>3, <1>7, Zenon
  <2>2. Cardinality(At(g, S \cup {p})) = Cardinality(At(g, S))
    BY <1>2, <2>1, AtMore
  <2> QED BY <1>7, <2>1, <2>2, Zenon DEF Grown
<1>10. Grown(S \cup {p}, v)
  BY <1>7, <1>8, <1>9, Zenon DEF Grown
<1> QED BY <1>1, <1>10, Zenon DEF v

(* A further gram, whose token has its node.                               *)
LEMMA GrownGram ==
  ASSUME cfg \in Configs, cfg.mode = "online", Fits, NEW S, S \subseteq Stream, NEW gr,
         IsGraph(gr), Grown(S, gr), NEW p \in Stream \ S, p[2] # 0, GramAt(p).next \in gr.toks
  PROVE  LET g == GramAt(p)
         IN  Grown(S \cup {p}, Raised(Edged(Named(gr, "ctxs", g.ctx), g), g))
<1> DEFINE g == GramAt(p)
           n == Named(gr, "ctxs", g.ctx)
           e == Edged(n, g)
           s == Step(g.ctx)
           c == Cardinality(At(g, S))
           w == Min({e.edges[g] + s, WMax})
           v == Raised(e, g)
<1>1. /\ g \in TrueGrams /\ g.ctx \in ContextsOf(TrueGrams) /\ s \in Nat \ {0}
      /\ g.next \in gr.toks
  BY OnlinePlace
<1>2. IsFiniteSet(S)
  <2>1. IsFiniteSet(Stream)
    BY PlacesAreFinite
  <2> QED BY <2>1, FS_Subset
<1>3. /\ gr.toks \subseteq TextTokens /\ gr.ctxs \subseteq ContextsOf(TrueGrams)
      /\ DOMAIN gr.edges \subseteq TrueGrams /\ TrueEdges = TrueGrams
      /\ \A h \in TrueGrams : h \in DOMAIN gr.edges \/ At(h, S) = {}
  BY GrownWithin
<1>4. gr.names = NodeCount(gr)
  BY Zenon DEF Grown
<1>5. NamedAs(n, gr, "ctxs", g.ctx)
  BY NamedIs
<1>6. g.ctx \in gr.ctxs \/ (NodeCount(gr) < cfg.nodeCap /\ NodeCount(gr) < cfg.nameCap)
  <2> HIDE DEF g
  <2>1. CASE g.ctx \notin gr.ctxs
    BY <1>1, <1>3, <2>1, RoomFor
  <2> QED BY <2>1
<1>7. e = Edged(n, g) /\ v = Raised(e, g)
  OBVIOUS
<1> HIDE DEF v, e, n, s, c
<1>8. /\ IsGraph(n) /\ n.names = NodeCount(n) /\ n.ctxs = gr.ctxs \cup {g.ctx}
      /\ n.toks = gr.toks /\ n.edges = gr.edges
  <2> HIDE DEF g
  <2> QED BY <1>4, <1>5, <1>6 DEF NamedAs
<1>9. EdgedAs(e, n, g)
  BY <1>7, <1>8, EdgedIs
<1>10. g \in DOMAIN gr.edges \/ Cardinality(DOMAIN gr.edges) < cfg.edgeCap
  <2> HIDE DEF g
  <2> QED BY <1>1, <1>3, RoomForEdge
<1>11. /\ IsGraph(e) /\ e.names = n.names /\ e.ctxs = n.ctxs /\ e.toks = n.toks
       /\ DOMAIN e.edges = DOMAIN gr.edges \cup {g}
       /\ \A h \in DOMAIN gr.edges : e.edges[h] = gr.edges[h]
       /\ g \notin DOMAIN gr.edges => e.edges[g] = 0
  <2> HIDE DEF g
  <2>1. g.next \in n.toks /\ g.ctx \in n.ctxs
    BY <1>1, <1>8
  <2> QED BY <1>8, <1>9, <1>10, <2>1 DEF EdgedAs
<1>12. c \in Nat /\ (g \notin DOMAIN gr.edges => c = 0)
  <2>1. c \in Nat
    BY <1>2, AtMore DEF c
  <2>2. g \notin DOMAIN gr.edges => c = 0
    <3>1. Cardinality({}) = 0
      BY FS_EmptySet
    <3> QED BY <1>1, <1>3, <3>1, Zenon DEF c
  <2> QED BY <2>1, <2>2
<1>13. w = Min({s * (c + 1), WMax})
  <2>1. CASE g \in DOMAIN gr.edges
    <3>1. e.edges[g] = Min({s * c, WMax})
      <4>1. gr.edges[g] = Min({s * c, WMax})
        BY <2>1, Zenon DEF Grown, s, c
      <4> QED BY <1>11, <2>1, <4>1, Zenon
    <3>2. Min({Min({s * c, WMax}) + s, WMax}) = Min({s * (c + 1), WMax})
      BY <1>1, <1>12, OnceMore
    <3> QED BY <3>1, <3>2, Zenon
  <2>2. CASE g \notin DOMAIN gr.edges
    <3>1. e.edges[g] = 0 /\ c = 0
      BY <1>11, <1>12, <2>2
    <3>2. Min({0 + s, WMax}) = Min({s * 1, WMax}) /\ 0 + 1 = 1
      <4>1. Min({0 + s, WMax}) = Min({s * 1, WMax})
        BY <1>1, <1>12, OnceMore, Zenon
      <4>2. 0 + 1 = 1
        OBVIOUS
      <4> QED BY <4>1, <4>2, Zenon
    <3> QED BY <3>1, <3>2, Zenon
  <2> QED BY <2>1, <2>2
<1>14. w \in 0..WMax
  <2>1. WMax \in Nat /\ s * (c + 1) \in Nat
    <3>1. c + 1 \in Nat /\ s \in Nat
      BY <1>1, <1>12
    <3> QED BY <3>1, Numbers, Times
  <2> DEFINE a == s * (c + 1)
  <2>2. w = Min({a, WMax}) /\ a \in Nat
    BY <1>13, <2>1
  <2> HIDE DEF a, w
  <2>3. Min({a, WMax}) = IF a <= WMax THEN a ELSE WMax
    BY <2>1, <2>2, MinTwo
  <2> QED BY <2>1, <2>2, <2>3
<1>15. v = [e EXCEPT !.edges[g] = w]
  <2>1. g \in DOMAIN e.edges
    BY <1>11
  <2>2. v = [e EXCEPT !.edges[g] = Min({@ + s, WMax})]
    BY <1>7, <2>1, Zenon DEF Raised, s
  <2> HIDE DEF g
  <2> QED BY <2>1, <2>2
<1> HIDE DEF w
<1>16. WeighedAs(v, e, g, w)
  <2>1. g \in DOMAIN e.edges
    BY <1>11
  <2> HIDE DEF g
  <2> QED BY <1>11, <1>14, <1>15, <2>1, WeighedIs
<1>17. /\ v.toks = gr.toks /\ v.ctxs = gr.ctxs \cup {g.ctx} /\ v.names = n.names
       /\ DOMAIN v.edges = DOMAIN gr.edges \cup {g} /\ v.edges[g] = w
       /\ \A h \in DOMAIN gr.edges : h # g => v.edges[h] = gr.edges[h]
  <2> HIDE DEF g
  <2> QED BY <1>8, <1>11, <1>16 DEF WeighedAs
<1>18. v.names = NodeCount(v)
  BY <1>8, <1>17, Zenon DEF NodeCount
<1>19. /\ v.toks = {Text[q[1]] : q \in {q \in S \cup {p} : q[2] = 0}}
       /\ v.ctxs = {GramAt(q).ctx : q \in {q \in S \cup {p} : q[2] # 0}}
       /\ DOMAIN v.edges = {GramAt(q) : q \in {q \in S \cup {p} : q[2] # 0}}
  <2>1. /\ {q \in S \cup {p} : q[2] = 0} = {q \in S : q[2] = 0}
        /\ {GramAt(q).ctx : q \in {q \in S \cup {p} : q[2] # 0}} =
             {GramAt(q).ctx : q \in {q \in S : q[2] # 0}} \cup {g.ctx}
        /\ {GramAt(q) : q \in {q \in S \cup {p} : q[2] # 0}} =
             {GramAt(q) : q \in {q \in S : q[2] # 0}} \cup {g}
    BY FurtherPlace
  <2> QED BY <1>17, <2>1, Zenon DEF Grown
<1>20. ASSUME NEW h \in DOMAIN v.edges
       PROVE  v.edges[h] = Min({Step(h.ctx) * Cardinality(At(h, S \cup {p})), WMax})
  <2>1. Cardinality(At(h, S \cup {p})) =
          Cardinality(At(h, S)) + (IF g = h THEN 1 ELSE 0)
    BY <1>2, AtMore
  <2>2. CASE h = g
    <3>1. Cardinality(At(g, S \cup {p})) = c + 1
      BY <2>1, <2>2, Zenon DEF c
    <3> QED BY <1>13, <1>17, <2>2, <3>1, Zenon DEF s
  <2>3. CASE h # g
    <3>1. h \in DOMAIN gr.edges /\ v.edges[h] = gr.edges[h]
      BY <1>17, <2>3, Zenon
    <3>2. Cardinality(At(h, S \cup {p})) = Cardinality(At(h, S))
      BY <1>2, <2>3, AtMore
    <3> QED BY <3>1, <3>2, Zenon DEF Grown
  <2> QED BY <2>2, <2>3
<1>21. Grown(S \cup {p}, v)
  BY <1>18, <1>19, <1>20, Zenon DEF Grown
<1> QED BY <1>21, Zenon DEF v, e, n

(* Training on the graph grows it place by place.                          *)
LEMMA OnlineStep ==
  ASSUME ShapeInv, StagesInv, JobsInv, CountsInv, GraphInv, OnlineGraph, Next
  PROVE  OnlineGraph'
<1>1. cfg \in Configs /\ cfg' = cfg /\ IsGraph(graph)
  BY CfgStays, Zenon DEF ShapeInv, GraphInv
<1>2. SUFFICES ASSUME cfg.mode = "online", Fits PROVE Grown(Seen', graph')
  BY <1>1, GrownIs, Zenon
<1>3. Grown(Seen, graph)
  BY <1>1, <1>2, GrownIs, Zenon
<1>4. Stream' = Stream /\ Main \in DOMAIN todo
  BY <1>1, Static DEF ShapeInv, Threads
<1>5. todo[Main] \subseteq Stream
  BY <1>2 DEF ShapeInv
<1>6. pc \in {"start", "online", "done"} /\ \A j \in Jobs : thread[j] = "none"
  BY <1>2 DEF StagesInv, Idle
<1>7. Start \/ Online
  <2>1. Start \/ Online \/ \E j \in Jobs : Count(j) \/ OutOfMemory(j)
    BY <1>6 DEF Next, Token, Tokens, Serial, Exhausted, Spawn, Inlined, Spawned, Join, Joined,
       Merge, Merged, Counted, Context, Contexts, Edge, Done
  <2>2. \A j \in Jobs : ~Count(j) /\ ~OutOfMemory(j)
    BY <1>6 DEF Count, OutOfMemory
  <2> QED BY <2>1, <2>2, Zenon
<1>8. CASE Start
  <2>1. pc = "start" /\ pc' = "online" /\ graph' = graph /\ todo'[Main] = Stream
    BY <1>2, <1>4, <1>8 DEF Start
  <2>2. Stream \ Stream = {}
    OBVIOUS
  <2>3. Seen = {} /\ Seen' = {}
    BY <1>4, <2>1, <2>2, Zenon DEF Seen
  <2> QED BY <1>3, <2>1, <2>3, Zenon
<1>9. CASE Online
  <2>1. pc = "online" /\ pc' # "start"
    BY <1>9, Zenon DEF Online
  <2>2. Seen = Stream \ todo[Main] /\ Seen' = Stream \ todo'[Main]
    BY <1>4, <2>1, Zenon DEF Seen
  <2>3. CASE todo[Main] = {}
    <3>1. graph' = graph /\ todo' = todo
      BY <1>9, <2>3, Zenon DEF Online
    <3> QED BY <1>3, <2>2, <3>1, Zenon
  <2>4. CASE todo[Main] # {}
    <3> DEFINE p == First(todo[Main])
               g == GramAt(p)
    <3>1. /\ todo' = [todo EXCEPT ![Main] = @ \ {p}]
          /\ graph' = IF p[2] = 0 THEN Named(graph, "toks", g.next)
                      ELSE IF g.next \notin graph.toks THEN graph
                      ELSE Raised(Edged(Named(graph, "ctxs", g.ctx), g), g)
      BY <1>9, <2>4, Zenon DEF Online
    <3>2. p \in todo[Main]
      <4>1. todo[Main] \subseteq Nat \X Nat
        BY <1>1, <1>5, PlacesAreFinite
      <4> QED BY <2>4, <4>1, FirstIn
    <3>3. Seen' = Seen \cup {p} /\ p \in Stream \ Seen /\ Seen \subseteq Stream
      <4>1. todo'[Main] = todo[Main] \ {p}
        BY <1>4, <3>1
      <4> HIDE DEF p
      <4> QED BY <1>5, <2>2, <3>2, <4>1
    <3>4. CASE p[2] = 0
      <4>1. Grown(Seen \cup {p}, Named(graph, "toks", g.next))
        <5> HIDE DEF p
        <5> QED BY <1>1, <1>2, <1>3, <3>3, <3>4, GrownToken
      <4> QED BY <3>1, <3>3, <3>4, <4>1, Zenon
    <3>5. CASE p[2] # 0
      <4>1. g.next \in graph.toks
        <5>1. Text[p[1]] \in {Text[q[1]] : q \in {q \in Stream \ todo[Main] : q[2] = 0}}
          BY <1>1, <1>2, <1>5, <2>4, <3>5, TokenFirst
        <5>2. g.next = Text[p[1]]
          <6> HIDE DEF p
          <6> QED BY <1>1, <1>2, <3>3, OnlinePlace
        <5> QED BY <1>3, <2>2, <5>1, <5>2, Zenon DEF Grown
      <4>2. Grown(Seen \cup {p}, Raised(Edged(Named(graph, "ctxs", g.ctx), g), g))
        <5> HIDE DEF p
        <5> QED BY <1>1, <1>2, <1>3, <3>3, <3>5, <4>1, GrownGram
      <4> QED BY <3>1, <3>3, <3>5, <4>1, <4>2, Zenon
    <3> QED BY <3>4, <3>5
  <2> QED BY <2>3, <2>4
<1> QED BY <1>7, <1>8, <1>9

(* The empty table.                                                        *)
LEMMA NoCountsIs ==
  IsTable(NoCounts) /\ Grams(NoCounts) = {} /\ \A g : Tally(NoCounts, g) = 0
<1>1. Grams(NoCounts) = {}
  BY DEF NoCounts, Grams
<1>2. NoCounts = [g \in {} |-> NoCounts[g]]
  BY DEF NoCounts
<1>3. IsFiniteSet(Grams(NoCounts))
  BY <1>1, FS_EmptySet
<1> QED BY <1>1, <1>2, <1>3, Zenon DEF IsTable, Tally

(* Nothing has been counted at the start.                                  *)
LEMMA CountingStarts == Init => CountingInv
<1> SUFFICES ASSUME Init PROVE CountingInv
  OBVIOUS
<1>1. /\ cfg \in Configs /\ pc = "start" /\ cur = 1 /\ spoilt = FALSE /\ rest = {}
      /\ thread = [j \in Jobs |-> "none"]
      /\ todo = [j \in Threads |-> {}] /\ table = [j \in Threads |-> NoCounts]
      /\ graph = [toks |-> {}, ctxs |-> {}, names |-> 0, edges |-> NoCounts]
      /\ kn = [t \in 0..(Vocab - 1) |-> 0]
  BY Zenon DEF Init, Threads
<1>2. /\ Main \in Threads /\ Jobs \subseteq Threads /\ NJobs \in Jobs
      /\ MaxJobs \in Nat \ {0} /\ Jobs = 1..MaxJobs
  BY <1>1, Ranges, Numbers DEF Threads
<1>3. /\ \A j \in Threads : todo[j] = {} /\ table[j] = NoCounts
      /\ \A j \in Jobs : thread[j] = "none"
  BY <1>1, Zenon
<1>4. ShapeInv
  <2>1. cur \in 1..(MaxJobs + 1) /\ spoilt \in BOOLEAN
    <3>1. cur = 1 /\ MaxJobs \in Nat \ {0}
      BY <1>1, <1>2, Zenon
    <3>2. cur \in 1..(MaxJobs + 1)
      BY <3>1
    <3>3. spoilt \in BOOLEAN
      BY <1>1, Zenon
    <3> QED BY <3>2, <3>3, Zenon
  <2>2. thread \in [Jobs -> Marks]
    BY <1>1 DEF Marks
  <2>3. /\ DOMAIN table = Threads /\ DOMAIN todo = Threads
        /\ table = [j \in Threads |-> table[j]] /\ todo = [j \in Threads |-> todo[j]]
    BY <1>1
  <2>4. /\ todo[Main] \subseteq IF cfg.mode = "online" THEN Stream ELSE Whole
        /\ \A j \in Jobs : todo[j] \subseteq Mine(j)
    BY <1>2, <1>3, Zenon
  <2> QED BY <1>1, <2>1, <2>2, <2>3, <2>4, Zenon DEF ShapeInv
<1>5. Idle /\ Grams(table[Main]) = {} /\ todo[Main] = {}
  BY <1>1, <1>2, <1>3, NoCountsIs, Zenon DEF Idle
<1>6. StagesInv
  BY <1>1, <1>5 DEF StagesInv, Ready
<1>7. JobsInv
  <2>1. ASSUME NEW j \in Jobs PROVE JobInv(j)
    <3>1. thread[j] = "none" /\ todo[j] = {} /\ Grams(table[j]) = {}
      BY <1>2, <1>3, NoCountsIs, Zenon
    <3> QED BY <1>1, <3>1 DEF JobInv, Ready
  <2> QED BY <2>1, Zenon DEF JobsInv
<1>8. RestInv
  BY <1>1, Zenon DEF RestInv
<1>9. LimitInv
  <2>1. Cardinality(Grams(table[Main])) = 0 /\ cfg.soft \in Nat
    BY <1>1, <1>5, CfgFacts, FS_EmptySet
  <2> QED BY <2>1 DEF LimitInv
<1>10. CountsInv
  <2>1. ASSUME NEW j \in Threads, NEW g PROVE Fair(j, g)
    <3>1. Serially = {} /\ (\A i \in Jobs : From(i) = {}) /\ ~Taken(j, g)
          /\ \A i \in Jobs : ~Taken(i, g)
      BY <1>1, <1>3 DEF Serially, From, Taken, Past
    <3>2. Own(j, g) = {}
      BY <3>1, Zenon DEF Own, Threads
    <3>3. Tally(table[j], g) = 0
      BY <1>3, NoCountsIs, Zenon
    <3>4. At(g, Own(j, g)) = {}
      BY <3>2, Zenon DEF At
    <3>5. Cardinality(At(g, Own(j, g))) = 0
      BY <3>4, FS_EmptySet
    <3> QED BY <3>3, <3>5 DEF Fair
  <2>2. \A j \in Threads : IsTable(table[j]) /\ Grams(table[j]) \subseteq TrueGrams
    BY <1>3, NoCountsIs, Zenon
  <2> QED BY <2>1, <2>2, Zenon DEF CountsInv, Threads
<1>11. KnInv
  BY <1>1 DEF KnInv, Ready
<1>12. DOMAIN graph.edges = {} /\ graph.toks = {} /\ graph.ctxs = {} /\ graph.names = 0
  BY <1>1 DEF NoCounts
<1>13. NodeCount(graph) = 0
  <2>1. Cardinality(graph.toks) = 0 /\ Cardinality(graph.ctxs) = 0
    BY <1>12, FS_EmptySet
  <2> QED BY <2>1 DEF NodeCount
<1>14. GraphInv
  <2>1. graph = [toks |-> graph.toks, ctxs |-> graph.ctxs, names |-> graph.names,
                 edges |-> graph.edges]
    BY <1>1
  <2>2. IsFiniteSet({}) /\ Cardinality({}) = 0
    BY FS_EmptySet
  <2>3. cfg.nodeCap \in Nat /\ cfg.nameCap \in Nat /\ cfg.edgeCap \in Nat
    BY <1>1, CfgFacts
  <2>4. /\ NodeCount(graph) <= cfg.nodeCap /\ NodeCount(graph) <= graph.names
        /\ graph.names <= cfg.nameCap /\ Cardinality(DOMAIN graph.edges) <= cfg.edgeCap
        /\ graph.names \in Nat
    BY <1>12, <1>13, <2>2, <2>3
  <2>5. graph.edges = [g \in DOMAIN graph.edges |-> graph.edges[g]]
    BY <1>1, NoCountsIs, <1>12 DEF IsTable, Grams
  <2> QED BY <1>12, <2>1, <2>2, <2>4, <2>5, Zenon DEF GraphInv, IsGraph
<1>15. CountedGraph
  BY <1>1, <1>12, <1>13 DEF CountedGraph
<1>16. OnlineGraph
  BY <1>1, <1>12, <1>13, Zenon DEF OnlineGraph, SeenGrams, Seen
<1> QED BY <1>4, <1>6, <1>7, <1>8, <1>9, <1>10, <1>11, <1>14, <1>15, <1>16, Zenon DEF CountingInv

(* What is left alone stays right.                                         *)
LEMMA CountingRests == CountingInv /\ UNCHANGED vars => CountingInv'
<1> SUFFICES ASSUME CountingInv, UNCHANGED vars PROVE CountingInv'
  OBVIOUS
<1>1. /\ cfg' = cfg /\ pc' = pc /\ cur' = cur /\ thread' = thread /\ todo' = todo
      /\ table' = table /\ spoilt' = spoilt /\ rest' = rest /\ graph' = graph /\ kn' = kn
  BY Zenon DEF vars, counting, result
<1>2. /\ Whole' = Whole /\ Stream' = Stream /\ NJobs' = NJobs
      /\ \A j : Mine(j)' = Mine(j)
  BY <1>1, Static
<1>3. TrueGrams' = TrueGrams
  BY <1>1, StaticTruth
<1>4. ShapeInv'
  BY <1>1, <1>2, Zenon DEF CountingInv, ShapeInv
<1>5. StagesInv'
  BY <1>1, <1>2, Zenon DEF CountingInv, StagesInv, Idle, Grams
<1>6. JobsInv'
  <2>1. \A j \in Jobs : JobInv(j) => JobInv(j)'
    BY <1>1, <1>2, Zenon DEF JobInv, Grams
  <2> QED BY <2>1, Zenon DEF CountingInv, JobsInv
<1>7. RestInv'
  BY <1>1, Zenon DEF CountingInv, RestInv, TextTokens, Text, ContextsOf, Grams
<1>8. LimitInv'
  BY <1>1, Zenon DEF CountingInv, LimitInv, Grams
<1>9. CountsInv'
  <2>1. Calm
    <3>1. Serially' = Serially
      BY <1>1, <1>2, Zenon DEF Serially
    <3>2. Smooth' => Smooth
      BY <1>1, RoomStays, Zenon DEF Smooth
    <3>3. \A i : From(i)' = From(i)
      BY <1>1, <1>2, Zenon DEF From
    <3>4. \A i, g : Taken(i, g)' <=> Taken(i, g)
      BY <1>1, Zenon DEF Taken, Grams
    <3>5. ASSUME NEW j, NEW g PROVE Own(j, g)' = Own(j, g)
      <4>1. UNION {From(i)' : i \in {i \in Jobs : Taken(i, g)'}}
              = UNION {From(i) : i \in {i \in Jobs : Taken(i, g)}}
        BY <3>3, <3>4, Zenon
      <4>2. (Taken(j, g)' <=> Taken(j, g)) /\ From(j)' = From(j)
        BY <3>3, <3>4, Zenon
      <4> QED BY <3>1, <4>1, <4>2, Zenon DEF Own
    <3>6. \A j : Exact(j)' => Exact(j)
      BY <1>1, <3>2, Zenon DEF Exact
    <3> QED BY <3>5, <3>6, Zenon DEF Calm
  <2>2. cfg \in Configs /\ CountsInv
    BY Zenon DEF CountingInv, ShapeInv
  <2>3. ASSUME NEW j \in {Main} \cup Jobs, NEW g
        PROVE  /\ Own(j, g) \subseteq Own(j, g)'
               /\ Exact(j)' => Exact(j) /\ Own(j, g)' = Own(j, g)
    BY <2>1, Zenon DEF Calm
  <2> QED BY <1>1, <2>2, <2>3, CountsCalm
<1>10. KnInv'
  <2>1. \A t : Predecessors(Grams(table[Main]), t)' = Predecessors(Grams(table[Main]), t)
    BY <1>1, Zenon DEF Predecessors, Grams, Order
  <2> QED BY <1>1, <2>1, Zenon DEF CountingInv, KnInv
<1>11. GraphInv'
  <2>1. IsGraph(graph)'
    BY <1>1, GraphStays, Zenon DEF CountingInv, GraphInv
  <2> QED BY <1>1, <2>1, Zenon DEF CountingInv, GraphInv
<1>12. CountedGraph'
  BY <1>1, BuiltIs, Zenon DEF CountingInv
<1>13. OnlineGraph'
  <2>1. Seen' = Seen
    BY <1>1, <1>2, Zenon DEF Seen
  <2> QED BY <1>1, <2>1, GrownIs, Zenon DEF CountingInv
<1> QED BY <1>4, <1>5, <1>6, <1>7, <1>8, <1>9, <1>10, <1>11, <1>12, <1>13, Zenon DEF CountingInv

(* Whatever is trained, in whatever order: places, tallies and the graph   *)
(* belong together.                                                        *)
THEOREM CountingInvariant == Spec => []CountingInv
<1>1. CountingInv /\ Next => CountingInv'
  <2> SUFFICES ASSUME CountingInv, Next PROVE CountingInv'
    OBVIOUS
  <2>1. /\ ShapeInv /\ StagesInv /\ JobsInv /\ RestInv /\ LimitInv
        /\ CountsInv /\ KnInv /\ GraphInv /\ CountedGraph /\ OnlineGraph
    BY Zenon DEF CountingInv
  <2>2. ShapeInv' /\ StagesInv' /\ JobsInv' /\ CountsInv'
    BY <2>1, StagesStep, CountsStep
  <2>3. RestInv' /\ LimitInv' /\ KnInv'
    BY <2>1, RestStep, LimitStep, KnStep
  <2>4. GraphInv' /\ CountedGraph' /\ OnlineGraph'
    BY <2>1, GraphStep, CountedStep, OnlineStep
  <2> QED BY <2>2, <2>3, <2>4, Zenon DEF CountingInv
<1> QED BY <1>1, CountingStarts, CountingRests, PTL DEF Spec

(* A limited graph whose edges have weight is what TypeOK asks for.        *)
LEMMA CountingInvTyped == CountingInv => TypeOK
<1> SUFFICES ASSUME CountingInv PROVE TypeOK
  OBVIOUS
<1>1. IsGraph(graph) /\ \A g \in DOMAIN graph.edges : graph.edges[g] # 0
  BY Zenon DEF CountingInv, GraphInv
<1>2. /\ graph.names \in Nat /\ NodeCount(graph) <= cfg.nodeCap
      /\ NodeCount(graph) <= graph.names /\ graph.names <= cfg.nameCap
      /\ Cardinality(DOMAIN graph.edges) <= cfg.edgeCap
      /\ \A g \in DOMAIN graph.edges :
           graph.edges[g] \in 0..WMax /\ g.next \in graph.toks /\ g.ctx \in graph.ctxs
  BY <1>1, Zenon DEF IsGraph
<1>3. cfg.nodeCap \in Nat
  BY CfgFacts DEF CountingInv, ShapeInv
<1>4. NodeCount(graph) <= Min({cfg.nodeCap, graph.names})
  <2>1. Min({cfg.nodeCap, graph.names}) =
          IF cfg.nodeCap <= graph.names THEN cfg.nodeCap ELSE graph.names
    BY <1>2, <1>3, MinTwo
  <2> QED BY <1>2, <2>1
<1>5. ASSUME NEW g \in DOMAIN graph.edges
      PROVE  graph.edges[g] \in 1..WMax /\ g.next \in graph.toks /\ g.ctx \in graph.ctxs
  <2>1. graph.edges[g] \in 0..WMax /\ graph.edges[g] # 0 /\ WMax \in Nat
    BY <1>1, <1>2, Numbers
  <2>2. graph.edges[g] \in 1..WMax
    BY <2>1
  <2> QED BY <1>2, <2>2
<1>6. cfg.soft # 0 => Cardinality(Grams(table[Main])) <= cfg.soft
  BY Zenon DEF CountingInv, LimitInv
<1> QED BY <1>2, <1>4, <1>5, <1>6, Zenon DEF TypeOK, CountingInv, ShapeInv

(* At the end of training on the graph, each true gram has the weight that *)
(* its occurrences call for.                                               *)
LEMMA GrownToEnd ==
  ASSUME cfg \in Configs, cfg.mode = "online", NEW gr, Grown(Stream, gr)
  PROVE  DOMAIN gr.edges = TrueEdges /\ \A g \in TrueEdges : gr.edges[g] = TrueWeight(g)
<1>1. ~cfg.norm
  BY CfgFacts
<1>2. TrueEdges = TrueGrams
  BY <1>1, TrueWeightIs, Zenon DEF TrueEdges
<1>3. DOMAIN gr.edges = TrueGrams
  <2>1. DOMAIN gr.edges = {GramAt(p) : p \in Real}
    BY Zenon DEF Grown, Real
  <2> QED BY <2>1, OccursAt, Zenon
<1>4. ASSUME NEW g \in TrueGrams PROVE gr.edges[g] = TrueWeight(g)
  <2>1. At(g, Stream) = At(g, Real)
    <3>1. ASSUME NEW p \in Stream, GramAt(p) = g PROVE p \in Real
      BY <3>1, OnlinePlace, Zenon
    <3>2. Real \subseteq Stream
      BY DEF Real
    <3> QED BY <3>1, <3>2, Zenon DEF At
  <2>2. Occurs(g) = Cardinality(At(g, Stream))
    BY <2>1, OccursAt, Zenon
  <2>3. gr.edges[g] = Min({Step(g.ctx) * Cardinality(At(g, Stream)), WMax})
    BY <1>3, Zenon DEF Grown
  <2>4. TrueWeight(g) = Min({Step(g.ctx) * Occurs(g), WMax})
    BY <1>1, TrueWeightIs
  <2> QED BY <2>2, <2>3, <2>4, Zenon
<1> QED BY <1>2, <1>3, <1>4, Zenon

(* Where no limit is met, the end is the reference.                        *)
LEMMA CountingInvExact == CountingInv => CountedExactly
<1> SUFFICES ASSUME CountingInv, pc = "done", Fits
             PROVE  /\ DOMAIN graph.edges = TrueEdges
                    /\ \A g \in TrueEdges : graph.edges[g] = TrueWeight(g)
                    /\ cfg.mode = "counted" =>
                         \A t \in DOMAIN kn : kn[t] = Predecessors(TrueGrams, t)
  BY Zenon DEF CountedExactly
<1>1. /\ ShapeInv /\ StagesInv /\ JobsInv /\ CountsInv /\ KnInv
      /\ CountedGraph /\ OnlineGraph /\ cfg \in Configs
  BY Zenon DEF CountingInv, ShapeInv
<1>2. cfg.mode \in {"online", "counted"}
  BY <1>1, CfgFacts
<1>3. CASE cfg.mode = "counted"
  <2>1. DOMAIN graph.edges = TrueEdges /\ \A g \in TrueEdges : graph.edges[g] = TrueWeight(g)
    BY <1>1, <1>3, Zenon DEF CountedGraph
  <2>2. pc \in Ready /\ pc \notin {"start", "tokens", "merge", "failed", "crashed"}
    BY DEF Ready
  <2>3. ~spoilt /\ IF NJobs = 1 THEN todo[Main] = {} ELSE cur = NJobs + 1
    BY <1>1, <1>3, <2>2, Zenon DEF StagesInv
  <2>4. Finished
    <3>1. NJobs \in Nat
      BY <1>1, Ranges, Numbers
    <3> QED BY <2>2, <2>3, <3>1 DEF Finished, Ready
  <2>5. Room
    BY Zenon DEF Fits, Room
  <2>6. table[Main] = TrueCounts
    BY <1>1, <1>3, <2>2, <2>3, <2>4, <2>5, ExactTable
  <2>7. Grams(table[Main]) = TrueGrams
    BY <2>6 DEF Grams, TrueCounts
  <2>8. ASSUME NEW t \in DOMAIN kn PROVE kn[t] = Predecessors(TrueGrams, t)
    <3>1. kn = [u \in 0..(Vocab - 1) |-> Predecessors(TrueGrams, u)]
      BY <1>1, <1>3, <2>2, <2>7, Zenon DEF KnInv
    <3> QED BY <3>1, Zenon
  <2> QED BY <2>1, <2>8
<1>4. CASE cfg.mode = "online"
  <2>1. todo[Main] = {}
    BY <1>1, <1>4, Zenon DEF StagesInv
  <2>2. Seen = Stream
    BY <2>1 DEF Seen
  <2>3. Grown(Stream, graph)
    BY <1>1, <1>4, <2>2, Zenon DEF OnlineGraph, Grown, SeenGrams
  <2>4. cfg.mode # "counted"
    BY <1>4
  <2> QED BY <1>1, <1>4, <2>3, <2>4, GrownToEnd, Zenon
<1> QED BY <1>2, <1>3, <1>4

(* The limits hold: no more nodes, names and edges than there is room for, *)
(* none without an end, and no weight out of range.                        *)
THEOREM CountingTyped == Spec => []TypeOK
BY CountingInvariant, CountingInvTyped, PTL

(* Training that meets no limit ends with the edges, weights and           *)
(* predecessors that the text calls for: on the graph, in one thread, and  *)
(* in any number of threads in any order.                                  *)
THEOREM CountsAreExact == Spec => []CountedExactly
BY CountingInvariant, CountingInvExact, PTL

(* As many numbers as a set has elements can be given to them one to one.  *)
LEMMA Numbered ==
  ASSUME NEW S, IsFiniteSet(S), NEW n \in Nat, n <= Cardinality(S)
  PROVE  \E f : f \in [1..n -> S] /\ \A a, b \in 1..n : f[a] = f[b] => a = b
<1>1. Cardinality(S) \in Nat /\ ExistsBijection(1..Cardinality(S), S)
  BY FS_CardinalityType
<1>2. PICK h : /\ h \in [1..Cardinality(S) -> S]
               /\ \A a, b \in 1..Cardinality(S) : h[a] = h[b] => a = b
  <2>1. PICK b : b \in Bijection(1..Cardinality(S), S)
    BY <1>1, Zenon DEF ExistsBijection
  <2>2. b \in Injection(1..Cardinality(S), S)
    BY <2>1, Zenon DEF Bijection
  <2>3. /\ b \in [1..Cardinality(S) -> S]
        /\ \A x, y \in 1..Cardinality(S) : b[x] = b[y] => x = y
    BY <2>2, Zenon DEF Injection, IsInjective
  <2> QED BY <2>3, Zenon
<1>3. \A i \in 1..n : i \in 1..Cardinality(S)
  BY <1>1
<1> DEFINE f == [i \in 1..n |-> h[i]]
<1>4. f \in [1..n -> S] /\ \A a, b \in 1..n : f[a] = f[b] => a = b
  BY <1>2, <1>3, Zenon
<1> QED BY <1>4

(* A pair for each number of each tally.                                   *)
Tallied(J, c) == UNION {{j} \X (1..c[j]) : j \in J}

(* Tallies that each stand for other elements of a set are together no     *)
(* more than it has.                                                       *)
LEMMA TalliesApart ==
  ASSUME NEW J, NEW c, NEW own, NEW R, IsFiniteSet(R),
         \A j \in J : c[j] \in Nat /\ own[j] \subseteq R /\ c[j] <= Cardinality(own[j]),
         \A i \in J : \A j \in J : i # j => own[i] \cap own[j] = {}
  PROVE  Cardinality(Tallied(J, c)) <= Cardinality(R)
<1> DEFINE Good(j, f) == /\ f \in [1..c[j] -> own[j]]
                         /\ \A a, b \in 1..c[j] : f[a] = f[b] => a = b
           T == UNION {{j} \X (1..c[j]) : j \in J}
           h == [j \in J |-> CHOOSE f : Good(j, f)]
           G == [x \in T |-> h[x[1]][x[2]]]
<1>1. ASSUME NEW j \in J PROVE Good(j, h[j])
  <2>1. IsFiniteSet(own[j])
    BY FS_Subset
  <2>2. \E f : Good(j, f)
    BY <2>1, Numbered, Zenon
  <2> QED BY <2>2, Zenon
<1>2. ASSUME NEW x \in T PROVE x = <<x[1], x[2]>> /\ x[1] \in J /\ x[2] \in 1..c[x[1]]
  <2>1. PICK j \in J : x \in {j} \X (1..c[j])
    BY Zenon
  <2>2. x = <<x[1], x[2]>> /\ x[1] = j /\ x[2] \in 1..c[j]
    BY <2>1
  <2> QED BY <2>2, Zenon
<1> HIDE DEF T, h
<1>3. ASSUME NEW x \in T PROVE G[x] \in own[x[1]] /\ G[x] \in R
  <2>1. Good(x[1], h[x[1]]) /\ G[x] = h[x[1]][x[2]]
    BY <1>1, <1>2, Zenon
  <2>2. G[x] \in own[x[1]]
    BY <1>2, <2>1, Zenon
  <2> QED BY <1>2, <2>2, Zenon
<1>4. ASSUME NEW x \in T, NEW y \in T, G[x] = G[y] PROVE x = y
  <2>1. G[x] \in own[x[1]] /\ G[x] \in own[y[1]] /\ x[1] \in J /\ y[1] \in J
    BY <1>2, <1>3, <1>4, Zenon
  <2>2. x[1] = y[1]
    BY <2>1, Zenon
  <2>3. /\ Good(x[1], h[x[1]]) /\ h[x[1]][x[2]] = h[x[1]][y[2]]
        /\ x[2] \in 1..c[x[1]] /\ y[2] \in 1..c[x[1]]
    BY <1>1, <1>2, <1>4, <2>2, Zenon
  <2>4. x[2] = y[2]
    BY <2>3, Zenon
  <2>5. x = <<x[1], x[2]>> /\ y = <<y[1], y[2]>>
    BY <1>2, Zenon
  <2> QED BY <2>2, <2>4, <2>5, Zenon
<1>5. G \in [T -> R]
  BY <1>3, Zenon
<1>6. G \in Injection(T, R)
  <2> HIDE DEF G
  <2>1. \A x \in T : \A y \in T : G[x] = G[y] => x = y
    BY <1>4
  <2> QED BY <1>5, <2>1, Fun_IsInj
<1>7. Cardinality(T) <= Cardinality(R)
  BY <1>6, FS_Injection
<1> QED BY <1>7, Zenon DEF T, Tallied

(* No place is counted by two threads.                                     *)
LEMMA OwnDisjoint ==
  ASSUME ShapeInv, StagesInv, NEW i \in Threads, NEW j \in Threads, i # j, NEW g
  PROVE  Own(i, g) \cap Own(j, g) = {}
<1>1. cfg \in Configs /\ Main \notin Jobs
  BY Numbers DEF ShapeInv
<1>2. \A a \in Jobs : From(a) \subseteq Mine(a)
  BY Zenon DEF From
<1>3. ASSUME NEW a \in Jobs, NEW b \in Jobs, a # b PROVE From(a) \cap From(b) = {}
  BY <1>1, <1>2, <1>3, MineApart
<1>4. ASSUME NEW a \in Jobs PROVE Serially \cap From(a) = {}
  <2>1. CASE NJobs = 1
    <3>1. thread[a] = "none"
      BY <2>1, Zenon DEF StagesInv, Idle
    <3> QED BY <3>1 DEF From
  <2>2. CASE NJobs # 1
    BY <2>2 DEF Serially
  <2> QED BY <2>1, <2>2
<1>5. ASSUME NEW a \in Jobs PROVE Own(Main, g) \cap Own(a, g) = {}
  <2>1. a # Main
    BY <1>1, Zenon
  <2>2. CASE Taken(a, g)
    BY <2>1, <2>2 DEF Own
  <2>3. CASE ~Taken(a, g)
    <3>1. Own(a, g) = From(a)
      BY <2>1, <2>3, Zenon DEF Own
    <3>2. Own(Main, g) = Serially \cup UNION {From(b) : b \in {b \in Jobs : Taken(b, g)}}
      BY Zenon DEF Own
    <3>3. SUFFICES ASSUME NEW q \in Own(Main, g), q \in From(a) PROVE FALSE
      BY <3>1, Zenon
    <3>4. q \notin Serially
      BY <1>4, <3>3
    <3>5. PICK b \in Jobs : Taken(b, g) /\ q \in From(b)
      BY <3>2, <3>3, <3>4, Zenon
    <3>6. From(b) \cap From(a) = {}
      BY <1>3, <2>3, <3>5
    <3> QED BY <3>3, <3>5, <3>6
  <2> QED BY <2>2, <2>3
<1>6. ASSUME NEW a \in Jobs, NEW b \in Jobs, a # b PROVE Own(a, g) \cap Own(b, g) = {}
  <2>1. Own(a, g) \subseteq From(a) /\ Own(b, g) \subseteq From(b)
    BY <1>1, Zenon DEF Own
  <2> QED BY <1>3, <1>6, <2>1, Zenon
<1>7. CASE i = Main
  <2>1. j \in Jobs
    BY <1>7, Zenon DEF Threads
  <2> QED BY <1>5, <1>7, <2>1
<1>8. CASE j = Main
  <2>1. i \in Jobs
    BY <1>8, Zenon DEF Threads
  <2>2. Own(Main, g) \cap Own(i, g) = {}
    BY <1>5, <2>1
  <2> QED BY <1>8, <2>2, Zenon
<1>9. CASE i # Main /\ j # Main
  <2>1. i \in Jobs /\ j \in Jobs
    BY <1>9, Zenon DEF Threads
  <2> QED BY <1>6, <2>1
<1> QED BY <1>7, <1>8, <1>9

(* Fewer grams have fewer predecessors.                                    *)
LEMMA PredecessorsIn ==
  ASSUME NEW F, IsFiniteSet(F), NEW E, E \subseteq F, NEW t
  PROVE  /\ Predecessors(F, t) \in Nat
         /\ Predecessors(E, t) <= Predecessors(F, t)
<1> DEFINE P(A) == {g \in A : g.next = t /\ Order(g.ctx) = 1 /\ g.ctx[1] < Vocab}
<1>1. P(F) \subseteq F /\ P(E) \subseteq P(F)
  BY Zenon
<1>2. Predecessors(F, t) = Cardinality(P(F)) /\ Predecessors(E, t) = Cardinality(P(E))
  BY Zenon DEF Predecessors
<1> HIDE DEF P
<1>3. IsFiniteSet(P(F))
  BY <1>1, FS_Subset
<1>4. Cardinality(P(F)) \in Nat /\ Cardinality(P(E)) <= Cardinality(P(F))
  BY <1>1, <1>3, FS_Subset, FS_CardinalityType
<1> QED BY <1>2, <1>4

(* So no gram is counted more often than there are places with it.         *)
LEMMA CountingInvBounds == CountingInv => NeverOvercounted
<1> SUFFICES ASSUME CountingInv PROVE NeverOvercounted
  OBVIOUS
<1>1. /\ ShapeInv /\ StagesInv /\ JobsInv /\ CountsInv /\ KnInv /\ cfg \in Configs
      /\ DOMAIN table = Threads /\ Main \in Threads
  BY Zenon DEF CountingInv, ShapeInv, Threads
<1>2. /\ IsFiniteSet(Real) /\ IsFiniteSet(TrueGrams)
      /\ \A g : Occurs(g) = Cardinality(At(g, Real))
  BY <1>1, OccursAt
<1>3. \A j \in Threads : IsTable(table[j]) /\ Grams(table[j]) \subseteq TrueGrams
  BY <1>1, Zenon DEF CountsInv, Threads
<1>4. ASSUME NEW i \in Threads, NEW g \in Grams(table[i])
      PROVE  Cardinality(Tallies(g)) <= Occurs(g)
  <2> DEFINE J == {j \in DOMAIN table : g \in Grams(table[j])}
             c == [j \in J |-> table[j][g]]
             own == [j \in J |-> At(g, Own(j, g))]
             R == At(g, Real)
  <2>1. Real = Whole
    <3>1. cfg.mode # "online"
      <4>1. SUFFICES ASSUME cfg.mode = "online" PROVE FALSE
        OBVIOUS
      <4>2. Grams(table[Main]) = {} /\ \A j \in Jobs : thread[j] = "none"
        BY <1>1, <4>1, Zenon DEF StagesInv, Idle
      <4>3. \A j \in Jobs : Grams(table[j]) = {}
        BY <1>1, <4>2, Zenon DEF JobsInv, JobInv
      <4> QED BY <4>2, <4>3, Zenon DEF Threads
    <3> QED BY <3>1 DEF Real
  <2>2. IsFiniteSet(R)
    BY <1>2, AtFewer
  <2>3. g \in TrueGrams /\ J \subseteq Threads
    BY <1>1, <1>3, Zenon
  <2>4. ASSUME NEW j \in J
        PROVE  c[j] \in Nat /\ own[j] \subseteq R /\ c[j] <= Cardinality(own[j])
    <3>1. c[j] = table[j][g] /\ own[j] = At(g, Own(j, g)) /\ j \in Threads
      BY <2>3, Zenon
    <3>2. table[j][g] = Tally(table[j], g)
      BY Zenon DEF Tally
    <3>3. Tally(table[j], g) <= Cardinality(At(g, Own(j, g)))
      BY <1>1, <2>3, <3>1, Zenon DEF CountsInv, Fair, Threads
    <3>4. Own(j, g) \subseteq Real
      BY <1>1, <2>1, <3>1, OwnIn, Zenon DEF Threads
    <3>5. At(g, Own(j, g)) \subseteq R
      BY <3>4, Zenon DEF At
    <3>6. table[j][g] \in Nat
      <4>1. table[j][g] \in Nat \ {0}
        BY <1>3, <3>1, Zenon DEF IsTable
      <4> QED BY <4>1
    <3> QED BY <3>1, <3>2, <3>3, <3>5, <3>6, Zenon
  <2>5. ASSUME NEW a \in J, NEW b \in J, a # b PROVE own[a] \cap own[b] = {}
    <3>1. own[a] = At(g, Own(a, g)) /\ own[b] = At(g, Own(b, g))
      BY Zenon
    <3>2. Own(a, g) \cap Own(b, g) = {}
      BY <1>1, <2>3, <2>5, OwnDisjoint
    <3>3. At(g, Own(a, g)) \subseteq Own(a, g) /\ At(g, Own(b, g)) \subseteq Own(b, g)
      BY Zenon DEF At
    <3> QED BY <3>1, <3>2, <3>3, Zenon
  <2>6. Tallies(g) = Tallied(J, c)
    BY Zenon DEF Tallies, Tallied
  <2> HIDE DEF J, c, own, R
  <2>7. Cardinality(Tallied(J, c)) <= Cardinality(R)
    <3>1. \A j \in J : c[j] \in Nat /\ own[j] \subseteq R /\ c[j] <= Cardinality(own[j])
      BY <2>4, Zenon
    <3>2. \A a \in J : \A b \in J : a # b => own[a] \cap own[b] = {}
      BY <2>5, Zenon
    <3> QED BY <2>2, <3>1, <3>2, TalliesApart
  <2>8. Occurs(g) = Cardinality(R)
    BY <1>2, Zenon DEF R
  <2> QED BY <2>6, <2>7, <2>8, Zenon
<1>5. ASSUME NEW t \in DOMAIN kn PROVE kn[t] <= Predecessors(TrueGrams, t)
  <2>1. kn[t] = IF pc \in Ready /\ cfg.mode = "counted"
                THEN Predecessors(Grams(table[Main]), t) ELSE 0
    BY <1>1, Zenon DEF KnInv
  <2>2. /\ Predecessors(TrueGrams, t) \in Nat
        /\ Predecessors(Grams(table[Main]), t) <= Predecessors(TrueGrams, t)
    BY <1>1, <1>2, <1>3, PredecessorsIn
  <2> QED BY <2>1, <2>2
<1>6. ASSUME NEW g \in UNION {Grams(table[j]) : j \in DOMAIN table}
      PROVE  Cardinality(Tallies(g)) <= Occurs(g)
  <2>1. PICK i \in Threads : g \in Grams(table[i])
    BY <1>1, Zenon
  <2> QED BY <1>4, <2>1
<1> QED BY <1>5, <1>6, Zenon DEF NeverOvercounted

(* However many threads count, fail, are merged or give rare grams up, no  *)
(* gram is ever counted more often than it occurs, and no token is given a *)
(* predecessor that it has not.                                            *)
THEOREM NeverCountedTooOften == Spec => []NeverOvercounted
BY CountingInvariant, CountingInvBounds, PTL
=============================================================================
