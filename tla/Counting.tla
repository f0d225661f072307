------------------------------- MODULE Counting -------------------------------
(***************************************************************************)
(* Training of the fluency model: on the graph, token by token             *)
(* (fluency_train), or by counting first, in threads, and then             *)
(* materialising the counts (fluency_train_counted_jobs), both of          *)
(* src/worlds/fluency/fluency.c.                                           *)
(*                                                                         *)
(* A gram is a context and the token after it.  The tables of counts are   *)
(* functions; where the hash puts a gram is left open: which rare gram a   *)
(* full table gives up, if any, and in which order tables are read.        *)
(***************************************************************************)
EXTENDS Integers, Sequences, FiniteSets, FiniteSetsExt

CONSTANTS
  Vocab,                    (* FLUENCY_VOCAB                               *)
  Configs,                  (* trainings: text, mode and limits            *)
  MaxJobs,                  (* 8                                           *)
  ParallelFrom,             (* 100000 tokens                               *)
  WMax,                     (* weight_max_q8_8                             *)
  NormFrom, PruneFrom, Top, (* 64, 256 and 4096 of CTX_NORM                *)
  MaxFaults

ASSUME CountingSizes ==
  {Vocab, MaxJobs, ParallelFrom, WMax, NormFrom, PruneFrom, Top, MaxFaults} \subseteq Nat \ {0}

(* With CTX_NORM fluency_train counts first, too.                          *)
ASSUME CountingConfigs ==
  \A c \in Configs :
    /\ c \in [text : Seq(0..(Vocab - 1)), mode : {"online", "counted"},
              order : Nat \ {0}, skip : BOOLEAN, jobs : 1..MaxJobs, chunk : Nat \ {0},
              soft : Nat, byCount : BOOLEAN, norm : BOOLEAN,
              nodeCap : Nat, nameCap : Nat, edgeCap : Nat]
    /\ c.text # <<>> /\ (c.norm => c.mode = "counted")

Jobs == 1..MaxJobs
Main == 0

VARIABLES
  cfg,     (* [text, mode, order, skip, jobs, chunk, soft, byCount, norm,  *)
           (*  nodeCap, nameCap, edgeCap]                                  *)
  pc,      (* where the main thread is                                     *)
  cur,     (* the job it starts, joins or merges                           *)
  thread,  (* of each job: none, running, inline or failed                 *)
  todo,    (* the places that main and each job have still to count        *)
  table,   (* their counts                                                 *)
  spoilt,  (* a table could not be merged                                  *)
  rest,    (* what main has still to materialise                           *)
  graph,   (* nodes of tokens and contexts, names, and weighted edges      *)
  kn,      (* kn_cont: the distinct predecessors of each token             *)
  faults

counting == <<cur, thread, todo, table, spoilt>>
result == <<rest, graph, kn>>
vars == <<cfg, pc, counting, result, faults>>
-----------------------------------------------------------------------------
Text == cfg.text
NoCounts == [g \in {} |-> 0]      (* the empty table                        *)
Grams(t) == DOMAIN t
Order(ctx) == Len(ctx)

(* A place is a position of the text and an order: that of the context of  *)
(* the gram there, 0 for the token itself, Skip for the gram with the      *)
(* token before the last as its context, raised beyond the vocabulary.     *)
Skip == cfg.order + 1
GramAt(p) ==
  [ctx |-> IF p[2] = Skip THEN <<Text[p[1] - 2] + Vocab>>
           ELSE SubSeq(Text, p[1] - p[2], p[1] - 1),
   next |-> Text[p[1]]]

(* The loops over places go up in position, and then in order.             *)
First(ps) == CHOOSE p \in ps : \A q \in ps : p[1] < q[1] \/ (p[1] = q[1] /\ p[2] <= q[2])

(* Jobs see only their own part of the text (mutant).                      *)
PlacesAlone(lo, hi, base) ==
  {p \in (lo..hi) \X (1..cfg.order) : p[1] - p[2] >= lo}
    \cup {p \in (lo..hi) \X {Skip} : cfg.skip /\ p[1] - 2 >= lo}

(* fluency_count_pass1_range: the places of lo to hi; contexts may reach   *)
(* back to base.                                                           *)
Places(lo, hi, base) ==
  {p \in (lo..hi) \X (1..cfg.order) : p[1] - p[2] >= base}
    \cup {p \in (lo..hi) \X {Skip} : cfg.skip /\ p[1] - 2 >= base}

(* One token at a time on the graph: the token, then its grams.  Every     *)
(* call of fluency_train, of which a text takes several, starts anew.      *)
ChunkStart(i) == 1 + cfg.chunk * ((i - 1) \div cfg.chunk)
Stream == {p \in (DOMAIN Text) \X (0..cfg.order) : p[1] - p[2] >= ChunkStart(p[1])}

(* The range of each job.                                                  *)
NJobs == IF Len(Text) < ParallelFrom THEN 1 ELSE cfg.jobs
Chunk == (Len(Text) + NJobs - 1) \div NJobs
Lo(j) == Min({(j - 1) * Chunk, Len(Text)}) + 1
Hi(j) == Min({j * Chunk, Len(Text)})
-----------------------------------------------------------------------------
With(t, g, n) == [x \in Grams(t) \cup {g} |-> IF x = g THEN n ELSE t[x]]
Without(t, g) == [x \in Grams(t) \ {g} |-> t[x]]
Rare(t) == {g \in Grams(t) : t[g] <= 1}

(* A gram takes over the count of the one it replaces (mutant).            *)
RefKept(t, g, soft) ==
  IF g \in Grams(t) THEN {t}
  ELSE IF soft = 0 \/ Cardinality(Grams(t)) < soft THEN {With(t, g, 0)}
  ELSE {With(Without(t, h), g, t[h]) : h \in Rare(t)}

(* fluency_count_ref: the tables in which g has a place.  A full one gives *)
(* up a rare gram, if there is one where g is looked for.  That a table    *)
(* with a limit fails to grow before it is full is left out.               *)
Ref(t, g, soft) ==
  IF g \in Grams(t) THEN {t}
  ELSE IF soft = 0 \/ Cardinality(Grams(t)) < soft THEN {With(t, g, 0)}
  ELSE {With(Without(t, h), g, 0) : h \in Rare(t)}

Full(t, g, soft) == g \notin Grams(t) /\ soft # 0 /\ Cardinality(Grams(t)) >= soft

Plus(t, g, n) == [t EXCEPT ![g] = @ + n]
-----------------------------------------------------------------------------
NodeCount(gr) == Cardinality(gr.toks) + Cardinality(gr.ctxs)

(* The last node is made beyond the limit (mutant).                        *)
NamedPast(gr, kind, x) ==
  IF x \in gr[kind] \/ gr.names >= cfg.nameCap THEN gr
  ELSE IF NodeCount(gr) > cfg.nodeCap THEN [gr EXCEPT !.names = @ + 1]
  ELSE [gr EXCEPT !.names = @ + 1, ![kind] = @ \cup {x}]

(* fluency_named_node: the name is kept also when there is no room for the *)
(* node.                                                                   *)
Named(gr, kind, x) ==
  IF x \in gr[kind] \/ gr.names >= cfg.nameCap THEN gr
  ELSE IF NodeCount(gr) >= cfg.nodeCap THEN [gr EXCEPT !.names = @ + 1]
  ELSE [gr EXCEPT !.names = @ + 1, ![kind] = @ \cup {x}]

Edged(gr, g) ==
  IF /\ g \notin DOMAIN gr.edges /\ Cardinality(DOMAIN gr.edges) < cfg.edgeCap
     /\ g.next \in gr.toks /\ g.ctx \in gr.ctxs
  THEN [gr EXCEPT !.edges = With(@, g, 0)] ELSE gr

(* fluency_order_step                                                      *)
OrderStep(k) == <<1, 8, 64, 512, 4096>>[Min({k, 5})]
Step(ctx) == OrderStep(Order(ctx))

(* One more occurrence, on the graph.                                      *)
Raised(gr, g) ==
  IF g \in DOMAIN gr.edges
  THEN [gr EXCEPT !.edges[g] = Min({@ + Step(g.ctx), WMax})] ELSE gr

(* The weight of a gram that was counted c times, in a context whose most  *)
(* frequent one was counted m times; 0 is no edge.                         *)
Weight(g, c, m) ==
  LET raw == Min({Step(g.ctx) * c, WMax})
      target == Min({Top, WMax})
  IN IF ~cfg.norm \/ m < NormFrom THEN raw
     ELSE IF c = 1 \/ (m >= PruneFrom /\ c < 3) THEN 0
     ELSE Min({WMax, (c * target * Step(g.ctx))
                       \div (m * OrderStep(cfg.order))})

MaxCount(t, ctx) == Max({t[g] : g \in {h \in Grams(t) : h.ctx = ctx}})
-----------------------------------------------------------------------------
Init == /\ cfg \in Configs
        /\ pc = "start" /\ cur = 1 /\ spoilt = FALSE
        /\ thread = [j \in Jobs |-> "none"]
        /\ todo = [j \in {Main} \cup Jobs |-> {}]
        /\ table = [j \in {Main} \cup Jobs |-> NoCounts]
        /\ rest = {}
        /\ graph = [toks |-> {}, ctxs |-> {}, names |-> 0, edges |-> NoCounts]
        /\ kn = [t \in 0..(Vocab - 1) |-> 0]
        /\ faults = 0

Fault == faults < MaxFaults /\ faults' = faults + 1

Start ==
  /\ pc = "start"
  /\ IF cfg.mode = "online"
     THEN /\ pc' = "online"
          /\ todo' = [todo EXCEPT ![Main] = Stream]
          /\ UNCHANGED rest
     ELSE /\ pc' = "tokens"
          /\ rest' = {Text[i] : i \in DOMAIN Text}
          /\ UNCHANGED todo
  /\ UNCHANGED <<cfg, cur, thread, table, spoilt, graph, kn, faults>>

(* Before counting, every token gets its node, or the training fails.      *)
Token ==
  /\ pc = "tokens" /\ rest # {}
  /\ LET t == Min(rest)
     IN /\ graph' = Named(graph, "toks", t)
        /\ rest' = rest \ {t}
        /\ pc' = IF t \in graph'.toks THEN pc ELSE "failed"
  /\ UNCHANGED <<cfg, counting, kn, faults>>

Tokens ==
  /\ pc = "tokens" /\ rest = {}
  /\ IF NJobs = 1
     THEN pc' = "serial" /\ todo' = [todo EXCEPT ![Main] = Places(1, Len(Text), 1)]
     ELSE pc' = "spawn" /\ UNCHANGED todo
  /\ UNCHANGED <<cfg, cur, thread, table, spoilt, result, faults>>

(* fluency_train                                                           *)
Online ==
  /\ pc = "online"
  /\ IF todo[Main] = {} THEN pc' = "done" /\ UNCHANGED <<todo, graph>>
     ELSE LET p == First(todo[Main])
              g == GramAt(p)
          IN /\ todo' = [todo EXCEPT ![Main] = @ \ {p}]
             /\ graph' = IF p[2] = 0 THEN Named(graph, "toks", g.next)
                         ELSE IF g.next \notin graph.toks THEN graph
                         ELSE Raised(Edged(Named(graph, "ctxs", g.ctx), g), g)
             /\ UNCHANGED pc
  /\ UNCHANGED <<cfg, cur, thread, table, spoilt, rest, kn, faults>>

(* Counting in one thread, up to the soft limit.                           *)
Serial ==
  /\ pc = "serial" /\ todo[Main] # {}
  /\ LET p == First(todo[Main])
         g == GramAt(p)
     IN /\ \/ \E t \in Ref(table[Main], g, cfg.soft) :
                table' = [table EXCEPT ![Main] = Plus(t, g, 1)]
           \/ Full(table[Main], g, cfg.soft) /\ UNCHANGED table
        /\ todo' = [todo EXCEPT ![Main] = @ \ {p}]
  /\ UNCHANGED <<cfg, pc, cur, thread, spoilt, result, faults>>

(* Without a limit, running out of memory ends the training.               *)
Exhausted ==
  /\ pc = "serial" /\ todo[Main] # {} /\ cfg.soft = 0
  /\ Fault
  /\ pc' = "failed"
  /\ UNCHANGED <<cfg, counting, result>>
-----------------------------------------------------------------------------
(* pthread_create for each job; when it fails, main does the job itself,   *)
(* which also clears the error that was noted.                             *)
Spawn ==
  /\ pc = "spawn" /\ cur <= NJobs
  /\ todo' = [todo EXCEPT ![cur] = Places(Lo(cur), Hi(cur), 1)]
  /\ \/ /\ thread' = [thread EXCEPT ![cur] = "running"]
        /\ cur' = cur + 1
        /\ UNCHANGED <<pc, faults>>
     \/ /\ Fault
        /\ thread' = [thread EXCEPT ![cur] = "inline"]
        /\ pc' = "inline"
        /\ UNCHANGED cur
  /\ UNCHANGED <<cfg, table, spoilt, result>>

Inlined ==
  /\ pc = "inline" /\ todo[cur] = {}
  /\ pc' = "spawn" /\ cur' = cur + 1
  /\ UNCHANGED <<cfg, thread, todo, table, spoilt, result, faults>>

(* fluency_count_job_main counts exactly.                                  *)
Count(j) ==
  /\ thread[j] \in {"running", "inline"} /\ todo[j] # {}
  /\ LET p == First(todo[j])
         g == GramAt(p)
     IN /\ \E t \in Ref(table[j], g, 0) : table' = [table EXCEPT ![j] = Plus(t, g, 1)]
        /\ todo' = [todo EXCEPT ![j] = @ \ {p}]
  /\ UNCHANGED <<cfg, pc, cur, thread, spoilt, result, faults>>

OutOfMemory(j) ==
  /\ thread[j] \in {"running", "inline"} /\ todo[j] # {}
  /\ Fault
  /\ thread' = [thread EXCEPT ![j] = "failed"]
  /\ todo' = [todo EXCEPT ![j] = {}]
  /\ UNCHANGED <<cfg, pc, cur, table, spoilt, result>>

Spawned ==
  /\ pc = "spawn" /\ cur > NJobs
  /\ pc' = "join" /\ cur' = 1
  /\ UNCHANGED <<cfg, thread, todo, table, spoilt, result, faults>>

(* pthread_join, also of a job without a thread, which is undefined: it    *)
(* may fail or bring the process down.                                     *)
Join ==
  /\ pc = "join" /\ cur <= NJobs /\ todo[cur] = {}
  /\ \/ pc' = pc /\ cur' = cur + 1
     \/ thread[cur] = "inline" /\ pc' = "crashed" /\ cur' = cur
  /\ UNCHANGED <<cfg, thread, todo, table, spoilt, result, faults>>

Joined ==
  /\ pc = "join" /\ cur > NJobs
  /\ cur' = 1
  /\ pc' = IF \E j \in 1..NJobs : thread[j] = "failed" THEN "failed" ELSE "merge"
  /\ UNCHANGED <<cfg, thread, todo, table, spoilt, result, faults>>

(* fluency_count_merge_into, gram by gram; that the soft limit leaves no   *)
(* place is an error here.                                                 *)
Merge ==
  /\ pc = "merge" /\ cur <= NJobs
  /\ \E g \in Grams(table[cur]) :
       \/ \E t \in Ref(table[Main], g, cfg.soft) :
            /\ table' = [table EXCEPT ![Main] = Plus(t, g, table[cur][g]),
                                      ![cur] = Without(@, g)]
            /\ UNCHANGED spoilt
       \/ /\ Full(table[Main], g, cfg.soft)
          /\ table' = [table EXCEPT ![cur] = NoCounts]
          /\ spoilt' = TRUE
  /\ UNCHANGED <<cfg, pc, cur, thread, todo, result, faults>>

Merged ==
  /\ pc = "merge" /\ cur <= NJobs /\ Grams(table[cur]) = {}
  /\ cur' = cur + 1
  /\ UNCHANGED <<cfg, pc, thread, todo, table, spoilt, result, faults>>
-----------------------------------------------------------------------------
(* fluency_kn_add_from_slots: a slot for each predecessor of a token.      *)
Predecessors(grams, t) ==
  Cardinality({g \in grams : g.next = t /\ Order(g.ctx) = 1 /\ g.ctx[1] < Vocab})

Counted ==
  /\ \/ pc = "serial" /\ todo[Main] = {}
     \/ pc = "merge" /\ cur > NJobs
  /\ IF spoilt THEN pc' = "failed" /\ UNCHANGED <<kn, rest>>
     ELSE /\ pc' = "contexts"
          /\ kn' = [t \in DOMAIN kn |-> Predecessors(Grams(table[Main]), t)]
          /\ rest' = {g.ctx : g \in Grams(table[Main])}
  /\ UNCHANGED <<cfg, counting, graph, faults>>

(* What comes first: short contexts, or, with pass2_pi_b, high counts.     *)
FirstContext(c) ==
  LET most(x) == MaxCount(table[Main], x)
  IN \A d \in rest :
       IF cfg.byCount
       THEN most(c) > most(d) \/ (most(c) = most(d) /\ Order(c) <= Order(d))
       ELSE Order(c) <= Order(d)

FirstGram(g) ==
  cfg.byCount =>
    \A h \in rest : \/ table[Main][g] > table[Main][h]
                    \/ table[Main][g] = table[Main][h] /\ Order(g.ctx) <= Order(h.ctx)

(* fluency_materialize_counts: first the contexts, then the edges.         *)
Context ==
  /\ pc = "contexts"
  /\ \E c \in rest : /\ FirstContext(c)
                     /\ graph' = Named(graph, "ctxs", c)
                     /\ rest' = rest \ {c}
  /\ UNCHANGED <<cfg, pc, counting, kn, faults>>

Contexts ==
  /\ pc = "contexts" /\ rest = {}
  /\ pc' = "edges"
  /\ rest' = Grams(table[Main])
  /\ UNCHANGED <<cfg, counting, graph, kn, faults>>

(* An edge keeps the heavier of its weights.                               *)
Materialised(gr, g, w) ==
  LET made == Edged(gr, g)
  IN IF g \in DOMAIN made.edges THEN [made EXCEPT !.edges[g] = Max({@, w})] ELSE made

Edge ==
  /\ pc = "edges"
  /\ \E g \in rest :
       LET w == Weight(g, table[Main][g], MaxCount(table[Main], g.ctx))
       IN /\ FirstGram(g)
          /\ graph' = IF w < 1 THEN graph ELSE Materialised(graph, g, w)
          /\ rest' = rest \ {g}
  /\ UNCHANGED <<cfg, pc, counting, kn, faults>>

Done ==
  /\ pc = "edges" /\ rest = {}
  /\ pc' = "done"
  /\ UNCHANGED <<cfg, counting, result, faults>>

Next == \/ Start \/ Token \/ Tokens \/ Online \/ Serial \/ Exhausted \/ Spawn \/ Inlined \/ Spawned
        \/ \E j \in Jobs : Count(j) \/ OutOfMemory(j)
        \/ Join \/ Joined \/ Merge \/ Merged \/ Counted
        \/ Context \/ Contexts \/ Edge \/ Done

Spec == Init /\ [][Next]_vars
-----------------------------------------------------------------------------
(* The reference: where in the text a gram occurs, or, on the graph, where *)
(* within the chunks that are trained one by one.                          *)
Base(i) == IF cfg.mode = "online" THEN ChunkStart(i) ELSE 1
Spans == {s \in (DOMAIN Text) \X (DOMAIN Text) :
            Base(s[2]) <= s[1] /\ s[2] - s[1] \in 1..cfg.order}
Skips == IF cfg.skip /\ cfg.mode = "counted" THEN 3..Len(Text) ELSE {}
Occurrences ==
  {[at |-> s[2], gram |-> [ctx |-> SubSeq(Text, s[1], s[2] - 1), next |-> Text[s[2]]]] :
     s \in Spans}
  \cup {[at |-> i, gram |-> [ctx |-> <<Text[i - 2] + Vocab>>, next |-> Text[i]]] : i \in Skips}
Occurs(g) == Cardinality({o \in Occurrences : o.gram = g})
TrueGrams == {o.gram : o \in Occurrences}
TrueCounts == [g \in TrueGrams |-> Occurs(g)]
TrueWeight(g) == Weight(g, Occurs(g), MaxCount(TrueCounts, g.ctx))
TrueEdges == {g \in TrueGrams : TrueWeight(g) > 0}

Fits == /\ cfg.soft = 0 \/ Cardinality(TrueGrams) <= cfg.soft
        /\ LET nodes == Cardinality({Text[i] : i \in DOMAIN Text})
                          + Cardinality({g.ctx : g \in TrueGrams})
           IN nodes <= cfg.nodeCap /\ nodes <= cfg.nameCap
        /\ Cardinality(TrueEdges) <= cfg.edgeCap

(* The limits hold whatever is counted.  Names are at least as many as     *)
(* nodes: one whose node had no room stays without a node.                 *)
TypeOK ==
  /\ pc \in {"start", "tokens", "online", "serial", "spawn", "inline", "join", "merge",
             "contexts", "edges", "done", "failed", "crashed"}
  /\ cfg.soft # 0 => Cardinality(Grams(table[Main])) <= cfg.soft
  /\ NodeCount(graph) <= Min({cfg.nodeCap, graph.names})
  /\ graph.names <= cfg.nameCap
  /\ Cardinality(DOMAIN graph.edges) <= cfg.edgeCap
  /\ \A g \in DOMAIN graph.edges :
       /\ graph.edges[g] \in 1..WMax
       /\ g.next \in graph.toks /\ g.ctx \in graph.ctxs

(* One tally for each time that a thread has counted a gram.               *)
Tallies(g) ==
  UNION {{j} \X (1..table[j][g]) : j \in {j \in DOMAIN table : g \in Grams(table[j])}}

(* However the threads interleave, their tables are merged, and a full     *)
(* table gives up rare grams to take in others, no gram is ever counted    *)
(* more often than it occurs, nor a predecessor that is none.              *)
NeverOvercounted ==
  /\ \A g \in UNION {Grams(table[j]) : j \in DOMAIN table} :
       Cardinality(Tallies(g)) <= Occurs(g)
  /\ \A t \in DOMAIN kn : kn[t] <= Predecessors(TrueGrams, t)

(* Where no limit is met, training ends with exactly the edges and weights *)
(* that the occurrences of the grams call for: the same from one thread,   *)
(* from several, whose ranges share contexts across their borders, and on  *)
(* the graph, token by token.                                              *)
CountedExactly ==
  pc = "done" /\ Fits =>
    /\ DOMAIN graph.edges = TrueEdges
    /\ \A g \in TrueEdges : graph.edges[g] = TrueWeight(g)
    /\ cfg.mode = "counted" =>
         \A t \in DOMAIN kn : kn[t] = Predecessors(TrueGrams, t)
=============================================================================
