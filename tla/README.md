# A TLA+ development of nerva-train

nerva-train is a C program that learns to continue text without
backpropagation. It has an event-driven graph engine (`src/src/`), a model of
next tokens on top of it (`src/worlds/fluency/`), and two tools: `pretrain`,
which trains a checkpoint from a corpus over hours, and `nerva`, a chat loop
that loads the checkpoint, generates, and is taught single sentences
(`src/tools/`). This directory models the parts of it that are hard to test,
checks them with TLC and proves what TLAPS can prove.

## 1. The system

### Components, their state and their operations

| Component | State | Operations |
|---|---|---|
| Event queue (`nerva_event.c`) | `events[]`, a binary heap on `due_tick`, `event_count` | push, merge, evict at the limit, pop |
| Tick loop (`nerva_engine.c`, `nerva_event.c`) | `tick`, charges `v`, `last_fired_tick`, `active_nodes[]` | deliver, fire, send along edges, leak |
| Mutation queue (`nerva_mutation.c`) | ring `mutations[]`, log | push, apply all |
| Learning (`nerva_learning.c`) | `wrong_feedback_count`, gates and weights of edges | feedback over traces, queue deltas and gate closes, Hebbian co-firing |
| Graph (`nerva_graph.c`) | nodes, edges, adjacency lists and their validity flag | create, block, modify, rebuild |
| Traces (`nerva_trace.c`) | ring of delivered events | record, decay, clear |
| Expectations (`nerva_prediction.c`) | pending expectations | precharge, confirm, miss, expire |
| Suppression (`nerva_exception.c`) | blocker edges | queue a blocker, suppress a signal |
| Memory (`nerva_memory.c`) | blocks with a charge, idle ticks | begin, charge, decay, forget, replay, consolidate |
| Routing (`nerva_routing.c`) | difficulty, fatigue, the query | decide, activate fluidly, crystallise |
| Schemas (`nerva_schema.c`) | candidates, support, distinct instances | observe, promote, apply |
| Persistence (`nerva_persist.c`) | an engine file | save in place, load through a staging copy |
| Branches (`nerva_branch.c`) | a copy of the engine | clone |
| Script (`nerva_parse.c`) | none | one command per line, each a call of the above |
| Count graph (`fluency.c`) | tables of counts, nodes and edges made from them | count in threads, merge, materialise, train on more text |
| Prediction (`fluency.c`) | charges of token nodes | activate contexts, tick three times, read votes |
| Teaching (`fluency.c`, `nerva_work.c`) | weights of a context's edges | probe, compare, commit; escalate |
| Organs (`fluency.c`) | fast edges, instances, gain, mood, hubs, CTW | deposits and injections, all optional |
| Words, BPE, morphology, reservoir, embedding (`fluency.c`) | tables | data transformations |
| Session file (`fluency_session.c`, `nerva_words_io.h`) | checkpoint, lexicon | save in place, load and verify |
| `tools/pretrain.c` | checkpoint, lexicon, partial checkpoint and its resume point | full run, resume, organs build |
| `tools/nerva.c` | one model | boot, chat, teach, save |

How they interact: everything is called synchronously on one thread, except
that counting uses threads. A tick pops events, delivers them to nodes, and the
nodes that fire push more events; what a tick delivers is recorded in the
traces. Feedback reads the traces and queues mutations, and a later batch
applies them to edges. Prediction drives the engine by activations and ticks;
teaching changes weights around predictions and commits through the mutation
queue. The tools only share files, over crashes and restarts, and one file of
them, the staging copy of the engine, under a name that every tool uses.

### What is hard

* The heap is changed in its middle (merge, eviction) and read only at its
  root; an event that gets stuck is dropped later without a sound.
* Mutations carry values computed long before they are applied; the ring may
  drop either of two that belong together.
* The adjacency lists are caches, and batches of mutations invalidate them.
* Prediction depends on refractory periods of an earlier prediction, on what
  is left in the queue, and on saturation at 16 bits.
* Teaching measures one change at a time, in place, and applies several.
* Training runs for hours and may be cancelled at any moment; its files are
  truncated in place and come in pairs.
* Within a tick, the outcome depends on which of two events comes first, and
  the decision about a query is taken ticks later from what the trace kept.
* Derived edges are queued when their premises hold and applied when the engine
  is idle, long after.
* A session is read while another process writes it, and both stage the engine
  in the same file.
* Counting shares a text among threads whose contexts overlap, and gives up
  counts when a table is full.

`PROJECT.json` lists each hazard at its line with the properties that would
catch it, or the reason why none does.

### What makes each component correct

* Event queue: the heap order, nothing overdue, and the abstract bag of events.
* Mutation queue: first in, first out, within its capacity.
* Learning: a gate closes only for marks received and never reopens; a pass
  credits an edge once.
* Graph: adjacency lists that are believed are exact.
* Prediction: it reads the sum of the votes of the contexts that exist.
* Teaching: it does not make the taught token less likely, and escalation gives
  up only at the bound on weights.
* Pretraining: a resumed run skips only what was learnt, repeats at most one
  interval, and no crash loses a finished model.
* Engine: an exception holds against every path, in a calm engine; every
  expectation that is kept is settled, and its trace tells how; a query is
  decided, and every suppression since its latest activation is taken into
  account.
* Schemas: what is derived follows from what was stated; a schema is promoted
  by distinct instances only; an output is never changed.
* Memory: a block is forgotten in the end, but only after a whole hold period of
  low charge; waiting mutations are applied by an idle engine.
* Session: nobody runs on a torn or mixed engine, nor on parts of two saves
  unless the staging file was shared; a save that succeeded is found.
* Counting: the same edges and weights whether counted in one thread, in
  several, or on the graph; nothing counted too often at a limit.

## 2. Modules

| Module | Models | Correspondence |
|---|---|---|
| `Events` | events, Q8.8 arithmetic, stale and merge tests | shared by the next two |
| `EventBag` | what the queue promises: a bounded set of events | choices that the layout of the array decides are nondeterministic |
| `EventQueue` | `nerva_event.c`'s heap, driven as `nerva_tick` drives it | `heap` is `events[0..event_count-1]`; each turn of a sift loop is a step |
| `MutationFifo` | what the mutation queue promises | a sequence of at most `RingCap` |
| `MutationRing` | the ring of `nerva_mutation.c` | `slots`, `head`, `tail`, `count` |
| `Learning` | feedback, graph, traces and batches, around the ring | turns of the feedback pass and of `nerva_apply_mutations` are steps |
| `Predict` | `fluency_predict`, `fluency_pcw_teach_pos` and its escalation on the tick loop | the queue is `EventBag`; deliveries, sends and probes are steps |
| `Pretrain` | `tools/pretrain.c` and its files | every truncation, close, removal and rename is a step; a crash may come between any two |
| `Engine` | `nerva_tick` with blockers, expectations and the router, driven by script commands | the queue is `EventBag`; each delivery, each edge sent along and the end of a tick is a step |
| `Schema` | `nerva_schema.c` and the waiting edges | one action per command; `facts` is the graph, `waiting` the mutations |
| `Memory` | `nerva_memory.c` on top of `Schema` | one action per command, one step per tick of a TICK command |
| `Session` | `fluency_session.c` and `nerva_persist.c`, for several processes, and the boot of `nerva.c` | every open, read, write, seal and removal is a step, of any process; a crash or a failed call may come instead |
| `Counting` | `fluency_train`, `fluency_train_counted_jobs` and the materialising of counts | each gram counted, merged or made an edge is a step, of the main thread or a job |
| `EventQueue_proofs`, `Learning_proofs`, `Pretrain_proofs`, `Session_proofs`, `Memory_proofs`, `Engine_proofs`, `Counting_proofs`, `Predict_proofs` | theorems about the module of that name | each extends it; `Memory_proofs` has those about `Schema` too |

`Predict` composes the engine with `EventBag` and not with the heap: the
theorem `QueueImplementsBag` says that the heap is one of the bag's
implementations. The bag leaves the order among events of one tick open, so
what `Predict` and `Engine` satisfy holds for any order the heap may choose.
`Memory` extends `Schema`: the edges that schemas derive wait until the
consolidation of an idle engine applies them.

Simplifications, by module:

* `EventQueue`: an event has an `id` that no other pending event has. It is no
  field of the code and no guard reads it except to choose a free one; it
  tells equal events apart in the refinement. An event's source, target and
  relation are one key; trace tags and the debug counters are left out.
* `Learning`: a trace record is its edge and the ticks it has left to be
  credited, which stands for its tick, its query tag and its flags. The four
  reasons for a weight delta are two, since the code treats missed like wrong
  and confirmed like correct. `Predict` there is the effect of any expectation.
  The decision to end a tick in a consolidation is nondeterministic.
* `Predict`: edges are as the model makes them (open gate, no control node, no
  blocker), so an edge's signal is its weight: `nerva_compute_edge_signal`
  multiplies by 256/256 and by 65535/65536 with rounding, which is the identity
  on weights above -32768. It is `fluency_predict` with `fast_lambda` zero, as
  `fluency_init` leaves it (`fluency.c:326`), and with the other organs off. The
  products do turn fast edges on (`tools/nerva.c:163` and `:245`,
  `tools/pretrain.c:663` and `:1029`): what these then add to the charges of
  token nodes after the three ticks (`fluency.c:2544`) is left out, and so is
  the context of the token before the last (`fluency_skip_fire`, `:2533`, off by
  default). `VotesSuperpose` is about the charges before that addition, and
  `TeachingHelps` and `EscalationExhausts` about the model without it.
* `Pretrain`: tokens are counted in chunks, a model is the sequence of chunks
  it was trained on, and a file is absent, torn or whole. The loaders reject
  torn files by size, CRC or a short read. One tool runs at a time.
* `Engine`: the graph does not grow and no memory block exists (`Memory`);
  feedback is `Learning`'s. Trace records have no decaying values and no path
  tags. A router's difficulty is computed where it is read, as the code would
  find it. Among nodes equally suited for the workspace any are taken. The
  deltas that predictions leave are applied one by one (`Apply`) by an engine
  that has been idle for long enough, between ticks; the ring of mutations is
  not full. Ids of events are the first free ones. The tag of a query is its tick
  and its node, which the code packs into 32 bits (`nerva_event.c:310`); that
  packed tags may coincide is left out.
* `Schema` and `Memory`: charges are integers in a unit in which halving is
  exact wherever it is compared with a threshold. That a pass takes half of a
  charge is the configuration of the tests (`nerva_config.h:68`); by default it
  takes a thousandth (`:62`), and the properties are about when a charge is low,
  not about how fast it gets there. How long an activation keeps
  the engine busy is chosen freely. The tests for exceptions and for benefit at
  a promotion are left out because they always pass: nothing increases
  `exception_count`, and one edge always costs less than two hops. The number of
  traces of an episode and the ticks of accesses are not read by anything.
* `Session`: a model is the number of the save that made it, part by part; an
  engine file is a header and a body, and all engines have the same size. CRCs
  are exact: a checksum is what it was taken of. The map of names, the chat
  section (empty in these tools) and older layouts are left out.
* `Counting`: tables are functions from grams to counts, and what their hash
  decides (which rare gram is given up, in what order tables are read) is left
  open. Context shards (always one), unigram totals, deposits of fast edges and
  the records of saturation are left out, and so is running out of memory
  except in a job and in an unlimited count. In particular a table with a soft
  limit (7000000 by default) may fail to grow below that limit, because `calloc`
  fails or because it has reached 12M slots (`fluency.c:1413`, which a limit of
  more than some 8.8M grams would meet). The code then treats the table as full
  (`:1448`): the new gram replaces a rare one or is dropped without a sound
  (`:1532`), while here that needs a full table. In a merge such a failure makes
  the training fail, also without a soft limit (`:1582`); here only the limit
  does.

## 3. Runs

| Run | Properties | Bounds |
|---|---|---|
| `event_queue` | `TypeOK`, `HeapOrder`, `NothingOverdue`, `ImplementsBag` | 5 events, 2 ticks, delays 1 and 3, merge window 1, injected edge events |
| `learning` | `TypeOK`, `GateJustified`, `OncePerPass`, `AdjacencyExact`, `ImplementsFifo`, `GatesOnlyClose` | 2 nodes, 2 edges, ring of 2, trace ring of 2, 5 mutations |
| `predict` | `TypeOK`, `VotesSuperpose`, `TeachingHelps`, `EscalationExhausts` | 2 orders, 2 tokens, all graphs with weights 1 and 10, 4 rounds, 2 calls |
| `predict_saturated` | `IntegratorsNeverSpike` (violated) | 2 orders, 2 tokens, votes that sum over the largest charge |
| `pretrain` | `TypeOK`, `ResumeCovered`, `CheckpointComplete`, `RetrainsOneInterval`, `OrgansKeepModel` | 4 chunks, 4 starts, 3 crashes, 2 failed writes |
| `pretrain_progress`, `pretrain_resume`, `pretrain_replace` | `KeepsProgress`, `SkipsOnlyTrained`, `AtomicReplace` (violated) | as above, with no failed write and at most 2 crashes |
| `engine` | `TypeOK`, `ExceptionHolds`, `TraceTellsFate`, `FatigueRemains`, `SuppressionNoticed`, `QueryDecided`, `ExpectationsSettle` | 3 nodes, 3 graphs, 2 expectations, 6 traces, 7 ticks, 4 commands |
| `memory` | `TypeOK`, `PromotionEarned`, `Sound`, `OutputStable`, `HeldLongEnough`, `ConsolidationComes`, `ForgottenAtLast` | 4 nodes, 2 relations, 2 schemas, 2 blocks, 12 ticks, 6 commands |
| `session` | `TypeOK`, `EngineWhole`, `ModelOfOneSave`, `SavedIsLoaded` | 2 savers, 2 versions, 1 loader, 2 boots, 2 faults or crashes, 4 inodes |
| `counting` | `TypeOK`, `NeverOvercounted`, `CountedExactly` | texts of 5 and 6 tokens, up to 3 jobs, soft limits of 3 and 4, graphs with and without room, 1 fault |

Why the bounds are enough:

* Five events make a heap of three levels, so that an event may sink or rise
  two levels and have siblings and cousins. The two delays are further apart
  than the merge window, so that an event merges with some pending event of
  its key and not with others. The array overflows after five pushes; the two
  signals differ in strength and sign, so that eviction and refusal both
  happen. An event that is injected for an edge bears the key of the edge, so that
  later sends merge with it; an activation's merges with none. The theorems cover
  all other values.
* A ring of two wraps around and overflows within five mutations. Two edges
  between two nodes, one of them of the relation `blocks`, reach the limit on
  edges and let a blocker be made of an edge that exists. The threshold of two
  marks is reached within one pass or over two passes, and a gate of three
  closes by steps of two: once to one, and then to zero where it would
  otherwise wrap around. One seen-slot with two edges lets the array of seen
  edges be too small.
* Two orders of contexts with two tokens give votes that agree, compete or are
  alone, contexts that exist at one order and not at the other, and a candidate
  edge besides the taught one. Two calls are the least in which a call meets
  what another left behind. In an escalation, each of the four rounds doubles
  the delta as far as its cap, and with a delta that does not grow the bound on
  weights would not be reached. The largest charge, 33, is one more than the
  largest sum of votes that a probe can make (2 * 10 + 12).
* Four chunks with a partial checkpoint after each allow a resume from the
  first, from a later one, and an end in the tail, which saves none. Four starts
  allow a full run, an organs build, a run with `--fresh` and a resume of it.
  The run saves after every chunk; larger intervals are the theorem's
  (`RetrainsOneInterval` for any `SaveEvery`).

* Three nodes make a penguin (an exception against a direct edge and a path of
  two), a short cycle with a gated edge, and a cycle as long as the refractory
  period, on which a firing runs for ever. Two expectations are the least in
  which the first pending one is not the one that comes true. Six traces
  overflow within a long command, and four commands are a query, prediction
  mode, one activation more and a TICK. Weights and thresholds are those of the
  default configuration, scaled down where a tick limit would hide an effect
  (refractoriness 3, window 1, threshold 640). With the default threshold of
  2048 no query is ever solved fluidly: the greatest difficulty is 1216.
* A chain of three stated edges gives three triples; a limit of two distinct
  instances lies below the greater of the two thresholds, 2 and 3. Two blocks
  compete for one replay. Twelve ticks are four hold periods.
* Two savers and a loader are enough for a load to be disturbed by a save, a
  save by another save and by a load, and a save that reported success to be
  overwritten by one that failed. The second version has optional tables that
  the first has not, and two faults let a failed save be followed by a failed
  load. Two boots let a load follow another one's leavings. The savers are alike
  and so are inodes, and the run uses their symmetry (it has no liveness
  property). What more processes could do is covered by the theorems, which
  hold for any number of each.
* Texts of five tokens repeat contexts and have them reach across the borders of
  two and three ranges; with soft limits of 3 and 4 every text has more grams
  than fit. The limits of `CTX_NORM`, 64 and 256, are 2 and 3 here.

Deadlock is checked for the event queue, except that its clock stops at
`MaxTick`: activations go on then. The other models stop when their bounds are
used up, and their configurations say so.

### Fairness

`Engine` and `Memory` assume `WF_vars(TickStep)`: a TICK command is a loop in the
program (`nerva_tick_n`), which, once it runs, runs to its end on the one thread
there is. Nothing else is fair: nobody has to give a command, and the liveness
properties are about a command that has been given and has so many ticks
`left`. `QueryDecided`, `ExpectationsSettle`, `ConsolidationComes` and
`ForgottenAtLast` say what such a command achieves; the first excludes graphs
with a lasting cycle, on which the queue never runs empty, and TLC shows that it
must. The other modules assume no fairness: training may be cancelled, a
process may be killed, and their properties are safety and action properties.
Three statements that sound like liveness are given as safety: nothing is ever
overdue, a repeated interval is bounded by the number of interruptions, and
escalation ends with gold on top or at the bound on weights.

### What the violated runs show

* `predict_saturated`: the comment at `fluency.c:285` says that a token node
  never spikes. Its threshold is the largest charge there is, charges saturate
  there, and the test is `>=`. Pretrained weights go up to that value, so two
  strong votes make the token fire, be reset to zero, and lose the prediction
  that it should have won. With the smoke model's weights, at most 1024, three
  orders cannot saturate, and `VotesSuperpose` holds with room to spare.
* `pretrain_progress`: a partial checkpoint is written over the previous one,
  so that a run cancelled while writing keeps neither.
* `pretrain_resume`: after `--fresh` the resume point of the earlier run stays
  on disk. If the new run is cancelled between its partial checkpoint and its
  resume point, the next one combines the new model with the old point and
  skips tokens that the model never saw. `ResumeCovered` and
  `CheckpointComplete` hold for files of one and the same run, which the
  history variables `run` and `stale` tell apart.
* `pretrain_replace`: the checkpoint is removed before the new file is renamed
  to it. `OrgansKeepModel` holds nevertheless, because the temporary file was
  verified before: the model survives under another name.

### Conditions of the passing properties

Where a property has a condition, the condition marks what the code does not
guarantee:

* `ExceptionHolds` needs a query that opens a calm engine at the source of the
  blocker. If the source fires later than another path reaches the target, the
  target has fired before the blocker counts. Calm includes that no edge weighs
  more than one (256): a stronger signal, halved by the suppression, still
  reaches the threshold. An event that a caller injects ends the calm, and so
  does learning that makes an edge stronger while the query runs.
* `TraceTellsFate` needs a query to expect an edge once: the first pending
  expectation is resolved, and the newest record of its edge is marked.
* `SuppressionNoticed` needs a trace that has not overflowed, and it counts what
  was suppressed since the latest activation. An activation leaves the router's
  query open and changes the tag by which the router looks for suppressions
  (`nerva_event.c:310`, `nerva_routing.c:24`). So if a signal is suppressed,
  another node activated and only then the query decided, it is decided without
  the contradiction, although the record is in the ring. The property states
  both: what bears the current tag counts, and nothing else does. The run has
  queries of either kind.
* `ExpectationsSettle` needs a prediction window: with none nothing expires
  (`nerva_prediction.c:40`).
* `FatigueRemains` is a statement of what the shift does: once tired, the
  router's threshold stays up to 255 units above its base for ever.
* `ModelOfOneSave` and `SavedIsLoaded` need that nobody else used the staging
  file during the load, and during the save. All processes share
  `<path>.eng.tmp` (`fluency_session.c:562`, `:824`). Without the condition TLC
  finds a load that takes the engine of one save with the side blob of another,
  and a save that stores the engine staged by a load, with a correct CRC and a
  return value of success. `EngineWhole` holds without any condition. With two
  savers, a save that nobody disturbed may also be overwritten by a disturbed
  one before the boot; so `SavedIsLoaded` speaks of boots before which the last
  writer of the session file is that save.
* `CountedExactly` needs room in tables and graph; counts on the graph are
  those within chunks (`fluency_train_sat`, and the chunks of `pretrain`),
  where contexts across a border are lost.

Two differences between text and code have no run, since nothing depends on
them: `fluency_session.h:30` says that the map of names is not stored, and the
code stores it (`fluency_session.c:201`); `fluency.h:417` calls
`fluency_train_sat` "Like fluency_train", which loses no contexts.

`VotesSuperpose` is stated for graphs that fit (`Fits`): no sum of the votes of
one sign reaches the largest charge, and queue and array of active nodes hold
what one prediction needs. Edges of weight zero send nothing and still count for
the queue, because the activation of their context needs a place.
`TeachingHelps` and `EscalationExhausts` speak of every graph within the bounds
on weights; for that `Roomy` asks that zero is between the bounds and that the
contexts of all orders at a bound, and a probe of one of them by the largest
delta, do not reach the largest charge. The default bounds of -1024 and 1024
(`nerva_config.h:35`) and the cap of 8192 allow that for every order up to
`FLUENCY_MAX_ORDER`: 8 * 1024 + 8192 = 16384 < 32767. The bound of 32767 that
`pretrain` sets does not; on a saturated graph a probe may make a rival fire and
lose its votes, and teaching then acts on a wrong measurement.

`Thorough` is what escalation needs besides. Doubling must reach the cap by the
last round (48 doubled 23 times is more than 8192), the cap must take any weight
to the bound (1024 - -1024) and outvote all contexts at the lower bound (up to
order 7: 7 * -1024 + 8192 > 1; at order 8 exactly 0 is left, and the gain of a
probe may not show), and the leak must not swallow its gain (`Leak` is 2^6). Even
then escalation does not always make the taught token the most likely one:
contexts of lower orders, which it does not touch, may outweigh the context it
teaches. `EscalationExhausts` says that this is the only reason.

The assumptions of `Predict` are that a node rests no longer than a prediction
takes (`refractory_ticks` is 3, `nerva_config.h:99`), that the first delta is no
larger than the cap, and that there is a round.

## 4. Proofs

Each theorem holds for every value of the constants that the named assumptions
of its module allow, and TLC evaluates these assumptions on every run. Each
component has an inductive invariant: the properties, and next to them what
makes them inductive. All of them were checked with TLC before they were proved.

| Module | Theorem | States |
|---|---|---|
| `EventQueue_proofs` | `WellTyped`, `HeapOrdered`, `NeverOverdue` | `TypeOK`, `HeapOrder`, `NothingOverdue` |
| | `QueueImplementsBag` | `ImplementsBag`, a refinement |
| `Learning_proofs` | `LearningTyped`, `NoGateUnjustified`, `OneDeltaPerPass`, `ListsAreExact` | `TypeOK`, `GateJustified`, `OncePerPass`, `AdjacencyExact` |
| | `GatesNeverOpen`, `RingIsFifo` | `GatesOnlyClose`, and the refinement `ImplementsFifo` |
| `Pretrain_proofs` | `TypeCorrect`, `ResumeNeverAhead`, `FinishedSawAll`, `OneIntervalAgain` | `TypeOK`, `ResumeCovered`, `CheckpointComplete`, `RetrainsOneInterval` |
| | `ModelNeverLost` | `OrgansKeepModel`, an action property |
| `Session_proofs` | `SessionTyped`, `EngineNeverMixed`, `ModelNeverMixed`, `ReportedIsLoaded` | `TypeOK`, `EngineWhole`, `ModelOfOneSave`, `SavedIsLoaded` |
| `Memory_proofs` | `MemoryTyped`, `PromotedByDistinctTriples`, `DerivedFromStated` | `TypeOK`, `PromotionEarned`, `Sound` |
| | `OutputsKept`, `NeverForgottenEarly` | `OutputStable`, `HeldLongEnough` |
| `Engine_proofs` | `EngineTyped`, `BlockedNeverFires`, `FatesAreTold`, `TiredForGood` | `TypeOK`, `ExceptionHolds`, `TraceTellsFate`, `FatigueRemains` |
| | `SuppressionsCount` | `SuppressionNoticed`, an action property |
| `Counting_proofs` | `CountingTyped`, `NeverCountedTooOften`, `CountsAreExact` | `TypeOK`, `NeverOvercounted`, `CountedExactly` |
| `Predict_proofs` | `PredictTyped`, `PredictionExact` | `TypeOK`, `VotesSuperpose` |
| | `TeachingNeverHurts`, `EscalationReachesBound` | `TeachingHelps`, `EscalationExhausts` |

The invariants themselves are stated as `CoverInvariant` (of the tools),
`LearningInvariant`, `SessionInvariant`, `MemoryInvariant`, `EngineInvariant`,
`CountingInvariant`, and for `Predict`, which has one for each property,
`PredictInvariant`, `VotesInvariant`, `HelpInvariant` and `ExhaustInvariant`.

### Event queue

The inductive invariant is `QueueInv`, the conjunction of the three invariants.
Of them only `TypeOK` is inductive alone. `HeapOrder` needs it for the sizes of
the array, and `NothingOverdue` needs both: the tick ends when the root is not
due, and only the order extends that to the rest of the array. `HeapOrder`
itself has to say what is true while a loop runs: everywhere but at the moving
event the order holds, and across it, from its parent to its children, it holds
as well; without that second part, a swap could put an event above one that is
due earlier.

The central lemma, `RootEarliest`, says that no event is due before the root: of
the places whose event is due before the root take the first; its parent's event
is due no later, and so is due before the root at an earlier place. A further
group of lemmas says what swapping, replacing, appending and removing do to the
set of pending events; they turn each step of the array into a step of the bag,
or into a stutter for the turns of the sift loops.

### Learning and the mutation ring

`LearningInv` follows a closing gate from the pass that asks for it to the batch
that applies it. `GateTurn` says that a gate is queued behind the mark of the
same turn, unless the ring had no room for the mark; `GatesAgree` that all gates
waiting for an edge are one step from the gate it has, or, within a batch, the
same; `GatesWait` that each of them is justified once the mark before it has
been applied, and `Marked` that the count of an edge, which may stand still at
its limit, is no more than its marks. Without `GatesAgree` a batch could close a
gate twice from one cause. `AdjacencyExact` needs `Lists`, which says what the
flag promises while a batch has made the lists stale. `RingIsFifo` needs only
`RingShape`: tail is head plus count, modulo the capacity.

### The tools

`CoverInv` says what each place of the program counts on (`Places`, for example
that between the two files of a partial checkpoint the first one holds the model
in memory or nothing whole), that no file is of a run that has not started, and
that a model and the resume point of the same run belong together (`Covered`).
`RetrainInv` counts: what a training has repeated, and what it will repeat if it
is continued from any of the files, is at most an interval for each interruption
so far. While a partial checkpoint is being saved one interval more is at stake,
which the crash that loses it pays for. The sums are cardinalities, so that no
induction over the corpus is needed.

### Sessions

`SessionInv` follows a version through staging file, header, session file and
memory, for any number of processes: `Honest` says that a header whose side blob
is of a save that nobody disturbed has the checksum of that save's engine;
`SaverHas` and `LoaderHas` what the staging file has in each step of a save and
of a load that nobody has interfered with; `FileHas` what the session file has in
each step of the save that wrote all of it; `SureHas` where a boot that has to
find a version finds it. A step of one process keeps these for all others,
because it leaves the staging file alone or takes the others out of those that
are undisturbed (`OthersUndisturbed`).

### Schemas and memory

`SchemaInv` says that a schema holds as many of the distinct triples observed
for its pair as it has room for, and is promoted exactly when they reach the
threshold, and that at most one schema has a pair. `Sound` is its own
strengthening, once it is stated of sets of edges and not of chains of
derivations: a set of edges, present or waiting, that the script did not state
has a member that follows from edges outside of the set. A batch that drops
edges at the limit keeps it because batches apply a prefix of what waits. For the
blocks, the note of when a charge was found low is never older than the last
time when the charge was high (`LowSince`).

### Engine

`EngineInv` has four parts. `TypeInv` includes the order of times: a signal is
due in this tick or the next, and no node has fired in a tick that has yet to
begin. `MuffledInv` follows `muffled`, the tags under which a signal has been
suppressed since the router's query was opened: such a suppression is in the
trace ring with its tag unless the ring has overflowed, and while a query waits
for its decision no record of a suppression bears the current tag that is not in
`muffled`, because a new activation's tag is that of no record (`FreshTag`).
`FateInv` relates the list of expectations and the records in the ring: every
record of the running query has an expectation, two records of an edge have two,
and the record of an edge expected once bears its fate. `CalmInv` is what makes
an exception hold: while the opening of a calm query lasts, each signal weighs
at most one, no two wait for the same edge and tick, and nothing but the
activation is pending until its node has fired; from then on the source of the
blocker is active whenever a signal reaches the blocked node, which is halved
and leaves the node below its threshold. Beyond types the theorem uses that a
suppression takes at least half (`EngineSuppression`; the default is 32768 of
65536). `FatigueRemains` uses that one fluid query raises the threshold by at
least what the shift does not decay (`EngineFatigue`; 256 and 255 by default).

### Counting

`CountingInv` says which places of the text a tally stands for (`Own`): in one
thread those that it has passed; of a job those of its range that it has passed,
until main has merged the gram (`Taken`; a gram that the job never counted passes
to main, with no places, when main turns to the job). `CountsInv` bounds each
tally by the number of its places with that gram, and makes them equal while no
limit has been met and no thread has failed. Everything else follows from sets of places:

* `OccurrencesAt` and `OccursAt` identify the reference, which is stated over
  spans of the text, with the places that the loops visit; `GramTells` says that
  the grams at one position differ, so that no occurrence stands for two places.
* `RangesApart`, `RangesMeet`, `MineApart` and `MineMeet`: the ranges of the
  jobs, with their rounded-up division, share out the positions, and each place
  with its context that may reach back over the border is of one job.
* `NeverOvercounted` follows because no two threads have a place in common
  (`OwnDisjoint`): the pairs of a thread and a number that `Tallies` collects map
  one to one to places with the gram (`TalliesApart`), without summing anything.
* `CountedExactly` needs `CountedGraph` and `OnlineGraph`, which say what the
  graph holds in each stage if everything fits. `RoomFor` and `RoomForEdge` show
  that then no limit of the graph is met before the end; `TokenFirst` that on the
  graph a token has its node before its first gram needs it; `OnceMore` that
  adding the step of an order again and again, with saturation each time, gives
  the weight that multiplying gives.

From the configurations the theorems use no more than `CountingSizes` and
`CountingConfigs`.

### Prediction and teaching

The sums of votes are folds of the community modules, and their values come
from `CHOOSE`. `Predict_proofs` first shows that they are what they should be:
`SumsExist` and `SumsAgree` that the recursive function behind the fold exists
and is unique on the subsets of a finite set, and from that `SumRemove`, which
takes any one element out of a sum. Everything else about sums follows by taking
a smallest subset for which it is false and an element out of that
(`SumSplit`, `SumMonotone`, `SumAtMost`, `SumSigns`, `SumOpposite`), a form of
induction that needs no theorem with an operator as its parameter.

* `PredictInv` has the engine's part, in which what may be pending in each tick
  of a prediction is due in it or the next, and the job's part, in which every
  edge that is taught, probed or chosen exists, and taking back the probe that is
  going on leaves weights within their bounds. Its `RestInv` counts the ticks of
  a prediction against `Refractory`: that is why a context fires in every
  prediction, however soon it follows the last one.
* `VotesInv` says, for a graph that fits, where each vote is. In the first
  tick (`Firing`) a context of the call is yet to be activated, or its activation
  is pending, or it has fired, and then each of its edges is still to be sent or
  its vote is pending, once, with the right weight. In the second tick
  (`Collecting`) the charge of a token is the sum of the votes that are no longer
  pending, and that of no others; after it (`Collected`) that sum has leaked.
  `PartsFit` shows that no partial sum saturates, in whatever order votes come,
  and `Room` that the queue is never full when a vote is sent.
* `HelpInv` keeps what the probes have found (`Helpful`): the share on either
  side is no less than the one without a probe, the edge chosen to be raised
  leads to the taught token and the one chosen to be lowered does not. A probe in
  the wrong direction is never chosen, because it cannot make the share larger
  (`FavoursBetter`, with the votes leaking in between, and `BetterOrder`, which
  makes the comparison of fractions transitive). Then what is applied, at
  whatever size and against whatever bounds, only raises edges to the token and
  lowers others (`AppliedFavours`).
* `ExhaustInv` follows the rounds. The delta of round r is `Doubled[r]` up to its
  cap (`DeltaGrows`); the first probe of a round is of the gold edge, and when
  the delta is the largest it is chosen (`GoldRises`: it outvotes all other
  contexts, and its gain is not lost to the leak; `StrictBetter`); no later
  probe of the round raises anything (`EscalatedOrder`). So the last round takes
  the gold edge to its bound (`LastStep`).

### What proving found

Two statements held on the runs and not for all constants. `SavedIsLoaded` was
violated as soon as a second tool saved: its history noted the last save that
had succeeded, and not whose bytes the session file had. It follows the writers
of the file now, and the run has two savers. `ExceptionHolds` asked for weights
of at most one only when the query opened, and learning may lift one above that
while the query runs; the deltas are now applied one at a time in the model,
each of which may end the calm. In both cases the condition was incomplete; the
code does what the model says. `Sound` was first stated with chains of
derivations of bounded length, and is now stated without recursion.

In `Predict`, the conditions under which the properties hold were incomplete in
four places, in none of which the run could tell. `Fits` counted only votes for
the queue, and a context all of whose edges are mute needs a place too. The type
of a charge left out its least value, -32768. A period of rest longer than a
prediction, or a first delta larger than the cap, made properties false and were
not excluded. `Thorough` allowed a largest delta of 1, whose gain the leak may
swallow. On the other hand `EscalationExhausts` had a further alternative, that
the token had become the most likely one, which the proof did not need, and
`Roomy` asked that every weight might be moved by a probe at once, so that it
held up to order 3 only; one weight at a time is what the proof needs and what
the code does, and now the default bounds satisfy it for every order.

### Model-checked only

* Liveness, which is about fairness and `ENABLED`: `QueryDecided`,
  `ExpectationsSettle`, `ConsolidationComes`, `ForgottenAtLast`.

Every other property of a passing run is stated by a theorem.

## 5. Not modelled, and why

* Data transformations without a protocol: words, BPE, morphology, reservoir,
  embedding, the numbers in the tables of gain, mood, hubs and CTW. Each is a
  function from arrays to arrays that a unit test reaches.
* Generation and evaluation, which call the prediction in a loop over a sliding
  context and keep no state between calls.
* Fast edges and instances beyond what a session carries of them. Fast edges are
  off in a new model and turned on by the products; `Predict` describes a
  prediction before what they add (section 2).
* `nerva_branch.c`, a deep copy of the engine that nothing calls.
* Parsing of script lines, terminal input and output, printing, counters and
  benchmarks.
* The layout of files below the level of header, body and side blob.
* Failures of `malloc`, except in the jobs and the unlimited count of `Counting`;
  section 2 says what a table that cannot grow does.

## 6. Plan

Done: the event queue with its proofs; learning with the mutation ring;
prediction and teaching; pretraining; the engine's tick with its exceptions,
expectations and router; schemas and memory; sessions; counting.

Next:

1. Fast edges and instances with their evictions, as a part of `Predict`: the
   products predict with them.
2. Tables of `Counting` that fail to grow below the soft limit.
