-------------------------------- MODULE Schema --------------------------------
(***************************************************************************)
(* Schemas: compositions of two relations that are observed in distinct    *)
(* triples of nodes until they are promoted, and then applied to derive    *)
(* edges (src/src/nerva_schema.c).  A derived edge waits in the mutation   *)
(* queue until a batch applies it (MutationRing; here a bounded sequence). *)
(*                                                                         *)
(* The count of exceptions and its cost are never increased by the code,   *)
(* and the benefit of a schema is positive from its first instance on: the *)
(* tests of both in nerva_schema_promote_if_ready pass for every schema    *)
(* with support.                                                           *)
(***************************************************************************)
EXTENDS Integers, FiniteSets, Sequences, SequencesExt

CONSTANTS
  Relations, NoRel,
  Builtin,                  (* the outputs of nerva_schema_output_relation *)
  Graphs,                   (* the facts <<a, relation, c>> to start from  *)
  Triples, Pairs,           (* of the SCHEMA commands: <<a, b, c>> and     *)
                            (* <<rel_a, rel_b>>                            *)
  SchemaCap, DistinctCap, QueueCap, EdgeCap,   (* sizes of arrays          *)
  Thresholds                (* schema_support_threshold                    *)

ASSUME SchemaSizes ==
  /\ {SchemaCap, DistinctCap, QueueCap, EdgeCap} \subseteq Nat
  /\ Thresholds \subseteq Nat \ {0}
  /\ \A g \in Graphs : IsFiniteSet(g) /\ Cardinality(g) <= EdgeCap
ASSUME SchemaRelations == /\ NoRel \notin Relations
                          /\ Pairs \subseteq Relations \X Relations
                          /\ Builtin \in [DOMAIN Builtin -> Relations]

VARIABLES
  threshold,  (* the threshold of this run                                 *)
  schemas,    (* the array of schemas                                      *)
  facts,      (* the edges of the graph                                    *)
  waiting,    (* the edges that wait to be created                         *)
  given,      (* history: the edges that the script stated                 *)
  observed    (* history: the observations made while there was a schema   *)

schemaVars == <<threshold, schemas, facts, waiting, given, observed>>

SchemaInit == /\ threshold \in Thresholds
              /\ schemas = <<>>
              /\ facts \in Graphs
              /\ waiting = <<>>
              /\ given = facts
              /\ observed = {}
-----------------------------------------------------------------------------
(* nerva_schema_lookup_output                                              *)
Output(pair) ==
  IF \E s \in Range(schemas) : s.pair = pair
  THEN schemas[SelectInSeq(schemas, LAMBDA s : s.pair = pair)].out
  ELSE IF pair \in DOMAIN Builtin THEN Builtin[pair] ELSE NoRel

(* nerva_schema_find_mutable, and nerva_schema_get_or_create: the index of *)
(* the schema, 0 if there is none.                                         *)
Found(pair, out) == SelectInSeq(schemas, LAMBDA s : s.pair = pair /\ s.out = out)

Candidate(pair, out) == [pair |-> pair, out |-> out, triples |-> {}, support |-> 0,
                         promoted |-> FALSE]

GotOrCreated(pair, out) ==
  IF Found(pair, out) = 0 /\ Len(schemas) < SchemaCap
  THEN Append(schemas, Candidate(pair, out)) ELSE schemas

(* One output for each pair is not insisted on (mutant).                   *)
MayRegisterAny(pair, out) == out # NoRel

MayRegister(pair, out) == out # NoRel /\ Output(pair) \in {NoRel, out}

(* nerva_schema_register_composition                                       *)
Register(pair, out) ==
  /\ MayRegister(pair, out)
  /\ schemas' = GotOrCreated(pair, out)
  /\ UNCHANGED <<threshold, facts, waiting, given, observed>>

(* Every triple counts as often as it is observed (mutant).                *)
RecordedAgain(s, t) == [s EXCEPT !.triples = @ \cup {t}, !.support = @ + 1]

(* nerva_schema_record_distinct, and the support that comes with it.       *)
Recorded(s, t) ==
  IF t \in s.triples \/ Cardinality(s.triples) >= DistinctCap THEN s
  ELSE [s EXCEPT !.triples = @ \cup {t}, !.support = @ + 1]

(* nerva_schema_promote_if_ready                                           *)
Promoted(s) == [s EXCEPT !.promoted = @ \/ s.support >= threshold]

(* nerva_schema_observe_triple                                             *)
Observe(pair, t) ==
  /\ LET ss == GotOrCreated(pair, Output(pair))
         i == SelectInSeq(ss, LAMBDA s : s.pair = pair /\ s.out = Output(pair))
     IN  /\ Output(pair) # NoRel
         /\ schemas' = IF i = 0 THEN ss ELSE [ss EXCEPT ![i] = Promoted(Recorded(@, t))]
         /\ observed' = IF i = 0 THEN observed ELSE observed \cup {<<pair, t>>}
  /\ UNCHANGED <<threshold, facts, waiting, given>>

(* The premises are not looked at (mutant).                                *)
PremisesAny(pair, t) == t[1] # t[2] /\ t[2] # t[3]

(* nerva_schema_premises_present                                           *)
PremisesPresent(pair, t) ==
  /\ t[1] # t[2] /\ t[2] # t[3]
  /\ {<<t[1], pair[1], t[2]>>, <<t[2], pair[2], t[3]>>} \subseteq facts

(* nerva_schema_apply, with nerva_queue_create_edge                        *)
ApplySchema(pair, t) ==
  LET i == Found(pair, Output(pair)) IN
  /\ Output(pair) # NoRel /\ i # 0
  /\ schemas[i].promoted
  /\ PremisesPresent(pair, t)
  /\ Len(waiting) < QueueCap
  /\ waiting' = Append(waiting, <<t[1], Output(pair), t[3]>>)
  /\ UNCHANGED <<threshold, schemas, facts, given, observed>>

(* nerva_graph_create_edge, of the facts fs: a duplicate changes nothing.  *)
Created(fs, f) == IF Cardinality(fs) < EdgeCap THEN fs \cup {f} ELSE fs

(* The EDGE command                                                        *)
AddEdge(f) ==
  /\ Cardinality(facts) < EdgeCap
  /\ facts' = Created(facts, f)
  /\ given' = given \cup {f}
  /\ UNCHANGED <<threshold, schemas, waiting, observed>>

(* nerva_apply_mutations: one edge after the other is Created, from the    *)
(* graph that those before it have left, so every edge that finds room.    *)
AtMost(i) == facts \cup {waiting[j] : j \in 1..(i - 1)}
Applied ==
  facts \cup {waiting[i] : i \in {i \in DOMAIN waiting : Cardinality(AtMost(i)) < EdgeCap}}

Batch == /\ facts' = Applied
         /\ waiting' = <<>>
         /\ UNCHANGED <<threshold, schemas, given, observed>>

SchemaCommand ==
  \/ \E pair \in Pairs, t \in Triples : Observe(pair, t) \/ ApplySchema(pair, t)
  \/ \E pair \in Pairs, out \in Relations : Register(pair, out)
  \/ \E f \in UNION Graphs : AddEdge(f)
  \/ Batch
-----------------------------------------------------------------------------
SchemaTypeOK ==
  /\ threshold \in Thresholds
  /\ schemas \in Seq([pair : Pairs, out : Relations, triples : SUBSET Triples,
                      support : 0..DistinctCap, promoted : BOOLEAN])
  /\ Len(schemas) <= SchemaCap
  /\ \A s \in Range(schemas) : s.support = Cardinality(s.triples)
  /\ waiting \in Seq({<<t[1], out, t[3]>> : t \in Triples, out \in Relations})
  /\ Len(waiting) <= QueueCap
  /\ IsFiniteSet(facts) /\ Cardinality(facts) <= EdgeCap
  /\ observed \subseteq Pairs \X Triples

(* What follows from the edges fs in one step, by promoted schemas.        *)
Linked(s, fs) == {c \in fs \X fs : LET f == c[1]
                                      g == c[2]
                                  IN  /\ s.pair = <<f[2], g[2]>>
                                      /\ f[3] = g[1] /\ f[1] # f[3] /\ g[1] # g[3]}

OneStep(fs) ==
  UNION {{<<c[1][1], s.out, c[2][3]>> : c \in Linked(s, fs)} :
           s \in {s \in Range(schemas) : s.promoted}}

(* Whatever order edges are stated, derived, queued and applied in, the    *)
(* edges of the graph and those that wait follow from what the script      *)
(* stated: of any set of them that it did not state, one follows, by a     *)
(* promoted schema, from edges of the graph outside of the set.  No edge   *)
(* is there because of an edge that is there because of it.                *)
Sound ==
  \A fs \in SUBSET ((facts \cup Range(waiting)) \ given) :
    fs # {} => fs \cap OneStep(facts \ fs) # {}

(* A schema is promoted by as many distinct triples as the threshold asks  *)
(* for, and as soon as they have been observed; a threshold beyond the     *)
(* number of triples that are kept is never reached.                       *)
PromotionEarned ==
  \A s \in Range(schemas) :
    s.promoted <=>
      Cardinality({t \in Triples : <<s.pair, t>> \in observed}) >= threshold
        /\ threshold <= DistinctCap

(* Once a pair of relations has an output it keeps it: what was derived is *)
(* what would be derived today.                                            *)
OutputStable ==
  [][\A pair \in Pairs : Output(pair) = NoRel \/ Output(pair)' = Output(pair)]_schemaVars
=============================================================================
