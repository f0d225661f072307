----------------------------- MODULE Memory_proofs -----------------------------
(***************************************************************************)
(* What holds of an engine with schemas and memory blocks, for every set   *)
(* of commands, every graph, capacity, threshold and period.               *)
(*                                                                         *)
(* First the schemas and the edges that they derive.  Steps of Schema are  *)
(* the disjuncts of SchemaCommand; the engine takes only these and steps   *)
(* that leave schemaVars alone, among them the Batch of its consolidation. *)
(***************************************************************************)
EXTENDS Memory, FiniteSetTheorems, NaturalsInduction, WellFoundedInduction, TLAPS

SchemaSet == [pair : Pairs, out : Relations, triples : SUBSET Triples,
              support : 0..DistinctCap, promoted : BOOLEAN]

(* The list ss is one of schemas, with at most one for each pair.          *)
Listed(ss) == /\ ss \in Seq(SchemaSet)
              /\ Len(ss) <= SchemaCap
              /\ \A i, j \in DOMAIN ss : ss[i].pair = ss[j].pair => i = j

(* Of the triples of a pair that were observed a schema has all that it    *)
(* has room for, and it is promoted by as many as the threshold.           *)
Seen(pair, obs) == {t \in Triples : <<pair, t>> \in obs}
Counted(s, obs) ==
  /\ s.support = Cardinality(s.triples)
  /\ s.triples \subseteq Seen(s.pair, obs)
  /\ Cardinality(Seen(s.pair, obs)) <= DistinctCap => s.triples = Seen(s.pair, obs)
  /\ Cardinality(Seen(s.pair, obs)) > DistinctCap => Cardinality(s.triples) = DistinctCap
  /\ s.promoted <=> s.support >= threshold

(* Only what has a schema is observed.                                     *)
Known(ss, obs) == \A pair \in Pairs, t \in Triples :
                    <<pair, t>> \in obs => \E i \in DOMAIN ss : ss[i].pair = pair

SchemasInv ==
  /\ threshold \in Thresholds
  /\ Listed(schemas)
  /\ \A i \in DOMAIN schemas : Counted(schemas[i], observed)
  /\ Known(schemas, observed)
  /\ observed \subseteq Pairs \X Triples
  /\ \A pair \in Pairs : IsFiniteSet(Seen(pair, observed))

Derivable == {<<t[1], out, t[3]>> : t \in Triples, out \in Relations}

EdgesInv ==
  /\ waiting \in Seq(Derivable) /\ Len(waiting) <= QueueCap
  /\ IsFiniteSet(facts) /\ Cardinality(facts) <= EdgeCap

SchemaInv == SchemasInv /\ EdgesInv /\ Sound

(* A natural number that is not below another is at least as large.        *)
LEMMA NotBelow == \A x, y \in Nat : ~(y < x) => x <= y
  OBVIOUS

(* A set of numbers that is not empty has a least one.                     *)
LEMMA LeastNat ==
  ASSUME NEW I, I \subseteq Nat, I # {}
  PROVE  \E x \in I : \A y \in I : x <= y
<1>1. \E x \in I : \A y \in I : ~(<<y, x>> \in OpToRel(<, Nat))
  BY NatLessThanWellFounded, WFMin, Zenon
<1>2. \A x \in I, y \in I : y < x => <<y, x>> \in OpToRel(<, Nat)
  BY Zenon DEF OpToRel
<1> QED BY <1>1, <1>2, NotBelow, Zenon

(* It is Min.                                                              *)
LEMMA MinIsLeast ==
  ASSUME NEW I, I \subseteq Nat, I # {}
  PROVE  Min(I) \in I
BY LeastNat, Zenon DEF Min

(* The schema of a pair and an output is found if there is one.            *)
LEMMA FoundInList ==
  ASSUME NEW pair, NEW out, schemas \in Seq(SchemaSet)
  PROVE  \/ /\ Found(pair, out) = 0
            /\ \A i \in DOMAIN schemas : ~(schemas[i].pair = pair /\ schemas[i].out = out)
         \/ /\ Found(pair, out) \in DOMAIN schemas
            /\ schemas[Found(pair, out)].pair = pair /\ schemas[Found(pair, out)].out = out
<1> DEFINE I == {i \in 1..Len(schemas) : schemas[i].pair = pair /\ schemas[i].out = out}
<1>1. Found(pair, out) = IF I # {} THEN Min(I) ELSE 0
  BY Zenon DEF Found, SelectInSeq
<1>2. I # {} => Min(I) \in I
  <2>1. I \subseteq Nat
    OBVIOUS
  <2> HIDE DEF I
  <2> QED BY <2>1, MinIsLeast
<1>3. DOMAIN schemas = 1..Len(schemas)
  OBVIOUS
<1> QED BY <1>1, <1>2, <1>3

(* In a list, that of the pair alone.                                      *)
LEMMA PairInList ==
  ASSUME NEW S, NEW ss \in Seq(S), NEW pair,
         NEW n, n = SelectInSeq(ss, LAMBDA s : s.pair = pair),
         \E i \in DOMAIN ss : ss[i].pair = pair
  PROVE  n \in DOMAIN ss /\ ss[n].pair = pair
<1> DEFINE I == {i \in 1..Len(ss) : ss[i].pair = pair}
<1>1. n = IF I # {} THEN Min(I) ELSE 0
  BY Zenon DEF SelectInSeq
<1>2. I # {} => Min(I) \in I
  <2>1. I \subseteq Nat
    OBVIOUS
  <2> HIDE DEF I
  <2> QED BY <2>1, MinIsLeast
<1>3. DOMAIN ss = 1..Len(ss)
  OBVIOUS
<1> QED BY <1>1, <1>2, <1>3

(* The output of a pair is that of its schema, if there is one.            *)
LEMMA OutputOfSchema ==
  ASSUME Listed(schemas), NEW i \in DOMAIN schemas
  PROVE  Output(schemas[i].pair) = schemas[i].out
<1> DEFINE n == SelectInSeq(schemas, LAMBDA s : s.pair = schemas[i].pair)
<1>1. schemas \in Seq(SchemaSet)
  BY DEF Listed
<1>2. n \in DOMAIN schemas /\ schemas[n].pair = schemas[i].pair
  BY <1>1, PairInList
<1>3. n = i
  BY <1>2 DEF Listed
<1>4. \E s \in Range(schemas) : s.pair = schemas[i].pair
  BY DEF Range
<1> QED BY <1>3, <1>4, Zenon DEF Output

(* Without a schema it is the built-in output, or none.                    *)
LEMMA OutputBuiltin ==
  ASSUME NEW pair, \A i \in DOMAIN schemas : schemas[i].pair # pair
  PROVE  Output(pair) = IF pair \in DOMAIN Builtin THEN Builtin[pair] ELSE NoRel
BY DEF Output, Range

(* A pair has an output if its schema or its built-in output says so.      *)
LEMMA OutputTyped ==
  ASSUME Listed(schemas), NEW pair
  PROVE  Output(pair) \in Relations \cup {NoRel}
<1>1. CASE \E i \in DOMAIN schemas : schemas[i].pair = pair
  <2>1. PICK i \in DOMAIN schemas : schemas[i].pair = pair
    BY <1>1
  <2>2. schemas[i] \in SchemaSet
    BY DEF Listed
  <2> QED BY <2>1, <2>2, OutputOfSchema DEF SchemaSet
<1>2. CASE \A i \in DOMAIN schemas : schemas[i].pair # pair
  BY <1>2, OutputBuiltin, SchemaRelations
<1> QED BY <1>1, <1>2

(* Get-or-create finds the schema, or adds a candidate of a pair that has  *)
(* none, or finds the array full.                                          *)
LEMMA GotOrCreatedEffect ==
  ASSUME Listed(schemas), NEW pair \in Pairs, NEW out \in Relations,
         Output(pair) \in {NoRel, out},
         NEW ss, ss = GotOrCreated(pair, out)
  PROVE  \/ ss = schemas /\ \E i \in DOMAIN schemas : schemas[i].pair = pair
         \/ /\ Len(schemas) >= SchemaCap /\ ss = schemas
            /\ \A i \in DOMAIN schemas : schemas[i].pair # pair
         \/ /\ Len(schemas) < SchemaCap /\ ss = Append(schemas, Candidate(pair, out))
            /\ \A i \in DOMAIN schemas : schemas[i].pair # pair
<1>1. schemas \in Seq(SchemaSet)
  BY DEF Listed
<1>2. \/ Found(pair, out) = 0 /\ (\A i \in DOMAIN schemas : ~(schemas[i].pair = pair /\ schemas[i].out = out))
      \/ /\ Found(pair, out) \in DOMAIN schemas
         /\ schemas[Found(pair, out)].pair = pair /\ schemas[Found(pair, out)].out = out
  BY <1>1, FoundInList
<1>3. ASSUME NEW i \in DOMAIN schemas, schemas[i].pair = pair
      PROVE  Found(pair, out) # 0
  <2>1. Output(pair) = schemas[i].out
    BY <1>3, OutputOfSchema
  <2>2. schemas[i].out \in Relations
    <3>1. schemas[i] \in SchemaSet
      BY <1>1
    <3> QED BY <3>1 DEF SchemaSet
  <2>3. schemas[i].out = out
    BY <2>1, <2>2, SchemaRelations
  <2>4. Found(pair, out) # 0
    BY <1>1, <1>2, <2>3, <1>3
  <2> QED BY <2>4
<1>4. Len(schemas) \in Nat /\ SchemaCap \in Nat
  BY <1>1, SchemaSizes
<1>5. CASE \E i \in DOMAIN schemas : schemas[i].pair = pair
  BY <1>3, <1>5 DEF GotOrCreated
<1>6. CASE ~ \E i \in DOMAIN schemas : schemas[i].pair = pair
  <2>1. Found(pair, out) = 0
    BY <1>2, <1>6
  <2> QED BY <2>1, <1>4, <1>6 DEF GotOrCreated
<1> QED BY <1>5, <1>6

(* The list stays one of schemas.                                          *)
LEMMA AppendListed ==
  ASSUME Listed(schemas), NEW pair \in Pairs, NEW out \in Relations,
         \A i \in DOMAIN schemas : schemas[i].pair # pair,
         Len(schemas) < SchemaCap
  PROVE  Listed(Append(schemas, Candidate(pair, out)))
<1> DEFINE c == Candidate(pair, out)
<1>1. c \in SchemaSet /\ c.pair = pair
  BY SchemaSizes DEF Candidate, SchemaSet
<1>2. schemas \in Seq(SchemaSet) /\ Len(schemas) \in Nat /\ SchemaCap \in Nat
  BY SchemaSizes DEF Listed
<1> HIDE DEF c
<1> DEFINE ss == Append(schemas, c)
<1>3. /\ ss \in Seq(SchemaSet) /\ Len(ss) = Len(schemas) + 1
      /\ \A i \in DOMAIN ss : i = Len(schemas) + 1 \/ i \in DOMAIN schemas
      /\ \A i \in DOMAIN schemas : ss[i] = schemas[i]
      /\ ss[Len(schemas) + 1] = c
  BY <1>1, <1>2
<1>4. \A i, j \in DOMAIN ss : ss[i].pair = ss[j].pair => i = j
  BY <1>1, <1>3 DEF Listed
<1> QED BY <1>2, <1>3, <1>4 DEF Listed, c

(* Recording leaves the rest of a schema alone, and keeps the count.       *)
LEMMA RecordedCounted ==
  ASSUME threshold \in Thresholds, NEW s \in SchemaSet, NEW obs, Counted(s, obs),
         NEW t \in Triples, IsFiniteSet(Seen(s.pair, obs)),
         NEW r, r = Promoted(Recorded(s, t))
  PROVE  /\ r \in SchemaSet /\ r.pair = s.pair /\ r.out = s.out
         /\ s.promoted => r.promoted
         /\ Counted(r, obs \cup {<<s.pair, t>>})
<1> DEFINE seen == Seen(s.pair, obs)
           more == Seen(s.pair, obs \cup {<<s.pair, t>>})
<1>1. more = seen \cup {t}
  BY DEF Seen
<1>2. /\ IsFiniteSet(more) /\ Cardinality(more) \in Nat /\ Cardinality(seen) \in Nat
      /\ t \in seen => more = seen
      /\ t \notin seen => Cardinality(more) = Cardinality(seen) + 1
  <2> HIDE DEF seen, more
  <2>1. IsFiniteSet(seen)
    BY DEF seen
  <2> QED BY <1>1, <2>1, FS_AddElement, FS_CardinalityType
<1>3. /\ s.support = Cardinality(s.triples) /\ s.support \in 0..DistinctCap
      /\ s.triples \subseteq Triples /\ s.triples \subseteq seen /\ s.promoted \in BOOLEAN
      /\ Cardinality(seen) <= DistinctCap => s.triples = seen
      /\ Cardinality(seen) > DistinctCap => Cardinality(s.triples) = DistinctCap
      /\ s.promoted <=> s.support >= threshold
      /\ DistinctCap \in Nat /\ threshold \in Nat
  BY SchemaSizes DEF Counted, SchemaSet
<1>4. IsFiniteSet(s.triples) /\ s.support \in Nat
  BY <1>3, FS_Subset
<1>5. CASE t \in s.triples
  <2>1. Recorded(s, t) = s
    BY <1>5 DEF Recorded
  <2>2. r = [s EXCEPT !.promoted = s.promoted \/ s.support >= threshold]
    BY <2>1 DEF Promoted
  <2>3. /\ r \in SchemaSet /\ r.pair = s.pair /\ r.out = s.out /\ r.triples = s.triples
        /\ r.support = s.support /\ r.promoted = s.promoted
    BY <2>2, <1>3 DEF SchemaSet
  <2>4. more = seen
    BY <1>2, <1>3, <1>5
  <2> QED BY <2>3, <2>4, <1>3 DEF Counted
<1>6. CASE t \notin s.triples /\ Cardinality(s.triples) >= DistinctCap
  <2>1. Recorded(s, t) = s
    BY <1>6 DEF Recorded
  <2>2. r = [s EXCEPT !.promoted = s.promoted \/ s.support >= threshold]
    BY <2>1 DEF Promoted
  <2>3. /\ r \in SchemaSet /\ r.pair = s.pair /\ r.out = s.out /\ r.triples = s.triples
        /\ r.support = s.support /\ r.promoted = s.promoted
    BY <2>2, <1>3 DEF SchemaSet
  <2>4. Cardinality(s.triples) = DistinctCap
    BY <1>3, <1>6
  <2>5. Cardinality(more) > DistinctCap
    <3>1. s.triples \cup {t} \subseteq more
      BY <1>1, <1>3
    <3>2. Cardinality(s.triples \cup {t}) = DistinctCap + 1
      BY <1>4, <1>6, <2>4, FS_AddElement
    <3>3. Cardinality(s.triples \cup {t}) <= Cardinality(more)
      BY <1>2, <3>1, FS_Subset
    <3> QED BY <1>2, <1>3, <3>2, <3>3
  <2>6. s.triples \subseteq more
    BY <1>1, <1>3
  <2>7. Seen(r.pair, obs \cup {<<s.pair, t>>}) = more
    BY <2>3
  <2>8. ~(Cardinality(more) <= DistinctCap)
    BY <1>2, <1>3, <2>5
  <2> HIDE DEF more, seen
  <2>9. Counted(r, obs \cup {<<s.pair, t>>})
    BY <1>3, <2>3, <2>4, <2>6, <2>7, <2>8 DEF Counted
  <2> QED BY <2>3, <2>9
<1>7. CASE t \notin s.triples /\ ~(Cardinality(s.triples) >= DistinctCap)
  <2>1. Recorded(s, t) = [s EXCEPT !.triples = s.triples \cup {t}, !.support = s.support + 1]
    BY <1>7 DEF Recorded
  <2>2. Cardinality(s.triples) < DistinctCap
    BY <1>3, <1>4, <1>7
  <2>3. s.support + 1 \in 0..DistinctCap /\ s.support + 1 \in Nat
    BY <1>3, <1>4, <2>2
  <2>4. s.triples = seen
    <3> HIDE DEF seen, more
    <3> QED BY <1>2, <1>3, <2>2
  <2>5. s.triples \cup {t} = more /\ s.support + 1 = Cardinality(more) /\ Cardinality(more) <= DistinctCap
    <3> HIDE DEF seen, more
    <3> QED BY <1>1, <1>2, <1>3, <1>7, <2>3, <2>4
  <2> DEFINE p == s.promoted \/ s.support + 1 >= threshold
  <2>6. p \in BOOLEAN /\ (p <=> s.support + 1 >= threshold) /\ (s.promoted => p)
    BY <1>3, <1>4
  <2>7. r = [s EXCEPT !.triples = s.triples \cup {t}, !.support = s.support + 1, !.promoted = p]
    BY <2>1 DEF Promoted, SchemaSet
  <2> HIDE DEF p
  <2>8. r = [pair |-> s.pair, out |-> s.out, triples |-> s.triples \cup {t},
             support |-> s.support + 1, promoted |-> p]
    BY <2>7 DEF SchemaSet
  <2>9. r \in SchemaSet
    BY <1>3, <2>3, <2>6, <2>8 DEF SchemaSet
  <2>10. Seen(r.pair, obs \cup {<<s.pair, t>>}) = more
    BY <2>8
  <2> HIDE DEF more, seen
  <2>11. r.promoted <=> r.support >= threshold
    BY <2>6, <2>8
  <2>12. /\ r.support = Cardinality(r.triples) /\ r.triples = more
         /\ ~(Cardinality(more) > DistinctCap)
    BY <1>2, <1>3, <2>5, <2>8
  <2>13. Counted(r, obs \cup {<<s.pair, t>>})
    BY <2>10, <2>11, <2>12, Zenon DEF Counted
  <2> QED BY <2>6, <2>8, <2>9, <2>13
<1> QED BY <1>5, <1>6, <1>7

(* What get-or-create may make of the array.                               *)
Extended(ss, pair, out) ==
  \/ ss = schemas
  \/ /\ Len(schemas) < SchemaCap /\ ss = Append(schemas, Candidate(pair, out))
     /\ \A i \in DOMAIN schemas : schemas[i].pair # pair

(* Schemas keep their place, pair and output, and promotion is for good.   *)
Kept(old, new) ==
  \A j \in DOMAIN old : /\ j \in DOMAIN new
                        /\ new[j].pair = old[j].pair /\ new[j].out = old[j].out
                        /\ old[j].promoted => new[j].promoted

(* A candidate changes nothing of what holds of the schemas.               *)
LEMMA ExtendedInv ==
  ASSUME SchemasInv, NEW pair \in Pairs, NEW out \in Relations, NEW ss,
         Extended(ss, pair, out)
  PROVE  /\ Listed(ss) /\ Known(ss, observed)
         /\ \A i \in DOMAIN ss : Counted(ss[i], observed)
         /\ Kept(schemas, ss)
<1>1. CASE ss = schemas
  BY <1>1 DEF SchemasInv, Kept
<1>2. CASE /\ Len(schemas) < SchemaCap /\ ss = Append(schemas, Candidate(pair, out))
           /\ \A i \in DOMAIN schemas : schemas[i].pair # pair
  <2> DEFINE c == Candidate(pair, out)
  <2>1. Listed(ss)
    BY <1>2, AppendListed DEF SchemasInv
  <2>2. schemas \in Seq(SchemaSet) /\ threshold \in Nat \ {0}
    BY SchemaSizes DEF SchemasInv, Listed
  <2>3. c.pair = pair /\ c.triples = {} /\ c.support = 0 /\ c.promoted = FALSE
    BY DEF Candidate
  <2> HIDE DEF c
  <2>4. /\ \A i \in DOMAIN ss : i = Len(schemas) + 1 \/ i \in DOMAIN schemas
        /\ \A i \in DOMAIN schemas : i \in DOMAIN ss /\ ss[i] = schemas[i]
        /\ ss[Len(schemas) + 1] = c
    BY <1>2, <2>2 DEF c
  <2>5. Seen(pair, observed) = {}
    BY <1>2, Zenon DEF SchemasInv, Known, Seen
  <2>6. Cardinality({}) = 0 /\ DistinctCap \in Nat
    BY FS_EmptySet, SchemaSizes
  <2>7. Counted(c, observed)
    BY <2>2, <2>3, <2>5, <2>6 DEF Counted
  <2>8. \A i \in DOMAIN ss : Counted(ss[i], observed)
    BY <2>4, <2>7, Zenon DEF SchemasInv
  <2>9. Known(ss, observed)
    BY <2>4, Zenon DEF SchemasInv, Known
  <2>10. Kept(schemas, ss)
    BY <2>4, Zenon DEF Kept
  <2> QED BY <2>1, <2>8, <2>9, <2>10
<1> QED BY <1>1, <1>2 DEF Extended

(* Registering extends the list at most.                                   *)
LEMMA RegisterEffect ==
  ASSUME SchemasInv, NEW pair \in Pairs, NEW out \in Relations, Register(pair, out)
  PROVE  Extended(schemas', pair, out) /\ observed' = observed /\ threshold' = threshold
<1>1. Output(pair) \in {NoRel, out} /\ schemas' = GotOrCreated(pair, out)
  BY DEF Register, MayRegister
<1>2. Listed(schemas)
  BY DEF SchemasInv
<1>3. observed' = observed /\ threshold' = threshold
  BY DEF Register
<1> QED BY <1>1, <1>2, <1>3, GotOrCreatedEffect DEF Extended

(* Observing extends the list at most, and records in one schema.          *)
LEMMA ObserveEffect ==
  ASSUME SchemasInv, NEW pair \in Pairs, NEW t \in Triples, Observe(pair, t)
  PROVE  /\ Output(pair) \in Relations /\ threshold' = threshold
         /\ \/ schemas' = schemas /\ observed' = observed
            \/ \E ss : /\ Extended(ss, pair, Output(pair))
                       /\ \E i \in DOMAIN ss :
                            /\ ss[i].pair = pair
                            /\ schemas' = [ss EXCEPT ![i] = Promoted(Recorded(ss[i], t))]
                            /\ observed' = observed \cup {<<pair, t>>}
<1> DEFINE out == Output(pair)
           ss == GotOrCreated(pair, out)
           I == {i \in 1..Len(ss) : ss[i].pair = pair /\ ss[i].out = out}
           n == IF I # {} THEN Min(I) ELSE 0
<1>1. /\ out # NoRel /\ threshold' = threshold
      /\ schemas' = IF n = 0 THEN ss ELSE [ss EXCEPT ![n] = Promoted(Recorded(ss[n], t))]
      /\ observed' = IF n = 0 THEN observed ELSE observed \cup {<<pair, t>>}
  BY Zenon DEF Observe, SelectInSeq
<1>2. Listed(schemas)
  BY DEF SchemasInv
<1>3. out \in Relations
  BY <1>1, <1>2, OutputTyped
<1>4. \/ ss = schemas /\ \E i \in DOMAIN schemas : schemas[i].pair = pair
      \/ /\ Len(schemas) >= SchemaCap /\ ss = schemas
         /\ \A i \in DOMAIN schemas : schemas[i].pair # pair
      \/ /\ Len(schemas) < SchemaCap /\ ss = Append(schemas, Candidate(pair, out))
         /\ \A i \in DOMAIN schemas : schemas[i].pair # pair
  BY <1>2, <1>3, GotOrCreatedEffect
<1>5. Extended(ss, pair, out)
  BY <1>4 DEF Extended
<1>6. ss \in Seq(SchemaSet)
  BY <1>3, <1>5, ExtendedInv DEF Listed
<1> HIDE DEF ss, out
<1>7. I # {} => Min(I) \in I
  <2>1. I \subseteq Nat
    OBVIOUS
  <2> HIDE DEF I
  <2> QED BY <2>1, MinIsLeast
<1>8. DOMAIN ss = 1..Len(ss)
  BY <1>6
<1>9. CASE n = 0
  <2>1. \A i \in DOMAIN ss : ~(ss[i].pair = pair /\ ss[i].out = out)
    BY <1>7, <1>8, <1>9
  <2>2. ss = schemas
    <3>1. CASE ss = schemas
      BY <3>1
    <3>2. CASE ss = Append(schemas, Candidate(pair, out))
      <4>1. Candidate(pair, out).pair = pair /\ Candidate(pair, out).out = out
        BY DEF Candidate
      <4>2. Len(schemas) + 1 \in DOMAIN ss /\ ss[Len(schemas) + 1] = Candidate(pair, out)
        BY <1>2, <3>2 DEF Listed
      <4> QED BY <2>1, <4>1, <4>2
    <3> QED BY <1>4, <3>1, <3>2
  <2> QED BY <1>1, <1>3, <1>9, <2>2 DEF out
<1>10. CASE n # 0
  <2>1. n \in DOMAIN ss /\ ss[n].pair = pair
    BY <1>7, <1>8, <1>10
  <2> HIDE DEF n, I
  <2> QED BY <1>1, <1>3, <1>5, <1>10, <2>1, Zenon DEF out
<1> QED BY <1>9, <1>10

(* How observing a triple of a pair changes the list ss, and observed.     *)
Recording(ss, i, pair, t, new, obs) ==
  /\ i \in DOMAIN ss /\ ss[i].pair = pair
  /\ new = [ss EXCEPT ![i] = Promoted(Recorded(ss[i], t))]
  /\ obs = observed \cup {<<pair, t>>}

Consistent(ss, obs) ==
  Listed(ss) /\ Known(ss, obs) /\ (\A i \in DOMAIN ss : Counted(ss[i], obs))

(* Recording in one schema of an extended list keeps what holds of all.    *)
LEMMA RecordedInv ==
  ASSUME SchemasInv, NEW pair \in Pairs, NEW t \in Triples, NEW ss,
         Consistent(ss, observed), Kept(schemas, ss), NEW i, NEW new, NEW obs,
         Recording(ss, i, pair, t, new, obs)
  PROVE  /\ Consistent(new, obs) /\ Kept(schemas, new)
         /\ obs \subseteq Pairs \X Triples
         /\ \A p \in Pairs : IsFiniteSet(Seen(p, obs))
<1> DEFINE r == Promoted(Recorded(ss[i], t))
<1> USE DEF Consistent
<1> /\ i \in DOMAIN ss /\ ss[i].pair = pair
    /\ new = [ss EXCEPT ![i] = Promoted(Recorded(ss[i], t))]
    /\ obs = observed \cup {<<pair, t>>}
  BY DEF Recording
<1>1. ss \in Seq(SchemaSet) /\ Len(ss) <= SchemaCap
  BY DEF Listed
<1>2. ss[i] \in SchemaSet /\ Counted(ss[i], observed)
  BY <1>1
<1>3. threshold \in Thresholds /\ IsFiniteSet(Seen(ss[i].pair, observed))
  BY DEF SchemasInv
<1>4. /\ r \in SchemaSet /\ r.pair = pair /\ r.out = ss[i].out
      /\ ss[i].promoted => r.promoted
      /\ Counted(r, obs)
  BY <1>2, <1>3, RecordedCounted
<1> HIDE DEF r
<1>5. /\ DOMAIN new = DOMAIN ss /\ new[i] = r /\ \A j \in DOMAIN ss : j # i => new[j] = ss[j]
      /\ new \in Seq(SchemaSet) /\ Len(new) <= SchemaCap
  BY <1>1, <1>4 DEF r
<1>6. \A j \in DOMAIN ss : new[j].pair = ss[j].pair /\ new[j].out = ss[j].out
                           /\ (ss[j].promoted => new[j].promoted)
  BY <1>4, <1>5
<1>7. Listed(new)
  <2>1. \A a, b \in DOMAIN ss : ss[a].pair = ss[b].pair => a = b
    BY DEF Listed
  <2>2. \A a, b \in DOMAIN new : new[a].pair = new[b].pair => a = b
    BY <1>5, <1>6, <2>1
  <2> QED BY <1>5, <2>2 DEF Listed
<1>8. Known(new, obs)
  <2> SUFFICES ASSUME NEW p \in Pairs, NEW u \in Triples, <<p, u>> \in obs
               PROVE  \E j \in DOMAIN new : new[j].pair = p
    BY Zenon DEF Known
  <2>1. CASE <<p, u>> \in observed
    BY <1>5, <1>6, <2>1, Zenon DEF Known
  <2>2. CASE <<p, u>> = <<pair, t>>
    <3>1. p = pair
      BY <2>2
    <3> QED BY <1>4, <1>5, <3>1, Zenon
  <2> QED BY <2>1, <2>2
<1>9. Kept(schemas, new)
  BY <1>5, <1>6 DEF Kept
<1>10. ASSUME NEW j \in DOMAIN new PROVE Counted(new[j], obs)
  <2>1. CASE j = i
    BY <1>4, <1>5, <2>1
  <2>2. CASE j # i
    <3>1. new[j] = ss[j] /\ ss[j].pair # pair /\ Counted(ss[j], observed)
      BY <1>5, <2>2 DEF Listed
    <3>2. Seen(ss[j].pair, obs) = Seen(ss[j].pair, observed)
      BY <3>1 DEF Seen
    <3> QED BY <3>1, <3>2, Zenon DEF Counted
  <2> QED BY <2>1, <2>2
<1>11. obs \subseteq Pairs \X Triples
  BY DEF SchemasInv
<1>12. ASSUME NEW p \in Pairs PROVE IsFiniteSet(Seen(p, obs))
  <2>1. IsFiniteSet(Seen(p, observed))
    BY DEF SchemasInv
  <2>2. Seen(p, obs) = Seen(p, observed) \/ Seen(p, obs) = Seen(p, observed) \cup {t}
    BY DEF Seen
  <2>3. IsFiniteSet(Seen(p, observed) \cup {t})
    BY <2>1, FS_AddElement
  <2> QED BY <2>1, <2>2, <2>3
<1> QED BY <1>7, <1>8, <1>9, <1>10, <1>11, <1>12

(* Every step keeps what holds of the schemas, and the schemas.            *)
LEMMA SchemasStep ==
  ASSUME SchemasInv, SchemaCommand \/ UNCHANGED schemaVars
  PROVE  SchemasInv' /\ Kept(schemas, schemas')
<1>1. CASE schemas' = schemas /\ observed' = observed /\ threshold' = threshold
  BY <1>1 DEF SchemasInv, Kept, Counted
<1>2. ASSUME NEW pair \in Pairs, NEW out \in Relations, Register(pair, out)
      PROVE  SchemasInv' /\ Kept(schemas, schemas')
  <2>1. Extended(schemas', pair, out) /\ observed' = observed /\ threshold' = threshold
    BY <1>2, RegisterEffect
  <2>2. /\ Listed(schemas') /\ Known(schemas', observed) /\ Kept(schemas, schemas')
        /\ \A i \in DOMAIN schemas' : Counted(schemas'[i], observed)
    BY <2>1, ExtendedInv
  <2> QED BY <2>1, <2>2 DEF SchemasInv, Counted
<1>3. ASSUME NEW pair \in Pairs, NEW t \in Triples, Observe(pair, t)
      PROVE  SchemasInv' /\ Kept(schemas, schemas')
  <2>1. /\ Output(pair) \in Relations /\ threshold' = threshold
        /\ \/ schemas' = schemas /\ observed' = observed
           \/ \E ss : /\ Extended(ss, pair, Output(pair))
                      /\ \E i \in DOMAIN ss :
                           /\ ss[i].pair = pair
                           /\ schemas' = [ss EXCEPT ![i] = Promoted(Recorded(ss[i], t))]
                           /\ observed' = observed \cup {<<pair, t>>}
    BY <1>3, ObserveEffect
  <2>2. CASE schemas' = schemas /\ observed' = observed
    BY <1>1, <2>1, <2>2
  <2>3. ASSUME NEW ss, Extended(ss, pair, Output(pair)), NEW i \in DOMAIN ss, ss[i].pair = pair,
               schemas' = [ss EXCEPT ![i] = Promoted(Recorded(ss[i], t))],
               observed' = observed \cup {<<pair, t>>}
        PROVE  SchemasInv' /\ Kept(schemas, schemas')
    <3>1. Consistent(ss, observed) /\ Kept(schemas, ss)
      BY <2>1, <2>3, ExtendedInv DEF Consistent
    <3>2. Recording(ss, i, pair, t, schemas', observed')
      BY <2>3, Zenon DEF Recording
    <3>3. /\ Consistent(schemas', observed') /\ Kept(schemas, schemas')
          /\ observed' \subseteq Pairs \X Triples
          /\ \A p \in Pairs : IsFiniteSet(Seen(p, observed'))
      BY <3>1, <3>2, RecordedInv
    <3> QED BY <2>1, <3>3 DEF SchemasInv, Consistent, Counted
  <2> QED BY <2>1, <2>2, <2>3
<1>4. \/ schemas' = schemas /\ observed' = observed /\ threshold' = threshold
      \/ \E pair \in Pairs, t \in Triples : Observe(pair, t)
      \/ \E pair \in Pairs, out \in Relations : Register(pair, out)
  BY DEF SchemaCommand, ApplySchema, AddEdge, Batch, schemaVars
<1> QED BY <1>1, <1>2, <1>3, <1>4

(* Recording leaves pairs and outputs as they are.                         *)
LEMMA RecordingKeeps ==
  ASSUME SchemasInv, NEW pair \in Pairs, NEW t \in Triples, NEW ss,
         Consistent(ss, observed), NEW i, NEW new, NEW obs,
         Recording(ss, i, pair, t, new, obs), NEW j \in DOMAIN ss
  PROVE  new[j].pair = ss[j].pair /\ new[j].out = ss[j].out
<1> DEFINE r == Promoted(Recorded(ss[i], t))
<1>1. /\ i \in DOMAIN ss /\ ss[i].pair = pair
      /\ new = [ss EXCEPT ![i] = r]
  BY DEF Recording
<1>2. ss \in Seq(SchemaSet) /\ Counted(ss[i], observed) /\ threshold \in Thresholds
  BY <1>1 DEF Consistent, Listed, SchemasInv
<1>3. ss[i] \in SchemaSet /\ IsFiniteSet(Seen(ss[i].pair, observed))
  BY <1>1, <1>2 DEF SchemasInv
<1>4. /\ r \in SchemaSet /\ r.pair = ss[i].pair /\ r.out = ss[i].out
      /\ ss[i].promoted => r.promoted
      /\ Counted(r, observed \cup {<<ss[i].pair, t>>})
  BY <1>2, <1>3, RecordedCounted
<1> HIDE DEF r
<1> QED BY <1>1, <1>4

(* What holds of the schemas says which are promoted.                      *)
LEMMA InvPromotion == SchemasInv => PromotionEarned
<1> SUFFICES ASSUME SchemasInv, NEW s \in Range(schemas)
             PROVE  s.promoted <=>
                      /\ Cardinality(Seen(s.pair, observed)) >= threshold
                      /\ threshold <= DistinctCap
  BY Zenon DEF PromotionEarned, Seen
<1>1. PICK i \in DOMAIN schemas : s = schemas[i]
  BY DEF Range
<1>2. s \in SchemaSet /\ Counted(s, observed)
  BY <1>1 DEF SchemasInv, Listed
<1>3. s.pair \in Pairs /\ s.support \in 0..DistinctCap
  BY <1>2 DEF SchemaSet
<1>4. IsFiniteSet(Seen(s.pair, observed))
  BY <1>3 DEF SchemasInv
<1>5. Cardinality(Seen(s.pair, observed)) \in Nat
  BY <1>4, FS_CardinalityType
<1>6. threshold \in Nat /\ DistinctCap \in Nat
  BY SchemaSizes DEF SchemasInv
<1> HIDE DEF Seen
<1>7. CASE Cardinality(Seen(s.pair, observed)) <= DistinctCap
  <2>1. s.support = Cardinality(Seen(s.pair, observed)) /\ (s.promoted <=> s.support >= threshold)
    BY <1>2, <1>7 DEF Counted
  <2> QED BY <1>5, <1>6, <1>7, <2>1
<1>8. CASE Cardinality(Seen(s.pair, observed)) > DistinctCap
  <2>1. s.support = DistinctCap /\ (s.promoted <=> s.support >= threshold)
    BY <1>2, <1>8 DEF Counted
  <2> QED BY <1>5, <1>6, <1>8, <2>1
<1> QED BY <1>5, <1>6, <1>7, <1>8

(* Of a pair that has an output already only schemas with it are made.     *)
LEMMA NewSchemas ==
  ASSUME SchemasInv, SchemaCommand \/ UNCHANGED schemaVars,
         NEW j \in DOMAIN schemas', j \notin DOMAIN schemas
  PROVE  Output(schemas'[j].pair) \in {NoRel, schemas'[j].out}
<1>1. ASSUME NEW pair, NEW out, NEW ss, Extended(ss, pair, out), j \in DOMAIN ss,
             Output(pair) \in {NoRel, out}
      PROVE  ss[j].pair = pair /\ ss[j].out = out
  <2>1. Candidate(pair, out).pair = pair /\ Candidate(pair, out).out = out
    BY DEF Candidate
  <2>2. ss = Append(schemas, Candidate(pair, out))
    BY <1>1 DEF Extended
  <2>3. ss[j] = Candidate(pair, out)
    BY <1>1, <2>2 DEF SchemasInv, Listed
  <2> QED BY <2>1, <2>3
<1>2. ASSUME NEW pair \in Pairs, NEW out \in Relations, Register(pair, out)
      PROVE  Output(schemas'[j].pair) \in {NoRel, schemas'[j].out}
  <2>1. Extended(schemas', pair, out) /\ Output(pair) \in {NoRel, out}
    BY <1>2, RegisterEffect DEF Register, MayRegister
  <2>2. schemas'[j].pair = pair /\ schemas'[j].out = out
    BY <1>1, <2>1
  <2> QED BY <2>1, <2>2
<1>3. ASSUME NEW pair \in Pairs, NEW t \in Triples, Observe(pair, t)
      PROVE  Output(schemas'[j].pair) \in {NoRel, schemas'[j].out}
  <2>1. /\ Output(pair) \in Relations
        /\ \/ schemas' = schemas /\ observed' = observed
           \/ \E ss : /\ Extended(ss, pair, Output(pair))
                      /\ \E i \in DOMAIN ss :
                           /\ ss[i].pair = pair
                           /\ schemas' = [ss EXCEPT ![i] = Promoted(Recorded(ss[i], t))]
                           /\ observed' = observed \cup {<<pair, t>>}
    BY <1>3, ObserveEffect
  <2>2. PICK ss : /\ Extended(ss, pair, Output(pair))
                  /\ \E i \in DOMAIN ss :
                       /\ ss[i].pair = pair
                       /\ schemas' = [ss EXCEPT ![i] = Promoted(Recorded(ss[i], t))]
                       /\ observed' = observed \cup {<<pair, t>>}
    BY <2>1
  <2>3. PICK i \in DOMAIN ss : /\ ss[i].pair = pair
                               /\ schemas' = [ss EXCEPT ![i] = Promoted(Recorded(ss[i], t))]
                               /\ observed' = observed \cup {<<pair, t>>}
    BY <2>2
  <2>4. /\ Consistent(ss, observed) /\ Kept(schemas, ss)
    BY <2>1, <2>2, ExtendedInv DEF Consistent
  <2>5. j \in DOMAIN ss
    BY <2>3
  <2>6. ss[j].pair = pair /\ ss[j].out = Output(pair)
    BY <1>1, <2>2, <2>5
  <2>7. Recording(ss, i, pair, t, schemas', observed')
    BY <2>3, Zenon DEF Recording
  <2>8. schemas'[j].pair = ss[j].pair /\ schemas'[j].out = ss[j].out
    BY <2>4, <2>5, <2>7, RecordingKeeps
  <2> QED BY <2>6, <2>8
<1>4. \/ schemas' = schemas
      \/ \E pair \in Pairs, t \in Triples : Observe(pair, t)
      \/ \E pair \in Pairs, out \in Relations : Register(pair, out)
  BY DEF SchemaCommand, ApplySchema, AddEdge, Batch, schemaVars
<1> QED BY <1>2, <1>3, <1>4

(* OutputOfSchema and OutputBuiltin of the next state.                     *)
LEMMA OutputNext ==
  ASSUME Listed(schemas'), NEW pair
  PROVE  /\ \A i \in DOMAIN schemas' : schemas'[i].pair = pair => Output(pair)' = schemas'[i].out
         /\ (\A i \in DOMAIN schemas' : schemas'[i].pair # pair)
              => Output(pair)' = IF pair \in DOMAIN Builtin THEN Builtin[pair] ELSE NoRel
<1>1. ASSUME NEW i \in DOMAIN schemas', schemas'[i].pair = pair
      PROVE  Output(pair)' = schemas'[i].out
  <2> DEFINE I == {j \in 1..Len(schemas') : schemas'[j].pair = pair}
  <2>1. \E s \in Range(schemas') : s.pair = pair
    BY <1>1 DEF Range
  <2>2. Output(pair)' = schemas'[IF I # {} THEN Min(I) ELSE 0].out
    BY <2>1, Zenon DEF Output, SelectInSeq
  <2>3. schemas' \in Seq(SchemaSet) /\ DOMAIN schemas' = 1..Len(schemas')
    BY DEF Listed
  <2>4. i \in I
    BY <1>1, <2>3
  <2>5. Min(I) \in I
    <3>1. I \subseteq Nat
      OBVIOUS
    <3> HIDE DEF I
    <3> QED BY <2>4, <3>1, MinIsLeast
  <2>6. Min(I) = i
    BY <1>1, <2>3, <2>5 DEF Listed
  <2> QED BY <2>2, <2>4, <2>6
<1>2. ASSUME \A i \in DOMAIN schemas' : schemas'[i].pair # pair
      PROVE  Output(pair)' = IF pair \in DOMAIN Builtin THEN Builtin[pair] ELSE NoRel
  BY <1>2 DEF Output, Range
<1> QED BY <1>1, <1>2

(* An output, once there, stays.                                           *)
LEMMA OutputStep ==
  ASSUME SchemasInv, SchemaCommand \/ UNCHANGED schemaVars, NEW pair \in Pairs
  PROVE  Output(pair) = NoRel \/ Output(pair)' = Output(pair)
<1>1. SchemasInv' /\ Kept(schemas, schemas')
  BY SchemasStep
<1>2. Listed(schemas) /\ Listed(schemas')
  BY <1>1 DEF SchemasInv
<1>3. CASE \E i \in DOMAIN schemas : schemas[i].pair = pair
  <2>1. PICK i \in DOMAIN schemas : schemas[i].pair = pair
    BY <1>3
  <2>2. i \in DOMAIN schemas' /\ schemas'[i].pair = pair /\ schemas'[i].out = schemas[i].out
    BY <1>1, <2>1 DEF Kept
  <2> QED BY <1>2, <2>1, <2>2, OutputOfSchema, OutputNext
<1>4. CASE \A i \in DOMAIN schemas : schemas[i].pair # pair
  <2>1. CASE \E j \in DOMAIN schemas' : schemas'[j].pair = pair
    <3>1. PICK j \in DOMAIN schemas' : schemas'[j].pair = pair
      BY <2>1
    <3>2. j \notin DOMAIN schemas
      BY <1>1, <1>4, <3>1 DEF Kept
    <3>3. Output(pair) \in {NoRel, schemas'[j].out}
      BY <3>1, <3>2, NewSchemas
    <3> QED BY <1>2, <3>1, <3>3, OutputNext
  <2>2. CASE ~ \E j \in DOMAIN schemas' : schemas'[j].pair = pair
    BY <1>2, <1>4, <2>2, OutputBuiltin, OutputNext
  <2> QED BY <2>1, <2>2
<1> QED BY <1>3, <1>4

(* A batch of mutations keeps the graph, and creates edges that waited,    *)
(* no more than there is room for.                                         *)
LEMMA AppliedFits ==
  ASSUME EdgesInv
  PROVE  /\ facts \subseteq Applied /\ Applied \subseteq facts \cup Range(waiting)
         /\ IsFiniteSet(Applied) /\ Cardinality(Applied) <= EdgeCap
<1> DEFINE I == {i \in DOMAIN waiting : Cardinality(AtMost(i)) < EdgeCap}
           W(n) == {waiting[j] : j \in 1..n}
<1>1. waiting \in Seq(Derivable) /\ DOMAIN waiting = 1..Len(waiting) /\ Len(waiting) \in Nat
  BY DEF EdgesInv
<1>2. Applied = facts \cup {waiting[i] : i \in I} /\ AtMost(1) = facts
  BY <1>1 DEF Applied, AtMost
<1>3. facts \subseteq Applied /\ Applied \subseteq facts \cup Range(waiting)
  BY <1>2 DEF Range
<1>4. IsFiniteSet(facts) /\ Cardinality(facts) <= EdgeCap /\ EdgeCap \in Nat
  BY SchemaSizes DEF EdgesInv
<1>5. ASSUME NEW n \in Nat PROVE IsFiniteSet(facts \cup W(n))
  <2>1. IsFiniteSet(1..n)
    BY FS_Interval
  <2>2. IsFiniteSet(W(n))
    <3> DEFINE f == [j \in 1..n |-> waiting[j]]
    <3>1. f \in Surjection(1..n, W(n))
      BY DEF Surjection
    <3> QED BY <2>1, <3>1, FS_Surjection
  <2> QED BY <1>4, <2>2, FS_Union
<1>6. CASE I = {}
  BY <1>2, <1>3, <1>4, <1>6
<1>7. CASE I # {}
  <2>1. PICK n \in I : \A i \in I : i <= n
    <3> DEFINE G == {Len(waiting) - i : i \in I}
    <3>1. G \subseteq Nat /\ G # {}
      BY <1>1, <1>7
    <3>2. PICK g \in G : \A h \in G : g <= h
      <4> HIDE DEF G
      <4> QED BY <3>1, LeastNat
    <3>3. PICK n \in I : g = Len(waiting) - n
      OBVIOUS
    <3>4. ASSUME NEW i \in I PROVE i <= n
      <4>1. Len(waiting) - i \in G
        OBVIOUS
      <4>2. g <= Len(waiting) - i
        BY <3>2, <4>1
      <4>3. i \in Nat /\ n \in Nat
        BY <1>1
      <4> QED BY <1>1, <3>3, <4>2, <4>3
    <3> QED BY <3>4
  <2>2. n \in Nat /\ n >= 1 /\ n - 1 \in Nat /\ n \in DOMAIN waiting
    BY <1>1
  <2>3. AtMost(n) = facts \cup W(n - 1)
    BY DEF AtMost
  <2>4. Applied \subseteq AtMost(n) \cup {waiting[n]}
    <3>1. ASSUME NEW i \in I PROVE waiting[i] \in AtMost(n) \cup {waiting[n]}
      <4>1. i \in Nat /\ i >= 1 /\ i <= n
        BY <1>1, <2>1
      <4>2. CASE i = n
        BY <4>2
      <4>3. CASE i # n
        <5>1. i \in 1..(n - 1)
          BY <2>2, <4>1, <4>3
        <5> QED BY <2>3, <5>1
      <4> QED BY <4>2, <4>3
    <3> HIDE DEF I
    <3> QED BY <1>2, <2>3, <3>1
  <2>5. IsFiniteSet(AtMost(n)) /\ Cardinality(AtMost(n)) \in Nat
    BY <1>5, <2>2, <2>3, FS_CardinalityType
  <2>6. Cardinality(AtMost(n)) < EdgeCap
    OBVIOUS
  <2>7. /\ IsFiniteSet(AtMost(n) \cup {waiting[n]})
        /\ Cardinality(AtMost(n) \cup {waiting[n]}) <= EdgeCap
        /\ Cardinality(AtMost(n) \cup {waiting[n]}) \in Nat
    <3> HIDE DEF I
    <3> QED BY <1>4, <2>5, <2>6, FS_AddElement
  <2>8. /\ IsFiniteSet(Applied) /\ Cardinality(Applied) \in Nat
        /\ Cardinality(Applied) <= Cardinality(AtMost(n) \cup {waiting[n]})
    BY <2>4, <2>7, FS_Subset, FS_CardinalityType
  <2> QED BY <1>3, <1>4, <2>7, <2>8
<1> QED BY <1>6, <1>7

(* The edge e follows from the edges fs by a promoted schema of ss.        *)
Follows(ss, fs, e) ==
  \E s \in Range(ss), f \in fs, g \in fs :
    /\ s.promoted /\ s.pair = <<f[2], g[2]>>
    /\ f[3] = g[1] /\ f[1] # f[3] /\ g[1] # g[3]
    /\ e = <<f[1], s.out, g[3]>>

(* Sound, of any schemas and edges.                                        *)
Grounded(ss, fs, ws, gs) ==
  \A es \in SUBSET ((fs \cup Range(ws)) \ gs) :
    es # {} => \E e \in es : Follows(ss, fs \ es, e)

(* That is what OneStep says.                                              *)
LEMMA OneStepFollows == \A fs, e : e \in OneStep(fs) <=> Follows(schemas, fs, e)
<1> SUFFICES ASSUME NEW fs, NEW e
             PROVE  e \in OneStep(fs) <=> Follows(schemas, fs, e)
  OBVIOUS
<1>1. ASSUME e \in OneStep(fs) PROVE Follows(schemas, fs, e)
  <2>1. PICK s \in Range(schemas) : s.promoted /\ \E c \in Linked(s, fs) : e = <<c[1][1], s.out, c[2][3]>>
    BY <1>1, Zenon DEF OneStep
  <2>2. PICK c \in Linked(s, fs) : e = <<c[1][1], s.out, c[2][3]>>
    BY <2>1
  <2>3. /\ c[1] \in fs /\ c[2] \in fs /\ s.pair = <<c[1][2], c[2][2]>>
        /\ c[1][3] = c[2][1] /\ c[1][1] # c[1][3] /\ c[2][1] # c[2][3]
    BY DEF Linked
  <2> QED BY <2>1, <2>2, <2>3, Zenon DEF Follows
<1>2. ASSUME Follows(schemas, fs, e) PROVE e \in OneStep(fs)
  <2>1. PICK s \in Range(schemas), f \in fs, g \in fs :
          /\ s.promoted /\ s.pair = <<f[2], g[2]>>
          /\ f[3] = g[1] /\ f[1] # f[3] /\ g[1] # g[3]
          /\ e = <<f[1], s.out, g[3]>>
    BY <1>2, Zenon DEF Follows
  <2> DEFINE c == <<f, g>>
  <2>2. c \in fs \X fs /\ c[1] = f /\ c[2] = g
    OBVIOUS
  <2>3. c \in Linked(s, fs)
    BY <2>1, <2>2 DEF Linked
  <2>4. e = <<c[1][1], s.out, c[2][3]>>
    BY <2>1, <2>2
  <2> HIDE DEF c
  <2>5. e \in {<<d[1][1], s.out, d[2][3]>> : d \in Linked(s, fs)}
    BY <2>3, <2>4, Zenon
  <2> QED BY <2>1, <2>5 DEF OneStep
<1> QED BY <1>1, <1>2

(* Of every set of edges that nobody stated one follows from the others.   *)
LEMMA SoundGrounded == Sound <=> Grounded(schemas, facts, waiting, given)
<1>1. \A es \in SUBSET ((facts \cup Range(waiting)) \ given) :
        es \cap OneStep(facts \ es) # {} <=> \E e \in es : Follows(schemas, facts \ es, e)
  BY OneStepFollows
<1> QED BY <1>1, Zenon DEF Sound, Grounded

(* More schemas, and more edges, do not take away what follows.            *)
LEMMA FollowsMore ==
  ASSUME NEW old, NEW new, Kept(old, new), NEW fs, NEW gs, fs \subseteq gs, NEW e, Follows(old, fs, e)
  PROVE  Follows(new, gs, e)
<1>1. PICK s \in Range(old), f \in fs, g \in fs :
        /\ s.promoted /\ s.pair = <<f[2], g[2]>>
        /\ f[3] = g[1] /\ f[1] # f[3] /\ g[1] # g[3]
        /\ e = <<f[1], s.out, g[3]>>
  BY Zenon DEF Follows
<1>2. PICK i \in DOMAIN old : s = old[i]
  BY DEF Range
<1>3. /\ new[i] \in Range(new) /\ new[i].pair = s.pair /\ new[i].out = s.out /\ new[i].promoted
  BY <1>1, <1>2 DEF Kept, Range
<1>4. f \in gs /\ g \in gs
  OBVIOUS
<1> QED BY <1>1, <1>3, <1>4, Zenon DEF Follows

(* The same of the next state.                                             *)
LEMMA SoundPrimed == Sound' <=> Grounded(schemas', facts', waiting', given')
<1>1. (Sound <=> Grounded(schemas, facts, waiting, given))'
  BY SoundGrounded, PTL
<1> QED BY <1>1

(* What an application queues, and why it may.                             *)
LEMMA ApplyEffect ==
  ASSUME SchemasInv, NEW pair \in Pairs, NEW t \in Triples, ApplySchema(pair, t),
         NEW e, e = <<t[1], Output(pair), t[3]>>
  PROVE  /\ e \in Derivable /\ Follows(schemas, facts, e)
         /\ waiting' = Append(waiting, e) /\ Len(waiting) < QueueCap
         /\ UNCHANGED <<threshold, schemas, facts, given, observed>>
<1>1. /\ Output(pair) # NoRel /\ Found(pair, Output(pair)) # 0
      /\ schemas[Found(pair, Output(pair))].promoted
      /\ PremisesPresent(pair, t)
      /\ waiting' = Append(waiting, e) /\ Len(waiting) < QueueCap
      /\ UNCHANGED <<threshold, schemas, facts, given, observed>>
  BY Zenon DEF ApplySchema
<1>2. Listed(schemas) /\ schemas \in Seq(SchemaSet)
  BY DEF SchemasInv, Listed
<1>3. Output(pair) \in Relations
  BY <1>1, <1>2, OutputTyped
<1>4. PICK i \in DOMAIN schemas : /\ schemas[i].pair = pair /\ schemas[i].out = Output(pair)
                                  /\ schemas[i].promoted
  BY <1>1, <1>2, FoundInList
<1>5. pair = <<pair[1], pair[2]>>
  BY SchemaRelations
<1>6. Follows(schemas, facts, e)
  <2> DEFINE f == <<t[1], pair[1], t[2]>>
             g == <<t[2], pair[2], t[3]>>
  <2>1. f \in facts /\ g \in facts /\ t[1] # t[2] /\ t[2] # t[3]
    BY <1>1 DEF PremisesPresent
  <2>2. f[1] = t[1] /\ f[2] = pair[1] /\ f[3] = t[2] /\ g[1] = t[2] /\ g[2] = pair[2] /\ g[3] = t[3]
    OBVIOUS
  <2>3. schemas[i] \in Range(schemas) /\ schemas[i].promoted /\ schemas[i].pair = <<f[2], g[2]>>
    BY <1>4, <1>5, <2>2 DEF Range
  <2>4. e = <<f[1], schemas[i].out, g[3]>>
    BY <1>4, <2>2
  <2> HIDE DEF f, g
  <2> QED BY <2>1, <2>2, <2>3, <2>4, Zenon DEF Follows
<1>7. e \in Derivable
  BY <1>3 DEF Derivable
<1> QED BY <1>1, <1>6, <1>7

(* The graph never outgrows its array, nor the queue its own.              *)
LEMMA EdgesStep ==
  ASSUME SchemasInv, EdgesInv, SchemaCommand \/ UNCHANGED schemaVars
  PROVE  EdgesInv'
<1>1. CASE UNCHANGED <<facts, waiting>>
  BY <1>1 DEF EdgesInv
<1>2. ASSUME NEW f, AddEdge(f) PROVE EdgesInv'
  <2>1. facts' = facts \cup {f} /\ waiting' = waiting /\ Cardinality(facts) < EdgeCap
    BY <1>2 DEF AddEdge, Created
  <2>2. /\ IsFiniteSet(facts) /\ Cardinality(facts) \in Nat /\ EdgeCap \in Nat
    BY SchemaSizes, FS_CardinalityType DEF EdgesInv
  <2>3. IsFiniteSet(facts') /\ Cardinality(facts') <= EdgeCap
    BY <2>1, <2>2, FS_AddElement
  <2> QED BY <2>1, <2>3 DEF EdgesInv
<1>3. ASSUME NEW pair \in Pairs, NEW t \in Triples, ApplySchema(pair, t) PROVE EdgesInv'
  <2> DEFINE e == <<t[1], Output(pair), t[3]>>
  <2>1. /\ e \in Derivable /\ waiting' = Append(waiting, e) /\ Len(waiting) < QueueCap
        /\ facts' = facts
    BY <1>3, ApplyEffect
  <2> HIDE DEF e
  <2>2. waiting \in Seq(Derivable) /\ QueueCap \in Nat
    BY SchemaSizes DEF EdgesInv
  <2>3. waiting' \in Seq(Derivable) /\ Len(waiting') = Len(waiting) + 1 /\ Len(waiting) \in Nat
    BY <2>1, <2>2
  <2> QED BY <2>1, <2>2, <2>3 DEF EdgesInv
<1>4. CASE Batch
  <2>1. facts' = Applied /\ waiting' = <<>>
    BY <1>4 DEF Batch
  <2>2. waiting' \in Seq(Derivable) /\ Len(waiting') <= QueueCap
    BY <2>1, SchemaSizes
  <2> QED BY <2>1, <2>2, AppliedFits DEF EdgesInv
<1> QED BY <1>1, <1>2, <1>3, <1>4 DEF SchemaCommand, schemaVars, Observe, Register

(* No step makes edges that hold each other up.                            *)
LEMMA SoundStep ==
  ASSUME SchemasInv, EdgesInv, Sound, SchemaCommand \/ UNCHANGED schemaVars
  PROVE  Sound'
<1>1. Kept(schemas, schemas') /\ Grounded(schemas, facts, waiting, given)
  BY SchemasStep, SoundGrounded
<1> SUFFICES ASSUME NEW es \in SUBSET ((facts' \cup Range(waiting')) \ given'), es # {}
             PROVE  \E e \in es : Follows(schemas', facts' \ es, e)
  BY SoundPrimed, Zenon DEF Grounded
<1>2. ASSUME es \subseteq (facts \cup Range(waiting)) \ given, facts \ es \subseteq facts' \ es
      PROVE  \E e \in es : Follows(schemas', facts' \ es, e)
  <2>1. PICK e \in es : Follows(schemas, facts \ es, e)
    BY <1>1, <1>2, Zenon DEF Grounded
  <2>2. Follows(schemas', facts' \ es, e)
    BY <1>1, <1>2, <2>1, FollowsMore
  <2> QED BY <2>2
<1>3. CASE UNCHANGED <<facts, waiting, given>>
  BY <1>2, <1>3
<1>4. ASSUME NEW f, AddEdge(f) PROVE \E e \in es : Follows(schemas', facts' \ es, e)
  <2>1. facts' = facts \cup {f} /\ given' = given \cup {f} /\ waiting' = waiting
    BY <1>4 DEF AddEdge, Created
  <2> QED BY <1>2, <2>1
<1>5. CASE Batch
  <2>1. facts' = Applied /\ waiting' = <<>> /\ given' = given
    BY <1>5 DEF Batch
  <2>2. Range(waiting') = {}
    BY <2>1 DEF Range
  <2>3. facts \subseteq facts' /\ facts' \subseteq facts \cup Range(waiting)
    BY <2>1, AppliedFits
  <2> QED BY <1>2, <2>1, <2>2, <2>3
<1>6. ASSUME NEW pair \in Pairs, NEW t \in Triples, ApplySchema(pair, t)
      PROVE  \E e \in es : Follows(schemas', facts' \ es, e)
  <2> DEFINE n == <<t[1], Output(pair), t[3]>>
  <2>1. /\ Follows(schemas, facts, n) /\ waiting' = Append(waiting, n)
        /\ UNCHANGED <<schemas, facts, given>>
    BY <1>6, ApplyEffect
  <2> HIDE DEF n
  <2>2. Range(waiting') = Range(waiting) \cup {n}
    <3>1. waiting \in Seq(Derivable)
      BY DEF EdgesInv
    <3>2. /\ DOMAIN waiting' = DOMAIN waiting \cup {Len(waiting) + 1}
          /\ \A i \in DOMAIN waiting : waiting'[i] = waiting[i]
          /\ waiting'[Len(waiting) + 1] = n
      BY <2>1, <3>1
    <3> QED BY <3>2 DEF Range
  <2>3. CASE es \subseteq facts \cup Range(waiting)
    BY <1>2, <2>1, <2>3
  <2>4. CASE ~(es \subseteq facts \cup Range(waiting))
    <3>1. n \in es /\ n \notin facts /\ n \notin Range(waiting)
      BY <2>1, <2>2, <2>4
    <3> DEFINE rest == es \ {n}
    <3>2. rest \subseteq (facts \cup Range(waiting)) \ given /\ facts \ rest = facts \ es
      BY <2>1, <2>2, <3>1
    <3>3. CASE rest # {}
      <4>1. PICK e \in rest : Follows(schemas, facts \ rest, e)
        BY <1>1, <3>2, <3>3, Zenon DEF Grounded
      <4>2. e \in es /\ Follows(schemas', facts' \ es, e)
        BY <2>1, <3>2, <4>1
      <4> QED BY <4>2
    <3>4. CASE rest = {}
      <4>1. facts' \ es = facts
        BY <2>1, <3>1, <3>4
      <4>2. Follows(schemas', facts' \ es, n)
        BY <2>1, <4>1
      <4> QED BY <3>1, <4>2
    <3> QED BY <3>3, <3>4
  <2> QED BY <2>3, <2>4
<1> QED BY <1>3, <1>4, <1>5, <1>6 DEF SchemaCommand, schemaVars, Observe, Register

(* It all holds at the start.                                              *)
LEMMA SchemaInitInv == SchemaInit => SchemaInv
<1> SUFFICES ASSUME SchemaInit PROVE SchemaInv
  OBVIOUS
<1>1. /\ threshold \in Thresholds /\ schemas = <<>> /\ facts \in Graphs /\ waiting = <<>>
      /\ given = facts /\ observed = {}
  BY DEF SchemaInit
<1>2. DOMAIN schemas = {} /\ schemas \in Seq(SchemaSet) /\ Len(schemas) = 0
  BY <1>1
<1>3. Listed(schemas) /\ Known(schemas, observed)
  BY <1>1, <1>2, SchemaSizes DEF Listed, Known
<1>4. \A pair \in Pairs : IsFiniteSet(Seen(pair, observed))
  <2>1. \A pair \in Pairs : Seen(pair, observed) = {}
    BY <1>1 DEF Seen
  <2> QED BY <2>1, FS_EmptySet
<1>5. SchemasInv
  BY <1>1, <1>2, <1>3, <1>4 DEF SchemasInv
<1>6. EdgesInv
  BY <1>1, SchemaSizes DEF EdgesInv
<1>7. Range(waiting) = {}
  BY <1>1 DEF Range
<1>8. Sound
  BY <1>1, <1>7 DEF Sound
<1> QED BY <1>5, <1>6, <1>8 DEF SchemaInv

(* Every step of the schemas keeps it.                                     *)
LEMMA SchemaStepInv == SchemaInv /\ (SchemaCommand \/ UNCHANGED schemaVars) => SchemaInv'
BY SchemasStep, EdgesStep, SoundStep DEF SchemaInv

(* It says that the arrays hold what they should.                          *)
LEMMA SchemaInvTyped == SchemaInv => SchemaTypeOK
<1> SUFFICES ASSUME SchemaInv PROVE SchemaTypeOK
  OBVIOUS
<1>1. schemas \in Seq(SchemaSet) /\ Len(schemas) <= SchemaCap
  BY DEF SchemaInv, SchemasInv, Listed
<1>2. ASSUME NEW s \in Range(schemas) PROVE s.support = Cardinality(s.triples)
  <2>1. PICK i \in DOMAIN schemas : s = schemas[i]
    BY DEF Range
  <2> QED BY <2>1, Zenon DEF SchemaInv, SchemasInv, Counted
<1>3. /\ threshold \in Thresholds /\ observed \subseteq Pairs \X Triples
      /\ waiting \in Seq(Derivable) /\ Len(waiting) <= QueueCap
      /\ IsFiniteSet(facts) /\ Cardinality(facts) <= EdgeCap
  BY DEF SchemaInv, SchemasInv, EdgesInv
<1>4. schemas \in Seq([pair : Pairs, out : Relations, triples : SUBSET Triples,
                      support : 0..DistinctCap, promoted : BOOLEAN])
  BY <1>1, Zenon DEF SchemaSet
<1>5. waiting \in Seq({<<t[1], out, t[3]>> : t \in Triples, out \in Relations})
  BY <1>3 DEF Derivable
<1>6. \A s \in Range(schemas) : s.support = Cardinality(s.triples)
  BY <1>2, Zenon
<1> QED BY <1>1, <1>3, <1>4, <1>5, <1>6 DEF SchemaTypeOK

(* Whatever holds all that the script stated, and what follows from it,    *)
(* holds every edge.                                                       *)
LEMMA NothingElseFollows ==
  ASSUME SchemaInv, NEW fs, given \subseteq fs, OneStep(fs) \subseteq fs
  PROVE  facts \cup Range(waiting) \subseteq fs
<1> DEFINE es == (facts \cup Range(waiting)) \ fs
<1>1. SUFFICES ASSUME es # {} PROVE FALSE
  OBVIOUS
<1>2. es \in SUBSET ((facts \cup Range(waiting)) \ given) /\ facts \ es \subseteq fs
  OBVIOUS
<1>3. Grounded(schemas, facts, waiting, given)
  BY SoundGrounded DEF SchemaInv
<1> HIDE DEF es
<1>4. PICK e \in es : Follows(schemas, facts \ es, e)
  BY <1>1, <1>2, <1>3, Zenon DEF Grounded
<1>5. Kept(schemas, schemas)
  BY DEF Kept
<1>6. Follows(schemas, fs, e)
  BY <1>2, <1>4, <1>5, FollowsMore
<1>7. e \in fs
  BY <1>6, OneStepFollows
<1> QED BY <1>4, <1>7 DEF es

-----------------------------------------------------------------------------
(* The memory blocks.                                                      *)
Block == [open : BOOLEAN, stored : BOOLEAN, gone : BOOLEAN, charge : Int,
          since : {Unset} \cup Nat, useful : BOOLEAN, replayed : BOOLEAN]

(* A charge that is noted as low is low, and has not been high since; r is *)
(* the time when the block m was last charged enough.                      *)
LowSince(m, r, now) ==
  m.since # Unset => m.charge < Forget /\ r <= m.since /\ m.since <= now
Fine(m, r, now) == m \in Block /\ r \in 0..now /\ LowSince(m, r, now)

BlocksInv ==
  /\ blocks \in Seq(Block) /\ Len(blocks) <= MemoryCap
  /\ rich \in [DOMAIN blocks -> Nat]
  /\ \A i \in DOMAIN blocks : Fine(blocks[i], rich[i], tick)

TimesInv ==
  /\ idle \in 0..(IdleTicks - 1) /\ busy \in Nat /\ tick \in Nat /\ left \in Nat
  /\ tick + left <= MaxTick /\ calls \in 0..MaxCalls

MemoryInv == SchemaInv /\ TimesInv /\ BlocksInv

(* Refreshing a block makes good what its new charge says.                 *)
LEMMA RefreshedFine ==
  ASSUME tick \in Nat, NEW m \in Block, NEW r \in 0..tick,
         m.since # Unset => r <= m.since /\ m.since <= tick,
         NEW n, n = Refreshed(m)
  PROVE  /\ Fine(n, IF n.charge >= Forget THEN tick ELSE r, tick)
         /\ Fine(n, r, tick) /\ n.open = m.open /\ n.gone = m.gone
<1> DEFINE st == m.stored \/ m.charge > Store
           si == IF m.charge >= Forget THEN Unset ELSE IF m.since = Unset THEN tick ELSE m.since
<1>1. /\ m.open \in BOOLEAN /\ m.stored \in BOOLEAN /\ m.gone \in BOOLEAN /\ m.charge \in Int
      /\ m.since \in {Unset} \cup Nat /\ m.useful \in BOOLEAN /\ m.replayed \in BOOLEAN
      /\ Store \in Int /\ Forget \in Int
  BY MemorySizes DEF Block
<1>2. st \in BOOLEAN /\ si \in {Unset} \cup Nat
  BY <1>1
<1>3. n = [m EXCEPT !.stored = st, !.since = si]
  BY DEF Refreshed, Block
<1>4. si # Unset => m.charge < Forget /\ r <= si /\ si <= tick
  BY <1>1
<1> HIDE DEF st, si
<1>5. n = [open |-> m.open, stored |-> st, gone |-> m.gone, charge |-> m.charge, since |-> si,
           useful |-> m.useful, replayed |-> m.replayed]
  BY <1>3 DEF Block
<1>6. n \in Block /\ n.charge = m.charge /\ n.since = si /\ n.open = m.open /\ n.gone = m.gone
  BY <1>1, <1>2, <1>5 DEF Block
<1>7. LowSince(n, r, tick)
  BY <1>4, <1>6 DEF LowSince
<1>8. n.charge >= Forget => LowSince(n, tick, tick)
  BY <1>1, <1>4, <1>6 DEF LowSince
<1> QED BY <1>6, <1>7, <1>8 DEF Fine

(* A decay does.                                                           *)
LEMMA DecayedFine ==
  ASSUME tick \in Nat, NEW m, NEW r, Fine(m, r, tick), NEW n, n = Decayed(m)
  PROVE  Fine(n, r, tick) /\ n.open = m.open /\ n.gone = m.gone
<1>1. CASE ~Passive(m)
  BY <1>1 DEF Decayed
<1>2. CASE Passive(m)
  <2> DEFINE c == IF m.charge < 0 THEN 0 ELSE m.charge - m.charge \div 2
             k == [m EXCEPT !.charge = c]
  <2>1. m \in Block /\ r \in 0..tick /\ m.charge \in Int
    BY DEF Fine, Block
  <2>2. c \in Int
    BY <2>1
  <2>3. n = Refreshed(k)
    BY <1>2, <2>1 DEF Decayed, Block
  <2> HIDE DEF c
  <2>4. k \in Block /\ k.since = m.since /\ k.open = m.open /\ k.gone = m.gone
    BY <2>1, <2>2 DEF Block
  <2>5. m.since # Unset => r <= m.since /\ m.since <= tick
    BY DEF Fine, LowSince
  <2> HIDE DEF k
  <2> QED BY <2>1, <2>3, <2>4, <2>5, RefreshedFine
<1> QED BY <1>1, <1>2

(* Replay and forgetting touch neither charges nor times; what is          *)
(* forgotten has been low for the hold period.                             *)
LEMMA ForgottenFine ==
  ASSUME tick \in Nat, NEW m, NEW r, Fine(m, r, tick), NEW k, k = m \/ k = [m EXCEPT !.replayed = TRUE],
         NEW n, n = Forgotten(k)
  PROVE  Fine(n, r, tick) /\ n.charge = m.charge /\ (n.gone /\ ~m.gone => tick - r >= Hold)
<1>1. m \in Block /\ r \in 0..tick /\ LowSince(m, r, tick)
  BY DEF Fine
<1>2. k \in Block /\ k.gone = m.gone /\ k.since = m.since /\ k.charge = m.charge
  BY <1>1 DEF Block
<1> DEFINE g == k.gone \/ (/\ ~k.open /\ k.charge < Forget
                           /\ k.since # Unset /\ tick - k.since >= Hold)
<1>3. n = [k EXCEPT !.gone = g] /\ g \in BOOLEAN
  BY <1>2 DEF Forgotten, Block
<1>4. g /\ ~m.gone => k.since # Unset /\ tick - k.since >= Hold
  BY <1>2
<1> HIDE DEF g
<1>5. n \in Block /\ n.gone = g /\ n.since = m.since /\ n.charge = m.charge
  BY <1>2, <1>3 DEF Block
<1>6. Fine(n, r, tick)
  BY <1>1, <1>5 DEF Fine, LowSince
<1>7. g /\ ~m.gone => tick - r >= Hold
  <2>1. Hold \in Nat /\ (m.since # Unset => m.since \in Nat)
    BY <1>1, MemorySizes DEF Block
  <2> QED BY <1>1, <1>2, <1>4, <2>1 DEF LowSince
<1> QED BY <1>5, <1>6, <1>7

(* Time alone does no harm.                                                *)
LEMMA FineLater ==
  ASSUME NEW now \in Nat, NEW later \in Nat, now <= later, NEW m, NEW r, Fine(m, r, now)
  PROVE  Fine(m, r, later)
BY DEF Fine, LowSince, Block

(* A block whose charge is enough has no time of low charge.               *)
LEMMA FineRich ==
  ASSUME NEW now \in Nat, NEW m, NEW r, Fine(m, r, now)
  PROVE  Fine(m, IF m.charge >= Forget THEN now ELSE r, now)
<1>1. m.charge \in Int /\ Forget \in Int /\ r \in 0..now
  BY MemorySizes DEF Fine, Block
<1>2. CASE m.charge >= Forget
  BY <1>1, <1>2 DEF Fine, LowSince
<1>3. CASE ~(m.charge >= Forget)
  BY <1>3
<1> QED BY <1>2, <1>3

(* A new block has no charge, and no time of low charge yet.               *)
LEMMA BeginEpisodeStep ==
  ASSUME TimesInv, BlocksInv, BeginEpisode
  PROVE  BlocksInv'
<1> DEFINE m == [open |-> TRUE, stored |-> FALSE, gone |-> FALSE,
                 charge |-> 0, since |-> Unset, useful |-> FALSE, replayed |-> FALSE]
<1>1. /\ Len(blocks) < MemoryCap /\ blocks' = Append(blocks, m) /\ rich' = Append(rich, tick)
      /\ tick' = tick
  BY DEF BeginEpisode
<1>2. blocks \in Seq(Block) /\ Len(blocks) \in Nat /\ MemoryCap \in Nat /\ tick \in Nat
  BY MemorySizes DEF BlocksInv, TimesInv
<1>3. DOMAIN blocks = 1..Len(blocks)
  BY <1>2
<1>4. rich \in [1..Len(blocks) -> Nat]
  BY <1>3 DEF BlocksInv
<1>5. rich \in Seq(Nat) /\ Len(rich) = Len(blocks)
  BY <1>2, <1>4
<1>6. Fine(m, tick, tick) /\ m \in Block
  BY <1>2 DEF Fine, LowSince, Block, Unset
<1> HIDE DEF m
<1> DEFINE n == Len(blocks) + 1
<1>7. /\ blocks' \in Seq(Block) /\ Len(blocks') = n /\ DOMAIN blocks' = 1..n
      /\ \A i \in 1..Len(blocks) : blocks'[i] = blocks[i] /\ rich'[i] = rich[i]
      /\ blocks'[n] = m /\ rich'[n] = tick
      /\ rich' \in [1..n -> Nat]
  <2>1. /\ blocks' \in Seq(Block) /\ Len(blocks') = n /\ DOMAIN blocks' = 1..n
        /\ \A i \in 1..Len(blocks) : blocks'[i] = blocks[i]
        /\ blocks'[n] = m
    BY <1>1, <1>2, <1>6
  <2>2. /\ rich' \in Seq(Nat) /\ Len(rich') = n
        /\ \A i \in 1..Len(blocks) : rich'[i] = rich[i]
        /\ rich'[n] = tick
    BY <1>1, <1>2, <1>5
  <2>3. rich' \in [1..n -> Nat]
    BY <2>2
  <2> QED BY <2>1, <2>2, <2>3
<1>8. ASSUME NEW i \in DOMAIN blocks' PROVE Fine(blocks'[i], rich'[i], tick')
  <2>1. CASE i = n
    BY <1>1, <1>6, <1>7, <2>1
  <2>2. CASE i # n
    <3>1. i \in DOMAIN blocks /\ blocks'[i] = blocks[i] /\ rich'[i] = rich[i]
      BY <1>2, <1>3, <1>7, <2>2
    <3> QED BY <1>1, <3>1 DEF BlocksInv
  <2> QED BY <2>1, <2>2
<1> QED BY <1>1, <1>2, <1>7, <1>8 DEF BlocksInv

(* The end of an episode changes nothing else of its block.                *)
LEMMA EndEpisodeStep ==
  ASSUME BlocksInv, NEW i \in DOMAIN blocks, EndEpisode(i)
  PROVE  BlocksInv' /\ \A j \in DOMAIN blocks : blocks'[j].gone = blocks[j].gone
<1> DEFINE m == [blocks[i] EXCEPT !.open = FALSE]
<1>1. blocks' = [blocks EXCEPT ![i] = m] /\ rich' = rich /\ tick' = tick
  BY DEF EndEpisode
<1>2. blocks \in Seq(Block) /\ Fine(blocks[i], rich[i], tick)
  BY DEF BlocksInv
<1>3. Fine(m, rich[i], tick) /\ m \in Block /\ m.gone = blocks[i].gone
  BY <1>2 DEF Fine, LowSince, Block
<1> HIDE DEF m
<1>4. /\ blocks' \in Seq(Block) /\ Len(blocks') = Len(blocks) /\ DOMAIN blocks' = DOMAIN blocks
      /\ blocks'[i] = m /\ \A j \in DOMAIN blocks : j # i => blocks'[j] = blocks[j]
  BY <1>1, <1>2, <1>3
<1>5. \A j \in DOMAIN blocks' : Fine(blocks'[j], rich'[j], tick')
  BY <1>1, <1>3, <1>4, Zenon DEF BlocksInv
<1>6. \A j \in DOMAIN blocks : blocks'[j].gone = blocks[j].gone
  BY <1>3, <1>4, Zenon
<1>7. Len(blocks') <= MemoryCap /\ rich' \in [DOMAIN blocks' -> Nat]
  BY <1>1, <1>4 DEF BlocksInv
<1> QED BY <1>4, <1>5, <1>6, <1>7 DEF BlocksInv

(* A charge refreshes its block, and forgets none.                         *)
LEMMA ChargeUpdateStep ==
  ASSUME TimesInv, BlocksInv, NEW i \in DOMAIN blocks, NEW c \in Charges, ChargeUpdate(i, c)
  PROVE  BlocksInv' /\ \A j \in DOMAIN blocks : blocks'[j].gone = blocks[j].gone
<1> DEFINE k == [blocks[i] EXCEPT !.charge = blocks[i].charge + c.by,
                                  !.useful = blocks[i].useful \/ c.useful]
           n == Refreshed(k)
<1>1. blocks \in Seq(Block) /\ Fine(blocks[i], rich[i], tick) /\ tick \in Nat
  BY DEF BlocksInv, TimesInv
<1>2. blocks[i] \in Block /\ rich[i] \in 0..tick /\ LowSince(blocks[i], rich[i], tick)
  BY <1>1 DEF Fine
<1>3. blocks' = [blocks EXCEPT ![i] = n] /\ tick' = tick /\ rich' = RichNow
  <2>1. tick' = tick /\ rich' = RichNow
    BY DEF ChargeUpdate
  <2>2. blocks' = [blocks EXCEPT ![i] =
                     Refreshed([blocks[i] EXCEPT !.charge = blocks[i].charge + c.by,
                                                 !.useful = blocks[i].useful \/ c.useful])]
    BY DEF ChargeUpdate
  <2> QED BY <2>1, <2>2
<1>4. c.by \in Int /\ c.useful \in BOOLEAN
  BY MemorySizes
<1>5. k \in Block /\ k.since = blocks[i].since /\ k.gone = blocks[i].gone
  <2>1. blocks[i].charge + c.by \in Int /\ (blocks[i].useful \/ c.useful) \in BOOLEAN
    BY <1>2, <1>4 DEF Block
  <2> QED BY <1>2, <2>1 DEF Block
<1>6. k.since # Unset => rich[i] <= k.since /\ k.since <= tick
  BY <1>2, <1>5 DEF LowSince
<1> HIDE DEF k
<1>7. Fine(n, IF n.charge >= Forget THEN tick ELSE rich[i], tick) /\ n.gone = blocks[i].gone
  BY <1>1, <1>2, <1>5, <1>6, RefreshedFine
<1>8. n \in Block
  BY <1>7 DEF Fine
<1> HIDE DEF n
<1>9. /\ blocks' \in Seq(Block) /\ Len(blocks') = Len(blocks) /\ DOMAIN blocks' = DOMAIN blocks
      /\ blocks'[i] = n /\ \A j \in DOMAIN blocks : j # i => blocks'[j] = blocks[j]
  BY <1>1, <1>3, <1>8
<1>10. \A j \in DOMAIN blocks : blocks'[j].gone = blocks[j].gone
  BY <1>7, <1>9, Zenon
<1>11. rich' = [j \in DOMAIN blocks |-> IF blocks'[j].charge >= Forget THEN tick ELSE rich[j]]
  BY <1>3, <1>9, Zenon DEF RichNow
<1>12. ASSUME NEW j \in DOMAIN blocks' PROVE Fine(blocks'[j], rich'[j], tick')
  <2>1. rich'[j] = IF blocks'[j].charge >= Forget THEN tick ELSE rich[j]
    BY <1>9, <1>11
  <2>2. CASE j = i
    BY <1>3, <1>7, <1>9, <2>1, <2>2
  <2>3. CASE j # i
    <3>1. blocks'[j] = blocks[j] /\ Fine(blocks[j], rich[j], tick)
      BY <1>9, <2>3 DEF BlocksInv
    <3> QED BY <1>1, <1>3, <2>1, <3>1, FineRich
  <2> QED BY <2>2, <2>3
<1>13. rich' \in [DOMAIN blocks' -> Nat]
  BY <1>1, <1>9, <1>11 DEF BlocksInv
<1>14. Len(blocks') <= MemoryCap
  BY <1>9 DEF BlocksInv
<1> QED BY <1>9, <1>10, <1>12, <1>13, <1>14 DEF BlocksInv

(* What a tick may do to the blocks: nothing, or consolidate them.         *)
LEMMA ConsolidateEffect ==
  ASSUME TickStep
  PROVE  \/ blocks' = blocks /\ UNCHANGED schemaVars
         \/ /\ Batch
            /\ \E replayed : /\ replayed = Replayed([i \in DOMAIN blocks |-> Decayed(blocks[i])])
                             /\ blocks' = [i \in DOMAIN blocks |-> Forgotten(replayed[i])]
BY Zenon DEF TickStep, Consolidate

(* A tick keeps what holds of the blocks, and forgets only what was low    *)
(* for the hold period.                                                    *)
LEMMA TickBlocks ==
  ASSUME TimesInv, BlocksInv, TickStep
  PROVE  /\ DOMAIN blocks' = DOMAIN blocks /\ blocks' \in Seq(Block) /\ Len(blocks') = Len(blocks)
         /\ \A i \in DOMAIN blocks :
              /\ Fine(blocks'[i], rich[i], tick)
              /\ blocks'[i].gone /\ ~blocks[i].gone => tick - rich[i] >= Hold
<1>1. blocks \in Seq(Block) /\ tick \in Nat /\ \A i \in DOMAIN blocks : Fine(blocks[i], rich[i], tick)
  BY DEF BlocksInv, TimesInv
<1>2. CASE blocks' = blocks
  BY <1>1, <1>2
<1>3. ASSUME NEW replayed, replayed = Replayed([i \in DOMAIN blocks |-> Decayed(blocks[i])]),
             blocks' = [i \in DOMAIN blocks |-> Forgotten(replayed[i])]
      PROVE  /\ DOMAIN blocks' = DOMAIN blocks /\ blocks' \in Seq(Block) /\ Len(blocks') = Len(blocks)
             /\ \A i \in DOMAIN blocks :
                  /\ Fine(blocks'[i], rich[i], tick)
                  /\ blocks'[i].gone /\ ~blocks[i].gone => tick - rich[i] >= Hold
  <2> DEFINE ms == [i \in DOMAIN blocks |-> Decayed(blocks[i])]
  <2>1. \A i \in DOMAIN ms : replayed[i] = ms[i] \/ replayed[i] = [ms[i] EXCEPT !.replayed = TRUE]
    <3> HIDE DEF ms
    <3>1. replayed = Replayed(ms)
      BY <1>3 DEF ms
    <3> QED BY <3>1 DEF Replayed
  <2>2. ASSUME NEW i \in DOMAIN blocks
        PROVE  /\ Fine(blocks'[i], rich[i], tick) /\ blocks'[i] \in Block
               /\ blocks'[i].gone /\ ~blocks[i].gone => tick - rich[i] >= Hold
    <3>1. /\ Fine(ms[i], rich[i], tick) /\ ms[i].gone = blocks[i].gone
      BY <1>1, DecayedFine
    <3>2. replayed[i] = ms[i] \/ replayed[i] = [ms[i] EXCEPT !.replayed = TRUE]
      BY <2>1
    <3>3. blocks'[i] = Forgotten(replayed[i])
      BY <1>3
    <3> HIDE DEF ms
    <3>4. /\ Fine(blocks'[i], rich[i], tick)
          /\ blocks'[i].gone /\ ~ms[i].gone => tick - rich[i] >= Hold
      BY <1>1, <3>1, <3>2, <3>3, ForgottenFine
    <3> QED BY <3>1, <3>4 DEF Fine
  <2>3. DOMAIN blocks' = DOMAIN blocks /\ DOMAIN blocks = 1..Len(blocks) /\ Len(blocks) \in Nat
    BY <1>1, <1>3
  <2>4. blocks' \in [1..Len(blocks) -> Block]
    BY <1>3, <2>2, <2>3
  <2>5. blocks' \in Seq(Block) /\ Len(blocks') = Len(blocks)
    BY <2>3, <2>4
  <2> QED BY <2>2, <2>3, <2>5
<1> QED BY <1>2, <1>3, ConsolidateEffect

(* With the history of the charges and the clock.                          *)
LEMMA TickStepInv ==
  ASSUME TimesInv, BlocksInv, TickStep
  PROVE  BlocksInv' /\ \A i \in DOMAIN blocks :
                         blocks'[i].gone /\ ~blocks[i].gone => tick - rich[i] >= Hold
<1>1. /\ DOMAIN blocks' = DOMAIN blocks /\ blocks' \in Seq(Block) /\ Len(blocks') = Len(blocks)
      /\ \A i \in DOMAIN blocks :
           /\ Fine(blocks'[i], rich[i], tick)
           /\ blocks'[i].gone /\ ~blocks[i].gone => tick - rich[i] >= Hold
  BY TickBlocks
<1>2. tick' = tick + 1 /\ rich' = RichNow
  BY DEF TickStep
<1>3. rich' = [i \in DOMAIN blocks |-> IF blocks'[i].charge >= Forget THEN tick ELSE rich[i]]
  BY <1>1, <1>2, Zenon DEF RichNow
<1>4. tick \in Nat /\ tick' \in Nat /\ tick <= tick'
  BY <1>2 DEF TimesInv
<1>5. ASSUME NEW i \in DOMAIN blocks' PROVE Fine(blocks'[i], rich'[i], tick')
  <2>1. rich'[i] = IF blocks'[i].charge >= Forget THEN tick ELSE rich[i]
    BY <1>1, <1>3
  <2>2. Fine(blocks'[i], rich'[i], tick)
    BY <1>1, <1>4, <2>1, FineRich
  <2> QED BY <1>4, <2>2, FineLater
<1>6. rich' \in [DOMAIN blocks' -> Nat] /\ Len(blocks') <= MemoryCap
  BY <1>1, <1>3, <1>4 DEF BlocksInv
<1> QED BY <1>1, <1>5, <1>6 DEF BlocksInv

(* Clocks and counters.                                                    *)
LEMMA TimesStep ==
  ASSUME TimesInv, [Next]_vars
  PROVE  TimesInv'
<1>1. /\ idle \in 0..(IdleTicks - 1) /\ busy \in Nat /\ tick \in Nat /\ left \in Nat
      /\ tick + left <= MaxTick /\ calls \in 0..MaxCalls
      /\ MaxTick \in Nat /\ MaxCalls \in Nat /\ IdleTicks \in Nat \ {0}
      /\ TickCounts \subseteq Nat /\ BusyTimes \subseteq Nat
  BY MemorySizes DEF TimesInv
<1>2. CASE UNCHANGED vars
  BY <1>1, <1>2 DEF vars, memoryVars, TimesInv
<1>3. CASE TickStep
  <2>1. left > 0 /\ tick' = tick + 1 /\ left' = left - 1 /\ calls' = calls
    BY <1>3 DEF TickStep
  <2>2. \/ idle' = 0 /\ busy > 0 /\ busy' = busy - 1
        \/ idle' = idle + 1 /\ idle + 1 < IdleTicks /\ busy' = busy
        \/ idle' = 0 /\ busy' = busy
    BY <1>3 DEF TickStep
  <2>3. idle' \in 0..(IdleTicks - 1) /\ busy' \in Nat
    BY <1>1, <2>2
  <2>4. tick' \in Nat /\ left' \in Nat /\ tick' + left' <= MaxTick
    BY <1>1, <2>1
  <2> QED BY <1>1, <2>1, <2>3, <2>4 DEF TimesInv
<1>4. CASE Called /\ UNCHANGED memoryVars
  <2>1. calls' \in 0..MaxCalls
    BY <1>1, <1>4 DEF Called
  <2> QED BY <1>1, <1>4, <2>1 DEF memoryVars, TimesInv
<1>5. CASE Called /\ MemoryCommand
  <2>1. calls' \in 0..MaxCalls /\ left = 0
    BY <1>1, <1>5 DEF Called
  <2>2. idle' = idle /\ tick' = tick
    BY <1>5 DEF MemoryCommand, BeginEpisode, EndEpisode, ChargeUpdate, Activate, Ticks
  <2>3. busy' \in Nat
    BY <1>1, <1>5 DEF MemoryCommand, BeginEpisode, EndEpisode, ChargeUpdate, Activate, Ticks
  <2>4. left' \in Nat /\ tick + left' <= MaxTick
    BY <1>1, <1>5 DEF MemoryCommand, BeginEpisode, EndEpisode, ChargeUpdate, Activate, Ticks
  <2> QED BY <1>1, <2>1, <2>2, <2>3, <2>4 DEF TimesInv
<1> QED BY <1>2, <1>3, <1>4, <1>5 DEF Next

(* Of the schemas and the edges a step is a command, a batch, or nothing.  *)
LEMMA NextSchemas == [Next]_vars => SchemaCommand \/ UNCHANGED schemaVars
BY ConsolidateEffect DEF Next, vars, SchemaCommand

(* Of the blocks it keeps what holds of them, and the hold period.         *)
LEMMA BlocksStep ==
  ASSUME TimesInv, BlocksInv, [Next]_vars
  PROVE  BlocksInv' /\ \A i \in DOMAIN blocks :
                         blocks'[i].gone /\ ~blocks[i].gone => tick - rich[i] >= Hold
<1>1. CASE UNCHANGED <<blocks, rich, tick>>
  BY <1>1 DEF BlocksInv
<1>2. CASE BeginEpisode
  <2>1. \A i \in DOMAIN blocks : blocks'[i] = blocks[i]
    <3>1. blocks \in Seq(Block)
      BY DEF BlocksInv
    <3> QED BY <1>2, <3>1 DEF BeginEpisode
  <2> QED BY <1>2, <2>1, BeginEpisodeStep
<1>3. CASE \E i \in DOMAIN blocks : EndEpisode(i)
  BY <1>3, EndEpisodeStep
<1>4. CASE \E i \in DOMAIN blocks, c \in Charges : ChargeUpdate(i, c)
  BY <1>4, ChargeUpdateStep
<1>5. CASE TickStep
  BY <1>5, TickStepInv
<1>6. \/ UNCHANGED <<blocks, rich, tick>> \/ BeginEpisode \/ TickStep
      \/ \E i \in DOMAIN blocks : EndEpisode(i)
      \/ \E i \in DOMAIN blocks, c \in Charges : ChargeUpdate(i, c)
  BY DEF Next, vars, memoryVars, MemoryCommand, Activate, Ticks
<1> QED BY <1>1, <1>2, <1>3, <1>4, <1>5, <1>6

(* The inductive invariant.                                                *)
LEMMA MemoryInitInv == Init => MemoryInv
<1> SUFFICES ASSUME Init PROVE MemoryInv
  OBVIOUS
<1>1. SchemaInv
  BY SchemaInitInv DEF Init
<1>2. TimesInv
  BY MemorySizes DEF Init, TimesInv
<1>3. blocks = <<>> /\ rich = <<>>
  BY DEF Init
<1>4. BlocksInv
  BY <1>3, MemorySizes DEF BlocksInv
<1> QED BY <1>1, <1>2, <1>4 DEF MemoryInv

(* Every step keeps it.                                                    *)
LEMMA MemoryStep == MemoryInv /\ [Next]_vars => MemoryInv'
BY SchemaStepInv, NextSchemas, TimesStep, BlocksStep DEF MemoryInv

(* What holds of an engine with schemas and memory blocks in every state   *)
(* that commands and ticks lead to.                                        *)
THEOREM MemoryInvariant == Spec => []MemoryInv
BY MemoryInitInv, MemoryStep, PTL DEF Spec

(* It says that the state is well typed.                                   *)
LEMMA MemoryInvTyped == MemoryInv => TypeOK
<1> SUFFICES ASSUME MemoryInv PROVE TypeOK
  OBVIOUS
<1>1. SchemaTypeOK
  BY SchemaInvTyped DEF MemoryInv
<1>2. /\ blocks \in Seq(Block) /\ Len(blocks) <= MemoryCap /\ tick \in Nat
      /\ rich \in [DOMAIN blocks -> Nat]
      /\ \A i \in DOMAIN blocks : Fine(blocks[i], rich[i], tick)
  BY DEF MemoryInv, BlocksInv, TimesInv
<1> DEFINE B == [open : BOOLEAN, stored : BOOLEAN, gone : BOOLEAN, charge : Int,
                 since : {Unset} \cup 0..tick, useful : BOOLEAN, replayed : BOOLEAN]
<1>3. ASSUME NEW i \in DOMAIN blocks
      PROVE  blocks[i] \in B /\ (blocks[i].since # Unset => blocks[i].charge < Forget)
  BY <1>2 DEF Fine, LowSince, Block
<1>4. blocks \in Seq(B)
  <2>1. DOMAIN blocks = 1..Len(blocks) /\ Len(blocks) \in Nat /\ blocks \in [1..Len(blocks) -> Block]
    BY <1>2
  <2> HIDE DEF B
  <2>2. blocks \in [1..Len(blocks) -> B]
    BY <1>3, <2>1
  <2> QED BY <2>1, <2>2
<1>5. \A m \in Range(blocks) : m.since # Unset => m.charge < Forget
  BY <1>3 DEF Range
<1>6. rich \in [DOMAIN blocks -> 0..tick]
  BY <1>2 DEF Fine
<1>7. /\ idle \in 0..(IdleTicks - 1) /\ busy \in Nat /\ {tick, left} \subseteq Nat
      /\ tick + left <= MaxTick /\ calls \in 0..MaxCalls
  BY DEF MemoryInv, TimesInv
<1> QED BY <1>1, <1>2, <1>4, <1>5, <1>6, <1>7 DEF TypeOK

(* The arrays never outgrow their capacities, a schema's support is the    *)
(* number of its triples, and a block has a time of low charge only while  *)
(* its charge is low.                                                      *)
THEOREM MemoryTyped == Spec => []TypeOK
BY MemoryInvariant, MemoryInvTyped, PTL

(* Schemas are promoted by distinct triples, as many as the threshold asks *)
(* for, no sooner and no later, whatever is observed in whatever order.    *)
THEOREM PromotedByDistinctTriples == Spec => []PromotionEarned
BY MemoryInvariant, InvPromotion, PTL DEF MemoryInv, SchemaInv

(* No edge is derived, queued or applied that holds itself up.             *)
THEOREM DerivedFromStated == Spec => []Sound
BY MemoryInvariant, PTL DEF MemoryInv, SchemaInv

(* A pair of relations keeps its output for good.                          *)
THEOREM OutputsKept == Spec => OutputStable
<1>1. MemoryInv /\ [Next]_vars =>
        [\A pair \in Pairs : Output(pair) = NoRel \/ Output(pair)' = Output(pair)]_schemaVars
  BY NextSchemas, OutputStep DEF MemoryInv, SchemaInv
<1> QED BY <1>1, MemoryInvariant, PTL DEF Spec, OutputStable

(* No block is forgotten within the hold period after it had charge enough.*)
THEOREM NeverForgottenEarly == Spec => HeldLongEnough
<1>1. MemoryInv /\ [Next]_vars =>
        [\A i \in DOMAIN blocks :
           blocks'[i].gone /\ ~blocks[i].gone => tick - rich[i] >= Hold]_vars
  BY BlocksStep DEF MemoryInv
<1> QED BY <1>1, MemoryInvariant, PTL DEF Spec, HeldLongEnough
=============================================================================
