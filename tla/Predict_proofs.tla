---------------------------- MODULE Predict_proofs ----------------------------
(***************************************************************************)
(* What holds of prediction and teaching on the count graph, for every     *)
(* number of contexts and tokens, every graph and every size of the        *)
(* engine's arrays.                                                        *)
(*                                                                         *)
(* First sums over finite sets: what SumFunctionOnSet of Functions is when *)
(* an element is added, and how sums compare.                              *)
(***************************************************************************)
EXTENDS Predict, FiniteSetTheorems, SequenceTheorems, NaturalsInduction, WellFoundedInduction, TLAPS

(* A natural number that is not below another is at least as large.        *)
LEMMA NotBelow == \A x, y \in Nat : ~(y < x) => x <= y
  OBVIOUS

(* A set of numbers that is not empty has a least one.                     *)
LEMMA LeastNat ==
  ASSUME NEW I, I \subseteq Nat, I # {}
  PROVE  \E x \in I : \A y \in I : x <= y
<1>1. \E x \in I : \A y \in I : ~(<<y, x>> \in OpToRel(<, Nat))
  BY NatLessThanWellFounded, WFMin, Zenon
<1>2. \A x \in I, y \in I : y < x => <<y, x>> \in OpToRel(<, Nat)
  BY Zenon DEF OpToRel
<1> QED BY <1>1, <1>2, NotBelow, Zenon

(* Of some finite sets, one has none of the others as a proper part.       *)
LEMMA SmallestSet ==
  ASSUME NEW U, U # {}, \A s \in U : IsFiniteSet(s)
  PROVE  \E s \in U : \A t \in U : t \subseteq s => t = s
<1> DEFINE I == {Cardinality(s) : s \in U}
<1>1. I \subseteq Nat /\ I # {}
  BY FS_CardinalityType
<1>2. PICK n \in I : \A m \in I : n <= m
  BY <1>1, LeastNat, Zenon
<1>3. PICK s \in U : n = Cardinality(s)
  OBVIOUS
<1>4. ASSUME NEW t \in U, t \subseteq s, t # s
      PROVE  FALSE
  <2>1. IsFiniteSet(s) /\ Cardinality(t) <= Cardinality(s) /\ Cardinality(t) # Cardinality(s)
    BY <1>4, FS_Subset, Zenon
  <2>2. Cardinality(t) \in Nat /\ Cardinality(s) \in Nat /\ Cardinality(t) \in I
    BY FS_CardinalityType, Zenon
  <2> QED BY <2>1, <2>2, <1>2, <1>3
<1> QED BY <1>3, <1>4, Zenon

(* What a sum function of the subsets of S is to be.                       *)
Summed(g, f, s) == IF s = {} THEN 0 ELSE f[CHOOSE x \in s : TRUE] + g[s \ {CHOOSE x \in s : TRUE}]
SumsOf(S, f) == CHOOSE g : g = [s \in SUBSET S |-> Summed(g, f, s)]

(* Summing is what the library's fold does with addition.                  *)
LEMMA SumIsFold ==
  ASSUME NEW f, NEW S
  PROVE  SumFunctionOnSet(f, S) = SumsOf(S, f)[S]
BY Zenon DEF SumFunctionOnSet, FoldFunctionOnSet, MapThenFoldSet, SumsOf, Summed

SumsTo(g, f, S, n) == /\ g = [s \in SUBSET S |-> g[s]]
                      /\ \A s \in SUBSET S : Cardinality(s) <= n => g[s] = Summed(g, f, s)

(* There is such a function for every finite set: one that is right for    *)
(* the sets of at most n elements exists for every n.                      *)
LEMMA SumsUpTo ==
  ASSUME NEW f, NEW S, IsFiniteSet(S), NEW n \in Nat
  PROVE  \E g : SumsTo(g, f, S, n)
<1> DEFINE Right(m) == \E g : SumsTo(g, f, S, m)
           I == {m \in Nat : ~Right(m)}
<1>1. \A s \in SUBSET S : IsFiniteSet(s) /\ Cardinality(s) \in Nat
                          /\ (s # {} => Cardinality(s) # 0)
  BY FS_Subset, FS_CardinalityType, FS_EmptySet, Zenon
<1>2. ASSUME I # {}
      PROVE  FALSE
  <2>1. PICK m \in I : \A k \in I : m <= k
    BY <1>2, LeastNat, Zenon
  <2>2. CASE m = 0
    <3> DEFINE g == [s \in SUBSET S |-> 0]
    <3>1. g = [s \in SUBSET S |-> g[s]]
      OBVIOUS
    <3>2. \A s \in SUBSET S : Cardinality(s) <= m => s = {}
      BY <1>1, <2>2
    <3>3. \A s \in SUBSET S : Cardinality(s) <= m => g[s] = Summed(g, f, s)
      BY <3>2 DEF Summed
    <3>4. Right(m)
      BY <3>1, <3>3, Zenon DEF SumsTo
    <3> QED BY <2>1, <3>4
  <2>3. CASE m # 0
    <3>1. m - 1 \in Nat /\ m - 1 \notin I
      <4> HIDE DEF I
      <4>1. m \in Nat
        BY <2>1 DEF I
      <4> QED BY <4>1, <2>1, <2>3
    <3>2. PICK g : SumsTo(g, f, S, m - 1)
      BY <3>1, Zenon
    <3> DEFINE h == [s \in SUBSET S |-> Summed(g, f, s)]
    <3>3. h = [s \in SUBSET S |-> h[s]]
      BY Zenon
    <3>4. ASSUME NEW s \in SUBSET S, Cardinality(s) <= m
          PROVE  h[s] = Summed(h, f, s)
      <4>1. CASE s = {}
        BY <4>1 DEF Summed
      <4>2. CASE s # {}
        <5> DEFINE x == CHOOSE x \in s : TRUE
        <5>1. x \in s
          BY <4>2
        <5>2. s \ {x} \in SUBSET S /\ Cardinality(s \ {x}) = Cardinality(s) - 1
          BY <5>1, <1>1, FS_RemoveElement, Zenon
        <5>3. Cardinality(s \ {x}) <= m - 1
          BY <5>2, <3>4, <1>1, <2>1
        <5>4. g[s \ {x}] = Summed(g, f, s \ {x}) /\ h[s \ {x}] = Summed(g, f, s \ {x})
          BY <5>2, <5>3, <3>2, Zenon DEF SumsTo
        <5>5. h[s] = Summed(g, f, s)
          BY Zenon
        <5> HIDE DEF h
        <5> QED BY <4>2, <5>4, <5>5, Zenon DEF Summed
      <4> QED BY <4>1, <4>2
    <3> HIDE DEF h
    <3>5. Right(m)
      BY <3>3, <3>4, Zenon DEF SumsTo
    <3> QED BY <2>1, <3>5
  <2> QED BY <2>2, <2>3
<1>3. Right(n)
  BY <1>2, Zenon
<1> QED BY <1>3, Zenon

(* So SumsOf is one.                                                       *)
LEMMA SumsExist ==
  ASSUME NEW f, NEW S, IsFiniteSet(S)
  PROVE  SumsOf(S, f) = [s \in SUBSET S |-> Summed(SumsOf(S, f), f, s)]
<1>1. Cardinality(S) \in Nat
  BY FS_CardinalityType
<1>2. PICK g : SumsTo(g, f, S, Cardinality(S))
  BY <1>1, SumsUpTo, Zenon
<1>3. \A s \in SUBSET S : Cardinality(s) <= Cardinality(S)
  BY FS_Subset, Zenon
<1>4. g = [s \in SUBSET S |-> Summed(g, f, s)]
  <2>1. \A s \in SUBSET S : g[s] = Summed(g, f, s)
    BY <1>2, <1>3, Zenon DEF SumsTo
  <2>2. [s \in SUBSET S |-> g[s]] = [s \in SUBSET S |-> Summed(g, f, s)]
    BY <2>1, Zenon
  <2>3. g = [s \in SUBSET S |-> g[s]]
    BY <1>2, Zenon DEF SumsTo
  <2> QED BY <2>2, <2>3, Zenon
<1> QED BY <1>4, Zenon DEF SumsOf

(* The function for S is also right for the parts of S.                    *)
LEMMA SumsAgree ==
  ASSUME NEW f, NEW S, IsFiniteSet(S), NEW T \in SUBSET S
  PROVE  SumsOf(S, f)[T] = SumFunctionOnSet(f, T)
<1> DEFINE g == SumsOf(S, f)
           h == SumsOf(T, f)
           U == {s \in SUBSET T : g[s] # h[s]}
<1>1. IsFiniteSet(T) /\ \A s \in U : IsFiniteSet(s)
  BY FS_Subset, Zenon
<1>2. g = [s \in SUBSET S |-> Summed(g, f, s)]
  BY SumsExist, Zenon
<1>3. h = [s \in SUBSET T |-> Summed(h, f, s)]
  BY <1>1, SumsExist, Zenon
<1> HIDE DEF g, h
<1>4. \A s \in SUBSET T : g[s] = Summed(g, f, s) /\ h[s] = Summed(h, f, s)
  <2>1. \A s \in SUBSET T : s \in SUBSET S
    OBVIOUS
  <2> QED BY <2>1, <1>2, <1>3, Zenon
<1>5. ASSUME U # {}
      PROVE  FALSE
  <2>1. PICK s \in U : \A t \in U : t \subseteq s => t = s
    <3>1. \A s \in U : IsFiniteSet(s)
      BY <1>1, Zenon
    <3> HIDE DEF U
    <3> QED BY <1>5, <3>1, SmallestSet
  <2>2. s # {}
    BY <2>1, <1>4, Zenon DEF Summed
  <2> DEFINE x == CHOOSE x \in s : TRUE
  <2>3. x \in s
    BY <2>2
  <2>4. s \ {x} \in SUBSET T /\ s \ {x} # s /\ s \ {x} \subseteq s
    BY <2>3
  <2>5. g[s \ {x}] = h[s \ {x}]
    BY <2>1, <2>4, Zenon
  <2>6. g[s] = Summed(g, f, s) /\ h[s] = Summed(h, f, s) /\ g[s] # h[s]
    BY <2>1, <1>4, Zenon
  <2>7. Summed(g, f, s) = Summed(h, f, s)
    BY <2>2, <2>5, Zenon DEF Summed
  <2> QED BY <2>6, <2>7, Zenon
<1>6. g[T] = h[T]
  BY <1>5, Zenon
<1> QED BY <1>6, SumIsFold, Zenon DEF g, h

(* The sum over no elements.                                               *)
LEMMA SumEmpty ==
  ASSUME NEW f
  PROVE  SumFunctionOnSet(f, {}) = 0
<1>1. SumsOf({}, f) = [s \in SUBSET {} |-> Summed(SumsOf({}, f), f, s)]
  BY SumsExist, FS_EmptySet, Zenon
<1>2. {} \in SUBSET {}
  OBVIOUS
<1>3. SumsOf({}, f)[{}] = Summed(SumsOf({}, f), f, {})
  BY <1>1, <1>2, Zenon
<1> QED BY <1>3, SumIsFold, Zenon DEF Summed

(* The element that the fold chooses is one that can be taken out.         *)
LEMMA SumChosen ==
  ASSUME NEW f, NEW S, IsFiniteSet(S), S # {}
  PROVE  \E x \in S : SumFunctionOnSet(f, S) = f[x] + SumFunctionOnSet(f, S \ {x})
<1> DEFINE x == CHOOSE x \in S : TRUE
           g == SumsOf(S, f)
<1>1. x \in S /\ S \in SUBSET S /\ S \ {x} \in SUBSET S
  OBVIOUS
<1>2. g = [s \in SUBSET S |-> Summed(g, f, s)]
  BY SumsExist, Zenon
<1> HIDE DEF g
<1>3. g[S] = f[x] + g[S \ {x}]
  BY <1>1, <1>2, Zenon DEF Summed
<1>4. g[S] = SumFunctionOnSet(f, S) /\ g[S \ {x}] = SumFunctionOnSet(f, S \ {x})
  BY <1>1, SumsAgree, Zenon DEF g
<1> QED BY <1>1, <1>3, <1>4, Zenon

(* A sum of integers is one.                                               *)
LEMMA SumInt ==
  ASSUME NEW f, NEW S, IsFiniteSet(S), \A x \in S : f[x] \in Int
  PROVE  SumFunctionOnSet(f, S) \in Int
<1> DEFINE U == {s \in SUBSET S : SumFunctionOnSet(f, s) \notin Int}
<1>1. \A s \in SUBSET S : IsFiniteSet(s)
  BY FS_Subset, Zenon
<1>2. ASSUME U # {}
      PROVE  FALSE
  <2>1. PICK s \in U : \A t \in U : t \subseteq s => t = s
    <3>1. \A s \in U : IsFiniteSet(s)
      BY <1>1, Zenon
    <3> HIDE DEF U
    <3> QED BY <1>2, <3>1, SmallestSet
  <2>2. s # {}
    <3>1. ASSUME s = {}
          PROVE  SumFunctionOnSet(f, s) \in Int
      BY <3>1, SumEmpty
    <3> QED BY <2>1, <3>1, Zenon
  <2>3. PICK x \in s : SumFunctionOnSet(f, s) = f[x] + SumFunctionOnSet(f, s \ {x})
    BY <1>1, <2>1, <2>2, SumChosen, Zenon
  <2>4. s \ {x} \in SUBSET S /\ s \ {x} # s /\ s \ {x} \subseteq s /\ x \in S
    BY <2>1, <2>3
  <2>5. SumFunctionOnSet(f, s \ {x}) \in Int
    BY <2>1, <2>4, Zenon
  <2>6. SumFunctionOnSet(f, s) \in Int
    BY <2>3, <2>4, <2>5
  <2> QED BY <2>1, <2>6
<1> QED BY <1>2, Zenon

(* Any element can be taken out.                                           *)
LEMMA SumRemove ==
  ASSUME NEW f, NEW S, IsFiniteSet(S), \A x \in S : f[x] \in Int
  PROVE  \A x \in S : SumFunctionOnSet(f, S) = f[x] + SumFunctionOnSet(f, S \ {x})
<1> DEFINE Any(s) == \A x \in s : SumFunctionOnSet(f, s) = f[x] + SumFunctionOnSet(f, s \ {x})
           U == {s \in SUBSET S : ~Any(s)}
<1>1. \A s \in SUBSET S : IsFiniteSet(s) /\ SumFunctionOnSet(f, s) \in Int
  <2>1. \A s \in SUBSET S : IsFiniteSet(s) /\ \A x \in s : f[x] \in Int
    BY FS_Subset
  <2> QED BY <2>1, SumInt, Zenon
<1>2. ASSUME U # {}
      PROVE  FALSE
  <2>1. PICK s \in U : \A t \in U : t \subseteq s => t = s
    <3>1. \A s \in U : IsFiniteSet(s)
      BY <1>1, Zenon
    <3> HIDE DEF U
    <3> QED BY <1>2, <3>1, SmallestSet
  <2>2. PICK x \in s : ~(SumFunctionOnSet(f, s) = f[x] + SumFunctionOnSet(f, s \ {x}))
    BY <2>1, Zenon
  <2>3. PICK c \in s : SumFunctionOnSet(f, s) = f[c] + SumFunctionOnSet(f, s \ {c})
    BY <1>1, <2>1, <2>2, SumChosen, Zenon
  <2>4. x # c
    BY <2>2, <2>3, Zenon
  <2>5. /\ s \ {c} \in SUBSET S /\ s \ {c} # s /\ s \ {c} \subseteq s /\ x \in s \ {c}
        /\ s \ {x} \in SUBSET S /\ s \ {x} # s /\ s \ {x} \subseteq s /\ c \in s \ {x}
        /\ (s \ {c}) \ {x} = (s \ {x}) \ {c} /\ (s \ {c}) \ {x} \in SUBSET S
    BY <2>1, <2>2, <2>3, <2>4
  <2>6. Any(s \ {c}) /\ Any(s \ {x})
    BY <2>1, <2>5, Zenon
  <2> DEFINE a == SumFunctionOnSet(f, s \ {c})
             b == SumFunctionOnSet(f, s \ {x})
             d == SumFunctionOnSet(f, (s \ {c}) \ {x})
  <2>7. a = f[x] + d /\ b = f[c] + d
    BY <2>5, <2>6, Zenon
  <2>8. a \in Int /\ b \in Int /\ d \in Int /\ f[x] \in Int /\ f[c] \in Int
    <3>1. x \in S /\ c \in S
      BY <2>1, <2>2, <2>3
    <3> QED BY <3>1, <1>1, <2>5, Zenon
  <2> HIDE DEF a, b, d
  <2>9. f[c] + a = f[x] + b
    BY <2>7, <2>8
  <2> QED BY <2>2, <2>3, <2>9, Zenon DEF a, b
<1>3. Any(S)
  BY <1>2, Zenon
<1> QED BY <1>3, Zenon

(* The sum over two parts of a set is the sum over the set.                *)
LEMMA SumSplit ==
  ASSUME NEW f, NEW S, IsFiniteSet(S), \A x \in S : f[x] \in Int, NEW T \in SUBSET S
  PROVE  SumFunctionOnSet(f, S) = SumFunctionOnSet(f, T) + SumFunctionOnSet(f, S \ T)
<1> DEFINE R == S \ T
           Split(s) == SumFunctionOnSet(f, R \cup s)
                         = SumFunctionOnSet(f, s) + SumFunctionOnSet(f, R)
           U == {s \in SUBSET T : ~Split(s)}
<1>1. \A s \in SUBSET S : /\ IsFiniteSet(s) /\ SumFunctionOnSet(f, s) \in Int
                          /\ \A x \in s : SumFunctionOnSet(f, s)
                                            = f[x] + SumFunctionOnSet(f, s \ {x})
  <2>1. \A s \in SUBSET S : IsFiniteSet(s) /\ \A x \in s : f[x] \in Int
    BY FS_Subset
  <2>2. \A s \in SUBSET S : SumFunctionOnSet(f, s) \in Int
    BY <2>1, SumInt, Zenon
  <2>3. \A s \in SUBSET S : \A x \in s :
          SumFunctionOnSet(f, s) = f[x] + SumFunctionOnSet(f, s \ {x})
    BY <2>1, SumRemove, Zenon
  <2> QED BY <2>1, <2>2, <2>3, Zenon
<1>2. R \in SUBSET S /\ R \cup {} = R /\ R \cup T = S
  OBVIOUS
<1>3. ASSUME U # {}
      PROVE  FALSE
  <2>1. PICK s \in U : \A t \in U : t \subseteq s => t = s
    <3>1. \A s \in U : IsFiniteSet(s)
      <4>1. \A s \in U : s \in SUBSET S
        OBVIOUS
      <4> QED BY <4>1, <1>1, Zenon
    <3> HIDE DEF U
    <3> QED BY <1>3, <3>1, SmallestSet
  <2>2. s # {}
    <3>1. SumFunctionOnSet(f, R) = 0 + SumFunctionOnSet(f, R)
      BY <1>1, <1>2
    <3>2. SumFunctionOnSet(f, {}) = 0
      BY SumEmpty, Zenon
    <3>3. Split({})
      BY <3>1, <3>2, <1>2, Zenon
    <3> QED BY <2>1, <3>3, Zenon
  <2>3. PICK x \in s : TRUE
    BY <2>2
  <2>4. /\ s \in SUBSET S /\ s \ {x} \in SUBSET S /\ s \ {x} \in SUBSET T
        /\ s \ {x} # s /\ s \ {x} \subseteq s /\ x \in S
        /\ R \cup s \in SUBSET S /\ x \in R \cup s /\ (R \cup s) \ {x} = R \cup (s \ {x})
    BY <2>1, <2>3
  <2>5. Split(s \ {x})
    BY <2>1, <2>4, Zenon
  <2> DEFINE a == SumFunctionOnSet(f, R \cup s)
             b == SumFunctionOnSet(f, s)
             r == SumFunctionOnSet(f, R)
             y == SumFunctionOnSet(f, s \ {x})
             z == SumFunctionOnSet(f, R \cup (s \ {x}))
  <2>6. a = f[x] + z /\ b = f[x] + y /\ z = y + r
    BY <1>1, <2>3, <2>4, <2>5, Zenon
  <2>7. f[x] \in Int /\ r \in Int /\ y \in Int
    BY <1>1, <1>2, <2>4, Zenon
  <2> HIDE DEF a, b, r, y, z
  <2>8. a = b + r
    BY <2>6, <2>7
  <2>9. Split(s)
    BY <2>8, Zenon DEF a, b, r
  <2> QED BY <2>1, <2>9, Zenon
<1>4. Split(T)
  BY <1>3, Zenon
<1> QED BY <1>2, <1>4, Zenon

(* A sum is no more than another that has no smaller terms.                *)
LEMMA SumMonotone ==
  ASSUME NEW f, NEW g, NEW S, IsFiniteSet(S),
         \A x \in S : f[x] \in Int /\ g[x] \in Int /\ f[x] <= g[x]
  PROVE  SumFunctionOnSet(f, S) <= SumFunctionOnSet(g, S)
<1> DEFINE Le(s) == SumFunctionOnSet(f, s) <= SumFunctionOnSet(g, s)
           U == {s \in SUBSET S : ~Le(s)}
<1>1. \A s \in SUBSET S : IsFiniteSet(s) /\ \A x \in s : f[x] \in Int /\ g[x] \in Int
  BY FS_Subset
<1>2. \A s \in SUBSET S : SumFunctionOnSet(f, s) \in Int /\ SumFunctionOnSet(g, s) \in Int
  BY <1>1, SumInt, Zenon
<1>3. \A s \in SUBSET S : \A x \in s :
          /\ SumFunctionOnSet(f, s) = f[x] + SumFunctionOnSet(f, s \ {x})
          /\ SumFunctionOnSet(g, s) = g[x] + SumFunctionOnSet(g, s \ {x})
  <2>1. \A s \in SUBSET S : \A x \in s : f[x] \in Int
    BY <1>1, Zenon
  <2>2. \A s \in SUBSET S : \A x \in s : g[x] \in Int
    BY <1>1, Zenon
  <2>3. \A s \in SUBSET S : \A x \in s :
          SumFunctionOnSet(f, s) = f[x] + SumFunctionOnSet(f, s \ {x})
    BY <1>1, <2>1, SumRemove, Zenon
  <2>4. \A s \in SUBSET S : \A x \in s :
          SumFunctionOnSet(g, s) = g[x] + SumFunctionOnSet(g, s \ {x})
    BY <1>1, <2>2, SumRemove, Zenon
  <2> QED BY <2>3, <2>4, Zenon
<1>4. ASSUME U # {}
      PROVE  FALSE
  <2>1. PICK s \in U : \A t \in U : t \subseteq s => t = s
    <3>1. \A s \in U : IsFiniteSet(s)
      BY <1>1, Zenon
    <3> HIDE DEF U
    <3> QED BY <1>4, <3>1, SmallestSet
  <2>2. s # {}
    <3>1. SumFunctionOnSet(f, {}) = 0 /\ SumFunctionOnSet(g, {}) = 0
      BY SumEmpty, Zenon
    <3>2. Le({})
      BY <3>1
    <3> QED BY <2>1, <3>2, Zenon
  <2>3. PICK x \in s : TRUE
    BY <2>2
  <2>4. /\ s \in SUBSET S /\ s \ {x} \in SUBSET S
        /\ s \ {x} # s /\ s \ {x} \subseteq s /\ x \in S
    BY <2>1, <2>3
  <2>5. Le(s \ {x})
    BY <2>1, <2>4, Zenon
  <2> DEFINE a == SumFunctionOnSet(f, s)
             b == SumFunctionOnSet(g, s)
             y == SumFunctionOnSet(f, s \ {x})
             z == SumFunctionOnSet(g, s \ {x})
  <2>6. a = f[x] + y /\ b = g[x] + z /\ y <= z
    BY <1>3, <2>3, <2>4, <2>5, Zenon
  <2>7. f[x] \in Int /\ g[x] \in Int /\ f[x] <= g[x] /\ y \in Int /\ z \in Int
    BY <1>2, <2>4, Zenon
  <2> HIDE DEF a, b, y, z
  <2>8. a <= b
    BY <2>6, <2>7
  <2>9. Le(s)
    BY <2>8, Zenon DEF a, b
  <2> QED BY <2>1, <2>9, Zenon
<1>5. Le(S)
  BY <1>4, Zenon
<1> QED BY <1>5, Zenon

(* Sums of the same terms are equal.                                       *)
LEMMA SumSame ==
  ASSUME NEW f, NEW g, NEW S, IsFiniteSet(S), \A x \in S : f[x] \in Int /\ f[x] = g[x]
  PROVE  SumFunctionOnSet(f, S) = SumFunctionOnSet(g, S)
<1>1. \A x \in S : f[x] \in Int /\ g[x] \in Int /\ f[x] <= g[x] /\ g[x] <= f[x]
  OBVIOUS
<1>2. SumFunctionOnSet(f, S) <= SumFunctionOnSet(g, S)
  BY <1>1, SumMonotone
<1>3. SumFunctionOnSet(g, S) <= SumFunctionOnSet(f, S)
  BY <1>1, SumMonotone
<1>4. SumFunctionOnSet(f, S) \in Int /\ SumFunctionOnSet(g, S) \in Int
  BY <1>1, SumInt, Zenon
<1> QED BY <1>2, <1>3, <1>4

(* The sum of nothing but zeros.                                           *)
LEMMA SumZero ==
  ASSUME NEW f, NEW S, IsFiniteSet(S), \A x \in S : f[x] = 0
  PROVE  SumFunctionOnSet(f, S) = 0
<1> DEFINE U == {s \in SUBSET S : SumFunctionOnSet(f, s) # 0}
<1>1. \A s \in SUBSET S : IsFiniteSet(s) /\ \A x \in s : f[x] \in Int
  BY FS_Subset
<1>3. \A s \in SUBSET S : \A x \in s :
          SumFunctionOnSet(f, s) = f[x] + SumFunctionOnSet(f, s \ {x})
  BY <1>1, SumRemove, Zenon
<1>4. ASSUME U # {}
      PROVE  FALSE
  <2>1. PICK s \in U : \A t \in U : t \subseteq s => t = s
    <3>1. \A s \in U : IsFiniteSet(s)
      BY <1>1, Zenon
    <3> HIDE DEF U
    <3> QED BY <1>4, <3>1, SmallestSet
  <2>2. s # {}
    BY <2>1, SumEmpty, Zenon
  <2>3. PICK x \in s : TRUE
    BY <2>2
  <2>4. /\ s \in SUBSET S /\ s \ {x} \in SUBSET S
        /\ s \ {x} # s /\ s \ {x} \subseteq s /\ f[x] = 0
    BY <2>1, <2>3
  <2>5. SumFunctionOnSet(f, s \ {x}) = 0
    BY <2>1, <2>4, Zenon
  <2>6. SumFunctionOnSet(f, s) = 0 + 0
    BY <1>3, <2>3, <2>4, <2>5, Zenon
  <2>7. SumFunctionOnSet(f, s) = 0
    BY <2>6
  <2> QED BY <2>1, <2>7, Zenon
<1> QED BY <1>4, Zenon

(* n times m grows with n.                                                 *)
LEMMA TimesMore ==
  \A n \in Nat, m \in Int : (n + 1) * m = n * m + m
OBVIOUS

(* A longer multiple is larger.                                            *)
LEMMA TimesOrder ==
  \A i, j \in Nat, m \in Nat : i <= j => i * m <= j * m /\ i * m \in Nat
OBVIOUS

(* A sum of terms that are at most m.                                      *)
LEMMA SumAtMost ==
  ASSUME NEW f, NEW S, IsFiniteSet(S), NEW m \in Int,
         \A x \in S : f[x] \in Int /\ f[x] <= m
  PROVE  SumFunctionOnSet(f, S) <= Cardinality(S) * m
<1> DEFINE Le(s) == SumFunctionOnSet(f, s) <= Cardinality(s) * m
           U == {s \in SUBSET S : ~Le(s)}
<1>1. \A s \in SUBSET S : IsFiniteSet(s) /\ \A x \in s : f[x] \in Int
  BY FS_Subset
<1>2. \A s \in SUBSET S : SumFunctionOnSet(f, s) \in Int
  BY <1>1, SumInt, Zenon
<1>3. \A s \in SUBSET S : \A x \in s :
          SumFunctionOnSet(f, s) = f[x] + SumFunctionOnSet(f, s \ {x})
  BY <1>1, SumRemove, Zenon
<1>4. ASSUME U # {}
      PROVE  FALSE
  <2>1. PICK s \in U : \A t \in U : t \subseteq s => t = s
    <3>1. \A s \in U : IsFiniteSet(s)
      BY <1>1, Zenon
    <3> HIDE DEF U
    <3> QED BY <1>4, <3>1, SmallestSet
  <2>2. s # {}
    <3>1. SumFunctionOnSet(f, {}) = 0 /\ Cardinality({}) = 0
      BY SumEmpty, FS_EmptySet, Zenon
    <3>2. Le({})
      BY <3>1
    <3> QED BY <2>1, <3>2, Zenon
  <2>3. PICK x \in s : TRUE
    BY <2>2
  <2>4. /\ s \in SUBSET S /\ s \ {x} \in SUBSET S
        /\ s \ {x} # s /\ s \ {x} \subseteq s /\ x \in S
    BY <2>1, <2>3
  <2>5. Le(s \ {x})
    BY <2>1, <2>4, Zenon
  <2>6. /\ Cardinality(s) \in Nat /\ Cardinality(s \ {x}) \in Nat
        /\ Cardinality(s \ {x}) = Cardinality(s) - 1
    BY <1>1, <2>3, <2>4, FS_RemoveElement, FS_CardinalityType, Zenon
  <2> DEFINE a == SumFunctionOnSet(f, s)
             y == SumFunctionOnSet(f, s \ {x})
             c == Cardinality(s)
             d == Cardinality(s \ {x})
  <2>7. a = f[x] + y /\ y <= d * m /\ f[x] <= m /\ f[x] \in Int /\ y \in Int /\ a \in Int
    BY <1>2, <1>3, <2>3, <2>4, <2>5, Zenon
  <2>8. c * m = d * m + m
    <3> HIDE DEF c, d
    <3>1. c = d + 1 /\ d \in Nat
      BY <2>6 DEF c, d
    <3> QED BY <3>1, TimesMore
  <2>9. d * m \in Int
    BY <2>6
  <2> HIDE DEF a, y, c, d
  <2>10. a <= c * m
    <3> DEFINE p == c * m
               q == d * m
    <3>1. p = q + m /\ q \in Int /\ y <= q
      BY <2>7, <2>8, <2>9
    <3> HIDE DEF p, q
    <3>2. a <= p
      BY <3>1, <2>7
    <3> QED BY <3>2 DEF p
  <2>11. Le(s)
    BY <2>10, Zenon DEF a, c
  <2> QED BY <2>1, <2>11, Zenon
<1>5. Le(S)
  BY <1>4, Zenon
<1> QED BY <1>5, Zenon

(* A sum of terms that are at least m.                                     *)
LEMMA SumAtLeast ==
  ASSUME NEW f, NEW S, IsFiniteSet(S), NEW m \in Int,
         \A x \in S : f[x] \in Int /\ f[x] >= m
  PROVE  SumFunctionOnSet(f, S) >= Cardinality(S) * m
<1> DEFINE Ge(s) == SumFunctionOnSet(f, s) >= Cardinality(s) * m
           U == {s \in SUBSET S : ~Ge(s)}
<1>1. \A s \in SUBSET S : IsFiniteSet(s) /\ \A x \in s : f[x] \in Int
  BY FS_Subset
<1>2. \A s \in SUBSET S : SumFunctionOnSet(f, s) \in Int
  BY <1>1, SumInt, Zenon
<1>3. \A s \in SUBSET S : \A x \in s :
          SumFunctionOnSet(f, s) = f[x] + SumFunctionOnSet(f, s \ {x})
  BY <1>1, SumRemove, Zenon
<1>4. ASSUME U # {}
      PROVE  FALSE
  <2>1. PICK s \in U : \A t \in U : t \subseteq s => t = s
    <3>1. \A s \in U : IsFiniteSet(s)
      BY <1>1, Zenon
    <3> HIDE DEF U
    <3> QED BY <1>4, <3>1, SmallestSet
  <2>2. s # {}
    <3>1. SumFunctionOnSet(f, {}) = 0 /\ Cardinality({}) = 0
      BY SumEmpty, FS_EmptySet, Zenon
    <3>2. Ge({})
      BY <3>1
    <3> QED BY <2>1, <3>2, Zenon
  <2>3. PICK x \in s : TRUE
    BY <2>2
  <2>4. /\ s \in SUBSET S /\ s \ {x} \in SUBSET S
        /\ s \ {x} # s /\ s \ {x} \subseteq s /\ x \in S
    BY <2>1, <2>3
  <2>5. Ge(s \ {x})
    BY <2>1, <2>4, Zenon
  <2>6. /\ Cardinality(s) \in Nat /\ Cardinality(s \ {x}) \in Nat
        /\ Cardinality(s \ {x}) = Cardinality(s) - 1
    BY <1>1, <2>3, <2>4, FS_RemoveElement, FS_CardinalityType, Zenon
  <2> DEFINE a == SumFunctionOnSet(f, s)
             y == SumFunctionOnSet(f, s \ {x})
             c == Cardinality(s)
             d == Cardinality(s \ {x})
  <2>7. a = f[x] + y /\ y >= d * m /\ f[x] >= m /\ f[x] \in Int /\ y \in Int /\ a \in Int
    BY <1>2, <1>3, <2>3, <2>4, <2>5, Zenon
  <2>8. c * m = d * m + m
    <3> HIDE DEF c, d
    <3>1. c = d + 1 /\ d \in Nat
      BY <2>6 DEF c, d
    <3> QED BY <3>1, TimesMore
  <2>9. d * m \in Int
    BY <2>6
  <2> HIDE DEF a, y, c, d
  <2>10. a >= c * m
    <3> DEFINE p == c * m
               q == d * m
    <3>1. p = q + m /\ q \in Int /\ y >= q
      BY <2>7, <2>8, <2>9
    <3> HIDE DEF p, q
    <3>2. a >= p
      BY <3>1, <2>7
    <3> QED BY <3>2 DEF p
  <2>11. Ge(s)
    BY <2>10, Zenon DEF a, c
  <2> QED BY <2>1, <2>11, Zenon
<1>5. Ge(S)
  BY <1>4, Zenon
<1> QED BY <1>5, Zenon

(* Sums of terms that are not negative, or not positive.                   *)
LEMMA SumSigns ==
  ASSUME NEW f, NEW S, IsFiniteSet(S), \A x \in S : f[x] \in Int
  PROVE  /\ (\A x \in S : f[x] >= 0) => SumFunctionOnSet(f, S) >= 0
         /\ (\A x \in S : f[x] <= 0) => SumFunctionOnSet(f, S) <= 0
<1> DEFINE n == Cardinality(S)
<1>1. n \in Nat /\ 0 \in Int
  BY FS_CardinalityType
<1>2. n * 0 = 0
  BY <1>1
<1>3. ASSUME \A x \in S : f[x] >= 0
      PROVE  SumFunctionOnSet(f, S) >= n * 0
  <2>1. \A x \in S : f[x] \in Int /\ f[x] >= 0
    BY <1>3
  <2> QED BY <2>1, <1>1, SumAtLeast, Zenon
<1>4. ASSUME \A x \in S : f[x] <= 0
      PROVE  SumFunctionOnSet(f, S) <= n * 0
  <2>1. \A x \in S : f[x] \in Int /\ f[x] <= 0
    BY <1>4
  <2> QED BY <2>1, <1>1, SumAtMost, Zenon
<1> HIDE DEF n
<1> QED BY <1>2, <1>3, <1>4, Zenon

-----------------------------------------------------------------------------
(* The engine: its state between and within the ticks of a prediction.     *)
Q8_8 == (-SigMax - 1)..SigMax
Acts == [source : {External}, target : Contexts]

(* What may be pending: in the first tick activations, which are due, and  *)
(* the votes they bring about, and in the second tick those votes.         *)
PendingNow(ticks, now) ==
  IF ticks = 3 THEN [id : 1..Cap, key : Acts, due : {now}, sig : Q8_8]
                    \cup [id : 1..Cap, key : Edges, due : {now + 1}, sig : Q8_8]
  ELSE IF ticks = 2 THEN [id : 1..Cap, key : Edges, due : {now}, sig : Q8_8]
  ELSE {}

RunInv ==
  /\ tick \in Nat /\ phase \in {"between", "drain", "fire"}
  /\ run \in [todo : SUBSET Contexts, ticks : 0..3]
  /\ run.todo # {} => run.ticks = 3 /\ phase = "between"
  /\ phase # "between" => run.ticks > 0
  /\ sending # {} => phase = "fire" /\ run.ticks = 3

(* Before its turn in a prediction comes a context has rested long enough. *)
RestInv ==
  /\ lastFired \in [Nodes -> Int]
  /\ \A n \in Nodes : lastFired[n] \in -Refractory..tick
  /\ \A c \in Contexts :
       /\ run.ticks < 3 => lastFired[c] + Refractory <= tick + run.ticks
       /\ run.ticks = 3 => \/ lastFired[c] = tick /\ phase # "between"
                           \/ lastFired[c] + Refractory <= tick

EngineInv ==
  /\ RunInv /\ RestInv
  /\ queue \subseteq PendingNow(run.ticks, tick)
  /\ charge \in [Nodes -> Q8_8]
  /\ active \subseteq Nodes /\ sending \subseteq DOMAIN weight
  /\ calls \in 0..MaxCalls

(* A probe and what it found.                                              *)
Probes == [edge : Edges, by : -DeltaCap..DeltaCap]
Bests == [edge : Edges \cup {NoEdge}, share : Int \X Int]
Jobs == [kind : {"none", "plain", "fixed", "escalate"}, k : 0..Order, gold : {0} \cup Tokens,
         delta : 0..DeltaCap, round : 0..EscRounds, probes : Seq(Probes),
         probed : Probes \cup {NoProbe}, save : Int, up : Bests, down : Bests]

InBounds(w) == DOMAIN w \subseteq Edges /\ w \in [DOMAIN w -> WMin..WMax]
Found(best, w) == best.edge = NoEdge \/ best.edge \in DOMAIN w

(* A job j for the weights w, but for a probe that is going on.            *)
Fitting(j, w) ==
  /\ j \in Jobs
  /\ \A i \in DOMAIN j.probes : j.probes[i].edge \in DOMAIN w
  /\ Found(j.up, w) /\ Found(j.down, w)
  /\ j.gold # 0 => GoldEdge(j) \in DOMAIN w
  /\ j.kind \in {"fixed", "escalate"} => j.gold # 0
  /\ j.kind = "escalate" => j.round < EscRounds

(* The weights without the probe that is going on.                         *)
Base == IF job.probed = NoProbe THEN weight ELSE Restored

JobInv ==
  /\ Fitting(job, weight)
  /\ weight \in [DOMAIN weight -> Q8_8] /\ DOMAIN weight \subseteq Edges
  /\ job.probed = NoProbe => InBounds(weight)
  /\ job.probed # NoProbe => /\ job.probed.edge \in DOMAIN weight
                             /\ InBounds(Restored)
                             /\ job.kind \in {"fixed", "escalate"}
  /\ job.kind = "none" => run = NoRun

PredictInv == EngineInv /\ JobInv

(* What the assumptions say of each constant.                              *)
LEMMA Sizes ==
  /\ Order \in Nat \ {0} /\ Vocab \in Nat \ {0} /\ Cap \in Nat \ {0}
  /\ ActiveCap \in Nat \ {0} /\ Leak \in Nat \ {0} /\ MaxCand \in Nat \ {0}
  /\ SigMax \in Nat /\ DeltaCap \in Nat /\ MaxCalls \in Nat
  /\ One \in 1..SigMax /\ Delta \in 0..DeltaCap
  /\ WMin \in -SigMax..SigMax /\ WMax \in WMin..SigMax
  /\ W0 \in WMin..WMax /\ Weights \subseteq WMin..WMax
  /\ Refractory \in 0..3 /\ EscRounds \in Nat \ {0}
BY GraphAssumption, SignalAssumption, RestAssumption, RoundsAssumption

(* A saturating sum is one, and the sum itself unless that is too large.   *)
LEMMA SatAddRange ==
  ASSUME NEW a \in Int, NEW b \in Int
  PROVE  /\ Bag!SatAdd(a, b) \in Q8_8
         /\ a + b \in Q8_8 => Bag!SatAdd(a, b) = a + b
BY Sizes DEF Bag!SatAdd, Q8_8

(* Leaking moves a charge towards zero.                                    *)
LEMMA LeakedRange ==
  ASSUME NEW v \in Q8_8
  PROVE  Leaked(v) \in Q8_8
<1>1. v \in Int /\ Leak \in Nat \ {0} /\ SigMax \in Nat
  BY Sizes DEF Q8_8
<1>2. /\ v \div Leak \in Int
      /\ v >= 0 => v \div Leak >= 0 /\ v \div Leak <= v
      /\ v < 0 => v \div Leak < 0 /\ v \div Leak >= v
  BY <1>1
<1> QED BY <1>1, <1>2 DEF Leaked, Q8_8

(* Contexts and tokens are different nodes, and an edge leads from one     *)
(* to the other.                                                           *)
LEMMA KindsOfNodes ==
  /\ Contexts \subseteq Nat \ {0} /\ Tokens \subseteq Nat \ {0} /\ Contexts \cap Tokens = {}
  /\ Nodes = Contexts \cup Tokens /\ External = 0
  /\ NoEdge \notin Edges
  /\ \A e \in Edges : e.source \in Contexts /\ e.target \in Tokens
  /\ \A a \in Acts : a.source = External /\ a.target \in Contexts /\ a \notin Edges
<1>1. External \notin Contexts
  BY Sizes DEF External, Contexts
<1> QED BY <1>1, Sizes DEF Contexts, Tokens, Nodes, External, NoEdge, Edges, Acts

(* Of some contexts, Min is one.                                           *)
LEMMA MinContext ==
  ASSUME NEW T, T \subseteq Contexts, T # {}
  PROVE  Min(T) \in T
<1>1. T \subseteq Nat
  BY KindsOfNodes
<1> QED BY <1>1, LeastNat, Zenon DEF Min

(* A prediction starts with nothing pending.                               *)
LEMMA StartInv ==
  ASSUME EngineInv, run = NoRun, NEW k, NEW w, StartPredict(k, w), calls' \in 0..MaxCalls,
         DOMAIN w \subseteq Edges
  PROVE  EngineInv'
<1> DEFINE todo == Built(w) \cap 1..k
<1>1. run.todo = {} /\ run.ticks = 0
  BY DEF NoRun
<1>2. phase = "between" /\ sending = {} /\ tick \in Nat
  BY <1>1 DEF EngineInv, RunInv
<1>3. todo \subseteq Contexts
  BY KindsOfNodes DEF Built
<1>4. /\ run' = [todo |-> todo, ticks |-> IF todo = {} THEN 0 ELSE 3]
      /\ charge' = [n \in Nodes |-> 0] /\ queue' = {} /\ active' = {}
      /\ tick' = tick /\ phase' = phase /\ lastFired' = lastFired /\ sending' = sending
  BY DEF StartPredict, ResetCharges
<1> HIDE DEF todo
<1>5. run'.todo = todo /\ run'.ticks \in {0, 3} /\ (run'.ticks = 0 <=> todo = {})
  BY <1>4
<1>6. RunInv'
  <2>1. run' \in [todo : SUBSET Contexts, ticks : 0..3]
    BY <1>3, <1>4
  <2> QED BY <1>2, <1>4, <1>5, <2>1 DEF RunInv
<1>7. RestInv'
  <2>1. \A c \in Contexts : lastFired[c] + Refractory <= tick
    BY <1>1, <1>2 DEF EngineInv, RestInv
  <2>2. lastFired \in [Nodes -> Int] /\ \A n \in Nodes : lastFired[n] \in -Refractory..tick
    BY DEF EngineInv, RestInv
  <2> QED BY <1>2, <1>4, <1>5, <2>1, <2>2 DEF RestInv
<1>8. charge' \in [Nodes -> Q8_8]
  BY <1>4, Sizes DEF Q8_8
<1> QED BY <1>2, <1>4, <1>6, <1>7, <1>8 DEF EngineInv

(* The invariant is kept by each of the steps of the engine.               *)
LEMMA BeginTickInv ==
  ASSUME EngineInv, BeginTick
  PROVE  EngineInv'
<1>1. /\ run.ticks > 0 /\ run.todo = {} /\ phase' = "drain" /\ active' = {}
      /\ UNCHANGED <<tick, queue, charge, lastFired, sending, weight, run, calls>>
  BY DEF BeginTick, Bag!BeginTick
<1>2. phase = "between"
  BY DEF BeginTick, Bag!BeginTick
<1>3. RunInv' /\ RestInv'
  BY <1>1, <1>2 DEF EngineInv, RunInv, RestInv
<1>4. queue' \subseteq PendingNow(run'.ticks, tick')
  BY <1>1, Zenon DEF EngineInv
<1> QED BY <1>1, <1>3, <1>4 DEF EngineInv

(* A push adds at most the event that is pushed.                           *)
LEMMA PushEffect ==
  ASSUME queue \subseteq PendingNow(run.ticks, tick), NEW key, NEW due, NEW sig,
         Bag!Push(key, due, sig)
  PROVE  queue' \subseteq queue \cup [id : 1..Cap, key : {key}, due : {due}, sig : {sig}]
<1>1. CASE Bag!Refuse(due, sig)
  BY <1>1 DEF Bag!Refuse
<1>2. CASE Bag!Insert(key, due, sig)
  <2>1. PICK id \in 1..Cap :
          queue' = queue \cup {[id |-> id, key |-> key, due |-> due, sig |-> sig]}
    BY <1>2, Zenon DEF Bag!Insert, Bag!Ids
  <2> QED BY <2>1
<1>3. CASE Bag!Evict(key, due, sig)
  <2>1. PICK w \in queue :
          queue' = (queue \ {w}) \cup
                     {[id |-> w.id, key |-> key, due |-> due, sig |-> sig]}
    BY <1>3, Zenon DEF Bag!Evict
  <2>2. w.id \in 1..Cap
    BY DEF PendingNow
  <2> QED BY <2>1, <2>2
<1> QED BY <1>1, <1>2, <1>3 DEF Bag!Push

(* Activating a context keeps it.                                          *)
LEMMA ActivateInv ==
  ASSUME EngineInv, Activate
  PROVE  EngineInv'
<1> DEFINE c == Min(run.todo)
           key == [source |-> External, target |-> c]
<1>1. run.todo # {} /\ run.todo \subseteq Contexts /\ run.ticks = 3 /\ phase = "between"
  BY DEF Activate, EngineInv, RunInv
<1>2. c \in run.todo
  BY <1>1, MinContext, Zenon
<1>3. /\ Bag!Push(key, tick, One) /\ run' = [run EXCEPT !.todo = @ \ {c}]
      /\ UNCHANGED <<tick, phase, charge, lastFired, active, sending, weight, calls>>
  BY DEF Activate, Bag!Activate
<1> HIDE DEF c
<1>4. run'.ticks = 3 /\ run'.todo \subseteq run.todo
      /\ run' \in [todo : SUBSET Contexts, ticks : 0..3]
  BY <1>1, <1>3 DEF EngineInv, RunInv
<1>5. RunInv' /\ RestInv'
  BY <1>1, <1>3, <1>4 DEF EngineInv, RunInv, RestInv
<1>6. queue' \subseteq queue \cup [id : 1..Cap, key : {key}, due : {tick}, sig : {One}]
  BY <1>3, PushEffect, Zenon DEF EngineInv
<1>7. key \in Acts /\ One \in Q8_8
  BY <1>1, <1>2, Sizes DEF Acts, Q8_8
<1>8. queue' \subseteq PendingNow(run'.ticks, tick')
  <2>1. queue \subseteq PendingNow(3, tick)
    BY <1>1 DEF EngineInv
  <2> HIDE DEF key
  <2>2. [id : 1..Cap, key : {key}, due : {tick}, sig : {One}] \subseteq PendingNow(3, tick)
    BY <1>7 DEF PendingNow
  <2>3. queue' \subseteq PendingNow(3, tick)
    BY <1>6, <2>1, <2>2, Zenon
  <2> QED BY <1>3, <1>4, <2>3
<1> QED BY <1>3, <1>5, <1>8 DEF EngineInv

(* Some edge is the first to send.                                         *)
FirstOf(es) == CHOOSE e \in es : \A f \in es : e.target <= f.target

(* Of the edges that have yet to send, the first is one.                   *)
LEMMA FirstSends ==
  ASSUME NEW es, es \subseteq Edges, es # {}
  PROVE  FirstOf(es) \in es
<1> DEFINE I == {e.target : e \in es}
<1>1. I \subseteq Nat /\ I # {}
  BY KindsOfNodes
<1>2. PICK x \in I : \A y \in I : x <= y
  BY <1>1, LeastNat, Zenon
<1>3. PICK e \in es : x = e.target
  OBVIOUS
<1>4. \A f \in es : e.target <= f.target
  BY <1>2, <1>3
<1> QED BY <1>3, <1>4, Zenon DEF FirstOf

(* An emission is a push, unless it merges with a vote of the same edge.   *)
LEMMA EmitEffect ==
  ASSUME EngineInv, run.ticks = 3, NEW e \in Edges, NEW sig \in Q8_8, Bag!Emit(e, 1, sig)
  PROVE  queue' \subseteq PendingNow(3, tick)
<1>1. queue \subseteq PendingNow(3, tick) /\ tick \in Nat
  BY DEF EngineInv, RunInv
<1>2. CASE Bag!Merge(e, tick + 1, sig)
  <2>1. PICK ev \in queue : /\ Bag!Mergeable(ev, e, tick + 1)
                            /\ queue' = (queue \ {ev}) \cup {Bag!Combine(ev, tick + 1, sig)}
    BY <1>2, Zenon DEF Bag!Merge
  <2>2. ev.key = e /\ ev \in PendingNow(3, tick)
    BY <1>1, <2>1, Zenon DEF Bag!Mergeable
  <2>3. ev \in [id : 1..Cap, key : Edges, due : {tick + 1}, sig : Q8_8]
    BY <2>2, KindsOfNodes DEF PendingNow
  <2>4. Bag!SatAdd(ev.sig, sig) \in Q8_8
    <3>1. ev.sig \in Int /\ sig \in Int
      BY <2>3, Sizes DEF Q8_8
    <3> QED BY <3>1, SatAddRange, Zenon
  <2>5. Bag!Combine(ev, tick + 1, sig) =
          [ev EXCEPT !.sig = Bag!SatAdd(ev.sig, sig),
                     !.due = IF tick + 1 < ev.due THEN tick + 1 ELSE ev.due]
    BY Zenon DEF Bag!Combine
  <2>6. Bag!Combine(ev, tick + 1, sig) \in [id : 1..Cap, key : Edges, due : {tick + 1}, sig : Q8_8]
    BY <2>3, <2>4, <2>5, <1>1
  <2> QED BY <1>1, <2>1, <2>6 DEF PendingNow
<1>3. CASE Bag!Push(e, tick + 1, sig)
  <2>1. queue' \subseteq queue \cup [id : 1..Cap, key : {e}, due : {tick + 1}, sig : {sig}]
    BY <1>3, PushEffect, Zenon DEF EngineInv
  <2>2. [id : 1..Cap, key : {e}, due : {tick + 1}, sig : {sig}] \subseteq PendingNow(3, tick)
    BY DEF PendingNow
  <2> QED BY <1>1, <2>1, <2>2, Zenon
<1> QED BY <1>2, <1>3 DEF Bag!Emit

(* A turn of the sending loop emits at most the weight of one edge.        *)
LEMMA SendEffect ==
  ASSUME EngineInv, JobInv, Send
  PROVE  /\ FirstOf(sending) \in sending /\ sending \subseteq DOMAIN weight
         /\ DOMAIN weight \subseteq Edges /\ run.ticks = 3 /\ phase = "fire"
         /\ IF weight[FirstOf(sending)] = 0 THEN UNCHANGED bagVars
            ELSE Bag!Emit(FirstOf(sending), 1, weight[FirstOf(sending)])
         /\ sending' = sending \ {FirstOf(sending)}
         /\ UNCHANGED <<tick, phase, charge, lastFired, active, weight, run, job, calls, before>>
<1>1. sending # {} /\ sending \subseteq DOMAIN weight /\ DOMAIN weight \subseteq Edges
  BY DEF EngineInv, JobInv, Send
<1>2. run.ticks = 3 /\ phase = "fire"
  BY <1>1 DEF EngineInv, RunInv
<1>3. FirstOf(sending) \in sending
  BY <1>1, FirstSends, Zenon
<1>4. /\ IF weight[FirstOf(sending)] = 0 THEN UNCHANGED bagVars
         ELSE Bag!Emit(FirstOf(sending), 1, weight[FirstOf(sending)])
      /\ sending' = sending \ {FirstOf(sending)}
      /\ UNCHANGED <<charge, lastFired, active, weight, run, job, calls, before>>
  BY Zenon DEF Send, FirstOf
<1>5. UNCHANGED <<tick, phase>>
  BY <1>4, Zenon DEF Bag!Emit, bagVars
<1> QED BY <1>1, <1>2, <1>3, <1>4, <1>5, Zenon

(* Sending keeps the invariant.                                            *)
LEMMA SendInv ==
  ASSUME EngineInv, JobInv, Send
  PROVE  EngineInv'
<1> DEFINE e == FirstOf(sending)
<1>1. /\ e \in sending /\ sending \subseteq DOMAIN weight
      /\ DOMAIN weight \subseteq Edges /\ run.ticks = 3 /\ phase = "fire"
      /\ IF weight[e] = 0 THEN UNCHANGED bagVars ELSE Bag!Emit(e, 1, weight[e])
      /\ sending' = sending \ {e}
      /\ UNCHANGED <<tick, phase, charge, lastFired, active, weight, run, calls>>
  BY SendEffect, Zenon
<1> HIDE DEF e
<1>2. e \in Edges /\ weight[e] \in Q8_8
  BY <1>1 DEF JobInv
<1>3. queue' \subseteq PendingNow(3, tick)
  <2>1. CASE weight[e] = 0
    <3>1. queue' = queue
      BY <1>1, <2>1 DEF bagVars
    <3> QED BY <3>1, <1>1 DEF EngineInv
  <2>2. CASE weight[e] # 0
    BY <1>1, <1>2, <2>2, EmitEffect
  <2> QED BY <2>1, <2>2
<1>4. RunInv' /\ RestInv'
  BY <1>1 DEF EngineInv, RunInv, RestInv
<1>5. queue' \subseteq PendingNow(run'.ticks, tick')
  BY <1>1, <1>3
<1>6. sending' \subseteq DOMAIN weight'
  BY <1>1
<1> QED BY <1>1, <1>4, <1>5, <1>6 DEF EngineInv

(* What is delivered is an activation in the first tick of a prediction,   *)
(* or a vote in the second.                                                *)
LEMMA Deliverable ==
  ASSUME EngineInv, NEW ev \in queue, Deliver(ev)
  PROVE  /\ phase \in {"drain", "fire"} /\ ev.due = tick /\ phase' = "fire"
         /\ queue' = queue \ {ev} /\ sending = {} /\ run.todo = {}
         /\ ev.sig \in Q8_8 /\ ev.key.target \in Nodes /\ tick \in Nat
         /\ \/ run.ticks = 3 /\ ev.key \in Acts
            \/ run.ticks = 2 /\ ev.key \in Edges
<1>1. /\ phase \in {"drain", "fire"} /\ ev.due <= tick /\ queue' = queue \ {ev}
      /\ phase' = (IF Bag!Stale(ev.due, tick) THEN phase ELSE "fire") /\ sending = {}
  BY DEF Deliver, Bag!Deliver
<1>2. tick \in Nat /\ run.ticks \in 0..3 /\ run.todo = {}
  BY <1>1 DEF EngineInv, RunInv
<1>3. ev \in PendingNow(run.ticks, tick)
  BY DEF EngineInv
<1>4. /\ ev.due = tick /\ ev.sig \in Q8_8
      /\ \/ run.ticks = 3 /\ ev.key \in Acts
         \/ run.ticks = 2 /\ ev.key \in Edges
  BY <1>1, <1>2, <1>3 DEF PendingNow
<1>5. phase' = "fire"
  BY <1>1, <1>2, <1>4 DEF Bag!Stale
<1>6. ev.key.target \in Nodes
  BY <1>4, KindsOfNodes
<1> QED BY <1>1, <1>2, <1>4, <1>5, <1>6

(* Delivering keeps the invariant.                                         *)
LEMMA DeliverInv ==
  ASSUME EngineInv, JobInv, NEW ev \in queue, Deliver(ev)
  PROVE  EngineInv'
<1> DEFINE n == ev.key.target
           v == Bag!SatAdd(charge[n], ev.sig)
           fires == ~RefractoryActive(n) /\ v >= Theta(n)
<1>1. /\ phase \in {"drain", "fire"} /\ phase' = "fire"
      /\ queue' = queue \ {ev} /\ run.todo = {} /\ tick \in Nat
      /\ ev.sig \in Q8_8 /\ n \in Nodes
      /\ \/ run.ticks = 3 /\ ev.key \in Acts
         \/ run.ticks = 2 /\ ev.key \in Edges
  BY Deliverable, Zenon
<1>2. /\ active' = MarkActive(n)
      /\ charge' = [charge EXCEPT ![n] = IF fires THEN 0 ELSE v]
      /\ lastFired' = (IF fires THEN [lastFired EXCEPT ![n] = tick] ELSE lastFired)
      /\ sending' = (IF fires THEN OutOf(n) ELSE {})
      /\ UNCHANGED <<tick, weight, run, calls>>
  BY Zenon DEF Deliver, Bag!Deliver
<1>3. run.ticks = 2 => n \in Tokens
  BY <1>1, KindsOfNodes
<1>4. n \in Tokens => OutOf(n) = {}
  BY KindsOfNodes DEF JobInv, OutOf
<1>5. v \in Q8_8 /\ 0 \in Q8_8
  <2>1. charge[n] \in Int /\ ev.sig \in Int
    BY <1>1, Sizes DEF EngineInv, Q8_8
  <2>2. v \in Q8_8
    BY <2>1, SatAddRange, Zenon
  <2> QED BY <2>2, Sizes DEF Q8_8
<1>6. OutOf(n) \subseteq DOMAIN weight
  BY DEF OutOf
<1> HIDE DEF n, v, fires
<1>7. charge' \in [Nodes -> Q8_8]
  BY <1>2, <1>5 DEF EngineInv
<1>8. active' \subseteq Nodes /\ sending' \subseteq DOMAIN weight'
  BY <1>1, <1>2, <1>6 DEF EngineInv, MarkActive
<1>9. sending' # {} => run.ticks = 3
  BY <1>1, <1>2, <1>3, <1>4
<1>10. RunInv'
  BY <1>1, <1>2, <1>9 DEF EngineInv, RunInv
<1>11. RestInv'
  <2>1. /\ lastFired \in [Nodes -> Int] /\ \A m \in Nodes : lastFired[m] \in -Refractory..tick
        /\ \A c \in Contexts :
             /\ run.ticks < 3 => lastFired[c] + Refractory <= tick + run.ticks
             /\ run.ticks = 3 => \/ lastFired[c] = tick /\ phase # "between"
                                 \/ lastFired[c] + Refractory <= tick
    BY DEF EngineInv, RestInv
  <2>2. lastFired' \in [Nodes -> Int]
    BY <1>1, <1>2, <2>1
  <2>3. \A m \in Nodes : lastFired'[m] = lastFired[m] \/ (m = n /\ lastFired'[m] = tick)
    BY <1>2, <2>1
  <2>4. \A m \in Nodes : lastFired'[m] \in -Refractory..tick
    BY <1>1, <2>1, <2>3, Sizes
  <2>5. n \in Contexts => run.ticks = 3
    BY <1>1, <1>3, KindsOfNodes
  <2>6. \A c \in Contexts : c \in Nodes
    BY KindsOfNodes
  <2>7. \A c \in Contexts :
             /\ run.ticks < 3 => lastFired'[c] + Refractory <= tick + run.ticks
             /\ run.ticks = 3 => \/ lastFired'[c] = tick /\ phase' # "between"
                                 \/ lastFired'[c] + Refractory <= tick
    BY <1>1, <2>1, <2>3, <2>5, <2>6
  <2>8. tick' = tick /\ run' = run
    BY <1>2
  <2> QED BY <2>2, <2>4, <2>7, <2>8 DEF RestInv
<1>12. queue' \subseteq PendingNow(run'.ticks, tick')
  <2>1. tick' = tick /\ run' = run
    BY <1>2
  <2> QED BY <1>1, <2>1 DEF EngineInv
<1> QED BY <1>2, <1>7, <1>8, <1>10, <1>11, <1>12 DEF EngineInv

(* The end of a tick keeps the invariant.                                  *)
LEMMA EndTickInv ==
  ASSUME EngineInv, EndTick
  PROVE  EngineInv'
<1>1. /\ sending = {} /\ phase \in {"drain", "fire"} /\ \A ev \in queue : ev.due > tick
      /\ tick' = tick + 1 /\ phase' = "between" /\ run' = [run EXCEPT !.ticks = @ - 1]
      /\ charge' = [n \in Nodes |-> IF n \in active THEN Leaked(charge[n]) ELSE charge[n]]
      /\ UNCHANGED <<queue, lastFired, active, sending, weight, calls>>
  BY Zenon DEF EndTick, Bag!EndTick
<1>2. /\ tick \in Nat /\ run.ticks \in 1..3 /\ run.todo = {}
      /\ run \in [todo : SUBSET Contexts, ticks : 0..3]
  BY <1>1 DEF EngineInv, RunInv
<1>3. run'.todo = {} /\ run'.ticks = run.ticks - 1 /\ run'.ticks \in 0..2
      /\ run' \in [todo : SUBSET Contexts, ticks : 0..3]
  BY <1>1, <1>2
<1>4. RunInv'
  BY <1>1, <1>2, <1>3 DEF RunInv
<1>5. RestInv'
  <2>1. /\ lastFired \in [Nodes -> Int] /\ \A m \in Nodes : lastFired[m] \in -Refractory..tick
        /\ \A c \in Contexts :
             /\ run.ticks < 3 => lastFired[c] + Refractory <= tick + run.ticks
             /\ run.ticks = 3 => \/ lastFired[c] = tick /\ phase # "between"
                                 \/ lastFired[c] + Refractory <= tick
    BY DEF EngineInv, RestInv
  <2>2. \A c \in Contexts : lastFired[c] \in Int /\ c \in Nodes
    BY <2>1, KindsOfNodes
  <2>3. \A c \in Contexts : lastFired[c] + Refractory <= tick + run.ticks
    BY <1>2, <2>1, <2>2, Sizes
  <2>4. \A c \in Contexts : lastFired[c] + Refractory <= tick' + run'.ticks
    BY <1>1, <1>2, <1>3, <2>2, <2>3, Sizes
  <2>5. \A m \in Nodes : lastFired[m] \in -Refractory..tick'
    BY <1>1, <1>2, <2>1, Sizes
  <2>6. run'.ticks # 3 /\ lastFired' = lastFired
    BY <1>1, <1>3
  <2> QED BY <2>1, <2>4, <2>5, <2>6 DEF RestInv
<1>6. queue' \subseteq PendingNow(run'.ticks, tick')
  <2>1. queue \subseteq PendingNow(run.ticks, tick)
    BY DEF EngineInv
  <2>2. \A ev \in queue : ev \in PendingNow(run.ticks - 1, tick + 1)
    BY <1>1, <1>2, <2>1 DEF PendingNow
  <2> QED BY <1>1, <1>3, <2>2
<1>7. charge' \in [Nodes -> Q8_8]
  <2>1. \A n \in Nodes : charge[n] \in Q8_8 /\ Leaked(charge[n]) \in Q8_8
    BY LeakedRange DEF EngineInv
  <2> QED BY <1>1, <2>1
<1> QED BY <1>1, <1>4, <1>5, <1>6, <1>7 DEF EngineInv

(* There are no more edges than pairs of a context and a token.            *)
LEMMA EdgesFinite == IsFiniteSet(Edges) /\ Cardinality(Edges) <= Order * Vocab
<1> DEFINE f == [e \in Edges |-> <<e.source, e.target>>]
<1>1. IsFiniteSet(Contexts) /\ Cardinality(Contexts) = Order
  BY Sizes, FS_Interval DEF Contexts
<1>2. IsFiniteSet(Tokens) /\ Cardinality(Tokens) = Vocab
  BY Sizes, FS_Interval DEF Tokens
<1>3. IsFiniteSet(Contexts \X Tokens) /\ Cardinality(Contexts \X Tokens) = Order * Vocab
  BY <1>1, <1>2, FS_Product
<1>4. f \in Injection(Edges, Contexts \X Tokens)
  BY DEF Injection, IsInjective, Edges
<1> QED BY <1>3, <1>4, FS_Injection

Below(es, e) == {f \in es : f.target < e.target}

(* Of the n edges out of a context one has m with smaller targets, for     *)
(* each m less than n.                                                     *)
LEMMA Ranks ==
  ASSUME NEW es, es \subseteq Edges, NEW c, \A e \in es : e.source = c
  PROVE  \A m \in 0..(Cardinality(es) - 1) : \E e \in es : Cardinality(Below(es, e)) = m
<1> DEFINE n == Cardinality(es)
           T == 0..(n - 1)
           r == [e \in es |-> Cardinality(Below(es, e))]
<1>1. IsFiniteSet(es) /\ n \in Nat
  BY EdgesFinite, FS_Subset, FS_CardinalityType, Zenon
<1>2. IsFiniteSet(T) /\ Cardinality(T) = n
  BY <1>1, FS_Interval
<1>3. \A e \in es : e.target \in Nat
  BY KindsOfNodes
<1>4. ASSUME NEW e \in es, NEW s, s \subseteq es, Below(es, e) \subseteq s, e \in s
      PROVE  /\ IsFiniteSet(s) /\ Cardinality(s) \in Nat
             /\ Cardinality(Below(es, e)) \in Nat /\ Cardinality(Below(es, e)) < Cardinality(s)
  <2>1. Below(es, e) \subseteq s \ {e} /\ s \ {e} \subseteq s
    BY <1>3, <1>4 DEF Below
  <2>2. IsFiniteSet(s) /\ IsFiniteSet(s \ {e}) /\ Cardinality(s \ {e}) = Cardinality(s) - 1
    BY <1>1, <1>4, FS_Subset, FS_RemoveElement, Zenon
  <2>3. /\ IsFiniteSet(Below(es, e)) /\ Cardinality(Below(es, e)) <= Cardinality(s \ {e})
    BY <2>1, <2>2, FS_Subset, Zenon
  <2>4. /\ Cardinality(s) \in Nat /\ Cardinality(s \ {e}) \in Nat
        /\ Cardinality(Below(es, e)) \in Nat
    BY <2>2, <2>3, FS_CardinalityType, Zenon
  <2> QED BY <2>2, <2>3, <2>4
<1>5. \A e \in es : Cardinality(Below(es, e)) \in T
  <2>1. ASSUME NEW e \in es
        PROVE  Cardinality(Below(es, e)) \in Nat /\ Cardinality(Below(es, e)) < n
    <3>1. Below(es, e) \subseteq es
      BY DEF Below
    <3> QED BY <1>4, <3>1, Zenon
  <2> HIDE DEF n
  <2> QED BY <1>1, <2>1
<1>6. ASSUME NEW e \in es, NEW f \in es, e.target < f.target
      PROVE  Cardinality(Below(es, e)) # Cardinality(Below(es, f))
  <2>1. Below(es, e) \subseteq Below(es, f) /\ e \in Below(es, f) /\ Below(es, f) \subseteq es
    BY <1>3, <1>6 DEF Below
  <2>2. /\ Cardinality(Below(es, e)) \in Nat /\ Cardinality(Below(es, f)) \in Nat
        /\ Cardinality(Below(es, e)) < Cardinality(Below(es, f))
    BY <1>4, <2>1, Zenon
  <2> QED BY <2>2
<1>7. \A e, f \in es : e # f => e.target < f.target \/ f.target < e.target
  <2>1. \A e, f \in es : e # f => e.target # f.target
    BY DEF Edges
  <2> QED BY <2>1, <1>3
<1>8. \A e, f \in es : Cardinality(Below(es, e)) = Cardinality(Below(es, f)) => e = f
  BY <1>6, <1>7, Zenon
<1>9. r \in Injection(es, T)
  <2>1. r \in [es -> T]
    BY <1>5, Zenon
  <2>2. \A e, f \in es : r[e] = r[f] => e = f
    BY <1>8, Zenon
  <2> HIDE DEF r, T
  <2> QED BY <2>1, <2>2 DEF Injection, IsInjective
<1>10. r \in Surjection(es, T)
  <2> HIDE DEF r, T
  <2> QED BY <1>2, <1>9, FS_Injection, Zenon DEF n
<1>11. \A m \in T : \E e \in es : r[e] = m
  <2> HIDE DEF r, T
  <2> QED BY <1>10, Zenon DEF Surjection
<1> QED BY <1>11, Zenon

Others == {e \in OutOf(job.k) : e.target # job.gold}
Nth(i) == CHOOSE e \in Others : Cardinality({f \in Others : f.target < e.target}) = i - 2

(* Every candidate is an edge of the context that is taught, the gold edge *)
(* or one to another token.                                                *)
LEMMA CandidateEdges ==
  ASSUME DOMAIN weight \subseteq Edges, GoldEdge(job) \in DOMAIN weight
  PROVE  /\ DOMAIN Candidates = 1..Len(Candidates) /\ Len(Candidates) \in Nat
         /\ \A i \in DOMAIN Candidates : Candidates[i] \in DOMAIN weight
<1> DEFINE n == Min({Cardinality(Others) + 1, MaxCand})
<1>1. /\ Others \subseteq Edges /\ Others \subseteq DOMAIN weight
      /\ \A e \in Others : e.source = job.k
  BY DEF Others, OutOf
<1>2. Cardinality(Others) \in Nat
  BY <1>1, EdgesFinite, FS_Subset, FS_CardinalityType, Zenon
<1>3. n \in Nat /\ n <= Cardinality(Others) + 1
  <2>1. /\ n \in {Cardinality(Others) + 1, MaxCand}
        /\ \A y \in {Cardinality(Others) + 1, MaxCand} : n <= y
    <3>1. {Cardinality(Others) + 1, MaxCand} \subseteq Nat
      BY <1>2, Sizes
    <3> QED BY <3>1, LeastNat DEF Min
  <2> QED BY <2>1, <1>2, Sizes
<1>4. Candidates = [i \in 1..n |-> IF i = 1 THEN GoldEdge(job) ELSE Nth(i)]
  BY Zenon DEF Candidates, Others, Nth
<1> HIDE DEF n
<1>5. ASSUME NEW i \in 1..n, i # 1
      PROVE  Nth(i) \in Others
  <2>1. i - 2 \in 0..(Cardinality(Others) - 1)
    BY <1>2, <1>3, <1>5
  <2>2. \E e \in Others : Cardinality(Below(Others, e)) = i - 2
    BY <1>1, <2>1, Ranks
  <2> QED BY <2>2, Zenon DEF Nth, Below
<1>6. Candidates \in Seq(DOMAIN weight) /\ Len(Candidates) = n
  <2>1. \A i \in 1..n : (IF i = 1 THEN GoldEdge(job) ELSE Nth(i)) \in DOMAIN weight
    BY <1>1, <1>5, Zenon
  <2>2. Candidates \in [1..n -> DOMAIN weight]
    BY <1>4, <2>1, Zenon
  <2> QED BY <1>3, <2>2
<1> QED BY <1>6

(* What is clamped is in bounds, and moved no further than a bound.        *)
LEMMA ClampRange ==
  ASSUME NEW x \in Int
  PROVE  /\ Clamp(x) \in WMin..WMax
         /\ \A y \in WMin..WMax : (y <= x => y <= Clamp(x)) /\ (x <= y => Clamp(x) <= y)
BY Sizes DEF Clamp

(* What is applied stays in bounds.                                        *)
LEMMA ApplyBounds ==
  ASSUME NEW w, InBounds(w), NEW e, e = NoEdge \/ e \in DOMAIN w, NEW d \in Int
  PROVE  InBounds(Apply(w, e, d)) /\ DOMAIN Apply(w, e, d) = DOMAIN w
<1>1. CASE e = NoEdge
  BY <1>1 DEF Apply
<1>2. CASE e # NoEdge
  <2>1. e \in DOMAIN w /\ w[e] + d \in Int
    BY <1>2, Sizes DEF InBounds
  <2>2. Clamp(w[e] + d) \in WMin..WMax
    BY <2>1, ClampRange, Zenon
  <2>3. Apply(w, e, d) = [w EXCEPT ![e] = Clamp(w[e] + d)]
    BY <1>2 DEF Apply
  <2> QED BY <2>1, <2>2, <2>3 DEF InBounds
<1> QED BY <1>1, <1>2

Jobless(j) == [NoJob EXCEPT !.k = j.k, !.gold = j.gold, !.round = j.round]
Halved(j, w) == Apply(Apply(w, j.up.edge, Delta \div 2), j.down.edge, -(Delta \div 2))
Stepped(j, w) == Apply(Apply(w, j.up.edge, j.delta), j.down.edge, -j.delta)
Again(j) == [j EXCEPT !.probed = NoProbe, !.round = @ + 1, !.delta = Grown(@)]
Probing(j, w) == [j EXCEPT !.probes = Tail(@), !.probed = Head(j.probes),
                           !.save = w[Head(j.probes).edge]]

(* What can follow a measurement: the next probe, or what helped is        *)
(* applied and either the job has ended or its next round begins.          *)
ProbesNext(j, w) ==
  /\ j.probes # <<>>
  /\ weight' = [w EXCEPT ![Head(j.probes).edge] = ProbeClamp(@ + Head(j.probes).by)]
  /\ job' = Probing(j, w) /\ StartPredict(j.k, w)
EndsFixed(j, w) ==
  /\ j.probes = <<>> /\ j.kind = "fixed" /\ weight' = Halved(j, w) /\ job' = Jobless(j)
  /\ UNCHANGED <<engineVars, run>>
EndsRounds(j, w) ==
  /\ j.probes = <<>> /\ j.kind # "fixed" /\ j.round + 1 = EscRounds
  /\ weight' = Stepped(j, w) /\ job' = Jobless(Again(j)) /\ UNCHANGED <<engineVars, run>>
NextRound(j, w) ==
  /\ j.probes = <<>> /\ j.kind # "fixed" /\ j.round + 1 # EscRounds
  /\ weight' = Stepped(j, w) /\ job' = Again(j) /\ StartPredict(j.k, Stepped(j, w))

(* There are no other ways to proceed.                                     *)
LEMMA ProceedKinds ==
  ASSUME NEW j, j \in Jobs, NEW w, Proceed(j, w)
  PROVE  ProbesNext(j, w) \/ EndsFixed(j, w) \/ EndsRounds(j, w) \/ NextRound(j, w)
<1>1. CASE j.probes # <<>>
  BY <1>1, Zenon DEF Proceed, ProbesNext, Probing
<1>2. CASE j.probes = <<>> /\ j.kind = "fixed"
  BY <1>2, Zenon DEF Proceed, Commit, Finish, EndsFixed, Halved, Jobless
<1>3. CASE j.probes = <<>> /\ j.kind # "fixed"
  <2>1. Again(j).round = j.round + 1
    BY DEF Again, Jobs
  <2>2. CASE j.round + 1 = EscRounds
    BY <1>3, <2>1, <2>2, Zenon DEF Proceed, Commit, Finish, EndsRounds, Stepped, Jobless, Again
  <2>3. CASE j.round + 1 # EscRounds
    BY <1>3, <2>1, <2>3, Zenon DEF Proceed, Commit, NextRound, Stepped, Again
  <2> QED BY <2>2, <2>3
<1> QED BY <1>1, <1>2, <1>3

(* The values that stand for nothing are typed, and no probe is none.      *)
LEMMA NothingFits ==
  /\ NoJob \in Jobs /\ NoBest \in Bests /\ NoProbe \notin Probes
  /\ \A p \in Probes : p.edge \in Edges /\ p.by \in -DeltaCap..DeltaCap
<1>1. NoBest \in Bests
  BY DEF NoBest, Bests
<1>2. NoJob \in Jobs
  <2> HIDE DEF NoBest, NoProbe
  <2> QED BY <1>1, Sizes DEF NoJob, Jobs
<1>3. NoProbe \notin Probes
  BY KindsOfNodes DEF NoProbe, Probes
<1> QED BY <1>1, <1>2, <1>3 DEF Probes

(* The delta grows up to its cap.                                          *)
LEMMA GrownRange ==
  ASSUME NEW d \in 0..DeltaCap
  PROVE  Grown(d) \in 0..DeltaCap /\ Grown(d) >= d
         /\ Grown(d) = IF 2 * d <= DeltaCap THEN 2 * d ELSE DeltaCap
<1>1. {2 * d, DeltaCap} \subseteq Nat
  BY Sizes
<1>2. Grown(d) \in {2 * d, DeltaCap} /\ \A y \in {2 * d, DeltaCap} : Grown(d) <= y
  BY <1>1, LeastNat DEF Min, Grown
<1> QED BY <1>1, <1>2, Sizes

(* Jobs that come of others.                                               *)
LEMMA JobsKept ==
  ASSUME NEW j, j \in Jobs
  PROVE  /\ Jobless(j) \in Jobs /\ Jobless(j).kind = "none" /\ Jobless(j).k = j.k
         /\ Jobless(j).gold = j.gold /\ Jobless(j).round = j.round
         /\ Jobless(j).probes = <<>> /\ Jobless(j).probed = NoProbe
         /\ Jobless(j).up = NoBest /\ Jobless(j).down = NoBest
         /\ j.round < EscRounds =>
              /\ Again(j) \in Jobs /\ Again(j).round = j.round + 1 /\ Again(j).probed = NoProbe
              /\ Again(j).delta = Grown(j.delta)
              /\ Again(j).kind = j.kind /\ Again(j).k = j.k /\ Again(j).gold = j.gold
              /\ Again(j).probes = j.probes /\ Again(j).up = j.up /\ Again(j).down = j.down
<1>1. Grown(j.delta) \in 0..DeltaCap
  BY GrownRange DEF Jobs
<1>2. /\ NoJob \in Jobs /\ NoJob.kind = "none" /\ NoJob.probes = <<>> /\ NoJob.probed = NoProbe
      /\ NoJob.up = NoBest /\ NoJob.down = NoBest
  BY NothingFits DEF NoJob
<1> DEFINE z == NoJob
<1> HIDE DEF z
<1>3. /\ z \in Jobs /\ z.kind = "none" /\ z.probes = <<>> /\ z.probed = NoProbe
      /\ z.up = NoBest /\ z.down = NoBest
      /\ Jobless(j) = [z EXCEPT !.k = j.k, !.gold = j.gold, !.round = j.round]
  BY <1>2, Zenon DEF z, Jobless
<1>4. /\ Jobless(j) \in Jobs /\ Jobless(j).kind = "none" /\ Jobless(j).k = j.k
      /\ Jobless(j).gold = j.gold /\ Jobless(j).round = j.round
      /\ Jobless(j).probes = <<>> /\ Jobless(j).probed = NoProbe
      /\ Jobless(j).up = NoBest /\ Jobless(j).down = NoBest
  BY <1>3 DEF Jobs
<1>5. ASSUME j.round < EscRounds
      PROVE  /\ Again(j) \in Jobs /\ Again(j).round = j.round + 1 /\ Again(j).probed = NoProbe
             /\ Again(j).delta = Grown(j.delta)
             /\ Again(j).kind = j.kind /\ Again(j).k = j.k /\ Again(j).gold = j.gold
             /\ Again(j).probes = j.probes /\ Again(j).up = j.up /\ Again(j).down = j.down
  <2>1. j.round + 1 \in 0..EscRounds
    BY <1>5, Sizes DEF Jobs
  <2> QED BY <1>1, <2>1 DEF Again, Jobs
<1> QED BY <1>4, <1>5

(* A probe that begins is typed, and its weight is remembered.             *)
LEMMA ProbingKept ==
  ASSUME NEW j, j \in Jobs, NEW w, InBounds(w), j.probes # <<>>,
         \A i \in DOMAIN j.probes : j.probes[i].edge \in DOMAIN w
  PROVE  /\ Probing(j, w) \in Jobs /\ Head(j.probes) \in Probes
         /\ Head(j.probes).edge \in DOMAIN w
         /\ Probing(j, w).probed = Head(j.probes)
         /\ Probing(j, w).save = w[Head(j.probes).edge]
         /\ Probing(j, w).kind = j.kind /\ Probing(j, w).k = j.k /\ Probing(j, w).gold = j.gold
         /\ Probing(j, w).delta = j.delta /\ Probing(j, w).round = j.round
         /\ Probing(j, w).up = j.up /\ Probing(j, w).down = j.down
         /\ Probing(j, w).probes = Tail(j.probes)
         /\ \A i \in DOMAIN Tail(j.probes) : /\ i + 1 \in DOMAIN j.probes
                                             /\ Tail(j.probes)[i] = j.probes[i + 1]
<1>1. j.probes \in Seq(Probes)
  BY DEF Jobs
<1> DEFINE s == j.probes
<1>2. Head(s) = s[1] /\ 1 \in DOMAIN s /\ Head(s) \in Probes /\ Tail(s) \in Seq(Probes)
  BY <1>1
<1>3. \A i \in DOMAIN Tail(s) : i + 1 \in DOMAIN s /\ Tail(s)[i] = s[i + 1]
  BY <1>1
<1>4. Head(s).edge \in DOMAIN w /\ w[Head(s).edge] \in Int
  <2>1. Head(s).edge \in DOMAIN w
    BY <1>2
  <2>2. \A e \in DOMAIN w : w[e] \in Int
    BY Sizes DEF InBounds
  <2> QED BY <2>1, <2>2, Zenon
<1>5. /\ Probing(j, w) = [j EXCEPT !.probes = Tail(s), !.probed = Head(s),
                                   !.save = w[Head(s).edge]]
  BY DEF Probing
<1> DEFINE a == Tail(s)
           b == Head(s)
           v == w[Head(s).edge]
<1>6. a \in Seq(Probes) /\ b \in Probes \cup {NoProbe} /\ v \in Int
      /\ Probing(j, w) = [j EXCEPT !.probes = a, !.probed = b, !.save = v]
  BY <1>2, <1>4, <1>5
<1> HIDE DEF a, b, v, s
<1>7. Probing(j, w) \in Jobs /\ Probing(j, w).probed = b /\ Probing(j, w).save = v
         /\ Probing(j, w).kind = j.kind /\ Probing(j, w).k = j.k /\ Probing(j, w).gold = j.gold
         /\ Probing(j, w).delta = j.delta /\ Probing(j, w).round = j.round
         /\ Probing(j, w).up = j.up /\ Probing(j, w).down = j.down
         /\ Probing(j, w).probes = a
  BY <1>6 DEF Jobs
<1> QED BY <1>2, <1>3, <1>4, <1>7 DEF a, b, v, s

(* Whatever follows a measurement, the job and weights are well formed.     *)
LEMMA ProceedInv ==
  ASSUME NEW j, NEW w, Fitting(j, w), InBounds(w), j.kind \in {"fixed", "escalate"},
         run = NoRun, Proceed(j, w)
  PROVE  JobInv' /\ DOMAIN weight' = DOMAIN w
<1>1. j \in Jobs
  BY DEF Fitting
<1>2. /\ j.up.edge = NoEdge \/ j.up.edge \in DOMAIN w
      /\ j.down.edge = NoEdge \/ j.down.edge \in DOMAIN w
  BY DEF Fitting, Found
<1>3. w \in [DOMAIN w -> WMin..WMax] /\ DOMAIN w \subseteq Edges /\ WMin..WMax \subseteq Q8_8
  BY Sizes DEF InBounds, Q8_8
<1>4. j.gold # 0 /\ GoldEdge(j) \in DOMAIN w
  BY DEF Fitting
<1>5. CASE ProbesNext(j, w)
  <2> DEFINE p == Head(j.probes)
             q == Probing(j, w)
  <2>1. j.probes # <<>> /\ \A i \in DOMAIN j.probes : j.probes[i].edge \in DOMAIN w
    BY <1>5 DEF ProbesNext, Fitting
  <2>2. /\ q \in Jobs /\ p \in Probes /\ p.edge \in DOMAIN w
        /\ q.probed = p /\ q.save = w[p.edge] /\ q.kind = j.kind /\ q.k = j.k /\ q.gold = j.gold
        /\ q.round = j.round /\ q.up = j.up /\ q.down = j.down /\ q.probes = Tail(j.probes)
        /\ \A i \in DOMAIN Tail(j.probes) : /\ i + 1 \in DOMAIN j.probes
                                            /\ Tail(j.probes)[i] = j.probes[i + 1]
    BY <1>1, <2>1, ProbingKept, Zenon
  <2>3. weight' = [w EXCEPT ![p.edge] = ProbeClamp(w[p.edge] + p.by)] /\ job' = q
    BY <1>5 DEF ProbesNext
  <2> HIDE DEF p, q
  <2>4. ProbeClamp(w[p.edge] + p.by) \in Q8_8
    <3>1. w[p.edge] \in Int
      BY <1>3, <2>2, Sizes
    <3>2. p.by \in Int
      BY <2>2, NothingFits, Sizes
    <3>3. w[p.edge] + p.by \in Int /\ 0 \in Int
      BY <3>1, <3>2
    <3> QED BY <3>3, SatAddRange, Zenon DEF ProbeClamp
  <2>5. /\ DOMAIN weight' = DOMAIN w /\ weight' \in [DOMAIN w -> Q8_8]
        /\ [weight' EXCEPT ![p.edge] = w[p.edge]] = w
    BY <1>3, <2>2, <2>3, <2>4
  <2>6. Restored' = w /\ job'.probed # NoProbe
    BY <2>2, <2>3, <2>5, NothingFits DEF Restored
  <2>7. \A i \in DOMAIN job'.probes : job'.probes[i].edge \in DOMAIN weight'
    <3>1. DOMAIN weight' = DOMAIN w /\ job'.probes = Tail(j.probes)
      BY <2>2, <2>3, <2>5, Zenon
    <3> QED BY <2>1, <2>2, <3>1, Zenon
  <2>8. GoldEdge(job') = GoldEdge(j)
    BY <2>2, <2>3 DEF GoldEdge
  <2>9. Fitting(job', weight')
    BY <1>2, <1>4, <2>2, <2>3, <2>5, <2>7, <2>8 DEF Fitting, Found
  <2>10. job'.kind \in {"fixed", "escalate"} /\ job'.probed.edge \in DOMAIN weight'
    BY <2>2, <2>3, <2>5
  <2> QED BY <1>3, <2>5, <2>6, <2>9, <2>10 DEF JobInv
<1>6. Delta \div 2 \in Int /\ -(Delta \div 2) \in Int /\ j.delta \in Int /\ -j.delta \in Int
  BY <1>1, Sizes DEF Jobs
<1>7. /\ InBounds(Halved(j, w)) /\ DOMAIN Halved(j, w) = DOMAIN w
      /\ InBounds(Stepped(j, w)) /\ DOMAIN Stepped(j, w) = DOMAIN w
  <2>1. ASSUME NEW d \in Int, NEW f \in Int
        PROVE  /\ InBounds(Apply(Apply(w, j.up.edge, d), j.down.edge, f))
               /\ DOMAIN Apply(Apply(w, j.up.edge, d), j.down.edge, f) = DOMAIN w
    <3>1. InBounds(Apply(w, j.up.edge, d)) /\ DOMAIN Apply(w, j.up.edge, d) = DOMAIN w
      BY <1>2, ApplyBounds, Zenon
    <3> QED BY <1>2, <3>1, ApplyBounds, Zenon
  <2> QED BY <1>6, <2>1, Zenon DEF Halved, Stepped
<1>8. ASSUME InBounds(weight'), DOMAIN weight' = DOMAIN w, job' \in Jobs,
             job'.probed = NoProbe, job'.probes = <<>>, Found(job'.up, w), Found(job'.down, w),
             job'.gold = j.gold, job'.k = j.k,
             \/ job'.kind = "none" /\ run' = NoRun
             \/ job'.kind = "escalate" /\ job'.round < EscRounds
      PROVE  JobInv'
  <2>1. GoldEdge(job') = GoldEdge(j)
    BY <1>8 DEF GoldEdge
  <2>2. Fitting(job', weight')
    BY <1>4, <1>8, <2>1 DEF Fitting, Found
  <2>3. weight' \in [DOMAIN weight' -> Q8_8] /\ DOMAIN weight' \subseteq Edges
    BY <1>3, <1>8 DEF InBounds
  <2>4. job'.kind = "none" => run' = NoRun
    BY <1>8
  <2> QED BY <1>8, <2>2, <2>3, <2>4 DEF JobInv
<1>9. Found(NoBest, w)
  BY DEF Found, NoBest
<1>10. CASE EndsFixed(j, w)
  <2>1. job' = Jobless(j) /\ weight' = Halved(j, w) /\ run' = NoRun
    BY <1>10 DEF EndsFixed
  <2>2. /\ job' \in Jobs /\ job'.kind = "none" /\ job'.k = j.k /\ job'.gold = j.gold
        /\ job'.probes = <<>> /\ job'.probed = NoProbe /\ job'.up = NoBest /\ job'.down = NoBest
    BY <1>1, <2>1, JobsKept, Zenon
  <2>3. Found(job'.up, w) /\ Found(job'.down, w)
    BY <1>9, <2>2, Zenon
  <2>4. InBounds(weight') /\ DOMAIN weight' = DOMAIN w
    BY <1>7, <2>1, Zenon
  <2> QED BY <1>8, <2>1, <2>2, <2>3, <2>4, Zenon
<1>11. j.kind # "fixed" => j.round < EscRounds
  BY DEF Fitting
<1>12. CASE EndsRounds(j, w)
  <2>1. job' = Jobless(Again(j)) /\ weight' = Stepped(j, w) /\ run' = NoRun /\ j.round < EscRounds
    BY <1>11, <1>12 DEF EndsRounds
  <2>2. Again(j) \in Jobs /\ Again(j).k = j.k /\ Again(j).gold = j.gold
    BY <1>1, <2>1, JobsKept, Zenon
  <2>3. /\ job' \in Jobs /\ job'.kind = "none" /\ job'.k = j.k /\ job'.gold = j.gold
        /\ job'.probes = <<>> /\ job'.probed = NoProbe /\ job'.up = NoBest /\ job'.down = NoBest
    BY <2>1, <2>2, JobsKept, Zenon
  <2>4. Found(job'.up, w) /\ Found(job'.down, w)
    BY <1>9, <2>3, Zenon
  <2>5. InBounds(weight') /\ DOMAIN weight' = DOMAIN w
    BY <1>7, <2>1, Zenon
  <2> QED BY <1>8, <2>1, <2>3, <2>4, <2>5, Zenon
<1>13. CASE NextRound(j, w)
  <2>1. /\ job' = Again(j) /\ weight' = Stepped(j, w) /\ j.round < EscRounds
        /\ j.kind # "fixed" /\ j.probes = <<>> /\ j.round + 1 # EscRounds
    BY <1>11, <1>13 DEF NextRound
  <2>2. /\ job' \in Jobs /\ job'.kind = j.kind /\ job'.k = j.k /\ job'.gold = j.gold
        /\ job'.probes = <<>> /\ job'.probed = NoProbe /\ job'.up = j.up /\ job'.down = j.down
        /\ job'.round = j.round + 1
    BY <1>1, <2>1, JobsKept, Zenon
  <2>3. Found(job'.up, w) /\ Found(job'.down, w)
    BY <1>2, <2>2 DEF Found
  <2>4. InBounds(weight') /\ DOMAIN weight' = DOMAIN w
    BY <1>7, <2>1, Zenon
  <2>5. job'.kind = "escalate" /\ job'.round < EscRounds
    BY <1>1, <2>1, <2>2, Sizes DEF Jobs
  <2> QED BY <1>8, <2>2, <2>3, <2>4, <2>5, Zenon
<1> QED
  <2>1. DOMAIN weight' = DOMAIN w
    <3>1. CASE ProbesNext(j, w)
      BY <3>1 DEF ProbesNext
    <3>2. CASE ~ProbesNext(j, w)
      BY <1>1, <1>7, <3>2, ProceedKinds, Zenon DEF EndsFixed, EndsRounds, NextRound
    <3> QED BY <3>1, <3>2
  <2> QED BY <1>1, <1>5, <1>10, <1>12, <1>13, <2>1, ProceedKinds, Zenon

(* The shares of a prediction are fractions of positive integers.          *)
LEMMA ShareType ==
  ASSUME charge \in [Nodes -> Q8_8], NEW g \in Tokens
  PROVE  /\ Share(g) \in Int \X Int
         /\ \A t \in Tokens : Score(t) \in Nat
         /\ SumFunction([u \in Tokens |-> Score(u)]) \in Nat
<1> DEFINE f == [u \in Tokens |-> Score(u)]
<1>1. \A t \in Tokens : Score(t) \in Nat
  BY KindsOfNodes, Sizes DEF Score, Q8_8
<1>2. IsFiniteSet(Tokens)
  BY Sizes, FS_Interval DEF Tokens
<1>3. \A t \in Tokens : f[t] \in Int /\ f[t] >= 0
  BY <1>1
<1>4. SumFunction(f) = SumFunctionOnSet(f, Tokens)
  BY Zenon DEF SumFunction
<1> HIDE DEF f
<1>5. SumFunctionOnSet(f, Tokens) \in Int
  BY <1>2, <1>3, SumInt, Zenon
<1>6. SumFunctionOnSet(f, Tokens) >= 0
  BY <1>2, <1>3, SumSigns
<1>7. SumFunction(f) \in Nat
  BY <1>4, <1>5, <1>6
<1>8. Share(g) \in Int \X Int
  <2>1. Share(g) = <<2 * Score(g) + 1, 2 * SumFunction(f) + Vocab>>
    BY Zenon DEF Share, f
  <2> QED BY <1>1, <1>7, <2>1, Sizes
<1> QED BY <1>1, <1>7, <1>8 DEF f

(* The probes of a fixed pass are probes of existing edges.                *)
LEMMA FixedTyped ==
  ASSUME JobInv, job.gold # 0
  PROVE  /\ FixedProbes \in Seq(Probes)
         /\ \A i \in DOMAIN FixedProbes : FixedProbes[i].edge \in DOMAIN weight
<1> DEFINE n == Len(Candidates)
           p(i) == [edge |-> Candidates[(i + 1) \div 2], by |-> IF i % 2 = 1 THEN Delta ELSE -Delta]
<1>1. DOMAIN weight \subseteq Edges /\ GoldEdge(job) \in DOMAIN weight
  BY DEF JobInv, Fitting
<1>2. n \in Nat /\ DOMAIN Candidates = 1..n /\ \A i \in 1..n : Candidates[i] \in DOMAIN weight
  BY <1>1, CandidateEdges, Zenon
<1>3. FixedProbes = [i \in 1..(2 * n) |-> p(i)]
  BY Zenon DEF FixedProbes
<1> HIDE DEF n
<1>4. ASSUME NEW i \in 1..(2 * n)
      PROVE  p(i) \in Probes /\ p(i).edge \in DOMAIN weight
  <2>1. (i + 1) \div 2 \in 1..n
    BY <1>2
  <2>2. Candidates[(i + 1) \div 2] \in DOMAIN weight
    BY <1>2, <2>1, Zenon
  <2>3. (IF i % 2 = 1 THEN Delta ELSE -Delta) \in -DeltaCap..DeltaCap
    BY Sizes
  <2> QED BY <1>1, <2>2, <2>3 DEF Probes
<1> HIDE DEF p
<1>5. FixedProbes \in [1..(2 * n) -> Probes] /\ 2 * n \in Nat
  BY <1>2, <1>3, <1>4
<1>6. \A i \in DOMAIN FixedProbes : FixedProbes[i].edge \in DOMAIN weight
  BY <1>3, <1>4, Zenon
<1> QED BY <1>5, <1>6

(* So are the probes of a round of escalation.                             *)
LEMMA EscalatedTyped ==
  ASSUME JobInv, job.gold # 0
  PROVE  /\ EscalatedProbes \in Seq(Probes)
         /\ \A i \in DOMAIN EscalatedProbes : EscalatedProbes[i].edge \in DOMAIN weight
<1> DEFINE rival == [source |-> job.k, target |-> Argmax]
           first == [edge |-> GoldEdge(job), by |-> job.delta]
           second == [edge |-> rival, by |-> -job.delta]
<1>1. DOMAIN weight \subseteq Edges /\ GoldEdge(job) \in DOMAIN weight
      /\ job.delta \in 0..DeltaCap
  BY DEF JobInv, Fitting, Jobs
<1>2. EscalatedProbes = IF rival \in DOMAIN weight THEN Append(<<first>>, second) ELSE <<first>>
  BY Zenon DEF EscalatedProbes
<1>3. first \in Probes /\ first.edge \in DOMAIN weight
  BY <1>1, Sizes DEF Probes
<1>4. rival \in DOMAIN weight => second \in Probes /\ second.edge \in DOMAIN weight
  BY <1>1, Sizes DEF Probes
<1> HIDE DEF rival, first, second
<1>5. CASE rival \in DOMAIN weight
  <2>1. /\ EscalatedProbes \in Seq(Probes) /\ Len(EscalatedProbes) = 2
        /\ EscalatedProbes[1] = first /\ EscalatedProbes[2] = second
    <3> DEFINE s == <<first>>
    <3>1. s \in Seq(Probes) /\ Len(s) = 1 /\ s[1] = first
      BY <1>3
    <3>2. EscalatedProbes = Append(s, second) /\ second \in Probes
      BY <1>2, <1>4, <1>5
    <3> HIDE DEF s
    <3>3. /\ Append(s, second) \in Seq(Probes) /\ Len(Append(s, second)) = Len(s) + 1
          /\ Append(s, second)[1] = s[1] /\ Append(s, second)[Len(s) + 1] = second
      BY <3>1, <3>2, AppendProperties
    <3> QED BY <3>1, <3>2, <3>3
  <2> QED BY <1>3, <1>4, <1>5, <2>1
<1>6. CASE rival \notin DOMAIN weight
  <2>1. EscalatedProbes = <<first>>
    BY <1>2, <1>6
  <2> QED BY <1>3, <2>1
<1> QED BY <1>5, <1>6

(* A new edge is within the bounds.                                        *)
LEMMA WithEdgeBounds ==
  ASSUME InBounds(weight), NEW e \in Edges
  PROVE  /\ InBounds(WithEdge(e)) /\ DOMAIN WithEdge(e) = DOMAIN weight \cup {e}
         /\ \A f \in DOMAIN weight : WithEdge(e)[f] = weight[f]
<1>1. \A f \in DOMAIN weight \cup {e} :
        (IF f \in DOMAIN weight THEN weight[f] ELSE W0) \in WMin..WMax
  BY Sizes DEF InBounds
<1>2. WithEdge(e) = [f \in DOMAIN weight \cup {e} |-> IF f \in DOMAIN weight THEN weight[f] ELSE W0]
  BY Zenon DEF WithEdge
<1> QED BY <1>1, <1>2 DEF InBounds

(* A plain prediction begins.                                              *)
LEMMA ForecastInv ==
  ASSUME PredictInv, NEW k \in 1..Order, Forecast(k)
  PROVE  PredictInv'
<1>1. /\ job.kind = "none" /\ calls' = calls + 1 /\ calls < MaxCalls
      /\ job' = [NoJob EXCEPT !.kind = "plain", !.k = k]
      /\ StartPredict(k, weight) /\ UNCHANGED <<weight, before>>
  BY DEF Forecast
<1>2. run = NoRun /\ job.probed = NoProbe /\ InBounds(weight) /\ DOMAIN weight \subseteq Edges
      /\ weight \in [DOMAIN weight -> Q8_8]
  BY <1>1 DEF PredictInv, JobInv
<1>3. calls' \in 0..MaxCalls
  BY <1>1, Sizes DEF PredictInv, EngineInv
<1>4. EngineInv'
  BY <1>1, <1>2, <1>3, StartInv, Zenon DEF PredictInv
<1>5. /\ NoJob \in Jobs /\ NoJob.probes = <<>> /\ NoJob.probed = NoProbe /\ NoJob.gold = 0
      /\ NoJob.up = NoBest /\ NoJob.down = NoBest
  BY NothingFits DEF NoJob
<1> DEFINE z == NoJob
<1>6. /\ z \in Jobs /\ z.probes = <<>> /\ z.probed = NoProbe /\ z.gold = 0
      /\ z.up = NoBest /\ z.down = NoBest /\ job' = [z EXCEPT !.kind = "plain", !.k = k]
  BY <1>1, <1>5
<1> HIDE DEF z
<1>7. /\ job' \in Jobs /\ job'.probes = <<>> /\ job'.probed = NoProbe /\ job'.gold = 0
      /\ job'.up = NoBest /\ job'.down = NoBest /\ job'.kind = "plain"
  <2>1. k \in 0..Order /\ "plain" \in {"none", "plain", "fixed", "escalate"}
    BY Sizes
  <2>2. [z EXCEPT !.kind = "plain", !.k = k] \in Jobs
    BY <1>6, <2>1 DEF Jobs
  <2> QED BY <1>6, <2>2 DEF Jobs
<1>8. Fitting(job', weight')
  BY <1>7 DEF Fitting, Found, NoBest
<1> QED BY <1>1, <1>2, <1>4, <1>7, <1>8 DEF PredictInv, JobInv

(* The job that begins when a token is taught.                             *)
Teaching(kind, k, gold) ==
  [NoJob EXCEPT !.kind = kind, !.k = k, !.gold = gold, !.delta = Delta]

(* Its fields.                                                             *)
LEMMA TaughtJob ==
  ASSUME NEW kind \in {"fixed", "escalate"}, NEW k \in 1..Order, NEW gold \in Tokens
  PROVE  LET j == Teaching(kind, k, gold) IN
         /\ j \in Jobs /\ j.probes = <<>> /\ j.probed = NoProbe /\ j.gold = gold
         /\ j.up = NoBest /\ j.down = NoBest /\ j.kind = kind /\ j.k = k /\ j.round = 0
         /\ j.delta = Delta
<1> DEFINE j == Teaching(kind, k, gold)
<1>5. /\ NoJob \in Jobs /\ NoJob.probes = <<>> /\ NoJob.probed = NoProbe /\ NoJob.round = 0
      /\ NoJob.up = NoBest /\ NoJob.down = NoBest
  BY NothingFits DEF NoJob
<1> DEFINE z == NoJob
<1>6. /\ z \in Jobs /\ z.probes = <<>> /\ z.probed = NoProbe /\ z.round = 0
      /\ z.up = NoBest /\ z.down = NoBest
      /\ j = [z EXCEPT !.kind = kind, !.k = k, !.gold = gold, !.delta = Delta]
  BY <1>5, Zenon DEF Teaching
<1>7. /\ kind \in {"none", "plain", "fixed", "escalate"} /\ k \in 0..Order
      /\ gold \in {0} \cup Tokens /\ Delta \in 0..DeltaCap
  BY Sizes
<1> HIDE DEF z, j
<1>8. /\ j \in Jobs /\ j.probes = <<>> /\ j.probed = NoProbe /\ j.gold = gold
      /\ j.up = NoBest /\ j.down = NoBest /\ j.kind = kind /\ j.k = k /\ j.round = 0
      /\ j.delta = Delta
  BY <1>6, <1>7 DEF Jobs
<1> QED BY <1>8 DEF j

(* A token begins to be taught.                                            *)
LEMMA TeachInv ==
  ASSUME PredictInv, NEW kind \in {"fixed", "escalate"}, NEW k \in 1..Order, NEW gold \in Tokens,
         Teach(kind, k, gold)
  PROVE  PredictInv'
<1>1. /\ job.kind = "none" /\ calls' = calls + 1 /\ calls < MaxCalls
      /\ job' = Teaching(kind, k, gold)
      /\ weight' = WithEdge(GoldEdge(job'))
      /\ StartPredict(k, weight')
  BY DEF Teach, Teaching
<1>2. run = NoRun /\ job.probed = NoProbe /\ InBounds(weight)
  BY <1>1 DEF PredictInv, JobInv
<1>3. calls' \in 0..MaxCalls
  BY <1>1, Sizes DEF PredictInv, EngineInv
<1>4. /\ job' \in Jobs /\ job'.probes = <<>> /\ job'.probed = NoProbe /\ job'.gold = gold
      /\ job'.up = NoBest /\ job'.down = NoBest /\ job'.kind = kind /\ job'.k = k
      /\ job'.round = 0
  BY <1>1, TaughtJob
<1>5. GoldEdge(job') \in Edges
  BY <1>4 DEF GoldEdge, Edges, Contexts
<1>6. InBounds(weight') /\ GoldEdge(job') \in DOMAIN weight'
  BY <1>1, <1>2, <1>5, WithEdgeBounds
<1>7. weight' \in [DOMAIN weight' -> Q8_8] /\ DOMAIN weight' \subseteq Edges
  BY <1>6, Sizes DEF InBounds, Q8_8
<1>8. EngineInv'
  BY <1>1, <1>2, <1>3, <1>7, StartInv, Zenon DEF PredictInv
<1>9. Fitting(job', weight')
  BY <1>4, <1>6, KindsOfNodes, Sizes DEF Fitting, Found, NoBest
<1>10. job'.kind # "none"
  BY <1>4
<1> QED BY <1>4, <1>6, <1>7, <1>8, <1>9, <1>10 DEF PredictInv, JobInv

(* A plain prediction is read.                                             *)
LEMMA ReadInv ==
  ASSUME PredictInv, Read
  PROVE  PredictInv'
<1>1. /\ job' = NoJob /\ run = NoRun /\ job.kind = "plain"
      /\ UNCHANGED <<engineVars, weight, run, calls>>
  BY DEF Read, Returned
<1>2. job.probed = NoProbe /\ InBounds(weight) /\ DOMAIN weight \subseteq Edges
      /\ weight \in [DOMAIN weight -> Q8_8]
  BY <1>1 DEF PredictInv, JobInv
<1>3. /\ NoJob \in Jobs /\ NoJob.probes = <<>> /\ NoJob.probed = NoProbe /\ NoJob.gold = 0
      /\ NoJob.up = NoBest /\ NoJob.down = NoBest /\ NoJob.kind = "none"
  BY NothingFits DEF NoJob
<1>4. Fitting(job', weight')
  BY <1>1, <1>3 DEF Fitting, Found, NoBest
<1>5. EngineInv'
  BY <1>1 DEF PredictInv, EngineInv, RunInv, RestInv, engineVars, bagVars
<1> QED BY <1>1, <1>2, <1>3, <1>4, <1>5 DEF PredictInv, JobInv

(* However the next probe or the end follows, the invariant holds.         *)
LEMMA MeasuredInv ==
  ASSUME PredictInv, run = NoRun, NEW j, NEW w, Fitting(j, w), InBounds(w),
         j.kind \in {"fixed", "escalate"}, Proceed(j, w), UNCHANGED calls
  PROVE  PredictInv'
<1>1. JobInv' /\ DOMAIN weight' = DOMAIN w /\ DOMAIN w \subseteq Edges
  BY ProceedInv, Zenon DEF InBounds
<1>2. calls' \in 0..MaxCalls /\ j \in Jobs
  BY DEF PredictInv, EngineInv, Fitting
<1>3. ASSUME NEW v, StartPredict(j.k, v), DOMAIN v \subseteq Edges
      PROVE  EngineInv'
  BY <1>2, <1>3, StartInv, Zenon DEF PredictInv
<1>4. ASSUME UNCHANGED <<engineVars, run>>
      PROVE  EngineInv'
  <2>1. sending = {}
    BY DEF PredictInv, EngineInv, RunInv, NoRun
  <2>2. RunInv' /\ RestInv'
    BY <1>4 DEF PredictInv, EngineInv, RunInv, RestInv, engineVars, bagVars
  <2>3. queue' \subseteq PendingNow(run'.ticks, tick')
    BY <1>4 DEF PredictInv, EngineInv, engineVars, bagVars
  <2> QED BY <1>2, <1>4, <2>1, <2>2, <2>3 DEF PredictInv, EngineInv, engineVars, bagVars
<1>5. ProbesNext(j, w) \/ EndsFixed(j, w) \/ EndsRounds(j, w) \/ NextRound(j, w)
  BY <1>2, ProceedKinds
<1>6. CASE ProbesNext(j, w)
  BY <1>1, <1>3, <1>6 DEF ProbesNext, PredictInv
<1>7. CASE EndsFixed(j, w) \/ EndsRounds(j, w)
  BY <1>1, <1>4, <1>7 DEF EndsFixed, EndsRounds, PredictInv
<1>8. CASE NextRound(j, w)
  <2>1. weight' = Stepped(j, w) /\ StartPredict(j.k, Stepped(j, w))
    BY <1>8 DEF NextRound
  <2>2. DOMAIN Stepped(j, w) \subseteq Edges
    BY <1>1, <2>1, Zenon
  <2> QED BY <1>1, <1>3, <2>1, <2>2, Zenon DEF PredictInv
<1> QED BY <1>5, <1>6, <1>7, <1>8

Unhelped == [edge |-> NoEdge, share |-> Share(job.gold)]
Measuring == [job EXCEPT !.up = Unhelped, !.down = Unhelped]
Planned(probes) == [Measuring EXCEPT !.probes = probes]

(* The measurement that probes are compared with, and what follows it.     *)
LEMMA MeasuredKinds ==
  ASSUME PredictInv, Measured
  PROVE  /\ run = NoRun /\ phase = "between" /\ job.gold \in Tokens /\ InBounds(weight)
         /\ UNCHANGED <<calls, before>> /\ job.probed = NoProbe
         /\ \/ job.kind = "fixed" /\ Proceed(Planned(FixedProbes), weight)
            \/ /\ job.kind = "escalate" /\ Argmax # job.gold
               /\ Proceed(Planned(EscalatedProbes), weight)
            \/ job.kind = "escalate" /\ Argmax = job.gold /\ Finish(job, weight)
<1>1. /\ run = NoRun /\ job.kind \in {"fixed", "escalate"} /\ job.probed = NoProbe
      /\ phase = "between" /\ UNCHANGED <<calls, before>>
  BY DEF Measured, Returned
<1>2. job.gold \in Tokens /\ InBounds(weight)
  BY <1>1 DEF PredictInv, JobInv, Fitting, Jobs
<1>3. CASE job.kind = "fixed"
  BY <1>1, <1>2, <1>3, Zenon DEF Measured, Planned, Measuring, Unhelped
<1>4. CASE job.kind = "escalate" /\ Argmax = job.gold
  <2>1. job.kind # "fixed"
    BY <1>4
  <2> QED BY <1>1, <1>2, <1>4, <2>1, Zenon DEF Measured
<1>5. CASE job.kind = "escalate" /\ Argmax # job.gold
  <2>1. job.kind # "fixed"
    BY <1>5
  <2> QED BY <1>1, <1>2, <1>5, <2>1, Zenon DEF Measured, Planned, Measuring, Unhelped
<1> QED BY <1>1, <1>3, <1>4, <1>5

(* A job with probes to come is well formed.                               *)
LEMMA PlannedFits ==
  ASSUME PredictInv, job.kind \in {"fixed", "escalate"}, job.gold \in Tokens,
         NEW s, s \in Seq(Probes), \A i \in DOMAIN s : s[i].edge \in DOMAIN weight
  PROVE  /\ Fitting(Planned(s), weight) /\ Planned(s).kind = job.kind
         /\ Planned(s).k = job.k /\ Planned(s).gold = job.gold /\ Planned(s).probes = s
         /\ Planned(s).delta = job.delta /\ Planned(s).round = job.round
         /\ Planned(s).up = Unhelped /\ Planned(s).down = Unhelped
<1>1. /\ job \in Jobs /\ GoldEdge(job) \in DOMAIN weight /\ job.gold # 0
      /\ job.kind = "escalate" => job.round < EscRounds
  BY DEF PredictInv, JobInv, Fitting
<1>2. Unhelped \in Bests /\ Unhelped.edge = NoEdge
  <2>1. Share(job.gold) \in Int \X Int
    BY ShareType DEF PredictInv, EngineInv
  <2> QED BY <2>1 DEF Unhelped, Bests
<1> DEFINE u == Unhelped
           q == Planned(s)
<1>3. u \in Bests /\ u.edge = NoEdge /\ q = [[job EXCEPT !.up = u, !.down = u] EXCEPT !.probes = s]
  BY <1>2, Zenon DEF Planned, Measuring
<1> HIDE DEF u, q
<1>4. q \in Jobs /\ q.kind = job.kind /\ q.k = job.k /\ q.gold = job.gold /\ q.probes = s
      /\ q.up = u /\ q.down = u /\ q.round = job.round /\ q.delta = job.delta
  BY <1>1, <1>3 DEF Jobs
<1>5. GoldEdge(q) = GoldEdge(job)
  BY <1>4 DEF GoldEdge
<1>6. Fitting(q, weight)
  BY <1>1, <1>3, <1>4, <1>5 DEF Fitting, Found
<1> QED BY <1>4, <1>6 DEF q, u

(* A measurement keeps the invariant.                                      *)
LEMMA MeasuredStep ==
  ASSUME PredictInv, Measured
  PROVE  PredictInv'
<1>1. /\ run = NoRun /\ job.gold \in Tokens /\ InBounds(weight) /\ UNCHANGED calls
      /\ job.probed = NoProbe
      /\ \/ job.kind = "fixed" /\ Proceed(Planned(FixedProbes), weight)
         \/ /\ job.kind = "escalate" /\ Argmax # job.gold
            /\ Proceed(Planned(EscalatedProbes), weight)
         \/ job.kind = "escalate" /\ Argmax = job.gold /\ Finish(job, weight)
  BY MeasuredKinds
<1>2. job.gold # 0
  BY <1>1, KindsOfNodes
<1>3. CASE job.kind = "fixed" /\ Proceed(Planned(FixedProbes), weight)
  <2>1. /\ FixedProbes \in Seq(Probes)
        /\ \A i \in DOMAIN FixedProbes : FixedProbes[i].edge \in DOMAIN weight
    BY <1>2, FixedTyped, Zenon DEF PredictInv
  <2>2. Fitting(Planned(FixedProbes), weight) /\ Planned(FixedProbes).kind = "fixed"
    BY <1>1, <1>3, <2>1, PlannedFits
  <2> QED BY <1>1, <1>3, <2>2, MeasuredInv
<1>4. CASE job.kind = "escalate" /\ Proceed(Planned(EscalatedProbes), weight)
  <2>1. /\ EscalatedProbes \in Seq(Probes)
        /\ \A i \in DOMAIN EscalatedProbes : EscalatedProbes[i].edge \in DOMAIN weight
    BY <1>2, EscalatedTyped, Zenon DEF PredictInv
  <2>2. Fitting(Planned(EscalatedProbes), weight) /\ Planned(EscalatedProbes).kind = "escalate"
    BY <1>1, <1>4, <2>1, PlannedFits
  <2> QED BY <1>1, <1>4, <2>2, MeasuredInv
<1>5. CASE job.kind = "escalate" /\ Finish(job, weight)
  <2>1. weight' = weight /\ job' = Jobless(job) /\ UNCHANGED <<engineVars, run>>
    BY <1>5, Zenon DEF Finish, Jobless
  <2>2. job \in Jobs /\ GoldEdge(job) \in DOMAIN weight
    BY <1>2 DEF PredictInv, JobInv, Fitting
  <2>3. /\ job' \in Jobs /\ job'.kind = "none" /\ job'.k = job.k /\ job'.gold = job.gold
        /\ job'.probes = <<>> /\ job'.probed = NoProbe /\ job'.up = NoBest /\ job'.down = NoBest
    BY <2>1, <2>2, JobsKept, Zenon
  <2>4. GoldEdge(job') = GoldEdge(job)
    BY <2>3 DEF GoldEdge
  <2>5. Fitting(job', weight')
    BY <2>1, <2>2, <2>3, <2>4 DEF Fitting, Found, NoBest
  <2>6. JobInv'
    BY <1>1, <2>1, <2>3, <2>5 DEF PredictInv, JobInv
  <2>7. EngineInv'
    BY <1>1, <2>1 DEF PredictInv, EngineInv, RunInv, RestInv, engineVars, bagVars
  <2> QED BY <2>6, <2>7 DEF PredictInv
<1> QED BY <1>1, <1>3, <1>4, <1>5

(* What the probe that ended leaves of the job.                            *)
Reported == IF job.probed.by > 0 THEN [job EXCEPT !.up = BetterThan(@)]
            ELSE [job EXCEPT !.down = BetterThan(@)]

(* The probe that ended, and what follows it.                              *)
LEMMA ProbedKinds ==
  ASSUME PredictInv, Probed
  PROVE  /\ run = NoRun /\ phase = "between" /\ job.gold \in Tokens /\ job.probed # NoProbe
         /\ job.probed \in Probes /\ job.probed.edge \in DOMAIN weight
         /\ job.kind \in {"fixed", "escalate"}
         /\ InBounds(Restored) /\ DOMAIN Restored = DOMAIN weight
         /\ UNCHANGED <<calls, before>> /\ Proceed(Reported, Restored)
<1>1. /\ run = NoRun /\ job.probed # NoProbe /\ phase = "between"
      /\ Proceed(Reported, Restored) /\ UNCHANGED <<calls, before>>
  BY DEF Probed, Returned, Reported
<1>2. /\ InBounds(Restored) /\ job.kind \in {"fixed", "escalate"} /\ job.gold \in Tokens
      /\ job.probed \in Probes /\ job.probed.edge \in DOMAIN weight
  BY <1>1 DEF PredictInv, JobInv, Fitting, Jobs
<1>3. DOMAIN Restored = DOMAIN weight
  BY DEF Restored
<1> QED BY <1>1, <1>2, <1>3

(* What it reports is well formed.                                         *)
LEMMA ReportedFits ==
  ASSUME PredictInv, Probed
  PROVE  /\ Fitting(Reported, Restored) /\ Reported.kind = job.kind
         /\ Reported.k = job.k /\ Reported.gold = job.gold /\ Reported.probes = job.probes
         /\ Reported.delta = job.delta /\ Reported.round = job.round
         /\ Reported.up = (IF job.probed.by > 0 THEN BetterThan(job.up) ELSE job.up)
         /\ Reported.down = (IF job.probed.by > 0 THEN job.down ELSE BetterThan(job.down))
<1>1. /\ job.gold \in Tokens /\ job.probed \in Probes /\ job.probed.edge \in DOMAIN weight
      /\ DOMAIN Restored = DOMAIN weight /\ job.probed # NoProbe
  BY ProbedKinds, Zenon
<1>2. /\ job \in Jobs /\ Found(job.up, weight) /\ Found(job.down, weight)
      /\ \A i \in DOMAIN job.probes : job.probes[i].edge \in DOMAIN weight
      /\ job.gold # 0 => GoldEdge(job) \in DOMAIN weight
      /\ job.kind \in {"fixed", "escalate"} => job.gold # 0
      /\ job.kind = "escalate" => job.round < EscRounds
  BY DEF PredictInv, JobInv, Fitting
<1>3. ASSUME NEW b \in Bests, Found(b, weight)
      PROVE  BetterThan(b) \in Bests /\ Found(BetterThan(b), weight)
  <2>1. Share(job.gold) \in Int \X Int
    BY <1>1, ShareType DEF PredictInv, EngineInv
  <2>2. DOMAIN weight \subseteq Edges
    BY DEF PredictInv, JobInv
  <2> QED BY <1>1, <1>3, <2>1, <2>2 DEF BetterThan, Bests, Found
<1> DEFINE u == IF job.probed.by > 0 THEN BetterThan(job.up) ELSE job.up
           d == IF job.probed.by > 0 THEN job.down ELSE BetterThan(job.down)
<1>4. u \in Bests /\ d \in Bests /\ Found(u, weight) /\ Found(d, weight)
  <2>1. job.up \in Bests /\ job.down \in Bests
    BY <1>2 DEF Jobs
  <2> QED BY <1>2, <1>3, <2>1
<1>5. Reported = [job EXCEPT !.up = u, !.down = d]
  <2>1. job = [job EXCEPT !.up = job.up] /\ job = [job EXCEPT !.down = job.down]
    BY <1>2 DEF Jobs
  <2>2. CASE job.probed.by > 0
    <3>1. Reported = [job EXCEPT !.up = u] /\ d = job.down
      BY <2>2, Zenon DEF Reported
    <3> HIDE DEF u, d
    <3> QED BY <3>1, <1>2 DEF Jobs
  <2>3. CASE ~(job.probed.by > 0)
    <3>1. Reported = [job EXCEPT !.down = d] /\ u = job.up
      BY <2>3, Zenon DEF Reported
    <3> HIDE DEF u, d
    <3> QED BY <3>1, <1>2 DEF Jobs
  <2> QED BY <2>2, <2>3
<1> HIDE DEF u, d
<1>6. /\ Reported \in Jobs /\ Reported.kind = job.kind
      /\ Reported.k = job.k /\ Reported.gold = job.gold /\ Reported.probes = job.probes
      /\ Reported.delta = job.delta /\ Reported.round = job.round
      /\ Reported.up = u /\ Reported.down = d
  BY <1>2, <1>4, <1>5 DEF Jobs
<1>7. GoldEdge(Reported) = GoldEdge(job)
  BY <1>6 DEF GoldEdge
<1>8. Found(u, Restored) /\ Found(d, Restored)
  BY <1>1, <1>4 DEF Found
<1>9. Fitting(Reported, Restored)
  <2>1. /\ Reported \in Jobs /\ Found(Reported.up, Restored) /\ Found(Reported.down, Restored)
    BY <1>6, <1>8, Zenon
  <2>2. \A i \in DOMAIN Reported.probes : Reported.probes[i].edge \in DOMAIN Restored
    BY <1>1, <1>2, <1>6, Zenon
  <2>3. Reported.gold # 0 => GoldEdge(Reported) \in DOMAIN Restored
    BY <1>1, <1>2, <1>6, <1>7, Zenon
  <2>4. /\ Reported.kind \in {"fixed", "escalate"} => Reported.gold # 0
        /\ Reported.kind = "escalate" => Reported.round < EscRounds
    BY <1>2, <1>6, Zenon
  <2> QED BY <2>1, <2>2, <2>3, <2>4, Zenon DEF Fitting
<1> QED BY <1>6, <1>9, Zenon DEF u, d

(* A probe that ends keeps the invariant.                                  *)
LEMMA ProbedStep ==
  ASSUME PredictInv, Probed
  PROVE  PredictInv'
<1>1. /\ run = NoRun /\ job.kind \in {"fixed", "escalate"} /\ InBounds(Restored)
      /\ UNCHANGED calls /\ Proceed(Reported, Restored)
  BY ProbedKinds
<1>2. Fitting(Reported, Restored) /\ Reported.kind = job.kind
  BY ReportedFits, Zenon
<1> QED BY <1>1, <1>2, MeasuredInv

(* The initial graph.                                                      *)
LEMMA InitInv == Init => PredictInv
<1> SUFFICES ASSUME Init
             PROVE  PredictInv
  OBVIOUS
<1>1. /\ tick = 0 /\ phase = "between" /\ queue = {} /\ charge = [n \in Nodes |-> 0]
      /\ lastFired = [n \in Nodes |-> -Refractory] /\ active = {} /\ sending = {}
      /\ run = NoRun /\ job = NoJob /\ calls = 0
  BY DEF Init
<1>2. PICK es \in SUBSET Edges : weight \in [es -> Weights]
  BY DEF Init
<1>3. DOMAIN weight = es /\ InBounds(weight) /\ weight \in [es -> Q8_8]
  <2>1. DOMAIN weight = es /\ es \subseteq Edges
    BY <1>2
  <2>2. weight \in [es -> WMin..WMax]
    BY <1>2, Sizes
  <2>3. WMin..WMax \subseteq Q8_8
    BY Sizes DEF Q8_8
  <2>4. weight \in [es -> Q8_8]
    BY <2>2, <2>3
  <2> QED BY <2>1, <2>2, <2>4 DEF InBounds
<1>4. RunInv /\ RestInv
  BY <1>1, Sizes, KindsOfNodes DEF RunInv, RestInv, NoRun
<1>5. EngineInv
  BY <1>1, <1>4, Sizes DEF EngineInv, Q8_8
<1>6. /\ NoJob \in Jobs /\ NoJob.probes = <<>> /\ NoJob.probed = NoProbe /\ NoJob.gold = 0
      /\ NoJob.up = NoBest /\ NoJob.down = NoBest /\ NoJob.kind = "none"
  BY NothingFits DEF NoJob
<1>7. Fitting(job, weight)
  BY <1>1, <1>6 DEF Fitting, Found, NoBest
<1> QED BY <1>1, <1>3, <1>5, <1>6, <1>7 DEF PredictInv, JobInv

(* Steps of the engine leave the job and the weights alone.                *)
LEMMA JobStays ==
  ASSUME JobInv, UNCHANGED <<weight, job>>, job.kind = "none" => run' = NoRun
  PROVE  JobInv'
<1>1. Restored' = Restored
  BY DEF Restored
<1> QED BY <1>1 DEF JobInv

(* Nothing goes on in the engine when nobody asks.                         *)
LEMMA NoneIdle ==
  ASSUME PredictInv, job.kind = "none"
  PROVE  run.ticks = 0 /\ run.todo = {} /\ phase = "between" /\ queue = {} /\ sending = {}
<1>1. run.ticks = 0 /\ run.todo = {}
  BY DEF PredictInv, JobInv, NoRun
<1> QED BY <1>1 DEF PredictInv, EngineInv, RunInv, PendingNow

(* Every step keeps the invariant.                                         *)
LEMMA PredictStep == PredictInv /\ [Next]_vars => PredictInv'
<1> SUFFICES ASSUME PredictInv, [Next]_vars
             PROVE  PredictInv'
  OBVIOUS
<1>0. EngineInv /\ JobInv
  BY DEF PredictInv
<1>1. CASE BeginTick
  <2>1. UNCHANGED <<weight, job, run>>
    BY <1>1 DEF BeginTick
  <2>2. JobInv'
    BY <1>0, <2>1, JobStays DEF JobInv
  <2> QED BY <1>0, <1>1, <2>2, BeginTickInv DEF PredictInv
<1>2. CASE Activate
  <2>1. UNCHANGED <<weight, job>> /\ run.todo # {}
    BY <1>2 DEF Activate
  <2>2. JobInv'
    BY <1>0, <2>1, JobStays, NoneIdle
  <2> QED BY <1>0, <1>2, <2>2, ActivateInv DEF PredictInv
<1>3. CASE Send
  <2>1. UNCHANGED <<weight, job, run>>
    BY <1>3 DEF Send
  <2>2. JobInv'
    BY <1>0, <2>1, JobStays DEF JobInv
  <2> QED BY <1>0, <1>3, <2>2, SendInv DEF PredictInv
<1>4. CASE EndTick
  <2>1. UNCHANGED <<weight, job>> /\ phase # "between"
    BY <1>4 DEF EndTick, Bag!EndTick
  <2>2. JobInv'
    BY <1>0, <2>1, JobStays, NoneIdle
  <2> QED BY <1>0, <1>4, <2>2, EndTickInv DEF PredictInv
<1>5. ASSUME NEW ev \in queue, Deliver(ev)
      PROVE  PredictInv'
  <2>1. UNCHANGED <<weight, job, run>>
    BY <1>5 DEF Deliver
  <2>2. JobInv'
    BY <1>0, <2>1, JobStays DEF JobInv
  <2> QED BY <1>0, <1>5, <2>2, DeliverInv DEF PredictInv
<1>6. ASSUME NEW k \in 1..Order, Forecast(k)
      PROVE  PredictInv'
  BY <1>6, ForecastInv
<1>7. ASSUME NEW kind \in {"fixed", "escalate"}, NEW k \in 1..Order, NEW gold \in Tokens,
             Teach(kind, k, gold)
      PROVE  PredictInv'
  BY <1>7, TeachInv
<1>8. CASE Read
  BY <1>8, ReadInv
<1>9. CASE Measured
  BY <1>9, MeasuredStep
<1>10. CASE Probed
  BY <1>10, ProbedStep
<1>11. CASE UNCHANGED vars
  <2>1. UNCHANGED <<tick, phase, queue, charge, lastFired, active, sending,
                    weight, run, job, calls>>
    BY <1>11 DEF vars, engineVars, bagVars
  <2>2. JobInv'
    BY <1>0, <2>1, JobStays DEF JobInv
  <2>3. EngineInv'
    BY <1>0, <2>1 DEF EngineInv, RunInv, RestInv
  <2> QED BY <2>2, <2>3 DEF PredictInv
<1> QED BY <1>1, <1>2, <1>3, <1>4, <1>5, <1>6, <1>7, <1>8, <1>9, <1>10, <1>11 DEF Next

(* So it always holds.                                                     *)
LEMMA PredictInvariant == Spec => []PredictInv
<1>1. Init => PredictInv
  BY InitInv
<1>2. PredictInv /\ [Next]_vars => PredictInv'
  BY PredictStep
<1> QED BY <1>1, <1>2, PTL DEF Spec

(* Every variable has its type: the charges and the pending signals stay   *)
(* in Q8.8, what is pending is due in this tick or the next, and all       *)
(* weights are in bounds but for the one that a probe has changed.         *)
THEOREM PredictTyped == Spec => []TypeOK
<1>1. ASSUME PredictInv
      PROVE  TypeOK
  <2>1. EngineInv /\ JobInv /\ RunInv /\ RestInv
    BY <1>1 DEF PredictInv, EngineInv
  <2>2. /\ tick \in Nat /\ phase \in Bag!Phase /\ run.todo \subseteq Contexts /\ run.ticks \in 0..3
    BY <2>1 DEF RunInv, Bag!Phase
  <2>3. /\ charge \in [Nodes -> Bag!Q8_8]
        /\ active \subseteq Nodes /\ sending \subseteq DOMAIN weight
        /\ calls \in 0..MaxCalls
    BY <2>1 DEF EngineInv, Q8_8, Bag!Q8_8
  <2>4. \A n \in Nodes : lastFired[n] \in -Refractory..tick
    BY <2>1 DEF RestInv
  <2>5. queue \subseteq [id : 1..Cap, key : Edges \cup [source : {External}, target : Contexts],
                         due : tick..(tick + 1), sig : Bag!Q8_8]
    <3>1. queue \subseteq PendingNow(run.ticks, tick)
      BY <2>1 DEF EngineInv
    <3>2. Bag!Q8_8 = Q8_8
      BY Zenon DEF Bag!Q8_8, Q8_8
    <3>3. \A ev \in PendingNow(run.ticks, tick) :
            ev \in [id : 1..Cap, key : Edges \cup Acts, due : tick..(tick + 1), sig : Q8_8]
      BY <2>2 DEF PendingNow
    <3> QED BY <3>1, <3>2, <3>3, Zenon DEF Acts
  <2>6. DOMAIN weight \subseteq Edges
    BY <2>1 DEF JobInv
  <2>7. \A e \in DOMAIN weight : weight[e] \in WMin..WMax \/ e = job.probed.edge
    <3>1. CASE job.probed = NoProbe
      BY <2>1, <3>1 DEF JobInv, InBounds
    <3>2. CASE job.probed # NoProbe
      <4>1. InBounds(Restored)
        BY <2>1, <3>2 DEF JobInv
      <4>2. \A e \in DOMAIN weight : e # job.probed.edge => Restored[e] = weight[e]
        BY DEF Restored
      <4>3. DOMAIN Restored = DOMAIN weight
        BY DEF Restored
      <4> QED BY <4>1, <4>2, <4>3 DEF InBounds
    <3> QED BY <3>1, <3>2
  <2>8. /\ job.kind \in {"none", "plain", "fixed", "escalate"}
        /\ job.k \in 0..Order /\ job.gold \in {0} \cup Tokens
    BY <2>1 DEF JobInv, Fitting, Jobs
  <2> QED BY <2>2, <2>3, <2>4, <2>5, <2>6, <2>7, <2>8 DEF TypeOK
<1> QED BY <1>1, PredictInvariant, PTL

-----------------------------------------------------------------------------
(* What a prediction leaves: the votes of one prediction, while no sum of  *)
(* them saturates.  Mine are the edges of the contexts that are asked.     *)
Mine == {e \in DOMAIN weight : e.source <= job.k}
Asked == Built(weight) \cap 1..job.k
Activation(c) == [source |-> External, target |-> c]
Activated(c) == \E ev \in queue : ev.key = Activation(c)
Waiting == {e \in Mine : \E ev \in queue : ev.key = e}

(* A context has fired when it is neither yet to be activated nor pending. *)
Done(c) == c \in Asked /\ c \notin run.todo /\ ~Activated(c)

(* No event twice, no id twice, and every vote is its edge's weight.       *)
Distinct == \A a, b \in queue : a.id = b.id \/ a.key = b.key => a = b
Voting == \A ev \in queue :
            \/ ev.key \in Mine /\ ev.sig = weight[ev.key] /\ weight[ev.key] # 0
            \/ \E c \in Asked : ev.key = Activation(c) /\ ev.sig = One

(* The first tick of a prediction: contexts fire, and send their votes.    *)
Firing ==
  /\ \A n \in Nodes : charge[n] = 0
  /\ run.todo \subseteq Asked
  /\ \A c \in Asked : Activated(c) => c \notin run.todo /\ lastFired[c] + Refractory <= tick
  /\ sending \subseteq {e \in Mine : Done(e.source)}
  /\ Waiting = {e \in Mine : Done(e.source) /\ weight[e] # 0 /\ e \notin sending}

(* The second: the votes are delivered.                                    *)
VotesFor(t) == Votes(weight, job.k, t)
Sum(es) == SumFunctionOnSet(weight, es)
Collecting ==
  /\ \A t \in Tokens : charge[t] = Sum(VotesFor(t) \ Waiting)
  /\ phase = "between" => \A t \in Tokens : VotesFor(t) \subseteq Waiting
  /\ phase # "between" => /\ \A t \in Tokens : t \in active \/ VotesFor(t) \subseteq Waiting
                          /\ \A t \in active : t \in Tokens /\ VotesFor(t) # {}

(* The third changes nothing any more.                                     *)
Collected ==
  /\ \A t \in Tokens : charge[t] = Leaked(Sum(VotesFor(t)))
  /\ phase # "between" => active = {}

StageInv ==
  /\ Distinct /\ Voting
  /\ run.ticks = 3 => Firing
  /\ run.ticks = 2 => Collecting
  /\ run.ticks < 2 => Collected

VotesInv == job.kind # "none" /\ Fits(weight, job.k) => StageInv

(* Total is the library's sum.                                             *)
LEMMA TotalIsSum ==
  ASSUME NEW w, NEW es, IsFiniteSet(es), \A e \in es : w[e] \in Int
  PROVE  Total(w, es) = SumFunctionOnSet(w, es) /\ Total(w, es) \in Int
<1> DEFINE f == [e \in es |-> w[e]]
<1>1. Total(w, es) = SumFunctionOnSet(f, DOMAIN f)
  BY Zenon DEF Total, SumFunction
<1>2. DOMAIN f = es /\ \A e \in es : f[e] \in Int /\ f[e] = w[e]
  OBVIOUS
<1> HIDE DEF f
<1>3. SumFunctionOnSet(f, es) = SumFunctionOnSet(w, es)
  BY <1>2, SumSame, Zenon
<1>4. SumFunctionOnSet(w, es) \in Int
  BY SumInt, Zenon
<1> QED BY <1>1, <1>2, <1>3, <1>4, Zenon

(* Sets of existing edges are finite, and their weights integers.          *)
LEMMA EdgeSets ==
  ASSUME NEW w, DOMAIN w \subseteq Edges, \A e \in DOMAIN w : w[e] \in Int,
         NEW es, es \subseteq DOMAIN w
  PROVE  /\ IsFiniteSet(es) /\ SumFunctionOnSet(w, es) \in Int
         /\ Total(w, es) = SumFunctionOnSet(w, es)
<1>1. IsFiniteSet(es)
  <2>1. es \subseteq Edges
    OBVIOUS
  <2> QED BY <2>1, EdgesFinite, FS_Subset, Zenon
<1>2. \A e \in es : w[e] \in Int
  OBVIOUS
<1> QED BY <1>1, <1>2, TotalIsSum, Zenon

(* No part of the votes for a token has a sum that saturates.              *)
LEMMA PartsFit ==
  ASSUME NEW w, DOMAIN w \subseteq Edges, \A e \in DOMAIN w : w[e] \in Int,
         NEW k, Fits(w, k), NEW t \in Tokens, NEW es, es \subseteq Votes(w, k, t)
  PROVE  /\ SumFunctionOnSet(w, es) \in Int
         /\ SumFunctionOnSet(w, es) < SigMax /\ SumFunctionOnSet(w, es) > -SigMax
<1> DEFINE vs == Votes(w, k, t)
           up == {e \in vs : w[e] > 0}
           down == {e \in vs : w[e] < 0}
           pos == {e \in es : w[e] > 0}
           neg == {e \in es : w[e] < 0}
           s(x) == SumFunctionOnSet(w, x)
<1>1. /\ vs \subseteq DOMAIN w /\ up \subseteq vs /\ down \subseteq vs
      /\ es \subseteq vs /\ pos \subseteq up /\ neg \subseteq down
      /\ pos \subseteq es /\ es \ pos = neg
  BY DEF Votes
<1>2. \A x \in SUBSET vs : IsFiniteSet(x) /\ s(x) \in Int /\ Total(w, x) = s(x)
  <2>1. \A x \in SUBSET vs : x \subseteq DOMAIN w
    BY <1>1
  <2> QED BY <2>1, EdgeSets, Zenon
<1>3. Total(w, up) < SigMax /\ Total(w, down) > -SigMax
  BY Zenon DEF Fits
<1>4. ASSUME NEW x \in SUBSET vs, NEW y \in SUBSET x
      PROVE  s(x) = s(y) + s(x \ y) /\ y \in SUBSET vs /\ x \ y \in SUBSET vs
  <2>1. \A e \in x : w[e] \in Int
    BY <1>1
  <2>2. IsFiniteSet(x)
    BY <1>2, Zenon
  <2>3. SumFunctionOnSet(w, x) = SumFunctionOnSet(w, y) + SumFunctionOnSet(w, x \ y)
    BY <2>1, <2>2, SumSplit
  <2> QED BY <2>3
<1>5. ASSUME NEW x \in SUBSET vs
      PROVE  /\ (\A e \in x : w[e] >= 0) => s(x) >= 0
             /\ (\A e \in x : w[e] <= 0) => s(x) <= 0
  <2>1. \A e \in x : w[e] \in Int
    BY <1>1
  <2> QED BY <1>2, <2>1, SumSigns, Zenon
<1>6. s(es) = s(pos) + s(neg) /\ s(pos) \in Int /\ s(neg) \in Int /\ s(es) \in Int
  <2>1. es \in SUBSET vs /\ pos \in SUBSET es
    BY <1>1
  <2> HIDE DEF vs, pos, neg, s
  <2> QED BY <1>1, <1>2, <1>4, <2>1
<1>7. s(up) = s(pos) + s(up \ pos) /\ s(up \ pos) >= 0 /\ s(pos) >= 0 /\ s(up \ pos) \in Int
  <2>1. up \in SUBSET vs /\ pos \in SUBSET up
    BY <1>1
  <2>2. pos \in SUBSET vs /\ up \ pos \in SUBSET vs
    BY <2>1
  <2>3. \A e \in up : w[e] >= 0
    BY <1>1
  <2>4. (\A e \in pos : w[e] >= 0) /\ (\A e \in up \ pos : w[e] >= 0)
    BY <2>1, <2>3
  <2> HIDE DEF vs, pos, up, s
  <2> QED BY <1>2, <1>4, <1>5, <2>1, <2>2, <2>4
<1>8. s(down) = s(neg) + s(down \ neg) /\ s(down \ neg) <= 0 /\ s(neg) <= 0 /\ s(down \ neg) \in Int
  <2>1. down \in SUBSET vs /\ neg \in SUBSET down
    BY <1>1
  <2>2. neg \in SUBSET vs /\ down \ neg \in SUBSET vs
    BY <2>1
  <2>3. \A e \in down : w[e] <= 0
    BY <1>1
  <2>4. (\A e \in neg : w[e] <= 0) /\ (\A e \in down \ neg : w[e] <= 0)
    BY <2>1, <2>3
  <2> HIDE DEF vs, neg, down, s
  <2> QED BY <1>2, <1>4, <1>5, <2>1, <2>2, <2>4
<1>9. s(up) < SigMax /\ s(down) > -SigMax
  <2>1. up \in SUBSET vs /\ down \in SUBSET vs
    BY <1>1
  <2> HIDE DEF vs, down, up, s
  <2> QED BY <1>2, <1>3, <2>1
<1> HIDE DEF vs, down, up, pos, neg, s
<1>10. s(es) \in Int /\ s(es) < SigMax /\ s(es) > -SigMax
  BY <1>6, <1>7, <1>8, <1>9, Sizes
<1> QED BY <1>10 DEF s

(* The keys of activations and of votes.                                   *)
LEMMA KeysApart ==
  ASSUME JobInv
  PROVE  /\ Mine \subseteq DOMAIN weight /\ Mine \subseteq Edges /\ Asked \subseteq Contexts
         /\ \A c \in Contexts : Activation(c) \in Acts /\ Activation(c).target = c
                                /\ Activation(c) \notin Edges
         /\ \A c, d \in Contexts : Activation(c) = Activation(d) => c = d
         /\ \A e \in DOMAIN weight : weight[e] \in Int
<1>1. DOMAIN weight \subseteq Edges /\ \A e \in DOMAIN weight : weight[e] \in Int
  BY Sizes DEF JobInv, Q8_8
<1>2. Mine \subseteq DOMAIN weight
  BY DEF Mine
<1>3. Asked \subseteq Contexts
  BY <1>1, KindsOfNodes DEF Asked, Built
<1>4. \A c \in Contexts : Activation(c) \in Acts /\ Activation(c).target = c
                          /\ Activation(c) \notin Edges
  BY KindsOfNodes DEF Activation, Acts
<1> QED BY <1>1, <1>2, <1>3, <1>4, Zenon

(* An edge that stands for a pending event: a vote's own, and for an       *)
(* activation one that its context will send along.                        *)
Stand(key) == IF key \in Edges THEN key ELSE CHOOSE e \in Mine : e.source = key.target

(* While an edge of this prediction is neither pending nor its context     *)
(* still to fire, the queue is not full.                                   *)
LEMMA Room ==
  ASSUME JobInv, Fits(weight, job.k), Distinct, Voting, Firing,
         NEW e \in Mine, e \notin Waiting, ~Activated(e.source)
  PROVE  Bag!UsedIds(queue) # Bag!Ids
<1> DEFINE f == [ev \in queue |-> Stand(ev.key)]
           g == [ev \in queue |-> ev.id]
<1>1. /\ Mine \subseteq DOMAIN weight /\ Mine \subseteq Edges /\ Asked \subseteq Contexts
      /\ \A c \in Contexts : Activation(c) \in Acts /\ Activation(c).target = c
                             /\ Activation(c) \notin Edges
      /\ \A c, d \in Contexts : Activation(c) = Activation(d) => c = d
  BY KeysApart, Zenon
<1>2. ASSUME NEW c \in Asked
      PROVE  Stand(Activation(c)) \in Mine /\ Stand(Activation(c)).source = c
  <2>1. \E d \in Mine : d.source = c
    BY DEF Asked, Built, Mine
  <2>2. Stand(Activation(c)) = CHOOSE d \in Mine : d.source = c
    BY <1>1, Zenon DEF Stand
  <2> QED BY <2>1, <2>2, Zenon
<1>3. \A d \in Mine : Stand(d) = d
  BY <1>1, Zenon DEF Stand
<1>4. \A ev \in queue : \/ ev.key \in Mine
                        \/ \E c \in Asked : ev.key = Activation(c)
  BY Zenon DEF Voting
<1>5. \A ev \in queue : f[ev] \in Mine \ {e}
  <2> SUFFICES ASSUME NEW ev \in queue
               PROVE  Stand(ev.key) \in Mine /\ Stand(ev.key) # e
    BY Zenon
  <2>1. CASE ev.key \in Mine
    <3>1. Stand(ev.key) = ev.key /\ ev.key \in Waiting
      BY <1>3, <2>1, Zenon DEF Waiting
    <3> QED BY <2>1, <3>1, Zenon
  <2>2. ASSUME NEW c \in Asked, ev.key = Activation(c)
        PROVE  Stand(ev.key) \in Mine /\ Stand(ev.key) # e
    <3>1. Activated(c)
      BY <2>2, Zenon DEF Activated
    <3> QED BY <1>2, <2>2, <3>1, Zenon
  <2> QED BY <1>4, <2>1, <2>2, Zenon
<1>6. ASSUME NEW a \in queue, NEW b \in queue, f[a] = f[b]
      PROVE  a = b
  <2>0. Stand(a.key) = Stand(b.key)
    BY <1>6, Zenon
  <2>1. ASSUME NEW v \in queue, v.key \in Mine, NEW c \in Asked, Activated(c)
        PROVE  v.key.source # c
    <3>1. v.key \in Waiting
      BY <2>1, Zenon DEF Waiting
    <3>2. Done(v.key.source)
      BY <3>1 DEF Firing
    <3> QED BY <2>1, <3>2, Zenon DEF Done
  <2>2. CASE a.key \in Mine /\ b.key \in Mine
    BY <1>3, <2>0, <2>2, Zenon DEF Distinct
  <2>3. ASSUME NEW v \in queue, NEW u \in queue, v.key \in Mine, Stand(v.key) = Stand(u.key),
               NEW c \in Asked, u.key = Activation(c)
        PROVE  FALSE
    <3>1. Activated(c)
      BY <2>3, Zenon DEF Activated
    <3>2. Stand(v.key) = v.key /\ Stand(u.key).source = c
      BY <1>2, <1>3, <2>3, Zenon
    <3> QED BY <2>1, <2>3, <3>1, <3>2, Zenon
  <2>4. ASSUME NEW c \in Asked, NEW d \in Asked, a.key = Activation(c), b.key = Activation(d)
        PROVE  a = b
    <3>1. c = d
      BY <1>2, <2>0, <2>4, Zenon
    <3> QED BY <2>4, <3>1, Zenon DEF Distinct
  <2> QED BY <1>4, <2>0, <2>2, <2>3, <2>4, Zenon
<1>7. f \in Injection(queue, Mine \ {e})
  <2>1. f \in [queue -> Mine \ {e}]
    BY <1>5, Zenon
  <2>2. \A a, b \in queue : f[a] = f[b] => a = b
    BY <1>6, Zenon
  <2> HIDE DEF f
  <2> QED BY <2>1, <2>2 DEF Injection, IsInjective
<1>8. IsFiniteSet(Mine) /\ Cardinality(Mine) <= Cap /\ Cardinality(Mine) \in Nat
  <2>1. Cardinality(Mine) <= Cap
    BY DEF Fits, Mine
  <2>2. IsFiniteSet(Mine)
    BY <1>1, EdgesFinite, FS_Subset, Zenon
  <2> QED BY <2>1, <2>2, FS_CardinalityType, Zenon
<1>9. IsFiniteSet(Mine \ {e}) /\ Cardinality(Mine \ {e}) = Cardinality(Mine) - 1
  BY <1>8, FS_RemoveElement
<1>10. IsFiniteSet(queue) /\ Cardinality(queue) <= Cap - 1
  <2>1. IsFiniteSet(queue) /\ Cardinality(queue) <= Cardinality(Mine \ {e})
    BY <1>7, <1>9, FS_Injection, Zenon
  <2>2. Cardinality(queue) \in Nat
    BY <2>1, FS_CardinalityType, Zenon
  <2> QED BY <1>8, <1>9, <2>1, <2>2, Sizes
<1>11. Cardinality(Bag!UsedIds(queue)) <= Cardinality(queue)
       /\ Cardinality(Bag!UsedIds(queue)) \in Nat /\ Cardinality(queue) \in Nat
  <2>1. Bag!UsedIds(queue) = {ev.id : ev \in queue}
    BY Zenon DEF Bag!UsedIds
  <2>2. g \in Surjection(queue, Bag!UsedIds(queue))
    BY <2>1 DEF Surjection
  <2>3. IsFiniteSet(Bag!UsedIds(queue)) /\ Cardinality(Bag!UsedIds(queue)) <= Cardinality(queue)
    BY <1>10, <2>2, FS_Surjection, Zenon
  <2> QED BY <1>10, <2>3, FS_CardinalityType, Zenon
<1>12. Cardinality(Bag!Ids) = Cap
  BY Sizes, FS_Interval DEF Bag!Ids
<1>13. Cardinality(Bag!UsedIds(queue)) # Cardinality(Bag!Ids)
  BY <1>10, <1>11, <1>12, Sizes
<1> QED BY <1>13, Zenon

(* Then what is pushed enters the queue.                                   *)
LEMMA PushInserts ==
  ASSUME tick \in Nat, NEW key, NEW due \in {tick, tick + 1}, NEW sig, Bag!Push(key, due, sig),
         Bag!UsedIds(queue) # Bag!Ids
  PROVE  \E id \in 1..Cap : /\ \A ev \in queue : ev.id # id
                            /\ queue' = queue \cup {[id |-> id, key |-> key, due |-> due,
                                                     sig |-> sig]}
<1>1. ~Bag!Stale(due, tick)
  BY DEF Bag!Stale
<1>2. Bag!Insert(key, due, sig)
  BY <1>1, Zenon DEF Bag!Push, Bag!Refuse, Bag!Evict
<1>3. PICK id \in Bag!Ids \ Bag!UsedIds(queue) :
             queue' = queue \cup {[id |-> id, key |-> key, due |-> due, sig |-> sig]}
  BY <1>2, Zenon DEF Bag!Insert
<1>4. id \in 1..Cap /\ \A ev \in queue : ev.id # id
  BY DEF Bag!Ids, Bag!UsedIds
<1> QED BY <1>3, <1>4, Zenon

(* An event with a new id and a new key leaves them distinct.              *)
LEMMA Inserted ==
  ASSUME Distinct, NEW new, queue' = queue \cup {new},
         \A ev \in queue : ev.id # new.id /\ ev.key # new.key
  PROVE  Distinct'
BY DEF Distinct

(* A context is activated.                                                 *)
LEMMA ActivateVotes ==
  ASSUME PredictInv, Fits(weight, job.k), StageInv, Activate
  PROVE  StageInv'
<1> DEFINE c == Min(run.todo)
<1>1. /\ EngineInv /\ JobInv /\ RunInv /\ RestInv /\ Distinct /\ Voting
  BY DEF PredictInv, EngineInv, StageInv
<1>2. run.todo # {} /\ run.todo \subseteq Contexts /\ run.ticks = 3 /\ phase = "between"
      /\ sending = {} /\ tick \in Nat /\ run \in [todo : SUBSET Contexts, ticks : 0..3]
  BY <1>1 DEF Activate, RunInv
<1>3. Firing
  BY <1>2 DEF StageInv
<1>4. c \in run.todo
  BY <1>2, MinContext, Zenon
<1>5. /\ Bag!Push(Activation(c), tick, One) /\ run' = [run EXCEPT !.todo = @ \ {c}]
      /\ UNCHANGED <<tick, phase, charge, lastFired, active, sending, weight, job, calls>>
  BY DEF Activate, Bag!Activate, Activation
<1> HIDE DEF c
<1>6. run'.ticks = 3 /\ run'.todo = run.todo \ {c}
  BY <1>2, <1>5
<1>7. c \in Asked /\ c \in Contexts /\ ~Activated(c)
  <2>1. c \in Asked
    BY <1>3, <1>4 DEF Firing
  <2>2. ~Activated(c)
    BY <1>3, <1>4, <2>1, Zenon DEF Firing
  <2> QED BY <1>2, <1>4, <2>1, <2>2
<1>8. /\ Mine \subseteq DOMAIN weight /\ Mine \subseteq Edges /\ Asked \subseteq Contexts
      /\ \A d \in Contexts : Activation(d) \in Acts /\ Activation(d).target = d
                             /\ Activation(d) \notin Edges
      /\ \A a, b \in Contexts : Activation(a) = Activation(b) => a = b
  BY <1>1, KeysApart, Zenon
<1>9. PICK e \in Mine : e.source = c
  BY <1>7 DEF Asked, Built, Mine
<1>10. e \notin Waiting
  BY <1>3, <1>4, <1>9 DEF Firing, Done
<1>11. Bag!UsedIds(queue) # Bag!Ids
  BY <1>1, <1>3, <1>7, <1>9, <1>10, Room, Zenon
<1>12. PICK id \in 1..Cap : /\ \A ev \in queue : ev.id # id
                            /\ queue' = queue \cup {[id |-> id, key |-> Activation(c), due |-> tick,
                                                     sig |-> One]}
  BY <1>2, <1>5, <1>11, PushInserts
<1> DEFINE new == [id |-> id, key |-> Activation(c), due |-> tick, sig |-> One]
<1>13. queue' = queue \cup {new} /\ new.id = id /\ new.key = Activation(c) /\ new.sig = One
  BY <1>12
<1> HIDE DEF new
<1>14. \A ev \in queue : ev.id # new.id /\ ev.key # new.key
  BY <1>7, <1>12, <1>13, Zenon DEF Activated
<1>15. Distinct'
  BY <1>1, <1>13, <1>14, Inserted, Zenon
<1>16. Mine' = Mine /\ Asked' = Asked /\ weight' = weight
  BY <1>5, Zenon DEF Mine, Asked
<1>17. Voting'
  BY <1>1, <1>7, <1>13, <1>16, Zenon DEF Voting
<1>18. \A d \in Contexts : Activated(d)' <=> Activated(d) \/ d = c
  BY <1>7, <1>8, <1>13, Zenon DEF Activated
<1>19. Waiting' = Waiting
  <2>1. new.key \notin Mine
    BY <1>7, <1>8, <1>13, Zenon
  <2> QED BY <1>13, <1>16, <2>1 DEF Waiting
<1>20. \A d : Done(d)' <=> Done(d)
  <2>1. \A d \in Asked : d \in run'.todo \/ Activated(d)' <=> d \in run.todo \/ Activated(d)
    BY <1>4, <1>6, <1>8, <1>18
  <2> QED BY <1>16, <2>1, Zenon DEF Done
<1>21. Firing'
  <2>1. /\ \A n \in Nodes : charge'[n] = 0
        /\ run'.todo \subseteq Asked'
    BY <1>3, <1>5, <1>6, <1>16 DEF Firing
  <2>2. \A d \in Asked : Activated(d)' => d \notin run'.todo /\ lastFired'[d] + Refractory <= tick'
    <3>1. \A d \in Asked : lastFired[d] + Refractory <= tick
      BY <1>1, <1>2, <1>8 DEF RestInv
    <3>2. \A d \in Asked : Activated(d) => d \notin run.todo
      BY <1>3 DEF Firing
    <3> QED BY <1>5, <1>6, <1>8, <1>18, <3>1, <3>2
  <2>3. sending' \subseteq {d \in Mine' : Done(d.source)'}
    BY <1>2, <1>5
  <2>4. Waiting' = {d \in Mine' : Done(d.source)' /\ weight'[d] # 0 /\ d \notin sending'}
    BY <1>3, <1>5, <1>16, <1>19, <1>20 DEF Firing
  <2> QED BY <1>16, <2>1, <2>2, <2>3, <2>4 DEF Firing
<1> QED BY <1>6, <1>15, <1>17, <1>21 DEF StageInv

(* A vote is sent, or an edge has none.                                    *)
LEMMA SendVotes ==
  ASSUME PredictInv, Fits(weight, job.k), StageInv, Send
  PROVE  StageInv'
<1> DEFINE e == FirstOf(sending)
<1>1. EngineInv /\ JobInv /\ RunInv /\ Distinct /\ Voting /\ tick \in Nat
  BY DEF PredictInv, EngineInv, RunInv, StageInv
<1>2. /\ e \in sending /\ sending \subseteq DOMAIN weight /\ run.ticks = 3
      /\ IF weight[e] = 0 THEN UNCHANGED bagVars ELSE Bag!Emit(e, 1, weight[e])
      /\ sending' = sending \ {e}
      /\ UNCHANGED <<tick, phase, charge, lastFired, active, weight, run, job>>
  BY <1>1, SendEffect, Zenon
<1> HIDE DEF e
<1>3. Firing
  BY <1>2 DEF StageInv
<1>4. e \in Mine /\ Done(e.source)
  BY <1>2, <1>3 DEF Firing
<1>5. e \notin Waiting /\ ~Activated(e.source)
  BY <1>2, <1>3, <1>4 DEF Firing, Done
<1>6. Mine' = Mine /\ Asked' = Asked /\ weight' = weight
  BY <1>2, Zenon DEF Mine, Asked
<1>7. CASE weight[e] = 0
  <2>1. queue' = queue
    BY <1>2, <1>7 DEF bagVars
  <2>2. Distinct' /\ Voting'
    BY <1>1, <1>6, <2>1 DEF Distinct, Voting
  <2>3. Waiting' = Waiting /\ \A d : Activated(d)' <=> Activated(d)
    BY <1>6, <2>1, Zenon DEF Waiting, Activated
  <2>4. \A d : Done(d)' <=> Done(d)
    BY <1>2, <1>6, <2>3, Zenon DEF Done
  <2>5. Firing'
    <3>1. /\ \A n \in Nodes : charge'[n] = 0
          /\ run'.todo \subseteq Asked'
          /\ \A c \in Asked' : Activated(c)' =>
               c \notin run'.todo /\ lastFired'[c] + Refractory <= tick'
      BY <1>2, <1>3, <1>6, <2>3 DEF Firing
    <3>2. sending' \subseteq {d \in Mine' : Done(d.source)'}
      BY <1>2, <1>3, <1>6, <2>4 DEF Firing
    <3>3. Waiting' = {d \in Mine' : Done(d.source)' /\ weight'[d] # 0 /\ d \notin sending'}
      BY <1>2, <1>3, <1>6, <1>7, <2>3, <2>4 DEF Firing
    <3> QED BY <3>1, <3>2, <3>3 DEF Firing
  <2> QED BY <1>2, <2>2, <2>5 DEF StageInv
<1>8. CASE weight[e] # 0
  <2>1. Bag!Push(e, tick + 1, weight[e])
    <3>1. \A ev \in queue : ~Bag!Mergeable(ev, e, tick + 1)
      BY <1>4, <1>5, Zenon DEF Bag!Mergeable, Waiting
    <3>2. Bag!Emit(e, 1, weight[e])
      BY <1>2, <1>8
    <3> QED BY <3>1, <3>2, Zenon DEF Bag!Emit, Bag!Merge
  <2>2. Bag!UsedIds(queue) # Bag!Ids
    BY <1>1, <1>3, <1>4, <1>5, Room, Zenon
  <2>3. PICK id \in 1..Cap : /\ \A ev \in queue : ev.id # id
                             /\ queue' = queue \cup {[id |-> id, key |-> e, due |-> tick + 1,
                                                      sig |-> weight[e]]}
    BY <1>1, <2>1, <2>2, PushInserts
  <2> DEFINE new == [id |-> id, key |-> e, due |-> tick + 1, sig |-> weight[e]]
  <2>4. queue' = queue \cup {new} /\ new.id = id /\ new.key = e /\ new.sig = weight[e]
    BY <2>3
  <2> HIDE DEF new
  <2>5. \A ev \in queue : ev.id # new.id /\ ev.key # new.key
    BY <1>4, <1>5, <2>3, <2>4, Zenon DEF Waiting
  <2>6. Distinct'
    BY <1>1, <2>4, <2>5, Inserted, Zenon
  <2>7. Voting'
    BY <1>1, <1>4, <1>6, <1>8, <2>4, Zenon DEF Voting
  <2>8. /\ Mine \subseteq Edges /\ Asked \subseteq Contexts
        /\ \A d \in Contexts : Activation(d) \notin Edges
    BY <1>1, KeysApart, Zenon
  <2>9. \A d \in Asked : Activated(d)' <=> Activated(d)
    BY <1>4, <2>4, <2>8, Zenon DEF Activated
  <2>10. \A d : Done(d)' <=> Done(d)
    BY <1>2, <1>6, <2>9, Zenon DEF Done
  <2>11. Waiting' = Waiting \cup {e}
    BY <1>4, <1>6, <2>4 DEF Waiting
  <2>12. Firing'
    <3>1. /\ \A n \in Nodes : charge'[n] = 0
          /\ run'.todo \subseteq Asked'
          /\ \A c \in Asked' : Activated(c)' =>
               c \notin run'.todo /\ lastFired'[c] + Refractory <= tick'
      BY <1>2, <1>3, <1>6, <2>9 DEF Firing
    <3>2. sending' \subseteq {d \in Mine' : Done(d.source)'}
      BY <1>2, <1>3, <1>6, <2>10 DEF Firing
    <3>3. Waiting' = {d \in Mine' : Done(d.source)' /\ weight'[d] # 0 /\ d \notin sending'}
      BY <1>2, <1>3, <1>4, <1>6, <1>8, <2>10, <2>11 DEF Firing
    <3> QED BY <3>1, <3>2, <3>3 DEF Firing
  <2> QED BY <1>2, <2>6, <2>7, <2>12 DEF StageInv
<1> QED BY <1>7, <1>8

(* What is left after a delivery is still distinct, and still votes.       *)
LEMMA Delivered ==
  ASSUME Distinct, Voting, NEW ev \in queue, queue' = queue \ {ev}, UNCHANGED <<weight, job>>
  PROVE  Distinct' /\ Voting' /\ Mine' = Mine /\ Asked' = Asked
<1>1. Mine' = Mine /\ Asked' = Asked /\ weight' = weight
  BY Zenon DEF Mine, Asked
<1>2. \A a \in queue' : a \in queue
  OBVIOUS
<1>3. Distinct'
  BY <1>2, Zenon DEF Distinct
<1>4. Voting'
  BY <1>1, <1>2, Zenon DEF Voting
<1> QED BY <1>1, <1>3, <1>4

(* In the first tick a context fires.                                      *)
LEMMA DeliverFires ==
  ASSUME PredictInv, Fits(weight, job.k), StageInv, NEW ev \in queue, Deliver(ev), run.ticks = 3
  PROVE  StageInv'
<1> DEFINE n == ev.key.target
           v == Bag!SatAdd(charge[n], ev.sig)
           fires == ~RefractoryActive(n) /\ v >= Theta(n)
<1>1. EngineInv /\ JobInv /\ RestInv /\ Distinct /\ Voting /\ Firing
  BY DEF PredictInv, EngineInv, StageInv
<1>2. /\ phase \in {"drain", "fire"} /\ phase' = "fire"
      /\ queue' = queue \ {ev} /\ run.todo = {} /\ tick \in Nat
      /\ ev.key \in Acts /\ sending = {}
  <2>1. run.ticks # 2
    OBVIOUS
  <2> QED BY <1>1, <2>1, Deliverable, Zenon
<1>3. /\ charge' = [charge EXCEPT ![n] = IF fires THEN 0 ELSE v]
      /\ lastFired' = (IF fires THEN [lastFired EXCEPT ![n] = tick] ELSE lastFired)
      /\ sending' = (IF fires THEN OutOf(n) ELSE {})
      /\ UNCHANGED <<tick, weight, run, job, calls>>
  BY Zenon DEF Deliver, Bag!Deliver
<1>4. /\ Mine \subseteq Edges /\ Asked \subseteq Contexts
      /\ \A d \in Contexts : Activation(d) \in Acts /\ Activation(d).target = d
                             /\ Activation(d) \notin Edges
      /\ \A a, b \in Contexts : Activation(a) = Activation(b) => a = b
  BY <1>1, KeysApart, Zenon
<1>5. ev.key \notin Edges
  BY <1>2, KindsOfNodes, Zenon
<1>6. PICK c \in Asked : ev.key = Activation(c) /\ ev.sig = One
  BY <1>1, <1>4, <1>5, Zenon DEF Voting
<1>7. n = c /\ c \in Contexts /\ c \in Nodes
  BY <1>4, <1>6, KindsOfNodes
<1>8. Activated(c)
  BY <1>6, Zenon DEF Activated
<1>9. fires
  <2>1. lastFired[c] + Refractory <= tick /\ lastFired[c] \in Int
    BY <1>1, <1>7, <1>8 DEF Firing, RestInv
  <2>2. ~RefractoryActive(n)
    BY <1>2, <1>7, <2>1, Sizes DEF RefractoryActive
  <2>3. charge[n] = 0
    BY <1>1, <1>7 DEF Firing
  <2>4. v = One
    BY <1>6, <2>3, Sizes DEF Bag!SatAdd
  <2>5. Theta(n) = One
    BY <1>7 DEF Theta
  <2> QED BY <2>2, <2>4, <2>5, Sizes
<1>10. /\ charge' = [charge EXCEPT ![c] = 0] /\ lastFired' = [lastFired EXCEPT ![c] = tick]
       /\ sending' = OutOf(c)
  BY <1>3, <1>7, <1>9
<1> HIDE DEF n, v, fires
<1>11. Distinct' /\ Voting' /\ Mine' = Mine /\ Asked' = Asked /\ weight' = weight
  BY <1>1, <1>2, <1>3, Delivered
<1>12. \A d \in Asked : Activated(d)' <=> Activated(d) /\ d # c
  <2>1. ~Activated(c)'
    BY <1>1, <1>2, <1>6 DEF Distinct, Activated
  <2>2. \A d \in Asked : d # c => Activation(d) # Activation(c)
    BY <1>4
  <2>3. \A d \in Asked : d # c => (Activated(d)' <=> Activated(d))
    BY <1>2, <1>6, <2>2 DEF Activated
  <2> QED BY <2>1, <2>3, Zenon
<1>13. Waiting' = Waiting
  <2>1. ev.key \notin Mine
    BY <1>4, <1>5
  <2> QED BY <1>2, <1>11, <2>1 DEF Waiting
<1>14. \A d : Done(d)' <=> Done(d) \/ d = c
  BY <1>2, <1>3, <1>11, <1>12, Zenon DEF Done
<1>15. ~Done(c)
  BY <1>8 DEF Done
<1>16. Firing'
  <2>1. \A m \in Nodes : charge'[m] = 0
    BY <1>1, <1>10 DEF Firing, EngineInv
  <2>2. run'.todo \subseteq Asked'
    BY <1>2, <1>3
  <2>3. \A d \in Asked' : Activated(d)' => d \notin run'.todo /\ lastFired'[d] + Refractory <= tick'
    <3>1. \A d \in Asked : Activated(d) => lastFired[d] + Refractory <= tick
      BY <1>1 DEF Firing
    <3>2. \A d \in Asked : d # c => lastFired'[d] = lastFired[d]
      BY <1>1, <1>4, <1>10, KindsOfNodes DEF RestInv
    <3> QED BY <1>2, <1>3, <1>11, <1>12, <3>1, <3>2
  <2>4. sending' \subseteq {e \in Mine' : Done(e.source)'}
    <3>1. \A e \in OutOf(c) : e.source = c /\ e \in Mine
      BY <1>6 DEF OutOf, Mine, Asked
    <3> QED BY <1>10, <1>11, <1>14, <3>1
  <2>5. Waiting' = {e \in Mine' : Done(e.source)' /\ weight'[e] # 0 /\ e \notin sending'}
    <3>1. \A e \in Mine : e \in OutOf(c) <=> e.source = c
      BY DEF OutOf, Mine
    <3>2. Waiting = {e \in Mine : Done(e.source) /\ weight[e] # 0 /\ e \notin sending}
      BY <1>1 DEF Firing
    <3>3. \A e \in Mine : Done(e.source) <=> Done(e.source)' /\ e \notin sending'
      BY <1>10, <1>14, <1>15, <3>1, Zenon
    <3> QED BY <1>2, <1>11, <1>13, <3>2, <3>3
  <2> QED BY <2>1, <2>2, <2>3, <2>4, <2>5 DEF Firing
<1>17. run'.ticks = 3
  BY <1>3
<1> QED BY <1>11, <1>16, <1>17 DEF StageInv

(* A subset of a finite set that lacks an element is smaller.              *)
LEMMA Smaller ==
  ASSUME NEW S, IsFiniteSet(S), NEW T, T \subseteq S, NEW x \in S, x \notin T
  PROVE  Cardinality(T) < Cardinality(S)
<1>1. IsFiniteSet(T) /\ Cardinality(T) <= Cardinality(S) /\ Cardinality(T) # Cardinality(S)
  BY FS_Subset, Zenon
<1>2. Cardinality(T) \in Nat /\ Cardinality(S) \in Nat
  BY <1>1, FS_CardinalityType, Zenon
<1> QED BY <1>1, <1>2

(* In the second tick a token takes a vote.                                *)
LEMMA DeliverVotes ==
  ASSUME PredictInv, Fits(weight, job.k), StageInv, NEW ev \in queue, Deliver(ev), run.ticks = 2
  PROVE  StageInv'
<1> DEFINE t == ev.key.target
           e == ev.key
           v == Bag!SatAdd(charge[t], ev.sig)
           fires == ~RefractoryActive(t) /\ v >= Theta(t)
<1>1. EngineInv /\ JobInv /\ Distinct /\ Voting /\ Collecting
  BY DEF PredictInv, EngineInv, StageInv
<1>2. /\ phase \in {"drain", "fire"} /\ phase' = "fire"
      /\ queue' = queue \ {ev} /\ tick \in Nat /\ e \in Edges
  <2>1. run.ticks # 3
    OBVIOUS
  <2> QED BY <1>1, <2>1, Deliverable, Zenon
<1>3. /\ active' = MarkActive(t)
      /\ charge' = [charge EXCEPT ![t] = IF fires THEN 0 ELSE v]
      /\ UNCHANGED <<tick, weight, run, job, calls>>
  BY Zenon DEF Deliver, Bag!Deliver
<1>4. /\ Mine \subseteq DOMAIN weight /\ Mine \subseteq Edges /\ Asked \subseteq Contexts
      /\ \A d \in Contexts : Activation(d) \notin Edges
      /\ \A d \in DOMAIN weight : weight[d] \in Int /\ DOMAIN weight \subseteq Edges
  BY <1>1, KeysApart, Zenon DEF JobInv
<1>5. e \in Mine /\ ev.sig = weight[e] /\ weight[e] # 0 /\ weight[e] \in Int
  BY <1>1, <1>2, <1>4, Zenon DEF Voting
<1>6. t \in Tokens /\ t \in Nodes /\ t \notin Contexts
  BY <1>2, KindsOfNodes
<1>7. e \in VotesFor(t) /\ e \in Waiting
  BY <1>5 DEF VotesFor, Votes, Mine, Waiting
<1> DEFINE got == VotesFor(t) \ Waiting
           now == got \cup {e}
<1>8. now \subseteq VotesFor(t) /\ got \subseteq VotesFor(t) /\ e \notin got /\ now \ {e} = got
  BY <1>7
<1>9. Sum(now) = weight[e] + Sum(got)
  <2>1. VotesFor(t) \subseteq DOMAIN weight
    BY DEF VotesFor, Votes
  <2>2. IsFiniteSet(now) /\ \A d \in now : weight[d] \in Int
    BY <1>4, <1>8, <2>1, EdgeSets
  <2> HIDE DEF now, got, e
  <2>3. e \in now
    BY DEF now
  <2> QED BY <1>8, <2>2, <2>3, SumRemove, Zenon DEF Sum
<1>10. Sum(now) \in Int /\ Sum(now) < SigMax /\ Sum(now) > -SigMax /\ Sum(got) \in Int
  <2> HIDE DEF now, got
  <2> QED BY <1>4, <1>6, <1>8, PartsFit DEF Sum, VotesFor
<1>11. charge[t] = Sum(got)
  BY <1>1, <1>6 DEF Collecting
<1>12. v = Sum(now)
  <2> HIDE DEF now, got, e, t
  <2> QED BY <1>5, <1>9, <1>10, <1>11, Sizes DEF Bag!SatAdd
<1>13. ~fires
  BY <1>6, <1>10, <1>12, Sizes DEF Theta
<1>14. charge' = [charge EXCEPT ![t] = Sum(now)]
  BY <1>3, <1>12, <1>13
<1> HIDE DEF v, fires
<1>15. Distinct' /\ Voting' /\ Mine' = Mine /\ Asked' = Asked /\ weight' = weight /\ job' = job
  BY <1>1, <1>2, <1>3, Delivered
<1>16. Waiting' = Waiting \ {e}
  <2>1. \A b \in queue : b.key = e => b = ev
    BY <1>1 DEF Distinct
  <2>2. \A d : (\E b \in queue' : b.key = d) <=> (\E b \in queue : b.key = d) /\ d # e
    BY <1>2, <2>1
  <2> QED BY <1>15, <2>2 DEF Waiting
<1>17. \A u : VotesFor(u)' = VotesFor(u)
  BY <1>15 DEF VotesFor, Votes
<1>18. \A u \in Tokens : u # t => e \notin VotesFor(u)
  BY DEF VotesFor, Votes
<1>19. \A u \in Tokens : charge'[u] = Sum(VotesFor(u) \ Waiting)'
  <2> SUFFICES ASSUME NEW u \in Tokens
               PROVE  charge'[u] = Sum(VotesFor(u) \ (Waiting \ {e}))
    BY <1>15, <1>16, <1>17 DEF Sum
  <2>1. CASE u = t
    <3>1. VotesFor(u) \ (Waiting \ {e}) = now
      BY <1>7, <2>1
    <3> QED BY <1>1, <1>6, <1>14, <2>1, <3>1 DEF EngineInv
  <2>2. CASE u # t
    <3>1. VotesFor(u) \ (Waiting \ {e}) = VotesFor(u) \ Waiting
      BY <1>18, <2>2
    <3>2. charge'[u] = charge[u]
      BY <1>1, <1>14, <2>2, KindsOfNodes DEF EngineInv
    <3> QED BY <1>1, <3>1, <3>2 DEF Collecting
  <2> QED BY <2>1, <2>2
<1>20. active' = active \cup {t}
  <2> DEFINE voted == {u \in Tokens : Votes(weight, job.k, u) # {}}
  <2>1. active \subseteq voted /\ t \in voted
    BY <1>1, <1>2, <1>6, <1>7 DEF Collecting, VotesFor
  <2>2. Cardinality(voted) <= ActiveCap
    BY Zenon DEF Fits
  <2>3. IsFiniteSet(voted)
    <3>1. IsFiniteSet(Tokens)
      BY Sizes, FS_Interval DEF Tokens
    <3>2. voted \subseteq Tokens
      OBVIOUS
    <3> QED BY <3>1, <3>2, FS_Subset, Zenon
  <2> HIDE DEF voted
  <2>4. CASE t \in active
    BY <1>3, <2>4 DEF MarkActive
  <2>5. CASE t \notin active
    <3>1. Cardinality(active) < Cardinality(voted)
      BY <2>1, <2>3, <2>5, Smaller, Zenon
    <3>2. Cardinality(active) \in Nat /\ Cardinality(voted) \in Nat
      BY <2>1, <2>3, FS_Subset, FS_CardinalityType, Zenon
    <3> QED BY <1>3, <2>2, <3>1, <3>2, Sizes DEF MarkActive
  <2> QED BY <2>4, <2>5
<1>21. Collecting'
  <2>1. \A u \in Tokens : charge'[u] = Sum(VotesFor(u) \ Waiting)'
    BY <1>19
  <2>2. \A u \in Tokens : u \in active' \/ VotesFor(u)' \subseteq Waiting'
    BY <1>1, <1>2, <1>16, <1>17, <1>18, <1>20 DEF Collecting
  <2>3. \A u \in active' : u \in Tokens /\ VotesFor(u)' # {}
    BY <1>1, <1>2, <1>6, <1>7, <1>17, <1>20 DEF Collecting
  <2> QED BY <1>2, <2>1, <2>2, <2>3 DEF Collecting
<1>22. run'.ticks = 2
  BY <1>3
<1> QED BY <1>15, <1>21, <1>22 DEF StageInv

(* A tick begins.                                                          *)
LEMMA BeginVotes ==
  ASSUME PredictInv, StageInv, BeginTick
  PROVE  StageInv'
<1>1. /\ run.ticks > 0 /\ run.todo = {} /\ phase = "between" /\ phase' = "drain" /\ active' = {}
      /\ UNCHANGED <<tick, queue, charge, lastFired, sending, weight, run, job>>
  BY DEF BeginTick, Bag!BeginTick
<1>2. Mine' = Mine /\ Asked' = Asked /\ weight' = weight /\ queue' = queue /\ run' = run
  BY <1>1, Zenon DEF Mine, Asked
<1>3. Distinct' /\ Voting'
  BY <1>2, Zenon DEF StageInv, Distinct, Voting
<1>4. Waiting' = Waiting /\ \A c : Activated(c)' <=> Activated(c)
  BY <1>2, Zenon DEF Waiting, Activated
<1>5. \A c : Done(c)' <=> Done(c)
  BY <1>2, <1>4, Zenon DEF Done
<1>6. Firing => Firing'
  BY <1>1, <1>2, <1>4, <1>5 DEF Firing
<1>7. \A t : VotesFor(t)' = VotesFor(t)
  BY <1>1, Zenon DEF VotesFor
<1>8. \A es : Sum(es)' = Sum(es)
  BY <1>2, Zenon DEF Sum
<1>9. Collecting => Collecting'
  BY <1>1, <1>4, <1>7, <1>8 DEF Collecting, Sum
<1>10. Collected => Collected'
  BY <1>1, <1>7, <1>8 DEF Collected, Sum
<1> QED BY <1>2, <1>3, <1>6, <1>9, <1>10 DEF StageInv

(* A tick ends.                                                            *)
LEMMA EndVotes ==
  ASSUME PredictInv, StageInv, EndTick
  PROVE  StageInv'
<1>1. /\ sending = {} /\ phase \in {"drain", "fire"} /\ \A ev \in queue : ev.due > tick
      /\ tick' = tick + 1 /\ phase' = "between" /\ run' = [run EXCEPT !.ticks = @ - 1]
      /\ charge' = [n \in Nodes |-> IF n \in active THEN Leaked(charge[n]) ELSE charge[n]]
      /\ UNCHANGED <<queue, lastFired, active, sending, weight, job>>
  BY Zenon DEF EndTick, Bag!EndTick
<1>2. /\ tick \in Nat /\ run.ticks \in 1..3 /\ run.todo = {}
      /\ run \in [todo : SUBSET Contexts, ticks : 0..3]
      /\ queue \subseteq PendingNow(run.ticks, tick)
  BY <1>1 DEF PredictInv, EngineInv, RunInv
<1>3. run'.ticks = run.ticks - 1
  BY <1>1, <1>2
<1>4. Mine' = Mine /\ Asked' = Asked /\ weight' = weight /\ queue' = queue
  BY <1>1, Zenon DEF Mine, Asked
<1>5. Distinct' /\ Voting'
  BY <1>4, Zenon DEF StageInv, Distinct, Voting
<1>6. Waiting' = Waiting
  BY <1>4, Zenon DEF Waiting
<1>7. \A t : VotesFor(t)' = VotesFor(t)
  BY <1>1, Zenon DEF VotesFor
<1>8. \A es : Sum(es)' = Sum(es)
  BY <1>4, Zenon DEF Sum
<1>9. \A t \in Tokens : charge'[t] = IF t \in active THEN Leaked(charge[t]) ELSE charge[t]
  BY <1>1, KindsOfNodes
<1>10. Leaked(0) = 0
  BY Sizes DEF Leaked
<1>11. Sum({}) = 0
  BY SumEmpty, Zenon DEF Sum
<1>12. CASE run.ticks = 3
  <2>1. Firing
    BY <1>12 DEF StageInv
  <2>2. \A c \in Asked : ~Activated(c)
    <3>1. ASSUME NEW c \in Asked, Activated(c)
          PROVE  FALSE
      <4>1. PICK ev \in queue : ev.key = Activation(c)
        BY <3>1, Zenon DEF Activated
      <4>2. Activation(c) \notin Edges
        BY KeysApart DEF PredictInv
      <4>3. ev.due = tick
        BY <1>2, <1>12, <4>1, <4>2 DEF PendingNow
      <4> QED BY <1>1, <1>2, <4>3
    <3> QED BY <3>1
  <2>3. \A t \in Tokens : VotesFor(t) \subseteq Waiting
    <3>1. \A e \in Mine : e.source \in Asked
      <4>1. \A e \in Mine : e \in Edges /\ e \in DOMAIN weight
        BY KeysApart DEF PredictInv
      <4>2. \A e \in Mine : e.source \in Contexts
        BY <4>1, KindsOfNodes
      <4>3. job.k \in Int
        BY Sizes DEF PredictInv, JobInv, Fitting, Jobs
      <4> QED BY <4>1, <4>2, <4>3, Sizes DEF Asked, Built, Mine, Contexts
    <3>2. \A e \in Mine : Done(e.source)
      BY <1>2, <2>2, <3>1, Zenon DEF Done
    <3> QED BY <1>1, <2>1, <3>2 DEF VotesFor, Votes, Mine, Firing
  <2>4. \A t \in Tokens : charge'[t] = 0
    BY <1>9, <1>10, <2>1, KindsOfNodes DEF Firing
  <2>5. \A t \in Tokens : charge'[t] = Sum(VotesFor(t) \ Waiting)
    <3>1. \A t \in Tokens : VotesFor(t) \ Waiting = {}
      BY <2>3
    <3> QED BY <1>11, <2>4, <3>1, Zenon
  <2>6. Collecting'
    BY <1>1, <1>6, <1>7, <1>8, <2>3, <2>5 DEF Collecting, Sum
  <2>7. run'.ticks = 2
    BY <1>3, <1>12
  <2> QED BY <1>5, <2>6, <2>7 DEF StageInv
<1>13. CASE run.ticks = 2
  <2>1. Collecting
    BY <1>13 DEF StageInv
  <2>2. queue = {}
    <3>1. \A ev \in queue : ev.due = tick
      BY <1>2, <1>13 DEF PendingNow
    <3> QED BY <1>1, <1>2, <3>1
  <2>3. Waiting = {}
    BY <2>2 DEF Waiting
  <2>4. \A t \in Tokens : charge'[t] = Leaked(Sum(VotesFor(t)))
    <3>1. \A t \in Tokens : VotesFor(t) \ Waiting = VotesFor(t)
      BY <2>3
    <3>2. \A t \in Tokens : charge[t] = Sum(VotesFor(t))
      BY <2>1, <3>1 DEF Collecting
    <3>3. \A t \in Tokens : t \notin active => VotesFor(t) = {}
      BY <1>1, <2>1, <2>3 DEF Collecting
    <3>4. \A t \in Tokens : t \notin active => Sum(VotesFor(t)) = 0
      BY <1>11, <3>3, Zenon
    <3> QED BY <1>9, <1>10, <3>2, <3>4, Zenon
  <2>5. Collected'
    BY <1>1, <1>7, <1>8, <2>4 DEF Collected, Sum
  <2>6. run'.ticks = 1
    BY <1>3, <1>13
  <2> QED BY <1>5, <2>5, <2>6 DEF StageInv
<1>14. CASE run.ticks = 1
  <2>1. Collected /\ active = {}
    BY <1>1, <1>14 DEF StageInv, Collected
  <2>2. \A t \in Tokens : charge'[t] = charge[t]
    BY <1>9, <2>1
  <2>3. Collected'
    BY <1>1, <1>7, <1>8, <2>1, <2>2 DEF Collected, Sum
  <2>4. run'.ticks = 0
    BY <1>3, <1>14
  <2> QED BY <1>5, <2>3, <2>4 DEF StageInv
<1> QED BY <1>2, <1>12, <1>13, <1>14

(* A prediction begins, with the contexts of the weights it is made for.   *)
LEMMA StartVotes ==
  ASSUME PredictInv, run = NoRun, NEW w, StartPredict(job'.k, w), DOMAIN weight' = DOMAIN w, JobInv'
  PROVE  StageInv'
<1>1. phase = "between" /\ sending = {}
  BY DEF PredictInv, EngineInv, RunInv, NoRun
<1>2. Built(w) = Built(weight')
  BY DEF Built
<1>3. /\ run' = [todo |-> Asked', ticks |-> IF Asked' = {} THEN 0 ELSE 3]
      /\ charge' = [n \in Nodes |-> 0] /\ queue' = {} /\ active' = {}
      /\ tick' = tick /\ phase' = phase /\ lastFired' = lastFired /\ sending' = sending
  BY <1>2, Zenon DEF StartPredict, ResetCharges, Asked
<1>4. run'.todo = Asked' /\ run'.ticks = IF Asked' = {} THEN 0 ELSE 3
  BY <1>3
<1>5. Distinct' /\ Voting' /\ Waiting' = {} /\ \A c : ~Activated(c)'
  BY <1>3 DEF Distinct, Voting, Waiting, Activated
<1>6. Firing'
  BY <1>1, <1>3, <1>4, <1>5 DEF Firing, Done
<1>7. ASSUME Asked' = {}
      PROVE  Collected'
  <2>1. /\ Mine' \subseteq DOMAIN weight' /\ Mine' \subseteq Edges
    BY DEF Mine, JobInv
  <2>2. job'.k \in Int
    BY Sizes DEF JobInv, Fitting, Jobs
  <2>3. \A e \in Mine' : e.source \in Contexts
    BY <2>1, KindsOfNodes
  <2>4. \A e \in Mine' : e.source \in Asked'
    BY <2>1, <2>2, <2>3, Sizes DEF Asked, Built, Mine, Contexts
  <2>5. Mine' = {}
    BY <1>7, <2>4
  <2>6. \A t \in Tokens : VotesFor(t)' = {}
    BY <2>5 DEF VotesFor, Votes, Mine
  <2>7. SumFunctionOnSet(weight', {}) = 0
    BY SumEmpty, Zenon
  <2>8. \A t \in Tokens : Sum(VotesFor(t))' = 0
    BY <2>6, <2>7, Zenon DEF Sum
  <2>9. Leaked(0) = 0
    BY Sizes DEF Leaked
  <2>10. \A t \in Tokens : charge'[t] = 0
    BY <1>3, KindsOfNodes
  <2>11. \A t \in Tokens : charge'[t] = Leaked(Sum(VotesFor(t))')
    BY <2>8, <2>9, <2>10, Zenon
  <2> QED BY <1>3, <2>11, Zenon DEF Collected
<1> QED BY <1>4, <1>5, <1>6, <1>7 DEF StageInv

(* So does one that follows a measurement.                                 *)
LEMMA ProceedVotes ==
  ASSUME PredictInv, run = NoRun, NEW j, NEW w, Fitting(j, w), InBounds(w),
         j.kind \in {"fixed", "escalate"}, Proceed(j, w)
  PROVE  VotesInv'
<1>1. JobInv' /\ DOMAIN weight' = DOMAIN w /\ j \in Jobs
  BY ProceedInv, Zenon DEF Fitting
<1>2. ProbesNext(j, w) \/ EndsFixed(j, w) \/ EndsRounds(j, w) \/ NextRound(j, w)
  BY <1>1, ProceedKinds
<1>3. CASE ProbesNext(j, w)
  <2>1. j.probes # <<>> /\ \A i \in DOMAIN j.probes : j.probes[i].edge \in DOMAIN w
    BY <1>3 DEF ProbesNext, Fitting
  <2>2. job' = Probing(j, w) /\ StartPredict(j.k, w)
    BY <1>3 DEF ProbesNext
  <2>3. job'.k = j.k
    BY <1>1, <2>1, <2>2, ProbingKept, Zenon
  <2>4. StageInv'
    BY <1>1, <2>2, <2>3, StartVotes, Zenon
  <2> QED BY <2>4 DEF VotesInv
<1>4. CASE NextRound(j, w)
  <2>1. /\ job' = Again(j) /\ weight' = Stepped(j, w) /\ StartPredict(j.k, Stepped(j, w))
        /\ j.kind # "fixed"
    BY <1>4 DEF NextRound
  <2>2. j.round < EscRounds
    BY <2>1 DEF Fitting
  <2>3. job'.k = j.k
    BY <1>1, <2>1, <2>2, JobsKept, Zenon
  <2>4. DOMAIN weight' = DOMAIN Stepped(j, w)
    BY <2>1, Zenon
  <2>5. StageInv'
    BY <1>1, <2>1, <2>3, <2>4, StartVotes, Zenon
  <2> QED BY <2>5 DEF VotesInv
<1>5. CASE EndsFixed(j, w) \/ EndsRounds(j, w)
  <2>1. job' = Jobless(j) \/ job' = Jobless(Again(j))
    BY <1>5 DEF EndsFixed, EndsRounds
  <2>2. NoJob.kind = "none" /\ NoJob \in Jobs
    BY NothingFits DEF NoJob
  <2>3. \A i : Jobless(i).kind = "none"
    BY <2>2 DEF Jobless, Jobs
  <2>4. job'.kind = "none"
    BY <2>1, <2>3
  <2> QED BY <2>4 DEF VotesInv
<1> QED BY <1>2, <1>3, <1>4, <1>5

(* Steps of the engine change neither the weights nor who asks.            *)
LEMMA SameVotes ==
  ASSUME VotesInv, UNCHANGED <<weight, job>>,
         job.kind # "none" /\ Fits(weight, job.k) /\ StageInv => StageInv'
  PROVE  VotesInv'
BY DEF VotesInv

(* Every step keeps it.                                                    *)
LEMMA VotesStep == PredictInv /\ PredictInv' /\ VotesInv /\ [Next]_vars => VotesInv'
<1> SUFFICES ASSUME PredictInv, PredictInv', VotesInv, [Next]_vars
             PROVE  VotesInv'
  OBVIOUS
<1>1. CASE BeginTick
  <2>1. UNCHANGED <<weight, job>>
    BY <1>1 DEF BeginTick
  <2> QED BY <1>1, <2>1, BeginVotes, SameVotes
<1>2. CASE Activate
  <2>1. UNCHANGED <<weight, job>>
    BY <1>2 DEF Activate
  <2> QED BY <1>2, <2>1, ActivateVotes, SameVotes
<1>3. CASE Send
  <2>1. UNCHANGED <<weight, job>>
    BY <1>3 DEF Send
  <2> QED BY <1>3, <2>1, SendVotes, SameVotes
<1>4. CASE EndTick
  <2>1. UNCHANGED <<weight, job>>
    BY <1>4 DEF EndTick
  <2> QED BY <1>4, <2>1, EndVotes, SameVotes
<1>5. ASSUME NEW ev \in queue, Deliver(ev)
      PROVE  VotesInv'
  <2>1. UNCHANGED <<weight, job>>
    BY <1>5 DEF Deliver
  <2>2. run.ticks = 3 \/ run.ticks = 2
    BY <1>5, Deliverable, Zenon DEF PredictInv
  <2> QED BY <1>5, <2>1, <2>2, DeliverFires, DeliverVotes, SameVotes
<1>6. ASSUME NEW k \in 1..Order, Forecast(k)
      PROVE  VotesInv'
  <2>1. /\ job.kind = "none" /\ StartPredict(k, weight) /\ UNCHANGED weight
        /\ job' = [NoJob EXCEPT !.kind = "plain", !.k = k]
    BY <1>6 DEF Forecast
  <2>2. run = NoRun
    BY <2>1 DEF PredictInv, JobInv
  <2>3. job'.k = k
    BY <2>1 DEF NoJob
  <2>4. DOMAIN weight' = DOMAIN weight
    BY <2>1, Zenon
  <2>5. StageInv'
    BY <2>1, <2>2, <2>3, <2>4, StartVotes, Zenon DEF PredictInv
  <2> QED BY <2>5 DEF VotesInv
<1>7. ASSUME NEW kind \in {"fixed", "escalate"}, NEW k \in 1..Order, NEW gold \in Tokens,
             Teach(kind, k, gold)
      PROVE  VotesInv'
  <2>1. /\ job.kind = "none" /\ StartPredict(k, weight') /\ job' = Teaching(kind, k, gold)
    BY <1>7 DEF Teach, Teaching
  <2>2. run = NoRun
    BY <2>1 DEF PredictInv, JobInv
  <2>3. job'.k = k
    BY <2>1, TaughtJob
  <2>5. StageInv'
    BY <2>1, <2>2, <2>3, StartVotes, Zenon DEF PredictInv
  <2> QED BY <2>5 DEF VotesInv
<1>8. ASSUME job'.kind = "none"
      PROVE  VotesInv'
  BY <1>8 DEF VotesInv
<1>9. CASE Read
  <2>1. job'.kind = "none"
    BY <1>9 DEF Read, NoJob
  <2> QED BY <2>1, <1>8
<1>10. CASE Measured
  <2>1. /\ run = NoRun /\ job.gold \in Tokens /\ InBounds(weight)
        /\ \/ job.kind = "fixed" /\ Proceed(Planned(FixedProbes), weight)
           \/ /\ job.kind = "escalate" /\ Argmax # job.gold
              /\ Proceed(Planned(EscalatedProbes), weight)
           \/ job.kind = "escalate" /\ Argmax = job.gold /\ Finish(job, weight)
    BY <1>10, MeasuredKinds
  <2>2. job.gold # 0 /\ JobInv
    BY <2>1, KindsOfNodes DEF PredictInv
  <2>3. CASE job.kind = "fixed" /\ Proceed(Planned(FixedProbes), weight)
    <3>1. /\ FixedProbes \in Seq(Probes)
          /\ \A i \in DOMAIN FixedProbes : FixedProbes[i].edge \in DOMAIN weight
      BY <2>2, FixedTyped, Zenon
    <3>2. Fitting(Planned(FixedProbes), weight) /\ Planned(FixedProbes).kind = "fixed"
      BY <2>1, <2>3, <3>1, PlannedFits
    <3> QED BY <2>1, <2>3, <3>2, ProceedVotes
  <2>4. CASE job.kind = "escalate" /\ Proceed(Planned(EscalatedProbes), weight)
    <3>1. /\ EscalatedProbes \in Seq(Probes)
          /\ \A i \in DOMAIN EscalatedProbes : EscalatedProbes[i].edge \in DOMAIN weight
      BY <2>2, EscalatedTyped, Zenon
    <3>2. Fitting(Planned(EscalatedProbes), weight) /\ Planned(EscalatedProbes).kind = "escalate"
      BY <2>1, <2>4, <3>1, PlannedFits
    <3> QED BY <2>1, <2>4, <3>2, ProceedVotes
  <2>5. CASE Finish(job, weight)
    <3>1. job' = Jobless(job) /\ job \in Jobs
      BY <2>5, Zenon DEF Finish, Jobless, PredictInv, JobInv, Fitting
    <3>2. job'.kind = "none"
      BY <3>1, JobsKept, Zenon
    <3> QED BY <3>2, <1>8
  <2> QED BY <2>1, <2>3, <2>4, <2>5
<1>11. CASE Probed
  <2>1. /\ run = NoRun /\ job.kind \in {"fixed", "escalate"} /\ InBounds(Restored)
        /\ Proceed(Reported, Restored)
    BY <1>11, ProbedKinds
  <2>2. Fitting(Reported, Restored) /\ Reported.kind = job.kind
    BY <1>11, ReportedFits, Zenon
  <2> QED BY <2>1, <2>2, ProceedVotes
<1>12. CASE UNCHANGED vars
  <2>1. UNCHANGED <<tick, phase, queue, charge, lastFired, active, sending,
                    weight, run, job>>
    BY <1>12 DEF vars, engineVars, bagVars
  <2>2. Mine' = Mine /\ Asked' = Asked
    BY <2>1, Zenon DEF Mine, Asked
  <2>3. Waiting' = Waiting /\ \A c : Activated(c)' <=> Activated(c)
    BY <2>1, <2>2, Zenon DEF Waiting, Activated
  <2>4. \A c : Done(c)' <=> Done(c)
    BY <2>1, <2>2, <2>3, Zenon DEF Done
  <2>5. \A t : VotesFor(t)' = VotesFor(t)
    BY <2>1, Zenon DEF VotesFor
  <2>6. Distinct' = Distinct /\ Voting' = Voting
    BY <2>1, <2>2, Zenon DEF Distinct, Voting
  <2>7. Firing => Firing'
    BY <2>1, <2>2, <2>3, <2>4 DEF Firing
  <2>8. Collecting => Collecting'
    BY <2>1, <2>3, <2>5 DEF Collecting, Sum
  <2>9. Collected => Collected'
    BY <2>1, <2>5 DEF Collected, Sum
  <2>10. StageInv => StageInv'
    BY <2>1, <2>6, <2>7, <2>8, <2>9 DEF StageInv
  <2> QED BY <2>1, <2>10, SameVotes
<1> QED BY <1>1, <1>2, <1>3, <1>4, <1>5, <1>6, <1>7, <1>9, <1>10, <1>11, <1>12 DEF Next

(* So it always holds.                                                     *)
LEMMA VotesInvariant == Spec => []VotesInv
<1>1. Init => VotesInv
  BY DEF Init, VotesInv, NoJob
<1>2. PredictInv /\ PredictInv' /\ VotesInv /\ [Next]_vars => VotesInv'
  BY VotesStep
<1> QED BY <1>1, <1>2, PredictInvariant, PTL DEF Spec

(* What was read is the sum of the votes.                                  *)
LEMMA ReadVotes ==
  ASSUME PredictInv, VotesInv, Returned, Fits(weight, job.k), NEW t \in Tokens
  PROVE  /\ Total(weight, Votes(weight, job.k, t)) = Sum(VotesFor(t))
         /\ charge[t] = Leaked(Sum(VotesFor(t)))
<1>1. run.ticks = 0 /\ job.kind # "none"
  BY DEF Returned, NoRun
<1>2. Collected
  BY <1>1 DEF VotesInv, StageInv
<1>3. DOMAIN weight \subseteq Edges /\ \A e \in DOMAIN weight : weight[e] \in Int
  BY KeysApart DEF PredictInv, JobInv
<1>4. VotesFor(t) \subseteq DOMAIN weight
  BY DEF VotesFor, Votes
<1>5. Total(weight, VotesFor(t)) = SumFunctionOnSet(weight, VotesFor(t))
  BY <1>3, <1>4, EdgeSets, Zenon
<1> QED BY <1>2, <1>5 DEF Collected, VotesFor, Sum

(* A prediction reads the sum of the votes of all contexts that exist, and *)
(* nothing else, whatever graph, weights and sizes for which no sum of     *)
(* votes saturates: every vote is delivered once, before the charges are   *)
(* read, and nothing is left of the prediction before.                     *)
THEOREM PredictionExact == Spec => []VotesSuperpose
<1>1. PredictInv /\ VotesInv => VotesSuperpose
  BY ReadVotes DEF VotesSuperpose
<1> QED BY <1>1, PredictInvariant, VotesInvariant, PTL

-----------------------------------------------------------------------------
(* What teaching does, where every sum fits.  The share of token g under   *)
(* weights w, and weights that are better for g.                           *)
Scored(w, k) == [t \in Tokens |-> Max({0, Leaked(Total(w, Votes(w, k, t)))})]
ShareOf(w, k, g) == <<2 * Scored(w, k)[g] + 1, 2 * SumFunction(Scored(w, k)) + Vocab>>
Favours(w, v, g) ==
  /\ DOMAIN w = DOMAIN v
  /\ \A e \in DOMAIN w : IF e.target = g THEN w[e] <= v[e] ELSE v[e] <= w[e]

(* What the probes of job j have found of weights w: shares that are no    *)
(* less than without a probe, of an edge to the gold token or away from it.*)
Positive == Nat \ {0}
Helpful(j, w) ==
  /\ {j.up.share, j.down.share} \subseteq Positive \X Positive
  /\ ~Better(ShareOf(w, j.k, j.gold), j.up.share) /\ ~Better(ShareOf(w, j.k, j.gold), j.down.share)
  /\ j.up.edge = NoEdge \/ j.up.edge.target = j.gold
  /\ j.down.edge = NoEdge \/ j.down.edge.target # j.gold

HelpInv ==
  Roomy /\ job.gold # 0 =>
    /\ InBounds(before) /\ Favours(before, Base, job.gold)
    /\ job.probed # NoProbe =>
         /\ Helpful(job, Base)
         /\ weight[job.probed.edge] = ProbeClamp(job.save + job.probed.by)

(* The delta of a round, and that the gold token's edge is the first probe *)
(* of the round, and is chosen when the delta is the largest.              *)
DeltaAt(r) == IF Doubled[r] <= DeltaCap THEN Doubled[r] ELSE DeltaCap
ProbesGold(j, w) ==
  /\ j.probed.edge = GoldEdge(j) /\ j.probed.by = j.delta
  /\ j.up.share = ShareOf(w, j.k, j.gold) /\ Vocab > 1
Chosen(j) == j.delta = DeltaCap => j.up.edge = GoldEdge(j)
Lowering(s) == \A i \in DOMAIN s : s[i].by <= 0
ExhaustInv ==
  Roomy /\ Thorough =>
    /\ job.kind = "fixed" => job.round = 0
    /\ job.kind = "escalate" => job.delta = DeltaAt(job.round)
    /\ job.kind = "escalate" /\ job.probed # NoProbe =>
         /\ Lowering(job.probes)
         /\ ProbesGold(job, Base) \/ (Chosen(job) /\ job.probed.by <= 0)
    /\ Taught /\ job.round = EscRounds => weight[GoldEdge(job)] = WMax

(* The order on fractions of positive numbers.                             *)
LEMMA BetterOrder ==
  ASSUME NEW p \in Positive \X Positive, NEW q \in Positive \X Positive,
         NEW r \in Positive \X Positive
  PROVE  /\ Better(p, q) /\ ~Better(r, q) => Better(p, r)
         /\ Better(p, q) => ~Better(q, p)
<1>1. p[1] \in Nat /\ p[2] \in Nat /\ q[1] \in Nat /\ q[2] \in Nat /\ q[2] > 0
      /\ r[1] \in Nat /\ r[2] \in Nat /\ r[2] > 0
  BY DEF Positive
<1>2. \A a, b, c, d, x, y \in Nat :
        b > 0 /\ y > 0 /\ c * b > a * d /\ ~(x * b > a * y) => c * y > x * d
  <2> SUFFICES ASSUME NEW a \in Nat, NEW b \in Nat, NEW c \in Nat, NEW d \in Nat,
                      NEW x \in Nat, NEW y \in Nat,
                      b > 0, y > 0, c * b > a * d, x * b <= a * y
               PROVE  c * y > x * d
    OBVIOUS
  <2>1. (c * b) * y > (a * d) * y
    OBVIOUS
  <2>2. (x * b) * d <= (a * y) * d
    OBVIOUS
  <2>3. (c * y) * b > (x * d) * b
    BY <2>1, <2>2
  <2> QED BY <2>3
<1>3. Better(p, q) /\ ~Better(r, q) => Better(p, r)
  BY <1>1, <1>2 DEF Better
<1>4. Better(p, q) => ~Better(q, p)
  BY <1>1 DEF Better
<1> QED BY <1>3, <1>4

(* Leaking keeps the order, and a gain of two is not lost to it.           *)
LEMMA LeakedOrder ==
  ASSUME NEW v \in Int, NEW w \in Int, v <= w
  PROVE  /\ Leaked(v) \in Int /\ Leaked(w) \in Int /\ Leaked(v) <= Leaked(w)
         /\ v <= 0 => Leaked(v) <= 0
         /\ Leak > 1 /\ w >= 2 => Leaked(w) >= 1
         /\ Leak > 1 /\ w >= v + 2 => Leaked(w) > Leaked(v)
<1> DEFINE a == v \div Leak
           b == w \div Leak
           x == v % Leak
           y == w % Leak
<1>1. /\ Leak \in Nat \ {0} /\ a \in Int /\ b \in Int /\ x \in Int /\ y \in Int
      /\ v = Leak * a + x /\ 0 <= x /\ x < Leak
      /\ w = Leak * b + y /\ 0 <= y /\ y < Leak
  <2>1. Leak \in Nat \ {0}
    BY Sizes
  <2> QED BY <2>1
<1>2. Leaked(v) = v - a /\ Leaked(w) = w - b
  BY DEF Leaked
<1> HIDE DEF a, b, x, y
<1>3. w - v = Leak * (b - a) + (y - x)
  BY <1>1
<1>4. \A m \in Nat : m > 0 => Leak * m >= Leak + m - 1
  <2> SUFFICES ASSUME NEW m \in Nat, m > 0
               PROVE  Leak * m >= Leak + m - 1
    OBVIOUS
  <2>1. (Leak - 1) * (m - 1) >= 0
    BY <1>1
  <2>2. (Leak - 1) * (m - 1) = Leak * m - Leak - m + 1
    BY <1>1
  <2>3. Leak * m \in Int
    BY <1>1
  <2> QED BY <1>1, <2>1, <2>2, <2>3
<1>5. b - a >= 0
  <2>1. b - a < 0 => Leak * (b - a) <= -Leak
    BY <1>1
  <2> QED BY <1>1, <1>3, <2>1
<1>6. b - a <= w - v
  <2>1. CASE b - a = 0
    BY <2>1, <1>1
  <2>2. CASE b - a > 0
    <3>1. b - a \in Nat /\ Leak * (b - a) >= Leak + (b - a) - 1
      BY <2>2, <1>1, <1>4
    <3>2. Leak * (b - a) \in Int
      BY <1>1
    <3> QED BY <1>1, <1>3, <3>1, <3>2
  <2> QED BY <1>1, <1>5, <2>1, <2>2
<1>7. v <= 0 => v - a <= 0
  <2>1. CASE a >= 0
    BY <2>1, <1>1
  <2>2. CASE a <= -1
    <3>1. -a \in Nat /\ -a > 0
      BY <2>2, <1>1
    <3>2. Leak * (-a) >= Leak + (-a) - 1
      BY <3>1, <1>4
    <3>3. Leak * (-a) = -(Leak * a) /\ Leak * a \in Int
      BY <1>1
    <3> QED BY <1>1, <3>2, <3>3
  <2> QED BY <1>1, <2>1, <2>2
<1>8. Leak > 1 => \A m \in Nat : Leak * m >= m + m
  BY <1>1
<1>9. Leak > 1 /\ w >= 2 => w - b >= 1
  <2>1. CASE b <= 0
    BY <2>1, <1>1
  <2>2. CASE b > 0
    <3>1. b \in Nat /\ Leak * b \in Int
      BY <2>2, <1>1
    <3> QED BY <1>1, <1>8, <2>2, <3>1
  <2> QED BY <1>1, <2>1, <2>2
<1>10. Leak > 1 /\ w >= v + 2 => w - b > v - a
  <2>1. CASE b - a = 0
    BY <2>1, <1>1
  <2>2. CASE b - a = 1
    BY <2>2, <1>1
  <2>3. CASE b - a > 1
    <3>1. b - a \in Nat /\ Leak * (b - a) \in Int
      BY <2>3, <1>1
    <3>2. (Leak - 1) * (b - a - 1) = Leak * (b - a) - Leak - (b - a) + 1
      BY <1>1
    <3>3. Leak > 1 => (Leak - 1) * (b - a - 1) >= 1
      BY <1>1, <2>3
    <3> QED BY <1>1, <1>3, <3>1, <3>2, <3>3
  <2> QED BY <1>1, <1>5, <2>1, <2>2, <2>3
<1> QED BY <1>1, <1>2, <1>6, <1>7, <1>9, <1>10

(* The larger of a number and zero.                                        *)
LEMMA MaxZero ==
  ASSUME NEW x \in Int
  PROVE  Max({0, x}) = IF x > 0 THEN x ELSE 0
<1>1. \E m \in {0, x} : \A y \in {0, x} : m >= y
  OBVIOUS
<1>2. Max({0, x}) \in {0, x} /\ \A y \in {0, x} : Max({0, x}) >= y
  BY <1>1 DEF Max
<1> QED BY <1>2

(* Whole numbers on existing edges: weights, in bounds or under probe.     *)
Weighing(w) == DOMAIN w \subseteq Edges /\ \A e \in DOMAIN w : w[e] \in Int
Into(w, k, t) == {e \in DOMAIN w : e.source <= k /\ e.target = t}
Tally(w, k, t) == SumFunctionOnSet(w, Into(w, k, t))

(* Edges without a vote add nothing to the votes.                          *)
LEMMA TallyIsTotal ==
  ASSUME NEW w, Weighing(w), NEW k, NEW t
  PROVE  /\ Total(w, Votes(w, k, t)) = Tally(w, k, t) /\ Tally(w, k, t) \in Int
         /\ IsFiniteSet(Into(w, k, t)) /\ \A e \in Into(w, k, t) : w[e] \in Int
<1> DEFINE all == Into(w, k, t)
           vs == Votes(w, k, t)
<1>1. /\ vs \subseteq all /\ all \subseteq DOMAIN w /\ DOMAIN w \subseteq Edges
      /\ \A e \in DOMAIN w : w[e] \in Int
      /\ \A e \in all \ vs : w[e] = 0
  BY DEF Weighing, Into, Votes
<1> HIDE DEF all, vs
<1>2. /\ IsFiniteSet(all) /\ SumFunctionOnSet(w, all) \in Int
      /\ Total(w, vs) = SumFunctionOnSet(w, vs) /\ SumFunctionOnSet(w, vs) \in Int
  <2>1. vs \subseteq DOMAIN w
    BY <1>1
  <2> QED BY <1>1, <2>1, EdgeSets, Zenon
<1>3. \A e \in all : w[e] \in Int
  BY <1>1
<1>4. vs \in SUBSET all
  BY <1>1
<1>5. SumFunctionOnSet(w, all) = SumFunctionOnSet(w, vs) + SumFunctionOnSet(w, all \ vs)
  BY <1>2, <1>3, <1>4, SumSplit
<1>6. SumFunctionOnSet(w, all \ vs) = 0
  <2>1. IsFiniteSet(all \ vs)
    BY <1>2, FS_Subset
  <2> QED BY <1>1, <2>1, SumZero
<1> QED BY <1>2, <1>3, <1>5, <1>6 DEF Tally, all, vs

(* The scores of the tokens under weights w, and their sum.                *)
LEMMA ScoredType ==
  ASSUME NEW w, Weighing(w), NEW k
  PROVE  /\ DOMAIN Scored(w, k) = Tokens /\ IsFiniteSet(Tokens)
         /\ \A t \in Tokens :
              /\ Scored(w, k)[t] \in Nat
              /\ Scored(w, k)[t] = LET v == Leaked(Tally(w, k, t)) IN IF v > 0 THEN v ELSE 0
         /\ SumFunction(Scored(w, k)) = SumFunctionOnSet(Scored(w, k), Tokens)
         /\ SumFunctionOnSet(Scored(w, k), Tokens) \in Nat
<1> DEFINE s == Scored(w, k)
<1>1. s = [t \in Tokens |-> Max({0, Leaked(Total(w, Votes(w, k, t)))})]
  BY Zenon DEF Scored
<1>2. DOMAIN s = Tokens /\ \A t \in Tokens : s[t] = Max({0, Leaked(Total(w, Votes(w, k, t)))})
  BY <1>1
<1> HIDE DEF s
<1>3. ASSUME NEW t \in Tokens
      PROVE  s[t] \in Nat /\ s[t] = LET v == Leaked(Tally(w, k, t)) IN IF v > 0 THEN v ELSE 0
  <2>1. s[t] = Max({0, Leaked(Tally(w, k, t))}) /\ Tally(w, k, t) \in Int
    BY <1>2, TallyIsTotal
  <2>2. Leaked(Tally(w, k, t)) \in Int
    BY <2>1, LeakedOrder
  <2> QED BY <2>1, <2>2, MaxZero
<1>4. IsFiniteSet(Tokens)
  BY Sizes, FS_Interval DEF Tokens
<1>5. SumFunction(s) = SumFunctionOnSet(s, Tokens)
  BY <1>2, Zenon DEF SumFunction
<1>6. \A t \in Tokens : s[t] \in Int /\ s[t] >= 0
  BY <1>3
<1>7. SumFunctionOnSet(s, Tokens) \in Int /\ SumFunctionOnSet(s, Tokens) >= 0
  <2>1. SumFunctionOnSet(s, Tokens) \in Int
    BY <1>4, <1>6, SumInt, Zenon
  <2>2. SumFunctionOnSet(s, Tokens) >= 0
    BY <1>4, <1>6, SumSigns, Zenon
  <2> QED BY <2>1, <2>2
<1> QED BY <1>2, <1>3, <1>4, <1>5, <1>7 DEF s

Rest(w, k, g) == SumFunctionOnSet(Scored(w, k), Tokens \ {g})

(* A token's share is of its own score and of the others', which together  *)
(* are the whole.                                                          *)
LEMMA ShareParts ==
  ASSUME NEW w, Weighing(w), NEW k, NEW g \in Tokens
  PROVE  /\ Scored(w, k)[g] \in Nat /\ Rest(w, k, g) \in Nat
         /\ ShareOf(w, k, g) = <<2 * Scored(w, k)[g] + 1,
                                 2 * (Scored(w, k)[g] + Rest(w, k, g)) + Vocab>>
         /\ ShareOf(w, k, g) \in Positive \X Positive
<1> DEFINE s == Scored(w, k)
           R == Tokens \ {g}
<1>1. /\ IsFiniteSet(Tokens) /\ \A t \in Tokens : s[t] \in Nat
      /\ SumFunction(s) = SumFunctionOnSet(s, Tokens)
  BY ScoredType, Zenon
<1>2. ShareOf(w, k, g) = <<2 * s[g] + 1, 2 * SumFunction(s) + Vocab>>
  BY Zenon DEF ShareOf
<1> HIDE DEF s
<1>3. IsFiniteSet(R) /\ \A t \in R : s[t] \in Int /\ s[t] >= 0
  <2>1. IsFiniteSet(R)
    BY <1>1, FS_Subset
  <2> QED BY <2>1, <1>1
<1>4. SumFunctionOnSet(s, R) \in Int /\ SumFunctionOnSet(s, R) >= 0
  <2> HIDE DEF R
  <2>1. SumFunctionOnSet(s, R) \in Int
    BY <1>3, SumInt, Zenon
  <2>2. SumFunctionOnSet(s, R) >= 0
    BY <1>3, SumSigns, Zenon
  <2> QED BY <2>1, <2>2
<1>5. SumFunctionOnSet(s, Tokens) = s[g] + SumFunctionOnSet(s, R)
  <2>1. \A t \in Tokens : s[t] \in Int
    BY <1>1
  <2>2. \A t \in Tokens : SumFunctionOnSet(s, Tokens) = s[t] + SumFunctionOnSet(s, Tokens \ {t})
    BY <1>1, <2>1, SumRemove, Zenon
  <2> QED BY <2>2, Zenon
<1>6. Rest(w, k, g) = SumFunctionOnSet(s, R)
  BY Zenon DEF Rest, s
<1>7. /\ s[g] \in Nat /\ Rest(w, k, g) \in Nat
      /\ ShareOf(w, k, g) = <<2 * s[g] + 1, 2 * (s[g] + Rest(w, k, g)) + Vocab>>
  BY <1>1, <1>2, <1>4, <1>5, <1>6
<1>8. 2 * s[g] + 1 \in Positive /\ 2 * (s[g] + Rest(w, k, g)) + Vocab \in Positive
  BY <1>7, Sizes DEF Positive
<1> QED BY <1>7, <1>8 DEF s

(* Weights that favour a token do not make its share smaller.              *)
LEMMA FavoursBetter ==
  ASSUME NEW w, NEW v, Weighing(w), Weighing(v), NEW k, NEW g \in Tokens, Favours(w, v, g)
  PROVE  /\ ~Better(ShareOf(w, k, g), ShareOf(v, k, g))
         /\ Scored(w, k)[g] <= Scored(v, k)[g] /\ Rest(v, k, g) <= Rest(w, k, g)
<1>1. \A t : Into(w, k, t) = Into(v, k, t)
  BY DEF Into, Favours
<1>2. ASSUME NEW t \in Tokens
      PROVE  IF t = g THEN Scored(w, k)[t] <= Scored(v, k)[t]
                      ELSE Scored(v, k)[t] <= Scored(w, k)[t]
  <2> DEFINE es == Into(w, k, t)
  <2>1. /\ IsFiniteSet(es) /\ \A e \in es : w[e] \in Int /\ v[e] \in Int
        /\ Tally(w, k, t) = SumFunctionOnSet(w, es) /\ Tally(v, k, t) = SumFunctionOnSet(v, es)
        /\ Tally(w, k, t) \in Int /\ Tally(v, k, t) \in Int
    BY <1>1, TallyIsTotal, Zenon DEF Tally
  <2>2. \A e \in es : IF t = g THEN w[e] <= v[e] ELSE v[e] <= w[e]
    BY DEF Into, Favours
  <2> HIDE DEF es
  <2>3. IF t = g THEN Tally(w, k, t) <= Tally(v, k, t) ELSE Tally(v, k, t) <= Tally(w, k, t)
    <3>1. CASE t = g
      BY <2>1, <2>2, <3>1, SumMonotone
    <3>2. CASE t # g
      BY <2>1, <2>2, <3>2, SumMonotone
    <3> QED BY <3>1, <3>2
  <2>4. /\ Leaked(Tally(w, k, t)) \in Int /\ Leaked(Tally(v, k, t)) \in Int
        /\ IF t = g THEN Leaked(Tally(w, k, t)) <= Leaked(Tally(v, k, t))
                    ELSE Leaked(Tally(v, k, t)) <= Leaked(Tally(w, k, t))
    BY <2>1, <2>3, LeakedOrder
  <2>5. /\ Scored(w, k)[t] = LET x == Leaked(Tally(w, k, t)) IN IF x > 0 THEN x ELSE 0
        /\ Scored(v, k)[t] = LET x == Leaked(Tally(v, k, t)) IN IF x > 0 THEN x ELSE 0
    BY ScoredType, Zenon
  <2> QED BY <2>4, <2>5
<1>3. Scored(w, k)[g] <= Scored(v, k)[g]
  BY <1>2
<1>4. Rest(v, k, g) <= Rest(w, k, g)
  <2> DEFINE R == Tokens \ {g}
  <2>1. IsFiniteSet(R)
    BY ScoredType, FS_Subset
  <2>2. \A t \in R : /\ Scored(v, k)[t] \in Int /\ Scored(w, k)[t] \in Int
                     /\ Scored(v, k)[t] <= Scored(w, k)[t]
    BY <1>2, ScoredType
  <2> HIDE DEF R
  <2>3. SumFunctionOnSet(Scored(v, k), R) <= SumFunctionOnSet(Scored(w, k), R)
    BY <2>1, <2>2, SumMonotone, Zenon
  <2> QED BY <2>3 DEF Rest, R
<1>5. ~Better(ShareOf(w, k, g), ShareOf(v, k, g))
  <2> DEFINE a == Scored(w, k)[g]
             b == Scored(v, k)[g]
             r == Rest(w, k, g)
             q == Rest(v, k, g)
  <2>1. /\ a \in Nat /\ b \in Nat /\ r \in Nat /\ q \in Nat /\ a <= b /\ q <= r
        /\ ShareOf(w, k, g) = <<2 * a + 1, 2 * (a + r) + Vocab>>
        /\ ShareOf(v, k, g) = <<2 * b + 1, 2 * (b + q) + Vocab>>
    BY <1>3, <1>4, ShareParts, Zenon
  <2> HIDE DEF a, b, r, q
  <2> DEFINE x == 2 * a + 1
             y == 2 * b + 1
             c == 2 * r + Vocab - 1
             d == 2 * q + Vocab - 1
  <2>2. x \in Nat /\ y \in Nat /\ c \in Nat /\ d \in Nat /\ x <= y /\ d <= c
        /\ 2 * (a + r) + Vocab = x + c /\ 2 * (b + q) + Vocab = y + d
    BY <2>1, Sizes
  <2> HIDE DEF x, y, c, d
  <2>3. x * d <= x * c /\ x * c <= y * c
    BY <2>2
  <2>4. x * (y + d) <= (x + c) * y
    BY <2>2, <2>3
  <2>5. ShareOf(w, k, g) = <<x, x + c>> /\ ShareOf(v, k, g) = <<y, y + d>>
    BY <2>1, <2>2 DEF x, y
  <2> QED BY <2>2, <2>4, <2>5 DEF Better
<1> QED BY <1>3, <1>4, <1>5

(* A token has one edge from each context at most.                         *)
LEMMA OneEach ==
  ASSUME NEW es, es \subseteq Edges, NEW t, \A e \in es : e.target = t
  PROVE  IsFiniteSet(es) /\ Cardinality(es) \in Nat /\ Cardinality(es) <= Order
<1> DEFINE f == [e \in es |-> e.source]
<1>1. IsFiniteSet(Contexts) /\ Cardinality(Contexts) = Order
  BY Sizes, FS_Interval DEF Contexts
<1>2. f \in Injection(es, Contexts)
  <2>1. \A e \in es : f[e] \in Contexts
    BY KindsOfNodes
  <2>2. \A a, b \in es : f[a] = f[b] => a = b
    BY DEF Edges
  <2> QED BY <2>1, <2>2 DEF Injection, IsInjective
<1>3. IsFiniteSet(es) /\ Cardinality(es) <= Cardinality(Contexts)
  BY <1>1, <1>2, FS_Injection, Zenon
<1> QED BY <1>1, <1>3, FS_CardinalityType, Zenon

(* What is summed: no more than m each, but for one that may be d more.    *)
LEMMA SumNear ==
  ASSUME NEW f, NEW S, IsFiniteSet(S), Cardinality(S) <= Order, NEW m \in Nat, NEW d \in Nat, NEW e,
         \A x \in S : f[x] \in Int /\ f[x] <= (IF x = e THEN m + d ELSE m)
  PROVE  SumFunctionOnSet(f, S) \in Int /\ SumFunctionOnSet(f, S) <= Order * m + d
<1> DEFINE R == S \ {e}
           n == Cardinality(R)
<1>1. Cardinality(S) \in Nat /\ Order \in Nat
  BY FS_CardinalityType, Sizes
<1>2. IsFiniteSet(R) /\ n \in Nat
  BY FS_Subset, FS_CardinalityType
<1>3. \A x \in S : f[x] \in Int
  OBVIOUS
<1>4. SumFunctionOnSet(f, S) \in Int
  BY <1>3, SumInt, Zenon
<1>5. SumFunctionOnSet(f, R) \in Int /\ SumFunctionOnSet(f, R) <= n * m
  <2>1. \A x \in R : f[x] \in Int /\ f[x] <= m
    OBVIOUS
  <2>2. (\A x \in R : f[x] \in Int) /\ m \in Int
    BY <2>1
  <2> HIDE DEF R
  <2>3. SumFunctionOnSet(f, R) \in Int
    BY <1>2, <2>2, SumInt, Zenon
  <2>4. SumFunctionOnSet(f, R) <= Cardinality(R) * m
    BY <1>2, <2>1, <2>2, SumAtMost
  <2> QED BY <2>3, <2>4
<1>6. CASE e \in S
  <2>1. SumFunctionOnSet(f, S) = f[e] + SumFunctionOnSet(f, R)
    <3>1. \A x \in S : SumFunctionOnSet(f, S) = f[x] + SumFunctionOnSet(f, S \ {x})
      BY <1>3, SumRemove, Zenon
    <3> QED BY <1>6, <3>1, Zenon
  <2>2. n + 1 <= Order
    <3>1. Cardinality(S) = n + 1
      BY <1>1, <1>2, <1>6, FS_RemoveElement
    <3> QED BY <3>1
  <2>3. (n + 1) * m <= Order * m
    BY <1>1, <1>2, <2>2, TimesOrder
  <2>4. (n + 1) * m = n * m + m
    BY <1>2, TimesMore
  <2>5. f[e] \in Int /\ f[e] <= m + d
    BY <1>6
  <2>6. n * m \in Int /\ Order * m \in Int
    BY <1>1, <1>2
  <2> HIDE DEF R, n
  <2>7. SumFunctionOnSet(f, S) <= Order * m + d
    BY <1>5, <2>1, <2>3, <2>4, <2>5, <2>6
  <2> QED BY <1>4, <2>7
<1>7. CASE e \notin S
  <2>1. R = S
    BY <1>7
  <2>2. n <= Order
    BY <2>1
  <2>3. n * m <= Order * m /\ n * m \in Int /\ Order * m \in Int
    BY <1>1, <1>2, <2>2, TimesOrder
  <2>4. SumFunctionOnSet(f, S) \in Int /\ SumFunctionOnSet(f, S) <= n * m
    BY <1>5, <2>1, Zenon
  <2> HIDE DEF R, n
  <2> QED BY <2>3, <2>4
<1> QED BY <1>6, <1>7

(* A sum of the opposites is the opposite of the sum.                      *)
LEMMA SumOpposite ==
  ASSUME NEW f, NEW S, IsFiniteSet(S), \A x \in S : f[x] \in Int
  PROVE  SumFunctionOnSet([x \in S |-> -f[x]], S) = -SumFunctionOnSet(f, S)
<1> DEFINE g == [x \in S |-> -f[x]]
           U == {s \in SUBSET S : SumFunctionOnSet(g, s) # -SumFunctionOnSet(f, s)}
<1>1. \A x \in S : g[x] \in Int /\ g[x] = -f[x]
  OBVIOUS
<1> HIDE DEF g
<1>2. ASSUME NEW s \in SUBSET S
      PROVE  /\ IsFiniteSet(s) /\ SumFunctionOnSet(f, s) \in Int
             /\ \A x \in s : /\ SumFunctionOnSet(f, s) = f[x] + SumFunctionOnSet(f, s \ {x})
                             /\ SumFunctionOnSet(g, s) = g[x] + SumFunctionOnSet(g, s \ {x})
  <2>1. IsFiniteSet(s)
    BY FS_Subset
  <2>2. (\A x \in s : f[x] \in Int) /\ (\A x \in s : g[x] \in Int)
    BY <1>1
  <2>3. SumFunctionOnSet(f, s) \in Int
    BY <2>1, <2>2, SumInt, Zenon
  <2>4. \A x \in s : SumFunctionOnSet(f, s) = f[x] + SumFunctionOnSet(f, s \ {x})
    BY <2>1, <2>2, SumRemove, Zenon
  <2>5. \A x \in s : SumFunctionOnSet(g, s) = g[x] + SumFunctionOnSet(g, s \ {x})
    BY <2>1, <2>2, SumRemove, Zenon
  <2> QED BY <2>1, <2>3, <2>4, <2>5
<1>3. ASSUME U # {}
      PROVE  FALSE
  <2>1. PICK s \in U : \A t \in U : t \subseteq s => t = s
    <3>1. \A s \in U : IsFiniteSet(s)
      BY <1>2, Zenon
    <3> HIDE DEF U
    <3> QED BY <1>3, <3>1, SmallestSet
  <2>2. s # {}
    <3>1. SumFunctionOnSet(f, {}) = 0 /\ SumFunctionOnSet(g, {}) = 0
      BY SumEmpty
    <3>2. SumFunctionOnSet(g, s) # -SumFunctionOnSet(f, s)
      BY <2>1
    <3>3. ASSUME s = {}
          PROVE  FALSE
      <4>1. SumFunctionOnSet(f, s) = 0 /\ SumFunctionOnSet(g, s) = 0
        BY <3>1, <3>3, Zenon
      <4>2. \A x, y \in Int : x + y = 0 => y = -x
        OBVIOUS
      <4>3. /\ SumFunctionOnSet(f, s) \in Int /\ SumFunctionOnSet(g, s) \in Int
            /\ SumFunctionOnSet(f, s) + SumFunctionOnSet(g, s) = 0
        BY <4>1
      <4> QED BY <3>2, <4>2, <4>3, Zenon
    <3> QED BY <3>3
  <2>3. PICK x \in s : TRUE
    BY <2>2
  <2>4. s \in SUBSET S /\ s \ {x} \in SUBSET S /\ s \ {x} # s /\ s \ {x} \subseteq s /\ x \in S
    BY <2>1, <2>3
  <2>5. SumFunctionOnSet(g, s \ {x}) = -SumFunctionOnSet(f, s \ {x})
    BY <2>1, <2>4, Zenon
  <2>6. /\ SumFunctionOnSet(f, s) = f[x] + SumFunctionOnSet(f, s \ {x})
        /\ SumFunctionOnSet(g, s) = g[x] + SumFunctionOnSet(g, s \ {x})
        /\ SumFunctionOnSet(f, s \ {x}) \in Int /\ f[x] \in Int /\ g[x] = -f[x]
    BY <1>1, <1>2, <2>3, <2>4, Zenon
  <2>7. SumFunctionOnSet(g, s) = -SumFunctionOnSet(f, s)
    BY <2>5, <2>6
  <2> QED BY <2>1, <2>7, Zenon
<1>4. S \in SUBSET S /\ S \notin U
  BY <1>3
<1> QED BY <1>4, Zenon DEF g

(* In bounds, but for one weight that is under probe.                      *)
NearBounds(w) ==
  /\ Weighing(w)
  /\ \E e : \A f \in DOMAIN w :
       w[f] \in IF f = e THEN (WMin - DeltaCap)..(WMax + DeltaCap) ELSE WMin..WMax

(* Where there is room for every graph, there is for this one.             *)
LEMMA RoomyFits ==
  ASSUME Roomy, NEW w, NearBounds(w), NEW k
  PROVE  Fits(w, k)
<1>1. DOMAIN w \subseteq Edges /\ \A e \in DOMAIN w : w[e] \in Int
  BY DEF NearBounds, Weighing
<1>0. PICK p : \A f \in DOMAIN w : w[f] \in IF f = p THEN (WMin - DeltaCap)..(WMax + DeltaCap)
                                            ELSE WMin..WMax
  BY DEF NearBounds
<1>2. ASSUME NEW t \in Tokens
      PROVE  /\ Total(w, {e \in Votes(w, k, t) : w[e] > 0}) < SigMax
             /\ Total(w, {e \in Votes(w, k, t) : w[e] < 0}) > -SigMax
  <2> DEFINE up == {e \in Votes(w, k, t) : w[e] > 0}
             down == {e \in Votes(w, k, t) : w[e] < 0}
             v == [e \in down |-> -w[e]]
             n == -WMin
  <2>1. /\ up \subseteq DOMAIN w /\ down \subseteq DOMAIN w
        /\ up \subseteq Edges /\ down \subseteq Edges
        /\ \A e \in up \cup down : e.target = t
    BY <1>1 DEF Votes
  <2>2. /\ WMax \in Nat /\ n \in Nat /\ DeltaCap \in Nat /\ SigMax \in Nat /\ Order \in Nat
        /\ WMin \in Int /\ Order * WMax + DeltaCap < SigMax
        /\ Order * WMin - DeltaCap > -SigMax /\ Order * n = -(Order * WMin)
        /\ Order * WMax \in Int /\ Order * WMin \in Int
    BY Sizes DEF Roomy
  <2>3. \A e \in up : w[e] \in Int /\ w[e] <= (IF e = p THEN WMax + DeltaCap ELSE WMax)
    BY <1>0, <1>1, <2>1, <2>2
  <2>4. /\ \A e \in down : w[e] \in Int
        /\ \A e \in down : v[e] \in Int /\ v[e] <= (IF e = p THEN n + DeltaCap ELSE n)
    BY <1>0, <1>1, <2>1, <2>2
  <2> HIDE DEF up, down
  <2>5. /\ IsFiniteSet(up) /\ Cardinality(up) <= Order
        /\ IsFiniteSet(down) /\ Cardinality(down) <= Order
    BY <2>1, OneEach
  <2>6. /\ Total(w, up) = SumFunctionOnSet(w, up) /\ SumFunctionOnSet(w, up) \in Int
        /\ Total(w, down) = SumFunctionOnSet(w, down) /\ SumFunctionOnSet(w, down) \in Int
    BY <1>1, <2>1, EdgeSets
  <2>7. SumFunctionOnSet(w, up) <= Order * WMax + DeltaCap
    BY <2>2, <2>3, <2>5, SumNear
  <2>8. SumFunctionOnSet(v, down) = -SumFunctionOnSet(w, down)
    BY <2>4, <2>5, SumOpposite, Zenon
  <2> HIDE DEF v, n
  <2>9. SumFunctionOnSet(v, down) \in Int /\ SumFunctionOnSet(v, down) <= Order * n + DeltaCap
    BY <2>2, <2>4, <2>5, SumNear
  <2>10. SumFunctionOnSet(w, up) < SigMax /\ SumFunctionOnSet(w, down) > -SigMax
    BY <2>2, <2>6, <2>7, <2>8, <2>9
  <2> QED BY <2>6, <2>10 DEF up, down
<1>3. Cardinality({e \in DOMAIN w : e.source <= k}) <= Cap
  <2> DEFINE es == {e \in DOMAIN w : e.source <= k}
  <2>1. es \subseteq Edges
    BY <1>1
  <2> HIDE DEF es
  <2>2. Cardinality(es) <= Cardinality(Edges) /\ IsFiniteSet(es)
    BY <2>1, EdgesFinite, FS_Subset, Zenon
  <2>3. Cardinality(es) \in Nat /\ Cardinality(Edges) \in Nat
    BY <2>2, EdgesFinite, FS_CardinalityType, Zenon
  <2>4. Cardinality(Edges) <= Order * Vocab /\ Order * Vocab <= Cap /\ Order * Vocab \in Int
    BY EdgesFinite, Sizes DEF Roomy
  <2>5. Cardinality(es) <= Cap
    BY <2>2, <2>3, <2>4, Sizes
  <2> QED BY <2>5 DEF es
<1>4. Cardinality({t \in Tokens : Votes(w, k, t) # {}}) <= ActiveCap
  <2> DEFINE ts == {t \in Tokens : Votes(w, k, t) # {}}
  <2>1. ts \subseteq Tokens
    OBVIOUS
  <2> HIDE DEF ts
  <2>2. IsFiniteSet(Tokens) /\ Cardinality(Tokens) = Vocab
    BY Sizes, FS_Interval DEF Tokens
  <2>3. Cardinality(ts) <= Vocab /\ IsFiniteSet(ts)
    BY <2>1, <2>2, FS_Subset
  <2>4. Cardinality(ts) \in Nat
    BY <2>3, FS_CardinalityType, Zenon
  <2>5. Cardinality(ts) <= ActiveCap
    BY <2>3, <2>4, Sizes DEF Roomy
  <2> QED BY <2>5 DEF ts
<1> QED BY <1>2, <1>3, <1>4, Zenon DEF Fits

(* Then the share that is read is the one under the weights.               *)
LEMMA ShareRead ==
  ASSUME PredictInv, VotesInv, Returned, Roomy, NearBounds(weight), NEW g \in Tokens
  PROVE  Share(g) = ShareOf(weight, job.k, g)
<1>1. Fits(weight, job.k) /\ Weighing(weight)
  BY RoomyFits DEF NearBounds
<1>2. ASSUME NEW t \in Tokens
      PROVE  Score(t) = Scored(weight, job.k)[t]
  <2>1. charge[t] = Leaked(Total(weight, Votes(weight, job.k, t)))
    BY <1>1, ReadVotes, Zenon
  <2>2. charge[t] = Leaked(Tally(weight, job.k, t)) /\ Tally(weight, job.k, t) \in Int
    BY <1>1, <2>1, TallyIsTotal
  <2>3. Scored(weight, job.k)[t] =
          LET v == Leaked(Tally(weight, job.k, t)) IN IF v > 0 THEN v ELSE 0
    BY <1>1, ScoredType, Zenon
  <2> QED BY <2>2, <2>3 DEF Score
<1>3. [u \in Tokens |-> Score(u)] = Scored(weight, job.k)
  <2>1. Scored(weight, job.k) = [u \in Tokens |-> Scored(weight, job.k)[u]]
    BY Zenon DEF Scored
  <2> QED BY <1>2, <2>1, Zenon
<1> QED BY <1>2, <1>3, Zenon DEF Share, ShareOf

(* Weights that favour a token more and more.                              *)
LEMMA FavoursMore ==
  ASSUME NEW a, NEW b, NEW c, Weighing(a), Weighing(b), Weighing(c), NEW g,
         Favours(a, b, g), Favours(b, c, g)
  PROVE  Favours(a, c, g)
BY DEF Favours, Weighing

(* Weights within the bounds are weights.                                  *)
LEMMA BoundsWeigh ==
  ASSUME NEW w, InBounds(w)
  PROVE  NearBounds(w) /\ Weighing(w) /\ \A g : Favours(w, w, g)
<1>1. \A e \in DOMAIN w : w[e] \in Int /\ w[e] \in WMin..WMax
  BY Sizes DEF InBounds
<1>2. Weighing(w) /\ \A g : Favours(w, w, g)
  BY <1>1 DEF InBounds, Weighing, Favours
<1>3. \A f \in DOMAIN w :
        w[f] \in IF f = NoEdge THEN (WMin - DeltaCap)..(WMax + DeltaCap) ELSE WMin..WMax
  BY <1>1, Sizes
<1> QED BY <1>2, <1>3, Zenon DEF NearBounds

(* What is applied to an edge to the token, or taken from another.         *)
LEMMA ApplyFavours ==
  ASSUME NEW w, InBounds(w), NEW e, e = NoEdge \/ e \in DOMAIN w, NEW d \in Int, NEW g,
         e # NoEdge => \/ d >= 0 /\ e.target = g
                       \/ d <= 0 /\ e.target # g
  PROVE  Favours(w, Apply(w, e, d), g)
<1>1. \A f \in DOMAIN w : w[f] \in Int /\ w[f] \in WMin..WMax
  BY Sizes DEF InBounds
<1>2. CASE e = NoEdge
  <2>1. Apply(w, e, d) = w
    BY <1>2 DEF Apply
  <2> QED BY <2>1, BoundsWeigh
<1>3. CASE e # NoEdge
  <2>1. e \in DOMAIN w /\ w[e] + d \in Int
    BY <1>1, <1>3
  <2>2. /\ w[e] <= w[e] + d => w[e] <= Clamp(w[e] + d)
        /\ w[e] + d <= w[e] => Clamp(w[e] + d) <= w[e]
    BY <1>1, <2>1, ClampRange
  <2>3. Apply(w, e, d) = [w EXCEPT ![e] = Clamp(w[e] + d)]
    BY <1>3 DEF Apply
  <2>4. \A f \in DOMAIN w : Apply(w, e, d)[f] = IF f = e THEN Clamp(w[e] + d) ELSE w[f]
    BY <2>3
  <2>5. DOMAIN Apply(w, e, d) = DOMAIN w
    BY <2>3
  <2> QED BY <1>1, <1>3, <2>1, <2>2, <2>4, <2>5 DEF Favours
<1> QED BY <1>2, <1>3

(* A probe moves a weight its way, and not far.                            *)
LEMMA ProbeMoves ==
  ASSUME NEW x \in WMin..WMax, NEW d \in -DeltaCap..DeltaCap
  PROVE  /\ ProbeClamp(x + d) \in (WMin - DeltaCap)..(WMax + DeltaCap)
         /\ d >= 0 => x <= ProbeClamp(x + d)
         /\ d <= 0 => ProbeClamp(x + d) <= x
         /\ Roomy => ProbeClamp(x + d) = x + d
<1>1. /\ x \in Int /\ d \in Int /\ WMin \in Int /\ WMax \in Int
      /\ DeltaCap \in Nat /\ SigMax \in Nat
      /\ -SigMax <= WMin /\ WMin <= x /\ x <= WMax /\ WMax <= SigMax
      /\ -DeltaCap <= d /\ d <= DeltaCap
  BY Sizes
<1>2. ProbeClamp(x + d) = IF x + d > SigMax THEN SigMax
                          ELSE IF x + d < -SigMax - 1 THEN -SigMax - 1 ELSE x + d
  BY <1>1 DEF ProbeClamp, Bag!SatAdd
<1>3. Roomy => x + d <= SigMax /\ x + d >= -SigMax
  <2>1. ASSUME Roomy
        PROVE  WMax <= Order * WMax /\ Order * WMin <= WMin
    <3>1. WMax \in Nat /\ -WMin \in Nat /\ Order >= 1 /\ Order \in Nat
      BY <2>1, Sizes DEF Roomy
    <3> QED BY <1>1, <3>1
  <2>2. Order * WMax \in Int /\ Order * WMin \in Int
    BY <1>1, Sizes
  <2> QED BY <1>1, <2>1, <2>2 DEF Roomy
<1> QED BY <1>1, <1>2, <1>3

(* What a measurement applies favours the gold token.                      *)
LEMMA AppliedFavours ==
  ASSUME NEW j, NEW w, Fitting(j, w), InBounds(w), Helpful(j, w)
  PROVE  /\ Favours(w, Halved(j, w), j.gold) /\ InBounds(Halved(j, w))
         /\ Favours(w, Stepped(j, w), j.gold) /\ InBounds(Stepped(j, w))
<1>1. /\ j.up.edge = NoEdge \/ j.up.edge \in DOMAIN w
      /\ j.down.edge = NoEdge \/ j.down.edge \in DOMAIN w
      /\ j.up.edge = NoEdge \/ j.up.edge.target = j.gold
      /\ j.down.edge = NoEdge \/ j.down.edge.target # j.gold
  BY DEF Fitting, Found, Helpful
<1>2. ASSUME NEW d \in Nat
      PROVE  LET v == Apply(Apply(w, j.up.edge, d), j.down.edge, -d) IN
             Favours(w, v, j.gold) /\ InBounds(v)
  <2> DEFINE u == Apply(w, j.up.edge, d)
             v == Apply(u, j.down.edge, -d)
  <2>1. d \in Int /\ -d \in Int /\ d >= 0 /\ -d <= 0
    OBVIOUS
  <2>2. InBounds(u) /\ DOMAIN u = DOMAIN w
    BY <1>1, <2>1, ApplyBounds, Zenon
  <2>3. InBounds(v) /\ DOMAIN v = DOMAIN u
    BY <1>1, <2>1, <2>2, ApplyBounds, Zenon
  <2>4. Favours(w, u, j.gold)
    BY <1>1, <2>1, ApplyFavours, Zenon
  <2>5. Favours(u, v, j.gold)
    BY <1>1, <2>1, <2>2, ApplyFavours, Zenon
  <2>6. Weighing(w) /\ Weighing(u) /\ Weighing(v)
    BY <2>2, <2>3, BoundsWeigh, Zenon
  <2> HIDE DEF u, v
  <2>7. Favours(w, v, j.gold)
    BY <2>4, <2>5, <2>6, FavoursMore, Zenon
  <2> QED BY <2>3, <2>7 DEF u, v
<1>3. Delta \div 2 \in Nat /\ j.delta \in Nat
  <2>1. j.delta \in 0..DeltaCap
    BY DEF Fitting, Jobs
  <2> QED BY <2>1, Sizes
<1> QED BY <1>2, <1>3, Zenon DEF Halved, Stepped

(* A probe is helpful so far when the job that makes it was.               *)
LEMMA HelpfulSame ==
  ASSUME NEW j, NEW i, NEW w, Helpful(j, w),
         i.up = j.up, i.down = j.down, i.k = j.k, i.gold = j.gold
  PROVE  Helpful(i, w)
BY Zenon DEF Helpful

(* After a measurement whose probes helped, what follows favours the token.*)
LEMMA ProceedHelps ==
  ASSUME PredictInv, Roomy, run = NoRun, NEW j, NEW w, Fitting(j, w), InBounds(w),
         j.kind \in {"fixed", "escalate"}, Helpful(j, w), Proceed(j, w),
         InBounds(before), Favours(before, w, j.gold), UNCHANGED before
  PROVE  HelpInv'
<1>1. JobInv' /\ DOMAIN weight' = DOMAIN w /\ j \in Jobs
  BY ProceedInv, Zenon DEF Fitting
<1>2. ProbesNext(j, w) \/ EndsFixed(j, w) \/ EndsRounds(j, w) \/ NextRound(j, w)
  BY <1>1, ProceedKinds
<1>3. ASSUME NEW v, Favours(w, v, j.gold), InBounds(v)
      PROVE  Favours(before, v, j.gold)
  BY <1>3, BoundsWeigh, FavoursMore, Zenon
<1>4. ASSUME job'.probed = NoProbe, InBounds(weight'), Favours(w, weight', j.gold),
             job'.gold = j.gold
      PROVE  HelpInv'
  <2>1. Base' = weight'
    BY <1>4 DEF Base
  <2>2. Favours(before, weight', j.gold)
    BY <1>3, <1>4, Zenon
  <2>3. Favours(before', Base', job'.gold) /\ InBounds(before')
    BY <1>4, <2>1, <2>2, Zenon
  <2> QED BY <1>4, <2>3, Zenon DEF HelpInv
<1>5. /\ Favours(w, Halved(j, w), j.gold) /\ InBounds(Halved(j, w))
      /\ Favours(w, Stepped(j, w), j.gold) /\ InBounds(Stepped(j, w))
  BY AppliedFavours, Zenon
<1>6. CASE ProbesNext(j, w)
  <2> DEFINE p == Head(j.probes)
  <2>1. j.probes # <<>> /\ \A i \in DOMAIN j.probes : j.probes[i].edge \in DOMAIN w
    BY <1>6 DEF ProbesNext, Fitting
  <2>2. /\ job' = Probing(j, w) /\ weight' = [w EXCEPT ![p.edge] = ProbeClamp(w[p.edge] + p.by)]
    BY <1>6 DEF ProbesNext
  <2>3. /\ p.edge \in DOMAIN w /\ job'.probed = p /\ job'.save = w[p.edge]
        /\ job'.k = j.k /\ job'.gold = j.gold /\ job'.up = j.up /\ job'.down = j.down
        /\ p \in Probes
    BY <1>1, <2>1, <2>2, ProbingKept, Zenon
  <2> HIDE DEF p
  <2>4. job'.probed # NoProbe
    BY <2>3, NothingFits, Zenon
  <2>5. w = [e \in DOMAIN w |-> w[e]]
    BY DEF InBounds
  <2>6. Base' = w
    <3>1. Restored' = [weight' EXCEPT ![p.edge] = w[p.edge]]
      BY <2>3, Zenon DEF Restored
    <3>2. [weight' EXCEPT ![p.edge] = w[p.edge]] = w
      BY <2>2, <2>3, <2>5
    <3> QED BY <2>4, <3>1, <3>2, Zenon DEF Base
  <2>7. Helpful(job', w)
    BY <2>3, HelpfulSame, Zenon
  <2>8. weight'[job'.probed.edge] = ProbeClamp(job'.save + job'.probed.by)
    BY <2>2, <2>3
  <2>9. Favours(before', Base', job'.gold) /\ InBounds(before') /\ Helpful(job', Base')
    BY <2>3, <2>6, <2>7, Zenon
  <2> QED BY <2>8, <2>9, Zenon DEF HelpInv
<1>7. CASE EndsFixed(j, w)
  <2>1. job' = Jobless(j) /\ weight' = Halved(j, w)
    BY <1>7 DEF EndsFixed
  <2>2. job'.probed = NoProbe /\ job'.gold = j.gold
    BY <1>1, <2>1, JobsKept, Zenon
  <2> QED BY <1>4, <1>5, <2>1, <2>2, Zenon
<1>8. j.kind # "fixed" => j.round < EscRounds
  BY DEF Fitting
<1>9. CASE EndsRounds(j, w)
  <2>1. job' = Jobless(Again(j)) /\ weight' = Stepped(j, w) /\ j.round < EscRounds
    BY <1>8, <1>9 DEF EndsRounds
  <2>2. Again(j) \in Jobs /\ Again(j).gold = j.gold
    BY <1>1, <2>1, JobsKept, Zenon
  <2>3. job'.probed = NoProbe /\ job'.gold = j.gold
    BY <2>1, <2>2, JobsKept, Zenon
  <2> QED BY <1>4, <1>5, <2>1, <2>3, Zenon
<1>10. CASE NextRound(j, w)
  <2>1. job' = Again(j) /\ weight' = Stepped(j, w) /\ j.round < EscRounds
    BY <1>8, <1>10 DEF NextRound
  <2>2. job'.probed = NoProbe /\ job'.gold = j.gold
    BY <1>1, <2>1, JobsKept, Zenon
  <2> QED BY <1>4, <1>5, <2>1, <2>2, Zenon
<1> QED BY <1>2, <1>6, <1>7, <1>9, <1>10

(* Nothing has been found yet when the probes are planned.                 *)
LEMMA PlannedHelps ==
  ASSUME PredictInv, VotesInv, Roomy, Measured,
         NEW s, s \in Seq(Probes), \A i \in DOMAIN s : s[i].edge \in DOMAIN weight
  PROVE  /\ Helpful(Planned(s), weight)
         /\ Planned(s).up.share = ShareOf(weight, job.k, job.gold)
<1>1. /\ job.gold \in Tokens /\ InBounds(weight) /\ Returned
      /\ job.kind \in {"fixed", "escalate"}
  BY MeasuredKinds DEF Measured
<1>2. /\ Planned(s).k = job.k /\ Planned(s).gold = job.gold
      /\ Planned(s).up = Unhelped /\ Planned(s).down = Unhelped
  BY <1>1, PlannedFits
<1>3. NearBounds(weight) /\ Weighing(weight)
  BY <1>1, BoundsWeigh, Zenon
<1> DEFINE q == ShareOf(weight, job.k, job.gold)
<1>4. Unhelped.edge = NoEdge /\ Unhelped.share = q
  BY <1>1, <1>3, ShareRead DEF Unhelped
<1>5. q \in Positive \X Positive
  BY <1>1, <1>3, ShareParts, Zenon
<1> HIDE DEF q
<1>6. ~Better(q, q)
  BY <1>5, BetterOrder, Zenon
<1>7. Planned(s).up.share = q /\ Planned(s).down.share = q
      /\ Planned(s).up.edge = NoEdge /\ Planned(s).down.edge = NoEdge
  BY <1>2, <1>4, Zenon
<1>8. {q} \subseteq Positive \X Positive
  BY <1>5
<1>9. Helpful(Planned(s), weight)
  <2>1. q = ShareOf(weight, Planned(s).k, Planned(s).gold)
    BY <1>2, Zenon DEF q
  <2>2. {Planned(s).up.share, Planned(s).down.share} \subseteq Positive \X Positive
    BY <1>5, <1>7
  <2> QED BY <1>6, <1>7, <2>1, <2>2, Zenon DEF Helpful
<1> QED BY <1>7, <1>9 DEF q

(* The graph under probe: one weight differs from the base, and the share  *)
(* read is the one under it.                                               *)
LEMMA UnderProbe ==
  ASSUME PredictInv, VotesInv, HelpInv, Roomy, Probed
  PROVE  /\ Base = Restored /\ InBounds(Base) /\ NearBounds(weight) /\ Helpful(job, Base)
         /\ job.probed.by \in -DeltaCap..DeltaCap
         /\ DOMAIN Base = DOMAIN weight
         /\ weight[job.probed.edge] = Base[job.probed.edge] + job.probed.by
         /\ \A e \in DOMAIN weight : e # job.probed.edge => weight[e] = Base[e]
         /\ Share(job.gold) = ShareOf(weight, job.k, job.gold)
         /\ Favours(before, Base, job.gold) /\ InBounds(before)
<1>1. /\ run = NoRun /\ phase = "between" /\ job.gold \in Tokens /\ job.probed # NoProbe
      /\ job.probed \in Probes /\ job.probed.edge \in DOMAIN weight
      /\ InBounds(Restored) /\ DOMAIN Restored = DOMAIN weight /\ Returned
  BY ProbedKinds DEF Probed
<1>2. Base = Restored
  BY <1>1 DEF Base
<1>3. job.gold # 0
  BY <1>1, KindsOfNodes
<1>4. Helpful(job, Base) /\ Favours(before, Base, job.gold) /\ InBounds(before)
      /\ weight[job.probed.edge] = ProbeClamp(job.save + job.probed.by)
  BY <1>1, <1>3 DEF HelpInv
<1>5. /\ Base[job.probed.edge] = job.save
      /\ \A e \in DOMAIN weight : e # job.probed.edge => weight[e] = Base[e]
  BY <1>1, <1>2 DEF Restored
<1>6. job.save \in WMin..WMax /\ \A e \in DOMAIN weight : Base[e] \in WMin..WMax
  BY <1>1, <1>2, <1>5 DEF InBounds
<1>7. job.probed.by \in -DeltaCap..DeltaCap
  BY <1>1, NothingFits
<1>8. /\ ProbeClamp(job.save + job.probed.by) \in (WMin - DeltaCap)..(WMax + DeltaCap)
      /\ ProbeClamp(job.save + job.probed.by) = job.save + job.probed.by
  BY <1>6, <1>7, ProbeMoves
<1>9. \A e \in DOMAIN weight :
        weight[e] \in IF e = job.probed.edge THEN (WMin - DeltaCap)..(WMax + DeltaCap)
                     ELSE WMin..WMax
  BY <1>4, <1>5, <1>6, <1>8
<1>10. NearBounds(weight)
  <2>1. \A e \in DOMAIN weight : weight[e] \in Int
    BY <1>9, Sizes
  <2>2. Weighing(weight)
    BY <2>1 DEF PredictInv, JobInv, Weighing
  <2> QED BY <1>9, <2>2, Zenon DEF NearBounds
<1>11. Share(job.gold) = ShareOf(weight, job.k, job.gold)
  BY <1>1, <1>10, ShareRead
<1> QED BY <1>1, <1>2, <1>4, <1>5, <1>7, <1>8, <1>10, <1>11

(* What a probe reports is helpful too: one that moved an edge the wrong   *)
(* way has not made the share larger.                                      *)
LEMMA ReportedHelps ==
  ASSUME PredictInv, VotesInv, HelpInv, Roomy, Probed
  PROVE  Helpful(Reported, Base)
<1> DEFINE q == ShareOf(Base, job.k, job.gold)
           s == Share(job.gold)
           p == job.probed
<1>1. /\ InBounds(Base) /\ NearBounds(weight) /\ Helpful(job, Base)
      /\ p.by \in -DeltaCap..DeltaCap /\ DOMAIN Base = DOMAIN weight
      /\ weight[p.edge] = Base[p.edge] + p.by
      /\ \A e \in DOMAIN weight : e # p.edge => weight[e] = Base[e]
      /\ s = ShareOf(weight, job.k, job.gold)
  BY UnderProbe, Zenon
<1>2. job.gold \in Tokens /\ p.edge \in DOMAIN weight
  BY ProbedKinds, Zenon
<1>3. Weighing(Base) /\ Weighing(weight)
  BY <1>1, BoundsWeigh, Zenon DEF NearBounds
<1>4. s \in Positive \X Positive /\ q \in Positive \X Positive
  <2>1. ShareOf(weight, job.k, job.gold) \in Positive \X Positive
    BY <1>2, <1>3, ShareParts
  <2>2. ShareOf(Base, job.k, job.gold) \in Positive \X Positive
    BY <1>2, <1>3, ShareParts
  <2> QED BY <1>1, <2>1, <2>2
<1>5. /\ job.up.share \in Positive \X Positive /\ job.down.share \in Positive \X Positive
      /\ ~Better(q, job.up.share) /\ ~Better(q, job.down.share)
      /\ job.up.edge = NoEdge \/ job.up.edge.target = job.gold
      /\ job.down.edge = NoEdge \/ job.down.edge.target # job.gold
  BY <1>1 DEF Helpful
<1>6. ASSUME \/ p.by >= 0 /\ p.edge.target # job.gold
             \/ p.by <= 0 /\ p.edge.target = job.gold
      PROVE  ~Better(s, q)
  <2>1. Favours(weight, Base, job.gold)
    <3>1. \A e \in DOMAIN weight : weight[e] \in Int /\ Base[e] \in Int
      BY <1>1, <1>3 DEF Weighing
    <3>2. \A e \in DOMAIN weight :
            IF e.target = job.gold THEN weight[e] <= Base[e] ELSE Base[e] <= weight[e]
      BY <1>1, <1>2, <1>6, <3>1
    <3> QED BY <1>1, <3>2 DEF Favours
  <2>2. ~Better(ShareOf(weight, job.k, job.gold), ShareOf(Base, job.k, job.gold))
    BY <1>2, <1>3, <2>1, FavoursBetter
  <2> QED BY <1>1, <2>2
<1>7. ASSUME NEW b, b.share \in Positive \X Positive, ~Better(q, b.share), Better(s, b.share)
      PROVE  Better(s, q) /\ ~Better(q, s)
  <2> HIDE DEF s, q
  <2> QED BY <1>4, <1>7, BetterOrder, Zenon
<1>8. /\ Reported.k = job.k /\ Reported.gold = job.gold
      /\ Reported.up = (IF p.by > 0 THEN BetterThan(job.up) ELSE job.up)
      /\ Reported.down = (IF p.by > 0 THEN job.down ELSE BetterThan(job.down))
  BY ReportedFits, Zenon
<1>9. \A b : BetterThan(b) = IF Better(s, b.share) THEN [edge |-> p.edge, share |-> s] ELSE b
  BY Zenon DEF BetterThan
<1>10. p.by \in Int
  BY <1>1
<1> HIDE DEF p, q, s
<1>11. ASSUME NEW b, NEW c, c = (IF Better(s, b.share) THEN [edge |-> p.edge, share |-> s] ELSE b),
              b.share \in Positive \X Positive, ~Better(q, b.share)
       PROVE  /\ c.share \in Positive \X Positive /\ ~Better(q, c.share)
              /\ c.edge = b.edge \/ (c.edge = p.edge /\ Better(s, q))
  <2>1. CASE Better(s, b.share)
    <3>1. c = [edge |-> p.edge, share |-> s]
      BY <1>11, <2>1
    <3>2. c.edge = p.edge /\ c.share = s
      BY <3>1
    <3> QED BY <1>4, <1>7, <1>11, <2>1, <3>2
  <2>2. CASE ~Better(s, b.share)
    BY <1>11, <2>2
  <2> QED BY <2>1, <2>2
<1> DEFINE u == Reported.up
           d == Reported.down
<1>12. CASE p.by > 0
  <2>1. /\ d = job.down
        /\ u = (IF Better(s, job.up.share) THEN [edge |-> p.edge, share |-> s] ELSE job.up)
    BY <1>8, <1>9, <1>12
  <2> HIDE DEF u, d
  <2>2. /\ u.share \in Positive \X Positive /\ ~Better(q, u.share)
        /\ u.edge = job.up.edge \/ (u.edge = p.edge /\ Better(s, q))
    BY <1>5, <1>11, <2>1
  <2>3. u.edge = NoEdge \/ u.edge.target = job.gold
    BY <1>5, <1>6, <1>10, <1>12, <2>2
  <2>4. {u.share, d.share} \subseteq Positive \X Positive
    BY <1>5, <2>1, <2>2
  <2>5. ~Better(ShareOf(Base, Reported.k, Reported.gold), u.share)
        /\ ~Better(ShareOf(Base, Reported.k, Reported.gold), d.share)
    BY <1>5, <1>8, <2>1, <2>2, Zenon DEF q
  <2> QED BY <1>5, <1>8, <2>1, <2>3, <2>4, <2>5, Zenon DEF Helpful, u, d
<1>13. CASE ~(p.by > 0)
  <2>1. /\ u = job.up
        /\ d = (IF Better(s, job.down.share) THEN [edge |-> p.edge, share |-> s] ELSE job.down)
    BY <1>8, <1>9, <1>13
  <2> HIDE DEF u, d
  <2>2. /\ d.share \in Positive \X Positive /\ ~Better(q, d.share)
        /\ d.edge = job.down.edge \/ (d.edge = p.edge /\ Better(s, q))
    BY <1>5, <1>11, <2>1
  <2>3. d.edge = NoEdge \/ d.edge.target # job.gold
    BY <1>5, <1>6, <1>10, <1>13, <2>2
  <2>4. {u.share, d.share} \subseteq Positive \X Positive
    BY <1>5, <2>1, <2>2
  <2>5. ~Better(ShareOf(Base, Reported.k, Reported.gold), u.share)
        /\ ~Better(ShareOf(Base, Reported.k, Reported.gold), d.share)
    BY <1>5, <1>8, <2>1, <2>2, Zenon DEF q
  <2> QED BY <1>5, <1>8, <2>1, <2>3, <2>4, <2>5, Zenon DEF Helpful, u, d
<1> QED BY <1>12, <1>13

(* The steps that change neither the weights nor who asks.                 *)
EngineStep == UNCHANGED <<weight, job, before>>
CallStep ==
  \/ \E k \in 1..Order : Forecast(k)
  \/ \E kind \in {"fixed", "escalate"}, k \in 1..Order, gold \in Tokens : Teach(kind, k, gold)
  \/ Read \/ Measured \/ Probed

(* There are no other steps.                                               *)
LEMMA StepKinds ==
  ASSUME [Next]_vars
  PROVE  EngineStep \/ CallStep
<1>1. ASSUME NEW ev \in queue, Deliver(ev)
      PROVE  EngineStep
  BY <1>1 DEF Deliver, EngineStep
<1>2. BeginTick \/ Activate \/ Send \/ EndTick => EngineStep
  BY DEF BeginTick, Activate, Send, EndTick, EngineStep
<1>3. UNCHANGED vars => EngineStep
  BY DEF vars, EngineStep
<1> QED BY <1>1, <1>2, <1>3, Zenon DEF Next, CallStep

(* A call that begins has no probes yet, and teaching starts from the      *)
(* weights that it remembers.                                              *)
LEMMA BeginsHelpful ==
  ASSUME PredictInv, PredictInv'
  PROVE  /\ \A k \in 1..Order : Forecast(k) => HelpInv'
         /\ \A kind \in {"fixed", "escalate"}, k \in 1..Order, gold \in Tokens :
              Teach(kind, k, gold) => HelpInv'
         /\ Read => HelpInv'
<1>1. NoJob.gold = 0
  BY DEF NoJob
<1>2. ASSUME NEW k \in 1..Order, Forecast(k)
      PROVE  HelpInv'
  <2>1. job' = [NoJob EXCEPT !.kind = "plain", !.k = k]
    BY <1>2 DEF Forecast
  <2>2. job'.gold = 0
    BY <2>1 DEF NoJob
  <2> QED BY <2>2 DEF HelpInv
<1>3. ASSUME Read
      PROVE  HelpInv'
  <2>1. job'.gold = 0
    BY <1>1, <1>3 DEF Read
  <2> QED BY <2>1 DEF HelpInv
<1>4. ASSUME NEW kind \in {"fixed", "escalate"}, NEW k \in 1..Order, NEW gold \in Tokens,
             Teach(kind, k, gold)
      PROVE  HelpInv'
  <2>1. job' = Teaching(kind, k, gold) /\ before' = weight'
    BY <1>4 DEF Teach, Teaching
  <2>2. job'.probed = NoProbe
    BY <2>1, TaughtJob
  <2>3. Base' = weight' /\ InBounds(weight')
    BY <2>2 DEF Base, PredictInv, JobInv
  <2>4. \A g : Favours(weight', weight', g)
    BY <2>3, BoundsWeigh
  <2>5. Favours(before', Base', job'.gold) /\ InBounds(before')
    BY <2>1, <2>3, <2>4, Zenon
  <2> QED BY <2>2, <2>5, Zenon DEF HelpInv
<1> QED BY <1>2, <1>3, <1>4

(* So does what follows a measurement.                                     *)
LEMMA MeasuredHelps ==
  ASSUME PredictInv, VotesInv, HelpInv, Measured
  PROVE  HelpInv'
<1> SUFFICES ASSUME Roomy
             PROVE  HelpInv'
  BY DEF HelpInv
<1>1. /\ run = NoRun /\ job.gold \in Tokens /\ InBounds(weight) /\ before' = before
      /\ job.probed = NoProbe
      /\ \/ job.kind = "fixed" /\ Proceed(Planned(FixedProbes), weight)
         \/ /\ job.kind = "escalate" /\ Argmax # job.gold
            /\ Proceed(Planned(EscalatedProbes), weight)
         \/ job.kind = "escalate" /\ Argmax = job.gold /\ Finish(job, weight)
  BY MeasuredKinds
<1>2. job.gold # 0 /\ JobInv
  BY <1>1, KindsOfNodes DEF PredictInv
<1>3. InBounds(before) /\ Favours(before, weight, job.gold)
  <2>1. Base = weight
    BY <1>1 DEF Base
  <2> QED BY <1>2, <2>1 DEF HelpInv
<1>4. ASSUME NEW s, s \in Seq(Probes), \A i \in DOMAIN s : s[i].edge \in DOMAIN weight,
             Proceed(Planned(s), weight), job.kind \in {"fixed", "escalate"}
      PROVE  HelpInv'
  <2>1. Helpful(Planned(s), weight)
    BY <1>4, PlannedHelps
  <2>2. /\ Fitting(Planned(s), weight) /\ Planned(s).kind = job.kind
        /\ Planned(s).gold = job.gold
    BY <1>1, <1>4, PlannedFits
  <2>3. Favours(before, weight, Planned(s).gold)
    BY <1>3, <2>2, Zenon
  <2> QED BY <1>1, <1>3, <1>4, <2>1, <2>2, <2>3, ProceedHelps
<1>5. CASE job.kind = "fixed" /\ Proceed(Planned(FixedProbes), weight)
  <2>1. /\ FixedProbes \in Seq(Probes)
        /\ \A i \in DOMAIN FixedProbes : FixedProbes[i].edge \in DOMAIN weight
    BY <1>2, FixedTyped, Zenon
  <2> QED BY <1>4, <1>5, <2>1
<1>6. CASE job.kind = "escalate" /\ Proceed(Planned(EscalatedProbes), weight)
  <2>1. /\ EscalatedProbes \in Seq(Probes)
        /\ \A i \in DOMAIN EscalatedProbes : EscalatedProbes[i].edge \in DOMAIN weight
    BY <1>2, EscalatedTyped, Zenon
  <2> QED BY <1>4, <1>6, <2>1
<1>7. CASE Finish(job, weight)
  <2>1. job' = Jobless(job) /\ weight' = weight /\ job \in Jobs
    BY <1>2, <1>7, Zenon DEF Finish, Jobless, JobInv, Fitting
  <2>2. job'.probed = NoProbe /\ job'.gold = job.gold
    BY <2>1, JobsKept, Zenon
  <2>3. Base' = weight
    BY <2>1, <2>2 DEF Base
  <2>4. Favours(before', Base', job'.gold) /\ InBounds(before')
    BY <1>1, <1>3, <2>2, <2>3, Zenon
  <2> QED BY <2>2, <2>4, Zenon DEF HelpInv
<1> QED BY <1>1, <1>5, <1>6, <1>7

(* And what follows a probe.                                               *)
LEMMA ProbedHelps ==
  ASSUME PredictInv, VotesInv, HelpInv, Probed
  PROVE  HelpInv'
<1> SUFFICES ASSUME Roomy
             PROVE  HelpInv'
  BY DEF HelpInv
<1>1. /\ run = NoRun /\ job.kind \in {"fixed", "escalate"}
      /\ before' = before /\ Proceed(Reported, Restored)
  BY ProbedKinds
<1>2. /\ Base = Restored /\ InBounds(Base)
      /\ Favours(before, Base, job.gold) /\ InBounds(before)
  BY UnderProbe, Zenon
<1>3. Helpful(Reported, Restored)
  BY <1>2, ReportedHelps
<1>4. Fitting(Reported, Restored) /\ Reported.kind = job.kind /\ Reported.gold = job.gold
  BY ReportedFits, Zenon
<1>5. Favours(before, Restored, Reported.gold) /\ InBounds(Restored)
  BY <1>2, <1>4, Zenon
<1> QED BY <1>1, <1>2, <1>3, <1>4, <1>5, ProceedHelps

(* Every step keeps what teaching does.                                    *)
LEMMA HelpStep ==
  PredictInv /\ PredictInv' /\ VotesInv /\ HelpInv /\ [Next]_vars => HelpInv'
<1> SUFFICES ASSUME PredictInv, PredictInv', VotesInv, HelpInv, [Next]_vars
             PROVE  HelpInv'
  OBVIOUS
<1>1. CASE EngineStep
  <2>1. weight' = weight /\ job' = job /\ before' = before
    BY <1>1 DEF EngineStep
  <2>2. Base' = Base
    BY <2>1, Zenon DEF Base, Restored
  <2> QED BY <2>1, <2>2, Zenon DEF HelpInv
<1>2. CASE CallStep
  BY <1>2, BeginsHelpful, MeasuredHelps, ProbedHelps, Zenon DEF CallStep
<1> QED BY <1>1, <1>2, StepKinds

(* So it always holds.                                                     *)
LEMMA HelpInvariant == Spec => []HelpInv
<1>1. Init => HelpInv
  BY DEF Init, HelpInv, NoJob
<1>2. PredictInv /\ PredictInv' /\ VotesInv /\ HelpInv /\ [Next]_vars => HelpInv'
  BY HelpStep
<1> QED BY <1>1, <1>2, PredictInvariant, VotesInvariant, PTL DEF Spec

(* Teaching never makes the taught token less likely, whatever the graph,  *)
(* the weights and the number of candidates: what is applied together, at  *)
(* another size and against other bounds than it was measured, raises only *)
(* edges to the token and lowers only others.                              *)
THEOREM TeachingNeverHurts == Spec => []TeachingHelps
<1>1. PredictInv /\ HelpInv => TeachingHelps
  <2> SUFFICES ASSUME PredictInv, HelpInv, Roomy, Taught
               PROVE  ~Better(ShareUnder(before), ShareUnder(weight))
    BY DEF TeachingHelps
  <2>1. job.kind = "none" /\ job.gold # 0
    BY DEF Taught
  <2>2. job.probed = NoProbe /\ InBounds(weight) /\ job.gold \in Tokens
    BY <2>1 DEF PredictInv, JobInv, Fitting, Jobs
  <2>3. Base = weight
    BY <2>2 DEF Base
  <2>4. InBounds(before) /\ Favours(before, weight, job.gold)
    BY <2>1, <2>3 DEF HelpInv
  <2>5. ~Better(ShareOf(before, job.k, job.gold), ShareOf(weight, job.k, job.gold))
    BY <2>2, <2>4, BoundsWeigh, FavoursBetter
  <2>6. \A w : ShareUnder(w) = ShareOf(w, job.k, job.gold)
    BY Zenon DEF ShareUnder, ShareOf, Scored
  <2> QED BY <2>5, <2>6, Zenon
<1> QED BY <1>1, PredictInvariant, HelpInvariant, PTL

(* Doubling: what the recursive function is to be, up to n.                *)
DoubledOnce(g, r) == IF r = 0 THEN Delta ELSE 2 * g[r - 1]
DoublesTo(g, n) == \A r \in Nat : r <= n => g[r] = DoubledOnce(g, r)

(* There is one for every n.                                               *)
LEMMA DoublesExist ==
  ASSUME NEW n \in Nat
  PROVE  \E g : DoublesTo(g, n)
<1> DEFINE Has(m) == \E g : DoublesTo(g, m)
           I == {m \in Nat : ~Has(m)}
<1>1. ASSUME I # {}
      PROVE  FALSE
  <2>1. PICK m \in I : \A k \in I : m <= k
    BY <1>1, LeastNat, Zenon
  <2>2. m \in Nat /\ ~Has(m)
    BY <2>1
  <2>3. CASE m = 0
    <3> DEFINE g == [r \in Nat |-> Delta]
    <3>1. \A r \in Nat : r <= m => g[r] = DoubledOnce(g, r)
      BY <2>3 DEF DoubledOnce
    <3>2. DoublesTo(g, m)
      BY <3>1, Zenon DEF DoublesTo
    <3> QED BY <2>2, <3>2
  <2>4. CASE m # 0
    <3>1. m - 1 \in Nat /\ m - 1 \notin I
      <4> HIDE DEF I
      <4> QED BY <2>1, <2>2, <2>4
    <3>2. PICK g : DoublesTo(g, m - 1)
      BY <3>1, Zenon
    <3> DEFINE h == [r \in Nat |-> DoubledOnce(g, r)]
    <3>3. ASSUME NEW r \in Nat, r <= m
          PROVE  h[r] = DoubledOnce(h, r)
      <4>1. CASE r = 0
        BY <4>1 DEF DoubledOnce
      <4>2. CASE r # 0
        <5>1. r - 1 \in Nat /\ r - 1 <= m - 1
          BY <2>2, <3>3, <4>2
        <5>2. h[r] = DoubledOnce(g, r) /\ h[r - 1] = DoubledOnce(g, r - 1)
          BY <5>1
        <5>3. g[r - 1] = DoubledOnce(g, r - 1)
          BY <3>2, <5>1 DEF DoublesTo
        <5> HIDE DEF h
        <5> QED BY <4>2, <5>2, <5>3 DEF DoubledOnce
      <4> QED BY <4>1, <4>2
    <3> HIDE DEF h
    <3>4. DoublesTo(h, m)
      BY <3>3, Zenon DEF DoublesTo
    <3> QED BY <2>2, <3>4
  <2> QED BY <2>3, <2>4
<1> QED BY <1>1, Zenon

(* Two agree as far as both are right.                                     *)
LEMMA DoublesAgree ==
  ASSUME NEW n \in Nat, NEW g, NEW h, DoublesTo(g, n), DoublesTo(h, n)
  PROVE  \A r \in Nat : r <= n => g[r] = h[r]
<1> DEFINE I == {r \in Nat : r <= n /\ g[r] # h[r]}
<1>1. ASSUME I # {}
      PROVE  FALSE
  <2>1. I \subseteq Nat
    OBVIOUS
  <2>2. PICK m \in I : \A k \in I : m <= k
    <3> HIDE DEF I
    <3> QED BY <1>1, <2>1, LeastNat, Zenon
  <2>3. m \in Nat /\ m <= n /\ g[m] # h[m]
    BY <2>2
  <2>4. g[m] = DoubledOnce(g, m) /\ h[m] = DoubledOnce(h, m)
    BY <2>3 DEF DoublesTo
  <2>5. m # 0
    BY <2>3, <2>4 DEF DoubledOnce
  <2>6. m - 1 \in Nat /\ m - 1 <= n /\ m - 1 \notin I
    <3>1. m - 1 \in Nat /\ m - 1 <= n /\ ~(m <= m - 1)
      BY <2>3, <2>5
    <3> HIDE DEF I
    <3> QED BY <2>2, <3>1
  <2>7. g[m - 1] = h[m - 1]
    BY <2>6
  <2> QED BY <2>3, <2>4, <2>5, <2>7 DEF DoubledOnce
<1> QED BY <1>1

(* So Doubled is what its definition says.                                 *)
LEMMA DoubledIs == Doubled[0] = Delta /\ \A r \in Nat : Doubled[r + 1] = 2 * Doubled[r]
<1> DEFINE upTo(n) == CHOOSE g : DoublesTo(g, n)
           f == [n \in Nat |-> upTo(n)[n]]
<1>1. \A n \in Nat : DoublesTo(upTo(n), n)
  BY DoublesExist, Zenon
<1>2. ASSUME NEW n \in Nat
      PROVE  f[n] = DoubledOnce(f, n)
  <2>1. upTo(n)[n] = DoubledOnce(upTo(n), n)
    BY <1>1 DEF DoublesTo
  <2>2. f[n] = upTo(n)[n]
    OBVIOUS
  <2>3. CASE n = 0
    BY <2>1, <2>2, <2>3 DEF DoubledOnce
  <2>4. CASE n # 0
    <3>1. n - 1 \in Nat /\ n - 1 <= n
      BY <2>4
    <3>2. DoublesTo(upTo(n), n - 1) /\ DoublesTo(upTo(n - 1), n - 1)
      <4>1. \A r \in Nat : r <= n - 1 => r <= n
        OBVIOUS
      <4>2. DoublesTo(upTo(n), n) /\ DoublesTo(upTo(n - 1), n - 1)
        BY <1>1, <3>1, Zenon
      <4> HIDE DEF upTo
      <4> QED BY <4>1, <4>2, Zenon DEF DoublesTo
    <3>3. n - 1 <= n - 1
      OBVIOUS
    <3>4. upTo(n)[n - 1] = upTo(n - 1)[n - 1]
      <4> HIDE DEF upTo
      <4>1. \A m \in Nat : \A g, h : DoublesTo(g, m) /\ DoublesTo(h, m) =>
              \A r \in Nat : r <= m => g[r] = h[r]
        BY DoublesAgree
      <4>2. \A r \in Nat : r <= n - 1 => upTo(n)[r] = upTo(n - 1)[r]
        BY <3>1, <3>2, <4>1
      <4> QED BY <3>1, <3>3, <4>2
    <3>5. f[n - 1] = upTo(n - 1)[n - 1]
      BY <3>1, Zenon
    <3> HIDE DEF f, upTo
    <3> QED BY <2>1, <2>2, <2>4, <3>4, <3>5 DEF DoubledOnce
  <2> QED BY <2>3, <2>4
<1>3. f = [r \in Nat |-> IF r = 0 THEN Delta ELSE 2 * f[r - 1]]
  <2>1. \A r \in Nat : f[r] = IF r = 0 THEN Delta ELSE 2 * f[r - 1]
    <3> HIDE DEF f
    <3> QED BY <1>2, Zenon DEF DoubledOnce
  <2>2. f = [r \in Nat |-> f[r]]
    <3>1. \A h : h = [r \in Nat |-> upTo(r)[r]] => h = [r \in Nat |-> h[r]]
      <4> HIDE DEF upTo
      <4> QED OBVIOUS
    <3> QED BY <3>1, Zenon
  <2> HIDE DEF f
  <2>3. [r \in Nat |-> f[r]] = [r \in Nat |-> IF r = 0 THEN Delta ELSE 2 * f[r - 1]]
    BY <2>1, Zenon
  <2> QED BY <2>2, <2>3, Zenon
<1>4. Doubled = [r \in Nat |-> IF r = 0 THEN Delta ELSE 2 * Doubled[r - 1]]
  <2> HIDE DEF f
  <2> QED BY <1>3, Zenon DEF Doubled
<1>5. Doubled[0] = Delta
  BY <1>4
<1>6. ASSUME NEW r \in Nat
      PROVE  Doubled[r + 1] = 2 * Doubled[r]
  <2>1. r + 1 \in Nat /\ r + 1 # 0 /\ (r + 1) - 1 = r
    OBVIOUS
  <2>2. Doubled[r + 1] = IF r + 1 = 0 THEN Delta ELSE 2 * Doubled[(r + 1) - 1]
    BY <1>4, <2>1, Zenon
  <2> QED BY <2>1, <2>2, Zenon
<1> QED BY <1>5, <1>6

(* Doubled deltas are whole numbers.                                       *)
LEMMA DoubledType == \A r \in Nat : Doubled[r] \in Nat
<1> DEFINE I == {r \in Nat : Doubled[r] \notin Nat}
<1>1. ASSUME I # {}
      PROVE  FALSE
  <2>1. I \subseteq Nat
    OBVIOUS
  <2>2. PICK m \in I : \A k \in I : m <= k
    <3> HIDE DEF I
    <3> QED BY <1>1, <2>1, LeastNat, Zenon
  <2>3. m \in Nat /\ Doubled[m] \notin Nat
    BY <2>2
  <2>4. m # 0
    BY <2>3, DoubledIs, Sizes
  <2>5. m - 1 \in Nat /\ m - 1 \notin I
    <3>1. m - 1 \in Nat /\ ~(m <= m - 1)
      BY <2>3, <2>4
    <3> HIDE DEF I
    <3> QED BY <2>2, <3>1
  <2>6. Doubled[m - 1] \in Nat /\ (m - 1) + 1 = m
    BY <2>3, <2>5
  <2>7. Doubled[m] = 2 * Doubled[m - 1]
    BY <2>5, <2>6, DoubledIs
  <2> QED BY <2>3, <2>6, <2>7
<1> QED BY <1>1

(* The delta of the next round is this one's, grown.                       *)
LEMMA DeltaGrows ==
  ASSUME NEW r \in Nat
  PROVE  /\ DeltaAt(r) \in 0..DeltaCap /\ Grown(DeltaAt(r)) = DeltaAt(r + 1)
         /\ DeltaAt(0) = Delta
<1>1. /\ Doubled[r] \in Nat /\ Doubled[r + 1] = 2 * Doubled[r] /\ Doubled[0] = Delta
      /\ DeltaCap \in Nat /\ Delta \in 0..DeltaCap
  BY DoubledIs, DoubledType, Sizes
<1>2. DeltaAt(r) \in 0..DeltaCap
  BY <1>1 DEF DeltaAt
<1>3. Grown(DeltaAt(r)) = IF 2 * DeltaAt(r) <= DeltaCap THEN 2 * DeltaAt(r) ELSE DeltaCap
  BY <1>2, GrownRange
<1> QED BY <1>1, <1>2, <1>3 DEF DeltaAt

(* Weights that favour a token and give it a larger score give it a larger *)
(* share, unless it is the only token there is.                            *)
LEMMA StrictBetter ==
  ASSUME NEW w, NEW v, Weighing(w), Weighing(v), NEW k, NEW g \in Tokens, Favours(w, v, g),
         Vocab > 1, Scored(w, k)[g] < Scored(v, k)[g]
  PROVE  Better(ShareOf(v, k, g), ShareOf(w, k, g))
<1> DEFINE a == Scored(w, k)[g]
           b == Scored(v, k)[g]
           r == Rest(w, k, g)
           q == Rest(v, k, g)
<1>1. /\ a \in Nat /\ b \in Nat /\ r \in Nat /\ q \in Nat /\ a < b /\ q <= r
      /\ ShareOf(w, k, g) = <<2 * a + 1, 2 * (a + r) + Vocab>>
      /\ ShareOf(v, k, g) = <<2 * b + 1, 2 * (b + q) + Vocab>>
  BY FavoursBetter, ShareParts, Zenon
<1> HIDE DEF a, b, r, q
<1> DEFINE x == 2 * a + 1
           y == 2 * b + 1
           c == 2 * r + Vocab - 1
           d == 2 * q + Vocab - 1
<1>2. x \in Nat /\ y \in Nat /\ c \in Nat /\ d \in Nat /\ x < y /\ d <= c /\ c > 0
      /\ 2 * (a + r) + Vocab = x + c /\ 2 * (b + q) + Vocab = y + d
  BY <1>1, Sizes
<1>3. ShareOf(w, k, g) = <<x, x + c>> /\ ShareOf(v, k, g) = <<y, y + d>>
  BY <1>1, <1>2 DEF x, y
<1> HIDE DEF x, y, c, d
<1>4. x * d <= x * c /\ x * c < y * c
  BY <1>2
<1>5. y * (x + c) > x * (y + d)
  BY <1>2, <1>4
<1> QED BY <1>2, <1>3, <1>5 DEF Better

(* The votes for a token are no fewer than all contexts at the lower bound.*)
LEMMA TallyAtLeast ==
  ASSUME NEW w, InBounds(w), NEW k, NEW t
  PROVE  Tally(w, k, t) \in Int /\ (Tally(w, k, t) >= 0 \/ Tally(w, k, t) >= Order * WMin)
<1> DEFINE es == Into(w, k, t)
<1>1. /\ IsFiniteSet(es) /\ Tally(w, k, t) = SumFunctionOnSet(w, es) /\ Tally(w, k, t) \in Int
      /\ es \subseteq Edges /\ \A e \in es : e.target = t /\ w[e] \in Int /\ w[e] >= WMin
  <2>1. Weighing(w)
    BY BoundsWeigh, Zenon
  <2>2. IsFiniteSet(es) /\ Tally(w, k, t) = SumFunctionOnSet(w, es) /\ Tally(w, k, t) \in Int
    BY <2>1, TallyIsTotal, Zenon DEF Tally
  <2>3. es \subseteq Edges /\ \A e \in es : e.target = t /\ w[e] \in Int /\ w[e] >= WMin
    BY Sizes DEF Into, InBounds
  <2> QED BY <2>2, <2>3
<1> HIDE DEF es
<1>2. Cardinality(es) \in Nat /\ Cardinality(es) <= Order
  BY <1>1, OneEach
<1>3. WMin \in Int /\ Order \in Nat
  BY Sizes
<1>4. CASE WMin >= 0
  <2>1. \A e \in es : w[e] \in Int /\ w[e] >= 0
    BY <1>1, <1>3, <1>4
  <2>2. SumFunctionOnSet(w, es) >= 0
    BY <1>1, <2>1, SumSigns, Zenon
  <2> QED BY <1>1, <2>2
<1>5. CASE WMin < 0
  <2>1. \A e \in es : w[e] \in Int /\ w[e] >= WMin
    BY <1>1
  <2>2. SumFunctionOnSet(w, es) >= Cardinality(es) * WMin
    BY <1>1, <1>3, <2>1, SumAtLeast, Zenon
  <2>3. -WMin \in Nat /\ Cardinality(es) * (-WMin) <= Order * (-WMin)
    BY <1>2, <1>3, <1>5, TimesOrder
  <2>4. /\ Cardinality(es) * (-WMin) = -(Cardinality(es) * WMin)
        /\ Order * (-WMin) = -(Order * WMin)
        /\ Cardinality(es) * WMin \in Int /\ Order * WMin \in Int
    BY <1>2, <1>3
  <2> QED BY <1>1, <2>2, <2>3, <2>4
<1> QED BY <1>3, <1>4, <1>5

(* More weight on one edge is as much more for its target.                 *)
LEMMA TallyGrows ==
  ASSUME NEW w, NEW v, Weighing(w), Weighing(v), DOMAIN w = DOMAIN v,
         NEW e \in DOMAIN w, NEW d \in Int, v[e] = w[e] + d,
         \A f \in DOMAIN w : f # e => v[f] = w[f], NEW k, e.source <= k
  PROVE  Tally(v, k, e.target) = Tally(w, k, e.target) + d
<1> DEFINE es == Into(w, k, e.target)
           rest == es \ {e}
<1>1. /\ IsFiniteSet(es) /\ \A f \in es : w[f] \in Int /\ v[f] \in Int
      /\ Tally(w, k, e.target) = SumFunctionOnSet(w, es)
      /\ Tally(v, k, e.target) = SumFunctionOnSet(v, es)
  <2>1. Into(v, k, e.target) = es
    BY DEF Into
  <2> QED BY <2>1, TallyIsTotal, Zenon DEF Tally
<1>2. e \in es /\ \A f \in es : f \in DOMAIN w
  BY DEF Into
<1> HIDE DEF es
<1>3. /\ SumFunctionOnSet(w, es) = w[e] + SumFunctionOnSet(w, rest)
      /\ SumFunctionOnSet(v, es) = v[e] + SumFunctionOnSet(v, rest)
  <2>1. (\A f \in es : w[f] \in Int) /\ (\A f \in es : v[f] \in Int)
    BY <1>1
  <2>2. ASSUME NEW u, \A f \in es : u[f] \in Int
        PROVE  SumFunctionOnSet(u, es) = u[e] + SumFunctionOnSet(u, rest)
    <3>1. IsFiniteSet(es)
      BY <1>1
    <3>2. \A f \in es : SumFunctionOnSet(u, es) = u[f] + SumFunctionOnSet(u, es \ {f})
      BY <2>2, <3>1, SumRemove
    <3> QED BY <1>2, <3>2, Zenon
  <2> QED BY <2>1, <2>2, Zenon
<1>4. SumFunctionOnSet(w, rest) = SumFunctionOnSet(v, rest) /\ SumFunctionOnSet(w, rest) \in Int
  <2>1. IsFiniteSet(rest)
    BY <1>1, FS_Subset
  <2>2. \A f \in rest : w[f] \in Int /\ w[f] = v[f]
    BY <1>1, <1>2
  <2>3. \A f \in rest : w[f] \in Int
    BY <2>2
  <2> HIDE DEF rest
  <2>4. SumFunctionOnSet(w, rest) = SumFunctionOnSet(v, rest)
    BY <2>1, <2>2, SumSame, Zenon
  <2>5. SumFunctionOnSet(w, rest) \in Int
    BY <2>1, <2>3, SumInt, Zenon
  <2> QED BY <2>4, <2>5
<1>5. w[e] \in Int /\ v[e] \in Int
  BY <1>1, <1>2
<1> HIDE DEF rest
<1> QED BY <1>1, <1>3, <1>4, <1>5

(* The largest delta on an edge to a token raises its score, however many  *)
(* other contexts vote against it.                                         *)
LEMMA GoldRises ==
  ASSUME Thorough, NEW w, InBounds(w), NEW v, Weighing(v), DOMAIN w = DOMAIN v,
         NEW e \in DOMAIN w, v[e] = w[e] + DeltaCap,
         \A f \in DOMAIN w : f # e => v[f] = w[f], NEW k, e.source <= k
  PROVE  Scored(w, k)[e.target] < Scored(v, k)[e.target]
<1> DEFINE g == e.target
           x == Tally(w, k, g)
           y == Tally(v, k, g)
<1>1. Weighing(w) /\ g \in Tokens
  BY BoundsWeigh, KindsOfNodes DEF InBounds
<1>2. DeltaCap \in Int /\ DeltaCap > 1 /\ Leak > 1 /\ Order * WMin + DeltaCap > 1
      /\ Order * WMin \in Int
  BY Sizes DEF Thorough
<1>3. x \in Int /\ (x >= 0 \/ x >= Order * WMin)
  BY TallyAtLeast
<1>4. y = x + DeltaCap
  BY <1>1, <1>2, TallyGrows
<1>5. ASSUME NEW u, Weighing(u)
      PROVE  Scored(u, k)[g] = LET z == Leaked(Tally(u, k, g)) IN IF z > 0 THEN z ELSE 0
  <2>1. \A t \in Tokens :
          Scored(u, k)[t] = LET z == Leaked(Tally(u, k, t)) IN IF z > 0 THEN z ELSE 0
    BY <1>5, ScoredType, Zenon
  <2> QED BY <1>1, <2>1, Zenon
<1> HIDE DEF x, y, g
<1>6. y \in Int /\ x <= y /\ y >= 2 /\ y >= x + 2
  BY <1>2, <1>3, <1>4
<1>7. Leaked(x) \in Int /\ Leaked(y) \in Int /\ Leaked(y) >= 1 /\ Leaked(y) > Leaked(x)
  BY <1>2, <1>3, <1>6, LeakedOrder
<1>8. /\ Scored(w, k)[g] = (IF Leaked(x) > 0 THEN Leaked(x) ELSE 0)
      /\ Scored(v, k)[g] = (IF Leaked(y) > 0 THEN Leaked(y) ELSE 0)
  BY <1>1, <1>5, Zenon DEF x, y
<1>9. Scored(w, k)[g] < Scored(v, k)[g]
  BY <1>7, <1>8
<1> QED BY <1>9 DEF g

(* A token that is the only one is the most likely one.                    *)
LEMMA ArgmaxOnly ==
  ASSUME PredictInv, NEW g \in Tokens, Argmax # g
  PROVE  Vocab > 1
<1> SUFFICES ASSUME ~(Vocab > 1)
             PROVE  FALSE
  OBVIOUS
<1>1. Tokens = {g}
  BY Sizes DEF Tokens
<1>2. Score(g) \in Nat
  BY ShareType DEF PredictInv, EngineInv
<1>3. \E t \in Tokens : \A u \in Tokens : /\ Score(t) >= Score(u)
                                          /\ u < t => Score(t) > Score(u)
  BY <1>1, <1>2, KindsOfNodes
<1>4. Argmax \in Tokens
  BY <1>3, Zenon DEF Argmax
<1> QED BY <1>1, <1>4

(* A round of escalation probes the gold edge upwards first, and then only *)
(* downwards.                                                              *)
LEMMA EscalatedOrder ==
  ASSUME JobInv, job.gold # 0
  PROVE  /\ EscalatedProbes # <<>>
         /\ Head(EscalatedProbes) = [edge |-> GoldEdge(job), by |-> job.delta]
         /\ Lowering(Tail(EscalatedProbes))
<1> DEFINE rival == [source |-> job.k, target |-> Argmax]
           first == [edge |-> GoldEdge(job), by |-> job.delta]
           second == [edge |-> rival, by |-> -job.delta]
           s == EscalatedProbes
<1>1. job.delta \in Nat
  <2>1. job.delta \in 0..DeltaCap
    BY DEF JobInv, Fitting, Jobs
  <2> QED BY <2>1, Sizes
<1>2. s = IF rival \in DOMAIN weight THEN Append(<<first>>, second) ELSE <<first>>
  BY Zenon DEF EscalatedProbes
<1>3. second.by <= 0
  BY <1>1
<1>4. \A x, y : /\ Append(<<x>>, y) # <<>> /\ Head(Append(<<x>>, y)) = x
                /\ Tail(Append(<<x>>, y)) = <<y>>
                /\ <<x>> # <<>> /\ Head(<<x>>) = x /\ Tail(<<x>>) = <<>>
  <2> SUFFICES ASSUME NEW x, NEW y
               PROVE  /\ Append(<<x>>, y) # <<>> /\ Head(Append(<<x>>, y)) = x
                      /\ Tail(Append(<<x>>, y)) = <<y>>
                      /\ <<x>> # <<>> /\ Head(<<x>>) = x /\ Tail(<<x>>) = <<>>
    OBVIOUS
  <2>1. <<x>> \in Seq({x, y}) /\ <<x, y>> \in Seq({x, y})
    OBVIOUS
  <2>2. Append(<<x>>, y) = <<x, y>>
    <3> DEFINE a == Append(<<x>>, y)
               c == <<x, y>>
               b == <<x>>
    <3>1. b \in Seq({x, y}) /\ Len(b) = 1 /\ b[1] = x /\ y \in {x, y}
      OBVIOUS
    <3>2. c \in Seq({x, y}) /\ Len(c) = 2 /\ c[1] = x /\ c[2] = y
      OBVIOUS
    <3> HIDE DEF b
    <3>3. a \in Seq({x, y}) /\ Len(a) = 2 /\ a[1] = x /\ a[2] = y
      BY <3>1, AppendProperties DEF b
    <3> HIDE DEF a, c
    <3>4. \A i \in 1..2 : a[i] = c[i]
      BY <3>2, <3>3
    <3>5. a = c
      BY <3>2, <3>3, <3>4, SeqEqual
    <3> QED BY <3>5 DEF a, c
  <2>3. <<x, y>> # <<>> /\ Head(<<x, y>>) = x
    BY <2>1
  <2>4. Tail(<<x, y>>) = <<y>>
    OBVIOUS
  <2>5. <<x>> # <<>> /\ Head(<<x>>) = x /\ Tail(<<x>>) = <<>>
    BY <2>1
  <2> QED BY <2>2, <2>3, <2>4, <2>5
<1>5. \A y : y.by <= 0 => Lowering(<<y>>) /\ Lowering(<<>>)
  <2> SUFFICES ASSUME NEW y, y.by <= 0
               PROVE  Lowering(<<y>>) /\ Lowering(<<>>)
    OBVIOUS
  <2>1. DOMAIN <<y>> = {1} /\ <<y>>[1] = y /\ DOMAIN <<>> = {}
    OBVIOUS
  <2>2. Lowering(<<y>>)
    BY <2>1 DEF Lowering
  <2> QED BY <2>1, <2>2 DEF Lowering
<1> HIDE DEF rival, first, second, s
<1>6. s # <<>> /\ Head(s) = first /\ (Tail(s) = <<second>> \/ Tail(s) = <<>>)
  BY <1>2, <1>4, Zenon
<1>7. Lowering(Tail(s))
  BY <1>3, <1>5, <1>6, Zenon
<1> QED BY <1>6, <1>7, Zenon DEF s, first

(* A round that begins: the gold edge is to be probed, and nothing else    *)
(* but edges to be lowered.                                                *)
Fresh(j, w) ==
  /\ j.probes # <<>> /\ Head(j.probes).edge = GoldEdge(j) /\ Head(j.probes).by = j.delta
  /\ Lowering(Tail(j.probes))
  /\ j.up.share = ShareOf(w, j.k, j.gold) /\ Vocab > 1
Going(j, w) ==
  /\ j.kind = "fixed" => j.round = 0
  /\ j.kind = "escalate" => /\ j.delta = DeltaAt(j.round)
                            /\ Fresh(j, w) \/ (Chosen(j) /\ Lowering(j.probes))

(* What the last round applies takes the gold edge to the bound.           *)
LEMMA LastStep ==
  ASSUME Roomy, Thorough, NEW j, NEW w, Fitting(j, w), InBounds(w), Helpful(j, w),
         j.kind = "escalate", j.delta = DeltaAt(j.round), Chosen(j), j.round + 1 = EscRounds
  PROVE  Stepped(j, w)[GoldEdge(j)] = WMax
<1> DEFINE e == GoldEdge(j)
           u == Apply(w, e, DeltaCap)
<1>1. j.round = EscRounds - 1 /\ j.round \in Nat
  BY Sizes DEF Fitting, Jobs
<1>2. j.delta = DeltaCap
  <2>1. Doubled[EscRounds - 1] \in Nat
    BY <1>1, DoubledType
  <2>2. DeltaCap <= Doubled[EscRounds - 1]
    BY DEF Thorough
  <2> QED BY <1>1, <2>1, <2>2, Sizes DEF DeltaAt
<1>3. j.up.edge = e /\ e \in DOMAIN w /\ e # NoEdge /\ DeltaCap \in Int
  BY <1>2, KindsOfNodes, Sizes DEF Chosen, Fitting, InBounds
<1>4. w[e] \in WMin..WMax /\ w[e] \in Int
  BY <1>3, Sizes DEF InBounds
<1>5. u[e] = WMax /\ DOMAIN u = DOMAIN w
  <2>1. u = [w EXCEPT ![e] = Clamp(w[e] + DeltaCap)]
    BY <1>3, Zenon DEF Apply
  <2>2. Clamp(w[e] + DeltaCap) = WMax
    BY <1>4, Sizes DEF Clamp, Thorough
  <2> HIDE DEF u, e
  <2> QED BY <1>3, <2>1, <2>2
<1>6. Stepped(j, w) = Apply(u, j.down.edge, -DeltaCap)
  BY <1>2, <1>3, Zenon DEF Stepped
<1>7. j.down.edge = NoEdge \/ j.down.edge # e
  BY DEF Helpful, GoldEdge
<1> HIDE DEF u, e
<1>8. Apply(u, j.down.edge, -DeltaCap)[e] = WMax
  BY <1>3, <1>5, <1>7 DEF Apply
<1> QED BY <1>6, <1>8 DEF e

(* After a measurement in a round of escalation it is chosen or probed, and*)
(* after the last one it is at the bound.                                  *)
LEMMA ProceedExhausts ==
  ASSUME PredictInv, Roomy, Thorough, run = NoRun, NEW j, NEW w, Fitting(j, w), InBounds(w),
         j.kind \in {"fixed", "escalate"}, Helpful(j, w), Proceed(j, w), Going(j, w)
  PROVE  ExhaustInv'
<1>1. j \in Jobs /\ j.round \in Nat /\ j.round <= EscRounds
  BY Sizes DEF Fitting, Jobs
<1>2. ProbesNext(j, w) \/ EndsFixed(j, w) \/ EndsRounds(j, w) \/ NextRound(j, w)
  BY <1>1, ProceedKinds
<1>3. j.kind # "fixed" => j.kind = "escalate" /\ j.round < EscRounds
  BY DEF Fitting
<1>4. CASE ProbesNext(j, w)
  <2> DEFINE p == Head(j.probes)
  <2>1. j.probes # <<>> /\ \A i \in DOMAIN j.probes : j.probes[i].edge \in DOMAIN w
    BY <1>4 DEF ProbesNext, Fitting
  <2>2. /\ job' = Probing(j, w) /\ weight' = [w EXCEPT ![p.edge] = ProbeClamp(w[p.edge] + p.by)]
    BY <1>4 DEF ProbesNext
  <2>3. /\ p.edge \in DOMAIN w /\ job'.probed = p /\ job'.save = w[p.edge]
        /\ job'.k = j.k /\ job'.gold = j.gold /\ job'.up = j.up /\ job'.down = j.down
        /\ job'.kind = j.kind /\ job'.round = j.round /\ job'.delta = j.delta
        /\ job'.probes = Tail(j.probes) /\ p \in Probes
        /\ \A i \in DOMAIN Tail(j.probes) : /\ i + 1 \in DOMAIN j.probes
                                            /\ Tail(j.probes)[i] = j.probes[i + 1]
    BY <1>1, <2>1, <2>2, ProbingKept, Zenon
  <2>4. p = j.probes[1] /\ 1 \in DOMAIN j.probes
    BY <1>1, <2>1 DEF Jobs
  <2> HIDE DEF p
  <2>5. job'.probed # NoProbe
    BY <2>3, NothingFits, Zenon
  <2>6. w = [e \in DOMAIN w |-> w[e]]
    BY DEF InBounds
  <2>7. Base' = w
    <3>1. Restored' = [weight' EXCEPT ![p.edge] = w[p.edge]]
      BY <2>3, Zenon DEF Restored
    <3>2. [weight' EXCEPT ![p.edge] = w[p.edge]] = w
      BY <2>2, <2>3, <2>6
    <3> QED BY <2>5, <3>1, <3>2, Zenon DEF Base
  <2>8. GoldEdge(job') = GoldEdge(j)
    BY <2>3, Zenon DEF GoldEdge
  <2>9. j.kind = "escalate" => /\ Lowering(job'.probes)
                               /\ ProbesGold(job', Base') \/ (Chosen(job') /\ job'.probed.by <= 0)
    <3>1. CASE Fresh(j, w)
      <4>1. ProbesGold(job', w) /\ Lowering(job'.probes)
        BY <2>3, <2>8, <3>1, Zenon DEF Fresh, ProbesGold, p
      <4> QED BY <2>7, <4>1, Zenon
    <3>2. CASE Chosen(j) /\ Lowering(j.probes)
      <4>1. Chosen(job')
        BY <2>3, <2>8, <3>2, Zenon DEF Chosen
      <4>2. Lowering(job'.probes) /\ p.by <= 0
        BY <2>3, <2>4, <3>2, Zenon DEF Lowering
      <4> QED BY <2>3, <4>1, <4>2, Zenon
    <3> QED BY <3>1, <3>2 DEF Going
  <2>10. ~Taught'
    BY <2>3 DEF Taught
  <2> QED BY <2>3, <2>9, <2>10, Zenon DEF ExhaustInv, Going
<1>5. CASE EndsFixed(j, w)
  <2>1. job' = Jobless(j) /\ j.round = 0
    BY <1>5 DEF EndsFixed, Going
  <2>2. job'.kind = "none" /\ job'.round = 0
    BY <1>1, <2>1, JobsKept, Zenon
  <2> QED BY <2>2, Sizes DEF ExhaustInv
<1>6. CASE EndsRounds(j, w)
  <2>1. /\ job' = Jobless(Again(j)) /\ weight' = Stepped(j, w) /\ j.round + 1 = EscRounds
        /\ j.kind = "escalate" /\ j.round < EscRounds /\ j.probes = <<>>
    BY <1>3, <1>6 DEF EndsRounds
  <2>2. Again(j) \in Jobs /\ Again(j).k = j.k /\ Again(j).gold = j.gold
    BY <1>1, <2>1, JobsKept, Zenon
  <2>3. job'.kind = "none" /\ job'.k = j.k /\ job'.gold = j.gold
    BY <2>1, <2>2, JobsKept, Zenon
  <2>4. GoldEdge(job') = GoldEdge(j)
    BY <2>3, Zenon DEF GoldEdge
  <2>5. Chosen(j) /\ j.delta = DeltaAt(j.round)
    BY <2>1 DEF Going, Fresh
  <2>6. weight'[GoldEdge(job')] = WMax
    BY <2>1, <2>4, <2>5, LastStep
  <2> QED BY <2>3, <2>6 DEF ExhaustInv
<1>7. CASE NextRound(j, w)
  <2>1. job' = Again(j) /\ j.kind = "escalate" /\ j.round < EscRounds
    BY <1>3, <1>7 DEF NextRound
  <2>2. /\ job'.kind = "escalate" /\ job'.round = j.round + 1 /\ job'.probed = NoProbe
        /\ job'.delta = Grown(j.delta)
    BY <1>1, <2>1, JobsKept, Zenon
  <2>3. job'.delta = DeltaAt(job'.round)
    BY <1>1, <2>1, <2>2, DeltaGrows DEF Going
  <2>4. ~Taught'
    BY <2>2 DEF Taught
  <2> QED BY <2>2, <2>3, <2>4 DEF ExhaustInv
<1> QED BY <1>2, <1>4, <1>5, <1>6, <1>7

(* A first measurement begins a round.                                     *)
LEMMA MeasuredExhausts ==
  ASSUME PredictInv, VotesInv, HelpInv, ExhaustInv, Measured
  PROVE  ExhaustInv'
<1> SUFFICES ASSUME Roomy, Thorough
             PROVE  ExhaustInv'
  BY DEF ExhaustInv
<1>1. /\ run = NoRun /\ job.gold \in Tokens /\ InBounds(weight)
      /\ \/ job.kind = "fixed" /\ Proceed(Planned(FixedProbes), weight)
         \/ /\ job.kind = "escalate" /\ Argmax # job.gold
            /\ Proceed(Planned(EscalatedProbes), weight)
         \/ job.kind = "escalate" /\ Argmax = job.gold /\ Finish(job, weight)
  BY MeasuredKinds
<1>2. job.gold # 0 /\ JobInv /\ job \in Jobs
  BY <1>1, KindsOfNodes DEF PredictInv, JobInv, Fitting
<1>3. /\ job.kind = "fixed" => job.round = 0
      /\ job.kind = "escalate" => job.delta = DeltaAt(job.round)
  BY DEF ExhaustInv
<1>4. ASSUME NEW s, s \in Seq(Probes), \A i \in DOMAIN s : s[i].edge \in DOMAIN weight,
             Proceed(Planned(s), weight), job.kind \in {"fixed", "escalate"},
             Going(Planned(s), weight)
      PROVE  ExhaustInv'
  <2>1. Helpful(Planned(s), weight)
    BY <1>4, PlannedHelps
  <2>2. Fitting(Planned(s), weight) /\ Planned(s).kind = job.kind
    BY <1>1, <1>4, PlannedFits
  <2> QED BY <1>1, <1>4, <2>1, <2>2, ProceedExhausts
<1>5. CASE job.kind = "fixed" /\ Proceed(Planned(FixedProbes), weight)
  <2>1. /\ FixedProbes \in Seq(Probes)
        /\ \A i \in DOMAIN FixedProbes : FixedProbes[i].edge \in DOMAIN weight
    BY <1>2, FixedTyped, Zenon
  <2>2. Planned(FixedProbes).kind = "fixed" /\ Planned(FixedProbes).round = 0
    BY <1>1, <1>3, <1>5, <2>1, PlannedFits
  <2>3. Going(Planned(FixedProbes), weight)
    BY <2>2 DEF Going
  <2> QED BY <1>4, <1>5, <2>1, <2>3
<1>6. CASE job.kind = "escalate" /\ Argmax # job.gold /\ Proceed(Planned(EscalatedProbes), weight)
  <2> DEFINE s == EscalatedProbes
             q == Planned(s)
  <2>1. s \in Seq(Probes) /\ \A i \in DOMAIN s : s[i].edge \in DOMAIN weight
    BY <1>2, EscalatedTyped, Zenon
  <2>2. /\ s # <<>> /\ Head(s) = [edge |-> GoldEdge(job), by |-> job.delta]
        /\ Lowering(Tail(s))
    BY <1>2, EscalatedOrder, Zenon
  <2>3. Head(s).edge = GoldEdge(job) /\ Head(s).by = job.delta
    BY <2>2
  <2> HIDE DEF s
  <2>4. /\ q.kind = "escalate" /\ q.round = job.round /\ q.delta = job.delta /\ q.probes = s
        /\ q.k = job.k /\ q.gold = job.gold
    BY <1>1, <1>6, <2>1, PlannedFits
  <2>5. Measured
    OBVIOUS
  <2>6. q.up.share = ShareOf(weight, q.k, q.gold)
    BY <2>1, <2>4, <2>5, PlannedHelps
  <2>7. Vocab > 1
    BY <1>1, <1>6, ArgmaxOnly
  <2> HIDE DEF q
  <2>8. GoldEdge(q) = GoldEdge(job)
    BY <2>4, Zenon DEF GoldEdge
  <2>9. Fresh(q, weight)
    BY <2>2, <2>3, <2>4, <2>6, <2>7, <2>8 DEF Fresh
  <2>10. Going(q, weight)
    BY <1>3, <1>6, <2>4, <2>9 DEF Going
  <2> QED BY <1>4, <1>6, <2>1, <2>10 DEF s, q
<1>7. CASE job.kind = "escalate" /\ Finish(job, weight)
  <2>1. job' = Jobless(job) /\ job.round < EscRounds
    BY <1>2, <1>7, Zenon DEF Finish, Jobless, JobInv, Fitting
  <2>2. job'.kind = "none" /\ job'.round = job.round
    BY <1>2, <2>1, JobsKept, Zenon
  <2>3. job'.round # EscRounds
    BY <1>2, <2>1, <2>2, Sizes DEF Jobs
  <2> QED BY <2>2, <2>3 DEF ExhaustInv
<1> QED BY <1>1, <1>5, <1>6, <1>7

(* A probe of the gold edge by the largest delta is chosen, and no later   *)
(* probe takes its place.                                                  *)
LEMMA ReportedGoes ==
  ASSUME PredictInv, VotesInv, HelpInv, ExhaustInv, Roomy, Thorough, Probed
  PROVE  Going(Reported, Restored)
<1>1. /\ Reported.kind = job.kind
      /\ Reported.k = job.k /\ Reported.gold = job.gold /\ Reported.probes = job.probes
      /\ Reported.delta = job.delta /\ Reported.round = job.round
      /\ Reported.up = (IF job.probed.by > 0 THEN BetterThan(job.up) ELSE job.up)
  BY ReportedFits, Zenon
<1>2. /\ job.gold \in Tokens /\ job.probed # NoProbe /\ job.probed.edge \in DOMAIN weight
      /\ job \in Jobs
  BY ProbedKinds DEF PredictInv, JobInv, Fitting
<1>3. /\ job.kind = "fixed" => job.round = 0
      /\ job.kind = "escalate" =>
           /\ job.delta = DeltaAt(job.round) /\ Lowering(job.probes)
           /\ ProbesGold(job, Base) \/ (Chosen(job) /\ job.probed.by <= 0)
  BY <1>2 DEF ExhaustInv
<1>4. GoldEdge(Reported) = GoldEdge(job)
  BY <1>1, Zenon DEF GoldEdge
<1>5. ASSUME job.kind = "escalate"
      PROVE  Chosen(Reported)
  <2>1. CASE ProbesGold(job, Base)
    <3> SUFFICES ASSUME job.delta = DeltaCap
                 PROVE  Reported.up.edge = GoldEdge(job)
      BY <1>1, <1>4 DEF Chosen
    <3> DEFINE e == job.probed.edge
               q == ShareOf(Base, job.k, job.gold)
               s == Share(job.gold)
    <3>1. /\ e = GoldEdge(job) /\ job.probed.by = DeltaCap /\ job.up.share = q /\ Vocab > 1
      BY <2>1 DEF ProbesGold
    <3>2. /\ InBounds(Base) /\ NearBounds(weight) /\ DOMAIN Base = DOMAIN weight
          /\ weight[e] = Base[e] + DeltaCap
          /\ \A f \in DOMAIN weight : f # e => weight[f] = Base[f]
          /\ s = ShareOf(weight, job.k, job.gold)
      BY <3>1, UnderProbe, Zenon
    <3>3. Weighing(Base) /\ Weighing(weight)
      BY <3>2, BoundsWeigh, Zenon DEF NearBounds
    <3>4. e \in DOMAIN Base /\ e.target = job.gold /\ e.source = job.k /\ job.k \in Nat
      BY <1>2, <3>1, <3>2, Sizes DEF GoldEdge, Jobs
    <3> HIDE DEF e, q, s
    <3>5. Scored(Base, job.k)[job.gold] < Scored(weight, job.k)[job.gold]
      <4>1. e.source <= job.k
        BY <3>4
      <4>2. Scored(Base, job.k)[e.target] < Scored(weight, job.k)[e.target]
        BY <3>2, <3>3, <3>4, <4>1, GoldRises
      <4> QED BY <3>4, <4>2
    <3>6. Favours(Base, weight, job.gold)
      <4>1. \A f \in DOMAIN Base : weight[f] \in Int /\ Base[f] \in Int
        BY <3>2, <3>3 DEF Weighing
      <4>2. \A f \in DOMAIN Base : f # e => weight[f] = Base[f]
        BY <3>2
      <4>3. Base[e] <= weight[e]
        BY <3>2, <3>4, <4>1, Sizes
      <4> QED BY <3>2, <3>4, <4>1, <4>2, <4>3 DEF Favours
    <3>7. Better(s, q)
      <4>1. Better(ShareOf(weight, job.k, job.gold), ShareOf(Base, job.k, job.gold))
        BY <1>2, <3>1, <3>3, <3>5, <3>6, StrictBetter
      <4> QED BY <3>2, <4>1, Zenon DEF q
    <3>8. BetterThan(job.up) = [edge |-> e, share |-> s]
      BY <3>1, <3>7, Zenon DEF BetterThan, e, s
    <3>9. job.probed.by > 0
      BY <3>1, Sizes DEF Thorough
    <3> QED BY <1>1, <3>1, <3>8, <3>9
  <2>2. CASE Chosen(job) /\ job.probed.by <= 0
    <3>1. ~(job.probed.by > 0)
      <4>1. job.probed.by \in Int
        BY <1>2, ProbedKinds, Sizes DEF Probes
      <4> QED BY <2>2, <4>1
    <3>2. Reported.up = job.up
      BY <1>1, <3>1
    <3> QED BY <1>1, <1>4, <2>2, <3>2 DEF Chosen
  <2> QED BY <1>3, <1>5, <2>1, <2>2
<1> QED BY <1>1, <1>3, <1>5 DEF Going

(* What follows a probe.                                                   *)
LEMMA ProbedExhausts ==
  ASSUME PredictInv, VotesInv, HelpInv, ExhaustInv, Probed
  PROVE  ExhaustInv'
<1> SUFFICES ASSUME Roomy, Thorough
             PROVE  ExhaustInv'
  BY DEF ExhaustInv
<1>1. run = NoRun /\ job.kind \in {"fixed", "escalate"} /\ Proceed(Reported, Restored)
  BY ProbedKinds
<1>2. Base = Restored /\ InBounds(Restored) /\ Helpful(Reported, Restored)
  BY UnderProbe, ReportedHelps
<1>3. Fitting(Reported, Restored) /\ Reported.kind = job.kind
  BY ReportedFits, Zenon
<1>4. Going(Reported, Restored)
  BY ReportedGoes
<1> QED BY <1>1, <1>2, <1>3, <1>4, ProceedExhausts

(* A call that begins is in its first round.                               *)
LEMMA BeginsRounds ==
  /\ \A k \in 1..Order : Forecast(k) => ExhaustInv'
  /\ \A kind \in {"fixed", "escalate"}, k \in 1..Order, gold \in Tokens :
       Teach(kind, k, gold) => ExhaustInv'
  /\ Read => ExhaustInv'
<1>1. ASSUME NEW k \in 1..Order, Forecast(k)
      PROVE  ExhaustInv'
  <2>1. job' = [NoJob EXCEPT !.kind = "plain", !.k = k]
    BY <1>1 DEF Forecast
  <2>2. job'.kind = "plain"
    BY <2>1 DEF NoJob
  <2> QED BY <2>2 DEF ExhaustInv, Taught
<1>2. ASSUME Read
      PROVE  ExhaustInv'
  <2>1. job'.kind = "none" /\ job'.gold = 0
    BY <1>2 DEF Read, NoJob
  <2> QED BY <2>1 DEF ExhaustInv, Taught
<1>3. ASSUME NEW kind \in {"fixed", "escalate"}, NEW k \in 1..Order, NEW gold \in Tokens,
             Teach(kind, k, gold)
      PROVE  ExhaustInv'
  <2>1. job' = Teaching(kind, k, gold)
    BY <1>3 DEF Teach, Teaching
  <2>2. /\ job'.kind = kind /\ job'.round = 0 /\ job'.delta = Delta /\ job'.probed = NoProbe
    BY <2>1, TaughtJob
  <2>3. job'.delta = DeltaAt(job'.round)
    BY <2>2, DeltaGrows
  <2>4. job'.kind # "none"
    BY <2>2
  <2> QED BY <2>2, <2>3, <2>4 DEF ExhaustInv, Taught
<1> QED BY <1>1, <1>2, <1>3

(* Every step keeps the rounds of escalation.                              *)
LEMMA ExhaustStep ==
  PredictInv /\ VotesInv /\ HelpInv /\ ExhaustInv /\ [Next]_vars => ExhaustInv'
<1> SUFFICES ASSUME PredictInv, VotesInv, HelpInv, ExhaustInv, [Next]_vars
             PROVE  ExhaustInv'
  OBVIOUS
<1>1. CASE EngineStep
  <2>1. weight' = weight /\ job' = job
    BY <1>1 DEF EngineStep
  <2>2. Base' = Base
    BY <2>1, Zenon DEF Base, Restored
  <2>3. Taught' = Taught
    BY <2>1, Zenon DEF Taught
  <2> QED BY <2>1, <2>2, <2>3, Zenon DEF ExhaustInv
<1>2. CASE CallStep
  BY <1>2, BeginsRounds, MeasuredExhausts, ProbedExhausts, Zenon DEF CallStep
<1> QED BY <1>1, <1>2, StepKinds

(* So it always holds.                                                     *)
LEMMA ExhaustInvariant == Spec => []ExhaustInv
<1>1. Init => ExhaustInv
  BY DEF Init, ExhaustInv, NoJob, Taught
<1>2. PredictInv /\ VotesInv /\ HelpInv /\ ExhaustInv /\ [Next]_vars => ExhaustInv'
  BY ExhaustStep
<1> QED BY <1>1, <1>2, PredictInvariant, VotesInvariant, HelpInvariant, PTL DEF Spec

(* Escalation gives up only at the bound on weights: the delta doubles up  *)
(* to its cap, which in the last round outvotes every other context, so    *)
(* the gold edge is raised by it, past whatever the other probes find.     *)
THEOREM EscalationReachesBound == Spec => []EscalationExhausts
<1>1. ExhaustInv => EscalationExhausts
  BY DEF ExhaustInv, EscalationExhausts
<1> QED BY <1>1, ExhaustInvariant, PTL
=============================================================================
