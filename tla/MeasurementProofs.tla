------------------------- MODULE MeasurementProofs -------------------------
(***************************************************************************)
(* Proofs about Measurement, for any number of nodes, volumes and tiers.   *)
(*                                                                         *)
(* The payload is made of sums over finite sets, so the first part proves  *)
(* the facts about SumFunctionOnSet that the rest needs.  The second part  *)
(* shows what the conversion of each scan says of the listed resources,    *)
(* the third that lists are of states of the run (IInv), and the last one  *)
(* puts these together for the payload.                                    *)
(***************************************************************************)
EXTENDS Measurement, FiniteSetTheorems, TLAPS
-----------------------------------------------------------------------------
(* Sums over finite sets.                                                  *)

(* Induction over the subsets of a finite set, by a smallest one that is   *)
(* not in G: a set G of good sets takes the place of a predicate.          *)
LEMMA SubsetInduction ==
    ASSUME NEW S, IsFiniteSet(S), NEW G,
           \A T \in SUBSET S : (\A U \in SUBSET T : U # T => U \in G) => T \in G
    PROVE  S \in G
<1> SUFFICES ASSUME S \notin G PROVE FALSE
  OBVIOUS
<1> DEFINE R == StrictSubsetOrdering(S)
           Bad == (SUBSET S) \ G
<1>1. IsWellFoundedOn(R, SUBSET S)
  <2>1. FiniteSubsetsOf(S) = SUBSET S
    BY FS_FiniteSubsetsOfFinite
  <2>2. IsWellFoundedOn(StrictSubsetOrdering(S), FiniteSubsetsOf(S))
    BY FS_StrictSubsetOrderingWellFounded
  <2> QED
    BY <2>1, <2>2
<1>2. PICK T \in Bad : \A U \in Bad : <<U, T>> \notin R
  <2>1. Bad \subseteq SUBSET S /\ Bad # {}
    OBVIOUS
  <2> HIDE DEF Bad, R
  <2> QED
    BY <1>1, <2>1, WFMin
<1>3. \A U \in SUBSET T : U # T => <<U, T>> \in R
  BY DEF StrictSubsetOrdering
<1>4. \A U \in SUBSET T : U # T => U \in G
  <2> HIDE DEF R
  <2> SUFFICES ASSUME NEW U \in SUBSET T, U # T PROVE U \in G
    OBVIOUS
  <2>1. U \in SUBSET S /\ <<U, T>> \in R
    BY <1>3
  <2> QED
    BY <1>2, <2>1
<1> QED
  BY <1>2, <1>4

(* The same, one element at a time.                                        *)
LEMMA SetInduction ==
    ASSUME NEW S, IsFiniteSet(S), NEW G, {} \in G,
           \A T \in SUBSET S : T \in G => \A x \in S \ T : T \cup {x} \in G
    PROVE  S \in G
<1>1. ASSUME NEW T \in SUBSET S, \A U \in SUBSET T : U # T => U \in G
      PROVE  T \in G
  <2>1. CASE T # {}
    <3>1. PICK x \in T : TRUE
      BY <2>1
    <3>2. T \ {x} \in G
      BY <1>1
    <3>3. T = (T \ {x}) \cup {x} /\ x \in S \ (T \ {x}) /\ T \ {x} \in SUBSET S
      OBVIOUS
    <3> QED
      BY <3>2, <3>3
  <2> QED
    BY Zenon, <2>1
<1> QED
  BY <1>1, SubsetInduction

(* Induction over the natural numbers, for a set of good numbers.          *)
LEMMA NatSetInduction ==
    ASSUME NEW G, 0 \in G, \A n \in Nat : n \in G => n + 1 \in G
    PROVE  \A n \in Nat : n \in G
<1> SUFFICES ASSUME NEW k \in Nat, k \notin G PROVE FALSE
  OBVIOUS
<1> DEFINE Bad == Nat \ G
           R == OpToRel(<, Nat)
<1>1. PICK n \in Bad : \A m \in Bad : <<m, n>> \notin R
  <2>1. Bad \subseteq Nat /\ Bad # {}
    OBVIOUS
  <2>2. IsWellFoundedOn(R, Nat)
    BY Zenon, NatLessThanWellFounded
  <2> HIDE DEF Bad, R
  <2> QED
    BY Zenon, <2>1, <2>2, WFMin
<1>2. n - 1 \in Nat /\ n = (n - 1) + 1
  <2>1. n \in Nat /\ n # 0
    OBVIOUS
  <2> HIDE DEF Bad, R
  <2> QED
    BY <2>1
<1>3. <<n - 1, n>> \in R
  BY <1>2 DEF OpToRel
<1> QED
  BY Zenon, <1>1, <1>2, <1>3

(* The element a fold takes out of a set, and one step of the recursion.   *)
Pick(s) == CHOOSE x \in s : TRUE

SumBody(f, g, s) == IF s = {} THEN 0 ELSE f[Pick(s)] + g[s \ {Pick(s)}]

(* SumFunctionOnSet is a function defined by recursion over the subsets.   *)
LEMMA FoldUnfold ==
    ASSUME NEW f, NEW S
    PROVE  SumFunctionOnSet(f, S) =
             (CHOOSE g : g = [s \in SUBSET S |-> SumBody(f, g, s)])[S]
  BY DEF SumFunctionOnSet, FoldFunctionOnSet, MapThenFoldSet, SumBody, Pick

(* A fold takes out an element of the set.                                 *)
LEMMA PickIn ==
    ASSUME NEW s, s # {}
    PROVE  Pick(s) \in s
  BY DEF Pick

(* There is such a function, which is shown by the size of the subsets.    *)
LEMMA SumExists ==
    ASSUME NEW S, IsFiniteSet(S), NEW f, \A x \in S : f[x] \in Nat
    PROVE  \E g : g = [s \in SUBSET S |-> SumBody(f, g, s)] /\ g \in [SUBSET S -> Nat]
<1> DEFINE D(n) == {s \in SUBSET S : Cardinality(s) <= n}
           G == {n \in Nat : \E g \in [D(n) -> Nat] :
                                \A s \in D(n) : g[s] = SumBody(f, g, s)}
<1>1. \A s \in SUBSET S : IsFiniteSet(s) /\ Cardinality(s) \in Nat
  BY FS_Subset, FS_CardinalityType
<1>2. \A s \in SUBSET S : s # {} => /\ Pick(s) \in S
                                    /\ s \ {Pick(s)} \in SUBSET S
                                    /\ Cardinality(s \ {Pick(s)}) = Cardinality(s) - 1
                                    /\ Cardinality(s) # 0
  BY <1>1, PickIn, FS_RemoveElement, FS_EmptySet
<1>3. 0 \in G
  <2>1. D(0) = {{}}
    BY <1>1, FS_EmptySet
  <2> DEFINE g == [s \in D(0) |-> 0]
  <2>2. g \in [D(0) -> Nat] /\ \A s \in D(0) : g[s] = SumBody(f, g, s)
    BY <2>1 DEF SumBody
  <2> HIDE DEF D
  <2> QED
    BY <2>2
<1>4. ASSUME NEW n \in Nat, n \in G PROVE n + 1 \in G
  <2>1. PICK g \in [D(n) -> Nat] : \A s \in D(n) : g[s] = SumBody(f, g, s)
    BY Zenon, <1>4
  <2> DEFINE h == [s \in D(n + 1) |-> SumBody(f, g, s)]
  <2>2. \A s \in D(n + 1) : s # {} => s \ {Pick(s)} \in D(n)
    BY <1>1, <1>2
  <2>3. \A s \in D(n) : s \in D(n + 1) /\ h[s] = g[s]
    BY <1>1, <2>1
  <2>4. \A s \in D(n + 1) : h[s] = SumBody(f, h, s)
    BY Zenon, <2>2, <2>3 DEF SumBody
  <2>5. \A s \in D(n + 1) : SumBody(f, g, s) \in Nat
    <3> SUFFICES ASSUME NEW s \in D(n + 1), s # {} PROVE SumBody(f, g, s) \in Nat
      BY DEF SumBody
    <3>1. f[Pick(s)] \in Nat /\ g[s \ {Pick(s)}] \in Nat
      BY <1>2, <2>2
    <3> QED
      BY <3>1 DEF SumBody
  <2>6. h \in [D(n + 1) -> Nat]
    BY <2>5
  <2> HIDE DEF D, h
  <2> QED
    BY <2>4, <2>6
<1>5. Cardinality(S) \in G
  <2> HIDE DEF G
  <2> QED
    BY <1>1, <1>3, <1>4, NatSetInduction
<1>6. D(Cardinality(S)) = SUBSET S
  BY FS_Subset, FS_CardinalityType
<1> HIDE DEF D
<1>7. PICK g \in [SUBSET S -> Nat] : \A s \in SUBSET S : g[s] = SumBody(f, g, s)
  BY <1>5, <1>6
<1> QED
  BY <1>7

(* Two such functions agree on every set that both are defined on.         *)
LEMMA SumAgrees ==
    ASSUME NEW S, IsFiniteSet(S), NEW f, NEW g, NEW h,
           \A s \in SUBSET S : g[s] = SumBody(f, g, s) /\ h[s] = SumBody(f, h, s)
    PROVE  g[S] = h[S]
<1> DEFINE G == {s \in SUBSET S : g[s] = h[s]}
<1>1. ASSUME NEW T \in SUBSET S, \A U \in SUBSET T : U # T => U \in G
      PROVE  T \in G
  <2>1. T # {} => T \ {Pick(T)} \in G
    BY <1>1, PickIn
  <2> QED
    BY Zenon, <2>1 DEF SumBody
<1>2. S \in G
  <2> HIDE DEF G
  <2> QED
    BY <1>1, SubsetInduction
<1> QED
  BY <1>2

(* So the recursive definition of the sum holds of it.                     *)
LEMMA SumUnfold ==
    ASSUME NEW S, IsFiniteSet(S), NEW f, \A x \in S : f[x] \in Nat
    PROVE  /\ SumFunctionOnSet(f, S) \in Nat
           /\ S = {} => SumFunctionOnSet(f, S) = 0
           /\ S # {} => SumFunctionOnSet(f, S) =
                           f[Pick(S)] + SumFunctionOnSet(f, S \ {Pick(S)})
<1> DEFINE iter(T) == CHOOSE g : g = [s \in SUBSET T |-> SumBody(f, g, s)]
<1>1. ASSUME NEW T \in SUBSET S
      PROVE  /\ iter(T) = [s \in SUBSET T |-> SumBody(f, iter(T), s)]
             /\ SumFunctionOnSet(f, T) = iter(T)[T]
  <2>1. IsFiniteSet(T) /\ \A x \in T : f[x] \in Nat
    BY FS_Subset
  <2>2. \E g : g = [s \in SUBSET T |-> SumBody(f, g, s)] /\ g \in [SUBSET T -> Nat]
    BY Zenon, <2>1, SumExists
  <2> QED
    BY Zenon, <2>2, FoldUnfold
<1>2. PICK g : g = [s \in SUBSET S |-> SumBody(f, g, s)] /\ g \in [SUBSET S -> Nat]
  BY Zenon, SumExists
<1>3. ASSUME NEW T \in SUBSET S
      PROVE  SumFunctionOnSet(f, T) = g[T]
  <2>1. IsFiniteSet(T)
    BY FS_Subset
  <2> DEFINE k == iter(T)
  <2>2. k = [s \in SUBSET T |-> SumBody(f, k, s)] /\ SumFunctionOnSet(f, T) = k[T]
    BY Zenon, <1>1
  <2>3. \A s \in SUBSET T : k[s] = SumBody(f, k, s) /\ g[s] = SumBody(f, g, s)
    <3> HIDE DEF k
    <3> QED
      BY <1>2, <2>2
  <2> HIDE DEF k
  <2>4. k[T] = g[T]
    BY <2>1, <2>3, SumAgrees
  <2> QED
    BY <2>2, <2>4
<1>4. g[S] = SumBody(f, g, S)
  BY <1>2
<1>5. S # {} => S \ {Pick(S)} \in SUBSET S
  OBVIOUS
<1>6. /\ SumFunctionOnSet(f, S) = g[S] /\ g[S] \in Nat
      /\ S # {} => SumFunctionOnSet(f, S \ {Pick(S)}) = g[S \ {Pick(S)}]
  BY Zenon, <1>2, <1>3, <1>5
<1> HIDE DEF iter
<1> QED
  BY <1>4, <1>6 DEF SumBody
(* A sum does not depend on the order in which the fold takes elements out *)
(* (in the code, the order of the list or of the map that is summed up).   *)
LEMMA SumRemove ==
    ASSUME NEW S, IsFiniteSet(S), NEW f, \A y \in S : f[y] \in Nat, NEW x \in S
    PROVE  SumFunctionOnSet(f, S) = f[x] + SumFunctionOnSet(f, S \ {x})
<1> DEFINE Sum(T) == SumFunctionOnSet(f, T)
           G == {T \in SUBSET S : \A y \in T : Sum(T) = f[y] + Sum(T \ {y})}
<1>1. \A T \in SUBSET S : /\ IsFiniteSet(T) /\ Sum(T) \in Nat
                          /\ T # {} => Sum(T) = f[Pick(T)] + Sum(T \ {Pick(T)})
  BY Zenon, FS_Subset, SumUnfold
<1>2. ASSUME NEW T \in SUBSET S, \A U \in SUBSET T : U # T => U \in G
      PROVE  T \in G
  <2> SUFFICES ASSUME NEW y \in T, y # Pick(T) PROVE Sum(T) = f[y] + Sum(T \ {y})
    BY <1>1
  <2> DEFINE c == Pick(T)
  <2>1. c \in T
    BY PickIn
  <2> HIDE DEF c
  <2>2. T \ {c} \in G /\ T \ {y} \in G
    BY <1>2, <2>1
  <2>3. Sum(T \ {c}) = f[y] + Sum((T \ {c}) \ {y})
    BY <2>2 DEF c
  <2>4. Sum(T \ {y}) = f[c] + Sum((T \ {y}) \ {c})
    BY <2>1, <2>2 DEF c
  <2>5. (T \ {c}) \ {y} = (T \ {y}) \ {c}
    OBVIOUS
  <2>6. Sum(T) = f[c] + Sum(T \ {c})
    BY <1>1 DEF c
  <2>7. f[c] \in Nat /\ f[y] \in Nat /\ Sum((T \ {y}) \ {c}) \in Nat
    BY Zenon, <1>1, <2>1
  <2> HIDE DEF Sum, G
  <2> QED
    BY <2>3, <2>4, <2>5, <2>6, <2>7
<1>3. S \in G
  <2> HIDE DEF G
  <2> QED
    BY <1>2, SubsetInduction
<1> QED
  BY <1>3

(* A sum with one more element.                                            *)
LEMMA SumAdd ==
    ASSUME NEW S, IsFiniteSet(S), NEW x, x \notin S, NEW f, \A y \in S \cup {x} : f[y] \in Nat
    PROVE  SumFunctionOnSet(f, S \cup {x}) = f[x] + SumFunctionOnSet(f, S)
<1> DEFINE T == S \cup {x}
<1>1. T \ {x} = S /\ x \in T
  OBVIOUS
<1>2. IsFiniteSet(T)
  BY FS_AddElement
<1> HIDE DEF T
<1>3. SumFunctionOnSet(f, T) = f[x] + SumFunctionOnSet(f, T \ {x})
  <2>1. \A y \in T : f[y] \in Nat
    BY DEF T
  <2> QED
    BY <1>1, <1>2, <2>1, SumRemove
<1> QED
  BY <1>1, <1>3 DEF T

(* A sum of natural numbers is one.                                        *)
LEMMA SumType ==
    ASSUME NEW S, IsFiniteSet(S), NEW f, \A x \in S : f[x] \in Nat
    PROVE  SumFunctionOnSet(f, S) \in Nat
  BY Zenon, SumUnfold

(* The empty sum.                                                          *)
LEMMA SumEmpty ==
    ASSUME NEW f
    PROVE  SumFunctionOnSet(f, {}) = 0
  BY SumUnfold, FS_EmptySet

(* Greater summands have a greater sum.                                    *)
LEMMA SumMonotone ==
    ASSUME NEW S, IsFiniteSet(S), NEW f, NEW g,
           \A x \in S : f[x] \in Nat /\ g[x] \in Nat /\ f[x] <= g[x]
    PROVE  SumFunctionOnSet(f, S) <= SumFunctionOnSet(g, S)
<1> DEFINE F(T) == SumFunctionOnSet(f, T)
           H(T) == SumFunctionOnSet(g, T)
           G == {T \in SUBSET S : F(T) <= H(T)}
<1>1. {} \in G
  BY SumEmpty
<1>2. ASSUME NEW T \in SUBSET S, T \in G, NEW x \in S \ T
      PROVE  T \cup {x} \in G
  <2>1. IsFiniteSet(T)
    BY FS_Subset
  <2>2. F(T) \in Nat /\ H(T) \in Nat
    BY <2>1, SumType
  <2>3. F(T \cup {x}) = f[x] + F(T) /\ H(T \cup {x}) = g[x] + H(T)
    BY Zenon, <2>1, SumAdd
  <2>4. F(T) <= H(T)
    BY <1>2
  <2> HIDE DEF F, H
  <2> QED
    BY <2>2, <2>3, <2>4
<1>3. S \in G
  <2> HIDE DEF G
  <2> QED
    BY Zenon, <1>1, <1>2, SetInduction
<1> QED
  BY <1>3

(* Equal summands have the same sum.                                       *)
LEMMA SumEqual ==
    ASSUME NEW S, IsFiniteSet(S), NEW f, NEW g,
           \A x \in S : f[x] \in Nat /\ f[x] = g[x]
    PROVE  SumFunctionOnSet(f, S) = SumFunctionOnSet(g, S)
<1>1. SumFunctionOnSet(f, S) \in Nat /\ SumFunctionOnSet(g, S) \in Nat
  BY SumType
<1>2. SumFunctionOnSet(f, S) <= SumFunctionOnSet(g, S)
  BY SumMonotone
<1>3. SumFunctionOnSet(g, S) <= SumFunctionOnSet(f, S)
  BY SumMonotone
<1> QED
  BY <1>1, <1>2, <1>3

(* If each summand grows by at most 31 per item, so does the sum.          *)
LEMMA SumWithin ==
    ASSUME NEW S, IsFiniteSet(S), NEW f, NEW g, NEW h,
           \A x \in S : /\ f[x] \in Nat /\ g[x] \in Nat /\ h[x] \in Nat
                        /\ g[x] <= f[x] + 31 * h[x]
    PROVE  SumFunctionOnSet(g, S) <= SumFunctionOnSet(f, S) + 31 * SumFunctionOnSet(h, S)
<1> DEFINE A(T) == SumFunctionOnSet(f, T)
           B(T) == SumFunctionOnSet(g, T)
           C(T) == SumFunctionOnSet(h, T)
           G == {T \in SUBSET S : B(T) <= A(T) + 31 * C(T)}
<1>1. {} \in G
  BY SumEmpty
<1>2. ASSUME NEW T \in SUBSET S, T \in G, NEW x \in S \ T
      PROVE  T \cup {x} \in G
  <2>1. IsFiniteSet(T)
    BY FS_Subset
  <2>2. A(T) \in Nat /\ B(T) \in Nat /\ C(T) \in Nat
    BY <2>1, SumType
  <2>3. /\ A(T \cup {x}) = f[x] + A(T)
        /\ B(T \cup {x}) = g[x] + B(T)
        /\ C(T \cup {x}) = h[x] + C(T)
    BY Zenon, <2>1, SumAdd
  <2>4. B(T) <= A(T) + 31 * C(T)
    BY <1>2
  <2> HIDE DEF A, B, C
  <2> QED
    BY <2>2, <2>3, <2>4
<1>3. S \in G
  <2> HIDE DEF G
  <2> QED
    BY Zenon, <1>1, <1>2, SetInduction
<1> QED
  BY <1>3

(* The sum over a disjoint union.                                          *)
LEMMA SumUnion ==
    ASSUME NEW S, IsFiniteSet(S), NEW T, IsFiniteSet(T), S \cap T = {},
           NEW f, \A x \in S \cup T : f[x] \in Nat
    PROVE  SumFunctionOnSet(f, S \cup T) = SumFunctionOnSet(f, S) + SumFunctionOnSet(f, T)
<1> DEFINE Sum(U) == SumFunctionOnSet(f, U)
           G == {U \in SUBSET T : Sum(S \cup U) = Sum(S) + Sum(U)}
<1>0. Sum(S) \in Nat
  BY SumType
<1>1. {} \in G
  <2>1. S \cup {} = S /\ Sum({}) = 0
    BY SumEmpty
  <2> HIDE DEF Sum
  <2> QED
    BY <1>0, <2>1
<1>2. ASSUME NEW U \in SUBSET T, U \in G, NEW x \in T \ U
      PROVE  U \cup {x} \in G
  <2>1. IsFiniteSet(U) /\ IsFiniteSet(S \cup U)
    BY Zenon, FS_Subset, FS_Union
  <2>2. Sum(U) \in Nat /\ f[x] \in Nat
    BY <2>1, SumType
  <2>3. Sum(U \cup {x}) = f[x] + Sum(U)
    BY <2>1, SumAdd
  <2>4. Sum((S \cup U) \cup {x}) = f[x] + Sum(S \cup U)
    BY Zenon, <2>1, SumAdd
  <2>5. (S \cup U) \cup {x} = S \cup (U \cup {x})
    OBVIOUS
  <2>6. Sum(S \cup U) = Sum(S) + Sum(U)
    BY <1>2
  <2>7. Sum(S \cup (U \cup {x})) = Sum(S) + Sum(U \cup {x})
    <3> HIDE DEF Sum
    <3>1. Sum(S \cup (U \cup {x})) = f[x] + (Sum(S) + Sum(U))
      BY Zenon, <2>4, <2>5, <2>6
    <3>2. f[x] + (Sum(S) + Sum(U)) = Sum(S) + (f[x] + Sum(U))
      BY <1>0, <2>2
    <3> QED
      BY <2>3, <3>1, <3>2
  <2>8. U \cup {x} \in SUBSET T
    OBVIOUS
  <2> HIDE DEF Sum
  <2> QED
    BY <2>7, <2>8
<1>3. T \in G
  <2> HIDE DEF G
  <2> QED
    BY Zenon, <1>1, <1>2, SetInduction
<1> QED
  BY <1>3

(* The sum of equal summands.                                              *)
LEMMA SumConstant ==
    ASSUME NEW S, IsFiniteSet(S), NEW c \in Nat, NEW f, \A x \in S : f[x] = c
    PROVE  SumFunctionOnSet(f, S) = Cardinality(S) * c
<1> DEFINE Sum(U) == SumFunctionOnSet(f, U)
           G == {T \in SUBSET S : Sum(T) = Cardinality(T) * c}
<1>1. {} \in G
  BY SumEmpty, FS_EmptySet
<1>2. ASSUME NEW T \in SUBSET S, T \in G, NEW x \in S \ T
      PROVE  T \cup {x} \in G
  <2>1. IsFiniteSet(T)
    BY FS_Subset
  <2>2. Cardinality(T) \in Nat /\ Cardinality(T \cup {x}) = Cardinality(T) + 1
    BY <2>1, FS_CardinalityType, FS_AddElement
  <2>3. Sum(T \cup {x}) = c + Sum(T)
    BY <2>1, SumAdd
  <2>4. Sum(T) = Cardinality(T) * c
    BY <1>2
  <2>5. \A n \in Nat : (n + 1) * c = c + n * c
    OBVIOUS
  <2> HIDE DEF Sum
  <2> QED
    BY <2>2, <2>3, <2>4, <2>5
<1>3. S \in G
  <2> HIDE DEF G
  <2> QED
    BY Zenon, <1>1, <1>2, SetInduction
<1> QED
  BY <1>3

(* What is 0 can be left out.                                              *)
LEMMA SumSupport ==
    ASSUME NEW S, IsFiniteSet(S), NEW T \in SUBSET S, NEW f,
           \A x \in S : f[x] \in Nat, \A x \in S \ T : f[x] = 0
    PROVE  SumFunctionOnSet(f, S) = SumFunctionOnSet(f, T)
<1>1. IsFiniteSet(T) /\ IsFiniteSet(S \ T) /\ T \cup (S \ T) = S
  BY FS_Subset, FS_Difference
<1>2. SumFunctionOnSet(f, S \ T) = Cardinality(S \ T) * 0
  BY <1>1, SumConstant
<1>3. Cardinality(S \ T) * 0 = 0
  BY <1>1, FS_CardinalityType
<1>4. SumFunctionOnSet(f, T \cup (S \ T)) = SumFunctionOnSet(f, T) + SumFunctionOnSet(f, S \ T)
  BY <1>1, SumUnion
<1>5. SumFunctionOnSet(f, T) \in Nat
  BY <1>1, SumType
<1> QED
  BY <1>1, <1>2, <1>3, <1>4, <1>5

(* The sum over a partition, part by part.                                 *)
LEMMA SumPartition ==
    ASSUME NEW C, IsFiniteSet(C), NEW part,
           \A id \in C : IsFiniteSet(part[id]),
           \A id1, id2 \in C : id1 # id2 => part[id1] \cap part[id2] = {},
           NEW f, \A id \in C : \A x \in part[id] : f[x] \in Nat
    PROVE  SumFunctionOnSet(f, UNION {part[id] : id \in C}) =
             SumFunctionOnSet([id \in C |-> SumFunctionOnSet(f, part[id])], C)
<1> DEFINE Sum(U) == SumFunctionOnSet(f, U)
           All(D) == UNION {part[id] : id \in D}
           k == [id \in C |-> Sum(part[id])]
           G == {D \in SUBSET C : IsFiniteSet(All(D)) /\ Sum(All(D)) = SumFunctionOnSet(k, D)}
<1>0. \A id \in C : k[id] \in Nat
  BY SumType
<1>1. {} \in G
  <2>1. All({}) = {}
    OBVIOUS
  <2>2. Sum({}) = 0 /\ SumFunctionOnSet(k, {}) = 0 /\ IsFiniteSet({})
    BY SumEmpty, FS_EmptySet
  <2> HIDE DEF All, Sum, k
  <2> QED
    BY <2>1, <2>2
<1>2. ASSUME NEW D \in SUBSET C, D \in G, NEW id \in C \ D
      PROVE  D \cup {id} \in G
  <2>1. /\ IsFiniteSet(D) /\ IsFiniteSet(All(D)) /\ IsFiniteSet(part[id])
        /\ Sum(All(D)) = SumFunctionOnSet(k, D)
    BY <1>2, FS_Subset
  <2>2. All(D \cup {id}) = All(D) \cup part[id] /\ All(D) \cap part[id] = {}
    OBVIOUS
  <2>3. IsFiniteSet(All(D) \cup part[id])
    BY Zenon, <2>1, FS_Union
  <2>4. Sum(All(D) \cup part[id]) = Sum(All(D)) + Sum(part[id])
    <3>1. \A x \in All(D) \cup part[id] : f[x] \in Nat
      OBVIOUS
    <3> HIDE DEF All
    <3> QED
      BY <2>1, <2>2, <3>1, SumUnion
  <2>5. SumFunctionOnSet(k, D \cup {id}) = k[id] + SumFunctionOnSet(k, D)
    <3> HIDE DEF k
    <3> QED
      BY Zenon, <1>0, <2>1, SumAdd
  <2>6. k[id] = Sum(part[id]) /\ k[id] \in Nat
    BY <1>0
  <2>7. Sum(All(D)) \in Nat
    <3>1. \A x \in All(D) : f[x] \in Nat
      OBVIOUS
    <3> HIDE DEF All
    <3> QED
      BY <2>1, <3>1, SumType
  <2> HIDE DEF Sum, k, All
  <2>8. Sum(All(D \cup {id})) = SumFunctionOnSet(k, D \cup {id})
    <3>1. Sum(All(D \cup {id})) = SumFunctionOnSet(k, D) + k[id]
      BY Zenon, <2>1, <2>2, <2>4, <2>6
    <3>2. SumFunctionOnSet(k, D) + k[id] = k[id] + SumFunctionOnSet(k, D)
      BY <2>1, <2>6, <2>7
    <3> QED
      BY <2>5, <3>1, <3>2
  <2>9. D \cup {id} \in SUBSET C /\ IsFiniteSet(All(D \cup {id}))
    BY Zenon, <2>2, <2>3
  <2> QED
    BY <2>8, <2>9
<1>3. C \in G
  <2> HIDE DEF G
  <2> QED
    BY Zenon, <1>1, <1>2, SetInduction
<1> QED
  BY <1>3
-----------------------------------------------------------------------------
(* The conversions, scan by scan.                                          *)

(* getSizeInGB cuts a size down to its whole GB (pvc.go, vsc.go).          *)
LEMMA WholeGbIs ==
    ASSUME NEW size \in Nat
    PROVE  getSizeInGB(size) \in Nat /\ WholeGb(size) = getSizeInGB(size)
<1> DEFINE q == size \div 4
<1>1. q \in 0..size /\ q * 4 <= size /\ size < (q + 1) * 4
  OBVIOUS
<1>2. \A n \in 0..size : n * 4 <= size /\ size < (n + 1) * 4 => n = q
  OBVIOUS
<1> HIDE DEF q
<1>3. (CHOOSE n \in 0..size : n * 4 <= size /\ size < (n + 1) * 4) = q
  BY <1>1, <1>2
<1> QED
  BY <1>1, <1>3 DEF WholeGb, getSizeInGB, GiB, q

(* Rounding one volume never loses storage and adds less than the factor.  *)
LEMMA RoundedUp ==
    ASSUME NEW size \in Nat
    PROVE  /\ getVolumeRoundedToFactor(size) \in Nat
           /\ size <= getVolumeRoundedToFactor(size)
           /\ getVolumeRoundedToFactor(size) <= size + 31
  BY DEF getVolumeRoundedToFactor, storageRoundingFactor

(* The sum of the worth of the listed resources.                           *)
Worths(list) == [r \in DOMAIN list |-> Gb(r, list[r])]

Counts(list) == [r \in DOMAIN list |-> Ones(r, list[r])]

(* What a measurement of a scan says of the resources that are listed: the *)
(* storage and the number of the volumes are those of the resources, and   *)
(* rounding adds at most 31 GB to each.                                    *)
Measures(edp, list) ==
    /\ edp.count \in Nat /\ edp.sizeTotal \in Nat /\ edp.sizeRounded \in Nat
    /\ edp.count = SumFunctionOnSet(Counts(list), DOMAIN list \ Nodes)
    /\ edp.sizeTotal = SumFunctionOnSet(Worths(list), DOMAIN list)
    /\ edp.sizeTotal <= edp.sizeRounded
    /\ edp.sizeRounded <= edp.sizeTotal + 31 * edp.count
    /\ edp.count = 0 => edp.sizeTotal = 0

NoCompute(edp) == edp.vmTypes = {} /\ edp.cpus = 0 /\ edp.ram = 0

(* A list as List returns it: the resources of one kind with their states. *)
ListOf(list, kind) ==
    /\ DOMAIN list = kind
    /\ \A r \in kind : list[r] \in States(r) \cup {None}

(* Each kind of resources is finite and apart from the others.             *)
LEMMA Kinds ==
    /\ IsFiniteSet(Nodes) /\ IsFiniteSet(Pvcs) /\ IsFiniteSet(Instances) /\ IsFiniteSet(Vscs)
    /\ \A r \in Nodes : States(r) = Labels
    /\ \A r \in Pvcs : r \notin Nodes /\ r \notin Instances /\ r \notin Vscs
    /\ \A r \in Instances : /\ r \notin Nodes /\ r \notin Pvcs /\ r \notin Vscs
                            /\ States(r) = Tiers
    /\ \A r \in Vscs : r \notin Nodes /\ r \notin Pvcs /\ r \notin Instances
<1>1. IsFiniteSet(Resources)
  BY MeasurementAssumption
<1>2. Nodes \in SUBSET Resources /\ Pvcs \in SUBSET Resources
      /\ Instances \in SUBSET Resources /\ Vscs \in SUBSET Resources
  BY DEF Resources
<1>3. IsFiniteSet(Nodes) /\ IsFiniteSet(Pvcs) /\ IsFiniteSet(Instances) /\ IsFiniteSet(Vscs)
  BY <1>1, <1>2, FS_Subset
<1> QED
  BY <1>3, MeasurementAssumption DEF States

(* The fields of the measurement of provisioned volumes (pvc.go, vsc.go).  *)
LEMMA ProvisionedFields ==
    ASSUME NEW D, IsFiniteSet(D), NEW gb \in [D -> Nat]
    PROVE  /\ NoCompute(Provisioned(gb))
           /\ Provisioned(gb).count = Cardinality(D) /\ Cardinality(D) \in Nat
           /\ Provisioned(gb).sizeTotal = SumFunctionOnSet(gb, D)
           /\ Provisioned(gb).sizeTotal \in Nat /\ Provisioned(gb).sizeRounded \in Nat
           /\ Provisioned(gb).sizeTotal <= Provisioned(gb).sizeRounded
           /\ Provisioned(gb).sizeRounded <= Provisioned(gb).sizeTotal + 31 * Cardinality(D)
           /\ Cardinality(D) = 0 => Provisioned(gb).sizeTotal = 0
<1> DEFINE up == [v \in D |-> getVolumeRoundedToFactor(gb[v])]
           one == [v \in D |-> 1]
<1>1. /\ NoCompute(Provisioned(gb))
      /\ Provisioned(gb).count = Cardinality(D)
      /\ Provisioned(gb).sizeTotal = SumFunctionOnSet(gb, D)
      /\ Provisioned(gb).sizeRounded = SumFunctionOnSet(up, D)
  BY DEF Provisioned, NoMeasurement, SumFunction, NoCompute
<1>2. \A v \in D : /\ gb[v] \in Nat /\ up[v] \in Nat /\ one[v] = 1
                   /\ gb[v] <= up[v] /\ up[v] <= gb[v] + 31 * one[v]
  BY RoundedUp
<1> HIDE DEF up, one
<1>3. SumFunctionOnSet(gb, D) \in Nat /\ SumFunctionOnSet(up, D) \in Nat
  BY <1>2, SumType
<1>4. SumFunctionOnSet(gb, D) <= SumFunctionOnSet(up, D)
  BY <1>2, SumMonotone
<1>5. SumFunctionOnSet(up, D) <= SumFunctionOnSet(gb, D) + 31 * SumFunctionOnSet(one, D)
  BY <1>2, SumWithin
<1>6. SumFunctionOnSet(one, D) = Cardinality(D) * 1 /\ Cardinality(D) \in Nat
  BY <1>2, SumConstant, FS_CardinalityType
<1>7. Cardinality(D) = 0 => SumFunctionOnSet(gb, D) = 0
  BY SumEmpty, FS_EmptySet
<1> QED
  BY <1>1, <1>3, <1>4, <1>5, <1>6, <1>7

(* The volumes that are provisioned are those that count, and each of them *)
(* has its size: then the measurement is one of the list.                  *)
LEMMA ProvisionedMeasures ==
    ASSUME NEW list, IsFiniteSet(DOMAIN list), DOMAIN list \cap Nodes = {},
           NEW D \in SUBSET DOMAIN list, NEW gb \in [D -> Nat],
           \A r \in D : Ones(r, list[r]) = 1 /\ Gb(r, list[r]) = gb[r],
           \A r \in DOMAIN list \ D : Ones(r, list[r]) = 0 /\ Gb(r, list[r]) = 0
    PROVE  Measures(Provisioned(gb), list) /\ NoCompute(Provisioned(gb))
<1> DEFINE S == DOMAIN list
           c == Counts(list)
           w == Worths(list)
<1>1. IsFiniteSet(D) /\ S \ Nodes = S
  BY Zenon, FS_Subset
<1>2. /\ \A r \in S : c[r] \in Nat /\ w[r] \in Nat
      /\ \A r \in D : c[r] = 1 /\ w[r] = gb[r]
      /\ \A r \in S \ D : c[r] = 0 /\ w[r] = 0
  BY DEF Counts, Worths
<1>3. \A r \in D : gb[r] \in Nat
  OBVIOUS
<1> HIDE DEF c, w
<1>4. SumFunctionOnSet(c, S) = SumFunctionOnSet(c, D)
  BY <1>2, SumSupport
<1>5. SumFunctionOnSet(w, S) = SumFunctionOnSet(w, D)
  BY <1>2, SumSupport
<1>6. SumFunctionOnSet(c, D) = Cardinality(D) * 1
  BY <1>1, <1>2, SumConstant
<1>7. SumFunctionOnSet(w, D) = SumFunctionOnSet(gb, D)
  BY <1>1, <1>2, <1>3, SumEqual
<1> DEFINE edp == Provisioned(gb)
<1>8. /\ NoCompute(edp)
      /\ edp.count = Cardinality(D) /\ Cardinality(D) \in Nat
      /\ edp.sizeTotal = SumFunctionOnSet(gb, D)
      /\ edp.sizeTotal \in Nat /\ edp.sizeRounded \in Nat
      /\ edp.sizeTotal <= edp.sizeRounded
      /\ edp.sizeRounded <= edp.sizeTotal + 31 * Cardinality(D)
      /\ Cardinality(D) = 0 => edp.sizeTotal = 0
  BY <1>1, ProvisionedFields
<1> HIDE DEF edp
<1>9. edp.count = SumFunctionOnSet(c, S \ Nodes)
  BY <1>1, <1>4, <1>6, <1>8
<1>10. edp.sizeTotal = SumFunctionOnSet(w, S)
  BY <1>5, <1>7, <1>8
<1>11. Measures(edp, list)
  BY <1>8, <1>9, <1>10 DEF Measures, c, w
<1> QED
  BY <1>8, <1>11 DEF edp

(* The claims (pvc.go, EDP).                                               *)
LEMMA PvcMeasured ==
    ASSUME NEW list, ListOf(list, Pvcs)
    PROVE  Measures(PvcEDP(list).edp, list) /\ NoCompute(PvcEDP(list).edp)
<1> DEFINE D == {p \in Existing(list) : list[p] # Pending}
           gb == [p \in D |-> IF p \in NfsPvcs
                              THEN getSizeInGB(nfsSize(list[p])) * nfsPriceMultiplier
                              ELSE getSizeInGB(list[p].size)]
<1>1. PvcEDP(list).edp = Provisioned(gb)
  BY DEF PvcEDP
<1>2. /\ DOMAIN list = Pvcs /\ IsFiniteSet(DOMAIN list) /\ DOMAIN list \cap Nodes = {}
      /\ D \in SUBSET DOMAIN list
  BY Kinds DEF ListOf, Existing
<1>3. ASSUME NEW r \in D
      PROVE  /\ Ones(r, list[r]) = 1 /\ Gb(r, list[r]) = gb[r] /\ gb[r] \in Nat
  <2>1. /\ r \in Pvcs /\ r \notin Nodes /\ r \notin Instances /\ r \notin Vscs
        /\ list[r] # None /\ list[r] # Pending
    BY <1>2, Kinds DEF Existing
  <2>2. list[r].size \in Sizes
    BY <2>1, MeasurementAssumption DEF ListOf, States
  <2>3. list[r].size \in Nat /\ (list[r].label \in LabelSizes => list[r].label \in Nat)
    BY <2>2, MeasurementAssumption
  <2>4. Ones(r, list[r]) = 1
    BY <2>1 DEF Ones
  <2>5. gb[r] = IF r \in NfsPvcs THEN getSizeInGB(nfsSize(list[r])) * 3
                ELSE getSizeInGB(list[r].size)
    BY DEF nfsPriceMultiplier
  <2>6. Gb(r, list[r]) = IF r \in NfsPvcs THEN 3 * WholeGb(nfsSize(list[r]))
                         ELSE WholeGb(list[r].size)
    BY <2>1, <2>4 DEF Gb, nfsSize
  <2>7. nfsSize(list[r]) \in Nat
    BY <2>3 DEF nfsSize
  <2>8. /\ WholeGb(nfsSize(list[r])) = getSizeInGB(nfsSize(list[r]))
        /\ WholeGb(list[r].size) = getSizeInGB(list[r].size)
        /\ getSizeInGB(nfsSize(list[r])) \in Nat /\ getSizeInGB(list[r].size) \in Nat
    BY <2>3, <2>7, WholeGbIs
  <2> HIDE DEF gb
  <2> QED
    BY <2>4, <2>5, <2>6, <2>8
<1>4. \A r \in DOMAIN list \ D : Ones(r, list[r]) = 0 /\ Gb(r, list[r]) = 0
  BY <1>2 DEF Ones, Gb, Existing
<1>5. gb \in [D -> Nat]
  BY Zenon, <1>3
<1> HIDE DEF gb, D
<1> QED
  BY <1>1, <1>2, <1>3, <1>4, <1>5, ProvisionedMeasures

(* The volume snapshot contents (vsc.go, EDP): one without a restore size  *)
(* is an error.                                                            *)
LEMMA VscMeasured ==
    ASSUME NEW list, ListOf(list, Vscs), VscEDP(list).ok
    PROVE  Measures(VscEDP(list).edp, list) /\ NoCompute(VscEDP(list).edp)
<1> DEFINE ready == {v \in Existing(list) : list[v] # Pending}
           D == {v \in ready : list[v].restoreSize # None}
           gb == [v \in D |-> getSizeInGB(list[v].restoreSize)]
<1>1. VscEDP(list).edp = Provisioned(gb) /\ D = ready
  BY Zenon DEF VscEDP
<1>2. /\ DOMAIN list = Vscs /\ IsFiniteSet(DOMAIN list) /\ DOMAIN list \cap Nodes = {}
      /\ D \in SUBSET DOMAIN list
  BY Kinds DEF ListOf, Existing
<1>3. ASSUME NEW r \in D
      PROVE  /\ Ones(r, list[r]) = 1 /\ Gb(r, list[r]) = gb[r] /\ gb[r] \in Nat
  <2>1. /\ r \in Vscs /\ r \notin Nodes /\ r \notin Instances /\ r \notin Pvcs
        /\ list[r] # None /\ list[r] # Pending /\ list[r].restoreSize # None
    BY <1>2, Kinds DEF Existing
  <2>2. list[r].restoreSize \in Nat
    BY <2>1, MeasurementAssumption DEF ListOf, States
  <2>3. Ones(r, list[r]) = 1
    BY <2>1 DEF Ones
  <2>4. Gb(r, list[r]) = WholeGb(list[r].restoreSize)
    BY <2>1, <2>3, MeasurementAssumption DEF Gb
  <2> QED
    BY <2>2, <2>3, <2>4, WholeGbIs
<1>4. \A r \in DOMAIN list \ D : Ones(r, list[r]) = 0 /\ Gb(r, list[r]) = 0
  BY <1>1, <1>2 DEF Ones, Gb, Existing
<1>5. gb \in [D -> Nat]
  BY Zenon, <1>3
<1> HIDE DEF gb, D
<1> QED
  BY <1>1, <1>2, <1>3, <1>4, <1>5, ProvisionedMeasures

(* The Redis instances (redis.go, EDP): one of an unknown tier is an       *)
(* error.                                                                  *)
LEMMA RedisMeasured ==
    ASSUME NEW list, ListOf(list, Instances), RedisEDP(list).ok
    PROVE  Measures(RedisEDP(list).edp, list) /\ NoCompute(RedisEDP(list).edp)
<1> DEFINE D == {i \in Existing(list) : list[i] \in DOMAIN RedisTiers}
           gb == [i \in D |-> RedisTiers[list[i]]]
           S == DOMAIN list
           c == Counts(list)
           w == Worths(list)
           edp == RedisEDP(list).edp
<1>1. /\ edp.count = Cardinality(D) /\ edp.sizeTotal = SumFunctionOnSet(gb, D)
      /\ edp.sizeRounded = edp.sizeTotal /\ NoCompute(edp) /\ D = Existing(list)
  BY Zenon DEF RedisEDP, NoMeasurement, SumFunction, NoCompute
<1>2. /\ S = Instances /\ IsFiniteSet(S) /\ S \ Nodes = S /\ D \in SUBSET S
  BY Kinds DEF ListOf, Existing
<1>3. ASSUME NEW r \in D PROVE gb[r] \in Nat /\ c[r] = 1 /\ w[r] = gb[r]
  <2>1. /\ r \in Instances /\ r \notin Nodes /\ r \notin Pvcs /\ r \notin Vscs /\ r \in S
        /\ list[r] # None /\ list[r] \in Tiers /\ list[r] \in DOMAIN RedisTiers
    BY <1>2, Kinds DEF Existing, ListOf
  <2>2. Ones(r, list[r]) = 1
    BY <2>1, MeasurementAssumption DEF Ones
  <2>3. Gb(r, list[r]) = RedisTiers[list[r]] /\ RedisTiers[list[r]] \in Nat
    BY <2>1, <2>2, MeasurementAssumption DEF Gb
  <2> QED
    BY <2>1, <2>2, <2>3 DEF Counts, Worths
<1>4. \A r \in S \ D : c[r] = 0 /\ w[r] = 0
  BY <1>1 DEF Counts, Worths, Ones, Gb, Existing
<1>5. IsFiniteSet(D)
  BY <1>2, FS_Subset
<1> HIDE DEF D, gb, c, w, edp
<1>6. SumFunctionOnSet(c, S) = SumFunctionOnSet(c, D)
  <2>1. \A r \in S : c[r] \in Nat
    BY <1>3, <1>4
  <2> QED
    BY <1>2, <1>4, <2>1, SumSupport
<1>7. SumFunctionOnSet(w, S) = SumFunctionOnSet(w, D)
  <2>1. \A r \in S : w[r] \in Nat
    BY <1>3, <1>4
  <2> QED
    BY <1>2, <1>4, <2>1, SumSupport
<1>8. SumFunctionOnSet(c, D) = Cardinality(D) * 1 /\ Cardinality(D) \in Nat
  BY <1>3, <1>5, SumConstant, FS_CardinalityType
<1>9. SumFunctionOnSet(w, D) = SumFunctionOnSet(gb, D) /\ SumFunctionOnSet(gb, D) \in Nat
  BY <1>3, <1>5, SumEqual, SumType
<1>10. edp.count = SumFunctionOnSet(c, S \ Nodes) /\ edp.count \in Nat
  BY <1>1, <1>2, <1>6, <1>8
<1>11. edp.sizeTotal = SumFunctionOnSet(w, S) /\ edp.sizeTotal \in Nat
  BY <1>1, <1>7, <1>9
<1>12. edp.sizeTotal <= edp.sizeRounded /\ edp.sizeRounded <= edp.sizeTotal + 31 * edp.count
  BY <1>1, <1>10, <1>11
<1>13. edp.count = 0 => edp.sizeTotal = 0
  BY <1>1, <1>5, SumEmpty, FS_EmptySet
<1> QED
  BY <1>1, <1>10, <1>11, <1>12, <1>13 DEF Measures, c, w, edp


(* A sum over classes on each of which the summand is the same.            *)
LEMMA SumOfClasses ==
    ASSUME NEW V, IsFiniteSet(V), NEW part, NEW k, NEW f,
           \A vm \in V : /\ IsFiniteSet(part[vm]) /\ k[vm] \in Nat
                         /\ \A n \in part[vm] : f[n] = k[vm],
           \A vm1, vm2 \in V : vm1 # vm2 => part[vm1] \cap part[vm2] = {}
    PROVE  SumFunctionOnSet(f, UNION {part[vm] : vm \in V}) =
             SumFunctionOnSet([vm \in V |-> Cardinality(part[vm]) * k[vm]], V)
<1>1. \A vm \in V : \A n \in part[vm] : f[n] \in Nat
  OBVIOUS
<1>2. SumFunctionOnSet(f, UNION {part[vm] : vm \in V}) =
        SumFunctionOnSet([vm \in V |-> SumFunctionOnSet(f, part[vm])], V)
  BY <1>1, SumPartition
<1>3. \A vm \in V : SumFunctionOnSet(f, part[vm]) = Cardinality(part[vm]) * k[vm]
  BY SumConstant
<1>4. [vm \in V |-> SumFunctionOnSet(f, part[vm])] =
        [vm \in V |-> Cardinality(part[vm]) * k[vm]]
  BY <1>3
<1> QED
  BY <1>2, <1>4

(* A sum over the machines is the sum over their types of the number of    *)
(* machines of the type times what one of them has.                        *)
LEMMA SumByType ==
    ASSUME NEW K, IsFiniteSet(K), NEW type, NEW g, \A n \in K : g[type[n]] \in Nat
    PROVE  LET V == {[name |-> type[n],
                      count |-> Cardinality({m \in K : type[m] = type[n]})] : n \in K}
           IN  /\ IsFiniteSet(V)
               /\ \A vm \in V : vm.count \in Nat /\ \E n \in K : vm.name = type[n]
               /\ SumFunctionOnSet([n \in K |-> g[type[n]]], K) =
                    SumFunctionOnSet([vm \in V |-> vm.count * g[vm.name]], V)
<1> DEFINE Of(t) == {m \in K : type[m] = t}
           Entry(t) == [name |-> t, count |-> Cardinality(Of(t))]
           V == {Entry(type[n]) : n \in K}
           entry == [n \in K |-> Entry(type[n])]
           part == [vm \in V |-> Of(vm.name)]
           k == [vm \in V |-> g[vm.name]]
           f == [n \in K |-> g[type[n]]]
<1>1. \A t : Entry(t).name = t /\ Entry(t).count = Cardinality(Of(t))
  OBVIOUS
<1>2. /\ \A t : IsFiniteSet(Of(t)) /\ Cardinality(Of(t)) \in Nat
      /\ \A n \in K : n \in Of(type[n])
      /\ \A t : \A n \in Of(t) : n \in K /\ type[n] = t
  BY FS_Subset, FS_CardinalityType
<1> HIDE DEF Of, Entry
<1>3. IsFiniteSet(V)
  <2>1. entry \in Surjection(K, V)
    BY DEF Surjection
  <2> QED
    BY <2>1, FS_Surjection
<1>4. \A vm \in V : \E n \in K : vm = Entry(type[n]) /\ vm.name = type[n]
  BY <1>1
<1>5. \A n \in K : Entry(type[n]) \in V
  OBVIOUS
<1>6. \A vm \in V : /\ part[vm] = Of(vm.name) /\ k[vm] = g[vm.name]
  OBVIOUS
<1> HIDE DEF V
<1>7. \A vm \in V : /\ vm.count = Cardinality(Of(vm.name)) /\ vm.count \in Nat
                    /\ g[vm.name] \in Nat
  BY <1>1, <1>2, <1>4
<1>8. UNION {part[vm] : vm \in V} = K
  <2> HIDE DEF part
  <2>1. ASSUME NEW n \in K PROVE \E vm \in V : n \in part[vm]
    BY <1>1, <1>2, <1>5, <1>6
  <2>2. \A vm \in V : \A n \in part[vm] : n \in K
    BY <1>2, <1>6
  <2> QED
    BY <2>1, <2>2
<1>9. \A vm1, vm2 \in V : vm1 # vm2 => part[vm1] \cap part[vm2] = {}
  <2> HIDE DEF part
  <2> SUFFICES ASSUME NEW vm1 \in V, NEW vm2 \in V, vm1.name = vm2.name PROVE vm1 = vm2
    BY <1>2, <1>6
  <2> QED
    BY <1>4
<1>10. \A vm \in V : /\ IsFiniteSet(part[vm]) /\ k[vm] \in Nat
                     /\ \A n \in part[vm] : f[n] = k[vm]
  <2> HIDE DEF part, k
  <2> QED
    BY <1>2, <1>6, <1>7
<1>11. SumFunctionOnSet(f, UNION {part[vm] : vm \in V}) =
         SumFunctionOnSet([vm \in V |-> Cardinality(part[vm]) * k[vm]], V)
  <2> HIDE DEF part, k, f
  <2> QED
    BY <1>3, <1>9, <1>10, SumOfClasses
<1>12. [vm \in V |-> Cardinality(part[vm]) * k[vm]] = [vm \in V |-> vm.count * g[vm.name]]
  <2> HIDE DEF part, k
  <2> QED
    BY <1>6, <1>7
<1>13. SumFunctionOnSet(f, K) = SumFunctionOnSet([vm \in V |-> vm.count * g[vm.name]], V)
  <2> HIDE DEF part, k, f
  <2> QED
    BY Zenon, <1>8, <1>11, <1>12
<1> QED
  BY Zenon, <1>3, <1>4, <1>7, <1>13 DEF V, Entry, Of

(* The machines a measurement lists explain its CPUs and its memory.       *)
Explained(edp) ==
    /\ IsFiniteSet(edp.vmTypes) /\ edp.cpus \in Nat /\ edp.ram \in Nat
    /\ \A vm \in edp.vmTypes : vm.name \in DOMAIN Machines /\ vm.count \in Nat
    /\ edp.cpus = SumFunctionOnSet([vm \in edp.vmTypes |->
                                      vm.count * Machines[vm.name].CpuCores], edp.vmTypes)
    /\ edp.ram = SumFunctionOnSet([vm \in edp.vmTypes |->
                                     vm.count * Machines[vm.name].Memory], edp.vmTypes)

(* The nodes (node.go, EDP): they are no volumes; the machines are those   *)
(* of known types, and without an error all there are.                     *)
LEMMA NodeMeasured ==
    ASSUME NEW list, ListOf(list, Nodes)
    PROVE  /\ Measures(NodeEDP(list).edp, list)
           /\ Explained(NodeEDP(list).edp)
           /\ NodeEDP(list).ok =>
                 SumFunctionOnSet([vm \in NodeEDP(list).edp.vmTypes |-> vm.count],
                                  NodeEDP(list).edp.vmTypes) =
                   SumFunctionOnSet(Counts(list), Nodes)
<1> DEFINE type == [n \in Existing(list) |-> ToLower[list[n]]]
           K == {n \in Existing(list) : GetFeature(type[n]) # None}
           V == {[name |-> type[n],
                  count |-> Cardinality({m \in K : type[m] = type[n]})] : n \in K}
           cpu == [t \in DOMAIN Machines |-> Machines[t].CpuCores]
           mem == [t \in DOMAIN Machines |-> Machines[t].Memory]
           one == [t \in DOMAIN Machines |-> 1]
           edp == NodeEDP(list).edp
<1>1. IsFiniteSet(Nodes) /\ K \in SUBSET Nodes /\ IsFiniteSet(K) /\ Existing(list) \in SUBSET Nodes
  <2>1. K \in SUBSET Nodes /\ Existing(list) \in SUBSET Nodes
    BY DEF ListOf, Existing
  <2> QED
    BY Zenon, <2>1, Kinds, FS_Subset
<1>2. \A n \in K : /\ type[n] \in DOMAIN Machines
                   /\ GetFeature(type[n]) = Machines[type[n]]
  BY DEF GetFeature
<1>3. \A n \in K : cpu[type[n]] \in Nat /\ mem[type[n]] \in Nat /\ one[type[n]] \in Nat
  BY <1>2, MeasurementAssumption
<1>4. /\ edp.vmTypes = V
      /\ edp.cpus = SumFunction([n \in K |-> GetFeature(type[n]).CpuCores])
      /\ edp.ram = SumFunction([n \in K |-> GetFeature(type[n]).Memory])
      /\ edp.count = 0 /\ edp.sizeTotal = 0 /\ edp.sizeRounded = 0
      /\ NodeEDP(list).ok => K = Existing(list)
  BY Zenon DEF NodeEDP, NoMeasurement
<1>5. /\ edp.cpus = SumFunctionOnSet([n \in K |-> cpu[type[n]]], K)
      /\ edp.ram = SumFunctionOnSet([n \in K |-> mem[type[n]]], K)
  <2>1. \A n \in K : /\ GetFeature(type[n]).CpuCores = cpu[type[n]]
                     /\ GetFeature(type[n]).Memory = mem[type[n]]
    BY <1>2
  <2> HIDE DEF K, type, cpu, mem, edp
  <2>2. /\ [n \in K |-> GetFeature(type[n]).CpuCores] = [n \in K |-> cpu[type[n]]]
        /\ [n \in K |-> GetFeature(type[n]).Memory] = [n \in K |-> mem[type[n]]]
    BY <2>1
  <2> QED
    BY <1>4, <2>2 DEF SumFunction
<1> HIDE DEF K, type
<1>7. /\ IsFiniteSet(V)
      /\ \A vm \in V : vm.count \in Nat /\ \E n \in K : vm.name = type[n]
      /\ SumFunctionOnSet([n \in K |-> cpu[type[n]]], K) =
           SumFunctionOnSet([vm \in V |-> vm.count * cpu[vm.name]], V)
  <2> HIDE DEF cpu
  <2> QED
    BY Zenon, <1>1, <1>3, SumByType
<1>8. SumFunctionOnSet([n \in K |-> mem[type[n]]], K) =
        SumFunctionOnSet([vm \in V |-> vm.count * mem[vm.name]], V)
  <2> HIDE DEF mem
  <2> QED
    BY Zenon, <1>1, <1>3, SumByType
<1>9. SumFunctionOnSet([n \in K |-> one[type[n]]], K) =
        SumFunctionOnSet([vm \in V |-> vm.count * one[vm.name]], V)
  <2> HIDE DEF one
  <2> QED
    BY Zenon, <1>1, <1>3, SumByType
<1> HIDE DEF V, edp
<1>6. \A vm \in V : vm.name \in DOMAIN Machines
  BY <1>2, <1>7
<1>10. edp.cpus \in Nat /\ edp.ram \in Nat
  <2> DEFINE a == [m \in K |-> cpu[type[m]]]
             b == [m \in K |-> mem[type[m]]]
  <2>1. \A n \in K : a[n] \in Nat /\ b[n] \in Nat
    BY <1>3
  <2> HIDE DEF cpu, mem
  <2>2. edp.cpus = SumFunctionOnSet(a, K) /\ edp.ram = SumFunctionOnSet(b, K)
    BY <1>5
  <2> HIDE DEF a, b
  <2> QED
    BY <1>1, <2>1, <2>2, SumType
<1>11. /\ [vm \in V |-> vm.count * cpu[vm.name]] =
            [vm \in V |-> vm.count * Machines[vm.name].CpuCores]
       /\ [vm \in V |-> vm.count * mem[vm.name]] =
            [vm \in V |-> vm.count * Machines[vm.name].Memory]
       /\ [vm \in V |-> vm.count * one[vm.name]] = [vm \in V |-> vm.count]
  BY <1>6, <1>7
<1>12. Explained(edp)
  <2> HIDE DEF cpu, mem
  <2> QED
    BY <1>4, <1>5, <1>6, <1>7, <1>8, <1>10, <1>11 DEF Explained
<1>13. Measures(edp, list)
  <2>1. DOMAIN list = Nodes /\ DOMAIN list \ Nodes = {}
    BY DEF ListOf
  <2>2. \A r \in Nodes : Worths(list)[r] = 0
    BY <2>1, MeasurementAssumption DEF Worths, Gb
  <2>3. SumFunctionOnSet(Worths(list), Nodes) = Cardinality(Nodes) * 0
    BY <1>1, <2>2, SumConstant
  <2>4. Cardinality(Nodes) * 0 = 0
    BY <1>1, FS_CardinalityType
  <2>5. SumFunctionOnSet(Counts(list), {}) = 0
    BY SumEmpty
  <2>6. /\ edp.count = SumFunctionOnSet(Counts(list), DOMAIN list \ Nodes)
        /\ edp.sizeTotal = SumFunctionOnSet(Worths(list), DOMAIN list)
    BY Zenon, <1>4, <2>1, <2>3, <2>4, <2>5
  <2> QED
    BY <1>4, <2>6 DEF Measures
<1>14. ASSUME NodeEDP(list).ok
       PROVE  SumFunctionOnSet([vm \in V |-> vm.count], V) = SumFunctionOnSet(Counts(list), Nodes)
  <2> DEFINE c == Counts(list)
             u == [n \in K |-> one[type[n]]]
  <2>1. K = Existing(list)
    BY <1>4, <1>14
  <2>2. /\ \A n \in K : c[n] = 1
        /\ \A n \in Nodes \ K : c[n] = 0
    BY <2>1, Kinds, MeasurementAssumption DEF Counts, ListOf, Existing, Ones
  <2>3. \A n \in K : u[n] = 1
    BY <1>2
  <2> HIDE DEF c, u
  <2>4. SumFunctionOnSet(c, Nodes) = SumFunctionOnSet(c, K)
    <3>1. \A n \in Nodes : c[n] \in Nat
      BY <2>2
    <3> QED
      BY <1>1, <2>2, <3>1, SumSupport
  <2>5. SumFunctionOnSet(u, K) = SumFunctionOnSet(c, K)
    BY <1>1, <2>2, <2>3, SumEqual
  <2> HIDE DEF one
  <2> QED
    BY Zenon, <1>9, <1>11, <2>4, <2>5 DEF c, u
<1> QED
  BY <1>4, <1>12, <1>13, <1>14 DEF edp
-----------------------------------------------------------------------------
(* The inductive invariant.                                                *)

(* What a scan lists are states the resources had while the run was on.    *)
IInv ==
    /\ TypeOK
    /\ cluster = [r \in Resources |-> cluster[r]]
    /\ scans = [id \in IDs |-> scans[id]]
    /\ seen = [r \in Resources |-> seen[r]]
    /\ pc = 0 => scans = NoScans
    /\ \A r \in Resources :
          /\ IsFiniteSet(seen[r]) /\ seen[r] \subseteq States(r) \cup {None}
          /\ pc > 0 => cluster[r] \in seen[r]
    /\ \A id \in IDs : scans[id] # None =>
          /\ DOMAIN scans[id] = ListedBy(id)
          /\ \A r \in ListedBy(id) : scans[id][r] \in seen[r]

(* The scanners and what they list.                                        *)
LEMMA Scanners ==
    /\ IDs = {"node", "pvc", "redis", "vsc"} /\ IsFiniteSet(IDs)
    /\ Len(scanners) = 4 /\ DOMAIN scanners = 1..4
    /\ \A i \in 1..4 : scanners[i] \in IDs
    /\ \A id \in IDs : ListedBy(id) \subseteq Resources /\ IsFiniteSet(ListedBy(id))
    /\ \A id1, id2 \in IDs : id1 # id2 => ListedBy(id1) \cap ListedBy(id2) = {}
<1>1. IDs = {"node", "pvc", "redis", "vsc"} /\ Len(scanners) = 4 /\ DOMAIN scanners = 1..4
  BY DEF IDs, scanners
<1>2. \A i \in 1..4 : scanners[i] \in IDs
  BY <1>1 DEF IDs
<1>3. IsFiniteSet(IDs)
  <2>1. /\ IDs = {"node", "pvc", "redis"} \cup {"vsc"}
        /\ {"node", "pvc", "redis"} = {"node", "pvc"} \cup {"redis"}
        /\ {"node", "pvc"} = {"node"} \cup {"pvc"}
    BY <1>1
  <2>2. IsFiniteSet({"node"})
    BY Zenon, FS_Singleton
  <2>3. IsFiniteSet({"node", "pvc"})
    BY <2>1, <2>2, FS_AddElement
  <2>4. IsFiniteSet({"node", "pvc", "redis"})
    BY <2>1, <2>3, FS_AddElement
  <2> QED
    BY <2>1, <2>4, FS_AddElement
<1>4. \A id \in IDs : ListedBy(id) \subseteq Resources /\ IsFiniteSet(ListedBy(id))
  BY <1>1, Kinds DEF ListedBy, Resources
<1>5. \A id1, id2 \in IDs : id1 # id2 => ListedBy(id1) \cap ListedBy(id2) = {}
  BY <1>1, MeasurementAssumption DEF ListedBy
<1> QED
  BY <1>1, <1>2, <1>3, <1>4, <1>5

(* The invariant holds before the first run.                               *)
LEMMA InitIInv == Init => IInv
<1> SUFFICES ASSUME Init PROVE IInv
  OBVIOUS
<1>1. TypeOK
  BY Scanners, MeasurementAssumption DEF Init, TypeOK, NoScans
<1>2. \A r \in Resources : /\ IsFiniteSet(seen[r]) /\ seen[r] \subseteq States(r) \cup {None}
                           /\ ~(pc > 0)
  BY FS_EmptySet DEF Init, Unseen
<1> QED
  BY <1>1, <1>2 DEF IInv, Init, NoScans, Unseen

(* Every change of the cluster and every step of a run keeps it.           *)
LEMMA NextIInv == IInv /\ [Next]_vars => IInv'
<1> SUFFICES ASSUME IInv, [Next]_vars PROVE IInv'
  OBVIOUS
<1>1. ASSUME NEW r \in Resources, Change(r) PROVE IInv'
  <2>1. PICK state \in States(r) \cup {None} :
          /\ cluster' = [cluster EXCEPT ![r] = state]
          /\ seen' = IF pc = 0 THEN seen ELSE [seen EXCEPT ![r] = @ \cup {state}]
    BY Zenon, <1>1 DEF Change
  <2>2. pc' = pc /\ scans' = scans
    BY <1>1 DEF Change
  <2>3. pc \in 0..5 /\ changes' \in 0..MaxChanges
    BY <1>1, Scanners, MeasurementAssumption DEF Change, IInv, TypeOK
  <2>4. \A q \in Resources : cluster'[q] = IF q = r THEN state ELSE cluster[q]
    BY <2>1 DEF IInv
  <2>5. TypeOK'
    BY Zenon, <2>2, <2>3, <2>4 DEF IInv, TypeOK, Existing
  <2>6. \A q \in Resources : seen'[q] = IF q = r /\ pc # 0 THEN seen[q] \cup {state} ELSE seen[q]
    BY <2>1 DEF IInv
  <2>7. \A q \in Resources : /\ IsFiniteSet(seen'[q]) /\ seen'[q] \subseteq States(q) \cup {None}
                             /\ pc > 0 => cluster'[q] \in seen'[q]
    <3> SUFFICES ASSUME NEW q \in Resources
                 PROVE  /\ IsFiniteSet(seen'[q]) /\ seen'[q] \subseteq States(q) \cup {None}
                        /\ pc > 0 => cluster'[q] \in seen'[q]
      OBVIOUS
    <3>1. /\ IsFiniteSet(seen[q]) /\ seen[q] \subseteq States(q) \cup {None}
          /\ pc > 0 => cluster[q] \in seen[q]
      BY DEF IInv
    <3>2. IsFiniteSet(seen[q] \cup {state})
      BY <3>1, FS_AddElement
    <3> QED
      BY <2>3, <2>4, <2>6, <3>1, <3>2
  <2>8. \A id \in IDs : scans[id] # None =>
          /\ DOMAIN scans[id] = ListedBy(id)
          /\ \A q \in ListedBy(id) : scans[id][q] \in seen'[q]
    <3> SUFFICES ASSUME NEW id \in IDs, scans[id] # None
                 PROVE  /\ DOMAIN scans[id] = ListedBy(id)
                        /\ \A q \in ListedBy(id) : scans[id][q] \in seen'[q]
      OBVIOUS
    <3>1. /\ DOMAIN scans[id] = ListedBy(id)
          /\ \A q \in ListedBy(id) : scans[id][q] \in seen[q]
      BY DEF IInv
    <3>2. \A q \in ListedBy(id) : q \in Resources
      BY Scanners
    <3> QED
      BY Zenon, <2>6, <3>1, <3>2
  <2>9. cluster' = [q \in Resources |-> cluster'[q]] /\ seen' = [q \in Resources |-> seen'[q]]
    BY Zenon, <2>1 DEF IInv
  <2> QED
    BY Zenon, <2>2, <2>5, <2>7, <2>8, <2>9 DEF IInv, States, ListedBy, NoScans
<1>2. CASE Begin
  <2>1. /\ pc = 0 /\ pc' = 1 /\ scans = NoScans
        /\ cluster' = cluster /\ scans' = scans /\ changes' = changes
        /\ seen' = [r \in Resources |-> {cluster[r]}]
    BY <1>2 DEF Begin, IInv
  <2>2. TypeOK'
    BY <2>1, Scanners DEF IInv, TypeOK, Existing
  <2>3. \A r \in Resources : /\ IsFiniteSet(seen'[r]) /\ seen'[r] \subseteq States(r) \cup {None}
                             /\ cluster'[r] \in seen'[r]
    BY Zenon, <2>1, FS_Singleton DEF IInv, TypeOK
  <2>4. \A id \in IDs : scans'[id] = None
    BY <2>1 DEF NoScans
  <2> QED
    BY Zenon, <2>1, <2>2, <2>3, <2>4 DEF IInv, States, ListedBy
<1>3. CASE Scan
  <2> DEFINE me == scanners[pc]
  <2>1. /\ pc \in 1..4 /\ me \in IDs /\ pc' = pc + 1
        /\ scans' = [scans EXCEPT ![me] = List(me)]
        /\ me = "node" => Existing(List("node")) # {}
        /\ cluster' = cluster /\ changes' = changes /\ seen' = seen
    BY <1>3, Scanners DEF Scan
  <2> HIDE DEF me
  <2>2. \A id \in IDs : scans'[id] = IF id = me THEN List(me) ELSE scans[id]
    BY <2>1 DEF IInv
  <2>3. /\ DOMAIN List(me) = ListedBy(me)
        /\ \A r \in ListedBy(me) : List(me)[r] \in seen[r]
    BY <2>1, Scanners DEF List, IInv
  <2>4. TypeOK'
    <3>1. scans'["node"] # None => Existing(scans'["node"]) # {}
      BY Zenon, <2>1, <2>2, Scanners DEF IInv, TypeOK
    <3>2. pc' \in 0..(Len(scanners) + 1)
      BY <2>1, Scanners
    <3> QED
      BY Zenon, <2>1, <3>1, <3>2 DEF IInv, TypeOK, Existing
  <2>5. \A id \in IDs : scans'[id] # None =>
          /\ DOMAIN scans'[id] = ListedBy(id)
          /\ \A r \in ListedBy(id) : scans'[id][r] \in seen[r]
    BY <2>2, <2>3 DEF IInv
  <2>6. scans' = [id \in IDs |-> scans'[id]]
    BY <2>1 DEF IInv
  <2>7. pc > 0 /\ pc' # 0
    BY <2>1
  <2> QED
    BY <2>1, <2>4, <2>5, <2>6, <2>7 DEF IInv
<1>4. CASE ScanFails
  <2>1. /\ pc \in 1..4 /\ pc' = pc + 1
        /\ cluster' = cluster /\ changes' = changes /\ seen' = seen /\ scans' = scans
    BY <1>4, Scanners DEF ScanFails
  <2>2. TypeOK'
    BY <2>1, Scanners DEF IInv, TypeOK, Existing
  <2>3. pc > 0 /\ pc' # 0
    BY <2>1
  <2> QED
    BY <2>1, <2>2, <2>3 DEF IInv
<1>5. CASE Send
  <2>1. /\ pc' = 0 /\ cluster' = cluster /\ changes' = 0 /\ seen' = Unseen /\ scans' = NoScans
    BY <1>5 DEF Send
  <2>2. TypeOK'
    BY <2>1, Scanners, MeasurementAssumption DEF IInv, TypeOK, NoScans
  <2>3. \A r \in Resources : seen'[r] = {} /\ IsFiniteSet(seen'[r])
    BY <2>1, FS_EmptySet DEF Unseen
  <2> QED
    BY <2>1, <2>2, <2>3 DEF IInv, NoScans, Unseen
<1>6. CASE UNCHANGED vars
  BY Zenon, <1>6 DEF vars, IInv, TypeOK, Existing, States, ListedBy, NoScans
<1> QED
  BY <1>1, <1>2, <1>3, <1>4, <1>5, <1>6 DEF Next

(* IInv holds in every state.                                              *)
THEOREM Invariance == Spec => []IInv
<1> QED
  BY InitIInv, NextIInv, PTL DEF Spec

(* Every variable has the type of the state it models, and a node scan is  *)
(* never without nodes (node.go, Scan: "no nodes found").                  *)
THEOREM TypeCorrect == Spec => []TypeOK
<1>1. IInv => TypeOK
  BY DEF IInv
<1> QED
  BY <1>1, Invariance, PTL
-----------------------------------------------------------------------------
(* The payload.                                                            *)

(* A finite set of natural numbers lies between its Min and its Max.       *)
LEMMA MinMax ==
    ASSUME NEW T \in SUBSET Nat, IsFiniteSet(T), NEW x \in T
    PROVE  /\ Min(T) \in Nat /\ Min(T) <= x
           /\ Max(T) \in Nat /\ x <= Max(T)
<1> DEFINE G == {U \in SUBSET T : U # {} => /\ \E m \in U : \A y \in U : m <= y
                                            /\ \E m \in U : \A y \in U : m >= y}
<1>1. {} \in G
  OBVIOUS
<1>2. ASSUME NEW U \in SUBSET T, U \in G, NEW z \in T \ U PROVE U \cup {z} \in G
  <2>1. CASE U = {}
    BY <2>1
  <2>2. CASE U # {}
    <3>1. PICK lo \in U : \A y \in U : lo <= y
      BY <1>2, <2>2
    <3>2. PICK hi \in U : \A y \in U : hi >= y
      BY <1>2, <2>2
    <3>3. \E m \in U \cup {z} : \A y \in U \cup {z} : m <= y
      <4>1. CASE lo <= z
        BY <3>1, <4>1
      <4>2. CASE z <= lo
        <5>1. \A y \in U \cup {z} : z <= y
          BY <3>1, <4>2
        <5> QED
          BY <5>1
      <4> QED
        BY <4>1, <4>2
    <3>4. \E m \in U \cup {z} : \A y \in U \cup {z} : m >= y
      <4>1. CASE hi >= z
        BY <3>2, <4>1
      <4>2. CASE z >= hi
        <5>1. \A y \in U \cup {z} : z >= y
          BY <3>2, <4>2
        <5> QED
          BY <5>1
      <4> QED
        BY <4>1, <4>2
    <3> QED
      BY Zenon, <3>3, <3>4
  <2> QED
    BY <2>1, <2>2
<1>3. T \in G
  <2> HIDE DEF G
  <2> QED
    BY Zenon, <1>1, <1>2, SetInduction
<1>4. /\ \E m \in T : \A y \in T : m <= y
      /\ \E m \in T : \A y \in T : m >= y
  BY <1>3
<1>5. Min(T) \in T /\ Min(T) <= x
  BY Zenon, <1>4 DEF Min
<1>6. Max(T) \in T /\ Max(T) >= x
  BY Zenon, <1>4 DEF Max
<1> QED
  BY Zenon, <1>5, <1>6

(* If every summand is one of some worths, the sum is between the sums of  *)
(* the least and of the greatest of them.                                  *)
LEMMA SumBetween ==
    ASSUME NEW S, IsFiniteSet(S), NEW f, NEW w,
           \A r \in S : w[r] \in SUBSET Nat /\ IsFiniteSet(w[r]) /\ f[r] \in w[r]
    PROVE  /\ SumFunctionOnSet(f, S) \in Nat
           /\ SumFunctionOnSet(f, S) >= SumFunctionOnSet([r \in S |-> Min(w[r])], S)
           /\ SumFunctionOnSet(f, S) <= SumFunctionOnSet([r \in S |-> Max(w[r])], S)
<1> DEFINE lo == [r \in S |-> Min(w[r])]
           hi == [r \in S |-> Max(w[r])]
<1>1. \A r \in S : /\ f[r] \in Nat /\ lo[r] \in Nat /\ hi[r] \in Nat
                   /\ lo[r] <= f[r] /\ f[r] <= hi[r]
  <2> SUFFICES ASSUME NEW r \in S
               PROVE  /\ f[r] \in Nat /\ Min(w[r]) \in Nat /\ Max(w[r]) \in Nat
                      /\ Min(w[r]) <= f[r] /\ f[r] <= Max(w[r])
    OBVIOUS
  <2> QED
    BY MinMax
<1> HIDE DEF lo, hi
<1>2. SumFunctionOnSet(lo, S) <= SumFunctionOnSet(f, S)
  BY <1>1, SumMonotone
<1>3. SumFunctionOnSet(f, S) <= SumFunctionOnSet(hi, S)
  BY <1>1, SumMonotone
<1>4. SumFunctionOnSet(f, S) \in Nat /\ SumFunctionOnSet(lo, S) \in Nat
  BY <1>1, SumType
<1> QED
  BY <1>2, <1>3, <1>4 DEF lo, hi

(* A sum of natural numbers is 0 only if each of them is.                  *)
LEMMA SumZero ==
    ASSUME NEW S, IsFiniteSet(S), NEW f, \A x \in S : f[x] \in Nat,
           SumFunctionOnSet(f, S) = 0, NEW x \in S
    PROVE  f[x] = 0
<1>1. SumFunctionOnSet(f, S) = f[x] + SumFunctionOnSet(f, S \ {x})
  BY SumRemove
<1>2. SumFunctionOnSet(f, S \ {x}) \in Nat
  <2>1. IsFiniteSet(S \ {x})
    BY FS_RemoveElement
  <2> QED
    BY <2>1, SumType
<1> QED
  BY <1>1, <1>2

(* What a resource counts for is a natural number, whatever its state.     *)
LEMMA WorthType ==
    ASSUME NEW r \in Resources, NEW state \in States(r) \cup {None}
    PROVE  Ones(r, state) \in Nat /\ Gb(r, state) \in Nat
<1>1. Ones(r, state) \in Nat
  BY DEF Ones
<1> SUFFICES ASSUME Ones(r, state) # 0 PROVE Gb(r, state) \in Nat
  BY Zenon, <1>1 DEF Gb
<1>2. state # None /\ state # Pending
  BY DEF Ones
<1>3. CASE r \in Nodes
  BY <1>3, MeasurementAssumption DEF Gb
<1>4. CASE r \in Instances
  BY <1>4, MeasurementAssumption DEF Gb
<1>5. CASE r \in Vscs
  <2>1. state.restoreSize = None \/ state.restoreSize \in Nat
    BY <1>2, <1>5, MeasurementAssumption DEF States
  <2>2. Gb(r, state) = IF state.restoreSize = None THEN 0 ELSE WholeGb(state.restoreSize)
    BY <1>5, MeasurementAssumption DEF Gb
  <2> QED
    BY <2>1, <2>2, WholeGbIs
<1>6. CASE r \in Pvcs
  <2>1. /\ state.size \in Nat
        /\ state.label \in LabelSizes => state.label \in Nat
    BY <1>2, <1>6, MeasurementAssumption DEF States
  <2>2. CASE r \in NfsPvcs
    <3> DEFINE s == IF state.label \in LabelSizes THEN state.label ELSE state.size
    <3>1. s \in Nat
      BY <2>1
    <3>2. Gb(r, state) = 3 * WholeGb(s)
      BY <1>6, <2>2, MeasurementAssumption DEF Gb
    <3> HIDE DEF s
    <3>3. WholeGb(s) \in Nat
      BY <3>1, WholeGbIs
    <3> QED
      BY <3>2, <3>3
  <2>3. CASE r \notin NfsPvcs
    <3>1. Gb(r, state) = WholeGb(state.size)
      BY <1>6, <2>3, MeasurementAssumption DEF Gb
    <3> QED
      BY <2>1, <3>1, WholeGbIs
  <2> QED
    BY <2>2, <2>3
<1> QED
  BY <1>3, <1>4, <1>5, <1>6 DEF Resources

(* The scans of the payload, one by one.                                   *)
LEMMA ScanMeasured ==
    ASSUME IInv, NEW id \in convertable
    PROVE  /\ id \in IDs /\ DOMAIN scans[id] = ListedBy(id)
           /\ Measures(EDP(id).edp, scans[id])
           /\ id # "node" => NoCompute(EDP(id).edp)
           /\ id = "node" => /\ EDP(id) = NodeEDP(scans["node"]) /\ NodeEDP(scans["node"]).ok
                             /\ ListOf(scans["node"], Nodes)
<1>1. id \in IDs /\ scans[id] # None /\ EDP(id).ok
  BY DEF convertable
<1>2. ListOf(scans[id], ListedBy(id))
  <2>1. \A r \in ListedBy(id) : r \in Resources
    BY <1>1, Scanners
  <2> QED
    BY <1>1, <2>1 DEF ListOf, IInv
<1>3. CASE id = "node"
  <2>1. EDP(id) = NodeEDP(scans["node"]) /\ ListedBy(id) = Nodes
    BY <1>3 DEF EDP, ListedBy
  <2> QED
    BY Zenon, <1>1, <1>2, <1>3, <2>1, NodeMeasured DEF ListOf
<1>4. CASE id = "pvc"
  <2>1. EDP(id) = PvcEDP(scans["pvc"]) /\ ListedBy(id) = Pvcs
    BY <1>4 DEF EDP, ListedBy
  <2> QED
    BY <1>1, <1>2, <1>4, <2>1, PvcMeasured DEF ListOf
<1>5. CASE id = "redis"
  <2>1. EDP(id) = RedisEDP(scans["redis"]) /\ ListedBy(id) = Instances
    BY <1>5 DEF EDP, ListedBy
  <2> QED
    BY <1>1, <1>2, <1>5, <2>1, RedisMeasured DEF ListOf
<1>6. CASE id = "vsc"
  <2>1. EDP(id) = VscEDP(scans["vsc"]) /\ ListedBy(id) = Vscs
    BY <1>6 DEF EDP, ListedBy
  <2> QED
    BY <1>1, <1>2, <1>6, <2>1, VscMeasured DEF ListOf
<1> QED
  BY <1>1, <1>3, <1>4, <1>5, <1>6, Scanners

(* The payload sums up the scans that were converted.                      *)
LEMMA Payload ==
    LET Of(id) == EDP(id).edp
        C == convertable
        sent == aggregateEDPMeasurements
    IN  /\ sent.vmTypes = UNION {Of(id).vmTypes : id \in C}
        /\ sent.cpus = SumFunctionOnSet([id \in C |-> Of(id).cpus], C)
        /\ sent.ram = SumFunctionOnSet([id \in C |-> Of(id).ram], C)
        /\ sent.sizeTotal = SumFunctionOnSet([id \in C |-> Of(id).sizeTotal], C)
        /\ sent.sizeRounded = SumFunctionOnSet([id \in C |-> Of(id).sizeRounded], C)
        /\ sent.count = SumFunctionOnSet([id \in C |-> Of(id).count], C)
<1> DEFINE C == convertable
           edp == [id \in C |-> EDP(id).edp]
           sent == aggregateEDPMeasurements
<1>1. /\ sent.vmTypes = UNION {edp[id].vmTypes : id \in DOMAIN edp}
      /\ sent.cpus = SumFunction([id \in DOMAIN edp |-> edp[id].cpus])
      /\ sent.ram = SumFunction([id \in DOMAIN edp |-> edp[id].ram])
      /\ sent.sizeTotal = SumFunction([id \in DOMAIN edp |-> edp[id].sizeTotal])
      /\ sent.sizeRounded = SumFunction([id \in DOMAIN edp |-> edp[id].sizeRounded])
      /\ sent.count = SumFunction([id \in DOMAIN edp |-> edp[id].count])
  BY Zenon DEF aggregateEDPMeasurements
<1>2. DOMAIN edp = C /\ \A id \in C : edp[id] = EDP(id).edp
  OBVIOUS
<1> HIDE DEF edp, C, sent
<1>3. /\ [id \in DOMAIN edp |-> edp[id].cpus] = [id \in C |-> EDP(id).edp.cpus]
      /\ [id \in DOMAIN edp |-> edp[id].ram] = [id \in C |-> EDP(id).edp.ram]
      /\ [id \in DOMAIN edp |-> edp[id].sizeTotal] = [id \in C |-> EDP(id).edp.sizeTotal]
      /\ [id \in DOMAIN edp |-> edp[id].sizeRounded] = [id \in C |-> EDP(id).edp.sizeRounded]
      /\ [id \in DOMAIN edp |-> edp[id].count] = [id \in C |-> EDP(id).edp.count]
  BY <1>2
<1>4. {edp[id].vmTypes : id \in DOMAIN edp} = {EDP(id).edp.vmTypes : id \in C}
  BY <1>2
<1> QED
  BY Zenon, <1>1, <1>3, <1>4 DEF SumFunction, C, sent

(* Rounding ("17 -> 32, 33 -> 64") never loses storage and adds less than  *)
(* the factor per volume, summed up over volumes of every kind.            *)
THEOREM RoundingStaysBounded == Spec => []RoundingIsBounded
<1>1. IInv => RoundingIsBounded
  <2> SUFFICES ASSUME IInv PROVE RoundingIsBounded
    OBVIOUS
  <2> DEFINE C == convertable
             tot == [id \in C |-> EDP(id).edp.sizeTotal]
             up == [id \in C |-> EDP(id).edp.sizeRounded]
             num == [id \in C |-> EDP(id).edp.count]
             sent == aggregateEDPMeasurements
  <2>1. /\ sent.sizeTotal = SumFunctionOnSet(tot, C)
        /\ sent.sizeRounded = SumFunctionOnSet(up, C)
        /\ sent.count = SumFunctionOnSet(num, C)
    BY Zenon, Payload
  <2>2. IsFiniteSet(C)
    <3>1. C \in SUBSET IDs
      BY DEF convertable
    <3> QED
      BY Zenon, <3>1, Scanners, FS_Subset
  <2>3. \A id \in C : /\ tot[id] \in Nat /\ up[id] \in Nat /\ num[id] \in Nat
                      /\ tot[id] <= up[id] /\ up[id] <= tot[id] + 31 * num[id]
                      /\ num[id] = 0 => tot[id] = 0
    BY Zenon, ScanMeasured DEF Measures
  <2> HIDE DEF C, tot, up, num, sent
  <2>4. SumFunctionOnSet(tot, C) <= SumFunctionOnSet(up, C)
    BY <2>2, <2>3, SumMonotone
  <2>5. SumFunctionOnSet(up, C) <= SumFunctionOnSet(tot, C) + 31 * SumFunctionOnSet(num, C)
    BY <2>2, <2>3, SumWithin
  <2>6. /\ SumFunctionOnSet(tot, C) \in Nat /\ SumFunctionOnSet(up, C) \in Nat
        /\ SumFunctionOnSet(num, C) \in Nat
    BY <2>2, <2>3, SumType
  <2>7. ASSUME SumFunctionOnSet(num, C) = 0 PROVE SumFunctionOnSet(tot, C) = 0
    <3>1. \A id \in C : num[id] = 0
      BY <2>2, <2>3, <2>7, SumZero
    <3>2. SumFunctionOnSet(tot, C) = Cardinality(C) * 0
      BY <2>2, <2>3, <3>1, SumConstant
    <3>3. Cardinality(C) * 0 = 0
      BY <2>2, FS_CardinalityType
    <3> QED
      BY <3>2, <3>3
  <2>8. /\ sent.sizeTotal <= sent.sizeRounded
        /\ sent.count > 0 => sent.sizeRounded < sent.sizeTotal + storageRoundingFactor * sent.count
        /\ sent.count = 0 => sent.sizeRounded = 0
    BY <2>1, <2>4, <2>5, <2>6, <2>7 DEF storageRoundingFactor
  <2> QED
    BY <2>8 DEF RoundingIsBounded, sent
<1> QED
  BY <1>1, Invariance, PTL

(* What the payload says of nodes is what the node scan says.              *)
LEMMA NodesOfPayload ==
    ASSUME IInv
    PROVE  LET sent == aggregateEDPMeasurements
               node == NodeEDP(scans["node"]).edp
           IN  IF "node" \in convertable
               THEN sent.vmTypes = node.vmTypes /\ sent.cpus = node.cpus /\ sent.ram = node.ram
               ELSE sent.vmTypes = {} /\ sent.cpus = 0 /\ sent.ram = 0
<1> DEFINE C == convertable
           D == C \cap {"node"}
           cpu == [id \in C |-> EDP(id).edp.cpus]
           mem == [id \in C |-> EDP(id).edp.ram]
           sent == aggregateEDPMeasurements
           node == NodeEDP(scans["node"]).edp
<1>1. /\ sent.vmTypes = UNION {EDP(id).edp.vmTypes : id \in C}
      /\ sent.cpus = SumFunctionOnSet(cpu, C)
      /\ sent.ram = SumFunctionOnSet(mem, C)
  BY Payload
<1>2. IsFiniteSet(C)
  <2>1. C \in SUBSET IDs
    BY DEF convertable
  <2> QED
    BY Zenon, <2>1, Scanners, FS_Subset
<1>3. \A id \in C \ {"node"} : EDP(id).edp.vmTypes = {} /\ cpu[id] = 0 /\ mem[id] = 0
  BY ScanMeasured DEF NoCompute
<1>4. ASSUME "node" \in C
      PROVE  /\ EDP("node").edp = node /\ cpu["node"] = node.cpus /\ mem["node"] = node.ram
             /\ node.cpus \in Nat /\ node.ram \in Nat
  <2>1. EDP("node") = NodeEDP(scans["node"]) /\ ListOf(scans["node"], Nodes)
    BY <1>4, ScanMeasured
  <2> QED
    BY Zenon, <1>4, <2>1, NodeMeasured DEF Explained
<1> HIDE DEF C, cpu, mem, sent, node
<1>5. \A id \in C : cpu[id] \in Nat /\ mem[id] \in Nat
  BY <1>3, <1>4
<1>6. SumFunctionOnSet(cpu, C) = SumFunctionOnSet(cpu, D)
  BY <1>2, <1>3, <1>5, SumSupport
<1>7. SumFunctionOnSet(mem, C) = SumFunctionOnSet(mem, D)
  BY <1>2, <1>3, <1>5, SumSupport
<1>8. CASE "node" \in C
  <2>1. D = {"node"}
    BY <1>8
  <2>2. SumFunctionOnSet(cpu, {"node"}) = Cardinality({"node"}) * node.cpus
    BY Zenon, <1>4, <1>8, FS_Singleton, SumConstant
  <2>3. SumFunctionOnSet(mem, {"node"}) = Cardinality({"node"}) * node.ram
    BY Zenon, <1>4, <1>8, FS_Singleton, SumConstant
  <2>4. Cardinality({"node"}) = 1
    BY FS_Singleton
  <2>5. 1 * node.cpus = node.cpus /\ 1 * node.ram = node.ram
    BY <1>4, <1>8
  <2>6. sent.vmTypes = node.vmTypes
    BY <1>1, <1>3, <1>4, <1>8
  <2> QED
    BY Zenon, <1>1, <1>6, <1>7, <1>8, <2>1, <2>2, <2>3, <2>4, <2>5, <2>6 DEF C, sent, node
<1>9. CASE "node" \notin C
  <2>1. D = {}
    BY <1>9
  <2>2. sent.vmTypes = {}
    BY <1>1, <1>3, <1>9
  <2> QED
    BY <1>1, <1>6, <1>7, <1>9, <2>1, <2>2, SumEmpty DEF C, sent, node
<1> QED
  BY <1>8, <1>9

(* The CPUs and the memory of the payload are those of the machines it     *)
(* lists by type, although both are counted separately and the label of a  *)
(* node may be in any case.                                                *)
THEOREM MachinesStayExplained == Spec => []MachinesExplainCompute
<1>1. IInv => MachinesExplainCompute
  <2> SUFFICES ASSUME IInv PROVE MachinesExplainCompute
    OBVIOUS
  <2> DEFINE sent == aggregateEDPMeasurements
             V == sent.vmTypes
             cpu == [vm \in V |-> vm.count * Machines[vm.name].CpuCores]
             mem == [vm \in V |-> vm.count * Machines[vm.name].Memory]
  <2>1. /\ \A vm \in V : vm.name \in DOMAIN Machines
        /\ sent.cpus = SumFunctionOnSet(cpu, V)
        /\ sent.ram = SumFunctionOnSet(mem, V)
    <3>1. CASE "node" \in convertable
      <4> DEFINE node == NodeEDP(scans["node"]).edp
      <4>1. Explained(node)
        BY Zenon, <3>1, ScanMeasured, NodeMeasured
      <4>2. V = node.vmTypes /\ sent.cpus = node.cpus /\ sent.ram = node.ram
        BY <3>1, NodesOfPayload
      <4> HIDE DEF sent, node
      <4> QED
        BY <4>1, <4>2 DEF Explained
    <3>2. CASE "node" \notin convertable
      <4>1. V = {} /\ sent.cpus = 0 /\ sent.ram = 0
        BY <3>2, NodesOfPayload
      <4> HIDE DEF sent, cpu, mem
      <4> QED
        BY <4>1, SumEmpty
    <3> QED
      BY <3>1, <3>2
  <2> HIDE DEF sent
  <2>2. DOMAIN cpu = V /\ DOMAIN mem = V
    OBVIOUS
  <2> QED
    BY <2>1, <2>2 DEF MachinesExplainCompute, SumFunction, sent
<1> QED
  BY <1>1, Invariance, PTL

(* The state in which a resource was listed.                               *)
Listed(r) == scans[CHOOSE id \in IDs : r \in ListedBy(id)][r]

(* A resource is listed by one scanner only.                               *)
LEMMA ListedOnce ==
    ASSUME NEW id \in IDs, NEW r \in ListedBy(id)
    PROVE  Listed(r) = scans[id][r]
<1>1. \A other \in IDs : r \in ListedBy(other) => other = id
  BY Scanners
<1>2. (CHOOSE other \in IDs : r \in ListedBy(other)) = id
  BY <1>1
<1> QED
  BY Zenon, <1>2 DEF Listed

(* The worths of a resource during a run are finitely many numbers, and    *)
(* that of the state in which it was listed is one of them.                *)
LEMMA WorthsSeen ==
    ASSUME IInv, NEW r \in Resources
    PROVE  /\ {Ones(r, state) : state \in seen[r]} \in SUBSET Nat
           /\ IsFiniteSet({Ones(r, state) : state \in seen[r]})
           /\ {Gb(r, state) : state \in seen[r]} \in SUBSET Nat
           /\ IsFiniteSet({Gb(r, state) : state \in seen[r]})
<1> DEFINE A == {Ones(r, state) : state \in seen[r]}
           B == {Gb(r, state) : state \in seen[r]}
           ones == [state \in seen[r] |-> Ones(r, state)]
           gbs == [state \in seen[r] |-> Gb(r, state)]
<1>1. IsFiniteSet(seen[r]) /\ \A state \in seen[r] : state \in States(r) \cup {None}
  BY DEF IInv
<1>2. ones \in Surjection(seen[r], A) /\ gbs \in Surjection(seen[r], B)
  BY DEF Surjection
<1>3. A \in SUBSET Nat /\ B \in SUBSET Nat
  BY <1>1, WorthType
<1> HIDE DEF A, B, ones, gbs
<1>4. IsFiniteSet(A) /\ IsFiniteSet(B)
  BY <1>1, <1>2, FS_Surjection
<1> QED
  BY <1>3, <1>4 DEF A, B

(* What is converted is listed, in a state of the run.                     *)
LEMMA ConvertedListed ==
    ASSUME IInv
    PROVE  /\ IsFiniteSet(convertable) /\ IsFiniteSet(Converted)
           /\ \A r \in Converted : r \in Resources /\ Listed(r) \in seen[r]
           /\ \A id \in convertable : /\ id \in IDs /\ IsFiniteSet(ListedBy(id))
                                      /\ \A r \in ListedBy(id) : r \in Converted
<1>1. \A id \in convertable : id \in IDs /\ scans[id] # None
  BY DEF convertable
<1>2. IsFiniteSet(convertable)
  <2>1. convertable \in SUBSET IDs
    BY <1>1
  <2> QED
    BY Zenon, <2>1, Scanners, FS_Subset
<1>3. \A r \in Converted : \E id \in convertable : r \in ListedBy(id)
  BY DEF Converted
<1>4. \A id \in convertable : \A r \in ListedBy(id) : r \in Converted
  BY DEF Converted
<1>5. \A r \in Converted : r \in Resources /\ Listed(r) \in seen[r]
  <2> SUFFICES ASSUME NEW r \in Converted PROVE r \in Resources /\ Listed(r) \in seen[r]
    OBVIOUS
  <2>1. PICK id \in convertable : r \in ListedBy(id)
    BY <1>3
  <2>2. id \in IDs /\ scans[id] # None
    BY <1>1
  <2>3. Listed(r) = scans[id][r] /\ r \in Resources
    BY <2>1, <2>2, ListedOnce, Scanners
  <2> QED
    BY <2>1, <2>2, <2>3 DEF IInv
<1>6. IsFiniteSet(Converted)
  <2>1. Converted \in SUBSET Resources
    BY <1>5
  <2> QED
    BY <2>1, MeasurementAssumption, FS_Subset
<1> QED
  BY <1>1, <1>2, <1>4, <1>5, <1>6, Scanners

(* If each scan contributes the sum over what it lists, the payload has    *)
(* the sum over all that is converted: no resource is listed twice.        *)
LEMMA SumOverScans ==
    ASSUME IInv, NEW f, NEW amount, NEW X,
           \A r \in Converted : f[r] \in Nat,
           \A id \in convertable : amount[id] = SumFunctionOnSet(f, ListedBy(id) \ X)
    PROVE  SumFunctionOnSet(amount, convertable) = SumFunctionOnSet(f, Converted \ X)
<1> DEFINE C == convertable
           part == [id \in C |-> ListedBy(id) \ X]
           sums == [id \in C |-> SumFunctionOnSet(f, part[id])]
<1>1. IsFiniteSet(C) /\ \A id \in C : id \in IDs /\ \A r \in ListedBy(id) : r \in Converted
  BY ConvertedListed
<1>2. \A id \in C : IsFiniteSet(part[id]) /\ \A r \in part[id] : f[r] \in Nat
  BY Zenon, <1>1, Scanners, FS_Difference
<1>3. \A id1, id2 \in C : id1 # id2 => part[id1] \cap part[id2] = {}
  BY <1>1, Scanners
<1>4. UNION {part[id] : id \in C} = Converted \ X
  BY DEF Converted
<1>5. \A id \in C : amount[id] = sums[id] /\ sums[id] = SumFunctionOnSet(f, part[id])
  OBVIOUS
<1> HIDE DEF C, part
<1>6. SumFunctionOnSet(f, UNION {part[id] : id \in C}) = SumFunctionOnSet(sums, C)
  BY <1>1, <1>2, <1>3, SumPartition
<1> HIDE DEF sums
<1>7. \A id \in C : sums[id] \in Nat
  BY <1>2, <1>5, SumType
<1>8. SumFunctionOnSet(sums, C) = SumFunctionOnSet(amount, C)
  BY <1>1, <1>5, <1>7, SumEqual
<1> QED
  BY Zenon, <1>4, <1>6, <1>8 DEF C

(* The storage that is sent is between the least and the most the volumes  *)
(* of the payload were worth during the run.                               *)
THEOREM StorageIsOfTheRun == Spec => []StorageOfTheRun
<1>1. IInv => StorageOfTheRun
  <2> SUFFICES ASSUME IInv PROVE StorageOfTheRun
    OBVIOUS
  <2> DEFINE C == convertable
             S == Converted
             f == [r \in Resources |-> Gb(r, Listed(r))]
             w == [r \in Resources |-> {Gb(r, state) : state \in seen[r]}]
             tot == [id \in C |-> EDP(id).edp.sizeTotal]
             sent == aggregateEDPMeasurements
  <2>1. sent.sizeTotal = SumFunctionOnSet(tot, C)
    BY Payload
  <2>2. \A r \in S : /\ r \in Resources /\ f[r] \in w[r]
                     /\ w[r] \in SUBSET Nat /\ IsFiniteSet(w[r])
    BY Zenon, ConvertedListed, WorthsSeen
  <2>3. ASSUME NEW id \in C PROVE tot[id] = SumFunctionOnSet(f, ListedBy(id) \ {})
    <3> DEFINE list == scans[id]
               v == Worths(list)
    <3>1. id \in IDs /\ DOMAIN list = ListedBy(id) /\ Measures(EDP(id).edp, list)
      BY ScanMeasured
    <3>2. tot[id] = SumFunctionOnSet(v, ListedBy(id))
      BY <3>1 DEF Measures
    <3>3. \A r \in ListedBy(id) : v[r] = f[r] /\ f[r] \in Nat
      <4> SUFFICES ASSUME NEW r \in ListedBy(id) PROVE v[r] = f[r] /\ f[r] \in Nat
        OBVIOUS
      <4>1. Listed(r) = list[r] /\ r \in S
        BY <3>1, ListedOnce, ConvertedListed
      <4>2. f[r] = Gb(r, list[r]) /\ f[r] \in Nat
        BY Zenon, <2>2, <4>1
      <4> QED
        BY <3>1, <4>2 DEF Worths
    <3>4. IsFiniteSet(ListedBy(id))
      BY <3>1, Scanners
    <3> HIDE DEF v, f, tot
    <3>5. SumFunctionOnSet(f, ListedBy(id)) = SumFunctionOnSet(v, ListedBy(id))
      BY <3>3, <3>4, SumEqual
    <3>6. ListedBy(id) \ {} = ListedBy(id)
      OBVIOUS
    <3> QED
      BY <3>2, <3>5, <3>6
  <2> HIDE DEF f, tot
  <2>4. SumFunctionOnSet(tot, C) = SumFunctionOnSet(f, Converted \ {})
    <3>1. \A r \in S : f[r] \in Nat
      <4> HIDE DEF w
      <4> QED
        BY <2>2
    <3> QED
      BY Zenon, <2>3, <3>1, SumOverScans
  <2>5. Converted \ {} = S
    OBVIOUS
  <2>6. /\ SumFunctionOnSet(f, S) >= SumFunctionOnSet([r \in S |-> Min(w[r])], S)
        /\ SumFunctionOnSet(f, S) <= SumFunctionOnSet([r \in S |-> Max(w[r])], S)
    <3>1. IsFiniteSet(S)
      BY ConvertedListed
    <3> HIDE DEF w, S
    <3> QED
      BY Zenon, <2>2, <3>1, SumBetween
  <2>7. /\ [r \in S |-> Min(w[r])] = [r \in S |-> Min({Gb(r, state) : state \in seen[r]})]
        /\ [r \in S |-> Max(w[r])] = [r \in S |-> Max({Gb(r, state) : state \in seen[r]})]
    <3>1. \A r \in S : w[r] = {Gb(r, state) : state \in seen[r]}
      BY Zenon, <2>2
    <3> HIDE DEF w
    <3> QED
      BY Zenon, <3>1
  <2> HIDE DEF w, S, sent
  <2>8. sent.sizeTotal = SumFunctionOnSet(f, S)
    BY <2>1, <2>4, <2>5
  <2>9. WithinRun(sent.sizeTotal, S, Gb)
    BY Zenon, <2>6, <2>7, <2>8 DEF WithinRun, SumFunction
  <2> QED
    BY <2>9 DEF StorageOfTheRun, sent, S
<1> QED
  BY <1>1, Invariance, PTL

(* Whatever changes in the cluster while it is scanned: in what a payload  *)
(* covers, a resource that was there all the time is counted once, and one *)
(* that was never there is not.                                            *)
THEOREM CountingIsOnce == Spec => []CountedOnce
<1>1. IInv => CountedOnce
  <2> SUFFICES ASSUME IInv PROVE CountedOnce
    OBVIOUS
  <2> DEFINE C == convertable
             f == [r \in Resources |-> Ones(r, Listed(r))]
             w == [r \in Resources |-> {Ones(r, state) : state \in seen[r]}]
             num == [id \in C |-> EDP(id).edp.count]
             sent == aggregateEDPMeasurements
             V == sent.vmTypes
             vms == [vm \in V |-> vm.count]
  <2>1. sent.count = SumFunctionOnSet(num, C)
    BY Payload
  <2>2. \A r \in Converted : /\ r \in Resources /\ f[r] \in w[r]
                             /\ w[r] \in SUBSET Nat /\ IsFiniteSet(w[r])
    BY Zenon, ConvertedListed, WorthsSeen
  <2>3. \A r \in Converted : f[r] \in Nat
    <3> HIDE DEF f, w
    <3> QED
      BY <2>2
  <2>4. ASSUME NEW id \in C, NEW r \in ListedBy(id)
        PROVE  Counts(scans[id])[r] = f[r] /\ f[r] \in Nat
    <3>1. id \in IDs /\ DOMAIN scans[id] = ListedBy(id)
      BY ScanMeasured
    <3>2. Listed(r) = scans[id][r] /\ r \in Converted /\ r \in Resources
      BY <3>1, ListedOnce, ConvertedListed
    <3>3. f[r] = Ones(r, scans[id][r]) /\ f[r] \in Nat
      BY Zenon, <2>3, <3>2
    <3> QED
      BY <3>1, <3>3 DEF Counts
  <2>5. ASSUME NEW id \in C PROVE num[id] = SumFunctionOnSet(f, ListedBy(id) \ Nodes)
    <3> DEFINE v == Counts(scans[id])
               T == ListedBy(id) \ Nodes
    <3>1. /\ id \in IDs /\ DOMAIN scans[id] = ListedBy(id)
          /\ Measures(EDP(id).edp, scans[id])
      BY ScanMeasured
    <3>2. num[id] = SumFunctionOnSet(v, T)
      BY <3>1 DEF Measures
    <3>3. \A r \in T : v[r] = f[r] /\ f[r] \in Nat
      BY <2>4
    <3>4. IsFiniteSet(T)
      BY Zenon, <3>1, Scanners, FS_Difference
    <3> HIDE DEF v, f, num, T
    <3>5. SumFunctionOnSet(f, T) = SumFunctionOnSet(v, T)
      BY <3>3, <3>4, SumEqual
    <3> QED
      BY <3>2, <3>5 DEF T
  <2>6. SumFunctionOnSet(vms, V) = SumFunctionOnSet(f, Converted \cap Nodes)
    <3>1. CASE "node" \in C
      <4> DEFINE list == scans["node"]
                 v == Counts(list)
      <4>1. /\ NodeEDP(list).ok /\ ListOf(list, Nodes)
            /\ V = NodeEDP(list).edp.vmTypes
        BY <3>1, ScanMeasured, NodesOfPayload
      <4>2. SumFunctionOnSet(vms, V) = SumFunctionOnSet(v, Nodes)
        BY <4>1, NodeMeasured
      <4>3. ListedBy("node") = Nodes
        BY DEF ListedBy
      <4>4. \A r \in Nodes : v[r] = f[r] /\ f[r] \in Nat
        BY <2>4, <3>1, <4>3
      <4>5. Converted \cap Nodes = Nodes /\ IsFiniteSet(Nodes)
        BY <3>1, <4>3, ConvertedListed, Kinds
      <4> HIDE DEF v, f, vms, V
      <4>6. SumFunctionOnSet(f, Nodes) = SumFunctionOnSet(v, Nodes)
        BY <4>4, <4>5, SumEqual
      <4> QED
        BY <4>2, <4>5, <4>6
    <3>2. CASE "node" \notin C
      <4>1. V = {}
        BY <3>2, NodesOfPayload
      <4>2. Converted \cap Nodes = {}
        <5>1. \A id \in C : id \in IDs /\ id # "node"
          BY <3>2, ConvertedListed
        <5>2. Nodes = ListedBy("node") /\ "node" \in IDs
          BY Scanners DEF ListedBy
        <5>3. \A id \in C : ListedBy(id) \cap Nodes = {}
          BY <5>1, <5>2, Scanners
        <5> QED
          BY <5>3 DEF Converted
      <4> HIDE DEF f, vms, V
      <4> QED
        BY Zenon, <4>1, <4>2, SumEmpty
    <3> QED
      BY <3>1, <3>2
  <2> HIDE DEF f, num
  <2>7. SumFunctionOnSet(num, C) = SumFunctionOnSet(f, Converted \ Nodes)
    BY Zenon, <2>3, <2>5, SumOverScans
  <2>8. ASSUME NEW S \in SUBSET Converted
        PROVE  WithinRun(SumFunctionOnSet(f, S), S, Ones)
    <3>1. IsFiniteSet(S)
      BY ConvertedListed, FS_Subset
    <3>2. \A r \in S : w[r] = {Ones(r, state) : state \in seen[r]}
      BY Zenon, <2>2
    <3> HIDE DEF w
    <3>3. /\ SumFunctionOnSet(f, S) >= SumFunctionOnSet([r \in S |-> Min(w[r])], S)
          /\ SumFunctionOnSet(f, S) <= SumFunctionOnSet([r \in S |-> Max(w[r])], S)
      BY Zenon, <2>2, <3>1, SumBetween
    <3>4. /\ [r \in S |-> Min(w[r])] = [r \in S |-> Min({Ones(r, state) : state \in seen[r]})]
          /\ [r \in S |-> Max(w[r])] = [r \in S |-> Max({Ones(r, state) : state \in seen[r]})]
      BY Zenon, <3>2
    <3> QED
      BY Zenon, <3>3, <3>4 DEF WithinRun, SumFunction
  <2>9. WithinRun(sent.count, Converted \ Nodes, Ones)
    <3>1. WithinRun(SumFunctionOnSet(f, Converted \ Nodes), Converted \ Nodes, Ones)
      BY <2>8
    <3> HIDE DEF sent, C
    <3> QED
      BY <2>1, <2>7, <3>1
  <2>10. WithinRun(SumFunction(vms), Converted \cap Nodes, Ones)
    <3>1. WithinRun(SumFunctionOnSet(f, Converted \cap Nodes), Converted \cap Nodes, Ones)
      BY <2>8
    <3>2. DOMAIN vms = V
      OBVIOUS
    <3> HIDE DEF vms, V
    <3> QED
      BY <2>6, <3>1, <3>2 DEF SumFunction
  <2> QED
    BY <2>9, <2>10 DEF CountedOnce
<1> QED
  BY <1>1, Invariance, PTL
=============================================================================
