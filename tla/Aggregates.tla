----------------------------- MODULE Aggregates -----------------------------
(***************************************************************************)
(* Facts about what the ledger's queries compute of a set of rows: the sum *)
(* of their values (SumFunctionOnSet and SumFunction of module Functions)  *)
(* and the value at a rank (a median, a percentile).                       *)
(*                                                                         *)
(* The sum is defined by a recursive function over the subsets of a set.   *)
(* What it computes is shown by taking a smallest subset for which a claim *)
(* fails: the strict subsets of a finite set are well-founded.             *)
(***************************************************************************)
EXTENDS Integers, Functions, FiniteSetTheorems, WellFoundedInduction, TLAPS

\* The element the sum takes out first, and the recursive function it is defined by.
Pick(s) == CHOOSE x \in s : TRUE

Iterates(f, S, g) ==
    g = [s \in SUBSET S |-> IF s = {} THEN 0 ELSE f[Pick(s)] + g[s \ {Pick(s)}]]

\* The element a nonempty set is taken apart at.
LEMMA PickIn == ASSUME NEW s, s # {} PROVE Pick(s) \in s
BY DEF Pick

\* Of the subsets of a finite set with some property, one is smallest.
LEMMA SmallestSubset ==
  ASSUME NEW S, IsFiniteSet(S), NEW B \in SUBSET SUBSET S, B # {}
  PROVE  \E T \in B : \A U \in B : U \subseteq T => U = T
<1>1. IsWellFoundedOn(StrictSubsetOrdering(S), SUBSET S)
  BY FS_StrictSubsetOrderingWellFounded, FS_FiniteSubsetsOfFinite
<1>2. PICK T \in B : \A U \in B : <<U, T>> \notin StrictSubsetOrdering(S)
  BY <1>1, WFMin
<1>3. QED
  BY <1>2 DEF StrictSubsetOrdering

-----------------------------------------------------------------------------
(* The sum is well-defined.                                                *)

\* SumFunctionOnSet takes the value at S of such a function.
LEMMA SumUnfold ==
  ASSUME NEW f, NEW S
  PROVE  SumFunctionOnSet(f, S) = (CHOOSE g : Iterates(f, S, g))[S]
BY DEF SumFunctionOnSet, FoldFunctionOnSet, MapThenFoldSet, Iterates, Pick

\* One step of it.
LEMMA IteratesAt ==
  ASSUME NEW f, NEW S, NEW g, Iterates(f, S, g), NEW s \in SUBSET S
  PROVE  g[s] = IF s = {} THEN 0 ELSE f[Pick(s)] + g[s \ {Pick(s)}]
BY DEF Iterates

\* Over two sets, it is the same function.
LEMMA IteratesAgree ==
  ASSUME NEW f, NEW S, IsFiniteSet(S), NEW T \in SUBSET S,
         NEW g, Iterates(f, S, g), NEW h, Iterates(f, T, h)
  PROVE  \A u \in SUBSET T : g[u] = h[u]
<1> DEFINE Bad == {u \in SUBSET T : g[u] # h[u]}
<1> SUFFICES ASSUME Bad # {} PROVE FALSE
  OBVIOUS
<1>1. Bad \in SUBSET SUBSET S
  OBVIOUS
<1>2. \A u : u \in Bad <=> u \in SUBSET T /\ g[u] # h[u]
  OBVIOUS
<1> HIDE DEF Bad
<1>3. PICK u \in Bad : \A v \in Bad : v \subseteq u => v = u
  BY <1>1, SmallestSubset
<1>4. u \in SUBSET T /\ u \in SUBSET S /\ g[u] # h[u]
  BY <1>2
<1>5. g[u] = IF u = {} THEN 0 ELSE f[Pick(u)] + g[u \ {Pick(u)}]
  BY <1>4, IteratesAt
<1>6. h[u] = IF u = {} THEN 0 ELSE f[Pick(u)] + h[u \ {Pick(u)}]
  BY <1>4, IteratesAt
<1>7. u # {} /\ g[u \ {Pick(u)}] # h[u \ {Pick(u)}]
  BY <1>4, <1>5, <1>6
<1>8. u \ {Pick(u)} \in Bad
  BY <1>2, <1>4, <1>7
<1>9. QED
  BY <1>3, <1>7, <1>8, PickIn

\* There is one over every finite set: over a smallest set without, it could be made
\* of those over the smaller sets.
LEMMA IteratesExists ==
  ASSUME NEW f, NEW S, IsFiniteSet(S)
  PROVE  \E g : Iterates(f, S, g)
<1> DEFINE Has(T) == \E g : Iterates(f, T, g)
           Bad == {T \in SUBSET S : ~Has(T)}
           It(T) == CHOOSE g : Iterates(f, T, g)
<1>1. \A T : Has(T) => Iterates(f, T, It(T))
  OBVIOUS
<1>2. Has(S) => \E g : Iterates(f, S, g)
  OBVIOUS
<1>3. \A T, g : Iterates(f, T, g) => Has(T)
  OBVIOUS
<1> HIDE DEF Has, It
<1> SUFFICES ASSUME Bad # {} PROVE FALSE
  BY <1>2
<1>4. Bad \in SUBSET SUBSET S
  OBVIOUS
<1>5. \A T : T \in Bad <=> T \in SUBSET S /\ ~Has(T)
  OBVIOUS
<1> HIDE DEF Bad
<1>6. PICK T \in Bad : \A U \in Bad : U \subseteq T => U = T
  BY <1>4, SmallestSubset
<1>7. T \in SUBSET S /\ ~Has(T) /\ IsFiniteSet(T)
  BY <1>5, <1>6, FS_Subset
<1>8. \A u \in SUBSET T : u # T => Iterates(f, u, It(u))
  BY <1>1, <1>5, <1>6, <1>7
<1> DEFINE g == [s \in SUBSET T |-> IF s = {} THEN 0
                                    ELSE f[Pick(s)] + It(s \ {Pick(s)})[s \ {Pick(s)}]]
<1>9. \A s \in SUBSET T : g[s] = IF s = {} THEN 0
                                   ELSE f[Pick(s)] + It(s \ {Pick(s)})[s \ {Pick(s)}]
  OBVIOUS
<1>10. g = [s \in SUBSET T |-> g[s]]
  OBVIOUS
<1> HIDE DEF g
<1>11. ASSUME NEW u \in SUBSET T, u # T
       PROVE  g[u] = It(u)[u]
  <2>1. Iterates(f, u, It(u)) /\ u \in SUBSET u /\ IsFiniteSet(u)
    BY <1>7, <1>8, <1>11, FS_Subset
  <2>2. It(u)[u] = IF u = {} THEN 0 ELSE f[Pick(u)] + It(u)[u \ {Pick(u)}]
    BY <2>1, IteratesAt
  <2>3. ASSUME NEW v \in SUBSET u, v # u
        PROVE  It(u)[v] = It(v)[v]
    <3>1. Iterates(f, v, It(v)) /\ v \in SUBSET v
      BY <1>8, <2>3
    <3>2. PICK i, j : i = It(u) /\ j = It(v)
      OBVIOUS
    <3>3. \A w \in SUBSET v : i[w] = j[w]
      BY <2>1, <3>1, <3>2, IteratesAgree
    <3>4. QED
      BY <3>1, <3>2, <3>3
  <2>4. u # {} => It(u)[u \ {Pick(u)}] = It(u \ {Pick(u)})[u \ {Pick(u)}]
    BY <2>3, PickIn
  <2>5. QED
    BY <1>9, <2>2, <2>4
<1>12. ASSUME NEW s \in SUBSET T
       PROVE  g[s] = IF s = {} THEN 0 ELSE f[Pick(s)] + g[s \ {Pick(s)}]
  <2>1. s # {} => s \ {Pick(s)} \in SUBSET T /\ s \ {Pick(s)} # T
    BY PickIn
  <2>2. QED
    BY <1>9, <1>11, <2>1
<1>13. Iterates(f, T, g)
  <2>1. [s \in SUBSET T |-> g[s]]
           = [s \in SUBSET T |-> IF s = {} THEN 0 ELSE f[Pick(s)] + g[s \ {Pick(s)}]]
    BY <1>12
  <2>2. QED
    BY <1>10, <2>1 DEF Iterates
<1>14. QED
  BY <1>3, <1>7, <1>13

\* Its value at any subset is the sum over that subset.
LEMMA SumIterates ==
  ASSUME NEW f, NEW S, IsFiniteSet(S), NEW g, Iterates(f, S, g), NEW T \in SUBSET S
  PROVE  g[T] = SumFunctionOnSet(f, T)
<1> DEFINE h == CHOOSE i : Iterates(f, T, i)
<1>1. \E i : Iterates(f, T, i)
  BY FS_Subset, IteratesExists
<1>2. Iterates(f, T, h)
  BY <1>1
<1>3. h[T] = SumFunctionOnSet(f, T)
  BY SumUnfold
<1> HIDE DEF h
<1>4. g[T] = h[T]
  BY <1>2, IteratesAgree
<1>5. QED
  BY <1>3, <1>4

\* The sum as it is computed.
LEMMA SumSteps ==
  ASSUME NEW f, NEW S, IsFiniteSet(S)
  PROVE  SumFunctionOnSet(f, S)
            = IF S = {} THEN 0 ELSE f[Pick(S)] + SumFunctionOnSet(f, S \ {Pick(S)})
<1>1. PICK g : Iterates(f, S, g)
  BY IteratesExists
<1>2. S \in SUBSET S /\ S \ {Pick(S)} \in SUBSET S
  OBVIOUS
<1>3. /\ g[S] = SumFunctionOnSet(f, S)
      /\ g[S \ {Pick(S)}] = SumFunctionOnSet(f, S \ {Pick(S)})
  BY <1>1, <1>2, SumIterates
<1>4. QED
  BY <1>1, <1>2, <1>3, IteratesAt

\* Nothing adds up to 0.
LEMMA SumEmpty == ASSUME NEW f PROVE SumFunctionOnSet(f, {}) = 0
BY FS_EmptySet, SumSteps

-----------------------------------------------------------------------------
(* What can be said of it.                                                 *)

\* A set of subsets that has the empty one and is closed under adding an element
\* has the whole set: induction, for a claim written as a set of subsets.
LEMMA FromEmptySet ==
  ASSUME NEW S, IsFiniteSet(S), NEW P \in SUBSET SUBSET S, {} \in P,
         \A T \in P : \A x \in S \ T : T \cup {x} \in P
  PROVE  S \in P
<1> SUFFICES ASSUME S \notin P PROVE FALSE
  OBVIOUS
<1> DEFINE Bad == (SUBSET S) \ P
<1>1. Bad # {} /\ Bad \in SUBSET SUBSET S
  OBVIOUS
<1>2. \A T : T \in Bad <=> T \in SUBSET S /\ T \notin P
  OBVIOUS
<1> HIDE DEF Bad
<1>3. PICK T \in Bad : \A U \in Bad : U \subseteq T => U = T
  BY <1>1, SmallestSubset
<1>4. PICK x \in T : TRUE
  <2>1. T # {}
    BY <1>2, <1>3
  <2>2. QED
    BY <2>1
<1>5. T \ {x} \in P
  BY <1>2, <1>3, <1>4
<1>6. (T \ {x}) \cup {x} = T
  BY <1>4
<1>7. QED
  BY <1>2, <1>4, <1>5, <1>6

\* Natural numbers add up to one.
LEMMA SumNat ==
  ASSUME NEW f, NEW S, IsFiniteSet(S), \A x \in S : f[x] \in Nat
  PROVE  SumFunctionOnSet(f, S) \in Nat
<1> DEFINE Bad == {T \in SUBSET S : SumFunctionOnSet(f, T) \notin Nat}
<1> SUFFICES ASSUME Bad # {} PROVE FALSE
  OBVIOUS
<1>1. Bad \in SUBSET SUBSET S
  OBVIOUS
<1>2. \A T : T \in Bad <=> T \in SUBSET S /\ SumFunctionOnSet(f, T) \notin Nat
  OBVIOUS
<1> HIDE DEF Bad
<1>3. PICK T \in Bad : \A U \in Bad : U \subseteq T => U = T
  BY <1>1, SmallestSubset
<1>4. T \in SUBSET S /\ IsFiniteSet(T)
  BY <1>2, FS_Subset
<1>5. SumFunctionOnSet(f, T)
         = IF T = {} THEN 0 ELSE f[Pick(T)] + SumFunctionOnSet(f, T \ {Pick(T)})
  BY <1>4, SumSteps
<1>6. T # {} /\ Pick(T) \in T
  BY <1>2, <1>5, PickIn
<1>7. SumFunctionOnSet(f, T \ {Pick(T)}) \in Nat
  BY <1>2, <1>3, <1>4, <1>6
<1>8. f[Pick(T)] \in Nat
  BY <1>4, <1>6
<1>9. QED
  BY <1>2, <1>5, <1>6, <1>7, <1>8

\* Any element may be taken out first.
LEMMA SumRemove ==
  ASSUME NEW f, NEW S, IsFiniteSet(S), \A x \in S : f[x] \in Nat, NEW e \in S
  PROVE  SumFunctionOnSet(f, S) = f[e] + SumFunctionOnSet(f, S \ {e})
<1> DEFINE Sum(T) == SumFunctionOnSet(f, T)
           Out(T) == \A x \in T : Sum(T) = f[x] + Sum(T \ {x})
           Bad == {T \in SUBSET S : ~Out(T)}
<1> SUFFICES ASSUME Bad # {} PROVE FALSE
  OBVIOUS
<1>1. Bad \in SUBSET SUBSET S
  OBVIOUS
<1>2. \A T : T \in Bad <=> T \in SUBSET S /\ ~Out(T)
  OBVIOUS
<1>3. \A T \in SUBSET S : Sum(T) \in Nat
  BY FS_Subset, SumNat
<1>4. \A T \in SUBSET S : T # {} => Sum(T) = f[Pick(T)] + Sum(T \ {Pick(T)})
  BY FS_Subset, SumSteps
<1> HIDE DEF Bad, Sum
<1>5. PICK T \in Bad : \A U \in Bad : U \subseteq T => U = T
  BY <1>1, SmallestSubset
<1>6. PICK x \in T : Sum(T) # f[x] + Sum(T \ {x})
  BY <1>2
<1>7. PICK p \in T : p = Pick(T) /\ Sum(T) = f[p] + Sum(T \ {p})
  BY <1>2, <1>4, <1>6, PickIn
<1>8. p # x /\ T \in SUBSET S
  BY <1>2, <1>6, <1>7
<1>9. Out(T \ {p}) /\ Out(T \ {x})
  <2>1. T \ {p} \notin Bad /\ T \ {x} \notin Bad
    BY <1>5, <1>6, <1>7
  <2>2. T \ {p} \in SUBSET S /\ T \ {x} \in SUBSET S
    BY <1>8
  <2>3. QED
    BY <1>2, <2>1, <2>2
<1>10. PICK R \in SUBSET S : R = (T \ {p}) \ {x} /\ R = (T \ {x}) \ {p}
  BY <1>8
<1>11. Sum(T \ {p}) = f[x] + Sum(R) /\ Sum(T \ {x}) = f[p] + Sum(R)
  BY <1>8, <1>9, <1>10
<1>12. f[x] \in Nat /\ f[p] \in Nat /\ Sum(R) \in Nat
  BY <1>3, <1>8
<1>13. QED
  BY <1>6, <1>7, <1>11, <1>12

\* One more element.
LEMMA SumAdd ==
  ASSUME NEW f, NEW S, IsFiniteSet(S), NEW e, e \notin S, \A x \in S \cup {e} : f[x] \in Nat
  PROVE  SumFunctionOnSet(f, S \cup {e}) = f[e] + SumFunctionOnSet(f, S)
<1>1. IsFiniteSet(S \cup {e}) /\ (S \cup {e}) \ {e} = S
  BY FS_AddElement
<1>2. QED
  BY <1>1, SumRemove

\* Only the values on the set count.
LEMMA SumSame ==
  ASSUME NEW f, NEW g, NEW S, IsFiniteSet(S), \A x \in S : f[x] \in Nat /\ f[x] = g[x]
  PROVE  SumFunctionOnSet(f, S) = SumFunctionOnSet(g, S)
<1> DEFINE P == {T \in SUBSET S : SumFunctionOnSet(f, T) = SumFunctionOnSet(g, T)}
<1>1. {} \in P
  BY SumEmpty
<1>2. ASSUME NEW T \in P, NEW x \in S \ T
      PROVE  T \cup {x} \in P
  <2>1. IsFiniteSet(T) /\ T \subseteq S
    BY FS_Subset
  <2>2. SumFunctionOnSet(f, T \cup {x}) = f[x] + SumFunctionOnSet(f, T)
    BY <2>1, SumAdd
  <2>3. SumFunctionOnSet(g, T \cup {x}) = g[x] + SumFunctionOnSet(g, T)
    BY <2>1, SumAdd
  <2>4. QED
    BY <2>1, <2>2, <2>3
<1>3. S \in P
  <2> HIDE DEF P
  <2>1. P \in SUBSET SUBSET S
    BY DEF P
  <2>2. QED
    BY <1>1, <1>2, <2>1, FromEmptySet
<1>4. QED
  BY <1>3

\* Two disjoint sets.
LEMMA SumUnion ==
  ASSUME NEW f, NEW S, IsFiniteSet(S), NEW T, IsFiniteSet(T), S \cap T = {},
         \A x \in S \cup T : f[x] \in Nat
  PROVE  SumFunctionOnSet(f, S \cup T) = SumFunctionOnSet(f, S) + SumFunctionOnSet(f, T)
<1> DEFINE Sum(U) == SumFunctionOnSet(f, U)
           P == {U \in SUBSET T : Sum(S \cup U) = Sum(S) + Sum(U)}
<1>1. \A U \in SUBSET T : IsFiniteSet(U) /\ IsFiniteSet(S \cup U) /\ Sum(U) \in Nat
  BY FS_Subset, FS_Union, SumNat
<1>2. Sum(S) \in Nat /\ Sum({}) = 0
  BY SumNat, SumEmpty
<1>3. {} \in P
  BY <1>2
<1>4. ASSUME NEW U \in P, NEW x \in T \ U
      PROVE  U \cup {x} \in P
  <2>1. U \in SUBSET T /\ x \notin U /\ x \notin S \cup U /\ f[x] \in Nat
    OBVIOUS
  <2>2. Sum(U \cup {x}) = f[x] + Sum(U)
    BY <1>1, <2>1, SumAdd
  <2>3. Sum((S \cup U) \cup {x}) = f[x] + Sum(S \cup U)
    <3>1. PICK V : V = S \cup U
      OBVIOUS
    <3>2. IsFiniteSet(V) /\ x \notin V /\ \A y \in V \cup {x} : f[y] \in Nat
      BY <1>1, <2>1, <3>1
    <3>3. QED
      BY <3>1, <3>2, SumAdd
  <2>4. (S \cup U) \cup {x} = S \cup (U \cup {x})
    OBVIOUS
  <2>5. Sum(S \cup U) = Sum(S) + Sum(U)
    OBVIOUS
  <2>6. Sum(U) \in Nat /\ Sum(S) \in Nat /\ f[x] \in Nat
    BY <1>1, <1>2, <2>1
  <2> HIDE DEF Sum
  <2>7. Sum((S \cup U) \cup {x}) = Sum(S) + Sum(U \cup {x})
    BY <2>2, <2>3, <2>5, <2>6
  <2>8. Sum(S \cup (U \cup {x})) = Sum(S) + Sum(U \cup {x})
    BY <2>4, <2>7
  <2>9. QED
    BY <2>1, <2>8
<1>5. T \in P
  <2>1. P \in SUBSET SUBSET T
    OBVIOUS
  <2> HIDE DEF P
  <2>2. QED
    BY <1>3, <1>4, <2>1, FromEmptySet
<1>6. QED
  BY <1>5

\* A part is no more than the whole.
LEMMA SumSubset ==
  ASSUME NEW f, NEW S, IsFiniteSet(S), NEW T \in SUBSET S, \A x \in S : f[x] \in Nat
  PROVE  SumFunctionOnSet(f, T) <= SumFunctionOnSet(f, S)
<1>1. PICK R \in SUBSET S : R = S \ T
  OBVIOUS
<1>2. IsFiniteSet(T) /\ IsFiniteSet(R)
  BY FS_Subset
<1>3. T \cup R = S /\ T \cap R = {}
  BY <1>1
<1>4. SumFunctionOnSet(f, S) = SumFunctionOnSet(f, T) + SumFunctionOnSet(f, R)
  BY <1>2, <1>3, SumUnion
<1>5. SumFunctionOnSet(f, T) \in Nat /\ SumFunctionOnSet(f, R) \in Nat
  BY <1>2, SumNat
<1>6. QED
  BY <1>4, <1>5

\* Smaller values have a smaller sum.
LEMMA SumLeq ==
  ASSUME NEW f, NEW g, NEW S, IsFiniteSet(S),
         \A x \in S : f[x] \in Nat /\ g[x] \in Nat /\ f[x] <= g[x]
  PROVE  SumFunctionOnSet(f, S) <= SumFunctionOnSet(g, S)
<1> DEFINE P == {T \in SUBSET S : SumFunctionOnSet(f, T) <= SumFunctionOnSet(g, T)}
<1>1. {} \in P
  BY SumEmpty
<1>2. ASSUME NEW T \in P, NEW x \in S \ T
      PROVE  T \cup {x} \in P
  <2>1. IsFiniteSet(T) /\ T \subseteq S
    BY FS_Subset
  <2>2. SumFunctionOnSet(f, T \cup {x}) = f[x] + SumFunctionOnSet(f, T)
    BY <2>1, SumAdd
  <2>3. SumFunctionOnSet(g, T \cup {x}) = g[x] + SumFunctionOnSet(g, T)
    BY <2>1, SumAdd
  <2>4. SumFunctionOnSet(f, T) \in Nat /\ SumFunctionOnSet(g, T) \in Nat
    BY <2>1, SumNat
  <2>5. QED
    BY <2>1, <2>2, <2>3, <2>4
<1>3. S \in P
  <2>1. P \in SUBSET SUBSET S
    OBVIOUS
  <2> HIDE DEF P
  <2>2. QED
    BY <1>1, <1>2, <2>1, FromEmptySet
<1>4. QED
  BY <1>3

\* A sum is no less than any of its values, and 0 only if all of them are.
LEMMA SumZero ==
  ASSUME NEW f, NEW S, IsFiniteSet(S), \A x \in S : f[x] \in Nat
  PROVE  SumFunctionOnSet(f, S) = 0 <=> \A x \in S : f[x] = 0
<1>1. ASSUME NEW x \in S
      PROVE  f[x] <= SumFunctionOnSet(f, S)
  <2>1. SumFunctionOnSet(f, S) = f[x] + SumFunctionOnSet(f, S \ {x})
    BY SumRemove
  <2>2. SumFunctionOnSet(f, S \ {x}) \in Nat
    BY FS_RemoveElement, SumNat
  <2>3. QED
    BY <2>1, <2>2
<1>2. ASSUME \A x \in S : f[x] = 0
      PROVE  SumFunctionOnSet(f, S) = 0
  <2> DEFINE P == {T \in SUBSET S : SumFunctionOnSet(f, T) = 0}
  <2>1. {} \in P
    BY SumEmpty
  <2>2. ASSUME NEW T \in P, NEW x \in S \ T
        PROVE  T \cup {x} \in P
    <3>1. IsFiniteSet(T) /\ T \subseteq S
      BY FS_Subset
    <3>2. SumFunctionOnSet(f, T \cup {x}) = f[x] + SumFunctionOnSet(f, T)
      BY <3>1, SumAdd
    <3>3. QED
      BY <1>2, <3>1, <3>2
  <2>3. S \in P
    <3>1. P \in SUBSET SUBSET S
      OBVIOUS
    <3> HIDE DEF P
    <3>2. QED
      BY <2>1, <2>2, <3>1, FromEmptySet
  <2>4. QED
    BY <2>3
<1>3. QED
  BY <1>1, <1>2

\* Values added up one by one.
LEMMA SumPlus ==
  ASSUME NEW f, NEW g, NEW h, NEW S, IsFiniteSet(S),
         \A x \in S : f[x] \in Nat /\ g[x] \in Nat /\ h[x] = f[x] + g[x]
  PROVE  SumFunctionOnSet(h, S) = SumFunctionOnSet(f, S) + SumFunctionOnSet(g, S)
<1> DEFINE P == {T \in SUBSET S : SumFunctionOnSet(h, T)
                                     = SumFunctionOnSet(f, T) + SumFunctionOnSet(g, T)}
<1>1. {} \in P
  BY SumEmpty
<1>2. ASSUME NEW T \in P, NEW x \in S \ T
      PROVE  T \cup {x} \in P
  <2>1. IsFiniteSet(T) /\ T \subseteq S
    BY FS_Subset
  <2>2. SumFunctionOnSet(f, T \cup {x}) = f[x] + SumFunctionOnSet(f, T)
    BY <2>1, SumAdd
  <2>3. SumFunctionOnSet(g, T \cup {x}) = g[x] + SumFunctionOnSet(g, T)
    BY <2>1, SumAdd
  <2>4. SumFunctionOnSet(h, T \cup {x}) = h[x] + SumFunctionOnSet(h, T)
    <3>1. \A y \in T \cup {x} : h[y] \in Nat
      BY <2>1
    <3>2. QED
      BY <2>1, <3>1, SumAdd
  <2>5. SumFunctionOnSet(f, T) \in Nat /\ SumFunctionOnSet(g, T) \in Nat
    BY <2>1, SumNat
  <2>6. QED
    BY <2>1, <2>2, <2>3, <2>4, <2>5
<1>3. S \in P
  <2>1. P \in SUBSET SUBSET S
    OBVIOUS
  <2> HIDE DEF P
  <2>2. QED
    BY <1>1, <1>2, <2>1, FromEmptySet
<1>4. QED
  BY <1>3

\* Values that are 0 add nothing.
LEMMA SumOfPart ==
  ASSUME NEW f, NEW S, IsFiniteSet(S), NEW T \in SUBSET S, \A x \in S : f[x] \in Nat,
         \A x \in S \ T : f[x] = 0
  PROVE  SumFunctionOnSet(f, S) = SumFunctionOnSet(f, T)
<1>1. PICK R \in SUBSET S : R = S \ T
  OBVIOUS
<1>2. IsFiniteSet(T) /\ IsFiniteSet(R)
  BY FS_Subset
<1>3. T \cup R = S /\ T \cap R = {}
  BY <1>1
<1>4. SumFunctionOnSet(f, S) = SumFunctionOnSet(f, T) + SumFunctionOnSet(f, R)
  BY <1>2, <1>3, SumUnion
<1>5. SumFunctionOnSet(f, R) = 0
  BY <1>1, <1>2, SumZero
<1>6. SumFunctionOnSet(f, T) \in Nat
  BY <1>2, SumNat
<1>7. QED
  BY <1>4, <1>5, <1>6

\* Each value multiplied by the same number.
LEMMA SumTimes ==
  ASSUME NEW f, NEW g, NEW k \in Nat, NEW S, IsFiniteSet(S),
         \A x \in S : f[x] \in Nat /\ g[x] = k * f[x]
  PROVE  SumFunctionOnSet(g, S) = k * SumFunctionOnSet(f, S)
<1> DEFINE P == {T \in SUBSET S : SumFunctionOnSet(g, T) = k * SumFunctionOnSet(f, T)}
<1>1. {} \in P
  BY SumEmpty
<1>2. ASSUME NEW T \in P, NEW x \in S \ T
      PROVE  T \cup {x} \in P
  <2>1. IsFiniteSet(T) /\ T \subseteq S
    BY FS_Subset
  <2>2. SumFunctionOnSet(f, T \cup {x}) = f[x] + SumFunctionOnSet(f, T)
    BY <2>1, SumAdd
  <2>3. SumFunctionOnSet(g, T \cup {x}) = g[x] + SumFunctionOnSet(g, T)
    <3>1. \A y \in T \cup {x} : g[y] \in Nat
      BY <2>1
    <3>2. QED
      BY <2>1, <3>1, SumAdd
  <2>4. SumFunctionOnSet(f, T) \in Nat /\ f[x] \in Nat
    BY <2>1, SumNat
  <2>5. \A a, b \in Nat : k * (a + b) = k * a + k * b
    OBVIOUS
  <2>6. k * SumFunctionOnSet(f, T \cup {x}) = k * f[x] + k * SumFunctionOnSet(f, T)
    BY <2>2, <2>4, <2>5
  <2>7. QED
    BY <2>1, <2>3, <2>6
<1>3. S \in P
  <2>1. P \in SUBSET SUBSET S
    OBVIOUS
  <2> HIDE DEF P
  <2>2. QED
    BY <1>1, <1>2, <2>1, FromEmptySet
<1>4. QED
  BY <1>3

\* The same value at every element.
LEMMA SumConstant ==
  ASSUME NEW f, NEW k \in Nat, NEW S, IsFiniteSet(S), \A x \in S : f[x] = k
  PROVE  SumFunctionOnSet(f, S) = k * Cardinality(S)
<1> DEFINE P == {T \in SUBSET S : SumFunctionOnSet(f, T) = k * Cardinality(T)}
<1>1. {} \in P
  BY SumEmpty, FS_EmptySet
<1>2. ASSUME NEW T \in P, NEW x \in S \ T
      PROVE  T \cup {x} \in P
  <2>1. IsFiniteSet(T) /\ T \subseteq S
    BY FS_Subset
  <2>2. SumFunctionOnSet(f, T \cup {x}) = k + SumFunctionOnSet(f, T)
    BY <2>1, SumAdd
  <2>3. Cardinality(T) \in Nat /\ Cardinality(T \cup {x}) = Cardinality(T) + 1
    BY <2>1, FS_AddElement, FS_CardinalityType
  <2>4. \A n \in Nat : k * (n + 1) = k + k * n
    OBVIOUS
  <2>5. k * Cardinality(T \cup {x}) = k + k * Cardinality(T)
    BY <2>3, <2>4
  <2>6. QED
    BY <2>1, <2>2, <2>5
<1>3. S \in P
  <2>1. P \in SUBSET SUBSET S
    OBVIOUS
  <2> HIDE DEF P
  <2>2. QED
    BY <1>1, <1>2, <2>1, FromEmptySet
<1>4. QED
  BY <1>3

\* The rows of a table add up to the same as its columns.
LEMMA SumSwap ==
  ASSUME NEW S, IsFiniteSet(S), NEW B, IsFiniteSet(B), NEW m \in [S -> [B -> Nat]]
  PROVE  SumFunctionOnSet([x \in S |-> SumFunctionOnSet(m[x], B)], S)
            = SumFunctionOnSet([b \in B |-> SumFunctionOnSet([x \in S |-> m[x][b]], S)], B)
<1> DEFINE Col(b) == [x \in S |-> m[x][b]]
           rows == [x \in S |-> SumFunctionOnSet(m[x], B)]
           Cols(T) == [b \in B |-> SumFunctionOnSet(Col(b), T)]
           P == {T \in SUBSET S : SumFunctionOnSet(rows, T) = SumFunctionOnSet(Cols(T), B)}
<1>1. \A x \in S : rows[x] = SumFunctionOnSet(m[x], B) /\ rows[x] \in Nat
  BY SumNat
<1>2. \A b \in B : \A x \in S : Col(b)[x] = m[x][b] /\ m[x][b] \in Nat
  OBVIOUS
<1>3. \A T : \A b \in B : Cols(T)[b] = SumFunctionOnSet(Col(b), T)
  OBVIOUS
<1>4. \A T \in SUBSET S : IsFiniteSet(T) /\ \A b \in B : SumFunctionOnSet(Col(b), T) \in Nat
  <2> HIDE DEF Col
  <2>1. QED
    BY <1>2, FS_Subset, SumNat
<1> HIDE DEF Col, rows, Cols
<1>5. {} \in P
  <2>1. \A b \in B : Cols({})[b] = 0
    BY <1>3, SumEmpty
  <2>2. SumFunctionOnSet(Cols({}), B) = 0
    BY <2>1, SumZero
  <2>3. QED
    BY <2>2, SumEmpty
<1>6. ASSUME NEW T \in P, NEW x \in S \ T
      PROVE  T \cup {x} \in P
  <2>1. IsFiniteSet(T) /\ T \in SUBSET S
    BY <1>4
  <2>2. SumFunctionOnSet(rows, T \cup {x}) = rows[x] + SumFunctionOnSet(rows, T)
    BY <1>1, <2>1, SumAdd
  <2>3. ASSUME NEW b \in B
        PROVE  Cols(T \cup {x})[b] = m[x][b] + Cols(T)[b]
    <3>1. SumFunctionOnSet(Col(b), T \cup {x}) = Col(b)[x] + SumFunctionOnSet(Col(b), T)
      BY <1>2, <2>1, SumAdd
    <3>2. QED
      BY <1>2, <1>3, <3>1
  <2>4. \A b \in B : m[x][b] \in Nat /\ Cols(T)[b] \in Nat
    BY <1>2, <1>3, <1>4, <2>1
  <2>5. SumFunctionOnSet(Cols(T \cup {x}), B)
           = SumFunctionOnSet(m[x], B) + SumFunctionOnSet(Cols(T), B)
    <3>1. PICK f, g, h : f = m[x] /\ g = Cols(T) /\ h = Cols(T \cup {x})
      OBVIOUS
    <3>2. \A b \in B : f[b] \in Nat /\ g[b] \in Nat /\ h[b] = f[b] + g[b]
      BY <2>3, <2>4, <3>1
    <3>3. SumFunctionOnSet(h, B) = SumFunctionOnSet(f, B) + SumFunctionOnSet(g, B)
      BY <3>2, SumPlus
    <3>4. QED
      BY <3>1, <3>3
  <2>6. SumFunctionOnSet(rows, T) = SumFunctionOnSet(Cols(T), B)
    OBVIOUS
  <2>7. T \cup {x} \in SUBSET S
    BY <2>1
  <2>8. QED
    BY <1>1, <2>2, <2>5, <2>6, <2>7
<1>7. S \in P
  <2>1. P \in SUBSET SUBSET S
    OBVIOUS
  <2> HIDE DEF P
  <2>2. QED
    BY <1>5, <1>6, <2>1, FromEmptySet
<1>8. SumFunctionOnSet(rows, S) = SumFunctionOnSet(Cols(S), B)
  BY <1>7
<1>9. QED
  BY <1>8 DEF rows, Cols, Col

-----------------------------------------------------------------------------
(* Natural numbers, and the value at a rank.                               *)

\* A set of natural numbers has a smallest one.
LEMMA LeastNatural ==
  ASSUME NEW B \in SUBSET Nat, B # {}
  PROVE  \E n \in B : \A m \in B : n <= m
<1>1. PICK n \in B : \A m \in B : <<m, n>> \notin OpToRel(<, Nat)
  BY NatLessThanWellFounded, WFMin
<1>2. \A m \in B : ~(m < n)
  BY <1>1 DEF OpToRel
<1>3. QED
  BY <1>2

\* A set of numbers that has 0 and, up to a bound, with each the next one has the
\* bound: induction, for a claim written as a set of numbers.
LEMMA FromZero ==
  ASSUME NEW N \in Nat, NEW P \in SUBSET Nat, 0 \in P,
         \A n \in P : n < N => n + 1 \in P
  PROVE  N \in P
<1> SUFFICES ASSUME N \notin P PROVE FALSE
  OBVIOUS
<1> DEFINE Bad == {n \in Nat : n <= N /\ n \notin P}
<1>1. Bad # {} /\ Bad \in SUBSET Nat
  OBVIOUS
<1>2. \A n : n \in Bad <=> n \in Nat /\ n <= N /\ n \notin P
  OBVIOUS
<1> HIDE DEF Bad
<1>3. PICK n \in Bad : \A m \in Bad : n <= m
  BY <1>1, LeastNatural
<1>4. n \in Nat /\ n # 0 /\ n <= N /\ n \notin P
  BY <1>2
<1>5. n - 1 \in Nat /\ n - 1 < N /\ (n - 1) + 1 = n
  BY <1>4
<1>6. n - 1 \notin Bad
  BY <1>3, <1>4, <1>5
<1>7. n - 1 \in P
  BY <1>2, <1>5, <1>6
<1>8. QED
  BY <1>4, <1>5, <1>7

\* v is at rank k of the values of f: fewer than k are below it, and at least k are no
\* more than it.
AtRank(S, f, k, v) == /\ Cardinality({y \in S : f[y] < v}) < k
                      /\ Cardinality({y \in S : f[y] <= v}) >= k

\* Among n values there is one at every rank from 1 to n.
LEMMA RankExists ==
  ASSUME NEW S, IsFiniteSet(S), NEW f \in [S -> Nat],
         NEW k \in Nat, 1 <= k, k <= Cardinality(S)
  PROVE  \E x \in S : AtRank(S, f, k, f[x])
<1> DEFINE UpTo(n) == {y \in S : f[y] <= n}
           Enough == {n \in Nat : Cardinality(UpTo(n)) >= k}
<1>1. \A n \in Nat : Cardinality(UpTo(n)) \in Nat
  BY FS_Subset, FS_CardinalityType
<1>2. Enough # {}
  <2> DEFINE P == {T \in SUBSET S : \E n \in Nat : T \subseteq UpTo(n)}
  <2>1. {} \in P
    OBVIOUS
  <2>2. ASSUME NEW T \in P, NEW x \in S \ T
        PROVE  T \cup {x} \in P
    <3>1. PICK n \in Nat : T \subseteq UpTo(n)
      OBVIOUS
    <3>2. PICK m \in Nat : n <= m /\ f[x] <= m
      <4>1. f[x] \in Nat
        OBVIOUS
      <4>2. n <= n + f[x] /\ f[x] <= n + f[x] /\ n + f[x] \in Nat
        BY <4>1
      <4>3. QED
        BY <4>2
    <3>3. T \cup {x} \subseteq UpTo(m)
      BY <3>1, <3>2
    <3>4. QED
      BY <3>3
  <2>3. S \in P
    <3>1. P \in SUBSET SUBSET S
      OBVIOUS
    <3> HIDE DEF P
    <3>2. QED
      BY <2>1, <2>2, <3>1, FromEmptySet
  <2>4. PICK n \in Nat : UpTo(n) = S
    BY <2>3
  <2>5. QED
    BY <2>4
<1>3. PICK n \in Enough : \A m \in Enough : n <= m
  <2>1. Enough \in SUBSET Nat
    OBVIOUS
  <2> HIDE DEF Enough
  <2>2. QED
    BY <1>2, <2>1, LeastNatural
<1>4. n \in Nat /\ Cardinality(UpTo(n)) >= k
  OBVIOUS
<1>5. Cardinality({y \in S : f[y] < n}) < k
  <2>1. CASE n = 0
    <3>1. {y \in S : f[y] < n} = {}
      BY <2>1
    <3>2. QED
      BY <3>1, FS_EmptySet
  <2>2. CASE n # 0
    <3>1. n - 1 \in Nat /\ ~(n <= n - 1)
      BY <1>4, <2>2
    <3>2. ~(Cardinality(UpTo(n - 1)) >= k)
      BY <1>3, <3>1
    <3>3. {y \in S : f[y] < n} = UpTo(n - 1)
      BY <1>4
    <3>4. QED
      BY <1>1, <3>1, <3>2, <3>3
  <2>3. QED
    BY <2>1, <2>2
<1>6. PICK x \in S : f[x] = n
  <2>1. {y \in S : f[y] < n} # UpTo(n)
    BY <1>1, <1>4, <1>5
  <2>2. QED
    BY <1>4, <2>1
<1>7. AtRank(S, f, k, n)
  BY <1>4, <1>5 DEF AtRank
<1>8. QED
  BY <1>6, <1>7

\* One of finitely many values is the greatest.
LEMMA GreatestExists ==
  ASSUME NEW S, IsFiniteSet(S), S # {}, NEW f \in [S -> Nat]
  PROVE  \E x \in S : \A y \in S : f[y] <= f[x]
<1>1. PICK k \in Nat : k = Cardinality(S)
  BY FS_CardinalityType
<1>2. 1 <= k /\ k <= Cardinality(S)
  BY <1>1, FS_EmptySet
<1>3. PICK x \in S : AtRank(S, f, k, f[x])
  BY <1>2, RankExists
<1>4. PICK T \in SUBSET S : T = {y \in S : f[y] <= f[x]}
  OBVIOUS
<1>5. Cardinality(T) >= k
  BY <1>3, <1>4 DEF AtRank
<1>6. T = S
  <2>1. Cardinality(T) <= Cardinality(S) /\ (Cardinality(T) = Cardinality(S) => T = S)
    BY FS_Subset
  <2>2. Cardinality(T) \in Nat
    BY FS_Subset, FS_CardinalityType
  <2>3. QED
    BY <1>1, <1>5, <2>1, <2>2
<1>7. QED
  BY <1>4, <1>6
=============================================================================
