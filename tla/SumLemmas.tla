----------------------------- MODULE SumLemmas -----------------------------
(***************************************************************************)
(* Induction over the subsets of a finite set, and what it says of the     *)
(* sums of the models (SumFunctionOnSet of the module Functions): the sum  *)
(* of natural numbers over a finite set, one element at a time, by parts,  *)
(* and its bounds.  A property is given as the set of what has it, since   *)
(* the provers take no operator as a parameter.                            *)
(***************************************************************************)
EXTENDS Integers, Functions, FiniteSets, FiniteSetTheorems, WellFoundedInduction, TLAPS

\* A non-empty set of natural numbers has a least element.
LEMMA NatMin ==
    ASSUME NEW T \in SUBSET Nat, T # {}
    PROVE  \E n \in T : \A m \in T : n <= m
<1> DEFINE R == {ss \in Nat \X Nat : ss[1] < ss[2]}
<1>1. IsWellFoundedOn(R, Nat)
  BY NatLessThanWellFounded DEF OpToRel
<1> HIDE DEF R
<1>2. PICK n \in T : \A m \in T : ~ (<<m, n>> \in R)
  BY <1>1, WFMin
<1>3. \A m \in T : ~(m < n)
  BY <1>2 DEF R
<1> QED BY <1>3

\* Induction over the subsets of a finite set: a property, given as the set of the subsets that have it.
LEMMA SubsetInduction ==
    ASSUME NEW D, IsFiniteSet(D), NEW C,
           \A S \in SUBSET D : (\A x \in S : S \ {x} \in C) => S \in C
    PROVE  \A S \in SUBSET D : S \in C
<1> DEFINE Bad == (SUBSET D) \ C
<1> HIDE DEF Bad
<1>1. CASE Bad = {}
    BY <1>1 DEF Bad
<1>2. CASE Bad # {}
  <2>1. Bad \subseteq FiniteSubsetsOf(D)
      BY FS_Subset DEF FiniteSubsetsOf, Bad
  <2>2. IsWellFoundedOn(StrictSubsetOrdering(D), FiniteSubsetsOf(D))
      BY FS_StrictSubsetOrderingWellFounded
  <2>3. PICK S \in Bad : \A U \in Bad : ~ (<<U, S>> \in StrictSubsetOrdering(D))
      BY <1>2, <2>1, <2>2, WFMin
  <2>4. ASSUME NEW x \in S PROVE S \ {x} \in C
    <3>1. S \in SUBSET D /\ S \ {x} \in SUBSET D /\ S \ {x} # S
        BY <2>4 DEF Bad
    <3>2. <<S \ {x}, S>> \in StrictSubsetOrdering(D)
        BY <3>1 DEF StrictSubsetOrdering
    <3> QED BY <2>3, <3>1, <3>2 DEF Bad
  <2> QED BY <2>3, <2>4 DEF Bad
<1> QED BY <1>1, <1>2

Choice(s) == CHOOSE x \in s : TRUE

Solves(g, f, D) ==
    g = [s \in SUBSET D |-> IF s = {} THEN 0 ELSE f[Choice(s)] + g[s \ {Choice(s)}]]

\* The choice the fold makes is from the set.
LEMMA ChoiceIn == \A s : s # {} => Choice(s) \in s
  BY DEF Choice

\* The recursive definition of a fold has a solution.
LEMMA SolutionExists ==
    ASSUME NEW D, IsFiniteSet(D), NEW f
    PROVE  \E g : Solves(g, f, D)
<1> DEFINE Eq(g, s) == g[s] = IF s = {} THEN 0 ELSE f[Choice(s)] + g[s \ {Choice(s)}]
           Upto(n) == \E g : /\ g = [s \in SUBSET D |-> g[s]]
                             /\ \A s \in SUBSET D : Cardinality(s) <= n => Eq(g, s)
           T == {n \in Nat : ~Upto(n)}
<1>c. \A s \in SUBSET D : /\ Cardinality(s) \in Nat
                          /\ Cardinality(s) <= Cardinality(D)
                          /\ Cardinality(s) = 0 <=> s = {}
                          /\ s # {} => /\ s \ {Choice(s)} \in SUBSET D
                                       /\ Cardinality(s \ {Choice(s)}) = Cardinality(s) - 1
  BY FS_Subset, FS_CardinalityType, FS_EmptySet, FS_RemoveElement, ChoiceIn
<1>1. Upto(0)
  <2> DEFINE g0 == [s \in SUBSET D |-> 0]
  <2>1. ASSUME NEW s \in SUBSET D, Cardinality(s) <= 0 PROVE Eq(g0, s)
    <3>1. Cardinality(s) \in Nat /\ (Cardinality(s) = 0 <=> s = {})
      BY FS_Subset, FS_CardinalityType, FS_EmptySet
    <3>2. s = {}
      BY <2>1, <3>1
    <3> QED BY <3>2
  <2>2. g0 = [s \in SUBSET D |-> g0[s]]
    OBVIOUS
  <2> HIDE DEF g0, Eq
  <2> QED BY <2>1, <2>2
<1>2. ASSUME NEW n \in Nat, Upto(n) PROVE Upto(n + 1)
  <2>1. PICK g : /\ g = [s \in SUBSET D |-> g[s]]
                 /\ \A s \in SUBSET D : Cardinality(s) <= n => Eq(g, s)
    BY <1>2
  <2> DEFINE h == [s \in SUBSET D |-> IF Cardinality(s) <= n THEN g[s]
                                      ELSE f[Choice(s)] + g[s \ {Choice(s)}]]
  <2>2. ASSUME NEW s \in SUBSET D, Cardinality(s) <= n + 1 PROVE Eq(h, s)
    <3>1. CASE s = {}
      <4>1. Cardinality(s) <= n
        <5>1. Cardinality(s) = 0
          BY <3>1, FS_EmptySet
        <5> QED BY <5>1
      <4> QED BY <2>1, <3>1, <4>1
    <3>2. CASE s # {} /\ Cardinality(s) <= n
      <4>1. h[s] = g[s] /\ h[s \ {Choice(s)}] = g[s \ {Choice(s)}]
        BY <1>c, <3>2
      <4> QED BY <2>1, <3>2, <4>1
    <3>3. CASE s # {} /\ ~(Cardinality(s) <= n)
      <4>1. h[s] = f[Choice(s)] + g[s \ {Choice(s)}] /\ h[s \ {Choice(s)}] = g[s \ {Choice(s)}]
        BY <1>c, <2>2, <3>3
      <4> QED BY <3>3, <4>1
    <3> QED BY <3>1, <3>2, <3>3
  <2>3. h = [s \in SUBSET D |-> h[s]]
    OBVIOUS
  <2> HIDE DEF h
  <2> QED BY <2>2, <2>3
<1>3. T = {}
  <2> HIDE DEF Upto
  <2> SUFFICES ASSUME T # {} PROVE FALSE
    OBVIOUS
  <2>1. PICK n \in T : \A m \in T : n <= m
    BY NatMin
  <2>2. n # 0 /\ n - 1 \in Nat /\ Upto(n - 1)
    BY <1>1, <2>1
  <2> QED BY <1>2, <2>1, <2>2
<1>4. Upto(Cardinality(D))
  BY <1>3, FS_CardinalityType
<1>5. PICK g : /\ g = [s \in SUBSET D |-> g[s]]
               /\ \A s \in SUBSET D : Cardinality(s) <= Cardinality(D) => Eq(g, s)
  BY <1>4
<1>6. \A s \in SUBSET D : Eq(g, s)
  BY <1>5, <1>c
<1>7. Solves(g, f, D)
  BY <1>5, <1>6 DEF Solves
<1> QED BY <1>7

\* The function that the fold chooses: some solution of its equation gives the sum.
LEMMA SumSolution ==
    ASSUME NEW D, IsFiniteSet(D), NEW f
    PROVE  \E g : Solves(g, f, D) /\ SumFunctionOnSet(f, D) = g[D]
<1> DEFINE g == CHOOSE g : Solves(g, f, D)
<1>1. Solves(g, f, D)
  BY SolutionExists
<1>2. SumFunctionOnSet(f, D) = g[D]
  BY DEF SumFunctionOnSet, FoldFunctionOnSet, MapThenFoldSet, Solves, Choice
<1> QED BY <1>1, <1>2

\* Two solutions agree where both are defined.
LEMMA SolutionsAgree ==
    ASSUME NEW D, IsFiniteSet(D), NEW E \in SUBSET D, NEW f, NEW g, NEW h,
           Solves(g, f, D), Solves(h, f, E)
    PROVE  \A s \in SUBSET E : g[s] = h[s]
<1> DEFINE C == {s \in SUBSET E : g[s] = h[s]}
<1>1. IsFiniteSet(E)
  BY FS_Subset
<1>2. {} \in C
  BY DEF Solves
<1>3. ASSUME NEW s \in SUBSET E, \A x \in s : s \ {x} \in C PROVE s \in C
  <2>1. CASE s = {}
    BY <1>2, <2>1
  <2>2. CASE s # {}
    <3>1. Choice(s) \in s
      BY <2>2, ChoiceIn
    <3>2. g[s \ {Choice(s)}] = h[s \ {Choice(s)}]
      BY <1>3, <3>1
    <3> QED BY <2>2, <3>2 DEF Solves
  <2> QED BY <2>1, <2>2
<1> HIDE DEF C
<1>4. \A s \in SUBSET E : s \in C
  BY <1>1, <1>3, SubsetInduction
<1> QED BY <1>4 DEF C

\* The sum over a set, one element at a time, in the order of the definition.
LEMMA SumUnfold ==
    ASSUME NEW D, IsFiniteSet(D), NEW f
    PROVE  /\ SumFunctionOnSet(f, {}) = 0
           /\ D # {} => SumFunctionOnSet(f, D)
                          = f[Choice(D)] + SumFunctionOnSet(f, D \ {Choice(D)})
<1>1. SumFunctionOnSet(f, {}) = 0
  BY DEF SumFunctionOnSet, FoldFunctionOnSet, MapThenFoldSet
<1>2. ASSUME D # {} PROVE SumFunctionOnSet(f, D)
                          = f[Choice(D)] + SumFunctionOnSet(f, D \ {Choice(D)})
  <2>1. PICK g : Solves(g, f, D) /\ SumFunctionOnSet(f, D) = g[D]
    BY SumSolution
  <2> DEFINE E == D \ {Choice(D)}
  <2>2. IsFiniteSet(E) /\ E \in SUBSET D
    BY FS_RemoveElement
  <2>3. PICK h : Solves(h, f, E) /\ SumFunctionOnSet(f, E) = h[E]
    BY <2>2, SumSolution
  <2>4. g[E] = h[E]
    <3> HIDE DEF E
    <3> QED BY <2>1, <2>2, <2>3, SolutionsAgree
  <2>5. g[D] = f[Choice(D)] + g[E]
    BY <1>2, <2>1 DEF Solves
  <2> QED BY <2>1, <2>3, <2>4, <2>5
<1> QED BY <1>1, <1>2

\* The sum over a set of natural numbers, one element at a time in any order.
LEMMA SumOfSet ==
    ASSUME NEW D, IsFiniteSet(D), NEW f, \A x \in D : f[x] \in Nat
    PROVE  /\ SumFunctionOnSet(f, D) \in Nat
           /\ \A x \in D : SumFunctionOnSet(f, D)
                             = f[x] + SumFunctionOnSet(f, D \ {x})
<1> DEFINE Sum(S) == SumFunctionOnSet(f, S)
<1>f. \A S \in SUBSET D : IsFiniteSet(S)
    BY FS_Subset
<1>e. Sum({}) = 0
    BY <1>f, SumUnfold
<1>u. ASSUME NEW S \in SUBSET D, S # {}
      PROVE  Choice(S) \in S /\ Sum(S) = f[Choice(S)] + Sum(S \ {Choice(S)})
    BY <1>f, <1>u, SumUnfold, ChoiceIn
<1> HIDE DEF Sum
<1>1. \A S \in SUBSET D : Sum(S) \in Nat
  <2> DEFINE C == {S \in SUBSET D : Sum(S) \in Nat}
  <2>1. ASSUME NEW S \in SUBSET D, \A x \in S : S \ {x} \in C PROVE S \in C
    <3>1. CASE S = {}
        BY <1>e, <3>1
    <3>2. CASE S # {}
      <4>1. S \ {Choice(S)} \in C
          BY <1>u, <2>1, <3>2
      <4> QED BY <1>u, <3>2, <4>1
    <3> QED BY <3>1, <3>2
  <2> HIDE DEF C
  <2>2. \A S \in SUBSET D : S \in C
      BY <2>1, SubsetInduction
  <2> QED BY <2>2 DEF C
<1>2. \A S \in SUBSET D : \A x \in S : Sum(S) = f[x] + Sum(S \ {x})
  <2> DEFINE C == {S \in SUBSET D : \A x \in S : Sum(S) = f[x] + Sum(S \ {x})}
  <2>1. ASSUME NEW S \in SUBSET D, \A x \in S : S \ {x} \in C PROVE S \in C
    <3> SUFFICES ASSUME NEW x \in S PROVE Sum(S) = f[x] + Sum(S \ {x})
        OBVIOUS
    <3>a. PICK a \in S : Sum(S) = f[a] + Sum(S \ {a})
        BY <1>u
    <3>1. CASE x = a
        BY <3>a, <3>1
    <3>2. CASE x # a
      <4>1. Sum(S \ {a}) = f[x] + Sum((S \ {a}) \ {x})
          BY <2>1, <3>2
      <4>2. Sum(S \ {x}) = f[a] + Sum((S \ {x}) \ {a})
          BY <2>1, <3>2
      <4>3. Sum((S \ {a}) \ {x}) = Sum((S \ {x}) \ {a})
        <5>1. (S \ {a}) \ {x} = (S \ {x}) \ {a}
            OBVIOUS
        <5> QED BY <5>1
      <4>4. Sum((S \ {x}) \ {a}) \in Nat /\ f[a] \in Nat /\ f[x] \in Nat
          BY <1>1
      <4> QED BY <3>a, <4>1, <4>2, <4>3, <4>4
    <3> QED BY <3>1, <3>2
  <2> HIDE DEF C
  <2>2. \A S \in SUBSET D : S \in C
      BY <2>1, SubsetInduction
  <2> QED BY <2>2 DEF C
<1>3. D \in SUBSET D
    OBVIOUS
<1> QED BY <1>1, <1>2, <1>3 DEF Sum

\* The sum depends on the function's values only.
LEMMA SumSame ==
    ASSUME NEW D, IsFiniteSet(D), NEW f, NEW g, \A x \in D : f[x] = g[x]
    PROVE  SumFunctionOnSet(f, D) = SumFunctionOnSet(g, D)
<1> DEFINE C == {S \in SUBSET D : SumFunctionOnSet(f, S) = SumFunctionOnSet(g, S)}
<1>1. ASSUME NEW S \in SUBSET D, \A x \in S : S \ {x} \in C PROVE S \in C
  <2>1. IsFiniteSet(S)
      BY FS_Subset
  <2>2. CASE S = {}
      BY <2>1, <2>2, SumUnfold
  <2>3. CASE S # {}
    <3>1. Choice(S) \in S /\ f[Choice(S)] = g[Choice(S)] /\ S \ {Choice(S)} \in C
        BY <1>1, <2>3, ChoiceIn
    <3> QED BY <2>1, <2>3, <3>1, SumUnfold
  <2> QED BY <2>2, <2>3
<1> HIDE DEF C
<1>2. \A S \in SUBSET D : S \in C
    BY <1>1, SubsetInduction
<1> QED BY <1>2 DEF C

\* A sum changes by as much as one of its terms does.
LEMMA SumChange ==
    ASSUME NEW D, IsFiniteSet(D), NEW x \in D, NEW f, NEW g,
           \A y \in D : f[y] \in Nat /\ g[y] \in Nat,
           \A y \in D \ {x} : f[y] = g[y]
    PROVE  SumFunctionOnSet(g, D) = SumFunctionOnSet(f, D) + g[x] - f[x]
<1>1. IsFiniteSet(D \ {x})
    BY FS_RemoveElement
<1>2. SumFunctionOnSet(f, D \ {x}) = SumFunctionOnSet(g, D \ {x})
    BY <1>1, SumSame
<1>3. SumFunctionOnSet(f, D) = f[x] + SumFunctionOnSet(f, D \ {x})
      /\ SumFunctionOnSet(g, D) = g[x] + SumFunctionOnSet(g, D \ {x})
    BY SumOfSet
<1>4. SumFunctionOnSet(f, D \ {x}) \in Nat
    BY <1>1, SumOfSet
<1> QED BY <1>2, <1>3, <1>4

\* A part of a sum is no more than the whole.
LEMMA SumOfPart ==
    ASSUME NEW D, IsFiniteSet(D), NEW E \in SUBSET D, NEW f, \A x \in D : f[x] \in Nat
    PROVE  SumFunctionOnSet(f, E) <= SumFunctionOnSet(f, D)
<1> DEFINE C == {S \in SUBSET D : E \subseteq S =>
                      SumFunctionOnSet(f, E) <= SumFunctionOnSet(f, S)}
<1>f. \A S \in SUBSET D : IsFiniteSet(S) /\ SumFunctionOnSet(f, S) \in Nat
    BY FS_Subset, SumOfSet
<1>1. ASSUME NEW S \in SUBSET D, \A x \in S : S \ {x} \in C PROVE S \in C
  <2> SUFFICES ASSUME E \subseteq S, E # S
               PROVE  SumFunctionOnSet(f, E) <= SumFunctionOnSet(f, S)
      BY <1>f
  <2>1. PICK x \in S : x \notin E
      OBVIOUS
  <2>2. SumFunctionOnSet(f, E) <= SumFunctionOnSet(f, S \ {x})
      BY <1>1, <2>1
  <2>3. SumFunctionOnSet(f, S) = f[x] + SumFunctionOnSet(f, S \ {x})
      BY <1>f, SumOfSet
  <2>4. /\ SumFunctionOnSet(f, E) \in Nat /\ SumFunctionOnSet(f, S \ {x}) \in Nat
        /\ f[x] \in Nat
      BY <1>f
  <2> QED BY <2>2, <2>3, <2>4
<1> HIDE DEF C
<1>2. \A S \in SUBSET D : S \in C
    BY <1>1, SubsetInduction
<1>3. D \in SUBSET D
    OBVIOUS
<1> QED BY <1>2, <1>3 DEF C

\* A sum with no more than n terms that are not zero, each at most b.
LEMMA SumBound ==
    ASSUME NEW D, IsFiniteSet(D), NEW L \in SUBSET D, NEW b \in Nat, NEW f,
           \A x \in D : f[x] \in 0 .. b,
           \A x \in D \ L : f[x] = 0
    PROVE  SumFunctionOnSet(f, D) <= Cardinality(L) * b
<1> DEFINE Sum(S) == SumFunctionOnSet(f, S)
           Card(S) == Cardinality(S \cap L)
           C == {S \in SUBSET D : Sum(S) <= Card(S) * b}
<1>f. \A S \in SUBSET D : IsFiniteSet(S) /\ IsFiniteSet(S \cap L)
    BY FS_Subset, FS_Intersection
<1>n. ASSUME NEW S \in SUBSET D
      PROVE  /\ Sum(S) \in Nat /\ Card(S) \in Nat
             /\ \A x \in S : Sum(S) = f[x] + Sum(S \ {x})
  <2>1. Card(S) \in Nat
      BY <1>f, FS_CardinalityType
  <2>2. ASSUME NEW x \in S PROVE f[x] \in Nat
    <3>1. f[x] \in 0 .. b
        OBVIOUS
    <3> QED BY <3>1
  <2> QED BY <1>f, <2>1, <2>2, SumOfSet
<1>1. ASSUME NEW S \in SUBSET D, \A x \in S : S \ {x} \in C PROVE S \in C
  <2>1. CASE S = {}
    <3>1. Sum(S) = 0 /\ Card(S) = 0
        BY <2>1, <1>f, SumUnfold, FS_EmptySet
    <3> QED BY <3>1
  <2>2. CASE S # {}
    <3>1. PICK x \in S : TRUE
        BY <2>2
    <3>2. Sum(S \ {x}) <= Card(S \ {x}) * b
        BY <1>1
    <3>3. Sum(S) = f[x] + Sum(S \ {x}) /\ Sum(S \ {x}) \in Nat /\ f[x] \in 0 .. b
        BY <1>n
    <3>4. CASE x \in L
      <4>1. (S \ {x}) \cap L = (S \cap L) \ {x}
          OBVIOUS
      <4>2. Card(S \ {x}) = Card(S) - 1
          BY <1>f, <3>4, <4>1, FS_RemoveElement
      <4> HIDE DEF Sum, Card
      <4>3. Card(S) \in Nat /\ Card(S \ {x}) \in Nat
          BY <1>n
      <4>4. Card(S) * b = Card(S \ {x}) * b + b
          BY <4>2, <4>3
      <4>5. Card(S \ {x}) * b \in Nat
          BY <4>3
      <4> QED BY <3>2, <3>3, <4>4, <4>5
    <3>5. CASE x \notin L
      <4>1. (S \ {x}) \cap L = S \cap L
          BY <3>5
      <4>2. Card(S \ {x}) = Card(S) /\ f[x] = 0
          BY <3>5, <4>1
      <4> HIDE DEF Sum, Card
      <4>3. Sum(S) = Sum(S \ {x})
          BY <3>3, <4>2
      <4> QED BY <3>2, <4>2, <4>3
    <3> QED BY <3>4, <3>5
  <2> QED BY <2>1, <2>2
<1> HIDE DEF C
<1>2. \A S \in SUBSET D : S \in C
    BY <1>1, SubsetInduction
<1>3. D \in SUBSET D /\ D \cap L = L
    OBVIOUS
<1> QED BY <1>2, <1>3 DEF C
====
