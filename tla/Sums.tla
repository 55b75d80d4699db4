-------------------------------- MODULE Sums --------------------------------
(***************************************************************************)
(* Facts about SumFunctionOnSet, the sum of the values of a function over  *)
(* a finite set, which the models use for quantities in several places.    *)
(* The community module defines it by recursion over the subsets; it is    *)
(* reasoned about by taking a smallest subset for which a fact would be    *)
(* wrong, which exists because strict inclusion is well-founded there.     *)
(***************************************************************************)
EXTENDS Integers, Functions, FiniteSetTheorems, TLAPS

\* A family of subsets that has a set when it has all its proper subsets has all of them.
LEMMA SubsetInduction ==
    ASSUME NEW S, IsFiniteSet(S), NEW F,
           \A T \in SUBSET S : (\A U \in SUBSET T : U # T => U \in F) => T \in F
    PROVE  \A T \in SUBSET S : T \in F
<1> DEFINE Bad == {T \in SUBSET S : T \notin F}
<1>1. SUFFICES ASSUME Bad # {}
               PROVE  FALSE
  OBVIOUS
<1>2. IsWellFoundedOn(StrictSubsetOrdering(S), SUBSET S)
  BY FS_StrictSubsetOrderingWellFounded, FS_FiniteSubsetsOfFinite
<1>3. PICK T \in Bad : \A U \in Bad : <<U, T>> \notin StrictSubsetOrdering(S)
  <2>1. Bad \subseteq SUBSET S
    OBVIOUS
  <2> HIDE DEF Bad
  <2> QED
    BY <1>1, <1>2, <2>1, WFMin
<1>4. \A U \in SUBSET T : U # T => U \in F
  BY <1>3 DEF StrictSubsetOrdering
<1> QED
  BY <1>3, <1>4

Some(S) == CHOOSE x \in S : TRUE

\* g is the sum of f over each subset of S.
Adds(g, f, S) ==
    g = [T \in SUBSET S |-> IF T = {} THEN 0 ELSE f[Some(T)] + g[T \ {Some(T)}]]

LEMMA SomeIn == \A S : S # {} => Some(S) \in S
  BY DEF Some

LEMMA AddsAt ==
    ASSUME NEW g, NEW f, NEW S, Adds(g, f, S), NEW T \in SUBSET S
    PROVE  g[T] = IF T = {} THEN 0 ELSE f[Some(T)] + g[T \ {Some(T)}]
<1>1. g = [U \in SUBSET S |-> IF U = {} THEN 0 ELSE f[Some(U)] + g[U \ {Some(U)}]]
  BY DEF Adds
<1> DEFINE e(U) == IF U = {} THEN 0 ELSE f[Some(U)] + g[U \ {Some(U)}]
<1>2. [U \in SUBSET S |-> e(U)][T] = e(T)
  BY Zenon
<1> QED
  BY <1>1, <1>2, Zenon

LEMMA AddsAgree ==
    ASSUME NEW f, NEW S, IsFiniteSet(S), NEW R \in SUBSET S, NEW g, NEW h,
           Adds(g, f, R), Adds(h, f, S)
    PROVE  \A T \in SUBSET R : g[T] = h[T]
<1> DEFINE F == {T \in SUBSET R : g[T] = h[T]}
<1>1. IsFiniteSet(R)
  BY FS_Subset
<1>2. ASSUME NEW T \in SUBSET R, \A U \in SUBSET T : U # T => U \in F
      PROVE  T \in F
  <2>1. CASE T = {}
    BY <2>1, AddsAt
  <2>2. CASE T # {}
    <3>1. T \ {Some(T)} # T /\ T \ {Some(T)} \in SUBSET T
      BY <2>2, SomeIn
    <3>2. g[T \ {Some(T)}] = h[T \ {Some(T)}]
      BY <1>2, <3>1
    <3> QED
      BY <2>2, <3>2, AddsAt
  <2> QED
    BY <2>1, <2>2
<1>3. \A T \in SUBSET R : T \in F
  <2> HIDE DEF F
  <2> QED
    BY <1>1, <1>2, SubsetInduction
<1> QED
  BY <1>3

LEMMA AddsExists ==
    ASSUME NEW f, NEW S, IsFiniteSet(S)
    PROVE  \E g : Adds(g, f, S)
<1> DEFINE F == {T \in SUBSET S : \E g : Adds(g, f, T)}
<1>1. ASSUME NEW T \in SUBSET S, \A U \in SUBSET T : U # T => U \in F
      PROVE  T \in F
  <2>0. IsFiniteSet(T)
    BY FS_Subset
  <2> DEFINE a(U) == (CHOOSE g : Adds(g, f, U))[U]
             g == [U \in SUBSET T |-> IF U = {} THEN 0 ELSE f[Some(U)] + a(U \ {Some(U)})]
  <2>1. \A U \in SUBSET T : U # T => Adds(CHOOSE h : Adds(h, f, U), f, U)
    BY <1>1
  <2>2. ASSUME NEW U \in SUBSET T, U # T
        PROVE  g[U] = a(U)
    <3> DEFINE h == CHOOSE h : Adds(h, f, U)
    <3>1. Adds(h, f, U)
      BY <2>1, <2>2
    <3>2. a(U) = h[U]
      OBVIOUS
    <3>3. CASE U = {}
      <4>1. h[U] = 0
        BY <3>1, <3>3, AddsAt
      <4> QED
        BY <3>2, <3>3, <4>1
    <3>4. CASE U # {}
      <4> DEFINE V == U \ {Some(U)}
                 k == CHOOSE k : Adds(k, f, V)
      <4>1. V \in SUBSET U /\ V \in SUBSET T /\ V # T /\ IsFiniteSet(U)
        BY <2>0, <2>2, <3>4, SomeIn, FS_Subset
      <4>2. Adds(k, f, V)
        BY <2>1, <4>1
      <4>3. h[V] = k[V]
        <5> HIDE DEF h, k, V
        <5> QED
        BY <3>1, <4>1, <4>2, AddsAgree
      <4>4. h[U] = f[Some(U)] + h[V]
        <5> HIDE DEF h
        <5> QED
        BY <3>1, <3>4, AddsAt
      <4>5. g[U] = f[Some(U)] + a(V)
        BY <3>4
      <4>6. a(V) = k[V]
        OBVIOUS
      <4> HIDE DEF a, h, k, V, g
      <4> QED
        BY <3>2, <4>3, <4>4, <4>5, <4>6
    <3> QED
      BY <3>3, <3>4
  <2>3. \A U \in SUBSET T : U # {} => U \ {Some(U)} # T /\ U \ {Some(U)} \in SUBSET T
    BY SomeIn
  <2>4. \A U \in SUBSET T : U # {} => g[U \ {Some(U)}] = a(U \ {Some(U)})
    <3> HIDE DEF g, a
    <3> QED
    BY <2>2, <2>3
  <2>5. g = [U \in SUBSET T |-> IF U = {} THEN 0 ELSE f[Some(U)] + g[U \ {Some(U)}]]
    <3> DEFINE G == g
    <3>1. G = [U \in SUBSET T |-> IF U = {} THEN 0 ELSE f[Some(U)] + a(U \ {Some(U)})]
      OBVIOUS
    <3>2. \A U \in SUBSET T : U # {} => G[U \ {Some(U)}] = a(U \ {Some(U)})
      BY <2>4
    <3> HIDE DEF G, a
    <3>3. G = [U \in SUBSET T |-> IF U = {} THEN 0 ELSE f[Some(U)] + G[U \ {Some(U)}]]
      BY <3>1, <3>2
    <3> QED
      BY <3>3 DEF G
  <2>6. Adds(g, f, T)
    <3> DEFINE G == g
    <3>1. G = [U \in SUBSET T |-> IF U = {} THEN 0 ELSE f[Some(U)] + G[U \ {Some(U)}]]
      BY <2>5
    <3> HIDE DEF G
    <3>2. Adds(G, f, T)
      BY <3>1 DEF Adds
    <3> QED
      BY <3>2 DEF G
  <2> QED
    BY <2>6
<1>2. \A T \in SUBSET S : T \in F
  <2> HIDE DEF F
  <2> QED
    BY <1>1, SubsetInduction
<1> QED
  BY <1>2

LEMMA SumAdds ==
    ASSUME NEW f, NEW S
    PROVE  SumFunctionOnSet(f, S) = (CHOOSE g : Adds(g, f, S))[S]
  BY DEF SumFunctionOnSet, FoldFunctionOnSet, MapThenFoldSet, Adds, Some

-----------------------------------------------------------------------------

LEMMA SumEmpty == \A f : SumFunctionOnSet(f, {}) = 0
<1> TAKE f
<1>1. IsFiniteSet({})
  BY FS_EmptySet
<1>2. PICK g : Adds(g, f, {})
  BY <1>1, AddsExists
<1> DEFINE h == CHOOSE h : Adds(h, f, {})
<1>3. Adds(h, f, {})
  BY <1>2
<1>4. h[{}] = 0
  <2> HIDE DEF h
  <2> QED
    BY <1>3, AddsAt
<1> QED
  BY <1>4, SumAdds

\* One term, chosen as the fold chooses it, and the sum of the others.
LEMMA SumSome ==
    ASSUME NEW f, NEW S, IsFiniteSet(S), S # {}
    PROVE  SumFunctionOnSet(f, S) = f[Some(S)] + SumFunctionOnSet(f, S \ {Some(S)})
<1> DEFINE R == S \ {Some(S)}
           g == CHOOSE g : Adds(g, f, S)
           h == CHOOSE h : Adds(h, f, R)
<1>1. R \in SUBSET S /\ IsFiniteSet(R)
  BY FS_Subset
<1>2. Adds(g, f, S) /\ Adds(h, f, R)
  BY <1>1, AddsExists
<1>3. SumFunctionOnSet(f, S) = g[S] /\ SumFunctionOnSet(f, R) = h[R]
  BY SumAdds
<1>4. g[S] = f[Some(S)] + g[R]
  <2> HIDE DEF g
  <2> QED
    BY <1>2, AddsAt
<1>5. h[R] = g[R]
  <2> HIDE DEF g, h, R
  <2> QED
    BY <1>1, <1>2, AddsAgree
<1> HIDE DEF g, h
<1> QED
  BY <1>3, <1>4, <1>5

LEMMA SumInt ==
    ASSUME NEW f, NEW S, IsFiniteSet(S), \A x \in S : f[x] \in Int
    PROVE  SumFunctionOnSet(f, S) \in Int
<1> DEFINE F == {T \in SUBSET S : SumFunctionOnSet(f, T) \in Int}
<1>1. ASSUME NEW T \in SUBSET S, \A U \in SUBSET T : U # T => U \in F
      PROVE  T \in F
  <2>1. CASE T = {}
    BY <2>1, SumEmpty
  <2>2. CASE T # {}
    <3>1. Some(T) \in T /\ IsFiniteSet(T)
      BY <2>2, SomeIn, FS_Subset
    <3>2. T \ {Some(T)} \in F
      BY <1>1, <3>1
    <3>3. SumFunctionOnSet(f, T) = f[Some(T)] + SumFunctionOnSet(f, T \ {Some(T)})
      BY <2>2, <3>1, SumSome
    <3> QED
      BY <3>1, <3>2, <3>3
  <2> QED
    BY <2>1, <2>2
<1>2. \A T \in SUBSET S : T \in F
  <2> HIDE DEF F
  <2> QED
    BY <1>1, SubsetInduction
<1> QED
  BY <1>2

LEMMA SumNat ==
    ASSUME NEW f, NEW S, IsFiniteSet(S), \A x \in S : f[x] \in Nat
    PROVE  SumFunctionOnSet(f, S) \in Nat
<1> DEFINE F == {T \in SUBSET S : SumFunctionOnSet(f, T) \in Nat}
<1>1. ASSUME NEW T \in SUBSET S, \A U \in SUBSET T : U # T => U \in F
      PROVE  T \in F
  <2>1. CASE T = {}
    BY <2>1, SumEmpty
  <2>2. CASE T # {}
    <3>1. Some(T) \in T /\ IsFiniteSet(T)
      BY <2>2, SomeIn, FS_Subset
    <3>2. T \ {Some(T)} \in F
      BY <1>1, <3>1
    <3>3. SumFunctionOnSet(f, T) = f[Some(T)] + SumFunctionOnSet(f, T \ {Some(T)})
      BY <2>2, <3>1, SumSome
    <3> QED
      BY <3>1, <3>2, <3>3
  <2> QED
    BY <2>1, <2>2
<1>2. \A T \in SUBSET S : T \in F
  <2> HIDE DEF F
  <2> QED
    BY <1>1, SubsetInduction
<1> QED
  BY <1>2

\* Any term, and the sum of the others.
LEMMA SumSplit ==
    ASSUME NEW f, NEW S, IsFiniteSet(S), \A x \in S : f[x] \in Int, NEW x \in S
    PROVE  SumFunctionOnSet(f, S) = f[x] + SumFunctionOnSet(f, S \ {x})
<1> DEFINE F == {T \in SUBSET S : \A y \in T :
                   SumFunctionOnSet(f, T) = f[y] + SumFunctionOnSet(f, T \ {y})}
<1>1. ASSUME NEW T \in SUBSET S, \A U \in SUBSET T : U # T => U \in F
      PROVE  T \in F
  <2> SUFFICES ASSUME NEW y \in T
               PROVE  SumFunctionOnSet(f, T) = f[y] + SumFunctionOnSet(f, T \ {y})
    OBVIOUS
  <2> DEFINE z == Some(T)
             R == T \ {z}
  <2>1. z \in T /\ IsFiniteSet(T)
    BY SomeIn, FS_Subset
  <2>2. SumFunctionOnSet(f, T) = f[z] + SumFunctionOnSet(f, R)
    BY <2>1, SumSome
  <2>3. CASE y = z
    BY <2>2, <2>3
  <2>4. CASE y # z
    <3> DEFINE Q == T \ {y}
               P == R \ {y}
    <3> HIDE DEF z
    <3>1. R \in F /\ Q \in F
      BY <1>1, <2>1
    <3>2. y \in R /\ z \in Q /\ Q \ {z} = P
      BY <2>1, <2>4
    <3>3. SumFunctionOnSet(f, R) = f[y] + SumFunctionOnSet(f, P)
      BY <3>1, <3>2
    <3>4. SumFunctionOnSet(f, Q) = f[z] + SumFunctionOnSet(f, P)
      BY <3>1, <3>2
    <3>5. IsFiniteSet(P) /\ \A w \in P : f[w] \in Int
      BY <2>1, FS_Subset
    <3> HIDE DEF P, Q, R
    <3>6. SumFunctionOnSet(f, P) \in Int
      BY <3>5, SumInt
    <3>7. f[y] \in Int /\ f[z] \in Int
      BY <2>1
    <3> QED
      BY <2>2, <3>3, <3>4, <3>6, <3>7 DEF Q
  <2> QED
    BY <2>3, <2>4
<1>2. \A T \in SUBSET S : T \in F
  <2> HIDE DEF F
  <2> QED
    BY <1>1, SubsetInduction
<1>3. S \in F
  BY <1>2
<1> QED
  BY <1>3

\* One more term.
LEMMA SumAdd ==
    ASSUME NEW f, NEW S, IsFiniteSet(S), NEW x, x \notin S,
           \A y \in S \cup {x} : f[y] \in Int
    PROVE  SumFunctionOnSet(f, S \cup {x}) = f[x] + SumFunctionOnSet(f, S)
<1>1. IsFiniteSet(S \cup {x})
  BY FS_AddElement
<1>2. (S \cup {x}) \ {x} = S
  OBVIOUS
<1> QED
  BY <1>1, <1>2, SumSplit

\* The terms in a part of the set, and the others.
LEMMA SumPart ==
    ASSUME NEW f, NEW S, IsFiniteSet(S), \A x \in S : f[x] \in Int, NEW R \in SUBSET S
    PROVE  SumFunctionOnSet(f, S) = SumFunctionOnSet(f, R) + SumFunctionOnSet(f, S \ R)
<1> DEFINE F == {T \in SUBSET S :
                   SumFunctionOnSet(f, S) = SumFunctionOnSet(f, T) + SumFunctionOnSet(f, S \ T)}
<1>1. ASSUME NEW T \in SUBSET S, \A U \in SUBSET T : U # T => U \in F
      PROVE  T \in F
  <2> SUFFICES SumFunctionOnSet(f, S) = SumFunctionOnSet(f, T) + SumFunctionOnSet(f, S \ T)
    OBVIOUS
  <2>1. CASE T = {}
    <3>1. S \ T = S
      BY <2>1
    <3>2. SumFunctionOnSet(f, S \ T) = SumFunctionOnSet(f, S) /\ SumFunctionOnSet(f, T) = 0
      BY <2>1, <3>1, SumEmpty, Zenon
    <3>3. SumFunctionOnSet(f, S) \in Int
      BY SumInt
    <3> QED
      BY <3>2, <3>3
  <2>2. CASE T # {}
    <3>1. PICK z : z \in T
      BY <2>2
    <3> DEFINE P == T \ {z}
               Q == S \ T
    <3>2. P \in F
      BY <1>1, <3>1
    <3>3. S \ P = Q \cup {z} /\ z \notin Q
      BY <3>1
    <3>4. /\ IsFiniteSet(T) /\ IsFiniteSet(P) /\ IsFiniteSet(Q)
          /\ \A x \in T : f[x] \in Int
          /\ \A x \in P : f[x] \in Int
          /\ \A x \in Q \cup {z} : f[x] \in Int
      BY <3>1, FS_Subset
    <3>5. SumFunctionOnSet(f, T) = f[z] + SumFunctionOnSet(f, P)
      BY <3>1, <3>4, SumSplit
    <3>6. SumFunctionOnSet(f, S) = SumFunctionOnSet(f, P) + SumFunctionOnSet(f, S \ P)
      BY <3>2
    <3>9. SumFunctionOnSet(f, S \ P) = SumFunctionOnSet(f, Q \cup {z})
      BY <3>3, Zenon
    <3>10. SumFunctionOnSet(f, S \ T) = SumFunctionOnSet(f, Q)
      OBVIOUS
    <3> HIDE DEF P, Q
    <3>7. SumFunctionOnSet(f, Q \cup {z}) = f[z] + SumFunctionOnSet(f, Q)
      BY <3>3, <3>4, SumAdd
    <3>8. SumFunctionOnSet(f, P) \in Int /\ SumFunctionOnSet(f, Q) \in Int /\ f[z] \in Int
      BY <3>1, <3>4, SumInt
    <3> QED
      BY <3>5, <3>6, <3>7, <3>8, <3>9, <3>10
  <2> QED
    BY <2>1, <2>2
<1>2. \A T \in SUBSET S : T \in F
  <2> HIDE DEF F
  <2> QED
    BY <1>1, SubsetInduction
<1> QED
  BY <1>2

\* The sum only looks at the terms.
LEMMA SumSame ==
    ASSUME NEW f, NEW g, NEW S, IsFiniteSet(S), \A x \in S : f[x] = g[x]
    PROVE  SumFunctionOnSet(f, S) = SumFunctionOnSet(g, S)
<1> DEFINE F == {T \in SUBSET S : SumFunctionOnSet(f, T) = SumFunctionOnSet(g, T)}
<1>1. ASSUME NEW T \in SUBSET S, \A U \in SUBSET T : U # T => U \in F
      PROVE  T \in F
  <2>1. CASE T = {}
    BY <2>1, SumEmpty
  <2>2. CASE T # {}
    <3>1. Some(T) \in T /\ IsFiniteSet(T)
      BY <2>2, SomeIn, FS_Subset
    <3>2. T \ {Some(T)} \in F
      BY <1>1, <3>1
    <3>3. /\ SumFunctionOnSet(f, T) = f[Some(T)] + SumFunctionOnSet(f, T \ {Some(T)})
          /\ SumFunctionOnSet(g, T) = g[Some(T)] + SumFunctionOnSet(g, T \ {Some(T)})
      BY <2>2, <3>1, SumSome
    <3> QED
      BY <3>1, <3>2, <3>3
  <2> QED
    BY <2>1, <2>2
<1>2. \A T \in SUBSET S : T \in F
  <2> HIDE DEF F
  <2> QED
    BY <1>1, SubsetInduction
<1> QED
  BY <1>2

\* One term changes.
LEMMA SumChange ==
    ASSUME NEW f, NEW g, NEW S, IsFiniteSet(S), NEW x \in S,
           \A y \in S : f[y] \in Int /\ g[y] \in Int,
           \A y \in S \ {x} : g[y] = f[y]
    PROVE  SumFunctionOnSet(g, S) = SumFunctionOnSet(f, S) + (g[x] - f[x])
<1> DEFINE R == S \ {x}
<1>1. IsFiniteSet(R) /\ \A y \in R : f[y] \in Int /\ f[y] = g[y]
  BY FS_RemoveElement
<1>2. /\ SumFunctionOnSet(f, S) = f[x] + SumFunctionOnSet(f, R)
      /\ SumFunctionOnSet(g, S) = g[x] + SumFunctionOnSet(g, R)
  BY SumSplit
<1>3. SumFunctionOnSet(f, R) = SumFunctionOnSet(g, R) /\ SumFunctionOnSet(f, R) \in Int
  <2> HIDE DEF R
  <2> QED
    BY <1>1, SumSame, SumInt
<1> HIDE DEF R
<1> QED
  BY <1>2, <1>3

LEMMA SumZero ==
    ASSUME NEW f, NEW S, IsFiniteSet(S), \A x \in S : f[x] = 0
    PROVE  SumFunctionOnSet(f, S) = 0
<1> DEFINE F == {T \in SUBSET S : SumFunctionOnSet(f, T) = 0}
<1>1. ASSUME NEW T \in SUBSET S, \A U \in SUBSET T : U # T => U \in F
      PROVE  T \in F
  <2>1. CASE T = {}
    BY <2>1, SumEmpty
  <2>2. CASE T # {}
    <3>1. Some(T) \in T /\ IsFiniteSet(T)
      BY <2>2, SomeIn, FS_Subset
    <3>2. T \ {Some(T)} \in F
      BY <1>1, <3>1
    <3>3. SumFunctionOnSet(f, T) = f[Some(T)] + SumFunctionOnSet(f, T \ {Some(T)})
      BY <2>2, <3>1, SumSome
    <3> QED
      BY <3>1, <3>2, <3>3
  <2> QED
    BY <2>1, <2>2
<1>2. \A T \in SUBSET S : T \in F
  <2> HIDE DEF F
  <2> QED
    BY <1>1, SubsetInduction
<1> QED
  BY <1>2

\* Term by term no larger.
LEMMA SumMonotonic ==
    ASSUME NEW f, NEW g, NEW S, IsFiniteSet(S),
           \A x \in S : f[x] \in Int /\ g[x] \in Int /\ f[x] <= g[x]
    PROVE  SumFunctionOnSet(f, S) <= SumFunctionOnSet(g, S)
<1> DEFINE F == {T \in SUBSET S : SumFunctionOnSet(f, T) <= SumFunctionOnSet(g, T)}
<1>1. ASSUME NEW T \in SUBSET S, \A U \in SUBSET T : U # T => U \in F
      PROVE  T \in F
  <2>1. CASE T = {}
    BY <2>1, SumEmpty
  <2>2. CASE T # {}
    <3> DEFINE R == T \ {Some(T)}
    <3>1. Some(T) \in T /\ IsFiniteSet(T) /\ IsFiniteSet(R)
      BY <2>2, SomeIn, FS_Subset
    <3>2. R \in F
      BY <1>1, <3>1
    <3>3. /\ SumFunctionOnSet(f, T) = f[Some(T)] + SumFunctionOnSet(f, R)
          /\ SumFunctionOnSet(g, T) = g[Some(T)] + SumFunctionOnSet(g, R)
      BY <2>2, <3>1, SumSome
    <3>4. SumFunctionOnSet(f, R) \in Int /\ SumFunctionOnSet(g, R) \in Int
      BY <3>1, SumInt
    <3> HIDE DEF R
    <3>5. f[Some(T)] \in Int /\ g[Some(T)] \in Int /\ f[Some(T)] <= g[Some(T)]
      BY <3>1
    <3>6. SumFunctionOnSet(f, R) <= SumFunctionOnSet(g, R)
      BY <3>2
    <3> QED
      BY <3>3, <3>4, <3>5, <3>6
  <2> QED
    BY <2>1, <2>2
<1>2. \A T \in SUBSET S : T \in F
  <2> HIDE DEF F
  <2> QED
    BY <1>1, SubsetInduction
<1> QED
  BY <1>2

\* Fewer terms, none of them negative, sum to no more.
LEMMA SumSubset ==
    ASSUME NEW f, NEW S, IsFiniteSet(S), \A x \in S : f[x] \in Nat, NEW T \in SUBSET S
    PROVE  SumFunctionOnSet(f, T) <= SumFunctionOnSet(f, S)
<1> DEFINE F == {U \in SUBSET S : \A V \in SUBSET U :
                   SumFunctionOnSet(f, V) <= SumFunctionOnSet(f, U)}
<1>1. ASSUME NEW U \in SUBSET S, \A W \in SUBSET U : W # U => W \in F
      PROVE  U \in F
  <2> SUFFICES ASSUME NEW V \in SUBSET U
               PROVE  SumFunctionOnSet(f, V) <= SumFunctionOnSet(f, U)
    OBVIOUS
  <2>0. /\ IsFiniteSet(U) /\ IsFiniteSet(V)
        /\ \A x \in U : f[x] \in Int
    BY FS_Subset
  <2>1. SumFunctionOnSet(f, U) \in Int /\ SumFunctionOnSet(f, V) \in Int
    BY <2>0, SumInt
  <2>2. CASE V = U
    BY <2>1, <2>2
  <2>3. CASE V # U
    <3>1. PICK z \in U : z \notin V
      BY <2>3
    <3> DEFINE W == U \ {z}
    <3>2. W \in F /\ V \in SUBSET W
      BY <1>1, <3>1
    <3>3. SumFunctionOnSet(f, V) <= SumFunctionOnSet(f, W)
      BY <3>2
    <3>4. SumFunctionOnSet(f, U) = f[z] + SumFunctionOnSet(f, W)
      BY <2>0, SumSplit
    <3>5. SumFunctionOnSet(f, W) \in Int /\ f[z] \in Nat
      <4>1. IsFiniteSet(W) /\ \A x \in W : f[x] \in Int
        BY <2>0, FS_RemoveElement
      <4> HIDE DEF W
      <4> QED
        BY <4>1, SumInt
    <3> HIDE DEF W
    <3> QED
      BY <2>1, <3>3, <3>4, <3>5
  <2> QED
    BY <2>2, <2>3
<1>2. \A U \in SUBSET S : U \in F
  <2> HIDE DEF F
  <2> QED
    BY <1>1, SubsetInduction
<1>3. S \in F
  BY <1>2
<1> QED
  BY <1>3
=============================================================================
