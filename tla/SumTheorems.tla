------------------------------ MODULE SumTheorems ------------------------------
(***************************************************************************)
(* What a sum over a finite set does: the balances, statements, reports,   *)
(* counters and days of the other modules are sums, by SumFunction and     *)
(* MapThenSumSet of the community modules.  Everything is derived from the *)
(* library's theorem that strict inclusion is well-founded on finite sets: *)
(* a claim that fails of some subset fails of a minimal one.               *)
(***************************************************************************)
EXTENDS Integers, Functions, FiniteSetTheorems, TLAPS
-------------------------------------------------------------------------------
\* Of the subsets of a finite set that have a property, one is minimal: it loses the
\* property with any of its elements.
LEMMA MinimalSubset ==
  ASSUME NEW S, IsFiniteSet(S), NEW B, B \subseteq SUBSET S, B # {}
  PROVE  \E T \in B : \A x \in T : T \ {x} \notin B
<1> DEFINE R == StrictSubsetOrdering(S)
           F == FiniteSubsetsOf(S)
<1>1. IsWellFoundedOn(R, F)
  BY FS_StrictSubsetOrderingWellFounded
<1>2. B \subseteq F
  BY FS_FiniteSubsetsOfFinite
<1>3. PICK T \in B : \A V \in B : ~ (<<V, T>> \in R)
  <2> HIDE DEF R, F
  <2> QED BY <1>1, <1>2, WFMin
<1>4. \A x \in T : T \ {x} \notin B
  BY <1>3 DEF StrictSubsetOrdering
<1> QED BY <1>4

\* Of a set of natural numbers that is not empty, one is the least.
LEMMA LeastNumber ==
  ASSUME NEW N, N \subseteq Nat, N # {}
  PROVE  \E n \in N : \A m \in N : n <= m
<1> DEFINE R == StrictSubsetOrdering(Nat)
           F == FiniteSubsetsOf(Nat)
           B == {1..n : n \in N}
<1>1. IsWellFoundedOn(R, F)
  BY FS_StrictSubsetOrderingWellFounded
<1>2. B \subseteq F /\ B # {}
  <2>1. \A n \in N : IsFiniteSet(1..n) /\ 1..n \subseteq Nat
    BY FS_Interval
  <2> QED BY <2>1 DEF FiniteSubsetsOf
<1>3. PICK T \in B : \A V \in B : ~ (<<V, T>> \in R)
  <2> HIDE DEF R, F, B
  <2> QED BY <1>1, <1>2, WFMin
<1>4. PICK n \in N : T = 1..n
  BY DEF B
<1>5. ASSUME NEW m \in N, m < n PROVE FALSE
  <2>1. 1..m \in B /\ ~(<<1..m, 1..n>> \in R)
    BY <1>3, <1>4
  <2>2. 1..m \subseteq 1..n /\ 1..m # 1..n
    BY <1>5
  <2> QED BY <2>1, <2>2 DEF StrictSubsetOrdering
<1> QED BY <1>5

\* What holds of 0, and of n + 1 below a bound if of n, holds up to the bound.
LEMMA UpToBound ==
  ASSUME NEW k \in Nat, NEW G, 0 \in G, \A n \in 0..(k - 1) : n \in G => n + 1 \in G
  PROVE  0..k \subseteq G
<1> SUFFICES ASSUME (0..k) \ G # {} PROVE FALSE
  OBVIOUS
<1>1. (0..k) \ G \subseteq Nat
  OBVIOUS
<1>2. PICK n \in (0..k) \ G : \A m \in (0..k) \ G : n <= m
  BY <1>1, LeastNumber
<1>3. n # 0 /\ n - 1 \in 0..(k - 1)
  BY <1>2
<1>4. n - 1 \in G
  BY <1>2, <1>3
<1> QED BY <1>2, <1>3, <1>4

First(s) == CHOOSE x \in s : TRUE

\* g is the function SumFunctionOnSet defines by recursion over the subsets of S.
Adds(g, f, S) ==
  g = [s \in SUBSET S |-> IF s = {} THEN 0 ELSE f[First(s)] + g[s \ {First(s)}]]

LEMMA SumIsChosen ==
  ASSUME NEW f, NEW S
  PROVE  SumFunctionOnSet(f, S) = (CHOOSE g : Adds(g, f, S))[S]
BY DEF SumFunctionOnSet, FoldFunctionOnSet, MapThenFoldSet, First, Adds

LEMMA FirstIn == ASSUME NEW s, s # {} PROVE First(s) \in s
BY DEF First

\* Two such functions agree where both are defined.
LEMMA AddsAgree ==
  ASSUME NEW S, IsFiniteSet(S), NEW f, NEW g, NEW h, NEW A, NEW C,
         Adds(g, f, A), Adds(h, f, C), S \subseteq A, S \subseteq C
  PROVE  g[S] = h[S]
<1> DEFINE B == {T \in SUBSET S : g[T] # h[T]}
<1> SUFFICES ASSUME B # {} PROVE FALSE
  OBVIOUS
<1>1. PICK T \in B : \A x \in T : T \ {x} \notin B
  <2> HIDE DEF B
  <2>1. B \subseteq SUBSET S
    BY DEF B
  <2> QED BY <2>1, MinimalSubset
<1>2. T \in SUBSET A /\ T \in SUBSET C
  OBVIOUS
<1>3. /\ g[T] = IF T = {} THEN 0 ELSE f[First(T)] + g[T \ {First(T)}]
      /\ h[T] = IF T = {} THEN 0 ELSE f[First(T)] + h[T \ {First(T)}]
  BY <1>2 DEF Adds
<1>4. T # {}
  BY <1>1, <1>3
<1>5. g[T \ {First(T)}] = h[T \ {First(T)}]
  BY <1>1, <1>4, FirstIn
<1> QED BY <1>1, <1>3, <1>4, <1>5

\* The restriction of such a function to fewer subsets is one.
LEMMA AddsBelow ==
  ASSUME NEW f, NEW g, NEW A, NEW C, Adds(g, f, A), C \subseteq A
  PROVE  Adds([s \in SUBSET C |-> g[s]], f, C)
<1> DEFINE h == [s \in SUBSET C |-> g[s]]
<1>1. ASSUME NEW s \in SUBSET C
      PROVE  h[s] = IF s = {} THEN 0 ELSE f[First(s)] + h[s \ {First(s)}]
  <2>1. s \in SUBSET A /\ s \ {First(s)} \in SUBSET C
    OBVIOUS
  <2>2. g[s] = IF s = {} THEN 0 ELSE f[First(s)] + g[s \ {First(s)}]
    BY <2>1 DEF Adds
  <2> QED BY <2>1, <2>2
<1> QED BY <1>1 DEF Adds

\* There is one for every finite set.
LEMMA AddsExists ==
  ASSUME NEW S, IsFiniteSet(S), NEW f
  PROVE  \E g : Adds(g, f, S)
<1> DEFINE B == {T \in SUBSET S : ~ \E g : Adds(g, f, T)}
           Total(s) == (CHOOSE g : Adds(g, f, s))[s]
<1> SUFFICES ASSUME B # {} PROVE FALSE
  OBVIOUS
<1>1. PICK T \in B : \A x \in T : T \ {x} \notin B
  <2> HIDE DEF B
  <2>1. B \subseteq SUBSET S
    BY DEF B
  <2> QED BY <2>1, MinimalSubset
<1>2. ASSUME NEW s \in SUBSET T, s # T PROVE \E g : Adds(g, f, s)
  <2>1. PICK x \in T : s \subseteq T \ {x}
    BY <1>2
  <2>2. PICK g : Adds(g, f, T \ {x})
    BY <1>1
  <2> QED BY <2>1, <2>2, AddsBelow
<1>3. ASSUME NEW s \in SUBSET T, s # T
      PROVE  Total(s) = IF s = {} THEN 0 ELSE f[First(s)] + Total(s \ {First(s)})
  <2>1. PICK g : g = (CHOOSE a : Adds(a, f, s)) /\ Adds(g, f, s)
    BY <1>2, <1>3
  <2>2. Total(s) = g[s]
    BY <2>1
  <2>3. g[s] = IF s = {} THEN 0 ELSE f[First(s)] + g[s \ {First(s)}]
    BY <2>1 DEF Adds
  <2>4. ASSUME s # {} PROVE g[s \ {First(s)}] = Total(s \ {First(s)})
    <3> DEFINE u == s \ {First(s)}
    <3>1. u \in SUBSET T /\ u # T /\ u \subseteq s
      BY <1>3
    <3>2. PICK h : h = (CHOOSE a : Adds(a, f, u)) /\ Adds(h, f, u)
      BY <1>2, <3>1
    <3>3. IsFiniteSet(u)
      BY <3>1, FS_Subset
    <3>4. g[u] = h[u]
      <4> HIDE DEF u, Total, B
      <4> QED BY <2>1, <3>1, <3>2, <3>3, AddsAgree
    <3> QED BY <3>2, <3>4
  <2> HIDE DEF Total, B
  <2> QED BY <2>2, <2>3, <2>4
<1> DEFINE h == [s \in SUBSET T |-> IF s = {} THEN 0 ELSE f[First(s)] + Total(s \ {First(s)})]
<1>4. ASSUME NEW s \in SUBSET T, s # {} PROVE h[s \ {First(s)}] = Total(s \ {First(s)})
  <2> DEFINE u == s \ {First(s)}
  <2>1. u \in SUBSET T /\ u # T
    BY <1>4, FirstIn
  <2>2. Total(u) = IF u = {} THEN 0 ELSE f[First(u)] + Total(u \ {First(u)})
    <3> HIDE DEF u, Total
    <3> QED BY <2>1, <1>3
  <2> HIDE DEF u, Total
  <2>3. h[u] = IF u = {} THEN 0 ELSE f[First(u)] + Total(u \ {First(u)})
    BY <2>1
  <2> QED BY <2>2, <2>3 DEF u
<1>5. h = [s \in SUBSET T |-> IF s = {} THEN 0 ELSE f[First(s)] + h[s \ {First(s)}]]
  <2> HIDE DEF Total, B
  <2>1. ASSUME NEW s \in SUBSET T
        PROVE  h[s] = IF s = {} THEN 0 ELSE f[First(s)] + h[s \ {First(s)}]
    BY <1>4
  <2> HIDE DEF h
  <2>2. DOMAIN h = SUBSET T /\ h = [s \in DOMAIN h |-> h[s]]
    BY DEF h
  <2> QED BY <2>1, <2>2
<1>6. Adds(h, f, T)
  <2> HIDE DEF h
  <2> QED BY <1>5 DEF Adds
<1> QED BY <1>6, <1>1

LEMMA SumEmpty ==
  ASSUME NEW f
  PROVE  SumFunctionOnSet(f, {}) = 0
<1>1. PICK g : g = (CHOOSE a : Adds(a, f, {})) /\ Adds(g, f, {})
  BY AddsExists, FS_EmptySet
<1>2. g[{}] = 0
  BY <1>1 DEF Adds
<1> QED BY <1>1, <1>2, SumIsChosen

LEMMA SumOfFirst ==
  ASSUME NEW f, NEW S, IsFiniteSet(S), S # {}
  PROVE  SumFunctionOnSet(f, S) = f[First(S)] + SumFunctionOnSet(f, S \ {First(S)})
<1> DEFINE U == S \ {First(S)}
<1>1. PICK g : g = (CHOOSE a : Adds(a, f, S)) /\ Adds(g, f, S)
  BY AddsExists
<1>2. IsFiniteSet(U) /\ U \subseteq S
  BY FS_Subset
<1>3. PICK h : h = (CHOOSE a : Adds(a, f, U)) /\ Adds(h, f, U)
  BY <1>2, AddsExists
<1>4. g[U] = h[U]
  <2> HIDE DEF U
  <2> QED BY <1>1, <1>2, <1>3, AddsAgree
<1>5. g[S] = f[First(S)] + g[U]
  BY <1>1 DEF Adds
<1> QED BY <1>1, <1>3, <1>4, <1>5, SumIsChosen

\* A sum of integers is an integer, a sum of natural numbers a natural number.
LEMMA SumTyped ==
  ASSUME NEW f, NEW S, IsFiniteSet(S), \A x \in S : f[x] \in Int
  PROVE  /\ SumFunctionOnSet(f, S) \in Int
         /\ (\A x \in S : f[x] >= 0) => SumFunctionOnSet(f, S) \in Nat
<1> DEFINE Good(T) == /\ SumFunctionOnSet(f, T) \in Int
                      /\ (\A x \in T : f[x] >= 0) => SumFunctionOnSet(f, T) \in Nat
           B == {T \in SUBSET S : ~Good(T)}
<1> SUFFICES ASSUME B # {} PROVE FALSE
  OBVIOUS
<1>1. PICK T \in B : \A x \in T : T \ {x} \notin B
  <2> HIDE DEF B
  <2>1. B \subseteq SUBSET S
    BY DEF B
  <2> QED BY <2>1, MinimalSubset
<1>2. T # {}
  BY SumEmpty
<1>3. First(T) \in T /\ IsFiniteSet(T)
  BY <1>2, FirstIn, FS_Subset
<1>4. Good(T \ {First(T)})
  BY <1>1, <1>3
<1>5. SumFunctionOnSet(f, T) = f[First(T)] + SumFunctionOnSet(f, T \ {First(T)})
  BY <1>2, <1>3, SumOfFirst
<1>6. Good(T)
  BY <1>3, <1>4, <1>5
<1> QED BY <1>6

\* Any element may be taken out first.
LEMMA SumStep ==
  ASSUME NEW f, NEW S, IsFiniteSet(S), \A x \in S : f[x] \in Int, NEW x \in S
  PROVE  SumFunctionOnSet(f, S) = f[x] + SumFunctionOnSet(f, S \ {x})
<1> DEFINE Sum(T) == SumFunctionOnSet(f, T)
           B == {T \in SUBSET S : \E y \in T : Sum(T) # f[y] + Sum(T \ {y})}
<1> SUFFICES ASSUME B # {} PROVE FALSE
  OBVIOUS
<1>1. PICK T \in B : \A y \in T : T \ {y} \notin B
  <2> HIDE DEF B
  <2>1. B \subseteq SUBSET S
    BY DEF B
  <2> QED BY <2>1, MinimalSubset
<1>2. PICK y \in T : Sum(T) # f[y] + Sum(T \ {y})
  BY <1>1
<1> DEFINE z == First(T)
<1>3. z \in T /\ IsFiniteSet(T)
  BY FirstIn, FS_Subset
<1>4. Sum(T) = f[z] + Sum(T \ {z})
  BY <1>3, SumOfFirst
<1>5. y # z
  BY <1>2, <1>4
<1> DEFINE u == (T \ {z}) \ {y}
<1>6. Sum(T \ {z}) = f[y] + Sum(u)
  BY <1>1, <1>3, <1>5
<1>7. Sum(T \ {y}) = f[z] + Sum(u)
  <2>1. u = (T \ {y}) \ {z}
    OBVIOUS
  <2>2. Sum(T \ {y}) = f[z] + Sum((T \ {y}) \ {z})
    BY <1>1, <1>3, <1>5
  <2> QED BY <2>1, <2>2
<1>8. Sum(u) \in Int
  <2>1. IsFiniteSet(u) /\ u \subseteq S
    BY <1>3, FS_Subset
  <2> QED BY <2>1, SumTyped
<1>9. f[y] \in Int /\ f[z] \in Int
  BY <1>3
<1> HIDE DEF z, u, B
<1> QED BY <1>2, <1>4, <1>6, <1>7, <1>8, <1>9

\* A sum depends on the values it adds up.
LEMMA SumSame ==
  ASSUME NEW S, IsFiniteSet(S), NEW f, NEW g, \A x \in S : f[x] = g[x]
  PROVE  SumFunctionOnSet(f, S) = SumFunctionOnSet(g, S)
<1> DEFINE B == {T \in SUBSET S : SumFunctionOnSet(f, T) # SumFunctionOnSet(g, T)}
<1> SUFFICES ASSUME B # {} PROVE FALSE
  OBVIOUS
<1>1. PICK T \in B : \A x \in T : T \ {x} \notin B
  <2> HIDE DEF B
  <2>1. B \subseteq SUBSET S
    BY DEF B
  <2> QED BY <2>1, MinimalSubset
<1>2. T # {}
  BY SumEmpty
<1>3. First(T) \in T /\ IsFiniteSet(T)
  BY <1>2, FirstIn, FS_Subset
<1>4. SumFunctionOnSet(f, T \ {First(T)}) = SumFunctionOnSet(g, T \ {First(T)})
  BY <1>1, <1>3
<1> QED BY <1>1, <1>2, <1>3, <1>4, SumOfFirst

\* One more, or one less, at one place.
LEMMA SumChange ==
  ASSUME NEW S, IsFiniteSet(S), NEW f, NEW g, NEW x \in S,
         \A y \in S : f[y] \in Int /\ g[y] \in Int, \A y \in S \ {x} : f[y] = g[y]
  PROVE  SumFunctionOnSet(g, S) = SumFunctionOnSet(f, S) + (g[x] - f[x])
<1>1. IsFiniteSet(S \ {x})
  BY FS_Subset
<1>2. SumFunctionOnSet(f, S \ {x}) = SumFunctionOnSet(g, S \ {x}) /\ SumFunctionOnSet(f, S \ {x}) \in Int
  BY <1>1, SumSame, SumTyped
<1>3. SumFunctionOnSet(f, S) = f[x] + SumFunctionOnSet(f, S \ {x})
  BY SumStep
<1>4. SumFunctionOnSet(g, S) = g[x] + SumFunctionOnSet(g, S \ {x})
  BY SumStep
<1> QED BY <1>2, <1>3, <1>4

\* The sum of differences is the difference of the sums.
LEMMA SumMinus ==
  ASSUME NEW S, IsFiniteSet(S), NEW f, NEW g, NEW h,
         \A x \in S : f[x] \in Int /\ g[x] \in Int /\ h[x] = f[x] - g[x]
  PROVE  SumFunctionOnSet(h, S) = SumFunctionOnSet(f, S) - SumFunctionOnSet(g, S)
<1> DEFINE B == {T \in SUBSET S : SumFunctionOnSet(h, T) # SumFunctionOnSet(f, T) - SumFunctionOnSet(g, T)}
<1> SUFFICES ASSUME B # {} PROVE FALSE
  OBVIOUS
<1>1. PICK T \in B : \A x \in T : T \ {x} \notin B
  <2> HIDE DEF B
  <2>1. B \subseteq SUBSET S
    BY DEF B
  <2> QED BY <2>1, MinimalSubset
<1>2. T # {}
  BY SumEmpty
<1> DEFINE z == First(T)
           U == T \ {z}
<1>3. z \in T /\ IsFiniteSet(T) /\ IsFiniteSet(U) /\ U \subseteq S
  BY <1>2, FirstIn, FS_Subset
<1>4. SumFunctionOnSet(h, U) = SumFunctionOnSet(f, U) - SumFunctionOnSet(g, U)
  BY <1>1, <1>3
<1>5. /\ SumFunctionOnSet(f, T) = f[z] + SumFunctionOnSet(f, U)
      /\ SumFunctionOnSet(g, T) = g[z] + SumFunctionOnSet(g, U)
      /\ SumFunctionOnSet(h, T) = h[z] + SumFunctionOnSet(h, U)
  BY <1>2, <1>3, SumOfFirst
<1>6. SumFunctionOnSet(f, U) \in Int /\ SumFunctionOnSet(g, U) \in Int
  BY <1>3, SumTyped
<1>7. f[z] \in Int /\ g[z] \in Int /\ h[z] = f[z] - g[z]
  BY <1>3
<1>8. SumFunctionOnSet(h, T) = SumFunctionOnSet(f, T) - SumFunctionOnSet(g, T)
  <2> HIDE DEF z, U
  <2> QED BY <1>4, <1>5, <1>6, <1>7
<1> QED BY <1>1, <1>8

LEMMA SumZero ==
  ASSUME NEW S, IsFiniteSet(S), NEW f, \A x \in S : f[x] = 0
  PROVE  SumFunctionOnSet(f, S) = 0
<1>1. SumFunctionOnSet(f, S) = SumFunctionOnSet(f, S) - SumFunctionOnSet(f, S)
  BY SumMinus
<1> QED BY <1>1, SumTyped

\* An element added adds its value.
LEMMA SumAdd ==
  ASSUME NEW S, IsFiniteSet(S), NEW f, NEW x, x \notin S, \A y \in S \cup {x} : f[y] \in Int
  PROVE  SumFunctionOnSet(f, S \cup {x}) = SumFunctionOnSet(f, S) + f[x]
<1> DEFINE U == S \cup {x}
<1>1. IsFiniteSet(U) /\ x \in U /\ U \ {x} = S
  BY FS_AddElement
<1>2. \A y \in U : f[y] \in Int
  OBVIOUS
<1> HIDE DEF U
<1>3. SumFunctionOnSet(f, U) = f[x] + SumFunctionOnSet(f, U \ {x})
  BY <1>1, <1>2, SumStep
<1>4. SumFunctionOnSet(f, S) \in Int /\ f[x] \in Int
  <2>1. \A y \in S : f[y] \in Int
    OBVIOUS
  <2> QED BY <2>1, <1>1, <1>2, SumTyped
<1>6. SumFunctionOnSet(f, U) = f[x] + SumFunctionOnSet(f, S)
  BY <1>1, <1>3, Zenon
<1>5. SumFunctionOnSet(f, U) = SumFunctionOnSet(f, S) + f[x]
  BY <1>4, <1>6
<1> QED BY <1>5 DEF U

\* Two disjoint sets add up to their union.
LEMMA SumUnion ==
  ASSUME NEW S, IsFiniteSet(S), NEW U, IsFiniteSet(U), S \cap U = {}, NEW f,
         \A y \in S \cup U : f[y] \in Int
  PROVE  SumFunctionOnSet(f, S \cup U) = SumFunctionOnSet(f, S) + SumFunctionOnSet(f, U)
<1> DEFINE Sum(T) == SumFunctionOnSet(f, T)
           B == {T \in SUBSET U : Sum(S \cup T) # Sum(S) + Sum(T)}
<1>0. ASSUME NEW T \in SUBSET U
      PROVE  IsFiniteSet(T) /\ IsFiniteSet(S \cup T) /\ Sum(T) \in Int /\ Sum(S) \in Int
  <2>1. IsFiniteSet(T) /\ IsFiniteSet(S \cup T)
    BY FS_Subset, FS_Union
  <2>2. (\A y \in T : f[y] \in Int) /\ \A y \in S : f[y] \in Int
    OBVIOUS
  <2> QED BY <2>1, <2>2, SumTyped
<1> SUFFICES ASSUME B # {} PROVE FALSE
  OBVIOUS
<1>1. PICK T \in B : \A y \in T : T \ {y} \notin B
  <2> HIDE DEF B
  <2>1. B \subseteq SUBSET U
    BY DEF B
  <2> QED BY <2>1, MinimalSubset
<1>2. CASE T = {}
  <2>1. S \cup T = S /\ Sum(T) = 0 /\ Sum(S) \in Int
    BY <1>2, <1>0, SumEmpty
  <2>2. Sum(S \cup T) = Sum(S) + Sum(T)
    <3>1. \A i \in Int : i + 0 = i
      OBVIOUS
    <3> QED BY <2>1, <3>1, Zenon
  <2> QED BY <2>2, <1>1
<1>3. CASE T # {}
  <2>1. PICK x \in T : TRUE
    BY <1>3
  <2> DEFINE V == T \ {x}
             W == S \cup V
  <2>2. V \in SUBSET U /\ x \notin V /\ x \notin W /\ V \cup {x} = T /\ W \cup {x} = S \cup T /\ f[x] \in Int
    BY <1>1, <2>1
  <2>3. Sum(W) = Sum(S) + Sum(V)
    BY <1>1, <2>1, <2>2
  <2>4. IsFiniteSet(V) /\ IsFiniteSet(W) /\ Sum(V) \in Int /\ Sum(S) \in Int
    BY <2>2, <1>0
  <2>5. (\A y \in V \cup {x} : f[y] \in Int) /\ \A y \in W \cup {x} : f[y] \in Int
    BY <2>2
  <2> HIDE DEF V, W, B
  <2>6. Sum(V \cup {x}) = Sum(V) + f[x]
    BY <2>2, <2>4, <2>5, SumAdd
  <2>7. Sum(W \cup {x}) = Sum(W) + f[x]
    BY <2>2, <2>4, <2>5, SumAdd
  <2>8. Sum(S \cup T) = Sum(S) + Sum(T)
    <3>1. Sum(T) = Sum(V) + f[x] /\ Sum(S \cup T) = Sum(W) + f[x]
      BY <2>2, <2>6, <2>7
    <3>2. Sum(S \cup T) = (Sum(S) + Sum(V)) + f[x]
      BY <3>1, <2>3
    <3>3. \A i, j, k \in Int : (i + j) + k = i + (j + k)
      OBVIOUS
    <3>4. (Sum(S) + Sum(V)) + f[x] = Sum(S) + (Sum(V) + f[x])
      BY <3>3, <2>2, <2>4
    <3> QED BY <3>1, <3>2, <3>4, Zenon
  <2> QED BY <2>8, <1>1 DEF B
<1> QED BY <1>2, <1>3
===============================================================================
