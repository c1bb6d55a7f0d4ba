------------------------------ MODULE SumProofs ------------------------------
(***************************************************************************)
(* Least numbers, induction over numbers and over finite sets, and sums:   *)
(* the lemmas that proofs about folds rest on.                             *)
(***************************************************************************)
EXTENDS FiniteSetsExt, FiniteSetTheorems, TLAPS

-----------------------------------------------------------------------------
(* Induction *)

\* A set of natural numbers has a least one.
LEMMA LeastOf ==
  ASSUME NEW S \in SUBSET Nat, S # {}
  PROVE  \E n \in S : \A m \in S : n <= m
<1> DEFINE R == OpToRel(<, Nat)
<1>1. \A m, n \in Nat : m < n => <<m, n>> \in R
  BY DEF OpToRel
<1>2. IsWellFoundedOn(R, Nat)
  BY NatLessThanWellFounded
<1> HIDE DEF R
<1>3. PICK n \in S : \A m \in S : ~(<<m, n>> \in R)
  BY <1>2, WFMin
<1>4. \A m \in S : ~(m < n)
  BY <1>1, <1>3, Zenon
<1>5. n \in Nat /\ \A m \in S : m \in Nat
  OBVIOUS
<1> QED BY <1>3, <1>4, <1>5

\* A set of numbers from 0 to n that has 0 and with each number the next has
\* all of them.
LEMMA CountUp ==
  ASSUME NEW n \in Nat, NEW P \in SUBSET (0 .. n), 0 \in P,
         \A k \in P : k < n => k + 1 \in P
  PROVE  n \in P
<1> DEFINE Missing == (0 .. n) \ P
<1> SUFFICES Missing = {}
  OBVIOUS
<1> SUFFICES ASSUME Missing # {} PROVE FALSE
  OBVIOUS
<1>1. Missing \in SUBSET Nat
  OBVIOUS
<1>2. PICK k \in Missing : \A m \in Missing : k <= m
  <2> HIDE DEF Missing
  <2> QED BY <1>1, LeastOf
<1>3. k \in 1 .. n /\ k - 1 \in P
  BY <1>2
<1> QED BY <1>2, <1>3

\* A set of subsets of S that has the empty one, and with each one that larger
\* by an element, has S.
LEMMA AddUp ==
  ASSUME NEW S, IsFiniteSet(S), NEW P \in SUBSET (SUBSET S), {} \in P,
         \A T \in P : \A x \in S \ T : T \cup {x} \in P
  PROVE  S \in P
<1> DEFINE n     == Cardinality(S)
           Sizes == {k \in 0 .. n : \E T \in P : Cardinality(T) = k}
<1>1. n \in Nat
  BY FS_CardinalityType
<1>2. \A T \in P : IsFiniteSet(T) /\ Cardinality(T) \in Nat
  BY FS_Subset, FS_CardinalityType
<1>3. 0 \in Sizes
  BY <1>1, FS_EmptySet
<1>4. ASSUME NEW k \in Sizes, k < n PROVE k + 1 \in Sizes
  <2>1. PICK T \in P : Cardinality(T) = k
    OBVIOUS
  <2>2. PICK x \in S : x \notin T
    BY <1>4, <2>1
  <2>3. Cardinality(T \cup {x}) = k + 1
    BY <1>2, <2>1, <2>2, FS_AddElement
  <2> QED BY <1>1, <1>4, <2>2, <2>3
<1>5. n \in Sizes
  <2> HIDE DEF n, Sizes
  <2>1. Sizes \in SUBSET (0 .. n)
    BY DEF Sizes
  <2> QED BY <1>1, <1>3, <1>4, <2>1, CountUp
<1>6. PICK T \in P : Cardinality(T) = Cardinality(S)
  BY <1>5
<1> QED BY <1>6, FS_Subset

-----------------------------------------------------------------------------
(* Sums *)

\* The element a fold takes next, and the partial sums of f over the subsets of
\* S in the order in which a fold takes them.
Pick(s) == CHOOSE x \in s : TRUE

IsSum(f, S, g) ==
  g = [s \in SUBSET S |-> IF s = {} THEN 0 ELSE f[Pick(s)] + g[s \ {Pick(s)}]]

LEMMA SumIs ==
  ASSUME NEW f, NEW S
  PROVE  SumFunctionOnSet(f, S) = (CHOOSE g : IsSum(f, S, g))[S]
BY DEF SumFunctionOnSet, FoldFunctionOnSet, MapThenFoldSet, IsSum, Pick


\* The equation of a fold has a solution: the partial sums of the sets of up to
\* k elements give those of k + 1.
LEMMA SumExists ==
  ASSUME NEW f, NEW S, IsFiniteSet(S)
  PROVE  \E g : IsSum(f, S, g)
<1> DEFINE After(g, s) == IF s = {} THEN 0 ELSE f[Pick(s)] + g[s \ {Pick(s)}]
           UpTo(g, k)  == /\ g = [s \in SUBSET S |-> g[s]]
                          /\ \A s \in SUBSET S : Cardinality(s) <= k => g[s] = After(g, s)
           n           == Cardinality(S)
           P           == {k \in 0 .. n : \E g : UpTo(g, k)}
<1>1. n \in Nat /\ \A s \in SUBSET S : IsFiniteSet(s) /\ Cardinality(s) \in 0 .. n
  BY FS_CardinalityType, FS_Subset
<1>2. 0 \in P
  <2> DEFINE g == [s \in SUBSET S |-> 0]
  <2>1. \A s \in SUBSET S : Cardinality(s) <= 0 => s = {}
    BY <1>1, FS_EmptySet
  <2>2. g = [s \in SUBSET S |-> g[s]]
    OBVIOUS
  <2>3. \A s \in SUBSET S : Cardinality(s) <= 0 => g[s] = After(g, s)
    BY <2>1
  <2> HIDE DEF g, After
  <2>4. UpTo(g, 0)
    BY <2>2, <2>3
  <2> HIDE DEF UpTo
  <2> QED BY <1>1, <2>4
<1>3. ASSUME NEW k \in P, k < n PROVE k + 1 \in P
  <2>1. PICK g : UpTo(g, k)
    OBVIOUS
  <2> DEFINE h == [s \in SUBSET S |-> After(g, s)]
  <2>2. ASSUME NEW s \in SUBSET S, Cardinality(s) <= k + 1, s # {}
        PROVE  h[s] = f[Pick(s)] + h[s \ {Pick(s)}]
    <3> DEFINE t == s \ {Pick(s)}
    <3>1. Pick(s) \in s
      BY <2>2 DEF Pick
    <3>2. t \in SUBSET S /\ Cardinality(t) <= k
      BY <1>1, <2>2, <3>1, FS_RemoveElement
    <3>3. g[t] = After(g, t)
      BY <2>1, <3>2
    <3>4. h[t] = After(g, t)
      BY <3>2
    <3>5. h[s] = f[Pick(s)] + g[t]
      BY <2>2
    <3> HIDE DEF h, t, After
    <3>6. h[s] = f[Pick(s)] + h[t]
      BY <3>3, <3>4, <3>5
    <3> QED BY <3>6 DEF t
  <2>3. \A s \in SUBSET S : s = {} => h[s] = 0
    OBVIOUS
  <2>4. h = [s \in SUBSET S |-> h[s]]
    OBVIOUS
  <2> HIDE DEF h
  <2>5. \A s \in SUBSET S : Cardinality(s) <= k + 1 => h[s] = After(h, s)
    BY <2>2, <2>3
  <2> HIDE DEF After
  <2>6. UpTo(h, k + 1)
    BY <2>4, <2>5
  <2>7. k + 1 \in 0 .. n
    BY <1>1, <1>3
  <2> HIDE DEF UpTo, n
  <2> QED BY <2>6, <2>7
<1>4. n \in P
  <2> HIDE DEF n, P
  <2>1. P \in SUBSET (0 .. n)
    BY DEF P
  <2> QED BY <1>1, <1>2, <1>3, <2>1, CountUp
<1>5. PICK g : UpTo(g, n)
  BY <1>4
<1>6. \A s \in SUBSET S : g[s] = After(g, s)
  <2> HIDE DEF After
  <2>1. \A s \in SUBSET S : Cardinality(s) <= n
    BY <1>1
  <2> QED BY <1>5, <2>1
<1>7. g = [s \in SUBSET S |-> After(g, s)]
  <2>1. g = [s \in SUBSET S |-> g[s]]
    BY <1>5
  <2> HIDE DEF After
  <2> QED BY <1>6, <2>1
<1> QED BY <1>7 DEF IsSum

\* and for functions that agree on T all solutions agree on it.
LEMMA SumAgrees ==
  ASSUME NEW f, NEW S, NEW g, IsSum(f, S, g),
         NEW e, NEW T \in SUBSET S, NEW h, IsSum(e, T, h),
         IsFiniteSet(T), \A x \in T : e[x] = f[x]
  PROVE  g[T] = h[T]
<1> DEFINE n == Cardinality(T)
           P == {k \in 0 .. n : \A s \in SUBSET T : Cardinality(s) <= k => g[s] = h[s]}
<1>1. n \in Nat /\ \A s \in SUBSET T : IsFiniteSet(s) /\ Cardinality(s) \in 0 .. n
  BY FS_CardinalityType, FS_Subset
<1>2. \A s \in SUBSET T : s = {} => g[s] = 0 /\ h[s] = 0
  BY Zenon DEF IsSum
<1>3. \A s \in SUBSET T : s # {} => /\ g[s] = f[Pick(s)] + g[s \ {Pick(s)}]
                                    /\ h[s] = e[Pick(s)] + h[s \ {Pick(s)}]
  BY DEF IsSum
<1>4. 0 \in P
  BY <1>1, <1>2, FS_EmptySet
<1>5. ASSUME NEW k \in P, k < n PROVE k + 1 \in P
  <2>1. ASSUME NEW s \in SUBSET T, Cardinality(s) <= k + 1, s # {}
        PROVE  g[s] = h[s]
    <3>1. Pick(s) \in s
      BY <2>1 DEF Pick
    <3>2. s \ {Pick(s)} \in SUBSET T /\ Cardinality(s \ {Pick(s)}) <= k
      BY <1>1, <2>1, <3>1, FS_RemoveElement
    <3>3. g[s \ {Pick(s)}] = h[s \ {Pick(s)}] /\ e[Pick(s)] = f[Pick(s)]
      BY <3>1, <3>2
    <3> QED BY <1>3, <2>1, <3>3
  <2>2. \A s \in SUBSET T : Cardinality(s) <= k + 1 => g[s] = h[s]
    BY <1>2, <2>1
  <2>3. k + 1 \in 0 .. n
    BY <1>1, <1>5
  <2> HIDE DEF n
  <2> QED BY <2>2, <2>3
<1>6. n \in P
  <2> HIDE DEF n, P
  <2>1. P \in SUBSET (0 .. n)
    BY DEF P
  <2> QED BY <1>1, <1>4, <1>5, <2>1, CountUp
<1> QED BY <1>6, <1>1

\* A sum depends only on what is summed.
LEMMA SumSame ==
  ASSUME NEW S, IsFiniteSet(S), NEW f, NEW g, \A x \in S : f[x] = g[x]
  PROVE  SumFunctionOnSet(f, S) = SumFunctionOnSet(g, S)
<1>1. \E h : IsSum(f, S, h)
  BY SumExists
<1>2. \E h : IsSum(g, S, h)
  BY SumExists
<1> QED BY <1>1, <1>2, SumAgrees, SumIs

\* The sum of nothing is 0, and else that of an element and the rest.
LEMMA SumTakes ==
  ASSUME NEW f, NEW S, IsFiniteSet(S)
  PROVE  SumFunctionOnSet(f, S) =
           IF S = {} THEN 0 ELSE f[Pick(S)] + SumFunctionOnSet(f, S \ {Pick(S)})
<1> DEFINE g    == CHOOSE h : IsSum(f, S, h)
           rest == S \ {Pick(S)}
           k    == CHOOSE h : IsSum(f, rest, h)
<1>1. IsSum(f, S, g)
  BY SumExists
<1>2. IsFiniteSet(rest)
  BY FS_RemoveElement
<1>3. IsSum(f, rest, k)
  BY <1>2, SumExists
<1>4. SumFunctionOnSet(f, S) = g[S] /\ SumFunctionOnSet(f, rest) = k[rest]
  BY SumIs
<1> HIDE DEF g, k
<1>5. g[S] = IF S = {} THEN 0 ELSE f[Pick(S)] + g[rest]
  BY <1>1 DEF IsSum
<1>6. g[rest] = k[rest]
  <2> HIDE DEF rest
  <2>1. rest \in SUBSET S
    BY DEF rest
  <2> QED BY <1>1, <1>2, <1>3, <2>1, SumAgrees
<1> QED BY <1>4, <1>5, <1>6

LEMMA SumEmpty ==
  ASSUME NEW f
  PROVE  SumFunctionOnSet(f, {}) = 0
BY SumTakes, FS_EmptySet

\* A sum of numbers is a number.
LEMMA SumTyped ==
  ASSUME NEW S, IsFiniteSet(S), NEW f, NEW N \in {Nat, Int}, \A x \in S : f[x] \in N
  PROVE  SumFunctionOnSet(f, S) \in N
<1> DEFINE n == Cardinality(S)
           P == {k \in 0 .. n : \A T \in SUBSET S :
                   Cardinality(T) <= k => SumFunctionOnSet(f, T) \in N}
<1>1. n \in Nat /\ \A T \in SUBSET S : IsFiniteSet(T) /\ Cardinality(T) \in 0 .. n
  BY FS_CardinalityType, FS_Subset
<1>2. 0 \in P
  BY <1>1, FS_EmptySet, SumEmpty
<1>3. ASSUME NEW k \in P, k < n PROVE k + 1 \in P
  <2>1. ASSUME NEW T \in SUBSET S, Cardinality(T) <= k + 1, T # {}
        PROVE  SumFunctionOnSet(f, T) \in N
    <3> DEFINE x == Pick(T)
               U == T \ {x}
    <3>1. x \in T
      BY <2>1 DEF Pick
    <3>2. U \in SUBSET S /\ Cardinality(U) <= k
      BY <1>1, <2>1, <3>1, FS_RemoveElement
    <3>3. SumFunctionOnSet(f, U) \in N
      BY <3>2
    <3>4. SumFunctionOnSet(f, T) = f[x] + SumFunctionOnSet(f, U)
      BY <1>1, <2>1, SumTakes
    <3>5. f[x] \in N
      BY <3>1
    <3> HIDE DEF x, U
    <3>6. \A a, b \in N : a + b \in N
      OBVIOUS
    <3> QED BY <3>3, <3>4, <3>5, <3>6
  <2>2. \A T \in SUBSET S : Cardinality(T) <= k + 1 => SumFunctionOnSet(f, T) \in N
    BY <2>1, SumEmpty
  <2>3. k + 1 \in 0 .. n
    BY <1>1, <1>3
  <2> HIDE DEF n
  <2> QED BY <2>2, <2>3
<1>4. n \in P
  <2> HIDE DEF n, P
  <2>1. P \in SUBSET (0 .. n)
    BY DEF P
  <2> QED BY <1>1, <1>2, <1>3, <2>1, CountUp
<1> QED BY <1>1, <1>4

\* Any element may be taken first.
LEMMA SumSplits ==
  ASSUME NEW S, IsFiniteSet(S), NEW f, \A x \in S : f[x] \in Int, NEW y \in S
  PROVE  SumFunctionOnSet(f, S) = f[y] + SumFunctionOnSet(f, S \ {y})
<1> DEFINE n == Cardinality(S)
           Splits(T) == \A x \in T :
             SumFunctionOnSet(f, T) = f[x] + SumFunctionOnSet(f, T \ {x})
           P == {k \in 0 .. n : \A T \in SUBSET S : Cardinality(T) <= k => Splits(T)}
<1>1. n \in Nat /\ \A T \in SUBSET S : IsFiniteSet(T) /\ Cardinality(T) \in 0 .. n
  BY FS_CardinalityType, FS_Subset
<1>2. 0 \in P
  BY <1>1, FS_EmptySet
<1>3. ASSUME NEW k \in P, k < n PROVE k + 1 \in P
  <2>1. ASSUME NEW T \in SUBSET S, Cardinality(T) <= k + 1, NEW x \in T
        PROVE  SumFunctionOnSet(f, T) = f[x] + SumFunctionOnSet(f, T \ {x})
    <3> DEFINE p == Pick(T)
               U == T \ {p}
               V == T \ {x}
               W == U \ {x}
    <3>1. p \in T
      BY <2>1 DEF Pick
    <3>2. \A z \in T : T \ {z} \in SUBSET S /\ Cardinality(T \ {z}) <= k
      BY <1>1, <2>1, FS_RemoveElement
    <3>3. SumFunctionOnSet(f, T) = f[p] + SumFunctionOnSet(f, U)
      BY <1>1, <2>1, SumTakes
    <3>4. CASE x = p
      BY <3>3, <3>4
    <3>5. CASE x # p
      <4>1. Splits(U) /\ Splits(V)
        BY <2>1, <3>1, <3>2
      <4>2. SumFunctionOnSet(f, U) = f[x] + SumFunctionOnSet(f, W)
        BY <3>5, <4>1
      <4>3. W = V \ {p}
        OBVIOUS
      <4>4. SumFunctionOnSet(f, V) = f[p] + SumFunctionOnSet(f, W)
        BY <3>1, <3>5, <4>1, <4>3
      <4>5. W \in SUBSET S /\ IsFiniteSet(W) /\ \A z \in W : f[z] \in Int
        BY <1>1
      <4>6. SumFunctionOnSet(f, W) \in Int
        <5> HIDE DEF W
        <5> QED BY <4>5, SumTyped
      <4>7. f[x] \in Int /\ f[p] \in Int
        BY <3>1
      <4> HIDE DEF p, U, V, W
      <4>8. SumFunctionOnSet(f, T) = f[x] + SumFunctionOnSet(f, V)
        BY <3>3, <4>2, <4>4, <4>6, <4>7
      <4> QED BY <4>8 DEF V
    <3> QED BY <3>4, <3>5
  <2>2. \A T \in SUBSET S : Cardinality(T) <= k + 1 => Splits(T)
    BY <2>1
  <2>3. k + 1 \in 0 .. n
    BY <1>1, <1>3
  <2> HIDE DEF n, Splits
  <2> QED BY <2>2, <2>3
<1>4. n \in P
  <2> HIDE DEF n, P
  <2>1. P \in SUBSET (0 .. n)
    BY DEF P
  <2> QED BY <1>1, <1>2, <1>3, <2>1, CountUp
<1>5. Splits(S)
  <2> HIDE DEF Splits
  <2> QED BY <1>1, <1>4
<1> QED BY <1>5

LEMMA SumAdds ==
  ASSUME NEW S, IsFiniteSet(S), NEW f, NEW y, y \notin S,
         \A x \in S : f[x] \in Int, f[y] \in Int
  PROVE  SumFunctionOnSet(f, S \cup {y}) = SumFunctionOnSet(f, S) + f[y]
<1> DEFINE T == S \cup {y}
<1>1. IsFiniteSet(T) /\ y \in T /\ T \ {y} = S /\ \A x \in T : f[x] \in Int
  BY FS_AddElement
<1> HIDE DEF T
<1>2. SumFunctionOnSet(f, T) = f[y] + SumFunctionOnSet(f, T \ {y})
  BY <1>1, SumSplits
<1>3. SumFunctionOnSet(f, S) \in Int
  BY SumTyped
<1>4. SumFunctionOnSet(f, T) = f[y] + SumFunctionOnSet(f, S)
  BY <1>1, <1>2, Zenon
<1>5. f[y] + SumFunctionOnSet(f, S) = SumFunctionOnSet(f, S) + f[y]
  BY <1>3
<1> QED BY <1>4, <1>5, Zenon DEF T

\* Sums are added term by term,
LEMMA SumPlus ==
  ASSUME NEW S, IsFiniteSet(S), NEW f, NEW g, NEW h,
         \A x \in S : f[x] \in Int /\ g[x] \in Int /\ h[x] = f[x] + g[x]
  PROVE  SumFunctionOnSet(h, S) = SumFunctionOnSet(f, S) + SumFunctionOnSet(g, S)
<1> DEFINE Plus(T) == SumFunctionOnSet(h, T) = SumFunctionOnSet(f, T) + SumFunctionOnSet(g, T)
           P       == {T \in SUBSET S : Plus(T)}
<1>1. {} \in P
  BY SumEmpty
<1>2. ASSUME NEW T \in P, NEW x \in S \ T PROVE T \cup {x} \in P
  <2>1. /\ IsFiniteSet(T) /\ T \in SUBSET S /\ x \notin T
        /\ \A z \in T : f[z] \in Int /\ g[z] \in Int /\ h[z] \in Int
        /\ f[x] \in Int /\ g[x] \in Int /\ h[x] \in Int
    BY FS_Subset
  <2> HIDE DEF P
  <2>2. /\ SumFunctionOnSet(f, T \cup {x}) = SumFunctionOnSet(f, T) + f[x]
        /\ SumFunctionOnSet(g, T \cup {x}) = SumFunctionOnSet(g, T) + g[x]
        /\ SumFunctionOnSet(h, T \cup {x}) = SumFunctionOnSet(h, T) + h[x]
    <3>1. ASSUME NEW e, \A z \in T : e[z] \in Int, e[x] \in Int
          PROVE  SumFunctionOnSet(e, T \cup {x}) = SumFunctionOnSet(e, T) + e[x]
      BY <2>1, <3>1, SumAdds
    <3> QED BY <2>1, <3>1
  <2>3. SumFunctionOnSet(f, T) \in Int /\ SumFunctionOnSet(g, T) \in Int
    BY <2>1, SumTyped
  <2>4. Plus(T \cup {x})
    <3>1. Plus(T)
      BY DEF P
    <3> QED BY <2>1, <2>2, <2>3, <3>1
  <2> HIDE DEF Plus
  <2> QED BY <2>4 DEF P
<1>3. S \in P
  <2> HIDE DEF P
  <2>1. P \in SUBSET (SUBSET S)
    BY DEF P
  <2> QED BY <1>1, <1>2, <2>1, AddUp
<1> QED BY <1>3

\* and compared term by term.
LEMMA SumLess ==
  ASSUME NEW S, IsFiniteSet(S), NEW f, NEW g,
         \A x \in S : f[x] \in Int /\ g[x] \in Int /\ f[x] <= g[x]
  PROVE  SumFunctionOnSet(f, S) <= SumFunctionOnSet(g, S)
<1> DEFINE Less(T) == SumFunctionOnSet(f, T) <= SumFunctionOnSet(g, T)
           P       == {T \in SUBSET S : Less(T)}
<1>1. {} \in P
  BY SumEmpty
<1>2. ASSUME NEW T \in P, NEW x \in S \ T PROVE T \cup {x} \in P
  <2>1. IsFiniteSet(T) /\ T \in SUBSET S
    BY FS_Subset
  <2>2. /\ SumFunctionOnSet(f, T \cup {x}) = SumFunctionOnSet(f, T) + f[x]
        /\ SumFunctionOnSet(g, T \cup {x}) = SumFunctionOnSet(g, T) + g[x]
    BY <2>1, SumAdds
  <2>3. SumFunctionOnSet(f, T) \in Int /\ SumFunctionOnSet(g, T) \in Int
    BY <2>1, SumTyped
  <2>4. Less(T \cup {x})
    BY <2>2, <2>3
  <2> HIDE DEF Less
  <2> QED BY <2>4
<1>3. S \in P
  <2> HIDE DEF P
  <2>1. P \in SUBSET (SUBSET S)
    BY DEF P
  <2> QED BY <1>1, <1>2, <2>1, AddUp
<1> QED BY <1>3

\* What is 0 outside of T sums up to what it does in T.
LEMMA SumWithin ==
  ASSUME NEW S, IsFiniteSet(S), NEW T \in SUBSET S, NEW f,
         \A x \in S : f[x] \in Int, \A x \in S \ T : f[x] = 0
  PROVE  SumFunctionOnSet(f, S) = SumFunctionOnSet(f, T)
<1> DEFINE Rest    == S \ T
           Same(U) == SumFunctionOnSet(f, T \cup U) = SumFunctionOnSet(f, T)
           P       == {U \in SUBSET Rest : Same(U)}
<1>1. IsFiniteSet(Rest) /\ IsFiniteSet(T)
  BY FS_Subset
<1>2. {} \in P
  OBVIOUS
<1>3. ASSUME NEW U \in P, NEW x \in Rest \ U PROVE U \cup {x} \in P
  <2> DEFINE V == T \cup U
  <2>1. V \in SUBSET S /\ IsFiniteSet(V) /\ x \notin V /\ f[x] = 0
    BY FS_Subset
  <2>2. SumFunctionOnSet(f, V \cup {x}) = SumFunctionOnSet(f, V) + f[x]
    <3> HIDE DEF V
    <3> QED BY <2>1, SumAdds
  <2>3. SumFunctionOnSet(f, V) = SumFunctionOnSet(f, T) /\ SumFunctionOnSet(f, V) \in Int
    <3>1. SumFunctionOnSet(f, V) = SumFunctionOnSet(f, T)
      OBVIOUS
    <3> HIDE DEF V
    <3> QED BY <2>1, <3>1, SumTyped
  <2>4. T \cup (U \cup {x}) = V \cup {x}
    OBVIOUS
  <2> HIDE DEF V
  <2>5. SumFunctionOnSet(f, V \cup {x}) = SumFunctionOnSet(f, T)
    BY <2>1, <2>2, <2>3
  <2>6. Same(U \cup {x})
    BY <2>4, <2>5
  <2> HIDE DEF Same
  <2> QED BY <2>6
<1>4. Rest \in P
  <2> HIDE DEF P, Rest
  <2>1. P \in SUBSET (SUBSET Rest)
    BY DEF P
  <2> QED BY <1>1, <1>2, <1>3, <2>1, AddUp
<1>5. T \cup Rest = S
  OBVIOUS
<1> QED BY <1>4, <1>5

\* A sum of natural numbers is no less than each of them.
LEMMA SumExceeds ==
  ASSUME NEW S, IsFiniteSet(S), NEW f, \A x \in S : f[x] \in Nat, NEW y \in S
  PROVE  SumFunctionOnSet(f, S) \in Nat /\ SumFunctionOnSet(f, S) >= f[y]
<1>1. IsFiniteSet(S \ {y}) /\ \A x \in S \ {y} : f[x] \in Nat
  BY FS_RemoveElement
<1>2. SumFunctionOnSet(f, S \ {y}) \in Nat /\ SumFunctionOnSet(f, S) \in Nat
  BY <1>1, SumTyped
<1>3. SumFunctionOnSet(f, S) = f[y] + SumFunctionOnSet(f, S \ {y})
  BY SumSplits
<1> QED BY <1>2, <1>3
=============================================================================
